-------------------------------- MODULE MCView --------------------------------
(***************************************************************************)
(* What folds and positions mean, line by line, and the traces that TLC    *)
(* lets both browsers browse.                                              *)
(***************************************************************************)
EXTENDS TraceView

LOCAL INSTANCE SequencesExt
LOCAL INSTANCE FiniteSetsExt

-----------------------------------------------------------------------------
(* Traces.  A step is the depth, the number of lines and the pc of a       *)
(* record, and the intervals it touches.  The last record is at depth 0,   *)
(* for the index only counts calls that return.                            *)
Step3(depth, lines, pc, touched) ==
  [depth |-> depth, lines |-> lines, pc |-> pc, touched |-> touched]

Recorded(records, step) ==
  LET before == IF records = <<>> THEN [NoRecord EXCEPT !.first = 1,
                                                        !.mem = Nil]
                ELSE Last(records)
      first == After(before)
  IN Append(records,
       [first |-> first, lines |-> step.lines, depth |-> step.depth,
        time |-> 10 * Len(records), pc |-> step.pc,
        mem |-> FoldLeft(LAMBDA t, r : MemUpdated(t, Interval(r[1], r[2], r[3],
                                                              first)),
                         before.mem, step.touched)])

TraceOf(steps) == FoldLeft(Recorded, <<>>, steps)

Plain(depth, lines) == Step3(depth, lines, depth, <<>>)

(* A call in a call, a call of one line, and a record of several lines.    *)
NestedCalls ==
  TraceOf(<<Plain(0, 1), Plain(1, 1), Plain(2, 2), Plain(1, 1), Plain(0, 1),
            Plain(1, 1), Plain(0, 1)>>)

OneCall == TraceOf(<<Plain(0, 1), Plain(1, 1), Plain(0, 1)>>)

(* A call in a call, of one line each. *)
CallInCall ==
  TraceOf(<<Plain(0, 1), Plain(1, 1), Plain(2, 1), Plain(1, 1), Plain(0, 1)>>)

(* A call, and memory touched again in it. *)
CallWithAccess ==
  TraceOf(<<Step3(0, 1, 0, <<<<Memory, 6, 7>>>>),
            Step3(1, 1, 1, <<<<Memory, 6, 6>>>>), Plain(0, 1)>>)

(* A loop that runs into an exception, in records taller than a small      *)
(* screen.                                                                 *)
Loop ==
  TraceOf(<<Step3(0, 1, 5, <<>>), Step3(0, 3, 6, <<>>), Step3(0, 1, 5, <<>>),
            Step3(0, 1, ExceptionPC, <<>>), Step3(1, 1, 6, <<>>),
            Step3(0, 1, 5, <<>>)>>)

(* Registers and memory that change, together and apart, and are read in   *)
(* pieces.                                                                 *)
Changes ==
  TraceOf(<<Step3(0, 1, 1, <<>>),
            Step3(0, 2, 2, <<<<Registers, 0, 0>>, <<Memory, 0, 3>>>>),
            Step3(1, 1, 3, <<<<Registers, 1, 2>>>>),
            Step3(0, 1, 4, <<<<Memory, 1, 1>>, <<Registers, 0, 0>>>>)>>)

FewChanges ==
  TraceOf(<<Step3(0, 1, 1, <<<<Registers, 1, 2>>>>),
            Step3(0, 2, 2, <<<<Registers, 0, 0>>, <<Memory, 0, 3>>>>),
            Step3(0, 1, 3, <<<<Memory, 1, 1>>>>)>>)

-----------------------------------------------------------------------------
RecordsOf(ix) == {p.record : p \in ToSet(Payloads(ix.tree))}

LinesOf(ix) == 1 .. LastLine(ix)
DepthAt(ix, line) == NodeAtLine(ix.tree, line).depth

RegionsOf(v) == Payloads(v.folds)

VisibleLines(ix, v) ==
  UNION {{line \in r.lo .. r.hi : DepthAt(ix, line) < r.depths[2]} :
         r \in ToSet(RegionsOf(v))}

(* The line a position underlines is visible, and the record whose state   *)
(* is shown is that one or one hidden behind it.                           *)
Coherent(v, visible) ==
  /\ v.vis.first \in visible
  /\ v.log.first >= v.vis.first
  /\ visible \cap (After(v.vis) .. After(v.log) - 1) = {}
=============================================================================
