----------------------------- MODULE MCIndexer -----------------------------
(***************************************************************************)
(* Properties of Indexer that compare a finished index with the trace it   *)
(* was made from, and the traces TLC tries.                                *)
(***************************************************************************)
EXTENDS Indexer, FiniteSets, FiniteSetsExt, SequencesExt

Insn(time, pc, iset) == [kind |-> "insn", time |-> time, pc |-> pc,
                         width |-> IF iset = "THUMB" THEN 2 ELSE 4,
                         iset |-> iset]
Reg(time, cell, value) == [kind |-> "reg", time |-> time, cell |-> cell,
                           value |-> value]
Other(kind, time) == [kind |-> kind, time |-> time]
Of(bytes, events) == [bytes |-> bytes, events |-> events]

Times(n, lines) == [i \in 1 .. n |-> lines]

(* Times that rise, stay and fall, records of several lines, lines of no   *)
(* and of two events, and both AArch32 instruction sets.                   *)
EventLoop ==
  [last |-> BOOLEAN, iflags |-> {"A32"}, insns |-> {2},
   lines |-> Times(5, {Of(4, <<Insn(t, 8, "ARM")>>) : t \in {1, 2}}
                      \cup {Of(3, <<Insn(2, 5, "THUMB")>>), Of(1, <<>>),
                            Of(2, <<Other("exception", 1)>>),
                            Of(2, <<Other("text", 3)>>),
                            Of(3, <<Reg(2, "r13", 7)>>),
                            Of(5, <<Other("text", 2), Other("text", 2)>>)})]

(* Calls from 0 and 40 that return to 8 and 40, on two stack levels.       *)
CallsAndReturns ==
  LET Insns == {Of(2, <<Insn(1, pc, "ARM")>>) : pc \in {0, 8, 40}}
      Links == {Of(2, <<Reg(1, "r14", lr)>>) : lr \in {8, 40}}
      Stacks == {Of(2, <<Reg(1, "r13", sp)>>) : sp \in {1, 2}}
  IN [last |-> {FALSE}, iflags |-> {"A32"}, insns |-> {2},
      lines |-> <<{Of(2, <<Insn(1, 0, "ARM")>>)}, Links \cup Stacks,
                  Insns \cup Links>>
                \o Times(4, Insns \cup Links \cup Stacks) \o <<Insns>>]

(* Both register files, before and after the first instruction. *)
ModeSwitches ==
  [last |-> {FALSE}, iflags |-> States, insns |-> 0 .. 2,
   lines |-> Times(4, {Of(2, <<Insn(1, pc, iset)>>) :
                         pc \in {0, 40}, iset \in {"ARM", "A64"}}
                      \cup {Of(2, <<Reg(1, cell, 4)>>) : cell \in Cells})]

(* Calls from 0 at stack pointer 5 and from 40 at 3 that cross: the stack  *)
(* pointer is back at 5 when the first returns, and the second returns, in *)
(* either execution state, with the stack pointer of that state 3 or 5.    *)
CrossingCalls ==
  LET Insn1(pc, iset) == Of(2, <<Insn(1, pc, iset)>>)
      Reg1(cell, value) == Of(2, <<Reg(1, cell, value)>>)
      One(l) == {l}
  IN [last |-> {FALSE}, iflags |-> {"A32"}, insns |-> {2},
      lines |->
        <<One(Insn1(0, "ARM")), One(Reg1("r13", 5)), One(Insn1(4, "ARM")),
          One(Reg1("r14", 8)), One(Insn1(40, "ARM")),
          {Reg1("r13", sp) : sp \in {3, 5}}, One(Insn1(44, "ARM")),
          One(Reg1("r14", 48)), One(Insn1(80, "ARM")), One(Reg1("r13", 5)),
          One(Insn1(84, "ARM")), One(Insn1(8, "ARM")),
          {Reg1(cell, sp) : cell \in {"r13", "xsp"}, sp \in {3, 5}}>>
        \o Times(2, {Insn1(48, iset) : iset \in {"ARM", "A64"}})]

AllTraces == [events |-> EventLoop, calls |-> CallsAndReturns,
              modes |-> ModeSwitches, crossing |-> CrossingCalls]

-----------------------------------------------------------------------------
Complete == phase = "complete"

(* The lines of a record, as places in the trace. *)
LinesOf(r) == {i \in DOMAIN trace :
                 r.line + lineno_offset <= i
                 /\ i < r.line + lineno_offset + r.lines}

FirstEvent == Min({i \in DOMAIN trace : trace[i].events # <<>>})

(* The events of some lines, each by its line and its place in it, and     *)
(* those of one kind.                                                      *)
Places(lines) == UNION {{i} \X DOMAIN trace[i].events : i \in lines}
At(p) == trace[p[1]].events[p[2]]
OfKind(lines, kind) == {p \in Places(lines) : At(p).kind = kind}

LastOf(places) ==
  At(CHOOSE p \in places :
       \A q \in places : q[1] < p[1] \/ (q[1] = p[1] /\ q[2] <= p[2]))

(* The length of the first n of some lines. *)
SizeOf(lines, n) ==
  LET upTo[k \in 0 .. Len(lines)] ==
        IF k = 0 THEN 0 ELSE upTo[k - 1] + lines[k].bytes
  IN upTo[n]

BytesBefore(i) == SizeOf(trace, i - 1)

(* A record says of its lines what they say: it begins at the byte its     *)
(* first line begins at, has the latest time seen so far, and the pc of    *)
(* the one instruction among them or none.  Consecutive lines of one time  *)
(* are in one record unless each has its own instruction.                  *)
RecordDescribed(k) ==
  LET r == seqtree[k]
      insns == OfKind(LinesOf(r), "insn")
  IN /\ r.pos = BytesBefore(r.line + lineno_offset)
     /\ \A i \in LinesOf(r) : r.time = Max({At(p).time : p \in Places(1 .. i)})
     /\ \/ insns = {} /\ r.pc = KNOWN_INVALID_PC
        \/ \E p \in insns : insns = {p} /\ r.pc = Adjusted(At(p))
     /\ k > 1 /\ seqtree[k - 1].time = r.time =>
          /\ \E p \in insns : p[1] = r.line + lineno_offset
          /\ OfKind(LinesOf(seqtree[k - 1]), "insn") # {}

RecordsDescribeTrace ==
  Complete =>
    /\ \A k \in DOMAIN seqtree : RecordDescribed(k)
    /\ UNION {LinesOf(seqtree[k]) : k \in DOMAIN seqtree}
         = FirstEvent .. Len(trace)
    /\ LET size == BytesBefore(Len(trace) + 1) - (IF eof THEN 1 ELSE 0)
           r == Last(seqtree)
       IN r.pos + r.len = size

(* The memory tree of a record is the state just after its events: of each *)
(* register the last value written by then, and of the execution state the *)
(* last instruction's, although it is only written when last_mem, an older *)
(* tree, has another one.                                                  *)
WritesIn(lines, cell) == {p \in OfKind(lines, "reg") : At(p).cell = cell}

MemoryDescribed(r) ==
  LET upTo == 1 .. r.line + lineno_offset + r.lines - 1
      insns == OfKind(upTo, "insn")
  IN /\ \A cell \in Cells :
          LET writes == WritesIn(upTo, cell)
          IN r.mem.cell[cell] = IF writes = {} THEN Unknown
                                ELSE LastOf(writes).value
     /\ r.mem.iflags = IF insns = {} THEN Unknown
                       ELSE StateOf(LastOf(insns).iset)

MemoryAsOfRecord ==
  Complete => \A k \in DOMAIN seqtree : MemoryDescribed(seqtree[k])

(* The by-PC tree finds every visit to an address, and every CPU           *)
(* exception, at the record it is part of, and nothing else.               *)
Visit(r) == [pc |-> 2 * (r.pc \div 2), line |-> r.line]
ExceptionAt(r) == [pc |-> CPU_EXCEPTION_PC, line |-> r.line]

ByPCExact ==
  Complete =>
    LET records == {seqtree[k] : k \in DOMAIN seqtree}
    IN bypctree =
         {Visit(r) : r \in {s \in records : s.pc # KNOWN_INVALID_PC}}
         \cup {ExceptionAt(r) :
                 r \in {s \in records : OfKind(LinesOf(s), "exception") # {}}}

(* The three trees of the index say of the trace what its lines say.       *)
IndexDescribesTrace ==
  RecordsDescribeTrace /\ MemoryAsOfRecord /\ ByPCExact
====
