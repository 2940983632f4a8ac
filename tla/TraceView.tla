------------------------------ MODULE TraceView ------------------------------
(***************************************************************************)
(* The view of a trace that both browsers are built on (browser/browse.cpp *)
(* and browse.hh): which lines folding leaves visible, and where the user  *)
(* is.                                                                     *)
(*                                                                         *)
(* Physical lines count from 1, visible lines from 0.  An index is a       *)
(* record: its seqtree and its by-PC entries.  A view is a record: the     *)
(* tree of regions that are folded alike, the visible node the position    *)
(* underlines, and the logical node whose state the windows show.          *)
(***************************************************************************)
EXTENDS Navigator

LOCAL INSTANCE SequencesExt
LOCAL INSTANCE FiniteSetsExt

CONSTANT ExceptionPC    \* CPU_EXCEPTION_PC

Min2(a, b) == IF a <= b THEN a ELSE b
Max0(a) == IF a < 0 THEN 0 ELSE a

Indexed(records) == [tree |-> SeqTreeOf(records), bypc |-> ByPC(records)]

AllDepths == <<0, UintMax>>

(* One past the last line of a node. *)
After(r) == r.first + r.lines

-----------------------------------------------------------------------------
(* The tree of regions. *)

(* A region: its first and last physical line, the range of depths that is *)
(* visible in it, the index its first line has or would have if all of the *)
(* trace were folded like it, and its number of visible lines.             *)
Region(lo, hi, depths, quasi, vis) ==
  [space |-> 0, lo |-> lo, hi |-> hi, depths |-> depths, quasi |-> quasi,
   vis |-> vis, line |-> 0]

NoRegion == Region(0, -1, <<0, 0>>, 0, 0)

Nothing == Own(NoRegion)
CountsIn(t) == IF t = Nil THEN Nothing ELSE t.annotation

(* Both searchers, by physical and by visible lines: the region the target *)
(* falls in, or the end of the last one, and what is left before it.  A    *)
(* target beyond the end throws, and so does one below 0, which wraps.     *)
RECURSIVE RegionAt(_, _, _, _)
RegionAt(t, by, target, before) ==
  LET l == CountsIn(t.lc)
      own == Own(t.payload)
      inRegion == target - l[by]
      beyond == inRegion - own[by]
      left == inRegion < 0
      last == t.rc = Nil
      here == ~left /\ (beyond < 0 \/ (beyond = 0 /\ last))
      right == ~left /\ ~last /\ beyond <= CountsIn(t.rc)[by]
  IN CASE target >= 0 /\ here ->
            [ok |-> TRUE, region |-> t.payload, before |-> Joined(before, l)]
       [] target >= 0 /\ ~here /\ (left \/ right) ->
            RegionAt(Side(t, left), by,
                     IF left THEN target ELSE beyond,
                     IF left THEN before ELSE Joined(before, Joined(l, own)))
       [] OTHER -> [ok |-> FALSE, region |-> NoRegion, before |-> before]

(* visible_to_physical_line, from the region the searcher found *)
PhysicalIn(ix, at, visline) ==
  [ok |-> at.ok,
   line |-> IF at.ok
            THEN 1 + at.before.phys
                   + LRTRange(ix.tree, at.region.quasi,
                              at.region.quasi + visline - at.before.vis,
                              at.region.depths, AllDepths)
            ELSE 0]

VisibleToPhysical(ix, folds, visline) ==
  PhysicalIn(ix, RegionAt(folds, "vis", visline, Nothing), visline)

(* physical_to_visible_line *)
VisibleIndex(ix, at, physline) ==
  at.before.vis + LRTRange(ix.tree, at.region.lo - 1, physline - 1,
                           AllDepths, at.region.depths)

PhysicalToVisible(ix, folds, physline) ==
  VisibleIndex(ix, RegionAt(folds, "phys", physline - 1, Nothing), physline)

TotalVisibleLines(folds) == CountsIn(folds).vis

(* set_fold_state: what is left of the regions that overlap the new one    *)
(* goes back in; a part on the right keeps its last quasi-visible line.    *)
VisibleIn(ix, first, last, depths) ==
  LRTRange(ix.tree, first - 1, last, AllDepths, depths)

LeftPart(ix, old, end) ==
  [old EXCEPT !.hi = end, !.vis = VisibleIn(ix, old.lo, end, old.depths)]

(* Mutant: the index of its first line stays what it was.                  *)
LastPartKeepsQuasi(old, start, vis) ==
  [old EXCEPT !.lo = start, !.vis = vis]

LastPart(old, start, vis) ==
  [old EXCEPT !.lo = start, !.vis = vis, !.quasi = old.quasi + old.vis - vis]

RightPart(ix, old, start) ==
  LastPart(old, start, VisibleIn(ix, start, old.hi, old.depths))

Kept(ix, tree, old, region) ==
  LET left == IF old.lo < region.lo
              THEN Insert(tree, LeftPart(ix, old, region.lo - 1))
              ELSE tree
  IN IF old.hi > region.hi
     THEN Insert(left, RightPart(ix, old, region.hi + 1))
     ELSE left

RECURSIVE Cleared(_, _, _, _)
Cleared(ix, folds, region, removal) ==
  IF removal.found
  THEN LET folds1 == Kept(ix, removal.tree, removal.payload, region)
       IN Cleared(ix, folds1, region, Removed(folds1, region))
  ELSE folds

WithRegion(ix, folds, region) ==
  Insert(Cleared(ix, folds, region, Removed(folds, region)), region)

NewRegion(first, last, depths, quasi, end) ==
  Region(first, last, depths, quasi, end - quasi)

SetFoldState(ix, folds, first, last, depths) ==
  WithRegion(ix, folds,
             NewRegion(first, last, depths,
                       LRT(ix.tree, first - 1, AllDepths, depths),
                       LRT(ix.tree, last, AllDepths, depths)))

-----------------------------------------------------------------------------
(* Positions. *)

(* The constructor: one region, with nothing folded. *)
LastLine(ix) == After(BufferLimit(ix.tree, TRUE)) - 1

NewView(ix) ==
  [folds |-> SetFoldState(ix, Nil, 1, LastLine(ix), AllDepths),
   vis |-> NoRecord, log |-> NoRecord]

NodeAt(ix, phys) ==
  IF phys.ok THEN NodeAtLine(ix.tree, phys.line) ELSE NoRecord

NodeByVisline(ix, v, visline) ==
  NodeAt(ix, VisibleToPhysical(ix, v.folds, visline))

(* Mutant of VisibleNode: the first visible line after the logical node.   *)
VisibleNodeAfter(ix, v, next) ==
  IF next >= 1 THEN NodeByVisline(ix, v, next) ELSE v.log

(* update_visible_node: the last visible line before the logical node ends *)
VisibleNode(ix, v, next) ==
  IF next >= 1 THEN NodeByVisline(ix, v, next - 1) ELSE v.log

UpdateVisible(ix, v) ==
  [v EXCEPT !.vis =
     VisibleNode(ix, v, PhysicalToVisible(ix, v.folds, After(v.log)))]

(* visible_to_logical_node: the node before the next visible line.         *)
VisibleToLogical(ix, v, node) ==
  LET line == PhysicalToVisible(ix, v.folds, After(node) - 1)
  IN NodeAtLine(ix.tree, VisibleToPhysical(ix, v.folds, line + 1).line - 1)

UpdateLogical(ix, v) == [v EXCEPT !.log = VisibleToLogical(ix, v, v.vis)]

PositionHidden(ix, v) == VisibleToLogical(ix, v, v.vis).first # v.log.first

NextVisible(ix, v, node) ==
  NodeByVisline(ix, v, PhysicalToVisible(ix, v.folds, After(node) - 1) + 1)

VisibleBefore(ix, v, visline) ==
  IF visline > 1 THEN NodeByVisline(ix, v, visline - 1) ELSE NoRecord

PrevVisible(ix, v, node) ==
  VisibleBefore(ix, v, PhysicalToVisible(ix, v.folds, node.first))

(* The goto functions leave the view alone where there is nothing to go to.*)
GotoNode(ix, v, node) ==
  IF node = NoRecord THEN v ELSE UpdateVisible(ix, [v EXCEPT !.log = node])

GotoVisibleNode(ix, v, node) ==
  IF node = NoRecord THEN v ELSE UpdateLogical(ix, [v EXCEPT !.vis = node])

LineTarget(ix, line) == NodeAtLine(ix.tree, line)
TimeTarget(ix, time) == NodeAtTime(ix.tree, time, NoRecord)

(* goto_pc aims at the state before the instruction is executed.           *)
PCTarget(ix, v, pc, dir) ==
  LET key == <<pc, After(v.log) + dir>>
      found == IF dir > 0 THEN PCSucc(ix.bypc, key) ELSE PCPred(ix.bypc, key)
  IN IF \E x \in found : x[1] = pc
     THEN LineTarget(ix, Max0((CHOOSE x \in found : TRUE)[2] - 1))
     ELSE NoRecord

ExceptionTarget(ix, v, dir) == PCTarget(ix, v, ExceptionPC, dir)

(* get_current_pc: the pc of the node after the logical one, if there is.  *)
CurrentPCs(ix, v) ==
  {r.pc : r \in {GetNextNode(ix.tree, v.log)} \ {NoRecord}}

-----------------------------------------------------------------------------
(* What can be folded and unfolded. *)

NoRange == [first |-> 0, last |-> 0, depth |-> 0]

(* Mutant of FunctionAround: it begins with the line before the call.       *)
FunctionAroundAndCaller(ix, depth, folded) ==
  [first |-> LRT(ix.tree, folded - 1, <<0, depth>>, AllDepths) + 1,
   last |-> LRT(ix.tree, folded, <<0, depth>>, AllDepths),
   depth |-> depth]

(* physline_range_for_containing_function: around the node, or the call    *)
(* that the next visible node is in; between two lines that are not deeper *)
(* than the call.                                                          *)
FunctionAround(ix, depth, folded) ==
  [first |-> LRT(ix.tree, folded - 1, <<0, depth>>, AllDepths) + 2,
   last |-> LRT(ix.tree, folded, <<0, depth>>, AllDepths),
   depth |-> depth]

FunctionOfDepth(ix, node, depth) ==
  IF depth = 0
  THEN NoRange
  ELSE FunctionAround(ix, depth,
                      LRT(ix.tree, After(node) - 1, AllDepths, <<0, depth>>))

ContainingFunction(ix, v, node) ==
  FunctionOfDepth(ix, node, Max2(node.depth, NextVisible(ix, v, node).depth))

(* physline_range_for_folded_function_after *)
HiddenAfter(node, log) ==
  IF log.first = node.first
  THEN NoRange
  ELSE [first |-> After(node), last |-> After(log) - 1, depth |-> log.depth + 1]

FoldedFunctionAfter(ix, v, node) ==
  HiddenAfter(node, VisibleToLogical(ix, v, node))

(* node_fold_state *)
NodeFoldState(ix, v, node) ==
  LET succ == GetNextNode(ix.tree, node)
  IN CASE succ = NoRecord \/ succ.depth <= node.depth -> "leaf"
       [] succ.depth > node.depth /\ NextVisible(ix, v, node) = succ -> "unfolded"
       [] OTHER -> "folded"

-----------------------------------------------------------------------------
(* What windows on registers and memory show. *)

Address(a) == a % AddrSpan

(* getmem for its line: when a range was touched last, as far as known.    *)
LastTouched(mem, space, lo, hi) ==
  Max({GetByte(mem, space, a) : a \in lo .. hi} \cup {0})

(* What a record reads or writes, and its lines: get_trace_line gives an   *)
(* empty one beyond the last, and any of the others may access nothing.    *)
Accesses(node) ==
  {p \in ToSet(Payloads(node.mem)) : p.line = node.first}

NoAccess == Interval(Memory, 0, -1, 0)

AccessesOfLine(node, lineno) ==
  {NoAccess} \cup {p \in Accesses(node) : lineno < node.lines}

(* Address expressions: a number, or the register that 'sp' names.  What a *)
(* register holds depends on the record that wrote it last.                *)
Constant(a) == [variable |-> FALSE, address |-> a]
StackPointer == [variable |-> TRUE, address |-> 0]

(* get_reg_value, if the register has been written. *)
RegValues(mem, reg) == {GetByte(mem, Registers, reg)} \ {0}

Evaluations(v, expr) ==
  IF expr.variable
  THEN {Address(value) : value \in RegValues(v.log.mem, 0)}
  ELSE {Address(expr.address)}
=============================================================================
