------------------------------ MODULE Navigator ------------------------------
(***************************************************************************)
(* The finished index as the tools read it (lib/index.cpp): the seqtree    *)
(* with its call depth arrays, which make it a layered range tree, the     *)
(* by-PC tree, the memory trees, and the queries of IndexNavigator on      *)
(* them.                                                                   *)
(*                                                                         *)
(* A record is a SeqOrderPayload: its first line, its number of lines, its *)
(* call depth, time and pc, and the root of its memory tree.  A memory     *)
(* interval has the first line of the record that touched it last; that    *)
(* line also stands for its contents.  How shared sub-trees hold what was  *)
(* read later is MemTree's concern: here every interval has contents.      *)
(***************************************************************************)
EXTENDS AVLMem, FiniteSets

LOCAL INSTANCE SequencesExt
LOCAL INSTANCE FiniteSetsExt

CONSTANTS
  UintMax,        \* UINT_MAX; SENTINEL_DEPTH is one less
  AddrSpan        \* addresses are 0 .. AddrSpan - 1

SentinelDepth == UintMax - 1

(* A finite set of numbers from the least to the greatest. *)
Ascending(S) ==
  [i \in 1 .. Cardinality(S) |->
     CHOOSE x \in S : Cardinality({y \in S : y < x}) = i - 1]

-----------------------------------------------------------------------------
(* The seqtree: an AVL tree into which the pass put the records in order.  *)

Placed(r) ==
  [space |-> 0, lo |-> r.first, hi |-> r.first + r.lines - 1, vis |-> 0,
   line |-> 0, record |-> r]

Entry(depth, lines, left, right) ==
  [depth |-> depth, lines |-> lines, left |-> left, right |-> right]

(* The array of a missing child is empty. *)
ArrayOf(t) == IF t = Nil THEN <<>> ELSE t.annotation

(* How many entries of an array the merge has passed when it comes to      *)
(* depth d, and how many lines it has added up on the way.                 *)
Passed(a, d) == Cardinality({j \in DOMAIN a : a[j].depth < d})

LinesPassed(a, d) ==
  MapThenSumSet(LAMBDA j : a[j + 1].lines - a[j].lines,
                {j \in 1 .. Passed(a, d) : j < Len(a)})

(* CallDepthArrayTreeWalker: the array of a node from the node itself and  *)
(* the arrays of its children.                                             *)
MergedArray(p, left, right) ==
  LET own == <<Entry(p.depth, 0, 0, 0), Entry(SentinelDepth, p.lines, 0, 0)>>
      depths == {a.depth : a \in ToSet(own) \cup ToSet(left) \cup ToSet(right)}
      At(d) == Entry(d, LinesPassed(own, d) + LinesPassed(left, d)
                          + LinesPassed(right, d),
                     Passed(left, d), Passed(right, d))
      sorted == Ascending(depths)
  IN [i \in DOMAIN sorted |-> At(sorted[i])]

(* build_call_tree's second walk, children first. *)
RECURSIVE WithArrays(_)
WithArrays(t) ==
  IF t = Nil
  THEN t
  ELSE LET lc == WithArrays(t.lc)
           rc == WithArrays(t.rc)
       IN [t EXCEPT !.lc = lc, !.rc = rc,
                    !.annotation = MergedArray(t.payload.record, ArrayOf(lc),
                                               ArrayOf(rc))]

SeqTreeOf(records) ==
  WithArrays(FoldLeft(LAMBDA t, r : Insert(t, Placed(r)), Nil, records))

-----------------------------------------------------------------------------
(* lrt_translate.  Array indices count from 0 as in the code.              *)

Elem(a, i) == a[i + 1]

(* find_depth: the first entry of the depth or more, and never beyond the  *)
(* sentinel.                                                               *)
FindDepth(a, d) == IF Passed(a, d) >= Len(a) THEN Len(a) - 1 ELSE Passed(a, d)

(* The four indices for the ends of the two depth ranges, and where they   *)
(* lead in a child.                                                        *)
Indices(a, in, out) ==
  [mini |-> FindDepth(a, in[1]), maxi |-> FindDepth(a, in[2]),
   mino |-> FindDepth(a, out[1]), maxo |-> FindDepth(a, out[2])]

LeftLinks(a, ix) == [k \in DOMAIN ix |-> Elem(a, ix[k]).left]
RightLinks(a, ix) == [k \in DOMAIN ix |-> Elem(a, ix[k]).right]

LinesIn(a, lo, hi) == Elem(a, hi).lines - Elem(a, lo).lines

InRange(d, range) == range[1] <= d /\ d < range[2]

OutOfRange == [ok |-> FALSE, line |-> 0]

(* The lines of a child and of a record that count. *)
ChildLines(c, lo, hi) ==
  IF c = Nil THEN 0 ELSE LinesIn(c.annotation, lo, hi)

OwnLines(p, range) == IF InRange(p.depth, range) THEN p.lines ELSE 0

(* IndexLRTSearcher: target counts lines in the range in, output those in  *)
(* the range out that are already left behind, inL and outL those of the   *)
(* left child; lx and rx are the indices in the children's arrays.         *)
RECURSIVE LRTSearch(_, _, _, _, _, _), LRTVisit(_, _, _, _, _, _, _, _, _)
LRTSearch(t, ix, target, output, in, out) ==
  LET lx == LeftLinks(t.annotation, ix)
  IN LRTVisit(t, lx, RightLinks(t.annotation, ix),
              ChildLines(t.lc, lx.mini, lx.maxi),
              ChildLines(t.lc, lx.mino, lx.maxo), target, output, in, out)

LRTVisit(t, lx, rx, inL, outL, target, output, in, out) ==
  LET p == t.payload.record
      rest == target - inL
      left == target < inL
      here == /\ ~left /\ InRange(p.depth, in)
              /\ rest < p.lines \/ (rest = p.lines /\ t.rc = Nil)
      right == /\ ~left /\ t.rc # Nil
               /\ rest - OwnLines(p, in) <= ChildLines(t.rc, rx.mini, rx.maxi)
  IN CASE here ->
            [ok |-> TRUE,
             line |-> output + outL + IF InRange(p.depth, out) THEN rest ELSE 0]
       [] ~here /\ (left \/ right) ->
            LRTSearch(Side(t, left), IF left THEN lx ELSE rx,
                      IF left THEN target ELSE rest - OwnLines(p, in),
                      IF left THEN output ELSE output + outL + OwnLines(p, out),
                      in, out)
       [] OTHER -> OutOfRange

(* lrt_translate_may_fail; a line below 0 wraps to one beyond every trace. *)
LRTTranslate(t, line, in, out) ==
  IF t = Nil \/ line < 0
  THEN OutOfRange
  ELSE LRTSearch(t, Indices(t.annotation, in, out), line, 0, in, out)

(* lrt_translate and lrt_translate_range, which assert success.            *)
LRT(t, line, in, out) == LRTTranslate(t, line, in, out).line

LRTRange(t, start, end, in, out) == LRT(t, end, in, out) - LRT(t, start, in, out)

-----------------------------------------------------------------------------
(* Records by line and time.                                               *)

NoRecord == [first |-> 0, lines |-> 0, depth |-> 0, time |-> 0, pc |-> 0,
             mem |-> 0]

(* node_at_line: the tree's find with SeqLineFinder. *)
RECURSIVE NodeAtLine(_, _)
NodeAtLine(t, line) ==
  CASE t = Nil -> NoRecord
    [] t # Nil /\ line \in t.payload.lo .. t.payload.hi -> t.payload.record
    [] OTHER -> NodeAtLine(Side(t, line < t.payload.lo), line)

GetNextNode(t, r) == NodeAtLine(t, r.first + r.lines)
GetPreviousNode(t, r) == NodeAtLine(t, r.first - 1)

(* node_at_time: find_rightmost with SeqTimeFinder is the last record of   *)
(* that very time.                                                         *)
RECURSIVE NodeAtTime(_, _, _)
NodeAtTime(t, time, best) ==
  LET r == t.payload.record
  IN IF t = Nil THEN best
     ELSE NodeAtTime(Side(t, time < r.time), time,
                     IF time = r.time THEN r ELSE best)

RECURSIVE BufferLimit(_, _)
BufferLimit(t, end) ==
  IF Side(t, ~end) = Nil THEN t.payload.record ELSE BufferLimit(Side(t, ~end), end)

-----------------------------------------------------------------------------
(* The by-PC tree, as the set of its payloads: succ and pred are the       *)
(* nearest entries, by pc and then by line.                                *)

ByPC(records) == {<<r.pc, r.first>> : r \in ToSet(records)}

PCLess(x, y) == x[1] < y[1] \/ (x[1] = y[1] /\ x[2] < y[2])

PCSucc(entries, x) ==
  LET after == {y \in entries : PCLess(x, y)}
  IN {y \in after : \A z \in after : ~PCLess(z, y)}

PCPred(entries, x) ==
  LET before == {y \in entries : PCLess(y, x)}
  IN {y \in before : \A z \in before : ~PCLess(y, z)}

-----------------------------------------------------------------------------
(* Memory trees.  Spaces are numbers: 'm' is below 'r'.                    *)

Memory == 0
Registers == 1

Interval(space, lo, hi, line) ==
  [space |-> space, lo |-> lo, hi |-> hi, vis |-> 0, line |-> line]

(* delete_from_memtree and the insertion after it. *)
Remainders(t, old, p) ==
  LET left == IF old.lo < p.lo
              THEN Insert(t, [old EXCEPT !.hi = p.lo - 1])
              ELSE t
  IN IF old.hi > p.hi
     THEN Insert(left, [old EXCEPT !.lo = p.hi + 1])
     ELSE left

RECURSIVE MemCleared(_, _, _)
MemCleared(t, p, removal) ==
  IF removal.found
  THEN LET t1 == Remainders(removal.tree, removal.payload, p)
       IN MemCleared(t1, p, Removed(t1, p))
  ELSE t

MemUpdated(t, p) ==
  Insert(MemCleared(t, p, Removed(t, p)), p)

(* getmem: the line that gave a byte, 0 where it is unknown. *)
RECURSIVE GetByte(_, _, _)
GetByte(t, space, addr) ==
  LET c == Cmp(Interval(space, addr, addr, 0), t.payload)
  IN CASE t = Nil -> 0
       [] t # Nil /\ c = 0 -> t.payload.line
       [] OTHER -> GetByte(Side(t, c < 0), space, addr)

-----------------------------------------------------------------------------
(* find_next_mod: RegMemChangesSearcher's passes.  A candidate is a node   *)
(* that changed since minline, or one beyond which a sub-tree did.         *)

NoCandidate == [got |-> FALSE, subtree |-> FALSE, at |-> Interval(0, 0, 0, 0)]

LatestIn(t) == IF t = Nil THEN 0 ELSE t.annotation.line

Near(t, sign) == Side(t, sign > 0)
Far(t, sign) == Side(t, sign < 0)

ChangedIn(t, minline) == t # Nil /\ LatestIn(t) >= minline

Changed(p) == [got |-> TRUE, subtree |-> FALSE, at |-> p]
ChangedBeyond(p) == [got |-> TRUE, subtree |-> TRUE, at |-> p]

RECURSIVE ModPass1(_, _, _, _, _)
ModPass1(t, key, minline, sign, best) ==
  LET p == t.payload
      c == Cmp(key, p)
      go == IF c = 0 THEN -sign ELSE c
      better ==
        CASE p.space = key.space /\ p.line >= minline -> Changed(p)
          [] ~(p.space = key.space /\ p.line >= minline)
               /\ ChangedIn(Far(t, sign), minline) -> ChangedBeyond(p)
          [] OTHER -> best
  IN IF t = Nil THEN best
     ELSE ModPass1(Side(t, go < 0), key, minline, sign,
                   IF go = -sign THEN better ELSE best)

(* With the key it goes to the node pass 1 found and past it; without, to  *)
(* the first change from there.                                            *)
RECURSIVE ModPass2(_, _, _, _, _)
ModPass2(t, key, useKey, minline, sign) ==
  LET c == Cmp(key, t.payload)
      near == ChangedIn(Near(t, sign), minline)
      go == CASE useKey /\ c # 0 -> c
              [] ~useKey /\ near -> -sign
              [] OTHER -> sign
  IN CASE t = Nil -> NoCandidate
       [] t # Nil /\ ~useKey /\ ~near /\ t.payload.line >= minline ->
            Changed(t.payload)
       [] OTHER -> ModPass2(Side(t, go < 0), key, useKey /\ c # 0, minline, sign)

ModAt(space, last) ==
  [found |-> last.got /\ last.at.space = space,
   lo |-> last.at.lo, hi |-> last.at.hi]

ModFrom(t, space, first, minline, sign) ==
  ModAt(space,
        IF first.got /\ first.subtree
        THEN ModPass2(t, Interval(space, first.at.lo, first.at.hi, 0), TRUE,
                      minline, sign)
        ELSE first)

FindNextMod(t, space, addr, minline, sign) ==
  ModFrom(t, space, ModPass1(t, Interval(space, addr, addr, 0), minline, sign,
                             NoCandidate), minline, sign)
=============================================================================
