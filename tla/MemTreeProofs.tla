--------------------------- MODULE MemTreeProofs ---------------------------
(***************************************************************************)
(* Of the memory tree, for every size of the address space and all events: *)
(* its invariants, also with events that touch the last address; and that  *)
(* it implements ByteMemory, each step a step of a byte memory that learns *)
(* from reads with hindsight, or a stutter.                                *)
(***************************************************************************)
EXTENDS MCMemTree, WellFoundedInduction, TLAPS

-----------------------------------------------------------------------------
(***************************************************************************)
(* Addresses.                                                              *)
(***************************************************************************)
LEMMA SuccAddr == ASSUME NEW a \in Addr PROVE Succ(a) \in Addr
  BY AddrAssumption DEF Succ, Addr

LEMMA SuccIs ==
  ASSUME NEW a \in Addr
  PROVE  Succ(a) = IF a = AddrMax THEN 0 ELSE a + 1
  BY AddrAssumption DEF Succ, Addr

LEMMA HiIs ==
  ASSUME NEW a \in Addr, NEW n \in Nat \ {0}, a + (n - 1) <= AddrMax
  PROVE  Hi(a, n) = a + (n - 1)
  BY AddrAssumption DEF Hi, Addr

LEMMA HiAll == Hi(0, 0) = AddrMax
  BY AddrAssumption DEF Hi

-----------------------------------------------------------------------------
(***************************************************************************)
(* Trees.                                                                  *)
(***************************************************************************)
LEMMA PayloadFacts ==
  ASSUME NEW p \in MemoryPayload
  PROVE  /\ p.type \in {"r", "m"} /\ p.lo \in Addr /\ p.hi \in Addr
         /\ p.lo \in Int /\ p.hi \in Int
         /\ p.raw \in BOOLEAN /\ p.contents \in Nat /\ p.line \in Nat
         /\ p.event \in Nat
  BY AddrAssumption DEF MemoryPayload, Addr

LEMMA SubFacts ==
  ASSUME NEW p \in MemorySubPayload
  PROVE  /\ p.lo \in Addr /\ p.hi \in Addr /\ p.contents \in Nat
         /\ p.lo \in Int /\ p.hi \in Int
  BY AddrAssumption DEF MemorySubPayload, Addr

(* Every interval of a tree from which a range was deleted is one of the   *)
(* old ones, or what was below or above the range of one that it hit.      *)
Kept(p, type, lo, hi) == p.type = type => p.hi < lo \/ hi < p.lo
CutBelow(p, type, lo, hi) == p.type = type /\ p.lo < lo /\ lo <= p.hi
CutAbove(p, type, lo, hi) == p.type = type /\ p.lo <= hi /\ hi < p.hi

LEMMA Pieces ==
  ASSUME NEW tree \in SUBSET MemoryPayload, NEW type, NEW lo \in Addr,
         NEW hi \in Addr, NEW q \in DeleteFrom(tree, type, lo, hi)
  PROVE  \E p \in tree :
           \/ q = p /\ Kept(p, type, lo, hi)
           \/ q = Below(p, lo) /\ CutBelow(p, type, lo, hi)
           \/ q = Above(p, hi) /\ CutAbove(p, type, lo, hi)
<1> DEFINE old == Hits(tree, type, lo, hi)
<1>0. lo \in Int /\ hi \in Int
  BY AddrAssumption DEF Addr
<1>1. CASE q \in tree \ old
  <2>1. q \in tree /\ q.lo \in Int /\ q.hi \in Int
    BY <1>1, PayloadFacts
  <2>2. Kept(q, type, lo, hi)
    BY <1>0, <1>1, <2>1 DEF Hits, Overlap, Kept
  <2> QED BY <2>1, <2>2
<1>2. CASE \E p \in old : p.lo < lo /\ q = Below(p, lo)
  <2>1. PICK p \in old : p.lo < lo /\ q = Below(p, lo)
    BY <1>2
  <2>2. p \in tree /\ p.type = type /\ Overlap(p, lo, hi)
    BY DEF Hits
  <2>3. p.lo \in Int /\ p.hi \in Int
    BY <2>2, PayloadFacts
  <2>4. CutBelow(p, type, lo, hi)
    BY <1>0, <2>1, <2>2, <2>3 DEF Overlap, CutBelow
  <2> QED BY <2>1, <2>2, <2>4
<1>3. CASE \E p \in old : p.hi > hi /\ q = Above(p, hi)
  <2>1. PICK p \in old : p.hi > hi /\ q = Above(p, hi)
    BY <1>3
  <2>2. p \in tree /\ p.type = type /\ Overlap(p, lo, hi)
    BY DEF Hits
  <2>3. p.lo \in Int /\ p.hi \in Int
    BY <2>2, PayloadFacts
  <2>4. CutAbove(p, type, lo, hi)
    BY <1>0, <2>1, <2>2, <2>3 DEF Overlap, CutAbove
  <2> QED BY <2>1, <2>2, <2>4
<1>4. \/ q \in tree \ old
      \/ \E p \in old : p.lo < lo /\ q = Below(p, lo)
      \/ \E p \in old : p.hi > hi /\ q = Above(p, hi)
  BY DEF DeleteFrom
<1> QED BY <1>1, <1>2, <1>3, <1>4

(* And all of them are there. *)
LEMMA PiecesThere ==
  ASSUME NEW tree \in SUBSET MemoryPayload, NEW type, NEW lo \in Addr,
         NEW hi \in Addr, lo <= hi, NEW p \in tree
  PROVE  /\ Kept(p, type, lo, hi) => p \in DeleteFrom(tree, type, lo, hi)
         /\ CutBelow(p, type, lo, hi)
              => Below(p, lo) \in DeleteFrom(tree, type, lo, hi)
         /\ CutAbove(p, type, lo, hi)
              => Above(p, hi) \in DeleteFrom(tree, type, lo, hi)
<1>0. lo \in Int /\ hi \in Int /\ p.lo \in Int /\ p.hi \in Int
  BY PayloadFacts, AddrAssumption DEF Addr
<1>1. Kept(p, type, lo, hi) => p \notin Hits(tree, type, lo, hi)
  BY <1>0 DEF Kept, Hits, Overlap
<1>2. CutBelow(p, type, lo, hi) => p \in Hits(tree, type, lo, hi) /\ p.lo < lo
  BY <1>0 DEF CutBelow, Hits, Overlap
<1>3. CutAbove(p, type, lo, hi) => p \in Hits(tree, type, lo, hi) /\ p.hi > hi
  BY <1>0 DEF CutAbove, Hits, Overlap
<1> QED BY <1>1, <1>2, <1>3 DEF DeleteFrom

LEMMA BelowFacts ==
  ASSUME NEW p \in MemoryPayload, NEW type, NEW lo \in Addr, NEW hi \in Addr,
         CutBelow(p, type, lo, hi)
  PROVE  /\ Below(p, lo) \in MemoryPayload
         /\ Below(p, lo).type = p.type /\ Below(p, lo).lo = p.lo
         /\ Below(p, lo).hi = lo - 1 /\ Below(p, lo).raw = p.raw
         /\ Below(p, lo).contents = p.contents /\ Below(p, lo).event = p.event
<1>1. p.lo \in Addr /\ p.lo \in Int /\ lo \in Int
  BY PayloadFacts, AddrAssumption DEF Addr
<1>2. lo - 1 \in Addr
  BY <1>1, AddrAssumption DEF Addr, CutBelow
<1> QED BY <1>2 DEF Below, MemoryPayload

LEMMA AboveFacts ==
  ASSUME NEW p \in MemoryPayload, NEW type, NEW lo \in Addr, NEW hi \in Addr,
         CutAbove(p, type, lo, hi)
  PROVE  /\ Above(p, hi) \in MemoryPayload
         /\ Above(p, hi).type = p.type /\ Above(p, hi).lo = hi + 1
         /\ Above(p, hi).hi = p.hi /\ Above(p, hi).raw = p.raw
         /\ Above(p, hi).contents =
              IF p.raw THEN p.contents + (hi + 1 - p.lo) ELSE p.contents
         /\ Above(p, hi).event = p.event
<1>1. /\ p.lo \in Addr /\ p.hi \in Addr /\ p.lo \in Int /\ p.hi \in Int
      /\ hi \in Int /\ p.contents \in Nat
  BY PayloadFacts, AddrAssumption DEF Addr
<1>2. hi + 1 \in Addr
  BY <1>1, AddrAssumption DEF Addr, CutAbove
<1>3. p.contents + (hi + 1 - p.lo) \in Nat
  BY <1>1 DEF CutAbove
<1> QED BY <1>2, <1>3, <1>1 DEF Above, MemoryPayload

LEMMA PieceFacts ==
  ASSUME NEW p \in MemoryPayload, NEW type, NEW lo \in Addr, NEW hi \in Addr,
         lo <= hi, NEW q,
         \/ q = p /\ Kept(p, type, lo, hi)
         \/ q = Below(p, lo) /\ CutBelow(p, type, lo, hi)
         \/ q = Above(p, hi) /\ CutAbove(p, type, lo, hi)
  PROVE  /\ q \in MemoryPayload /\ q.type = p.type
         /\ p.lo <= q.lo /\ q.hi <= p.hi
         /\ q.type = type => q.hi < lo \/ hi < q.lo
<1>0. /\ p.lo \in Int /\ p.hi \in Int /\ lo \in Int /\ hi \in Int
  BY PayloadFacts, AddrAssumption DEF Addr
<1>1. CASE q = p /\ Kept(p, type, lo, hi)
  BY <1>0, <1>1 DEF Kept
<1>2. CASE q = Below(p, lo) /\ CutBelow(p, type, lo, hi)
  <2>1. /\ q \in MemoryPayload /\ q.type = p.type
        /\ q.lo = p.lo /\ q.hi = lo - 1
    BY <1>2, BelowFacts
  <2> QED BY <1>0, <1>2, <2>1 DEF CutBelow
<1>3. CASE q = Above(p, hi) /\ CutAbove(p, type, lo, hi)
  <2>1. /\ q \in MemoryPayload /\ q.type = p.type
        /\ q.lo = hi + 1 /\ q.hi = p.hi
    BY <1>3, AboveFacts
  <2> QED BY <1>0, <1>3, <2>1 DEF CutAbove
<1> QED BY <1>1, <1>2, <1>3

(* Two pieces of one interval are disjoint, ... *)
LEMMA PiecesDisjoint ==
  ASSUME NEW p \in MemoryPayload, NEW type, NEW lo \in Addr, NEW hi \in Addr,
         lo <= hi, NEW q, NEW r, q # r,
         \/ q = p /\ Kept(p, type, lo, hi)
         \/ q = Below(p, lo) /\ CutBelow(p, type, lo, hi)
         \/ q = Above(p, hi) /\ CutAbove(p, type, lo, hi),
         \/ r = p /\ Kept(p, type, lo, hi)
         \/ r = Below(p, lo) /\ CutBelow(p, type, lo, hi)
         \/ r = Above(p, hi) /\ CutAbove(p, type, lo, hi)
  PROVE  q.hi < r.lo \/ r.hi < q.lo
<1>0. /\ p.lo \in Int /\ p.hi \in Int /\ lo \in Int /\ hi \in Int
  BY PayloadFacts, AddrAssumption DEF Addr
<1>1. ~(Kept(p, type, lo, hi) /\ CutBelow(p, type, lo, hi))
  BY <1>0 DEF Kept, CutBelow
<1>2. ~(Kept(p, type, lo, hi) /\ CutAbove(p, type, lo, hi))
  BY <1>0 DEF Kept, CutAbove
<1>3. CutBelow(p, type, lo, hi) => Below(p, lo).hi = lo - 1
  BY BelowFacts
<1>4. CutAbove(p, type, lo, hi) => Above(p, hi).lo = hi + 1
  BY AboveFacts
<1>5. \/ q = Below(p, lo) /\ r = Above(p, hi) /\ q.hi = lo - 1 /\ r.lo = hi + 1
      \/ r = Below(p, lo) /\ q = Above(p, hi) /\ r.hi = lo - 1 /\ q.lo = hi + 1
  BY <1>1, <1>2, <1>3, <1>4
<1> QED BY <1>0, <1>5

(* ... and so are pieces of different ones. *)
LEMMA DeleteDisjoint ==
  ASSUME NEW tree \in SUBSET MemoryPayload, NEW type, NEW lo \in Addr,
         NEW hi \in Addr, lo <= hi, NEW space,
         Disjoint(InSpace(tree, space))
  PROVE  Disjoint(InSpace(DeleteFrom(tree, type, lo, hi), space))
<1> SUFFICES ASSUME NEW q \in DeleteFrom(tree, type, lo, hi),
                    NEW r \in DeleteFrom(tree, type, lo, hi),
                    q.type = space, r.type = space, q # r
             PROVE  q.hi < r.lo \/ r.hi < q.lo
  BY DEF Disjoint, InSpace
<1>1. PICK p \in tree :
        \/ q = p /\ Kept(p, type, lo, hi)
        \/ q = Below(p, lo) /\ CutBelow(p, type, lo, hi)
        \/ q = Above(p, hi) /\ CutAbove(p, type, lo, hi)
  BY Pieces
<1>2. PICK s \in tree :
        \/ r = s /\ Kept(s, type, lo, hi)
        \/ r = Below(s, lo) /\ CutBelow(s, type, lo, hi)
        \/ r = Above(s, hi) /\ CutAbove(s, type, lo, hi)
  BY Pieces
<1>3. CASE p = s
  BY <1>1, <1>2, <1>3, PiecesDisjoint
<1>4. CASE p # s
  <2>1. /\ q \in MemoryPayload /\ q.type = p.type
        /\ p.lo <= q.lo /\ q.hi <= p.hi
    BY <1>1, PieceFacts
  <2>2. /\ r \in MemoryPayload /\ r.type = s.type
        /\ s.lo <= r.lo /\ r.hi <= s.hi
    BY <1>2, PieceFacts
  <2>3. p.hi < s.lo \/ s.hi < p.lo
    BY <1>4, <2>1, <2>2 DEF Disjoint, InSpace
  <2>4. /\ p.lo \in Int /\ p.hi \in Int /\ s.lo \in Int /\ s.hi \in Int
        /\ q.lo \in Int /\ q.hi \in Int /\ r.lo \in Int /\ r.hi \in Int
    BY <2>1, <2>2, PayloadFacts
  <2> QED BY <2>1, <2>2, <2>3, <2>4
<1> QED BY <1>3, <1>4

LEMMA ReplaceDisjoint ==
  ASSUME NEW tree \in SUBSET MemoryPayload, NEW new \in MemoryPayload,
         new.lo <= new.hi, NEW space, Disjoint(InSpace(tree, space))
  PROVE  Disjoint(InSpace(Replace(tree, new), space))
<1> DEFINE rest == DeleteFrom(tree, new.type, new.lo, new.hi)
<1>0. new.lo \in Addr /\ new.hi \in Addr
  BY PayloadFacts
<1>1. Disjoint(InSpace(rest, space))
  BY <1>0, DeleteDisjoint
<1>2. \A q \in rest : q.type = new.type => q.hi < new.lo \/ new.hi < q.lo
  <2> TAKE q \in rest
  <2>1. PICK p \in tree :
          \/ q = p /\ Kept(p, new.type, new.lo, new.hi)
          \/ q = Below(p, new.lo) /\ CutBelow(p, new.type, new.lo, new.hi)
          \/ q = Above(p, new.hi) /\ CutAbove(p, new.type, new.lo, new.hi)
    BY <1>0, Pieces
  <2> QED BY <1>0, <2>1, PieceFacts
<1>3. Replace(tree, new) = rest \cup {new}
  BY DEF Replace
<1> HIDE DEF rest
<1> SUFFICES ASSUME NEW q \in rest \cup {new}, NEW r \in rest \cup {new},
                    q.type = space, r.type = space, q # r
             PROVE  q.hi < r.lo \/ r.hi < q.lo
  BY <1>3 DEF Disjoint, InSpace
<1>4. CASE q \in rest /\ r \in rest
  BY <1>1, <1>4 DEF Disjoint, InSpace
<1>5. CASE q = new \/ r = new
  BY <1>2, <1>5
<1> QED BY <1>4, <1>5

LEMMA ReplaceCovers ==
  ASSUME NEW tree \in SUBSET MemoryPayload, NEW new \in MemoryPayload,
         new.lo <= new.hi, NEW a \in Addr,
         \E p \in InSpace(tree, "m") : p.lo <= a /\ a <= p.hi
  PROVE  \E p \in InSpace(Replace(tree, new), "m") : p.lo <= a /\ a <= p.hi
<1> DEFINE rest == DeleteFrom(tree, new.type, new.lo, new.hi)
<1>0. new.lo \in Addr /\ new.hi \in Addr /\ new.lo \in Int /\ new.hi \in Int
  BY PayloadFacts
<1>1. PICK p \in tree : p.type = "m" /\ p.lo <= a /\ a <= p.hi
  BY DEF InSpace
<1>2. p.lo \in Int /\ p.hi \in Int /\ a \in Int
  BY PayloadFacts, AddrAssumption DEF Addr
<1>3. rest \subseteq Replace(tree, new) /\ new \in Replace(tree, new)
  BY DEF Replace
<1>4. /\ Kept(p, new.type, new.lo, new.hi) => p \in rest
      /\ CutBelow(p, new.type, new.lo, new.hi) => Below(p, new.lo) \in rest
      /\ CutAbove(p, new.type, new.lo, new.hi) => Above(p, new.hi) \in rest
  BY <1>0, PiecesThere
<1> HIDE DEF rest
<1>5. CASE Kept(p, new.type, new.lo, new.hi)
  BY <1>1, <1>3, <1>4, <1>5 DEF InSpace
<1>6. CASE new.type = "m" /\ new.lo <= a /\ a <= new.hi
  BY <1>3, <1>6 DEF InSpace
<1>7. CASE CutBelow(p, new.type, new.lo, new.hi) /\ a < new.lo
  <2>1. /\ Below(p, new.lo).type = p.type /\ Below(p, new.lo).lo = p.lo
        /\ Below(p, new.lo).hi = new.lo - 1
    BY <1>0, <1>7, BelowFacts
  <2>2. Below(p, new.lo).lo <= a /\ a <= Below(p, new.lo).hi
    BY <1>0, <1>1, <1>2, <1>7, <2>1
  <2> QED BY <1>1, <1>3, <1>4, <1>7, <2>1, <2>2 DEF InSpace
<1>8. CASE CutAbove(p, new.type, new.lo, new.hi) /\ new.hi < a
  <2>1. /\ Above(p, new.hi).type = p.type /\ Above(p, new.hi).lo = new.hi + 1
        /\ Above(p, new.hi).hi = p.hi
    BY <1>0, <1>8, AboveFacts
  <2>2. Above(p, new.hi).lo <= a /\ a <= Above(p, new.hi).hi
    BY <1>0, <1>1, <1>2, <1>8, <2>1
  <2> QED BY <1>1, <1>3, <1>4, <1>8, <2>1, <2>2 DEF InSpace
<1> QED
  BY <1>0, <1>1, <1>2, <1>5, <1>6, <1>7, <1>8 DEF Kept, CutBelow, CutAbove

LEMMA ReplaceGood ==
  ASSUME NEW tree \in SUBSET MemoryPayload, NEW new \in MemoryPayload,
         new.lo <= new.hi, GoodTree(tree)
  PROVE  /\ Replace(tree, new) \in SUBSET MemoryPayload
         /\ GoodTree(Replace(tree, new))
<1>0. new.lo \in Addr /\ new.hi \in Addr
  BY PayloadFacts
<1>1. ASSUME NEW q \in DeleteFrom(tree, new.type, new.lo, new.hi)
      PROVE  q \in MemoryPayload
  <2>1. PICK p \in tree :
          \/ q = p /\ Kept(p, new.type, new.lo, new.hi)
          \/ q = Below(p, new.lo) /\ CutBelow(p, new.type, new.lo, new.hi)
          \/ q = Above(p, new.hi) /\ CutAbove(p, new.type, new.lo, new.hi)
    BY <1>0, Pieces
  <2> QED BY <1>0, <2>1, PieceFacts
<1>2. Replace(tree, new) \in SUBSET MemoryPayload
  BY <1>1 DEF Replace
<1>3. /\ Disjoint(InSpace(tree, "m")) /\ Disjoint(InSpace(tree, "r"))
      /\ \A a \in Addr : \E p \in InSpace(tree, "m") : p.lo <= a /\ a <= p.hi
  BY DEF GoodTree
<1>4. /\ Disjoint(InSpace(Replace(tree, new), "m"))
      /\ Disjoint(InSpace(Replace(tree, new), "r"))
  BY <1>3, ReplaceDisjoint
<1>5. \A a \in Addr : \E p \in InSpace(Replace(tree, new), "m") :
        p.lo <= a /\ a <= p.hi
  BY <1>3, ReplaceCovers
<1> QED BY <1>2, <1>4, <1>5 DEF GoodTree

-----------------------------------------------------------------------------
(***************************************************************************)
(* The arena.  What is in place is stated here of any arena bs, with       *)
(* sub-trees at the places d, to speak of the arena before and after.      *)
(***************************************************************************)
InArena(p, bs, d) ==
  IF p.raw
  THEN \A a \in p.lo .. p.hi :
         /\ p.contents + (a - p.lo) \in DOMAIN bs
         /\ bs[p.contents + (a - p.lo)] = [event |-> p.event, addr |-> a]
  ELSE p.contents \in d

SubInArena(p, bs) ==
  \A a \in p.lo .. p.hi :
    /\ p.contents + (a - p.lo) \in DOMAIN bs
    /\ bs[p.contents + (a - p.lo)].addr = a

LEMMA InPlaceIs ==
  ASSUME NEW p
  PROVE  /\ InPlace(p) <=> InArena(p, bytes, DOMAIN subtrees)
         /\ InPlace(p)' <=> InArena(p, bytes', DOMAIN subtrees')
         /\ RightSubContents(p) <=> SubInArena(p, bytes)
         /\ RightSubContents(p)' <=> SubInArena(p, bytes')
  BY DEF InPlace, RightContents, RightSubContents, InArena, SubInArena

(* Cutting an interval leaves its contents where they belong. *)
LEMMA ReplaceInPlace ==
  ASSUME NEW tree \in SUBSET MemoryPayload, NEW new \in MemoryPayload,
         new.lo <= new.hi, NEW bs, NEW d, InArena(new, bs, d),
         \A p \in tree : InArena(p, bs, d)
  PROVE  \A q \in Replace(tree, new) : InArena(q, bs, d)
<1>0. /\ new.lo \in Addr /\ new.hi \in Addr /\ new.lo \in Int
      /\ new.hi \in Int
  BY PayloadFacts
<1> SUFFICES ASSUME NEW q \in DeleteFrom(tree, new.type, new.lo, new.hi)
             PROVE  InArena(q, bs, d)
  BY DEF Replace
<1>1. PICK p \in tree :
        \/ q = p /\ Kept(p, new.type, new.lo, new.hi)
        \/ q = Below(p, new.lo) /\ CutBelow(p, new.type, new.lo, new.hi)
        \/ q = Above(p, new.hi) /\ CutAbove(p, new.type, new.lo, new.hi)
  BY <1>0, Pieces
<1>2. /\ InArena(p, bs, d) /\ p.lo \in Int /\ p.hi \in Int
      /\ p.contents \in Nat
  BY PayloadFacts
<1>3. CASE q = p
  BY <1>2, <1>3
<1>4. CASE q = Below(p, new.lo) /\ CutBelow(p, new.type, new.lo, new.hi)
  <2>1. /\ q.lo = p.lo /\ q.hi = new.lo - 1 /\ q.raw = p.raw
        /\ q.contents = p.contents /\ q.event = p.event
    BY <1>0, <1>4, BelowFacts
  <2>2. new.lo - 1 <= p.hi
    BY <1>0, <1>2, <1>4 DEF CutBelow
  <2>3. \A a \in q.lo .. q.hi : a \in p.lo .. p.hi
    BY <1>0, <1>2, <2>1, <2>2
  <2> QED BY <1>2, <2>1, <2>3 DEF InArena
<1>5. CASE q = Above(p, new.hi) /\ CutAbove(p, new.type, new.lo, new.hi)
  <2>1. /\ q.lo = new.hi + 1 /\ q.hi = p.hi /\ q.raw = p.raw
        /\ q.contents = IF p.raw THEN p.contents + (new.hi + 1 - p.lo)
                        ELSE p.contents
        /\ q.event = p.event
    BY <1>0, <1>5, AboveFacts
  <2>2. p.lo <= new.hi
    BY <1>5 DEF CutAbove
  <2>3. CASE ~p.raw
    BY <1>2, <2>1, <2>3 DEF InArena
  <2>4. CASE p.raw
    <3> SUFFICES ASSUME NEW a \in q.lo .. q.hi
                 PROVE  /\ q.contents + (a - q.lo) \in DOMAIN bs
                        /\ bs[q.contents + (a - q.lo)] =
                             [event |-> q.event, addr |-> a]
      BY <2>1, <2>4 DEF InArena
    <3>1. a \in p.lo .. p.hi
      BY <1>0, <1>2, <2>1, <2>2
    <3>2. q.contents + (a - q.lo) = p.contents + (a - p.lo)
      BY <1>0, <1>2, <2>1, <2>4
    <3>3. /\ p.contents + (a - p.lo) \in DOMAIN bs
          /\ bs[p.contents + (a - p.lo)] = [event |-> p.event, addr |-> a]
      BY <1>2, <2>4, <3>1 DEF InArena
    <3> QED BY <2>1, <3>2, <3>3
  <2> QED BY <2>3, <2>4
<1> QED BY <1>1, <1>3, <1>4, <1>5

(* What was in the arena stays there when it grows. *)
Grown(bs, cs) == \A k \in DOMAIN bs : k \in DOMAIN cs /\ cs[k] = bs[k]

LEMMA GrownInArena ==
  ASSUME NEW p, NEW bs, NEW cs, Grown(bs, cs), NEW d, NEW e, d \subseteq e
  PROVE  /\ InArena(p, bs, d) => InArena(p, cs, e)
         /\ SubInArena(p, bs) => SubInArena(p, cs)
  BY DEF Grown, InArena, SubInArena

LEMMA Concat ==
  ASSUME NEW bs \in Seq(Byte), NEW data \in Seq(Byte)
  PROVE  /\ bs \o data \in Seq(Byte) /\ Grown(bs, bs \o data)
         /\ \A k \in 1 .. Len(data) :
              /\ Len(bs) + k \in DOMAIN (bs \o data)
              /\ (bs \o data)[Len(bs) + k] = data[k]
  BY DEF Grown

LEMMA DataFacts ==
  ASSUME NEW n \in Nat, NEW x \in Access, NEW lo \in Addr, NEW hi \in Addr,
         lo <= hi
  PROVE  /\ Data(n, x, lo, hi) \in Seq(Byte)
         /\ Len(Data(n, x, lo, hi)) = hi - lo + 1
         /\ \A a \in lo .. hi :
              /\ a - lo + 1 \in 1 .. Len(Data(n, x, lo, hi))
              /\ Data(n, x, lo, hi)[a - lo + 1].addr = a
              /\ (x.addr <= a /\ a < x.addr + x.size)
                   => Data(n, x, lo, hi)[a - lo + 1] =
                        [event |-> n, addr |-> a]
<1>0. lo \in Int /\ hi \in Int /\ 0 <= lo /\ hi <= AddrMax
  BY AddrAssumption DEF Addr
<1>1. ASSUME NEW i \in 1 .. (hi - lo + 1)
      PROVE  lo + (i - 1) \in Addr
  BY <1>0, AddrAssumption DEF Addr
<1>2. Data(n, x, lo, hi) \in [1 .. (hi - lo + 1) -> Byte]
  BY <1>1 DEF Data, Byte
<1>3. hi - lo + 1 \in Nat
  BY <1>0
<1>4. /\ Data(n, x, lo, hi) \in Seq(Byte)
      /\ Len(Data(n, x, lo, hi)) = hi - lo + 1
  BY <1>2, <1>3
<1> SUFFICES ASSUME NEW a \in lo .. hi
             PROVE  /\ a - lo + 1 \in 1 .. Len(Data(n, x, lo, hi))
                    /\ Data(n, x, lo, hi)[a - lo + 1].addr = a
                    /\ (x.addr <= a /\ a < x.addr + x.size)
                         => Data(n, x, lo, hi)[a - lo + 1] =
                              [event |-> n, addr |-> a]
  BY <1>4
<1>5. PICK i \in 1 .. (hi - lo + 1) : i = a - lo + 1 /\ lo + (i - 1) = a
  BY <1>0
<1>6. Data(n, x, lo, hi)[i] =
        [event |-> IF x.addr <= a /\ a < x.addr + x.size THEN n ELSE 0,
         addr |-> a]
  BY <1>5 DEF Data
<1>7. Data(n, x, lo, hi)[i].addr = a
  BY <1>6
<1>8. (x.addr <= a /\ a < x.addr + x.size)
         => Data(n, x, lo, hi)[i] = [event |-> n, addr |-> a]
  BY <1>6
<1>9. i \in 1 .. Len(Data(n, x, lo, hi))
  BY <1>4
<1> QED BY <1>5, <1>7, <1>8, <1>9, Zenon

-----------------------------------------------------------------------------
(***************************************************************************)
(* find_leftmost().                                                        *)
(***************************************************************************)
LEMMA LeftmostIn ==
  ASSUME NEW ps, ps # {}, \A p \in ps : p.lo \in Addr
  PROVE  /\ Leftmost(ps) \in ps
         /\ \A q \in ps : Leftmost(ps).lo <= q.lo
<1> DEFINE less == {r \in Nat \X Nat : r[1] < r[2]}
           los == {p.lo : p \in ps}
<1>1. IsWellFoundedOn(less, Nat)
  BY NatLessThanWellFounded DEF OpToRel
<1>2. los \subseteq Nat /\ los # {}
  BY AddrAssumption DEF Addr
<1> HIDE DEF los
<1>3. PICK m \in los : \A n \in los : ~(<<n, m>> \in less)
  BY <1>1, <1>2, WFMin
<1>4. ASSUME NEW n \in los
      PROVE  m <= n
  <2>1. m \in Nat /\ n \in Nat
    BY <1>2
  <2>2. <<n, m>> \in Nat \X Nat /\ <<n, m>>[1] = n /\ <<n, m>>[2] = m
    BY <2>1
  <2>3. n < m => <<n, m>> \in less
    BY <2>2
  <2> QED BY <1>3, <2>1, <2>3
<1>5. \E p \in ps : \A q \in ps : p.lo <= q.lo
  BY <1>4 DEF los
<1> QED BY <1>5 DEF Leftmost

(* The bytes before the known ones that are found are not known. *)
LEMMA FoundFacts ==
  ASSUME TypeOK, subroot.offset \in DOMAIN subtrees, msp.lo <= msp.hi
  PROVE  /\ Found.lo \in Addr /\ Found.hi \in Addr
         /\ msp.lo < Found.lo =>
              /\ Found.lo - 1 \in Addr /\ msp.lo <= Found.lo - 1
              /\ \A p \in subtrees[subroot.offset] :
                   ~Overlap(p, msp.lo, Found.lo - 1)
<1> DEFINE sub == subtrees[subroot.offset]
           hits == SubHits(sub, msp.lo, msp.hi)
<1>0. /\ msp.lo \in Addr /\ msp.hi \in Addr /\ msp.lo \in Int
      /\ msp.hi \in Int /\ msp.lo >= 0
  BY AddrAssumption DEF TypeOK, AddrRange, Addr
<1>1. sub \subseteq MemorySubPayload
  BY DEF TypeOK
<1>2. Found = IF hits = {} THEN [lo |-> Succ(msp.hi), hi |-> msp.hi]
              ELSE [lo |-> Leftmost(hits).lo, hi |-> Leftmost(hits).hi]
  BY DEF Found
<1> HIDE DEF sub
<1>3. CASE hits = {}
  <2>1. Found.lo = Succ(msp.hi) /\ Found.hi = msp.hi
    BY <1>2, <1>3
  <2>2. Succ(msp.hi) \in Addr
    BY <1>0, SuccAddr
  <2>3. ASSUME msp.lo < Found.lo
        PROVE  /\ Found.lo - 1 = msp.hi
    BY <1>0, <2>1, <2>3, SuccIs
  <2>4. \A p \in sub : ~Overlap(p, msp.lo, msp.hi)
    BY <1>3 DEF SubHits
  <2> QED BY <1>0, <2>1, <2>2, <2>3, <2>4 DEF sub
<1>4. CASE hits # {}
  <2>1. hits \subseteq sub
    BY DEF SubHits
  <2>2. \A p \in hits : p.lo \in Addr
    BY <1>1, <2>1, SubFacts
  <2> HIDE DEF hits
  <2>3. /\ Leftmost(hits) \in hits
        /\ \A q \in hits : Leftmost(hits).lo <= q.lo
    BY <1>4, <2>2, LeftmostIn
  <2>4. Found.lo = Leftmost(hits).lo /\ Found.hi = Leftmost(hits).hi
    BY <1>2, <1>4
  <2>5. Leftmost(hits) \in MemorySubPayload
    BY <1>1, <2>1, <2>3
  <2>6. Found.lo \in Addr /\ Found.hi \in Addr
    BY <2>4, <2>5, SubFacts
  <2>7. Found.lo \in Int /\ Found.lo <= AddrMax
    BY <2>6, AddrAssumption DEF Addr
  <2>8. Found.lo <= msp.hi
    <3>1. Overlap(Leftmost(hits), msp.lo, msp.hi)
      BY <2>3 DEF hits, SubHits
    <3> QED BY <1>0, <2>4, <2>7, <3>1 DEF Overlap
  <2>9. ASSUME msp.lo < Found.lo
        PROVE  Found.lo - 1 \in Addr /\ msp.lo <= Found.lo - 1
    BY <1>0, <2>7, <2>9, AddrAssumption DEF Addr
  <2>10. ASSUME NEW p \in sub, Overlap(p, msp.lo, Found.lo - 1)
         PROVE  FALSE
    <3>1. p.lo \in Int /\ p.hi \in Int
      BY <1>1, SubFacts
    <3>2. p.lo < Found.lo /\ msp.lo <= p.hi
      BY <1>0, <2>7, <2>10, <3>1 DEF Overlap
    <3>3. Overlap(p, msp.lo, msp.hi)
      BY <1>0, <2>7, <2>8, <3>1, <3>2 DEF Overlap
    <3>4. p \in hits
      BY <3>3 DEF hits, SubHits
    <3> QED BY <2>3, <2>4, <2>7, <3>1, <3>2, <3>4
  <2> QED BY <2>6, <2>9, <2>10 DEF sub
<1> QED BY <1>3, <1>4

-----------------------------------------------------------------------------
(***************************************************************************)
(* What a step does to the arena and to the versions is told in three      *)
(* parts: contents and sub-trees only grow, the tree is good, and so is    *)
(* each sub-tree.                                                          *)
(***************************************************************************)
GrowStep ==
  /\ Grown(bytes, bytes')
  /\ \A i \in DOMAIN subtrees : /\ i \in DOMAIN subtrees'
                               /\ subtrees[i] \subseteq subtrees'[i]

GoodRoot ==
  GoodTree(memroot) /\ \A p \in memroot : InArena(p, bytes, DOMAIN subtrees)
GoodSubs ==
  \A i \in DOMAIN subtrees :
    Disjoint(subtrees[i]) /\ \A p \in subtrees[i] : SubInArena(p, bytes)
GoodSaved ==
  \A i \in DOMAIN saved :
    /\ GoodTree(saved[i])
    /\ \A p \in saved[i] : InArena(p, bytes, DOMAIN subtrees)

LEMMA GoodIs ==
  OneAnswerPerByte /\ ContentsInPlace <=> GoodRoot /\ GoodSubs /\ GoodSaved
<1>1. /\ \A p : InPlace(p) <=> InArena(p, bytes, DOMAIN subtrees)
      /\ \A p : RightSubContents(p) <=> SubInArena(p, bytes)
  BY InPlaceIs
<1>2. /\ memroot \in Versions
      /\ \A i \in DOMAIN saved : saved[i] \in Versions
      /\ \A v \in Versions : v = memroot \/ \E i \in DOMAIN saved : v = saved[i]
  BY DEF Versions
<1>3. OneAnswerPerByte <=>
        /\ GoodTree(memroot) /\ \A i \in DOMAIN saved : GoodTree(saved[i])
        /\ \A i \in DOMAIN subtrees : Disjoint(subtrees[i])
  BY <1>2 DEF OneAnswerPerByte
<1>4. ContentsInPlace <=>
        /\ \A p \in memroot : InArena(p, bytes, DOMAIN subtrees)
        /\ \A i \in DOMAIN saved :
             \A p \in saved[i] : InArena(p, bytes, DOMAIN subtrees)
        /\ \A i \in DOMAIN subtrees :
             \A p \in subtrees[i] : SubInArena(p, bytes)
  BY <1>1, <1>2 DEF ContentsInPlace
<1> QED BY <1>3, <1>4 DEF GoodRoot, GoodSubs, GoodSaved

(* The versions that were saved are as good as they were. *)
LEMMA SavedStay ==
  ASSUME GoodSaved, GrowStep, saved' = saved
  PROVE  GoodSaved'
<1>1. DOMAIN subtrees \subseteq DOMAIN subtrees'
  BY DEF GrowStep
<1> SUFFICES ASSUME NEW i \in DOMAIN saved
             PROVE  /\ GoodTree(saved[i])
                    /\ \A p \in saved[i] : InArena(p, bytes', DOMAIN subtrees')
  BY DEF GoodSaved
<1>2. \A p \in saved[i] : InArena(p, bytes, DOMAIN subtrees)
  BY DEF GoodSaved
<1>3. \A p \in saved[i] : InArena(p, bytes', DOMAIN subtrees')
  BY <1>1, <1>2, GrownInArena DEF GrowStep
<1> QED BY <1>3 DEF GoodSaved

LEMMA RootStays ==
  ASSUME GoodRoot, GrowStep, memroot' = memroot
  PROVE  GoodRoot'
<1>1. DOMAIN subtrees \subseteq DOMAIN subtrees'
  BY DEF GrowStep
<1>2. \A p \in memroot : InArena(p, bytes', DOMAIN subtrees')
  BY <1>1, GrownInArena DEF GoodRoot, GrowStep
<1> QED BY <1>2 DEF GoodRoot

LEMMA SubsStay ==
  ASSUME GoodSubs, GrowStep, subtrees' = subtrees
  PROVE  GoodSubs'
<1> SUFFICES ASSUME NEW i \in DOMAIN subtrees
             PROVE  /\ Disjoint(subtrees[i])
                    /\ \A p \in subtrees[i] : SubInArena(p, bytes')
  BY DEF GoodSubs
<1> QED BY GrownInArena DEF GoodSubs, GrowStep

(* A new interval in the tree. *)
LEMMA RootReplaced ==
  ASSUME GoodRoot, GrowStep, memroot \in SUBSET MemoryPayload,
         NEW new \in MemoryPayload, new.lo <= new.hi,
         InArena(new, bytes', DOMAIN subtrees'), memroot' = Replace(memroot, new)
  PROVE  memroot' \in SUBSET MemoryPayload /\ GoodRoot'
<1>1. DOMAIN subtrees \subseteq DOMAIN subtrees'
  BY DEF GrowStep
<1>2. \A p \in memroot : InArena(p, bytes', DOMAIN subtrees')
  BY <1>1, GrownInArena DEF GoodRoot, GrowStep
<1>3. /\ Replace(memroot, new) \in SUBSET MemoryPayload
      /\ GoodTree(Replace(memroot, new))
  BY ReplaceGood DEF GoodRoot
<1>4. \A q \in Replace(memroot, new) : InArena(q, bytes', DOMAIN subtrees')
  BY <1>2, ReplaceInPlace
<1> QED BY <1>3, <1>4 DEF GoodRoot

(* An event's interval is good, and its data is what its interval says.    *)
LEMMA EventRange ==
  ASSUME NEW x \in Accesses
  PROVE  /\ x \in Access /\ x.type \in {"r", "m"} /\ x.addr \in Addr
         /\ Hi(x.addr, x.size) \in Addr /\ x.addr <= Hi(x.addr, x.size)
         /\ \A a \in x.addr .. Hi(x.addr, x.size) :
              x.addr <= a /\ a < x.addr + x.size
<1>1. /\ x \in Access /\ x.type \in {"r", "m"} /\ x.addr \in Addr
      /\ x.size \in Nat \ {0} /\ x.addr + (x.size - 1) <= AddrMax
  BY AccessAssumption DEF Access
<1>2. Hi(x.addr, x.size) = x.addr + (x.size - 1)
  BY <1>1, HiIs
<1>3. x.addr \in Nat /\ x.addr \in Int /\ x.size \in Int /\ x.size >= 1
  BY <1>1, AddrAssumption DEF Addr
<1>4. /\ x.addr + (x.size - 1) \in Addr /\ x.addr <= x.addr + (x.size - 1)
  BY <1>1, <1>3, AddrAssumption DEF Addr
<1>5. \A a \in x.addr .. x.addr + (x.size - 1) :
        x.addr <= a /\ a < x.addr + x.size
  BY <1>3
<1> QED BY <1>1, <1>2, <1>4, <1>5

LEMMA GoodIsNext ==
  (OneAnswerPerByte /\ ContentsInPlace)' <=> (GoodRoot /\ GoodSubs /\ GoodSaved)'
BY GoodIs, PTL

-----------------------------------------------------------------------------
(***************************************************************************)
(* The events.                                                             *)
(***************************************************************************)
LEMMA InitIInv == Init => IInv
<1> SUFFICES ASSUME Init PROVE IInv
  OBVIOUS
<1> DEFINE all == [type |-> "m", lo |-> 0, hi |-> Hi(0, 0), raw |-> FALSE,
                   contents |-> 1, line |-> 0, event |-> 0]
<1>1. all \in MemoryPayload /\ all.hi = AddrMax /\ 0 \in Addr
  BY HiAll, AddrAssumption DEF MemoryPayload, Addr
<1>2. /\ bytes = <<>> /\ subtrees = <<{}>> /\ mapping = 0 /\ memroot = {all}
      /\ saved = <<>> /\ events = 0 /\ pc = "idle" /\ access = NoAccess
      /\ search = None /\ memp = NoPayload /\ subroot = NoPointer
      /\ msp = None /\ insert = NoInsert
  BY DEF Init
<1>3. TypeOK
  <2>1. bytes \in Seq(Byte) /\ saved \in Seq(SUBSET MemoryPayload)
    BY <1>2
  <2>2. subtrees \in Seq(SUBSET MemorySubPayload)
    BY <1>2
  <2>3. access \in Access /\ search \in AddrRange /\ msp \in AddrRange
    BY <1>1, <1>2 DEF NoAccess, Access, None, AddrRange
  <2>4. memp \in MemoryPayload /\ subroot \in [offset : Nat, mapping : Nat]
    BY <1>1, <1>2 DEF NoPayload, MemoryPayload, NoPointer
  <2>5. insert \in [lo : Addr, hi : Addr, contents : Nat, found : Addr]
    BY <1>1, <1>2 DEF NoInsert
  <2>6. memroot \subseteq MemoryPayload
    BY <1>1, <1>2
  <2> QED BY <1>2, <2>1, <2>2, <2>3, <2>4, <2>5, <2>6 DEF TypeOK, PC
<1>4. GoodRoot
  <2>1. all.type = "m" /\ all.lo = 0 /\ ~all.raw /\ all.contents = 1
    OBVIOUS
  <2>2. 1 \in DOMAIN subtrees
    BY <1>2
  <2>3. GoodTree({all})
    <3>1. Disjoint(InSpace({all}, "m")) /\ Disjoint(InSpace({all}, "r"))
      BY DEF Disjoint, InSpace
    <3>2. \A a \in Addr : all.lo <= a /\ a <= all.hi
      BY <1>1, <2>1, AddrAssumption DEF Addr
    <3>3. all \in InSpace({all}, "m")
      BY <2>1 DEF InSpace
    <3> QED BY <3>1, <3>2, <3>3 DEF GoodTree
  <2>4. InArena(all, bytes, DOMAIN subtrees)
    BY <2>1, <2>2 DEF InArena
  <2> QED BY <1>2, <2>3, <2>4 DEF GoodRoot
<1>5. GoodSubs
  BY <1>2 DEF GoodSubs, Disjoint
<1>6. GoodSaved
  BY <1>2 DEF GoodSaved
<1>7. ReadOK
  BY <1>2 DEF ReadOK, PointerFresh
<1> QED BY <1>3, <1>4, <1>5, <1>6, <1>7, GoodIs DEF IInv

LEMMA WriteIInv ==
  ASSUME IInv, NEW x \in Accesses, Write(x)
  PROVE  IInv' /\ GrowStep
<1>1. TypeOK /\ GoodRoot /\ GoodSubs /\ GoodSaved
  BY GoodIs DEF IInv
<1>2. /\ pc = "idle" /\ events' = events + 1 /\ mapping' = mapping + 1
      /\ UNCHANGED <<subtrees, saved, pc, access, search, memp, subroot, msp,
                     insert>>
  BY DEF Write, NextEvent, readVars
<1> DEFINE lo == x.addr
           hi == Hi(x.addr, x.size)
           data == Data(events', x, lo, hi)
           new == Interval(x.type, lo, hi, TRUE, Len(bytes) + 1)
<1>3. /\ bytes' = bytes \o data /\ memroot' = Replace(memroot, new)
  BY DEF Write
<1>4. /\ x \in Access /\ x.type \in {"r", "m"} /\ lo \in Addr /\ hi \in Addr
      /\ lo <= hi
      /\ \A a \in lo .. hi : x.addr <= a /\ a < x.addr + x.size
  BY EventRange
<1>5. events' \in Nat /\ mapping' \in Nat /\ Len(bytes) \in Nat
      /\ prev_lineno \in Nat
  BY <1>1, <1>2 DEF TypeOK, prev_lineno
<1>6. /\ new \in MemoryPayload /\ new.lo = lo /\ new.hi = hi /\ new.raw
      /\ new.contents = Len(bytes) + 1 /\ new.event = events'
  BY <1>4, <1>5 DEF Interval, MemoryPayload
<1> HIDE DEF new
<1>7. /\ data \in Seq(Byte)
      /\ \A a \in lo .. hi :
           /\ a - lo + 1 \in 1 .. Len(data)
           /\ (x.addr <= a /\ a < x.addr + x.size)
                => data[a - lo + 1] = [event |-> events', addr |-> a]
  BY <1>4, <1>5, DataFacts
<1> HIDE DEF lo, hi
<1> HIDE DEF data
<1>8. /\ bytes' \in Seq(Byte) /\ Grown(bytes, bytes')
      /\ \A k \in 1 .. Len(data) :
           Len(bytes) + k \in DOMAIN bytes' /\ bytes'[Len(bytes) + k] = data[k]
  BY <1>1, <1>3, <1>7, Concat DEF TypeOK
<1>9. GrowStep
  BY <1>2, <1>8 DEF GrowStep
<1>10. InArena(new, bytes', DOMAIN subtrees')
  <2> SUFFICES ASSUME NEW a \in lo .. hi
               PROVE  /\ new.contents + (a - lo) \in DOMAIN bytes'
                      /\ bytes'[new.contents + (a - lo)] =
                           [event |-> new.event, addr |-> a]
    BY <1>6 DEF InArena
  <2>1. lo \in Int /\ a \in Int
    BY <1>4, AddrAssumption DEF Addr
  <2>2. new.contents + (a - lo) = Len(bytes) + (a - lo + 1)
    BY <1>5, <1>6, <2>1
  <2>3. /\ a - lo + 1 \in 1 .. Len(data)
        /\ data[a - lo + 1] = [event |-> events', addr |-> a]
    BY <1>4, <1>7
  <2> QED BY <1>6, <1>8, <2>2, <2>3
<1>11. memroot' \in SUBSET MemoryPayload /\ GoodRoot'
  BY <1>1, <1>3, <1>4, <1>6, <1>9, <1>10, RootReplaced DEF TypeOK
<1>12. GoodSubs' /\ GoodSaved'
  BY <1>1, <1>2, <1>9, SubsStay, SavedStay
<1>13. TypeOK'
  BY <1>1, <1>2, <1>5, <1>8, <1>11 DEF TypeOK
<1>14. ReadOK'
  BY <1>2 DEF ReadOK, PointerFresh
<1> QED BY <1>9, <1>11, <1>12, <1>13, <1>14, GoodIsNext DEF IInv

LEMMA ForgetIInv ==
  ASSUME IInv, NEW x \in Accesses, Forget(x)
  PROVE  IInv' /\ GrowStep
<1>1. TypeOK /\ GoodRoot /\ GoodSubs /\ GoodSaved
  BY GoodIs DEF IInv
<1>2. /\ pc = "idle" /\ events' = events + 1 /\ mapping' = mapping + 1
      /\ UNCHANGED <<bytes, saved, pc, access, search, memp, subroot, msp,
                     insert>>
  BY DEF Forget, NextEvent, readVars
<1> DEFINE lo == x.addr
           hi == Hi(x.addr, x.size)
           new == Interval("m", lo, hi, FALSE, Len(subtrees) + 1)
<1>3. subtrees' = Append(subtrees, {}) /\ memroot' = Replace(memroot, new)
  BY DEF Forget
<1>4. lo \in Addr /\ hi \in Addr /\ lo <= hi
  BY EventRange
<1>5. events' \in Nat /\ mapping' \in Nat /\ Len(subtrees) \in Nat
      /\ prev_lineno \in Nat
  BY <1>1, <1>2 DEF TypeOK, prev_lineno
<1> HIDE DEF lo, hi
<1>6. /\ new \in MemoryPayload /\ new.lo = lo /\ new.hi = hi /\ ~new.raw
      /\ new.contents = Len(subtrees) + 1
  BY <1>4, <1>5 DEF Interval, MemoryPayload
<1> HIDE DEF new
<1>7. subtrees \in Seq(SUBSET MemorySubPayload)
  BY <1>1 DEF TypeOK
<1>8. /\ subtrees' \in Seq(SUBSET MemorySubPayload)
      /\ DOMAIN subtrees' = DOMAIN subtrees \cup {Len(subtrees) + 1}
      /\ \A i \in DOMAIN subtrees : subtrees'[i] = subtrees[i]
      /\ subtrees'[Len(subtrees) + 1] = {}
  BY <1>3, <1>7
<1>9. GrowStep
  BY <1>2, <1>8 DEF GrowStep, Grown
<1>10. InArena(new, bytes', DOMAIN subtrees')
  BY <1>6, <1>8 DEF InArena
<1>11. memroot' \in SUBSET MemoryPayload /\ GoodRoot'
  BY <1>1, <1>3, <1>4, <1>6, <1>9, <1>10, RootReplaced DEF TypeOK
<1>12. GoodSubs'
  <2> SUFFICES ASSUME NEW i \in DOMAIN subtrees'
               PROVE  /\ Disjoint(subtrees'[i])
                      /\ \A p \in subtrees'[i] : SubInArena(p, bytes')
    BY DEF GoodSubs
  <2>1. CASE i \in DOMAIN subtrees
    BY <1>1, <1>2, <1>8, <2>1 DEF GoodSubs
  <2>2. CASE subtrees'[i] = {}
    BY <2>2 DEF Disjoint
  <2> QED BY <1>8, <2>1, <2>2
<1>13. GoodSaved'
  BY <1>1, <1>2, <1>9, SavedStay
<1>14. TypeOK'
  BY <1>1, <1>2, <1>5, <1>8, <1>11 DEF TypeOK
<1>15. ReadOK'
  BY <1>2 DEF ReadOK, PointerFresh
<1> QED BY <1>9, <1>11, <1>12, <1>13, <1>14, <1>15, GoodIsNext DEF IInv

LEMMA NewRecordIInv ==
  ASSUME IInv, NewRecord
  PROVE  IInv' /\ GrowStep
<1>1. TypeOK /\ GoodRoot /\ GoodSubs /\ GoodSaved
  BY GoodIs DEF IInv
<1>2. /\ pc = "idle" /\ saved' = Append(saved, memroot)
      /\ UNCHANGED <<bytes, subtrees, mapping, memroot, events, pc, access,
                     search, memp, subroot, msp, insert>>
  BY DEF NewRecord, readVars
<1>3. saved \in Seq(SUBSET MemoryPayload) /\ memroot \in SUBSET MemoryPayload
  BY <1>1 DEF TypeOK
<1>4. /\ saved' \in Seq(SUBSET MemoryPayload)
      /\ \A i \in DOMAIN saved' : \/ i \in DOMAIN saved /\ saved'[i] = saved[i]
                                  \/ saved'[i] = memroot
  BY <1>2, <1>3
<1>5. GrowStep
  BY <1>2 DEF GrowStep, Grown
<1>6. GoodRoot' /\ GoodSubs'
  BY <1>1, <1>2, <1>5, RootStays, SubsStay
<1>7. GoodSaved'
  BY <1>1, <1>2, <1>4 DEF GoodSaved, GoodRoot
<1>8. TypeOK'
  BY <1>1, <1>2, <1>4 DEF TypeOK
<1>9. ReadOK'
  BY <1>2 DEF ReadOK, PointerFresh
<1> QED BY <1>5, <1>6, <1>7, <1>8, <1>9, GoodIsNext DEF IInv

-----------------------------------------------------------------------------
(***************************************************************************)
(* The turns of the loops of a read.                                       *)
(***************************************************************************)
(* Those that only move on. *)
LEMMA MoveOn ==
  ASSUME IInv, UNCHANGED <<bytes, subtrees, memroot, saved>>, TypeOK', ReadOK'
  PROVE  IInv' /\ GrowStep
<1>1. GoodRoot /\ GoodSubs /\ GoodSaved
  BY GoodIs DEF IInv
<1>2. GrowStep
  BY DEF GrowStep, Grown
<1>3. GoodRoot' /\ GoodSubs' /\ GoodSaved'
  BY <1>1, <1>2, RootStays, SubsStay, SavedStay
<1> QED BY <1>2, <1>3, GoodIsNext DEF IInv

LEMMA BeginReadIInv ==
  ASSUME IInv, NEW x \in Accesses, BeginRead(x)
  PROVE  IInv' /\ GrowStep
<1>1. /\ events' = events + 1 /\ pc' = "node" /\ access' = x
      /\ search' = [lo |-> x.addr, hi |-> Hi(x.addr, x.size)]
      /\ UNCHANGED <<bytes, subtrees, mapping, memroot, saved,
                     memp, subroot, msp, insert>>
  BY DEF BeginRead, NextEvent
<1>2. x \in Access /\ x.addr \in Addr /\ Hi(x.addr, x.size) \in Addr
  BY EventRange
<1>3. TypeOK'
  BY <1>1, <1>2 DEF IInv, TypeOK, PC, AddrRange
<1>4. ReadOK'
  BY <1>1 DEF ReadOK, PointerFresh
<1> QED BY <1>1, <1>3, <1>4, MoveOn

LEMMA ReturnIInv ==
  ASSUME IInv, Return,
         UNCHANGED <<bytes, subtrees, mapping, memroot, saved, events>>
  PROVE  IInv' /\ GrowStep
<1>1. 0 \in Addr
  BY AddrAssumption DEF Addr
<1>2. access' \in Access /\ search' \in AddrRange /\ msp' \in AddrRange
  BY <1>1 DEF Return, NoAccess, Access, None, AddrRange
<1>3. memp' \in MemoryPayload /\ subroot' \in [offset : Nat, mapping : Nat]
  BY <1>1 DEF Return, NoPayload, MemoryPayload, NoPointer
<1>4. insert' \in [lo : Addr, hi : Addr, contents : Nat, found : Addr]
  BY <1>1 DEF Return, NoInsert
<1>5. pc' = "idle"
  BY DEF Return
<1>6. TypeOK'
  BY <1>2, <1>3, <1>4, <1>5 DEF IInv, TypeOK, PC
<1>7. ReadOK'
  BY <1>5 DEF ReadOK, PointerFresh
<1> QED BY <1>6, <1>7, MoveOn

LEMMA NextNodeIInv ==
  ASSUME IInv, NEW p \in MemoryPayload, NextNode(p),
         UNCHANGED <<bytes, subtrees, mapping, memroot, saved, events>>
  PROVE  IInv' /\ GrowStep
<1>1. CASE Return
  BY <1>1, ReturnIInv
<1>2. CASE /\ pc' = "node" /\ search' = [search EXCEPT !.lo = Succ(p.hi)]
           /\ memp' = NoPayload /\ subroot' = NoPointer /\ msp' = None
           /\ UNCHANGED <<access, insert>>
  <2>1. 0 \in Addr
    BY AddrAssumption DEF Addr
  <2>2. Succ(p.hi) \in Addr
    BY PayloadFacts, SuccAddr
  <2>3. search' \in AddrRange /\ msp' \in AddrRange
    BY <1>2, <2>1, <2>2 DEF IInv, TypeOK, AddrRange, None
  <2>4. memp' \in MemoryPayload /\ subroot' \in [offset : Nat, mapping : Nat]
    BY <1>2, <2>1 DEF NoPayload, MemoryPayload, NoPointer
  <2>5. TypeOK'
    BY <1>2, <2>3, <2>4 DEF IInv, TypeOK, PC
  <2>6. ReadOK'
    BY <1>2 DEF ReadOK, PointerFresh
  <2> QED BY <2>5, <2>6, MoveOn
<1> QED BY <1>1, <1>2 DEF NextNode

LEMMA FirstHit ==
  ASSUME TypeOK, NodeHits # {}
  PROVE  Leftmost(NodeHits) \in memroot /\ Leftmost(NodeHits) \in MemoryPayload
<1>1. NodeHits \subseteq memroot /\ memroot \subseteq MemoryPayload
  BY DEF NodeHits, Hits, TypeOK
<1>2. \A p \in NodeHits : p.lo \in Addr
  BY <1>1, PayloadFacts
<1>3. Leftmost(NodeHits) \in NodeHits
  BY <1>2, LeftmostIn
<1> QED BY <1>1, <1>3

LEMMA EndReadIInv == ASSUME IInv, EndRead PROVE IInv' /\ GrowStep
  BY ReturnIInv DEF EndRead

LEMMA SkipKnownIInv == ASSUME IInv, SkipKnown PROVE IInv' /\ GrowStep
  BY FirstHit, NextNodeIInv DEF SkipKnown, IInv

LEMMA LeaveUnknownIInv == ASSUME IInv, LeaveUnknown PROVE IInv' /\ GrowStep
  BY NextNodeIInv DEF LeaveUnknown, IInv, TypeOK

LEMMA EnterUnknownIInv ==
  ASSUME IInv, EnterUnknown
  PROVE  IInv' /\ GrowStep
<1>1. TypeOK /\ GoodRoot
  BY GoodIs DEF IInv
<1> DEFINE p == Leftmost(NodeHits)
<1>2. /\ NodeHits # {} /\ ~p.raw /\ pc' = "find" /\ memp' = p
      /\ subroot' = Pointer(memp', mapping) /\ msp' = Part(memp')
      /\ UNCHANGED <<bytes, subtrees, mapping, memroot, saved, events, access,
                     search, insert>>
  BY DEF EnterUnknown
<1>3. p \in memroot /\ p \in MemoryPayload
  BY <1>1, <1>2, FirstHit
<1> HIDE DEF p
<1>4. p.contents \in DOMAIN subtrees
  BY <1>1, <1>2, <1>3 DEF GoodRoot, InArena
<1>5. p.hi \in Addr /\ p.contents \in Nat
  BY <1>3, PayloadFacts
<1>6. search.lo \in Addr /\ search.hi \in Addr /\ mapping \in Nat
  BY <1>1 DEF TypeOK, AddrRange
<1>7. Min2(p.hi, search.hi) \in Addr
  BY <1>5, <1>6 DEF Min2
<1>8. msp' \in AddrRange
  BY <1>2, <1>6, <1>7 DEF Part, AddrRange
<1>9. subroot' = [offset |-> memp'.contents, mapping |-> mapping]
  BY <1>2 DEF Pointer
<1>10. subroot' \in [offset : Nat, mapping : Nat]
  BY <1>2, <1>5, <1>6, <1>9
<1>11. TypeOK'
  BY <1>1, <1>2, <1>3, <1>8, <1>10 DEF TypeOK, PC
<1>12. ReadOK'
  BY <1>2, <1>4, <1>9 DEF ReadOK, PointerFresh
<1> QED BY <1>2, <1>11, <1>12, MoveOn

LEMMA SkipFoundIInv ==
  ASSUME IInv, SkipFound
  PROVE  IInv' /\ GrowStep
<1>1. /\ pc = "find" /\ msp.lo <= msp.hi
      /\ msp' = [msp EXCEPT !.lo = Succ(Found.hi)]
      /\ UNCHANGED <<bytes, subtrees, mapping, memroot, saved, events, pc,
                     access, search, memp, subroot, insert>>
  BY DEF SkipFound
<1>2. TypeOK /\ ReadOK
  BY DEF IInv
<1>3. subroot.offset \in DOMAIN subtrees
  BY <1>1, <1>2 DEF ReadOK, PointerFresh
<1>4. Found.hi \in Addr
  BY <1>1, <1>2, <1>3, FoundFacts
<1>5. msp' \in AddrRange
  BY <1>1, <1>2, <1>4, SuccAddr DEF TypeOK, AddrRange
<1>6. TypeOK'
  BY <1>1, <1>2, <1>5 DEF TypeOK
<1>7. ReadOK'
  BY <1>1, <1>2 DEF ReadOK, PointerFresh
<1> QED BY <1>1, <1>6, <1>7, MoveOn

LEMMA FillGapIInv ==
  ASSUME IInv, FillGap
  PROVE  IInv' /\ GrowStep
<1>1. TypeOK /\ ReadOK /\ GoodRoot /\ GoodSubs /\ GoodSaved
  BY GoodIs DEF IInv
<1> DEFINE lo == msp.lo
           hi == Found.lo - 1
           data == Data(events, access, lo, hi)
<1>2. /\ pc = "find" /\ msp.lo <= msp.hi /\ msp.lo < Found.lo
      /\ bytes' = bytes \o data
      /\ insert' = [lo |-> lo, hi |-> hi, contents |-> Len(bytes) + 1,
                    found |-> Found.hi]
      /\ mapping' = mapping + 1 /\ subroot' = Refetched(memp)
      /\ pc' = "insert"
      /\ UNCHANGED <<subtrees, memroot, saved, events, access, search, memp,
                     msp>>
  BY DEF FillGap
<1>3. /\ subroot = [offset |-> memp.contents, mapping |-> mapping]
      /\ memp.contents \in DOMAIN subtrees
  BY <1>1, <1>2 DEF ReadOK, PointerFresh
<1>4. /\ Found.hi \in Addr /\ hi \in Addr /\ lo <= hi
      /\ \A p \in subtrees[memp.contents] : ~Overlap(p, lo, hi)
  BY <1>1, <1>2, <1>3, FoundFacts
<1>5. /\ lo \in Addr /\ events \in Nat /\ access \in Access
      /\ mapping' \in Nat /\ Len(bytes) \in Nat /\ memp.contents \in Nat
  BY <1>1, <1>2, PayloadFacts DEF TypeOK, AddrRange
<1> HIDE DEF lo, hi
<1>6. /\ data \in Seq(Byte)
      /\ Len(data) = hi - lo + 1
      /\ \A a \in lo .. hi :
           /\ a - lo + 1 \in 1 .. Len(data)
           /\ data[a - lo + 1].addr = a
           /\ (access.addr <= a /\ a < access.addr + access.size)
                => data[a - lo + 1] = [event |-> events, addr |-> a]
  BY <1>4, <1>5, DataFacts
<1> HIDE DEF data
<1>7. /\ bytes' \in Seq(Byte) /\ Grown(bytes, bytes')
      /\ \A k \in 1 .. Len(data) :
           Len(bytes) + k \in DOMAIN bytes' /\ bytes'[Len(bytes) + k] = data[k]
  BY <1>1, <1>2, <1>6, Concat DEF TypeOK
<1>8. GrowStep
  BY <1>2, <1>7 DEF GrowStep
<1>9. GoodRoot' /\ GoodSubs' /\ GoodSaved'
  BY <1>1, <1>2, <1>8, RootStays, SubsStay, SavedStay
<1>10. subroot' = [offset |-> memp'.contents, mapping |-> mapping']
  BY <1>2 DEF Refetched, Pointer
<1>11. TypeOK'
  <2>1. insert' \in [lo : Addr, hi : Addr, contents : Nat, found : Addr]
    BY <1>2, <1>4, <1>5
  <2>2. subroot' \in [offset : Nat, mapping : Nat]
    BY <1>2, <1>5, <1>10
  <2> QED BY <1>1, <1>2, <1>5, <1>7, <2>1, <2>2 DEF TypeOK, PC
<1>12. SubInArena(insert', bytes')
  <2> SUFFICES ASSUME NEW a \in lo .. hi
               PROVE  /\ Len(bytes) + 1 + (a - lo) \in DOMAIN bytes'
                      /\ bytes'[Len(bytes) + 1 + (a - lo)].addr = a
    BY <1>2 DEF SubInArena
  <2>1. lo \in Int /\ a \in Int
    BY <1>5, AddrAssumption DEF Addr
  <2>2. Len(bytes) + 1 + (a - lo) = Len(bytes) + (a - lo + 1)
    BY <1>5, <2>1
  <2> QED BY <1>6, <1>7, <2>2
<1>13. GapOK'
  <2>1. RightSubContents(insert)'
    BY <1>12 DEF RightSubContents, SubInArena
  <2>2. insert'.lo = lo /\ insert'.hi = hi
    BY <1>2
  <2> QED BY <1>2, <1>4, <2>1, <2>2 DEF GapOK
<1>14. ReadOK'
  BY <1>2, <1>3, <1>10, <1>13 DEF ReadOK, PointerFresh
<1> QED BY <1>8, <1>9, <1>11, <1>14, GoodIsNext DEF IInv

LEMMA InsertGapIInv ==
  ASSUME IInv, InsertGap
  PROVE  IInv' /\ GrowStep
<1>1. TypeOK /\ ReadOK /\ GoodRoot /\ GoodSubs /\ GoodSaved
  BY GoodIs DEF IInv
<1> DEFINE i == memp.contents
           new == [lo |-> insert.lo, hi |-> insert.hi,
                   contents |-> insert.contents]
<1>2. /\ pc = "insert"
      /\ subtrees' = [subtrees EXCEPT ![subroot.offset] = @ \cup {new}]
      /\ mapping' = mapping + 1 /\ subroot' = Refetched(memp)
      /\ msp' = [msp EXCEPT !.lo = Succ(insert.found)]
      /\ insert' = NoInsert /\ pc' = "find"
      /\ UNCHANGED <<bytes, memroot, saved, events, access, search, memp>>
  BY DEF InsertGap, Inserted
<1>3. /\ subroot.offset = i /\ i \in DOMAIN subtrees /\ GapOK
  BY <1>1, <1>2 DEF ReadOK, PointerFresh
<1>4. /\ insert.lo \in Addr /\ insert.hi \in Addr /\ insert.contents \in Nat
      /\ insert.found \in Addr /\ mapping' \in Nat /\ i \in Nat
  BY <1>1, <1>2, PayloadFacts DEF TypeOK
<1>5. /\ new \in MemorySubPayload /\ new.lo = insert.lo /\ new.hi = insert.hi
      /\ new.contents = insert.contents
  BY <1>4 DEF MemorySubPayload
<1> HIDE DEF new
<1>6. subtrees \in Seq(SUBSET MemorySubPayload)
  BY <1>1 DEF TypeOK
<1> HIDE DEF i
<1>7. /\ subtrees[i] \cup {new} \in SUBSET MemorySubPayload
  BY <1>3, <1>5, <1>6
<1>8. /\ subtrees' \in Seq(SUBSET MemorySubPayload)
      /\ DOMAIN subtrees' = DOMAIN subtrees
      /\ subtrees'[i] = subtrees[i] \cup {new}
      /\ \A j \in DOMAIN subtrees : j # i => subtrees'[j] = subtrees[j]
  BY <1>2, <1>3, <1>6, <1>7
<1>9. GrowStep
  BY <1>2, <1>8 DEF GrowStep, Grown
<1>10. GoodRoot' /\ GoodSaved'
  BY <1>1, <1>2, <1>9, RootStays, SavedStay
<1>11. Disjoint(subtrees[i] \cup {new})
  <2>1. Disjoint(subtrees[i])
    BY <1>1, <1>3 DEF GoodSubs
  <2>2. \A p \in subtrees[i] : ~Overlap(p, new.lo, new.hi)
    BY <1>3, <1>5 DEF GapOK, i
  <2>3. ASSUME NEW p \in subtrees[i]
        PROVE  p.hi < new.lo \/ new.hi < p.lo
    <3>1. /\ p.lo \in Int /\ p.hi \in Int /\ new.lo \in Int /\ new.hi \in Int
      BY <1>3, <1>5, <1>6, SubFacts
    <3> QED BY <2>2, <3>1 DEF Overlap
  <2> QED BY <2>1, <2>3 DEF Disjoint
<1>12. SubInArena(new, bytes)
  BY <1>3, <1>5 DEF GapOK, RightSubContents, SubInArena
<1>13. GoodSubs'
  <2> SUFFICES ASSUME NEW j \in DOMAIN subtrees
               PROVE  /\ Disjoint(subtrees'[j])
                      /\ \A p \in subtrees'[j] : SubInArena(p, bytes)
    BY <1>2, <1>8 DEF GoodSubs
  <2>1. CASE j = i
    BY <1>1, <1>3, <1>8, <1>11, <1>12, <2>1 DEF GoodSubs
  <2>2. CASE j # i
    BY <1>1, <1>8, <2>2 DEF GoodSubs
  <2> QED BY <2>1, <2>2
<1>14. subroot' = [offset |-> memp'.contents, mapping |-> mapping']
  BY <1>2 DEF Refetched, Pointer
<1>15. TypeOK'
  <2>1. insert' \in [lo : Addr, hi : Addr, contents : Nat, found : Addr]
    BY <1>2, AddrAssumption DEF NoInsert, Addr
  <2>2. subroot' \in [offset : Nat, mapping : Nat]
    BY <1>2, <1>4, <1>14 DEF i
  <2>3. msp' \in AddrRange
    BY <1>1, <1>2, <1>4, SuccAddr DEF TypeOK, AddrRange
  <2> QED BY <1>1, <1>2, <1>4, <1>8, <2>1, <2>2, <2>3 DEF TypeOK, PC
<1>16. ReadOK'
  BY <1>2, <1>3, <1>8, <1>14 DEF ReadOK, PointerFresh, i
<1> QED BY <1>9, <1>10, <1>13, <1>15, <1>16, GoodIsNext DEF IInv

-----------------------------------------------------------------------------
(***************************************************************************)
(* The theorems.                                                           *)
(***************************************************************************)
LEMMA NextIInv == IInv /\ [Next]_vars => IInv' /\ GrowStep
<1> SUFFICES ASSUME IInv, [Next]_vars PROVE IInv' /\ GrowStep
  OBVIOUS
<1>1. CASE UNCHANGED vars
  <2>1. UNCHANGED <<bytes, subtrees, mapping, memroot, saved, events, pc, access,
                    search, memp, subroot, msp, insert>>
    BY <1>1 DEF vars, readVars
  <2>2. TypeOK'
    BY <2>1 DEF IInv, TypeOK
  <2>3. ReadOK'
    BY <2>1 DEF IInv, ReadOK, PointerFresh, GapOK, RightSubContents
  <2> QED BY <2>1, <2>2, <2>3, MoveOn
<1>2. ASSUME NEW x \in Accesses, Write(x) PROVE IInv' /\ GrowStep
  BY <1>2, WriteIInv
<1>3. ASSUME NEW x \in Accesses, Forget(x) PROVE IInv' /\ GrowStep
  BY <1>3, ForgetIInv
<1>4. ASSUME NEW x \in Accesses, BeginRead(x) PROVE IInv' /\ GrowStep
  BY <1>4, BeginReadIInv
<1>5. CASE NewRecord
  BY <1>5, NewRecordIInv
<1>6. CASE ReadStep
  BY <1>6, EndReadIInv, SkipKnownIInv, EnterUnknownIInv, FillGapIInv,
     InsertGapIInv, SkipFoundIInv, LeaveUnknownIInv DEF ReadStep
<1>7. CASE TraceEnds
  BY <1>1, <1>7 DEF TraceEnds
<1> QED BY <1>1, <1>2, <1>3, <1>4, <1>5, <1>6, <1>7 DEF Next

(* Every step, also the middle of a read, keeps trees, arena and pointer   *)
(* in the relations of IInv.                                               *)
THEOREM Inductive == Spec => []IInv
<1>1. Init => IInv
  BY InitIInv
<1>2. IInv /\ [Next]_vars => IInv'
  BY NextIInv
<1> QED BY <1>1, <1>2, PTL DEF Spec

(* The variables have their types: above all, no address that the loops of *)
(* update_memtree_from_read() step to is outside the address space.        *)
THEOREM TypeCorrect == Spec => []TypeOK
<1>1. IInv => TypeOK
  BY DEF IInv
<1> QED BY <1>1, Inductive, PTL

(* In every version of the memory tree, an address of memory is in one     *)
(* interval and one of a register in one at most, and known bytes in a     *)
(* sub-tree are disjoint.                                                  *)
THEOREM OneAnswer == Spec => []OneAnswerPerByte
<1>1. IInv => OneAnswerPerByte
  BY DEF IInv
<1> QED BY <1>1, Inductive, PTL

(* However delete_from_memtree() cuts an interval, the offset that is left *)
(* in each piece is where the piece's contents are.                        *)
THEOREM ContentsStayInPlace == Spec => []ContentsInPlace
<1>1. IInv => ContentsInPlace
  BY DEF IInv
<1> QED BY <1>1, Inductive, PTL

(* A read never goes through a pointer from before an alloc().             *)
THEOREM PointersStayFresh == Spec => []PointerFresh
<1>1. IInv => PointerFresh
  BY DEF IInv, ReadOK
<1> QED BY <1>1, Inductive, PTL

LEMMA SavedNext ==
  ASSUME TypeOK, [Next]_vars, NEW i \in DOMAIN saved
  PROVE  i \in DOMAIN saved' /\ saved'[i] = saved[i]
<1>1. saved' = saved \/ saved' = Append(saved, memroot)
  BY DEF Next, Write, Forget, BeginRead, ReadStep, EndRead, SkipKnown,
         EnterUnknown, FillGap, InsertGap, SkipFound, LeaveUnknown, NewRecord,
         TraceEnds, vars
<1>2. saved \in Seq(SUBSET MemoryPayload) /\ memroot \in SUBSET MemoryPayload
  BY DEF TypeOK
<1> QED BY <1>1, <1>2

LEMMA KnowsNext ==
  ASSUME IInv, GrowStep, NEW i \in DOMAIN saved, saved'[i] = saved[i],
         NEW type, NEW a \in Addr, NEW b, Knows(saved[i], type, a, b)
  PROVE  Knows(saved[i], type, a, b)'
<1>1. GoodSubs /\ GoodSaved /\ TypeOK
  BY GoodIs DEF IInv
<1>2. PICK p \in InSpace(saved[i], type) :
        /\ p.lo <= a /\ a <= p.hi
        /\ IF p.raw THEN b = bytes[p.contents + (a - p.lo)]
           ELSE \E s \in subtrees[p.contents] :
                  /\ s.lo <= a /\ a <= s.hi
                  /\ b = bytes[s.contents + (a - s.lo)]
  BY DEF Knows
<1>3. p \in saved[i] /\ p \in MemoryPayload
  BY <1>1, <1>2 DEF InSpace, TypeOK
<1>4. a \in Int /\ p.lo \in Int /\ p.hi \in Int /\ a \in p.lo .. p.hi
  BY <1>2, <1>3, PayloadFacts, AddrAssumption DEF Addr
<1>5. InArena(p, bytes, DOMAIN subtrees)
  BY <1>1, <1>3 DEF GoodSaved
<1>6. p \in InSpace(saved'[i], type)
  BY <1>2
<1>7. CASE p.raw
  <2>1. p.contents + (a - p.lo) \in DOMAIN bytes
    BY <1>4, <1>5, <1>7 DEF InArena
  <2>2. bytes'[p.contents + (a - p.lo)] = b
    BY <1>2, <1>7, <2>1 DEF GrowStep, Grown
  <2> QED BY <1>2, <1>6, <1>7, <2>2 DEF Knows
<1>8. CASE ~p.raw
  <2>1. p.contents \in DOMAIN subtrees
    BY <1>5, <1>8 DEF InArena
  <2>2. PICK s \in subtrees[p.contents] :
          /\ s.lo <= a /\ a <= s.hi
          /\ b = bytes[s.contents + (a - s.lo)]
    BY <1>2, <1>8
  <2>3. s \in MemorySubPayload
    BY <1>1, <2>1 DEF TypeOK
  <2>4. a \in s.lo .. s.hi
    BY <1>4, <2>2, <2>3, SubFacts
  <2>5. s.contents + (a - s.lo) \in DOMAIN bytes
    BY <1>1, <2>1, <2>4 DEF GoodSubs, SubInArena
  <2>6. bytes'[s.contents + (a - s.lo)] = b
    BY <2>2, <2>5 DEF GrowStep, Grown
  <2>7. s \in subtrees'[p.contents]
    BY <2>1 DEF GrowStep
  <2> QED BY <1>2, <1>6, <1>8, <2>2, <2>6, <2>7 DEF Knows
<1> QED BY <1>7, <1>8

(* What a version knows of a byte it goes on to know, whatever is written, *)
(* forgotten or read later.                                                *)
THEOREM KnowledgeStays == Spec => VersionsOnlyLearn
<1> DEFINE Learn == \A i \in DOMAIN saved, type \in {"r", "m"}, a \in Addr :
                      \A b \in {bytes[k] : k \in DOMAIN bytes} :
                        Knows(saved[i], type, a, b)
                          => Knows(saved[i], type, a, b)'
<1>1. IInv /\ [Next]_vars => Learn
  <2> SUFFICES ASSUME IInv, [Next]_vars, NEW i \in DOMAIN saved,
                      NEW type \in {"r", "m"}, NEW a \in Addr,
                      NEW b \in {bytes[k] : k \in DOMAIN bytes},
                      Knows(saved[i], type, a, b)
               PROVE  Knows(saved[i], type, a, b)'
    OBVIOUS
  <2>1. TypeOK /\ GrowStep
    BY NextIInv DEF IInv
  <2>2. saved'[i] = saved[i]
    BY <2>1, SavedNext
  <2> QED BY <2>1, <2>2, KnowsNext
<1>2. IInv /\ [Next]_vars => [Learn]_vars
  BY <1>1
<1> HIDE DEF Learn
<1>3. Spec => [][Learn]_vars
  BY <1>2, Inductive, PTL DEF Spec
<1> QED BY <1>3 DEF VersionsOnlyLearn, Learn

-----------------------------------------------------------------------------
(***************************************************************************)
(* What a version holds, as a function of the arena and the sub-trees.     *)
(***************************************************************************)
SubsAt(S, p, a) == {s \in S[p.contents] : Covers(s, a)}

ValueIn(B, S, p, a) ==
  LET s == CHOOSE s \in SubsAt(S, p, a) : TRUE
  IN IF p.raw THEN B[p.contents + (a - p.lo)]
     ELSE IF SubsAt(S, p, a) = {} THEN Unknown ELSE B[s.contents + (a - s.lo)]

At(tree, type, a) == {p \in tree : p.type = type /\ Covers(p, a)}

Cell(B, S, p, a) ==
  [event |-> p.event, line |-> p.line, value |-> ValueIn(B, S, p, a)]

CellAt(B, S, tree, b) ==
  LET p == CHOOSE p \in At(tree, b[1], b[2]) : TRUE
  IN IF At(tree, b[1], b[2]) = {}
     THEN [event |-> 0, line |-> 0, value |-> Unknown]
     ELSE Cell(B, S, p, b[2])

ViewIn(B, S, tree) == [b \in Bytes |-> CellAt(B, S, tree, b)]

VersionsIn(B, S, versions, root) ==
  Append([i \in DOMAIN versions |-> ViewIn(B, S, versions[i])],
         ViewIn(B, S, root))

(* The state of the byte memory that the tree stands for. *)
AbsVersions == Append([i \in DOMAIN saved |-> View(saved[i])], View(memroot))
AbsReading == IF pc = "idle" THEN {} ELSE BytesOf(access)

LEMMA AbsIs ==
  /\ AbsVersions = VersionsIn(bytes, subtrees, saved, memroot)
  /\ AbsVersions' = VersionsIn(bytes', subtrees', saved', memroot')
<1>1. AbsVersions = VersionsIn(bytes, subtrees, saved, memroot)
  BY DEF AbsVersions, VersionsIn, View, ViewIn, CellAt, Cell, At, ValueAt,
         ValueIn, SubsAt
<1>2. AbsVersions' = VersionsIn(bytes', subtrees', saved', memroot')
  BY DEF AbsVersions, VersionsIn, View, ViewIn, CellAt, Cell, At, ValueAt,
         ValueIn, SubsAt, Covers, Bytes
<1> QED  BY <1>1, <1>2

LEMMA AppendIs ==
  ASSUME NEW T, NEW s \in Seq(T), NEW e \in T
  PROVE  /\ Append(s, e) = [i \in 1 .. (Len(s) + 1) |->
                              IF i = Len(s) + 1 THEN e ELSE s[i]]
         /\ Len(Append(s, e)) = Len(s) + 1
<1>1. /\ Append(s, e) \in Seq(T) /\ Len(Append(s, e)) = Len(s) + 1
      /\ \A i \in 1 .. Len(s) : Append(s, e)[i] = s[i]
      /\ Append(s, e)[Len(s) + 1] = e
  OBVIOUS
<1>2. Append(s, e) \in [1 .. (Len(s) + 1) -> T]
  <2>1. \A q \in Seq(T) : q \in [1 .. Len(q) -> T]
    OBVIOUS
  <2> QED  BY <1>1, <2>1
<1>3. Len(s) \in Nat
  OBVIOUS
<1>4. \A i \in 1 .. (Len(s) + 1) :
        Append(s, e)[i] = IF i = Len(s) + 1 THEN e ELSE s[i]
  BY <1>1, <1>3
<1> QED  BY <1>1, <1>2, <1>4

LEMMA VersionsAre ==
  ASSUME NEW B, NEW S, NEW versions \in Seq(SUBSET MemoryPayload), NEW root
  PROVE  /\ DOMAIN versions = 1 .. Len(versions) /\ Len(versions) \in Nat
         /\ VersionsIn(B, S, versions, root)
              = [i \in 1 .. (Len(versions) + 1) |->
                   IF i = Len(versions) + 1 THEN ViewIn(B, S, root)
                   ELSE ViewIn(B, S, versions[i])]
         /\ Len(VersionsIn(B, S, versions, root)) = Len(versions) + 1
<1> DEFINE views == [i \in DOMAIN versions |-> ViewIn(B, S, versions[i])]
<1>1. DOMAIN versions = 1 .. Len(versions) /\ Len(versions) \in Nat
  OBVIOUS
<1>2. views \in Seq({ViewIn(B, S, versions[i]) : i \in DOMAIN versions})
      /\ Len(views) = Len(versions)
  BY <1>1
<1>3. VersionsIn(B, S, versions, root) = Append(views, ViewIn(B, S, root))
  BY DEF VersionsIn
<1> DEFINE last == ViewIn(B, S, root)
           all == {ViewIn(B, S, versions[i]) : i \in DOMAIN versions}
                    \cup {last}
<1>4. views \in Seq(all) /\ last \in all
  BY <1>1
<1>5. \A i \in 1 .. Len(versions) : views[i] = ViewIn(B, S, versions[i])
  BY <1>1
<1> HIDE DEF views, all, last
<1>6. /\ Append(views, last) = [i \in 1 .. (Len(views) + 1) |->
                                  IF i = Len(views) + 1 THEN last ELSE views[i]]
      /\ Len(Append(views, last)) = Len(views) + 1
  BY <1>4, AppendIs
<1>7. Len(views) = Len(versions)
  BY <1>2
<1>8. Append(views, last) = [i \in 1 .. (Len(versions) + 1) |->
        IF i = Len(versions) + 1 THEN last ELSE ViewIn(B, S, versions[i])]
  <2>1. \A i \in 1 .. (Len(versions) + 1) :
          i # Len(versions) + 1 => i \in 1 .. Len(versions)
    BY <1>1
  <2> QED  BY <1>5, <1>6, <1>7, <2>1
<1> QED  BY <1>1, <1>3, <1>6, <1>7, <1>8 DEF last

-----------------------------------------------------------------------------
(* The interval that covers a byte gives its cell. *)
LEMMA CellOf ==
  ASSUME NEW tree \in SUBSET MemoryPayload, GoodTree(tree), NEW p \in tree,
         NEW a \in Addr, Covers(p, a), NEW B, NEW S
  PROVE  /\ <<p.type, a>> \in Bytes
         /\ ViewIn(B, S, tree)[<<p.type, a>>] = Cell(B, S, p, a)
<1>1. p \in MemoryPayload /\ p.type \in {"r", "m"}
  BY PayloadFacts
<1>2. <<p.type, a>> \in Bytes
  BY <1>1 DEF Bytes
<1>3. p \in At(tree, p.type, a)
  BY DEF At
<1>4. ASSUME NEW q \in At(tree, p.type, a)
      PROVE  q = p
  <2>1. q \in tree /\ q.type = p.type /\ q.lo <= a /\ a <= q.hi
    BY DEF At, Covers
  <2>2. p.lo <= a /\ a <= p.hi
    BY DEF Covers
  <2>3. Disjoint(InSpace(tree, p.type))
    BY <1>1 DEF GoodTree
  <2>4. p \in InSpace(tree, p.type) /\ q \in InSpace(tree, p.type)
    BY <2>1 DEF InSpace
  <2>5. /\ a \in Int /\ p.lo \in Int /\ p.hi \in Int /\ q.lo \in Int
        /\ q.hi \in Int
    BY <2>1, PayloadFacts DEF Addr
  <2>6. q # p => q.hi < p.lo \/ p.hi < q.lo
    BY <2>3, <2>4 DEF Disjoint
  <2> QED  BY <2>1, <2>2, <2>5, <2>6
<1>5. At(tree, p.type, a) = {p}
  BY <1>3, <1>4
<1>6. (CHOOSE q \in At(tree, p.type, a) : TRUE) = p
  BY <1>5
<1> QED  BY <1>2, <1>5, <1>6 DEF ViewIn, CellAt

LEMMA CellOfNone ==
  ASSUME NEW tree, NEW b \in Bytes, At(tree, b[1], b[2]) = {}, NEW B, NEW S
  PROVE  ViewIn(B, S, tree)[b] = [event |-> 0, line |-> 0, value |-> Unknown]
BY DEF ViewIn, CellAt

(* And the sub-interval that covers it, its value. *)
LEMMA ValueOfSub ==
  ASSUME NEW p, ~p.raw, NEW S, S[p.contents] \in SUBSET MemorySubPayload,
         Disjoint(S[p.contents]), NEW s \in S[p.contents],
         NEW a \in Addr, Covers(s, a), NEW B
  PROVE  ValueIn(B, S, p, a) = B[s.contents + (a - s.lo)]
<1>1. ASSUME NEW q \in SubsAt(S, p, a)
      PROVE  q = s
  <2>1. q \in S[p.contents] /\ q.lo <= a /\ a <= q.hi
    BY DEF SubsAt, Covers
  <2>2. s.lo <= a /\ a <= s.hi
    BY DEF Covers
  <2>3. /\ a \in Int /\ s.lo \in Int /\ s.hi \in Int /\ q.lo \in Int
        /\ q.hi \in Int
    BY <2>1, SubFacts DEF Addr
  <2>4. q # s => q.hi < s.lo \/ s.hi < q.lo
    BY <2>1 DEF Disjoint
  <2> QED  BY <2>1, <2>2, <2>3, <2>4
<1>2. SubsAt(S, p, a) = {s}
  BY <1>1 DEF SubsAt
<1>3. (CHOOSE q \in SubsAt(S, p, a) : TRUE) = s
  BY <1>2
<1> QED  BY <1>2, <1>3 DEF ValueIn

LEMMA ValueOfNone ==
  ASSUME NEW p, ~p.raw, NEW S, NEW a,
         \A s \in S[p.contents] : ~Covers(s, a), NEW B
  PROVE  ValueIn(B, S, p, a) = Unknown
<1>1. SubsAt(S, p, a) = {}
  BY DEF SubsAt
<1> QED  BY <1>1 DEF ValueIn

LEMMA ValueOfRaw ==
  ASSUME NEW p, p.raw, NEW S, NEW B, NEW a
  PROVE  ValueIn(B, S, p, a) = B[p.contents + (a - p.lo)]
BY DEF ValueIn

-----------------------------------------------------------------------------
(* When the arena grows, what a version holds does not change. *)
TreesKept(S, T) == \A i \in DOMAIN S : T[i] = S[i]

SubsGood(B, S) ==
  \A i \in DOMAIN S : /\ S[i] \in SUBSET MemorySubPayload /\ Disjoint(S[i])
                      /\ \A s \in S[i] : SubInArena(s, B)

LEMMA ValueStays ==
  ASSUME NEW B, NEW C, Grown(B, C), NEW S, NEW T, TreesKept(S, T), SubsGood(B, S),
         NEW p, InArena(p, B, DOMAIN S), NEW a \in Addr, Covers(p, a),
         p.lo \in Int, p.hi \in Int
  PROVE  ValueIn(C, T, p, a) = ValueIn(B, S, p, a)
<1>0. a \in Int
  BY DEF Addr
<1>1. CASE p.raw
  <2>1. a \in p.lo .. p.hi
    BY <1>0 DEF Covers
  <2>2. p.contents + (a - p.lo) \in DOMAIN B
    BY <1>1, <2>1 DEF InArena
  <2> QED  BY <1>1, <2>2, ValueOfRaw DEF Grown
<1>2. CASE ~p.raw
  <2>1. p.contents \in DOMAIN S
    BY <1>2 DEF InArena
  <2>2. SubsAt(T, p, a) = SubsAt(S, p, a)
    BY <2>1 DEF TreesKept, SubsAt
  <2>3. CASE SubsAt(S, p, a) = {}
    BY <1>2, <2>2, <2>3 DEF ValueIn
  <2>4. CASE SubsAt(S, p, a) # {}
    <3>1. PICK s \in SubsAt(S, p, a) : TRUE
      BY <2>4
    <3>2. s \in S[p.contents] /\ s \in T[p.contents] /\ Covers(s, a)
      BY <3>1, <2>1 DEF SubsAt, TreesKept
    <3>3. /\ S[p.contents] \in SUBSET MemorySubPayload
          /\ Disjoint(S[p.contents]) /\ SubInArena(s, B)
      BY <2>1, <3>2 DEF SubsGood
    <3>4. T[p.contents] = S[p.contents]
      BY <2>1 DEF TreesKept
    <3>5. /\ ValueIn(B, S, p, a) = B[s.contents + (a - s.lo)]
          /\ ValueIn(C, T, p, a) = C[s.contents + (a - s.lo)]
      BY <1>2, <3>2, <3>3, <3>4, ValueOfSub
    <3>6. s.lo \in Int /\ s.hi \in Int
      BY <3>2, <3>3, SubFacts
    <3>7. a \in s.lo .. s.hi
      BY <1>0, <3>2, <3>6 DEF Covers
    <3>8. s.contents + (a - s.lo) \in DOMAIN B
      BY <3>3, <3>7 DEF SubInArena
    <3> QED  BY <3>5, <3>8 DEF Grown
  <2> QED  BY <2>3, <2>4
<1> QED  BY <1>1, <1>2

LEMMA ViewStays ==
  ASSUME NEW B, NEW C, Grown(B, C), NEW S, NEW T, TreesKept(S, T), SubsGood(B, S),
         NEW tree \in SUBSET MemoryPayload,
         \A p \in tree : InArena(p, B, DOMAIN S)
  PROVE  ViewIn(C, T, tree) = ViewIn(B, S, tree)
<1> SUFFICES ASSUME NEW b \in Bytes
             PROVE  CellAt(C, T, tree, b) = CellAt(B, S, tree, b)
  BY DEF ViewIn
<1> DEFINE ps == At(tree, b[1], b[2])
           p == CHOOSE p \in ps : TRUE
<1>1. CASE ps = {}
  BY <1>1 DEF CellAt
<1>2. CASE ps # {}
  <2>1. p \in tree /\ Covers(p, b[2])
    BY <1>2 DEF At
  <2>2. b[2] \in Addr
    BY DEF Bytes
  <2>3. p.lo \in Int /\ p.hi \in Int /\ InArena(p, B, DOMAIN S)
    BY <2>1, PayloadFacts
  <2>4. ValueIn(C, T, p, b[2]) = ValueIn(B, S, p, b[2])
    <3> HIDE DEF p
    <3> QED  BY <2>1, <2>2, <2>3, ValueStays
  <2> QED  BY <1>2, <2>4 DEF CellAt, Cell
<1> QED  BY <1>1, <1>2

(* A new interval in a tree covers its bytes; the others stay as they are. *)
LEMMA PieceCell ==
  ASSUME NEW p \in MemoryPayload, NEW type, NEW lo \in Addr, NEW hi \in Addr,
         NEW q, NEW B, NEW S, NEW a \in Addr,
         \/ q = p /\ Kept(p, type, lo, hi)
         \/ q = Below(p, lo) /\ CutBelow(p, type, lo, hi)
         \/ q = Above(p, hi) /\ CutAbove(p, type, lo, hi)
  PROVE  Cell(B, S, q, a) = Cell(B, S, p, a)
<1>0. /\ p.lo \in Int /\ hi \in Int /\ a \in Int /\ p.contents \in Int
  BY PayloadFacts DEF Addr
<1>1. CASE q = p
  BY <1>1
<1>2. CASE q = Below(p, lo) /\ CutBelow(p, type, lo, hi)
  <2>1. /\ q.lo = p.lo /\ q.raw = p.raw /\ q.contents = p.contents
        /\ q.event = p.event
    BY <1>2, BelowFacts
  <2>2. q.line = p.line
    BY <1>2 DEF Below, MemoryPayload
  <2> QED  BY <2>1, <2>2 DEF Cell, ValueIn, SubsAt
<1>3. CASE q = Above(p, hi) /\ CutAbove(p, type, lo, hi)
  <2>1. /\ q.lo = hi + 1 /\ q.raw = p.raw
        /\ q.contents = IF p.raw THEN p.contents + (hi + 1 - p.lo)
                        ELSE p.contents
        /\ q.event = p.event
    BY <1>3, AboveFacts
  <2>2. q.line = p.line
    BY <1>3 DEF Above, MemoryPayload
  <2>3. ValueIn(B, S, q, a) = ValueIn(B, S, p, a)
    <3>1. CASE p.raw
      <4>1. q.contents + (a - q.lo) = p.contents + (a - p.lo)
        BY <1>0, <2>1, <3>1
      <4> QED  BY <2>1, <3>1, <4>1, ValueOfRaw
    <3>2. CASE ~p.raw
      BY <2>1, <3>2 DEF ValueIn, SubsAt
    <3> QED  BY <3>1, <3>2
  <2> QED  BY <2>1, <2>2, <2>3 DEF Cell
<1> QED  BY <1>1, <1>2, <1>3

LEMMA ReplaceView ==
  ASSUME NEW tree \in SUBSET MemoryPayload, GoodTree(tree),
         NEW new \in MemoryPayload, new.lo <= new.hi, NEW B, NEW S,
         NEW b \in Bytes
  PROVE  ViewIn(B, S, Replace(tree, new))[b] =
           IF b[1] = new.type /\ Covers(new, b[2]) THEN Cell(B, S, new, b[2])
           ELSE ViewIn(B, S, tree)[b]
<1> DEFINE rest == DeleteFrom(tree, new.type, new.lo, new.hi)
           a == b[2]
           type == b[1]
<1>0. /\ new.lo \in Addr /\ new.hi \in Addr /\ new.lo \in Int /\ new.hi \in Int
      /\ a \in Addr /\ a \in Int /\ type \in {"r", "m"} /\ b = <<type, a>>
  BY PayloadFacts DEF Addr, Bytes
<1>1. /\ Replace(tree, new) \in SUBSET MemoryPayload
      /\ GoodTree(Replace(tree, new))
      /\ new \in Replace(tree, new) /\ rest \subseteq Replace(tree, new)
      /\ \A q \in Replace(tree, new) : q = new \/ q \in rest
  BY ReplaceGood DEF Replace
<1> HIDE DEF rest
<1>2. CASE type = new.type /\ Covers(new, a)
  <2>1. ViewIn(B, S, Replace(tree, new))[<<new.type, a>>] = Cell(B, S, new, a)
    BY <1>0, <1>1, <1>2, CellOf
  <2> QED  BY <1>0, <1>2, <2>1
<1>3. CASE ~(type = new.type /\ Covers(new, a))
  <2>1. CASE At(tree, type, a) = {}
    <3>1. ASSUME NEW q \in At(Replace(tree, new), type, a)
          PROVE  FALSE
      <4>1. q \in rest /\ q.type = type /\ q.lo <= a /\ a <= q.hi
        BY <1>1, <1>3, <3>1 DEF At, Covers
      <4>2. PICK p \in tree :
              \/ q = p /\ Kept(p, new.type, new.lo, new.hi)
              \/ q = Below(p, new.lo) /\ CutBelow(p, new.type, new.lo, new.hi)
              \/ q = Above(p, new.hi) /\ CutAbove(p, new.type, new.lo, new.hi)
        BY <1>0, <4>1, Pieces DEF rest
      <4>3. p \in MemoryPayload /\ p.lo \in Int /\ p.hi \in Int
        BY PayloadFacts
      <4>4. /\ q \in MemoryPayload /\ q.type = p.type
            /\ p.lo <= q.lo /\ q.hi <= p.hi
        BY <1>0, <4>2, <4>3, PieceFacts
      <4>5. q.lo \in Int /\ q.hi \in Int
        BY <4>4, PayloadFacts
      <4>6. p.lo <= a /\ a <= p.hi
        BY <1>0, <4>1, <4>3, <4>4, <4>5
      <4> QED  BY <2>1, <4>1, <4>4, <4>6 DEF At, Covers
    <3>2. At(Replace(tree, new), type, a) = {}
      BY <3>1
    <3> QED  BY <1>3, <2>1, <3>2, CellOfNone
  <2>2. CASE At(tree, type, a) # {}
    <3>1. PICK p \in tree : p.type = type /\ Covers(p, a)
      BY <2>2 DEF At
    <3>2. p \in MemoryPayload /\ p.lo \in Int /\ p.hi \in Int
      BY PayloadFacts
    <3>3. PICK q \in rest :
            /\ \/ q = p /\ Kept(p, new.type, new.lo, new.hi)
               \/ q = Below(p, new.lo) /\ CutBelow(p, new.type, new.lo, new.hi)
               \/ q = Above(p, new.hi) /\ CutAbove(p, new.type, new.lo, new.hi)
            /\ Covers(q, a)
      <4>1. /\ Kept(p, new.type, new.lo, new.hi) => p \in rest
            /\ CutBelow(p, new.type, new.lo, new.hi) => Below(p, new.lo) \in rest
            /\ CutAbove(p, new.type, new.lo, new.hi) => Above(p, new.hi) \in rest
        BY <1>0, PiecesThere DEF rest
      <4>2. CASE Kept(p, new.type, new.lo, new.hi)
        BY <3>1, <4>1, <4>2
      <4>3. CASE ~Kept(p, new.type, new.lo, new.hi)
        <5>1. p.type = new.type /\ new.lo <= p.hi /\ p.lo <= new.hi
          BY <1>0, <3>2, <4>3 DEF Kept
        <5>2. a < new.lo \/ new.hi < a
          BY <1>0, <1>3, <3>1, <5>1 DEF Covers
        <5>3. CASE a < new.lo
          <6>1. CutBelow(p, new.type, new.lo, new.hi)
            BY <1>0, <3>1, <3>2, <5>1, <5>3 DEF CutBelow, Covers
          <6>2. Below(p, new.lo).lo = p.lo /\ Below(p, new.lo).hi = new.lo - 1
            BY <1>0, <3>2, <6>1, BelowFacts
          <6>3. Covers(Below(p, new.lo), a)
            BY <1>0, <3>1, <5>3, <6>2 DEF Covers
          <6> QED  BY <4>1, <6>1, <6>3
        <5>4. CASE new.hi < a
          <6>1. CutAbove(p, new.type, new.lo, new.hi)
            BY <1>0, <3>1, <3>2, <5>1, <5>4 DEF CutAbove, Covers
          <6>2. Above(p, new.hi).lo = new.hi + 1 /\ Above(p, new.hi).hi = p.hi
            BY <1>0, <3>2, <6>1, AboveFacts
          <6>3. Covers(Above(p, new.hi), a)
            BY <1>0, <3>1, <5>4, <6>2 DEF Covers
          <6> QED  BY <4>1, <6>1, <6>3
        <5> QED  BY <5>2, <5>3, <5>4
      <4> QED  BY <4>2, <4>3
    <3>4. q.type = p.type
      BY <1>0, <3>2, <3>3, PieceFacts
    <3>5. ViewIn(B, S, Replace(tree, new))[<<q.type, a>>] = Cell(B, S, q, a)
      BY <1>0, <1>1, <3>3, CellOf
    <3>6. Cell(B, S, q, a) = Cell(B, S, p, a)
      BY <1>0, <3>2, <3>3, PieceCell
    <3>7. ViewIn(B, S, tree)[<<p.type, a>>] = Cell(B, S, p, a)
      BY <1>0, <3>1, CellOf
    <3> QED  BY <1>0, <1>3, <3>1, <3>4, <3>5, <3>6, <3>7
  <2> QED  BY <2>1, <2>2
<1> QED  BY <1>2, <1>3

-----------------------------------------------------------------------------
(***************************************************************************)
(* The events between reads.                                               *)
(***************************************************************************)
LEMMA StateGood ==
  ASSUME IInv
  PROVE  /\ SubsGood(bytes, subtrees)
         /\ saved \in Seq(SUBSET MemoryPayload)
         /\ memroot \in SUBSET MemoryPayload /\ GoodTree(memroot)
         /\ \A p \in memroot : InArena(p, bytes, DOMAIN subtrees)
         /\ \A i \in DOMAIN saved :
              /\ saved[i] \in SUBSET MemoryPayload /\ GoodTree(saved[i])
              /\ \A p \in saved[i] : InArena(p, bytes, DOMAIN subtrees)
<1>1. TypeOK /\ GoodRoot /\ GoodSubs /\ GoodSaved
  BY GoodIs DEF IInv
<1>2. /\ subtrees \in Seq(SUBSET MemorySubPayload)
      /\ saved \in Seq(SUBSET MemoryPayload)
      /\ memroot \in SUBSET MemoryPayload
  BY <1>1 DEF TypeOK
<1>3. SubsGood(bytes, subtrees)
  BY <1>1, <1>2 DEF GoodSubs, SubsGood
<1>4. \A i \in DOMAIN saved : saved[i] \in SUBSET MemoryPayload
  BY <1>2
<1> QED  BY <1>1, <1>2, <1>3, <1>4 DEF GoodRoot, GoodSaved

LEMMA AbsVersionsAre ==
  ASSUME IInv
  PROVE  /\ DOMAIN saved = 1 .. Len(saved) /\ Len(saved) \in Nat
         /\ AbsVersions = [i \in 1 .. (Len(saved) + 1) |->
              IF i = Len(saved) + 1 THEN ViewIn(bytes, subtrees, memroot)
              ELSE ViewIn(bytes, subtrees, saved[i])]
         /\ Len(AbsVersions) = Len(saved) + 1
<1>1. saved \in Seq(SUBSET MemoryPayload)
  BY StateGood
<1> QED  BY <1>1, VersionsAre, AbsIs

(* A step that only makes the arena grow changes nothing of what the       *)
(* versions hold.                                                          *)
LEMMA VersionsStay ==
  ASSUME IInv, NEW C, Grown(bytes, C), NEW T, TreesKept(subtrees, T)
  PROVE  /\ \A i \in DOMAIN saved :
              ViewIn(C, T, saved[i]) = ViewIn(bytes, subtrees, saved[i])
         /\ ViewIn(C, T, memroot) = ViewIn(bytes, subtrees, memroot)
         /\ VersionsIn(C, T, saved, memroot) = AbsVersions
<1>1. ViewIn(C, T, memroot) = ViewIn(bytes, subtrees, memroot)
  BY StateGood, ViewStays
<1>2. \A i \in DOMAIN saved :
        ViewIn(C, T, saved[i]) = ViewIn(bytes, subtrees, saved[i])
  BY StateGood, ViewStays
<1>3. VersionsIn(C, T, saved, memroot)
        = VersionsIn(bytes, subtrees, saved, memroot)
  BY <1>1, <1>2 DEF VersionsIn
<1> QED  BY <1>1, <1>2, <1>3, AbsIs

LEMMA NothingKnownAtFirst ==
  ASSUME Init
  PROVE  Abstract!Init
<1> DEFINE all == [type |-> "m", lo |-> 0, hi |-> Hi(0, 0), raw |-> FALSE,
                   contents |-> 1, line |-> 0, event |-> 0]
           nothing == [event |-> 0, line |-> 0, value |-> Unknown]
<1>1. /\ subtrees = <<{}>> /\ memroot = {all} /\ saved = <<>> /\ events = 0
      /\ pc = "idle"
  BY DEF Init
<1>2. /\ IInv /\ memroot \in SUBSET MemoryPayload /\ GoodTree(memroot)
      /\ saved \in Seq(SUBSET MemoryPayload)
  BY InitIInv, StateGood
<1>3. ASSUME NEW b \in Bytes
      PROVE  ViewIn(bytes, subtrees, memroot)[b] = nothing
  <2>1. b[1] \in {"r", "m"} /\ b[2] \in Addr /\ b = <<b[1], b[2]>>
    BY DEF Bytes
  <2>2. CASE At(memroot, b[1], b[2]) = {}
    BY <2>2, CellOfNone
  <2>3. CASE At(memroot, b[1], b[2]) # {}
    <3>1. all \in memroot /\ Covers(all, b[2]) /\ b[1] = all.type
      BY <1>1, <2>3 DEF At
    <3>2. ViewIn(bytes, subtrees, memroot)[<<all.type, b[2]>>]
            = Cell(bytes, subtrees, all, b[2])
      <4> HIDE DEF all
      <4> QED  BY <1>2, <2>1, <3>1, CellOf
    <3>3. ValueIn(bytes, subtrees, all, b[2]) = Unknown
      <4>1. ~all.raw /\ subtrees[all.contents] = {}
        BY <1>1
      <4> HIDE DEF all
      <4> QED  BY <4>1, ValueOfNone
    <3> QED  BY <2>1, <3>1, <3>2, <3>3 DEF Cell
  <2> QED  BY <2>2, <2>3
<1>4. ViewIn(bytes, subtrees, memroot) = [b \in Bytes |-> nothing]
  BY <1>3 DEF ViewIn
<1>5. AbsVersions = <<[b \in Bytes |-> nothing]>>
  <2>1. AbsVersions = Append([i \in DOMAIN saved |->
                                ViewIn(bytes, subtrees, saved[i])],
                             ViewIn(bytes, subtrees, memroot))
    BY AbsIs DEF VersionsIn
  <2>2. [i \in DOMAIN saved |-> ViewIn(bytes, subtrees, saved[i])] = <<>>
    BY <1>1
  <2>3. \A v : Append(<<>>, v) = <<v>>
    OBVIOUS
  <2> HIDE DEF nothing
  <2> QED  BY <1>4, <2>1, <2>2, <2>3
<1>6. AbsReading = {}
  BY <1>1 DEF AbsReading
<1> QED  BY <1>1, <1>5, <1>6 DEF Abstract!Init, AbsVersions, AbsReading

(* The bytes of a new interval are what it says of them. *)
LEMMA Touched ==
  ASSUME IInv, NEW C, Grown(bytes, C), NEW T, TreesKept(subtrees, T),
         NEW new \in MemoryPayload, new.lo <= new.hi
  PROVE  LET n == Len(AbsVersions)
             bs == {<<new.type, a>> : a \in new.lo .. new.hi}
         IN VersionsIn(C, T, saved, Replace(memroot, new)) =
              [AbsVersions EXCEPT ![n] =
                 [b \in Bytes |-> IF b \in bs THEN Cell(C, T, new, b[2])
                                  ELSE AbsVersions[n][b]]]
<1> DEFINE n == Len(AbsVersions)
           bs == {<<new.type, a>> : a \in new.lo .. new.hi}
           root == Replace(memroot, new)
           touched == [b \in Bytes |-> IF b \in bs THEN Cell(C, T, new, b[2])
                                       ELSE AbsVersions[n][b]]
<1>1. /\ memroot \in SUBSET MemoryPayload /\ GoodTree(memroot)
      /\ saved \in Seq(SUBSET MemoryPayload)
  BY StateGood
<1>2. /\ DOMAIN saved = 1 .. Len(saved) /\ Len(saved) \in Nat
      /\ AbsVersions = [i \in 1 .. (Len(saved) + 1) |->
           IF i = Len(saved) + 1 THEN ViewIn(bytes, subtrees, memroot)
           ELSE ViewIn(bytes, subtrees, saved[i])]
      /\ n = Len(saved) + 1
  BY AbsVersionsAre
<1>3. VersionsIn(C, T, saved, root) = [i \in 1 .. (Len(saved) + 1) |->
         IF i = Len(saved) + 1 THEN ViewIn(C, T, root)
         ELSE ViewIn(C, T, saved[i])]
  BY <1>1, VersionsAre
<1>4. /\ \A i \in DOMAIN saved :
           ViewIn(C, T, saved[i]) = ViewIn(bytes, subtrees, saved[i])
      /\ ViewIn(C, T, memroot) = ViewIn(bytes, subtrees, memroot)
  BY VersionsStay
<1>5. AbsVersions[n] = ViewIn(bytes, subtrees, memroot)
  BY <1>2
<1>6. ViewIn(C, T, root) = touched
  <2>1. ASSUME NEW b \in Bytes
        PROVE  ViewIn(C, T, root)[b] = touched[b]
    <3>1. b = <<b[1], b[2]>> /\ b[2] \in Addr /\ b[2] \in Int
      BY DEF Bytes, Addr
    <3>2. new.lo \in Int /\ new.hi \in Int
      BY PayloadFacts
    <3>3. (b \in bs) <=> (b[1] = new.type /\ Covers(new, b[2]))
      BY <3>1, <3>2 DEF Covers
    <3>4. ViewIn(C, T, root)[b] =
            IF b[1] = new.type /\ Covers(new, b[2]) THEN Cell(C, T, new, b[2])
            ELSE ViewIn(C, T, memroot)[b]
      BY <1>1, ReplaceView
    <3> HIDE DEF n, bs
    <3> QED  BY <1>4, <1>5, <3>3, <3>4
  <2>2. ViewIn(C, T, root) = [b \in Bytes |-> ViewIn(C, T, root)[b]]
    BY DEF ViewIn
  <2> HIDE DEF n, bs, root
  <2> QED  BY <2>1, <2>2
<1>7. VersionsIn(C, T, saved, root) = [AbsVersions EXCEPT ![n] = touched]
  <2> HIDE DEF touched, root
  <2>1. \A i \in 1 .. (Len(saved) + 1) :
          i # Len(saved) + 1 => i \in DOMAIN saved
    BY <1>2
  <2> QED  BY <1>2, <1>3, <1>4, <1>6, <2>1
<1> QED  BY <1>7

LEMMA WriteRefines ==
  ASSUME IInv, NEW x \in Accesses, Write(x)
  PROVE  Abstract!Write(BytesOf(x))
<1> DEFINE lo == x.addr
           hi == Hi(x.addr, x.size)
           new == Interval(x.type, lo, hi, TRUE, Len(bytes) + 1)
           n == Len(AbsVersions)
           given == [b \in Bytes |->
                       IF b \in BytesOf(x)
                       THEN [event |-> events', line |-> n,
                             value |-> [event |-> events', addr |-> b[2]]]
                       ELSE AbsVersions[n][b]]
<1>1. /\ pc = "idle" /\ pc' = pc /\ events' = events + 1
      /\ subtrees' = subtrees /\ saved' = saved /\ memroot' = Replace(memroot, new)
      /\ bytes' = bytes \o Data(events', x, lo, hi)
  BY DEF Write, NextEvent, readVars
<1>2. TypeOK /\ IInv' /\ GrowStep
  BY WriteIInv DEF IInv
<1>3. /\ x.type \in {"r", "m"} /\ lo \in Addr /\ hi \in Addr /\ lo <= hi
      /\ \A a \in lo .. hi : x.addr <= a /\ a < x.addr + x.size
      /\ x \in Access /\ lo \in Int
  BY EventRange DEF Addr
<1>4. /\ events' \in Nat /\ Len(bytes) \in Nat /\ prev_lineno \in Nat
      /\ bytes \in Seq(Byte)
  BY <1>1, <1>2 DEF TypeOK, prev_lineno
<1>5. /\ new \in MemoryPayload /\ new.lo = lo /\ new.hi = hi /\ new.raw
      /\ new.contents = Len(bytes) + 1 /\ new.event = events'
      /\ new.type = x.type /\ new.line = prev_lineno
  BY <1>3, <1>4 DEF Interval, MemoryPayload
<1>6. n = prev_lineno
  BY AbsVersionsAre DEF prev_lineno
<1>7. Grown(bytes, bytes') /\ TreesKept(subtrees, subtrees')
  BY <1>1, <1>2 DEF GrowStep, TreesKept
<1>8. BytesOf(x) = {<<new.type, a>> : a \in new.lo .. new.hi}
  BY <1>5 DEF BytesOf
<1> HIDE DEF new, n, lo, hi
<1>9. ASSUME NEW b \in BytesOf(x)
      PROVE  Cell(bytes', subtrees', new, b[2]) =
               [event |-> events', line |-> n,
                value |-> [event |-> events', addr |-> b[2]]]
  <2>1. PICK a \in lo .. hi : b = <<new.type, a>>
    BY <1>5, <1>8
  <2>2. /\ a - lo + 1 \in 1 .. Len(Data(events', x, lo, hi))
        /\ Data(events', x, lo, hi) \in Seq(Byte)
        /\ Data(events', x, lo, hi)[a - lo + 1] = [event |-> events', addr |-> a]
    BY <1>3, <1>4, DataFacts
  <2>3. bytes'[Len(bytes) + (a - lo + 1)] = [event |-> events', addr |-> a]
    <3> DEFINE data == Data(events', x, lo, hi)
    <3>1. bytes' = bytes \o data
      BY <1>1 DEF lo, hi
    <3> HIDE DEF data
    <3>2. (bytes \o data)[Len(bytes) + (a - lo + 1)] = data[a - lo + 1]
      BY <1>4, <2>2, Concat DEF data
    <3> QED  BY <2>2, <3>1, <3>2 DEF data
  <2>4. new.contents + (a - new.lo) = Len(bytes) + (a - lo + 1)
    BY <1>3, <1>4, <1>5
  <2>5. ValueIn(bytes', subtrees', new, a) = [event |-> events', addr |-> a]
    BY <1>5, <2>3, <2>4, ValueOfRaw
  <2> QED  BY <1>5, <1>6, <2>1, <2>5 DEF Cell
<1>10. AbsVersions' = [AbsVersions EXCEPT ![n] = given]
  <2>1. new.lo <= new.hi
    BY <1>3, <1>5
  <2>2. AbsVersions' = VersionsIn(bytes', subtrees', saved, Replace(memroot, new))
    BY <1>1, AbsIs DEF new, lo, hi
  <2>3. VersionsIn(bytes', subtrees', saved, Replace(memroot, new)) =
          [AbsVersions EXCEPT ![n] =
             [b \in Bytes |-> IF b \in BytesOf(x)
                              THEN Cell(bytes', subtrees', new, b[2])
                              ELSE AbsVersions[n][b]]]
    BY <1>5, <1>7, <1>8, <2>1, Touched DEF n
  <2>4. [b \in Bytes |-> IF b \in BytesOf(x)
                         THEN Cell(bytes', subtrees', new, b[2])
                         ELSE AbsVersions[n][b]] = given
    BY <1>9
  <2> QED  BY <2>2, <2>3, <2>4
<1>11. AbsReading = {} /\ AbsReading' = {}
  BY <1>1 DEF AbsReading
<1> QED  BY <1>1, <1>10, <1>11
         DEF Abstract!Write, Abstract!Touch, Abstract!Given, AbsVersions,
             AbsReading, n

LEMMA ForgetRefines ==
  ASSUME IInv, NEW x \in Accesses, Forget(x)
  PROVE  Abstract!Forget(BytesOf(x))
<1> DEFINE lo == x.addr
           hi == Hi(x.addr, x.size)
           new == Interval("m", lo, hi, FALSE, Len(subtrees) + 1)
           n == Len(AbsVersions)
           given == [b \in Bytes |->
                       IF b \in BytesOf(x)
                       THEN [event |-> events', line |-> n, value |-> Unknown]
                       ELSE AbsVersions[n][b]]
<1>1. /\ pc = "idle" /\ pc' = pc /\ events' = events + 1 /\ bytes' = bytes
      /\ saved' = saved /\ memroot' = Replace(memroot, new)
      /\ subtrees' = Append(subtrees, {}) /\ x.type = "m"
  BY AccessAssumption DEF Forget, NextEvent, readVars
<1>2. TypeOK /\ IInv'
  BY ForgetIInv DEF IInv
<1>3. lo \in Addr /\ hi \in Addr /\ lo <= hi
  BY EventRange
<1>4. /\ events' \in Nat /\ Len(subtrees) \in Nat /\ prev_lineno \in Nat
      /\ subtrees \in Seq(SUBSET MemorySubPayload)
  BY <1>1, <1>2 DEF TypeOK, prev_lineno
<1>5. /\ new \in MemoryPayload /\ new.lo = lo /\ new.hi = hi /\ ~new.raw
      /\ new.contents = Len(subtrees) + 1 /\ new.event = events'
      /\ new.type = "m" /\ new.line = prev_lineno
  BY <1>3, <1>4 DEF Interval, MemoryPayload
<1>6. n = prev_lineno
  BY AbsVersionsAre DEF prev_lineno
<1>7. /\ Grown(bytes, bytes') /\ TreesKept(subtrees, subtrees')
      /\ subtrees'[new.contents] = {}
  <2>1. /\ \A i \in DOMAIN subtrees : subtrees'[i] = subtrees[i]
        /\ subtrees'[Len(subtrees) + 1] = {}
    BY <1>1, <1>4
  <2> HIDE DEF new
  <2> QED  BY <1>1, <1>5, <2>1 DEF Grown, TreesKept
<1>8. BytesOf(x) = {<<new.type, a>> : a \in new.lo .. new.hi}
  BY <1>1, <1>5 DEF BytesOf
<1> HIDE DEF new, n, lo, hi
<1>9. ASSUME NEW b \in BytesOf(x)
      PROVE  Cell(bytes', subtrees', new, b[2]) =
               [event |-> events', line |-> n, value |-> Unknown]
  <2>1. ValueIn(bytes', subtrees', new, b[2]) = Unknown
    BY <1>5, <1>7, ValueOfNone
  <2> QED  BY <1>5, <1>6, <2>1 DEF Cell
<1>10. AbsVersions' = [AbsVersions EXCEPT ![n] = given]
  <2>1. new.lo <= new.hi
    BY <1>3, <1>5
  <2>2. AbsVersions' = VersionsIn(bytes', subtrees', saved, Replace(memroot, new))
    BY <1>1, AbsIs DEF new, lo, hi
  <2>3. VersionsIn(bytes', subtrees', saved, Replace(memroot, new)) =
          [AbsVersions EXCEPT ![n] =
             [b \in Bytes |-> IF b \in BytesOf(x)
                              THEN Cell(bytes', subtrees', new, b[2])
                              ELSE AbsVersions[n][b]]]
    BY <1>5, <1>7, <1>8, <2>1, Touched DEF n
  <2>4. [b \in Bytes |-> IF b \in BytesOf(x)
                         THEN Cell(bytes', subtrees', new, b[2])
                         ELSE AbsVersions[n][b]] = given
    BY <1>9
  <2> QED  BY <2>2, <2>3, <2>4
<1>11. AbsReading = {} /\ AbsReading' = {}
  BY <1>1 DEF AbsReading
<1> QED  BY <1>1, <1>10, <1>11
         DEF Abstract!Forget, Abstract!Touch, AbsVersions, AbsReading, n

LEMMA BeginReadRefines ==
  ASSUME IInv, NEW x \in Accesses, BeginRead(x)
  PROVE  Abstract!BeginRead(BytesOf(x))
<1>1. /\ pc = "idle" /\ pc' = "node" /\ access' = x /\ events' = events + 1
      /\ UNCHANGED <<bytes, subtrees, saved, memroot>>
  BY DEF BeginRead, NextEvent
<1>2. AbsVersions' = AbsVersions
  BY <1>1, AbsIs
<1>3. AbsReading = {} /\ AbsReading' = BytesOf(x)
  BY <1>1 DEF AbsReading, BytesOf
<1> QED  BY <1>1, <1>2, <1>3 DEF Abstract!BeginRead, AbsVersions, AbsReading

LEMMA NewRecordRefines ==
  ASSUME IInv, NewRecord
  PROVE  Abstract!NewRecord
<1>1. /\ pc = "idle" /\ pc' = pc /\ events' = events /\ access' = access
      /\ saved' = Append(saved, memroot)
      /\ UNCHANGED <<bytes, subtrees, memroot>>
  BY DEF NewRecord, readVars
<1>2. /\ saved \in Seq(SUBSET MemoryPayload)
      /\ memroot \in SUBSET MemoryPayload
  BY StateGood
<1>3. /\ Append(saved, memroot) \in Seq(SUBSET MemoryPayload)
      /\ Len(Append(saved, memroot)) = Len(saved) + 1 /\ Len(saved) \in Nat
      /\ \A i \in 1 .. Len(saved) : Append(saved, memroot)[i] = saved[i]
      /\ Append(saved, memroot)[Len(saved) + 1] = memroot
  BY <1>2
<1> DEFINE now == ViewIn(bytes, subtrees, memroot)
           then(i) == ViewIn(bytes, subtrees, saved[i])
           m == Len(saved)
<1>4. AbsVersions = [i \in 1 .. (m + 1) |-> IF i = m + 1 THEN now ELSE then(i)]
      /\ Len(AbsVersions) = m + 1
  BY AbsVersionsAre
<1>5. AbsVersions' = [i \in 1 .. (m + 2) |->
        IF i = m + 2 THEN now
        ELSE ViewIn(bytes, subtrees, Append(saved, memroot)[i])]
  <2>1. AbsVersions' = VersionsIn(bytes, subtrees, Append(saved, memroot), memroot)
    BY <1>1, AbsIs
  <2> DEFINE more == Append(saved, memroot)
  <2>2. more \in Seq(SUBSET MemoryPayload) /\ Len(more) + 1 = m + 2
    BY <1>3
  <2> HIDE DEF more, m
  <2>3. VersionsIn(bytes, subtrees, more, memroot) = [i \in 1 .. (m + 2) |->
          IF i = m + 2 THEN ViewIn(bytes, subtrees, memroot)
          ELSE ViewIn(bytes, subtrees, more[i])]
    BY <2>2, VersionsAre
  <2> QED  BY <2>1, <2>3 DEF more
<1>6. AbsVersions' = [i \in 1 .. (m + 2) |->
        IF i = m + 2 THEN now ELSE IF i = m + 1 THEN now ELSE then(i)]
  <2>1. ASSUME NEW i \in 1 .. (m + 2), i # m + 2, i # m + 1
        PROVE  Append(saved, memroot)[i] = saved[i]
    BY <1>3, <2>1
  <2> QED  BY <1>3, <1>5, <2>1
<1>7. AbsVersions' = Append(AbsVersions, AbsVersions[Len(AbsVersions)])
  <2> DEFINE all == {then(i) : i \in 1 .. m} \cup {now}
  <2> HIDE DEF now, then
  <2>1. \A i \in 1 .. (m + 1) : i # m + 1 => i \in 1 .. m
    BY <1>3
  <2>2. AbsVersions \in [1 .. (m + 1) -> all] /\ now \in all
    BY <1>4, <2>1
  <2> HIDE DEF all
  <2>3. AbsVersions \in Seq(all)
    BY <1>3, <2>2
  <2>4. AbsVersions[Len(AbsVersions)] = now
    BY <1>3, <1>4
  <2>5. Append(AbsVersions, now) = [i \in 1 .. (m + 1 + 1) |->
          IF i = m + 1 + 1 THEN now ELSE AbsVersions[i]]
    BY <1>4, <2>2, <2>3, AppendIs
  <2>6. \A i \in 1 .. (m + 1 + 1) : i # m + 1 + 1 =>
          AbsVersions[i] = IF i = m + 1 THEN now ELSE then(i)
    BY <1>3, <1>4
  <2>7. m + 1 + 1 = m + 2
    BY <1>3
  <2> QED  BY <1>6, <2>4, <2>5, <2>6, <2>7
<1>8. AbsReading = {} /\ AbsReading' = {}
  BY <1>1 DEF AbsReading
<1> QED  BY <1>1, <1>7, <1>8
         DEF Abstract!NewRecord, Abstract!Current, AbsVersions, AbsReading

-----------------------------------------------------------------------------
(***************************************************************************)
(* What a read relies on.  The intervals of unknown bytes that have a      *)
(* sub-tree in common are those that the same event made: this is why what *)
(* a read learns of a byte is learnt by just those versions in which the   *)
(* byte has not been touched since.                                        *)
(***************************************************************************)
ReadsBelowTheTop ==
  \A x \in Accesses : x.op = "read" => x.addr + (x.size - 1) < AddrMax

Apart(ps, n) ==
  /\ \A p \in ps : p.event <= n /\ (~p.raw => p.type = "m")
  /\ \A p, q \in ps :
       ~p.raw => ((~q.raw /\ q.contents = p.contents) <=> q.event = p.event)

Intervals == UNION Versions

EventsApart == Apart(Intervals, events)

SubtreesBelowTop ==
  \A i \in DOMAIN subtrees :
    \A s \in subtrees[i] : s.lo <= s.hi /\ s.hi < AddrMax

KnownByte(S, tree, a) ==
  \E p \in tree : /\ p.type = "m" /\ Covers(p, a)
                  /\ p.raw \/ \E s \in S[p.contents] : Covers(s, a)

Filled(S, p, a) == \E s \in S[p.contents] : Covers(s, a)

(* The bytes before search.lo are known. *)
SearchOK ==
  /\ access \in Accesses /\ access.op = "read"
  /\ search.hi = Hi(access.addr, access.size) /\ search.hi < AddrMax
  /\ access.addr <= search.lo
  /\ \A a \in access.addr .. search.hi :
       a < search.lo => KnownByte(subtrees, memroot, a)

(* And so are those of memp before msp.lo. *)
PartOK ==
  /\ memp \in memroot /\ memp.type = "m" /\ ~memp.raw
  /\ Covers(memp, search.lo) /\ search.lo <= search.hi
  /\ search.lo <= msp.lo /\ msp.hi = Min2(memp.hi, search.hi)
  /\ \A a \in search.lo .. msp.hi : a < msp.lo => Filled(subtrees, memp, a)

(* What is about to be inserted is the data of this read, up to the next   *)
(* bytes that are known.                                                   *)
InsertOK ==
  /\ insert.lo = msp.lo /\ insert.lo <= insert.hi /\ insert.hi <= msp.hi
  /\ insert.hi <= insert.found /\ insert.found < AddrMax
  /\ \A a \in insert.lo .. insert.hi :
       bytes[insert.contents + (a - insert.lo)] = [event |-> events, addr |-> a]
  /\ \A a \in insert.lo .. msp.hi :
       insert.hi < a /\ a <= insert.found => Filled(subtrees, memp, a)

LearnOK ==
  /\ EventsApart /\ SubtreesBelowTop
  /\ pc # "idle" => SearchOK
  /\ pc \in {"find", "insert"} => PartOK
  /\ pc = "insert" => InsertOK

-----------------------------------------------------------------------------
(* Pieces have their interval's event, and share its sub-tree. *)
Alike(q, p) ==
  /\ q.event = p.event /\ q.raw = p.raw /\ q.type = p.type
  /\ ~p.raw => q.contents = p.contents

LEMMA PieceAlike ==
  ASSUME NEW p \in MemoryPayload, NEW type, NEW lo \in Addr, NEW hi \in Addr,
         NEW q,
         \/ q = p /\ Kept(p, type, lo, hi)
         \/ q = Below(p, lo) /\ CutBelow(p, type, lo, hi)
         \/ q = Above(p, hi) /\ CutAbove(p, type, lo, hi)
  PROVE  Alike(q, p)
<1>1. CASE q = p
  BY <1>1 DEF Alike
<1>2. CASE q = Below(p, lo) /\ CutBelow(p, type, lo, hi)
  BY <1>2, BelowFacts DEF Alike
<1>3. CASE q = Above(p, hi) /\ CutAbove(p, type, lo, hi)
  BY <1>3, AboveFacts DEF Alike
<1> QED  BY <1>1, <1>2, <1>3

LEMMA StaysApart ==
  ASSUME NEW ps \in SUBSET MemoryPayload, NEW n \in Nat, Apart(ps, n), NEW qs,
         NEW new, new.event = n + 1, ~new.raw => new.type = "m",
         \A p \in ps : ~p.raw /\ ~new.raw => p.contents # new.contents,
         \A q \in qs : q = new \/ \E p \in ps : Alike(q, p)
  PROVE  Apart(qs, n + 1)
<1>0. \A p \in ps : p.event \in Nat /\ p.event <= n
  BY PayloadFacts DEF Apart
<1>1. \A q \in qs : q.event <= n + 1 /\ (~q.raw => q.type = "m")
  BY <1>0 DEF Apart, Alike
<1>2. ASSUME NEW q \in qs, NEW r \in qs, ~q.raw
      PROVE  (~r.raw /\ r.contents = q.contents) <=> r.event = q.event
  <2>1. CASE q = new
    <3>1. CASE r = new
      BY <1>2, <2>1, <3>1
    <3>2. CASE r # new
      <4>1. PICK p \in ps : Alike(r, p)
        BY <3>2
      <4> QED  BY <1>0, <1>2, <2>1, <4>1 DEF Alike
    <3> QED  BY <3>1, <3>2
  <2>2. CASE q # new
    <3>1. PICK p \in ps : Alike(q, p)
      BY <2>2
    <3>2. CASE r = new
      BY <1>0, <1>2, <3>1, <3>2 DEF Alike
    <3>3. CASE r # new
      <4>1. PICK o \in ps : Alike(r, o)
        BY <3>3
      <4>2. (~o.raw /\ o.contents = p.contents) <=> o.event = p.event
        BY <1>2, <3>1 DEF Apart, Alike
      <4> QED  BY <1>2, <3>1, <4>1, <4>2 DEF Alike
    <3> QED  BY <3>2, <3>3
  <2> QED  BY <2>1, <2>2
<1> QED  BY <1>1, <1>2 DEF Apart

LEMMA IntervalsAre ==
  /\ \A p : p \in Intervals <=>
              (p \in memroot \/ \E i \in DOMAIN saved : p \in saved[i])
  /\ \A p : p \in Intervals' <=>
              (p \in memroot' \/ \E i \in DOMAIN saved' : p \in saved'[i])
BY DEF Intervals, Versions

LEMMA IntervalsGood ==
  ASSUME IInv
  PROVE  /\ Intervals \in SUBSET MemoryPayload
         /\ \A p \in Intervals : ~p.raw => p.contents \in DOMAIN subtrees
<1>1. ASSUME NEW p \in Intervals
      PROVE  p \in MemoryPayload /\ (~p.raw => p.contents \in DOMAIN subtrees)
  <2>1. p \in memroot \/ \E i \in DOMAIN saved : p \in saved[i]
    BY IntervalsAre
  <2>2. p \in MemoryPayload /\ InArena(p, bytes, DOMAIN subtrees)
    BY <2>1, StateGood
  <2> QED  BY <2>2 DEF InArena
<1> QED  BY <1>1

LEMMA ReplacedApart ==
  ASSUME IInv, EventsApart, events' = events + 1, saved' = saved,
         NEW new \in MemoryPayload, new.lo <= new.hi,
         new.event = events + 1, ~new.raw => new.type = "m",
         ~new.raw => new.contents \notin DOMAIN subtrees,
         memroot' = Replace(memroot, new)
  PROVE  EventsApart'
<1>1. /\ Intervals \in SUBSET MemoryPayload /\ events \in Nat
      /\ memroot \in SUBSET MemoryPayload
      /\ \A p \in Intervals : ~p.raw => p.contents \in DOMAIN subtrees
  BY IntervalsGood DEF IInv, TypeOK
<1>2. ASSUME NEW q \in Intervals', q # new
      PROVE  \E p \in Intervals : Alike(q, p)
  <2>1. q \in memroot' \/ \E i \in DOMAIN saved : q \in saved[i]
    BY IntervalsAre
  <2>2. CASE \E i \in DOMAIN saved : q \in saved[i]
    BY <2>2, IntervalsAre DEF Alike
  <2>3. CASE q \in memroot'
    <3>1. q \in DeleteFrom(memroot, new.type, new.lo, new.hi)
      BY <1>2, <2>3 DEF Replace
    <3>2. new.lo \in Addr /\ new.hi \in Addr
      BY PayloadFacts
    <3>3. PICK p \in memroot :
            \/ q = p /\ Kept(p, new.type, new.lo, new.hi)
            \/ q = Below(p, new.lo) /\ CutBelow(p, new.type, new.lo, new.hi)
            \/ q = Above(p, new.hi) /\ CutAbove(p, new.type, new.lo, new.hi)
      BY <1>1, <3>1, <3>2, Pieces
    <3>4. p \in Intervals /\ p \in MemoryPayload
      BY <1>1, IntervalsAre
    <3>5. Alike(q, p)
      BY <3>2, <3>3, <3>4, PieceAlike
    <3> QED  BY <3>4, <3>5
  <2> QED  BY <2>1, <2>2, <2>3
<1>3. \A p \in Intervals : ~p.raw /\ ~new.raw => p.contents # new.contents
  BY <1>1
<1>4. \A q \in Intervals' : q = new \/ \E p \in Intervals : Alike(q, p)
  BY <1>2
<1>5. Apart(Intervals, events)
  BY DEF EventsApart
<1>6. Apart(Intervals', events + 1)
  BY <1>1, <1>3, <1>4, <1>5, StaysApart
<1> QED  BY <1>6 DEF EventsApart, Apart

-----------------------------------------------------------------------------
(***************************************************************************)
(* The steps keep it.                                                      *)
(***************************************************************************)
LEMMA SameIntervals ==
  ASSUME EventsApart, IInv, events' \in Nat, events <= events',
         memroot' = memroot,
         saved' = saved \/ saved' = Append(saved, memroot)
  PROVE  EventsApart'
<1>1. /\ events \in Nat /\ Intervals \in SUBSET MemoryPayload
      /\ saved \in Seq(SUBSET MemoryPayload)
      /\ memroot \in SUBSET MemoryPayload
  BY IntervalsGood, StateGood DEF IInv, TypeOK
<1>2. \A i \in DOMAIN saved' :
        saved'[i] = memroot \/ (i \in DOMAIN saved /\ saved'[i] = saved[i])
  BY <1>1
<1>3. \A p \in Intervals' : p \in Intervals
  BY <1>2, IntervalsAre
<1>4. \A p \in Intervals : p.event \in Nat
  BY <1>1, PayloadFacts
<1>5. Apart(Intervals', events')
  BY <1>1, <1>3, <1>4 DEF EventsApart, Apart
<1> QED  BY <1>5 DEF EventsApart, Apart

LEMMA InitLearnOK == Init => LearnOK
<1> SUFFICES ASSUME Init PROVE LearnOK
  OBVIOUS
<1>1. /\ subtrees = <<{}>> /\ saved = <<>> /\ events = 0 /\ pc = "idle"
      /\ memroot = {[type |-> "m", lo |-> 0, hi |-> Hi(0, 0), raw |-> FALSE,
                     contents |-> 1, line |-> 0, event |-> 0]}
  BY DEF Init
<1>2. DOMAIN saved = {}
  BY <1>1
<1>3. \A p \in Intervals :
        p = [type |-> "m", lo |-> 0, hi |-> Hi(0, 0), raw |-> FALSE,
             contents |-> 1, line |-> 0, event |-> 0]
  BY <1>1, <1>2, IntervalsAre
<1>4. EventsApart
  BY <1>1, <1>3 DEF EventsApart, Apart
<1>5. SubtreesBelowTop
  BY <1>1 DEF SubtreesBelowTop
<1> QED  BY <1>1, <1>4, <1>5 DEF LearnOK

LEMMA WriteLearnOK ==
  ASSUME IInv, LearnOK, NEW x \in Accesses, Write(x)
  PROVE  LearnOK'
<1> DEFINE new == Interval(x.type, x.addr, Hi(x.addr, x.size), TRUE,
                           Len(bytes) + 1)
<1>1. /\ pc = "idle" /\ pc' = pc /\ events' = events + 1
      /\ subtrees' = subtrees /\ saved' = saved
      /\ memroot' = Replace(memroot, new)
  BY DEF Write, NextEvent, readVars
<1>2. events \in Nat /\ Len(bytes) \in Nat /\ prev_lineno \in Nat
  BY DEF IInv, TypeOK, prev_lineno
<1>3. /\ new \in MemoryPayload /\ new.lo <= new.hi /\ new.raw
      /\ new.event = events + 1
  BY <1>1, <1>2, EventRange DEF Interval, MemoryPayload
<1>4. EventsApart'
  <2> HIDE DEF new
  <2> QED  BY <1>1, <1>3, ReplacedApart DEF LearnOK
<1>5. SubtreesBelowTop'
  BY <1>1 DEF LearnOK, SubtreesBelowTop
<1> QED  BY <1>1, <1>4, <1>5 DEF LearnOK

LEMMA ForgetLearnOK ==
  ASSUME IInv, LearnOK, NEW x \in Accesses, Forget(x)
  PROVE  LearnOK'
<1> DEFINE new == Interval("m", x.addr, Hi(x.addr, x.size), FALSE,
                           Len(subtrees) + 1)
<1>1. /\ pc = "idle" /\ pc' = pc /\ events' = events + 1
      /\ subtrees' = Append(subtrees, {}) /\ saved' = saved
      /\ memroot' = Replace(memroot, new)
  BY DEF Forget, NextEvent, readVars
<1>2. /\ events \in Nat /\ Len(subtrees) \in Nat /\ prev_lineno \in Nat
      /\ subtrees \in Seq(SUBSET MemorySubPayload)
  BY DEF IInv, TypeOK, prev_lineno
<1>3. /\ new \in MemoryPayload /\ new.lo <= new.hi /\ new.type = "m"
      /\ new.event = events + 1 /\ new.contents = Len(subtrees) + 1
  BY <1>1, <1>2, EventRange DEF Interval, MemoryPayload
<1>4. EventsApart'
  <2> HIDE DEF new
  <2>1. new.contents \notin DOMAIN subtrees
    BY <1>2, <1>3
  <2> QED  BY <1>1, <1>3, <2>1, ReplacedApart DEF LearnOK
<1>5. SubtreesBelowTop'
  <2>1. \A i \in DOMAIN subtrees' :
          subtrees'[i] = {} \/ (i \in DOMAIN subtrees /\ subtrees'[i] = subtrees[i])
    BY <1>1, <1>2
  <2> QED  BY <2>1 DEF LearnOK, SubtreesBelowTop
<1> QED  BY <1>1, <1>4, <1>5 DEF LearnOK

LEMMA NewRecordLearnOK ==
  ASSUME IInv, LearnOK, NewRecord
  PROVE  LearnOK'
<1>1. /\ pc = "idle" /\ pc' = pc /\ events' = events
      /\ subtrees' = subtrees /\ memroot' = memroot
      /\ saved' = Append(saved, memroot) /\ events \in Nat
  BY DEF NewRecord, readVars, IInv, TypeOK
<1>2. EventsApart'
  BY <1>1, SameIntervals DEF LearnOK
<1>3. SubtreesBelowTop'
  BY <1>1 DEF LearnOK, SubtreesBelowTop
<1> QED  BY <1>1, <1>2, <1>3 DEF LearnOK

LEMMA BeginReadLearnOK ==
  ASSUME ReadsBelowTheTop, IInv, LearnOK, NEW x \in Accesses, BeginRead(x)
  PROVE  LearnOK'
<1>1. /\ pc' = "node" /\ access' = x /\ x.op = "read"
      /\ events' = events + 1 /\ events \in Nat
      /\ search' = [lo |-> x.addr, hi |-> Hi(x.addr, x.size)]
      /\ UNCHANGED <<bytes, subtrees, saved, memroot>>
  BY DEF BeginRead, NextEvent, IInv, TypeOK
<1>2. EventsApart'
  BY <1>1, SameIntervals DEF LearnOK
<1>3. SubtreesBelowTop'
  BY <1>1 DEF LearnOK, SubtreesBelowTop
<1>4. SearchOK'
  <2>1. /\ x.addr \in Int /\ x.addr \in Addr /\ Hi(x.addr, x.size) \in Addr
        /\ x.size \in Nat \ {0} /\ x.addr + (x.size - 1) <= AddrMax
    BY AccessAssumption, EventRange DEF Access, Addr
  <2>2. Hi(x.addr, x.size) = x.addr + (x.size - 1)
    BY <2>1, HiIs
  <2>3. Hi(x.addr, x.size) < AddrMax
    BY <1>1, <2>2 DEF ReadsBelowTheTop
  <2>4. search'.lo = x.addr /\ search'.hi = Hi(x.addr, x.size)
    BY <1>1
  <2>5. \A a \in x.addr .. Hi(x.addr, x.size) : ~(a < x.addr)
    BY <2>1 DEF Addr
  <2> QED  BY <1>1, <2>1, <2>3, <2>4, <2>5 DEF SearchOK
<1> QED  BY <1>1, <1>2, <1>3, <1>4 DEF LearnOK

(* The middle of a read changes neither versions nor events.               *)
LEMMA ReadingOn ==
  ASSUME IInv, LearnOK,
         UNCHANGED <<memroot, saved, events, subtrees>>
  PROVE  EventsApart' /\ SubtreesBelowTop'
<1>1. events \in Nat
  BY DEF IInv, TypeOK
<1>2. EventsApart'
  BY <1>1, SameIntervals DEF LearnOK
<1>3. SubtreesBelowTop'
  BY DEF LearnOK, SubtreesBelowTop
<1> QED  BY <1>2, <1>3

LEMMA ReturnLearnOK ==
  ASSUME IInv, LearnOK, Return, UNCHANGED <<memroot, saved, events, subtrees>>
  PROVE  LearnOK'
BY ReadingOn DEF LearnOK, Return

(* The interval the search finds has the first byte searched for. *)
LEMMA FirstHitCovers ==
  ASSUME IInv, NodeHits # {}
  PROVE  LET p == Leftmost(NodeHits)
         IN /\ p \in memroot /\ p \in MemoryPayload /\ p.type = "m"
            /\ Covers(p, search.lo) /\ search.lo <= search.hi
<1> DEFINE p == Leftmost(NodeHits)
<1>1. /\ TypeOK /\ memroot \in SUBSET MemoryPayload /\ GoodTree(memroot)
      /\ search.lo \in Addr /\ search.hi \in Addr
      /\ search.lo \in Int /\ search.hi \in Int
  BY StateGood DEF IInv, TypeOK, AddrRange, Addr
<1>2. p \in memroot /\ p \in MemoryPayload
  BY <1>1, FirstHit
<1>3. /\ search.lo <= search.hi
      /\ NodeHits = Hits(memroot, "m", search.lo, search.hi)
  BY DEF NodeHits
<1>4. \A q \in NodeHits : q.lo \in Addr
  BY <1>1, <1>3, PayloadFacts DEF Hits
<1>5. p \in NodeHits /\ \A q \in NodeHits : p.lo <= q.lo
  BY <1>4, LeftmostIn
<1> HIDE DEF p
<1>6. PICK q \in memroot : q.type = "m" /\ q.lo <= search.lo /\ search.lo <= q.hi
  BY <1>1 DEF GoodTree, InSpace
<1>7. /\ q.lo \in Int /\ q.hi \in Int /\ p.lo \in Int /\ p.hi \in Int
  BY <1>1, <1>2, PayloadFacts
<1>8. q \in NodeHits
  BY <1>1, <1>3, <1>6, <1>7 DEF Hits, Overlap
<1>9. p.type = "m" /\ ~(p.hi < search.lo) /\ p.lo <= q.lo
  BY <1>3, <1>5, <1>8 DEF Hits, Overlap
<1>10. p.lo <= search.lo /\ search.lo <= p.hi
  BY <1>1, <1>6, <1>7, <1>9
<1> QED  BY <1>2, <1>3, <1>9, <1>10 DEF Covers, p

(* On to the next interval, when the bytes of p that were read are known. *)
LEMMA NextNodeLearnOK ==
  ASSUME IInv, LearnOK, pc # "idle", NEW p \in MemoryPayload, NextNode(p),
         UNCHANGED <<memroot, saved, events, subtrees>>,
         Covers(p, search.lo),
         \A a \in search.lo .. search.hi :
           a <= p.hi => KnownByte(subtrees, memroot, a)
  PROVE  LearnOK'
<1>1. CASE Return
  BY <1>1, ReturnLearnOK
<1>2. CASE /\ pc' = "node" /\ search' = [search EXCEPT !.lo = Succ(p.hi)]
           /\ access' = access /\ Succ(p.hi) # 0
  <2>1. /\ search \in AddrRange /\ search.lo \in Int /\ search.hi \in Int
        /\ p.hi \in Addr /\ p.hi \in Int /\ access.addr \in Int
    BY PayloadFacts DEF IInv, TypeOK, AddrRange, Addr, Access
  <2>2. Succ(p.hi) = p.hi + 1
    BY <1>2, <2>1, SuccIs
  <2>3. search'.lo = p.hi + 1 /\ search'.hi = search.hi
    BY <1>2, <2>1, <2>2 DEF AddrRange
  <2>4. SearchOK
    BY DEF LearnOK
  <2>5. access.addr <= p.hi + 1
    BY <2>1, <2>4 DEF SearchOK, Covers
  <2>6. ASSUME NEW a \in access.addr .. search.hi, a < p.hi + 1
        PROVE  KnownByte(subtrees, memroot, a)
    <3>1. CASE a < search.lo
      BY <2>4, <3>1 DEF SearchOK
    <3>2. CASE ~(a < search.lo)
      <4>1. a \in search.lo .. search.hi /\ a <= p.hi
        BY <2>1, <2>6, <3>2
      <4> QED  BY <4>1
    <3> QED  BY <3>1, <3>2
  <2>7. SearchOK'
    BY <1>2, <2>3, <2>4, <2>5, <2>6 DEF SearchOK, KnownByte, Covers
  <2> QED  BY <1>2, <2>7, ReadingOn DEF LearnOK
<1> QED  BY <1>1, <1>2 DEF NextNode

LEMMA SkipKnownLearnOK ==
  ASSUME IInv, LearnOK, SkipKnown
  PROVE  LearnOK'
<1> DEFINE p == Leftmost(NodeHits)
<1>1. /\ pc = "node" /\ NodeHits # {} /\ p.raw /\ NextNode(p)
      /\ UNCHANGED <<bytes, subtrees, memroot, saved, events>>
  BY DEF SkipKnown
<1>2. /\ p \in memroot /\ p \in MemoryPayload /\ p.type = "m"
      /\ Covers(p, search.lo)
  BY <1>1, FirstHitCovers
<1> HIDE DEF p
<1>3. ASSUME NEW a \in search.lo .. search.hi, a <= p.hi
      PROVE  KnownByte(subtrees, memroot, a)
  <2>1. search.lo \in Int /\ search.hi \in Int /\ p.lo \in Int
    BY <1>2, PayloadFacts DEF IInv, TypeOK, AddrRange, Addr
  <2>2. Covers(p, a)
    BY <1>2, <1>3, <2>1 DEF Covers
  <2> QED  BY <1>1, <1>2, <2>2 DEF KnownByte
<1> QED  BY <1>1, <1>2, <1>3, NextNodeLearnOK

LEMMA PartKnown ==
  ASSUME IInv, PartOK, msp.lo > msp.hi
  PROVE  \A a \in search.lo .. search.hi :
           a <= memp.hi => KnownByte(subtrees, memroot, a)
<1> SUFFICES ASSUME NEW a \in search.lo .. search.hi, a <= memp.hi
             PROVE  KnownByte(subtrees, memroot, a)
  OBVIOUS
<1>1. /\ search.lo \in Int /\ search.hi \in Int /\ memp.lo \in Int
      /\ memp.hi \in Int /\ msp.lo \in Int /\ msp.hi \in Int
  BY PayloadFacts DEF IInv, TypeOK, AddrRange, Addr
<1>2. a \in search.lo .. msp.hi /\ a < msp.lo
  BY <1>1 DEF PartOK, Min2
<1>3. Filled(subtrees, memp, a)
  BY <1>2 DEF PartOK
<1>4. Covers(memp, a)
  BY <1>1 DEF PartOK, Covers
<1> QED  BY <1>3, <1>4 DEF PartOK, KnownByte, Filled

LEMMA LeaveUnknownLearnOK ==
  ASSUME IInv, LearnOK, LeaveUnknown
  PROVE  LearnOK'
<1>1. /\ pc = "find" /\ msp.lo > msp.hi /\ NextNode(memp)
      /\ UNCHANGED <<bytes, subtrees, memroot, saved, events>>
  BY DEF LeaveUnknown
<1>2. PartOK /\ memp \in MemoryPayload /\ Covers(memp, search.lo)
  BY <1>1 DEF LearnOK, IInv, TypeOK, PartOK
<1>3. \A a \in search.lo .. search.hi :
        a <= memp.hi => KnownByte(subtrees, memroot, a)
  BY <1>1, <1>2, PartKnown
<1> QED  BY <1>1, <1>2, <1>3, NextNodeLearnOK

LEMMA EnterUnknownLearnOK ==
  ASSUME IInv, LearnOK, EnterUnknown
  PROVE  LearnOK'
<1> DEFINE p == Leftmost(NodeHits)
<1>1. /\ pc = "node" /\ NodeHits # {} /\ ~p.raw /\ pc' = "find" /\ memp' = p
      /\ msp' = [lo |-> search.lo, hi |-> Min2(p.hi, search.hi)]
      /\ UNCHANGED <<bytes, subtrees, memroot, saved, events, access, search>>
  BY DEF EnterUnknown, Part
<1>2. /\ p \in memroot /\ p \in MemoryPayload /\ p.type = "m"
      /\ Covers(p, search.lo) /\ search.lo <= search.hi
  BY <1>1, FirstHitCovers
<1> HIDE DEF p
<1>3. search.lo \in Int
  BY DEF IInv, TypeOK, AddrRange, Addr
<1>4. PartOK'
  <2>1. msp'.lo = search.lo /\ msp'.hi = Min2(p.hi, search.hi)
    BY <1>1
  <2>2. \A a \in search.lo .. Min2(p.hi, search.hi) : ~(a < search.lo)
    BY <1>3, PayloadFacts, <1>2 DEF Min2, IInv, TypeOK, AddrRange, Addr
  <2> QED  BY <1>1, <1>2, <1>3, <2>1, <2>2 DEF PartOK, Covers
<1>5. SearchOK'
  BY <1>1 DEF LearnOK, SearchOK, KnownByte, Covers
<1> QED  BY <1>1, <1>4, <1>5, ReadingOn DEF LearnOK

(* What the search in the sub-tree finds is known. *)
LEMMA FoundIsFilled ==
  ASSUME IInv, LearnOK, pc = "find", msp.lo <= msp.hi
  PROVE  /\ Found.lo \in Int /\ Found.hi \in Addr /\ Found.hi < AddrMax
         /\ Found.lo - 1 <= msp.hi /\ Found.lo - 1 <= Found.hi
         /\ \A a \in Addr : Found.lo <= a /\ a <= Found.hi /\ a <= msp.hi
                              => Filled(subtrees, memp, a)
         /\ Found.lo <= msp.lo => msp.lo <= Found.hi
<1> DEFINE sub == subtrees[memp.contents]
           hits == SubHits(sub, msp.lo, msp.hi)
           s == Leftmost(hits)
<1>1. /\ PartOK /\ SearchOK /\ SubtreesBelowTop /\ TypeOK /\ ReadOK
  BY DEF LearnOK, IInv
<1>2. /\ subroot.offset = memp.contents /\ memp.contents \in DOMAIN subtrees
  BY <1>1 DEF ReadOK, PointerFresh
<1>3. /\ msp.lo \in Addr /\ msp.hi \in Addr /\ search.hi \in Addr
      /\ memp.hi \in Addr /\ AddrMax \in Nat
      /\ subtrees \in Seq(SUBSET MemorySubPayload)
  BY <1>1, PayloadFacts, AddrAssumption DEF TypeOK, AddrRange
<1>4. msp.hi < AddrMax
  BY <1>1, <1>3 DEF PartOK, SearchOK, Min2, Addr
<1>5. sub \in SUBSET MemorySubPayload
  BY <1>2, <1>3
<1>6. Found = IF hits = {} THEN [lo |-> Succ(msp.hi), hi |-> msp.hi]
              ELSE [lo |-> s.lo, hi |-> s.hi]
  BY <1>2 DEF Found
<1>7. CASE hits = {}
  <2>1. Found.lo = Succ(msp.hi) /\ Found.hi = msp.hi
    BY <1>6, <1>7
  <2>2. Succ(msp.hi) = msp.hi + 1
    BY <1>3, <1>4, SuccIs
  <2> QED  BY <1>3, <1>4, <2>1, <2>2 DEF Addr
<1>8. CASE hits # {}
  <2>1. Found.lo = s.lo /\ Found.hi = s.hi
    BY <1>6, <1>8
  <2>2. \A q \in hits : q \in sub /\ q.lo \in Addr
    BY <1>5, SubFacts DEF SubHits
  <2>3. s \in hits
    BY <1>8, <2>2, LeftmostIn
  <2>4. s \in sub /\ ~(s.hi < msp.lo) /\ ~(s.lo > msp.hi)
    BY <2>3 DEF SubHits, Overlap
  <2> HIDE DEF s, hits
  <2>5. s \in MemorySubPayload /\ s.lo \in Addr /\ s.hi \in Addr
    BY <1>5, <2>4, SubFacts
  <2>6. s.lo <= s.hi /\ s.hi < AddrMax
    BY <1>1, <1>2, <2>4 DEF SubtreesBelowTop
  <2>7. \A a \in Addr : s.lo <= a /\ a <= s.hi => Filled(subtrees, memp, a)
    BY <2>4 DEF Filled, Covers
  <2> QED  BY <1>3, <2>1, <2>4, <2>5, <2>6, <2>7 DEF Addr
<1> QED  BY <1>7, <1>8

LEMMA SkipFoundLearnOK ==
  ASSUME IInv, LearnOK, SkipFound
  PROVE  LearnOK'
<1>1. /\ pc = "find" /\ pc' = pc /\ msp.lo <= msp.hi /\ ~(msp.lo < Found.lo)
      /\ msp' = [msp EXCEPT !.lo = Succ(Found.hi)]
      /\ UNCHANGED <<bytes, subtrees, memroot, saved, events, access, search,
                     memp>>
  BY DEF SkipFound
<1>2. /\ PartOK /\ SearchOK /\ msp \in AddrRange /\ search \in AddrRange
  BY <1>1 DEF LearnOK, IInv, TypeOK
<1>3. /\ msp.lo \in Int /\ msp.hi \in Int /\ search.lo \in Addr
      /\ msp.hi \in Addr /\ search.lo \in Int /\ AddrMax \in Nat
  BY <1>2, AddrAssumption DEF AddrRange, Addr
<1>4. /\ Found.lo \in Int /\ Found.hi \in Addr /\ Found.hi < AddrMax
      /\ \A a \in Addr : Found.lo <= a /\ a <= Found.hi /\ a <= msp.hi
                           => Filled(subtrees, memp, a)
      /\ Found.lo <= msp.lo => msp.lo <= Found.hi
  BY <1>1, FoundIsFilled
<1>5. Succ(Found.hi) = Found.hi + 1 /\ Found.hi \in Int
  BY <1>3, <1>4, SuccIs DEF Addr
<1>6. msp'.lo = Found.hi + 1 /\ msp'.hi = msp.hi
  BY <1>1, <1>2, <1>5 DEF AddrRange
<1> HIDE DEF Found
<1>7. PartOK'
  <2>1. search.lo <= Found.hi + 1
    BY <1>1, <1>2, <1>3, <1>4, <1>5 DEF PartOK
  <2>2. ASSUME NEW a \in search.lo .. msp.hi, a < Found.hi + 1
        PROVE  Filled(subtrees, memp, a)
    <3>1. CASE a < msp.lo
      BY <1>2, <3>1 DEF PartOK
    <3>2. CASE ~(a < msp.lo)
      <4>1. a \in Addr
        BY <1>3 DEF Addr
      <4>2. Found.lo <= a /\ a <= Found.hi /\ a <= msp.hi
        BY <1>1, <1>3, <1>4, <1>5, <2>2, <3>2
      <4> QED  BY <1>4, <4>1, <4>2
    <3> QED  BY <3>1, <3>2
  <2> QED  BY <1>1, <1>2, <1>6, <2>1, <2>2 DEF PartOK, Filled, Covers
<1>8. SearchOK'
  BY <1>1, <1>2 DEF SearchOK, KnownByte, Covers
<1> QED  BY <1>1, <1>7, <1>8, ReadingOn DEF LearnOK

LEMMA FillGapLearnOK ==
  ASSUME IInv, LearnOK, FillGap
  PROVE  LearnOK'
<1> DEFINE lo == msp.lo
           hi == Found.lo - 1
           data == Data(events, access, lo, hi)
<1>1. /\ pc = "find" /\ pc' = "insert" /\ msp.lo <= msp.hi
      /\ msp.lo < Found.lo /\ bytes' = bytes \o data
      /\ insert' = [lo |-> lo, hi |-> hi, contents |-> Len(bytes) + 1,
                    found |-> Found.hi]
      /\ UNCHANGED <<subtrees, memroot, saved, events, access, search, memp,
                     msp>>
  BY DEF FillGap
<1>2. /\ PartOK /\ SearchOK /\ msp \in AddrRange /\ search \in AddrRange
      /\ TypeOK /\ ReadOK
  BY <1>1 DEF LearnOK, IInv, TypeOK
<1>3. /\ Found.lo \in Int /\ Found.hi \in Addr /\ Found.hi < AddrMax
      /\ Found.lo - 1 <= msp.hi /\ Found.lo - 1 <= Found.hi
      /\ \A a \in Addr : Found.lo <= a /\ a <= Found.hi /\ a <= msp.hi
                           => Filled(subtrees, memp, a)
  BY <1>1, FoundIsFilled
<1>4. /\ msp.lo \in Addr /\ msp.hi \in Addr /\ msp.lo \in Int /\ msp.hi \in Int
      /\ search.lo \in Int /\ search.hi \in Int /\ Found.hi \in Int
      /\ memp.hi \in Int
  BY <1>2, <1>3, PayloadFacts DEF TypeOK, AddrRange, Addr
<1>5. /\ lo \in Addr /\ hi \in Addr /\ lo <= hi /\ hi <= msp.hi
      /\ lo \in Int /\ hi \in Int
  BY <1>1, <1>3, <1>4, AddrAssumption DEF Addr
<1>55. hi = Found.lo - 1 /\ lo = msp.lo
  OBVIOUS
<1>6. /\ access \in Access /\ access.addr \in Int /\ access.size \in Nat
      /\ search.hi = access.addr + (access.size - 1)
      /\ access.addr <= search.lo
  <2>1. /\ access \in Access /\ access.addr \in Addr
        /\ access.size \in Nat \ {0}
        /\ access.addr + (access.size - 1) <= AddrMax
    BY <1>2, AccessAssumption DEF SearchOK, Access
  <2>2. search.hi = access.addr + (access.size - 1)
    BY <1>2, <2>1, HiIs DEF SearchOK
  <2> QED  BY <1>2, <2>1, <2>2 DEF SearchOK, Addr
<1>7. \A a \in lo .. hi : access.addr <= a /\ a < access.addr + access.size
  <2> SUFFICES ASSUME NEW a \in lo .. hi
               PROVE  access.addr <= a /\ a < access.addr + access.size
    OBVIOUS
  <2>1. search.lo <= lo /\ hi <= search.hi
    BY <1>2, <1>4, <1>5, <1>55 DEF PartOK, Min2
  <2> HIDE DEF lo, hi
  <2> QED  BY <1>4, <1>5, <1>6, <2>1
<1> HIDE DEF lo, hi
<1>8. /\ data \in Seq(Byte) /\ events \in Nat /\ bytes \in Seq(Byte)
      /\ Len(bytes) \in Nat
      /\ \A a \in lo .. hi :
           /\ a - lo + 1 \in 1 .. Len(data)
           /\ (access.addr <= a /\ a < access.addr + access.size)
                => data[a - lo + 1] = [event |-> events, addr |-> a]
  <2>1. events \in Nat /\ bytes \in Seq(Byte) /\ Len(bytes) \in Nat
    BY <1>2 DEF TypeOK
  <2>2. access \in Access
    BY <1>6
  <2>3. lo \in Addr /\ hi \in Addr /\ lo <= hi
    BY <1>5
  <2>4. /\ data \in Seq(Byte)
        /\ \A a \in lo .. hi :
             /\ a - lo + 1 \in 1 .. Len(data)
             /\ (access.addr <= a /\ a < access.addr + access.size)
                  => data[a - lo + 1] = [event |-> events, addr |-> a]
    BY <2>1, <2>2, <2>3, DataFacts
  <2> QED  BY <2>1, <2>4
<1> HIDE DEF data
<1>9. \A k \in 1 .. Len(data) : bytes'[Len(bytes) + k] = data[k]
  BY <1>1, <1>8, Concat
<1>10. insert'.lo = lo /\ insert'.hi = hi /\ insert'.contents = Len(bytes) + 1
       /\ insert'.found = Found.hi
  BY <1>1
<1> HIDE DEF Found
<1>11. InsertOK'
  <2>1. ASSUME NEW a \in lo .. hi
        PROVE  bytes'[Len(bytes) + 1 + (a - lo)] = [event |-> events, addr |-> a]
    <3>1. Len(bytes) + 1 + (a - lo) = Len(bytes) + (a - lo + 1)
      BY <1>5, <1>8
    <3> QED  BY <1>7, <1>8, <1>9, <3>1
  <2>2. ASSUME NEW a \in lo .. msp.hi, hi < a, a <= Found.hi
        PROVE  Filled(subtrees, memp, a)
    <3>1. a \in Addr /\ Found.lo <= a /\ a <= msp.hi
      <4>1. a \in Int /\ a <= msp.hi /\ lo <= a
        BY <1>4, <1>5
      <4>2. Found.lo <= a
        BY <1>3, <1>55, <2>2, <4>1
      <4>3. a \in Addr
        BY <1>4, <1>5, <4>1, AddrAssumption DEF Addr
      <4> QED  BY <4>1, <4>2, <4>3
    <3> QED  BY <1>3, <2>2, <3>1
  <2>3. hi <= Found.hi
    BY <1>3, <1>55
  <2> QED  BY <1>1, <1>3, <1>5, <1>55, <1>10, <2>1, <2>2, <2>3
           DEF InsertOK, Filled, Covers
<1>12. SearchOK' /\ PartOK'
  BY <1>1, <1>2 DEF SearchOK, KnownByte, Covers, PartOK, Filled
<1> QED  BY <1>1, <1>11, <1>12, ReadingOn DEF LearnOK

(* The interval that InsertGap puts into memp's sub-tree, and the bytes it *)
(* is about.                                                               *)
Gap == [lo |-> insert.lo, hi |-> insert.hi, contents |-> insert.contents]
GapBytes == {<<"m", a>> : a \in insert.lo .. insert.hi}

LEMMA GapInserted ==
  ASSUME IInv, LearnOK, InsertGap
  PROVE  /\ IInv' /\ PartOK /\ SearchOK /\ InsertOK /\ GapOK
         /\ memp \in MemoryPayload /\ memp.contents \in DOMAIN subtrees
         /\ Gap \in MemorySubPayload /\ Gap.lo = insert.lo
         /\ Gap.hi = insert.hi /\ Gap.contents = insert.contents
         /\ DOMAIN subtrees' = DOMAIN subtrees
         /\ subtrees'[memp.contents] = subtrees[memp.contents] \cup {Gap}
         /\ \A i \in DOMAIN subtrees :
              i # memp.contents => subtrees'[i] = subtrees[i]
         /\ pc = "insert" /\ pc' = "find" /\ bytes' = bytes
         /\ msp' = [msp EXCEPT !.lo = Succ(insert.found)]
         /\ UNCHANGED <<memroot, saved, events, access, search, memp>>
<1>1. /\ pc = "insert" /\ pc' = "find" /\ bytes' = bytes
      /\ msp' = [msp EXCEPT !.lo = Succ(insert.found)]
      /\ UNCHANGED <<memroot, saved, events, access, search, memp>>
      /\ subtrees' = [subtrees EXCEPT ![subroot.offset] = @ \cup {Gap}]
  BY DEF InsertGap, Inserted, Gap
<1>2. PartOK /\ SearchOK /\ InsertOK
  BY <1>1 DEF LearnOK
<1>3. TypeOK /\ ReadOK /\ IInv'
  BY InsertGapIInv DEF IInv
<1>4. /\ GapOK /\ subroot.offset = memp.contents
      /\ memp.contents \in DOMAIN subtrees
  BY <1>1, <1>3 DEF ReadOK, PointerFresh
<1>5. /\ insert.lo \in Addr /\ insert.hi \in Addr /\ insert.contents \in Nat
      /\ memp \in MemoryPayload /\ subtrees \in Seq(SUBSET MemorySubPayload)
  BY <1>3 DEF TypeOK
<1>6. /\ Gap \in MemorySubPayload /\ Gap.lo = insert.lo
      /\ Gap.hi = insert.hi /\ Gap.contents = insert.contents
  BY <1>5 DEF Gap, MemorySubPayload
<1> HIDE DEF Gap
<1>7. /\ DOMAIN subtrees' = DOMAIN subtrees
      /\ subtrees'[memp.contents] = subtrees[memp.contents] \cup {Gap}
      /\ \A i \in DOMAIN subtrees :
           i # memp.contents => subtrees'[i] = subtrees[i]
  BY <1>1, <1>4, <1>5
<1> QED  BY <1>1, <1>2, <1>3, <1>4, <1>5, <1>6, <1>7

LEMMA InsertGapLearnOK ==
  ASSUME IInv, LearnOK, InsertGap
  PROVE  LearnOK'
<1>1. /\ PartOK /\ SearchOK /\ InsertOK /\ memp \in MemoryPayload
      /\ memp.contents \in DOMAIN subtrees
      /\ Gap.lo = insert.lo /\ Gap.hi = insert.hi
      /\ DOMAIN subtrees' = DOMAIN subtrees
      /\ subtrees'[memp.contents] = subtrees[memp.contents] \cup {Gap}
      /\ \A i \in DOMAIN subtrees :
           i # memp.contents => subtrees'[i] = subtrees[i]
      /\ pc' = "find"
      /\ msp' = [msp EXCEPT !.lo = Succ(insert.found)]
      /\ UNCHANGED <<memroot, saved, events, access, search, memp>>
  BY GapInserted
<1>2. /\ insert.lo \in Addr /\ insert.hi \in Addr /\ insert.found \in Addr
      /\ insert.lo \in Int /\ insert.hi \in Int /\ insert.found \in Int
      /\ msp \in AddrRange /\ msp.hi \in Int /\ msp.lo \in Int
      /\ search.lo \in Int /\ AddrMax \in Int /\ events \in Nat
  BY AddrAssumption DEF IInv, TypeOK, AddrRange, Addr
<1>3. \A i \in DOMAIN subtrees : subtrees[i] \subseteq subtrees'[i]
  BY <1>1
<1>4. EventsApart'
  BY <1>1, <1>2, SameIntervals DEF LearnOK
<1>5. SubtreesBelowTop'
  <2>1. Gap.lo <= Gap.hi /\ Gap.hi < AddrMax
    BY <1>1, <1>2 DEF InsertOK
  <2>2. SubtreesBelowTop
    BY DEF LearnOK
  <2>3. ASSUME NEW i \in DOMAIN subtrees', NEW s \in subtrees'[i]
        PROVE  s.lo <= s.hi /\ s.hi < AddrMax
    <3>1. s = Gap \/ s \in subtrees[i]
      BY <1>1
    <3> QED  BY <1>1, <2>1, <2>2, <3>1 DEF SubtreesBelowTop
  <2> QED  BY <2>3 DEF SubtreesBelowTop
<1>6. SearchOK'
  <2>1. ASSUME NEW a \in access.addr .. search.hi, a < search.lo
        PROVE  KnownByte(subtrees', memroot, a)
    <3>1. PICK p \in memroot :
            /\ p.type = "m" /\ Covers(p, a)
            /\ p.raw \/ \E s \in subtrees[p.contents] : Covers(s, a)
      BY <1>1, <2>1 DEF SearchOK, KnownByte
    <3>2. ~p.raw => p.contents \in DOMAIN subtrees
      <4>1. p \in Intervals
        BY IntervalsAre
      <4> QED  BY <4>1, IntervalsGood
    <3> QED  BY <1>3, <3>1, <3>2 DEF KnownByte
  <2> QED  BY <1>1, <2>1 DEF SearchOK
<1>7. PartOK'
  <2>1. Succ(insert.found) = insert.found + 1
    BY <1>1, <1>2, SuccIs DEF InsertOK
  <2>2. msp'.lo = insert.found + 1 /\ msp'.hi = msp.hi
    BY <1>1, <1>2, <2>1 DEF AddrRange
  <2>3. search.lo <= insert.found + 1
    BY <1>1, <1>2 DEF PartOK, InsertOK
  <2>4. ASSUME NEW a \in search.lo .. msp.hi, a < insert.found + 1
        PROVE  Filled(subtrees', memp, a)
    <3>1. CASE a < msp.lo
      <4>1. Filled(subtrees, memp, a)
        BY <1>1, <3>1 DEF PartOK
      <4> QED  BY <1>1, <1>3, <4>1 DEF Filled
    <3>2. CASE msp.lo <= a /\ a <= insert.hi
      <4>1. Covers(Gap, a)
        BY <1>1, <3>2 DEF InsertOK, Covers
      <4> QED  BY <1>1, <4>1 DEF Filled
    <3>3. CASE insert.hi < a
      <4>1. a \in insert.lo .. msp.hi /\ a <= insert.found
        BY <1>1, <1>2, <2>4, <3>3 DEF InsertOK
      <4>2. Filled(subtrees, memp, a)
        BY <1>1, <3>3, <4>1 DEF InsertOK
      <4> QED  BY <1>1, <1>3, <4>2 DEF Filled
    <3> QED  BY <1>2, <3>1, <3>2, <3>3
  <2> QED  BY <1>1, <2>2, <2>3, <2>4 DEF PartOK
<1> QED  BY <1>1, <1>4, <1>5, <1>6, <1>7 DEF LearnOK

-----------------------------------------------------------------------------
(* What a version learns from InsertGap, byte by byte. *)
LearntFrom(cell, b, event) ==
  IF b \in GapBytes /\ cell.event = event /\ cell.value = Unknown
  THEN [event |-> cell.event, line |-> cell.line,
        value |-> [event |-> events, addr |-> b[2]]]
  ELSE cell

LEMMA LearntCell ==
  ASSUME IInv, LearnOK, InsertGap, NEW tree \in SUBSET MemoryPayload,
         GoodTree(tree), \A p \in tree : p \in Intervals, NEW b \in Bytes
  PROVE  ViewIn(bytes', subtrees', tree)[b]
           = LearntFrom(ViewIn(bytes, subtrees, tree)[b], b, memp.event)
<1> DEFINE a == b[2]
           old == ViewIn(bytes, subtrees, tree)[b]
           new == ViewIn(bytes', subtrees', tree)[b]
           i == memp.contents
<1>1. /\ IInv' /\ PartOK /\ InsertOK /\ GapOK
      /\ memp \in MemoryPayload /\ i \in DOMAIN subtrees
      /\ Gap \in MemorySubPayload /\ Gap.lo = insert.lo
      /\ Gap.hi = insert.hi /\ Gap.contents = insert.contents
      /\ DOMAIN subtrees' = DOMAIN subtrees
      /\ subtrees'[i] = subtrees[i] \cup {Gap}
      /\ \A j \in DOMAIN subtrees : j # i => subtrees'[j] = subtrees[j]
      /\ bytes' = bytes /\ memp' = memp /\ events' = events
  BY GapInserted
<1>2. b = <<b[1], a>> /\ b[1] \in {"r", "m"} /\ a \in Addr /\ a \in Int
  BY DEF Bytes, Addr
<1>3. (b \in GapBytes) <=> (b[1] = "m" /\ Covers(Gap, a))
  <2>1. insert.lo \in Int /\ insert.hi \in Int
    BY DEF IInv, TypeOK, Addr
  <2> QED  BY <1>1, <1>2, <2>1 DEF GapBytes, Covers
<1>4. CASE At(tree, b[1], a) = {}
  <2>1. old = new
    BY <1>4, CellOfNone
  <2>2. b[1] # "m"
    BY <1>2, <1>4 DEF At, GoodTree, InSpace, Covers
  <2> QED  BY <1>3, <2>1, <2>2 DEF LearntFrom
<1>5. CASE At(tree, b[1], a) # {}
  <2>1. PICK p \in tree : p.type = b[1] /\ Covers(p, a)
    BY <1>5 DEF At
  <2>2. /\ old = Cell(bytes, subtrees, p, a)
        /\ new = Cell(bytes', subtrees', p, a)
    BY <1>2, <2>1, CellOf
  <2>3. /\ memp \in Intervals /\ p \in Intervals
        /\ ~memp.raw
        /\ (~p.raw /\ p.contents = i) <=> p.event = memp.event
        /\ ~p.raw => p.type = "m" /\ p.contents \in DOMAIN subtrees
    BY <1>1, IntervalsAre, IntervalsGood
       DEF PartOK, LearnOK, EventsApart, Apart
  <2> SUFFICES new = LearntFrom(old, b, memp.event)
    OBVIOUS
  <2> HIDE DEF old, new
  <2>4. CASE p.event # memp.event
    <3>1. ValueIn(bytes', subtrees', p, a) = ValueIn(bytes, subtrees, p, a)
      <4>1. CASE p.raw
        BY <1>1, <4>1, ValueOfRaw
      <4>2. CASE ~p.raw
        <5>1. subtrees'[p.contents] = subtrees[p.contents]
          BY <1>1, <2>3, <2>4, <4>2
        <5> QED  BY <1>1, <5>1 DEF ValueIn, SubsAt
      <4> QED  BY <4>1, <4>2
    <3> QED  BY <2>2, <2>4, <3>1 DEF Cell, LearntFrom
  <2>5. CASE p.event = memp.event
    <3>1. ~p.raw /\ p.contents = i /\ b[1] = "m"
      BY <2>1, <2>3, <2>5
    <3>2. CASE Covers(Gap, a)
      <4>1. \A s \in subtrees[i] : ~Covers(s, a)
        <5> SUFFICES ASSUME NEW s \in subtrees[i], Covers(s, a)
                     PROVE  FALSE
          OBVIOUS
        <5>1. s \in MemorySubPayload /\ s.lo \in Int /\ s.hi \in Int
          BY <1>1, SubFacts DEF IInv, TypeOK
        <5>2. insert.lo \in Int /\ insert.hi \in Int
          BY DEF IInv, TypeOK, Addr
        <5>3. ~Overlap(s, insert.lo, insert.hi)
          BY <1>1 DEF GapOK
        <5> QED  BY <1>1, <1>2, <3>2, <5>1, <5>2, <5>3 DEF Covers, Overlap
      <4>2. ValueIn(bytes, subtrees, p, a) = Unknown
        BY <3>1, <4>1, ValueOfNone
      <4>3. ValueIn(bytes', subtrees', p, a)
              = bytes'[Gap.contents + (a - Gap.lo)]
        <5>1. Gap \in subtrees'[i] /\ i \in DOMAIN subtrees'
          BY <1>1
        <5>2. SubsGood(bytes', subtrees')
          <6>1. TypeOK' /\ GoodSubs'
            BY <1>1, GoodIsNext DEF IInv
          <6> QED  BY <6>1 DEF TypeOK, GoodSubs, SubsGood
        <5>3. /\ subtrees'[i] \in SUBSET MemorySubPayload
              /\ Disjoint(subtrees'[i])
          BY <5>1, <5>2 DEF SubsGood
        <5> QED  BY <1>2, <3>1, <3>2, <5>1, <5>3, ValueOfSub
      <4>4. bytes'[Gap.contents + (a - Gap.lo)] = [event |-> events, addr |-> a]
        <5>1. a \in insert.lo .. insert.hi
          <6>1. insert.lo \in Int /\ insert.hi \in Int
            BY DEF IInv, TypeOK, Addr
          <6> QED  BY <1>1, <1>2, <3>2, <6>1 DEF Covers
        <5> QED  BY <1>1, <5>1 DEF InsertOK
      <4>5. b \in GapBytes
        BY <1>3, <3>1, <3>2
      <4> QED  BY <2>2, <2>5, <4>2, <4>3, <4>4, <4>5 DEF Cell, LearntFrom
    <3>3. CASE ~Covers(Gap, a)
      <4>1. SubsAt(subtrees', p, a) = SubsAt(subtrees, p, a)
        BY <1>1, <3>1, <3>3 DEF SubsAt
      <4>2. ValueIn(bytes', subtrees', p, a) = ValueIn(bytes, subtrees, p, a)
        BY <1>1, <4>1 DEF ValueIn
      <4>3. b \notin GapBytes
        BY <1>3, <3>3
      <4> QED  BY <2>2, <4>2, <4>3 DEF Cell, LearntFrom
    <3> QED  BY <3>2, <3>3
  <2> QED  BY <2>4, <2>5
<1> QED  BY <1>4, <1>5

LEMMA InsertGapRefines ==
  ASSUME IInv, LearnOK, InsertGap
  PROVE  \E bs \in SUBSET AbsReading : Abstract!Learn(bs)
<1> DEFINE n == Len(AbsVersions)
           old == AbsVersions
           roots(i) == IF i = n THEN memroot ELSE saved[i]
           learnt == [i \in DOMAIN old |->
                        [b \in Bytes |->
                           IF /\ b \in GapBytes
                              /\ old[i][b].event = old[n][b].event
                              /\ old[i][b].value = Unknown
                           THEN [old[i][b] EXCEPT
                                   !.value = [event |-> events, addr |-> b[2]]]
                           ELSE old[i][b]]]
<1>1. /\ PartOK /\ SearchOK /\ InsertOK /\ memp \in MemoryPayload
      /\ bytes' = bytes /\ pc = "insert" /\ pc' = "find"
      /\ UNCHANGED <<memroot, saved, events, access, memp>>
  BY GapInserted
<1>2. GapBytes \subseteq AbsReading
  <2>1. access.type = "m"
    BY <1>1, AccessAssumption DEF SearchOK
  <2>2. /\ search.lo \in Int /\ search.hi \in Int /\ access.addr \in Int
        /\ insert.lo \in Int /\ insert.hi \in Int /\ msp.lo \in Int
        /\ msp.hi \in Int /\ memp.hi \in Int
    BY <1>1, PayloadFacts DEF IInv, TypeOK, AddrRange, Addr, Access
  <2>3. access.addr <= insert.lo /\ insert.hi <= search.hi
    BY <1>1, <2>2 DEF SearchOK, PartOK, InsertOK, Min2
  <2>4. \A a \in insert.lo .. insert.hi : a \in access.addr .. search.hi
    BY <2>2, <2>3
  <2>5. search.hi = Hi(access.addr, access.size)
    BY <1>1 DEF SearchOK
  <2> QED  BY <1>1, <2>1, <2>4, <2>5 DEF AbsReading, BytesOf, GapBytes
<1>3. /\ DOMAIN saved = 1 .. Len(saved) /\ Len(saved) \in Nat
      /\ n = Len(saved) + 1
      /\ old = [i \in 1 .. n |-> ViewIn(bytes, subtrees, roots(i))]
  <2>1. /\ DOMAIN saved = 1 .. Len(saved) /\ Len(saved) \in Nat
        /\ old = [i \in 1 .. (Len(saved) + 1) |->
             IF i = Len(saved) + 1 THEN ViewIn(bytes, subtrees, memroot)
             ELSE ViewIn(bytes, subtrees, saved[i])]
        /\ n = Len(saved) + 1
    BY AbsVersionsAre
  <2> HIDE DEF old, n
  <2> QED  BY <2>1
<1>4. old' = [i \in 1 .. n |-> ViewIn(bytes', subtrees', roots(i))]
  <2>1. saved \in Seq(SUBSET MemoryPayload)
    BY StateGood
  <2>2. VersionsIn(bytes', subtrees', saved, memroot) =
          [i \in 1 .. (Len(saved) + 1) |->
             IF i = Len(saved) + 1 THEN ViewIn(bytes', subtrees', memroot)
             ELSE ViewIn(bytes', subtrees', saved[i])]
    BY <2>1, VersionsAre
  <2>3. AbsVersions' = VersionsIn(bytes', subtrees', saved, memroot)
    BY <1>1, AbsIs
  <2> HIDE DEF n
  <2> QED  BY <1>3, <2>2, <2>3
<1>5. ASSUME NEW i \in 1 .. n
      PROVE  /\ roots(i) \in SUBSET MemoryPayload /\ GoodTree(roots(i))
             /\ \A p \in roots(i) : p \in Intervals
  <2> HIDE DEF n
  <2>1. i # n => i \in DOMAIN saved
    BY <1>3
  <2> QED  BY <2>1, StateGood, IntervalsAre
<1> HIDE DEF n, roots
<1>6. ASSUME NEW b \in GapBytes
      PROVE  b \in Bytes /\ old[n][b].event = memp.event
  <2>1. PICK a \in insert.lo .. insert.hi : b = <<"m", a>>
    BY DEF GapBytes
  <2>2. /\ insert.lo \in Addr /\ insert.hi \in Addr /\ msp.lo \in Addr
        /\ msp.hi \in Addr /\ search.lo \in Addr /\ search.hi \in Addr
        /\ memp.lo \in Addr /\ memp.hi \in Addr
    BY <1>1, PayloadFacts DEF IInv, TypeOK, AddrRange
  <2>3. a \in Addr /\ Covers(memp, a)
    BY <1>1, <2>2, AddrAssumption DEF InsertOK, PartOK, Covers, Min2, Addr
  <2>4. /\ <<"m", a>> \in Bytes
        /\ ViewIn(bytes, subtrees, memroot)[<<"m", a>>]
             = Cell(bytes, subtrees, memp, a)
    BY <1>1, <2>3, StateGood, CellOf DEF PartOK
  <2>5. old[n] = ViewIn(bytes, subtrees, memroot)
    BY <1>3 DEF roots
  <2> QED  BY <2>1, <2>4, <2>5 DEF Cell
<1>7. old' = learnt
  <2>1. ASSUME NEW i \in 1 .. n, NEW b \in Bytes
        PROVE  ViewIn(bytes', subtrees', roots(i))[b] = learnt[i][b]
    <3> DEFINE cell == old[i][b]
    <3>1. cell = ViewIn(bytes, subtrees, roots(i))[b]
      BY <1>3
    <3>2. ViewIn(bytes', subtrees', roots(i))[b]
            = LearntFrom(cell, b, memp.event)
      BY <1>5, <3>1, LearntCell
    <3>3. \E e, l, v : cell = [event |-> e, line |-> l, value |-> v]
      BY <3>1 DEF ViewIn, CellAt, Cell
    <3> HIDE DEF cell
    <3>4. \A v : [cell EXCEPT !.value = v]
                   = [event |-> cell.event, line |-> cell.line, value |-> v]
      BY <3>3
    <3>5. learnt[i][b] =
            IF b \in GapBytes /\ cell.event = old[n][b].event
                 /\ cell.value = Unknown
            THEN [cell EXCEPT !.value = [event |-> events, addr |-> b[2]]]
            ELSE cell
      <4>1. DOMAIN old = 1 .. n
        BY <1>3
      <4> HIDE DEF old
      <4> QED  BY <4>1 DEF cell
    <3> HIDE DEF learnt, old
    <3> QED  BY <1>6, <3>2, <3>4, <3>5 DEF LearntFrom
  <2>2. DOMAIN old = 1 .. n
    BY <1>3
  <2>3. \A i \in 1 .. n : ViewIn(bytes', subtrees', roots(i))
                            = [b \in Bytes |-> learnt[i][b]]
    <3> HIDE DEF learnt
    <3> QED  BY <2>1 DEF ViewIn
  <2>4. \A i \in 1 .. n : learnt[i] = [b \in Bytes |-> learnt[i][b]]
    BY <2>2
  <2>5. learnt = [i \in 1 .. n |-> learnt[i]]
    BY <2>2
  <2> HIDE DEF learnt
  <2> QED  BY <1>4, <2>3, <2>4, <2>5
<1>8. AbsReading' = AbsReading
  BY <1>1 DEF AbsReading, BytesOf
<1> HIDE DEF n
<1>9. Abstract!Learn(GapBytes)
  BY <1>1, <1>2, <1>7, <1>8
     DEF Abstract!Learn, Abstract!Given, AbsVersions, AbsReading, n
<1> QED  BY <1>2, <1>9

-----------------------------------------------------------------------------
(***************************************************************************)
(* The end of a read, and the steps on the way there.                      *)
(***************************************************************************)
LEMMA KnownHasValue ==
  ASSUME IInv, NEW a \in Addr, KnownByte(subtrees, memroot, a)
  PROVE  /\ <<"m", a>> \in Bytes
         /\ ViewIn(bytes, subtrees, memroot)[<<"m", a>>].value # Unknown
<1>1. PICK p \in memroot :
        /\ p.type = "m" /\ Covers(p, a)
        /\ p.raw \/ \E s \in subtrees[p.contents] : Covers(s, a)
  BY DEF KnownByte
<1>2. /\ memroot \in SUBSET MemoryPayload /\ GoodTree(memroot)
      /\ InArena(p, bytes, DOMAIN subtrees) /\ SubsGood(bytes, subtrees)
      /\ bytes \in Seq(Byte) /\ a \in Int
      /\ p.lo \in Int /\ p.hi \in Int
  BY StateGood, PayloadFacts DEF IInv, TypeOK, Addr
<1>3. /\ <<"m", a>> \in Bytes
      /\ ViewIn(bytes, subtrees, memroot)[<<"m", a>>]
           = Cell(bytes, subtrees, p, a)
  BY <1>1, <1>2, CellOf
<1>4. ValueIn(bytes, subtrees, p, a) \in Byte
  <2>1. CASE p.raw
    <3>1. a \in p.lo .. p.hi
      BY <1>1, <1>2 DEF Covers
    <3>2. p.contents + (a - p.lo) \in DOMAIN bytes
      BY <1>2, <2>1, <3>1 DEF InArena
    <3>3. bytes[p.contents + (a - p.lo)] \in Byte
      BY <1>2, <3>2
    <3> QED  BY <2>1, <3>3, ValueOfRaw
  <2>2. CASE ~p.raw
    <3>1. p.contents \in DOMAIN subtrees
      BY <1>2, <2>2 DEF InArena
    <3>2. PICK s \in subtrees[p.contents] : Covers(s, a)
      BY <1>1, <2>2
    <3>3. /\ subtrees[p.contents] \in SUBSET MemorySubPayload
          /\ Disjoint(subtrees[p.contents]) /\ SubInArena(s, bytes)
      BY <1>2, <3>1, <3>2 DEF SubsGood
    <3>4. s.lo \in Int /\ s.hi \in Int
      BY <3>2, <3>3, SubFacts
    <3>5. a \in s.lo .. s.hi
      BY <1>2, <3>2, <3>4 DEF Covers
    <3>6. s.contents + (a - s.lo) \in DOMAIN bytes
      BY <3>3, <3>5 DEF SubInArena
    <3>7. bytes[s.contents + (a - s.lo)] \in Byte
      BY <1>2, <3>6
    <3>8. ValueIn(bytes, subtrees, p, a) = bytes[s.contents + (a - s.lo)]
      BY <2>2, <3>2, <3>3, ValueOfSub
    <3> QED  BY <3>7, <3>8
  <2> QED  BY <2>1, <2>2
<1> QED  BY <1>3, <1>4, UnknownAssumption DEF Cell

LEMMA ReturnRefines ==
  ASSUME IInv, SearchOK, pc # "idle", pc' = "idle",
         UNCHANGED <<bytes, subtrees, memroot, saved, events>>,
         \A a \in access.addr .. search.hi : KnownByte(subtrees, memroot, a)
  PROVE  Abstract!EndRead
<1> DEFINE n == Len(AbsVersions)
<1>1. AbsVersions' = AbsVersions
  BY AbsIs
<1>2. AbsVersions[n] = ViewIn(bytes, subtrees, memroot)
  BY AbsVersionsAre
<1>3. AbsReading = BytesOf(access) /\ AbsReading' = {}
  BY DEF AbsReading
<1>4. ASSUME NEW b \in AbsReading
      PROVE  AbsVersions[n][b].value # Unknown
  <2>1. /\ access.type = "m" /\ search.hi = Hi(access.addr, access.size)
        /\ access.addr \in Addr /\ search.hi \in Addr
    BY AccessAssumption DEF SearchOK, IInv, TypeOK, AddrRange, Access
  <2>2. PICK a \in access.addr .. search.hi : b = <<"m", a>>
    BY <1>3, <2>1 DEF BytesOf
  <2>3. a \in Addr
    BY <2>1, AddrAssumption DEF Addr
  <2> QED  BY <1>2, <2>2, <2>3, KnownHasValue
<1> QED  BY <1>1, <1>3, <1>4
         DEF Abstract!EndRead, Abstract!Current, AbsVersions, AbsReading

LEMMA NextNodeRefines ==
  ASSUME IInv, LearnOK, pc # "idle", NEW p \in MemoryPayload, NextNode(p),
         UNCHANGED <<bytes, subtrees, memroot, saved, events>>,
         Covers(p, search.lo),
         \A a \in search.lo .. search.hi :
           a <= p.hi => KnownByte(subtrees, memroot, a)
  PROVE  \/ Abstract!EndRead
         \/ AbsVersions' = AbsVersions /\ AbsReading' = AbsReading
<1>1. /\ search.lo \in Int /\ search.hi \in Addr /\ search.hi \in Int
      /\ p.hi \in Addr /\ access.addr \in Int /\ SearchOK
  BY PayloadFacts DEF IInv, TypeOK, AddrRange, Addr, Access, LearnOK
<1>2. CASE Succ(p.hi) = 0
  <2>1. pc' = "idle"
    BY <1>2 DEF NextNode, Return
  <2>2. p.hi = AddrMax
    BY <1>1, <1>2, SuccIs, AddrAssumption DEF Addr
  <2>3. ASSUME NEW a \in access.addr .. search.hi
        PROVE  KnownByte(subtrees, memroot, a)
    <3>1. CASE a < search.lo
      BY <1>1, <3>1 DEF SearchOK
    <3>2. CASE ~(a < search.lo)
      <4>1. a \in search.lo .. search.hi /\ a <= p.hi
        BY <1>1, <2>2, <3>2, AddrAssumption DEF Addr
      <4> QED  BY <4>1
    <3> QED  BY <3>1, <3>2
  <2> QED  BY <1>1, <2>1, <2>3, ReturnRefines
<1>3. CASE Succ(p.hi) # 0
  <2>1. pc' = "node" /\ access' = access
    BY <1>3 DEF NextNode
  <2>2. AbsReading' = AbsReading
    BY <2>1 DEF AbsReading, BytesOf
  <2>3. AbsVersions' = AbsVersions
    BY AbsIs
  <2> QED  BY <2>2, <2>3
<1> QED  BY <1>2, <1>3

LEMMA EndReadRefines ==
  ASSUME IInv, LearnOK, EndRead
  PROVE  Abstract!EndRead
<1>1. /\ pc = "node" /\ NodeHits = {} /\ pc' = "idle" /\ SearchOK
      /\ UNCHANGED <<bytes, subtrees, memroot, saved, events>>
  BY DEF EndRead, Return, LearnOK
<1>2. /\ search.lo \in Addr /\ search.lo \in Int /\ search.hi \in Int
      /\ access.addr \in Int
  BY DEF IInv, TypeOK, AddrRange, Addr, Access
<1>3. ~(search.lo <= search.hi)
  <2> SUFFICES ASSUME search.lo <= search.hi PROVE FALSE
    OBVIOUS
  <2>1. memroot \in SUBSET MemoryPayload /\ GoodTree(memroot)
    BY StateGood
  <2>2. PICK p \in memroot : p.type = "m" /\ p.lo <= search.lo /\ search.lo <= p.hi
    BY <1>2, <2>1 DEF GoodTree, InSpace
  <2>3. p.lo \in Int /\ p.hi \in Int
    BY <2>1, PayloadFacts
  <2>4. p \in Hits(memroot, "m", search.lo, search.hi)
    BY <1>2, <2>2, <2>3 DEF Hits, Overlap
  <2> QED  BY <1>1, <2>4 DEF NodeHits
<1>4. \A a \in access.addr .. search.hi : KnownByte(subtrees, memroot, a)
  BY <1>1, <1>2, <1>3 DEF SearchOK
<1> QED  BY <1>1, <1>4, ReturnRefines

LEMMA SkipKnownRefines ==
  ASSUME IInv, LearnOK, SkipKnown
  PROVE  \/ Abstract!EndRead
         \/ AbsVersions' = AbsVersions /\ AbsReading' = AbsReading
<1> DEFINE p == Leftmost(NodeHits)
<1>1. /\ pc = "node" /\ NodeHits # {} /\ p.raw /\ NextNode(p)
      /\ UNCHANGED <<bytes, subtrees, memroot, saved, events>>
  BY DEF SkipKnown
<1>2. /\ p \in memroot /\ p \in MemoryPayload /\ p.type = "m"
      /\ Covers(p, search.lo)
  BY <1>1, FirstHitCovers
<1> HIDE DEF p
<1>3. ASSUME NEW a \in search.lo .. search.hi, a <= p.hi
      PROVE  KnownByte(subtrees, memroot, a)
  <2>1. search.lo \in Int /\ search.hi \in Int /\ p.lo \in Int
    BY <1>2, PayloadFacts DEF IInv, TypeOK, AddrRange, Addr
  <2>2. Covers(p, a)
    BY <1>2, <1>3, <2>1 DEF Covers
  <2> QED  BY <1>1, <1>2, <2>2 DEF KnownByte
<1> QED  BY <1>1, <1>2, <1>3, NextNodeRefines

LEMMA LeaveUnknownRefines ==
  ASSUME IInv, LearnOK, LeaveUnknown
  PROVE  \/ Abstract!EndRead
         \/ AbsVersions' = AbsVersions /\ AbsReading' = AbsReading
<1>1. /\ pc = "find" /\ msp.lo > msp.hi /\ NextNode(memp)
      /\ UNCHANGED <<bytes, subtrees, memroot, saved, events>>
  BY DEF LeaveUnknown
<1>2. PartOK /\ memp \in MemoryPayload /\ Covers(memp, search.lo)
  BY <1>1 DEF LearnOK, IInv, TypeOK, PartOK
<1>3. \A a \in search.lo .. search.hi :
        a <= memp.hi => KnownByte(subtrees, memroot, a)
  BY <1>1, <1>2, PartKnown
<1> QED  BY <1>1, <1>2, <1>3, NextNodeRefines

(* The other steps of a read do not show. *)
LEMMA ReadStepRefines ==
  ASSUME IInv, LearnOK, ReadStep
  PROVE  \/ Abstract!EndRead
         \/ \E bs \in SUBSET AbsReading : Abstract!Learn(bs)
         \/ /\ AbsVersions' = AbsVersions /\ AbsReading' = AbsReading
            /\ events' = events
<1>1. CASE EndRead
  BY <1>1, EndReadRefines
<1>2. CASE SkipKnown
  BY <1>2, SkipKnownRefines DEF SkipKnown
<1>3. CASE EnterUnknown
  BY <1>3, AbsIs DEF EnterUnknown, AbsReading, BytesOf
<1>4. CASE FillGap
  <2>1. /\ pc = "find" /\ pc' = "insert"
        /\ UNCHANGED <<subtrees, memroot, saved, events, access>>
    BY <1>4 DEF FillGap
  <2>2. Grown(bytes, bytes') /\ TreesKept(subtrees, subtrees')
    BY <1>4, <2>1, FillGapIInv DEF GrowStep, TreesKept
  <2>3. AbsVersions' = AbsVersions
    BY <2>1, <2>2, VersionsStay, AbsIs
  <2> QED  BY <2>1, <2>3 DEF AbsReading, BytesOf
<1>5. CASE InsertGap
  BY <1>5, InsertGapRefines
<1>6. CASE SkipFound
  BY <1>6, AbsIs DEF SkipFound, AbsReading, BytesOf
<1>7. CASE LeaveUnknown
  BY <1>7, LeaveUnknownRefines DEF LeaveUnknown
<1> QED  BY <1>1, <1>2, <1>3, <1>4, <1>5, <1>6, <1>7 DEF ReadStep

-----------------------------------------------------------------------------
(***************************************************************************)
(* The theorem.                                                            *)
(***************************************************************************)
LEMMA NextLearnOK ==
  ASSUME ReadsBelowTheTop, IInv, LearnOK, [Next]_vars
  PROVE  LearnOK'
<1>1. CASE UNCHANGED vars
  <2>1. UNCHANGED <<bytes, subtrees, mapping, memroot, saved, events, pc, access,
                    search, memp, subroot, msp, insert>>
    BY <1>1 DEF vars, readVars
  <2>2. EventsApart' /\ SubtreesBelowTop'
    BY <2>1, ReadingOn
  <2>3. pc' # "idle" => SearchOK'
    BY <2>1 DEF LearnOK, SearchOK, KnownByte, Covers
  <2>4. pc' \in {"find", "insert"} => PartOK'
    BY <2>1 DEF LearnOK, PartOK, Filled, Covers
  <2>5. pc' = "insert" => InsertOK'
    BY <2>1 DEF LearnOK, InsertOK, Filled, Covers
  <2> QED  BY <2>2, <2>3, <2>4, <2>5 DEF LearnOK
<1>2. ASSUME NEW x \in Accesses, Write(x) \/ Forget(x) \/ BeginRead(x)
      PROVE  LearnOK'
  BY <1>2, WriteLearnOK, ForgetLearnOK, BeginReadLearnOK
<1>3. CASE NewRecord
  BY <1>3, NewRecordLearnOK
<1>4. CASE ReadStep
  <2>1. CASE EndRead
    BY <2>1, ReturnLearnOK DEF EndRead
  <2> QED  BY <1>4, <2>1, SkipKnownLearnOK, EnterUnknownLearnOK, FillGapLearnOK,
              InsertGapLearnOK, SkipFoundLearnOK, LeaveUnknownLearnOK
           DEF ReadStep
<1>5. CASE TraceEnds
  BY <1>1, <1>5 DEF TraceEnds
<1> QED  BY <1>1, <1>2, <1>3, <1>4, <1>5 DEF Next

LEMMA NextRefines ==
  ASSUME IInv, LearnOK, [Next]_vars
  PROVE  [Abstract!Next]_(Abstract!vars)
<1> SUFFICES \/ \E x \in Accesses : \/ Abstract!Write(BytesOf(x))
                                    \/ Abstract!Forget(BytesOf(x))
                                    \/ Abstract!BeginRead(BytesOf(x))
             \/ \E bs \in SUBSET AbsReading : Abstract!Learn(bs)
             \/ Abstract!EndRead
             \/ Abstract!NewRecord
             \/ /\ AbsVersions' = AbsVersions /\ AbsReading' = AbsReading
                /\ events' = events
  BY DEF Abstract!Next, Abstract!vars, AbsVersions, AbsReading
<1>1. CASE UNCHANGED vars
  BY <1>1, AbsIs DEF vars, readVars, AbsReading, BytesOf
<1>2. ASSUME NEW x \in Accesses, Write(x) \/ Forget(x) \/ BeginRead(x)
      PROVE  \/ Abstract!Write(BytesOf(x)) \/ Abstract!Forget(BytesOf(x))
             \/ Abstract!BeginRead(BytesOf(x))
  BY <1>2, WriteRefines, ForgetRefines, BeginReadRefines
<1>3. CASE NewRecord
  BY <1>3, NewRecordRefines
<1>4. CASE ReadStep
  BY <1>4, ReadStepRefines
<1>5. CASE TraceEnds
  BY <1>1, <1>5 DEF TraceEnds
<1> QED  BY <1>1, <1>2, <1>3, <1>4, <1>5 DEF Next

(* The index's memory tree, with all the versions that share its sub-trees *)
(* and are cut and filled together, is the plain byte memory of            *)
(* ByteMemory: after each record every byte is as its last write left it,  *)
(* a read tells its unknown bytes to those versions in which they have not *)
(* been touched since, and to no others, and it ends when it has told all. *)
(* For the reads that do not touch the last address: what becomes of those *)
(* is the finding of the run mem_tree_top.                                 *)
THEOREM TreeImplementsByteMemory ==
  ReadsBelowTheTop => (Spec => ImplementsByteMemory)
<1> SUFFICES ASSUME ReadsBelowTheTop PROVE Spec => ImplementsByteMemory
  OBVIOUS
<1>1. Init => Abstract!Init /\ LearnOK
  BY NothingKnownAtFirst, InitLearnOK
<1>2. IInv /\ LearnOK /\ [Next]_vars => LearnOK'
  BY NextLearnOK
<1>3. IInv /\ LearnOK /\ [Next]_vars => [Abstract!Next]_(Abstract!vars)
  BY NextRefines
<1> QED  BY <1>1, <1>2, <1>3, Inductive, PTL
         DEF Spec, ImplementsByteMemory, Abstract!Spec
=============================================================================
