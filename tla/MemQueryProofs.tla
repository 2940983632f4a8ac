-------------------------- MODULE MemQueryProofs --------------------------
(***************************************************************************)
(* The index's answers about memory and registers, for every size of the   *)
(* address space and all events: what getmem(), getmem_next() and          *)
(* read_memtree_value() find in the intervals and sub-trees of any version *)
(* is what the byte memory of ByteMemory has there.                        *)
(***************************************************************************)
EXTENDS MemTreeProofs, FiniteSetTheorems

-----------------------------------------------------------------------------
(***************************************************************************)
(* The queries go through the addresses from the first one up, by          *)
(* recursion.  What they find is shown by induction from the last address  *)
(* down; a set of addresses stands for what is shown of each.              *)
(***************************************************************************)
LEMMA Downward ==
  ASSUME NEW good \in SUBSET Addr,
         \A l \in Addr : (\A m \in Addr : l < m => m \in good) => l \in good
  PROVE  \A l \in Addr : l \in good
<1> DEFINE less == {r \in Nat \X Nat : r[1] < r[2]}
           bad == {n \in Nat : n <= AddrMax /\ AddrMax - n \notin good}
<1> SUFFICES ASSUME bad # {} PROVE FALSE
  <2> SUFFICES ASSUME NEW l \in Addr, l \notin good PROVE AddrMax - l \in bad
    OBVIOUS
  <2>1. AddrMax - l \in Nat /\ AddrMax - l <= AddrMax /\ AddrMax - (AddrMax - l) = l
    BY AddrAssumption DEF Addr
  <2> QED  BY <2>1
<1>1. IsWellFoundedOn(less, Nat)
  BY NatLessThanWellFounded DEF OpToRel
<1> HIDE DEF less
<1>2. PICK n \in bad : \A k \in bad : ~(<<k, n>> \in less)
  <2> HIDE DEF bad
  <2>1. bad \subseteq Nat
    BY DEF bad
  <2> QED  BY <1>1, <2>1, WFMin
<1>3. n \in Nat /\ n <= AddrMax /\ AddrMax - n \notin good /\ AddrMax - n \in Addr
  BY AddrAssumption DEF Addr
<1>4. ASSUME NEW m \in Addr, AddrMax - n < m
      PROVE  m \in good
  <2> SUFFICES ASSUME m \notin good PROVE FALSE
    OBVIOUS
  <2>1. /\ AddrMax - m \in Nat /\ AddrMax - m <= AddrMax
        /\ AddrMax - (AddrMax - m) = m /\ AddrMax - m < n
    BY <1>3, <1>4, AddrAssumption DEF Addr
  <2>2. AddrMax - m \in bad
    BY <2>1
  <2>3. <<AddrMax - m, n>> \in less
    BY <1>3, <2>1 DEF less
  <2> QED  BY <1>2, <2>2, <2>3
<1> QED  BY <1>3, <1>4

(* There is a function that is defined at each address from its value at a *)
(* later one.                                                              *)
Ahead(end, next) ==
  next \in [Addr -> Addr] /\ \A l \in Addr \ end : l < next[l]
Recurs(f, end, base, step, next) ==
  \A l \in Addr : f[l] = IF l \in end THEN base[l] ELSE step[l][f[next[l]]]

LEMMA RecursionUp ==
  ASSUME NEW X, NEW end, end \in SUBSET Addr, NEW base, base \in [Addr -> X],
         NEW step, step \in [Addr -> [X -> X]], NEW next, Ahead(end, next)
  PROVE  \E f \in [Addr -> X] : Recurs(f, end, base, step, next)
<1>0. next \in [Addr -> Addr] /\ \A l \in Addr \ end : l < next[l]
  BY DEF Ahead
<1> DEFINE Eq(f, l) == f[l] = IF l \in end THEN base[l] ELSE step[l][f[next[l]]]
           From(f, n) == \A l \in Addr : n <= l => Eq(f, l)
           good == {n \in Addr : \E f \in [Addr -> X] : From(f, n)}
<1>1. ASSUME NEW n \in Addr, \A m \in Addr : n < m => m \in good
      PROVE  n \in good
  <2>1. PICK f \in [Addr -> X] : \A l \in Addr : n < l => Eq(f, l)
    <3>1. CASE n = AddrMax
      <4>1. \A l \in Addr : ~(n < l)
        BY <3>1, AddrAssumption DEF Addr
      <4> QED  BY <4>1
    <3>2. CASE n # AddrMax
      <4>1. n + 1 \in Addr /\ n < n + 1
        BY <3>2, AddrAssumption DEF Addr
      <4>2. PICK f \in [Addr -> X] : From(f, n + 1)
        BY <1>1, <4>1
      <4>3. \A l \in Addr : n < l => n + 1 <= l
        BY AddrAssumption DEF Addr
      <4> QED  BY <4>2, <4>3
    <3> QED  BY <3>1, <3>2
  <2> DEFINE v == IF n \in end THEN base[n] ELSE step[n][f[next[n]]]
             g == [f EXCEPT ![n] = v]
  <2>2. v \in X
    <3>1. next[n] \in Addr /\ f[next[n]] \in X /\ step[n] \in [X -> X]
      BY <1>0
    <3> QED  BY <3>1
  <2> HIDE DEF v
  <2>3. g \in [Addr -> X] /\ g[n] = v /\ \A l \in Addr : l # n => g[l] = f[l]
    BY <2>2
  <2> HIDE DEF g
  <2>4. ASSUME NEW l \in Addr, n <= l
        PROVE  Eq(g, l)
    <3>1. next[l] \in Addr /\ (l \notin end => l < next[l] /\ next[l] # n)
      BY <1>0, <2>4, AddrAssumption DEF Addr
    <3>2. CASE l = n
      BY <2>3, <3>1, <3>2 DEF v
    <3>3. CASE l # n
      <4>1. n < l
        BY <2>4, <3>3, AddrAssumption DEF Addr
      <4>2. Eq(f, l)
        BY <2>1, <4>1
      <4> QED  BY <2>3, <3>1, <3>3, <4>2
    <3> QED  BY <3>2, <3>3
  <2>5. From(g, n)
    BY <2>4
  <2> QED  BY <2>3, <2>5
<1>2. good \in SUBSET Addr
  OBVIOUS
<1> HIDE DEF good
<1>3. \A l \in Addr : l \in good
  BY <1>1, <1>2, Downward
<1>4. 0 \in Addr /\ \A l \in Addr : 0 <= l
  BY AddrAssumption DEF Addr
<1>5. 0 \in good
  BY <1>3, <1>4
<1> QED  BY <1>4, <1>5 DEF good, Recurs

-----------------------------------------------------------------------------
(***************************************************************************)
(* Inside an unknown interval.                                             *)
(***************************************************************************)
(* The pairs there can be of an address and what it contains. *)
Contents == {bytes[i] : i \in Int}
Known == Addr \X Contents

LEMMA BoundFacts ==
  ASSUME NEW a \in Addr, NEW b \in Addr
  PROVE  /\ Min2(a, b) \in Addr /\ Max2(a, b) \in Addr
         /\ Min2(a, b) <= a /\ Min2(a, b) <= b
         /\ a <= Max2(a, b) /\ b <= Max2(a, b)
         /\ Min2(a, b) \in {a, b} /\ Max2(a, b) \in {a, b}
         /\ a \in Int /\ a >= 0 /\ a <= AddrMax
  BY AddrAssumption DEF Min2, Max2, Addr

LEMMA CopyIs ==
  ASSUME NEW p, p.contents \in Int, p.lo \in Int, NEW lo \in Addr, NEW hi \in Addr
  PROVE  /\ Copy(p, lo, hi) \in SUBSET Known
         /\ \A a, v : <<a, v>> \in Copy(p, lo, hi)
                        <=> a \in lo .. hi /\ v = bytes[p.contents + (a - p.lo)]
<1>1. \A a \in lo .. hi : a \in Addr /\ a \in Int
  BY AddrAssumption DEF Addr
<1>2. \A a \in lo .. hi : <<a, bytes[p.contents + (a - p.lo)]>> \in Known
  BY <1>1 DEF Known, Contents
<1> QED  BY <1>2 DEF Copy

(* The first hit of a search from l on, and where it leads. *)
LEMMA SubHitFacts ==
  ASSUME NEW t \in SUBSET MemorySubPayload, Disjoint(t),
         NEW l \in Addr, NEW hi \in Addr, SubHits(t, l, hi) # {}
  PROVE  LET p == Leftmost(SubHits(t, l, hi))
         IN /\ p \in t /\ p \in MemorySubPayload /\ l <= p.hi /\ p.lo <= hi
            /\ \A s \in t, a \in Addr :
                 l <= a /\ a <= p.hi /\ a <= hi /\ Covers(s, a) => s = p
<1> DEFINE hits == SubHits(t, l, hi)
           p == Leftmost(hits)
<1>0. l \in Int /\ hi \in Int
  BY DEF Addr
<1>1. hits \subseteq t /\ \A s \in t : s \in hits <=> ~(s.hi < l) /\ ~(s.lo > hi)
  BY DEF SubHits, Overlap
<1>2. \A q \in hits : q.lo \in Addr
  BY <1>1, SubFacts
<1>3. p \in hits /\ \A q \in hits : p.lo <= q.lo
  <2>1. hits # {}
    OBVIOUS
  <2> HIDE DEF hits
  <2> QED  BY <1>2, <2>1, LeftmostIn
<1> HIDE DEF hits, p
<1>4. /\ p \in t /\ p \in MemorySubPayload /\ p.lo \in Int /\ p.hi \in Int
      /\ l <= p.hi /\ p.lo <= hi
  <2>1. p \in t /\ p \in MemorySubPayload
    BY <1>1, <1>3
  <2>2. p.lo \in Int /\ p.hi \in Int
    BY <2>1, SubFacts
  <2> QED  BY <1>0, <1>1, <1>3, <2>1, <2>2
<1>5. ASSUME NEW s \in t, NEW a \in Addr, l <= a, a <= p.hi, a <= hi, Covers(s, a)
      PROVE  s = p
  <2>1. s.lo \in Int /\ s.hi \in Int /\ a \in Int /\ s.lo <= a /\ a <= s.hi
    BY <1>5, SubFacts DEF Covers, Addr
  <2>2. s \in hits
    BY <1>0, <1>1, <1>5, <2>1
  <2>3. p.lo <= s.lo
    BY <1>3, <2>2
  <2>4. s # p => s.hi < p.lo \/ p.hi < s.lo
    BY <1>4 DEF Disjoint
  <2> QED  BY <1>4, <1>5, <2>1, <2>3, <2>4
<1> QED  BY <1>4, <1>5 DEF p, hits

(* What sub-tree t knows of the addresses from lo to hi. *)
KnowsOf(found, t, lo, hi) ==
  /\ found \in SUBSET Known
  /\ \A a, v : <<a, v>> \in found
                 <=> /\ a \in lo .. hi
                     /\ \E s \in t : /\ Covers(s, a)
                                     /\ v = bytes[s.contents + (a - s.lo)]

LEMMA SubBytesIs ==
  ASSUME NEW t \in SUBSET MemorySubPayload, Disjoint(t),
         NEW lo \in Addr, NEW hi \in Addr, hi < AddrMax
  PROVE  KnowsOf(SubBytes(t, lo, hi), t, lo, hi)
<1> DEFINE Hit(l) == SubHits(t, l, hi)
           P(l) == Leftmost(Hit(l))
           Last(l) == Min2(hi, P(l).hi)
           Here(l) == Copy(P(l), Max2(l, P(l).lo), Last(l))
           Body(f, l) == IF Hit(l) = {} THEN {}
                         ELSE Here(l) \cup (IF Succ(Last(l)) <= hi
                                            THEN f[Succ(Last(l))] ELSE {})
<1>0. lo \in Int /\ hi \in Int
  BY DEF Addr
<1>1. ASSUME NEW l \in Addr, Hit(l) # {}
      PROVE  /\ P(l) \in MemorySubPayload /\ P(l) \in t
             /\ P(l).lo \in Addr /\ P(l).hi \in Addr
             /\ P(l).lo \in Int /\ P(l).hi \in Int /\ P(l).contents \in Int
             /\ l <= P(l).hi /\ P(l).lo <= hi
             /\ Last(l) \in Addr /\ Last(l) \in Int
             /\ Succ(Last(l)) = Last(l) + 1 /\ Succ(Last(l)) \in Addr
             /\ Succ(Last(l)) <= hi => l < Succ(Last(l))
             /\ Max2(l, P(l).lo) \in Addr
             /\ Here(l) \in SUBSET Known
  <2>1. P(l) \in MemorySubPayload /\ P(l) \in t /\ l <= P(l).hi /\ P(l).lo <= hi
    BY <1>1, SubHitFacts
  <2> HIDE DEF P
  <2>2. /\ P(l).lo \in Addr /\ P(l).hi \in Addr /\ P(l).contents \in Int
        /\ P(l).lo \in Int /\ P(l).hi \in Int
    BY <2>1, SubFacts
  <2>3. Last(l) \in Addr /\ Max2(l, P(l).lo) \in Addr
    BY <2>2, BoundFacts
  <2>4. /\ Last(l) \in Int /\ Last(l) <= hi
        /\ Last(l) = hi \/ Last(l) = P(l).hi
    BY <2>2, <2>3, BoundFacts DEF Addr
  <2>5. Succ(Last(l)) = Last(l) + 1 /\ Succ(Last(l)) \in Addr
    BY <1>0, <2>3, <2>4, SuccIs, SuccAddr, AddrAssumption
  <2>6. Succ(Last(l)) <= hi => l < Succ(Last(l))
    BY <1>0, <2>1, <2>2, <2>4, <2>5 DEF Addr
  <2>7. Here(l) \in SUBSET Known
    <3> HIDE DEF Last
    <3> QED  BY <2>2, <2>3, CopyIs
  <2> QED  BY <2>1, <2>2, <2>3, <2>4, <2>5, <2>6, <2>7
<1>2. \E f : f = [l \in Addr |-> Body(f, l)]
  <2> DEFINE end == {l \in Addr : Hit(l) = {} \/ ~(Succ(Last(l)) <= hi)}
             base == [l \in Addr |-> IF Hit(l) = {} THEN {} ELSE Here(l)]
             step == [l \in Addr |-> IF l \in end THEN [x \in SUBSET Known |-> x]
                                    ELSE [x \in SUBSET Known |-> Here(l) \cup x]]
             next == [l \in Addr |-> IF l \in end THEN l ELSE Succ(Last(l))]
  <2>1. base \in [Addr -> SUBSET Known]
    <3> HIDE DEF Hit, Here, Last, P
    <3> QED  BY <1>1
  <2>2. ASSUME NEW l \in Addr, l \notin end
        PROVE  /\ Hit(l) # {} /\ Here(l) \in SUBSET Known
               /\ Succ(Last(l)) \in Addr /\ l < Succ(Last(l))
    <3> HIDE DEF Hit, Here, Last, P
    <3> QED  BY <1>1, <2>2
  <2>3. step \in [Addr -> [SUBSET Known -> SUBSET Known]]
    <3> HIDE DEF Hit, Here, Last, P, end
    <3> SUFFICES ASSUME NEW l \in Addr
                 PROVE  step[l] \in [SUBSET Known -> SUBSET Known]
      OBVIOUS
    <3>1. CASE l \in end
      BY <3>1
    <3>2. CASE l \notin end
      <4>1. Here(l) \in SUBSET Known
        BY <2>2, <3>2
      <4> QED  BY <3>2, <4>1
    <3> QED  BY <3>1, <3>2
  <2>4. next \in [Addr -> Addr] /\ \A l \in Addr \ end : l < next[l]
    <3> HIDE DEF Hit, Here, Last, P, end
    <3> QED  BY <2>2
  <2>a. Ahead(end, next)
    <3> HIDE DEF end, next
    <3> QED  BY <2>4 DEF Ahead
  <2>5. end \in SUBSET Addr
    OBVIOUS
  <2>6. PICK f \in [Addr -> SUBSET Known] :
          \A l \in Addr : f[l] = IF l \in end THEN base[l]
                                 ELSE step[l][f[next[l]]]
    <3> DEFINE X == SUBSET Known
    <3>1. base \in [Addr -> X] /\ step \in [Addr -> [X -> X]]
      BY <2>1, <2>3
    <3> HIDE DEF end, base, step, next, X
    <3>2. \E f \in [Addr -> X] : Recurs(f, end, base, step, next)
      BY <2>5, <2>a, <3>1, RecursionUp
    <3> QED  BY <3>2 DEF X, Recurs
  <2>7. ASSUME NEW l \in Addr
        PROVE  f[l] = Body(f, l)
    <3>1. CASE l \in end
      <4>1. f[l] = IF Hit(l) = {} THEN {} ELSE Here(l)
        BY <2>6, <3>1
      <4> QED  BY <3>1, <4>1
    <3>2. CASE l \notin end
      <4>1. Succ(Last(l)) \in Addr /\ Hit(l) # {} /\ Succ(Last(l)) <= hi
        <5> HIDE DEF Hit, Last
        <5> QED  BY <2>2, <3>2
      <4>2. f[Succ(Last(l))] \in SUBSET Known
        BY <4>1
      <4>3. f[l] = Here(l) \cup f[Succ(Last(l))]
        <5> HIDE DEF Hit, Last, Here
        <5>1. f[l] = step[l][f[next[l]]]
          <6> HIDE DEF end, step, next
          <6> QED  BY <2>6, <3>2
        <5>2. next[l] = Succ(Last(l))
          BY <3>2
        <5> QED  BY <3>2, <4>2, <5>1, <5>2
      <4> HIDE DEF Hit, Last, Here
      <4> QED  BY <4>1, <4>3
    <3> QED  BY <3>1, <3>2
  <2>8. f = [l \in Addr |-> Body(f, l)]
    <3> HIDE DEF Body
    <3> QED  BY <2>7
  <2> QED  BY <2>8
<1>3. PICK f : f = [l \in Addr |-> Body(f, l)] /\ SubBytes(t, lo, hi) = f[lo]
  BY <1>2 DEF SubBytes
<1>4. \A l \in Addr : f[l] = Body(f, l)
  <2> HIDE DEF Body
  <2> QED  BY <1>3
<1> DEFINE good == {l \in Addr : KnowsOf(f[l], t, l, hi)}
<1>5. ASSUME NEW l \in Addr, \A m \in Addr : l < m => m \in good
      PROVE  l \in good
  <2> SUFFICES KnowsOf(f[l], t, l, hi)
    OBVIOUS
  <2>0. l \in Int
    BY DEF Addr
  <2>1. CASE Hit(l) = {}
    <3>1. f[l] = {}
      BY <1>4, <2>1
    <3>2. ASSUME NEW a \in l .. hi, NEW s \in t, Covers(s, a)
          PROVE  FALSE
      <4>1. s.lo \in Int /\ s.hi \in Int
        BY SubFacts
      <4>2. s \in Hit(l)
        BY <1>0, <2>0, <3>2, <4>1 DEF Covers, SubHits, Overlap
      <4> QED  BY <2>1, <4>2
    <3> QED  BY <3>1, <3>2 DEF KnowsOf
  <2>2. CASE Hit(l) # {}
    <3> DEFINE p == P(l)
               rest == IF Succ(Last(l)) <= hi THEN f[Succ(Last(l))] ELSE {}
    <3>1. f[l] = Here(l) \cup rest
      BY <1>4, <2>2
    <3>2. /\ p \in MemorySubPayload /\ p \in t
          /\ p.lo \in Addr /\ p.hi \in Addr /\ p.contents \in Int
          /\ p.lo \in Int /\ p.hi \in Int
          /\ l <= p.hi /\ p.lo <= hi
          /\ Last(l) \in Addr /\ Last(l) \in Int
          /\ Succ(Last(l)) = Last(l) + 1 /\ Succ(Last(l)) \in Addr
          /\ Max2(l, p.lo) \in Addr /\ Here(l) \in SUBSET Known
      BY <1>1, <2>2
    <3>3. \A s \in t, a \in Addr :
            l <= a /\ a <= p.hi /\ a <= hi /\ Covers(s, a) => s = p
      BY <2>2, SubHitFacts
    <3>4. Last(l) = Min2(hi, p.hi) /\ Here(l) = Copy(p, Max2(l, p.lo), Last(l))
      OBVIOUS
    <3>h. \A a, v : <<a, v>> \in Here(l) <=> /\ a \in Max2(l, p.lo) .. Last(l)
                                           /\ v = bytes[p.contents + (a - p.lo)]
      <4> HIDE DEF P, Last
      <4> QED  BY <3>2, CopyIs
    <3>5. rest \in SUBSET Known /\
          \A a, v : <<a, v>> \in rest
                      <=> /\ a \in (Last(l) + 1) .. hi
                          /\ \E s \in t : /\ Covers(s, a)
                                          /\ v = bytes[s.contents + (a - s.lo)]
      <4> HIDE DEF P, Last, Here
      <4>1. CASE Succ(Last(l)) <= hi
        <5>1. l < Succ(Last(l))
          BY <1>1, <2>2, <4>1
        <5>2. Succ(Last(l)) \in good
          BY <1>5, <3>2, <5>1
        <5>3. KnowsOf(rest, t, Last(l) + 1, hi)
          BY <3>2, <4>1, <5>2
        <5> QED  BY <5>3 DEF KnowsOf
      <4>2. CASE ~(Succ(Last(l)) <= hi)
        <5>1. rest = {} /\ ~(Last(l) + 1 <= hi)
          BY <3>2, <4>2
        <5>2. (Last(l) + 1) .. hi = {}
          BY <1>0, <3>2, <5>1
        <5> QED  BY <5>1, <5>2
      <4> QED  BY <4>1, <4>2
    <3> HIDE DEF rest, Here
    <3>6. ASSUME NEW a, NEW v
          PROVE  <<a, v>> \in f[l]
                   <=> /\ a \in l .. hi
                       /\ \E s \in t : /\ Covers(s, a)
                                       /\ v = bytes[s.contents + (a - s.lo)]
      <4>1. <<a, v>> \in f[l] <=> <<a, v>> \in Here(l) \/ <<a, v>> \in rest
        BY <3>1
      <4>2. CASE a \in (Last(l) + 1) .. hi
        <5>1. ~(a \in Max2(l, p.lo) .. Last(l)) /\ a \in l .. hi
          <6> HIDE DEF P
          <6>1. Last(l) < hi => Last(l) = p.hi
            BY <1>0, <3>2, <3>4 DEF Min2
          <6>2. Max2(l, p.lo) \in Int
            BY <2>0, <3>2 DEF Max2
          <6> QED  BY <1>0, <2>0, <3>2, <4>2, <6>1, <6>2
        <5> HIDE DEF P, Last
        <5> QED  BY <3>h, <3>5, <4>1, <4>2, <5>1
      <4>3. CASE a \notin (Last(l) + 1) .. hi
        <5>1. <<a, v>> \in f[l] <=> /\ a \in Max2(l, p.lo) .. Last(l)
                                   /\ v = bytes[p.contents + (a - p.lo)]
          <6> HIDE DEF P, Last
          <6> QED  BY <3>h, <3>5, <4>1, <4>3
        <5>2. a \in l .. hi => a \in Addr /\ a \in Int /\ a <= hi /\ l <= a /\ a <= p.hi
          <6> HIDE DEF P
          <6> QED  BY <1>0, <2>0, <3>2, <4>3, AddrAssumption DEF Min2, Addr
        <5>3. a \in Max2(l, p.lo) .. Last(l) <=> a \in l .. hi /\ Covers(p, a)
          <6> HIDE DEF P
          <6>1. CASE a \in Int
            BY <1>0, <2>0, <3>2, <4>3, <6>1 DEF Min2, Max2, Covers
          <6>2. CASE a \notin Int
            <7>1. Max2(l, p.lo) \in Int
              BY <3>2 DEF Addr
            <7> QED  BY <1>0, <2>0, <3>2, <6>2, <7>1
          <6> QED  BY <6>1, <6>2
        <5> HIDE DEF P, Last
        <5> QED  BY <3>2, <3>3, <5>1, <5>2, <5>3
      <4> QED  BY <4>2, <4>3
    <3>7. f[l] \in SUBSET Known
      BY <3>1, <3>2, <3>5
    <3> QED  BY <3>6, <3>7 DEF KnowsOf
  <2> QED  BY <2>1, <2>2
<1>6. good \in SUBSET Addr
  OBVIOUS
<1> HIDE DEF good
<1>7. lo \in good
  BY <1>5, <1>6, Downward
<1> QED  BY <1>3, <1>7 DEF good

-----------------------------------------------------------------------------
(***************************************************************************)
(* getmem() and getmem_next(), of one version.                             *)
(***************************************************************************)
Solid(tree) == \A p \in tree : p.lo <= p.hi
ArenaGood ==
  /\ bytes \in Seq(Byte) /\ SubsGood(bytes, subtrees)
  /\ \A i \in DOMAIN subtrees : Solid(subtrees[i])
VersionGood(tree) ==
  /\ tree \in SUBSET MemoryPayload /\ GoodTree(tree) /\ Solid(tree)
  /\ \A p \in tree : InArena(p, bytes, DOMAIN subtrees)

LEMMA ViewIs ==
  ASSUME NEW tree
  PROVE  View(tree) = ViewIn(bytes, subtrees, tree)
BY DEF View, ViewIn, CellAt, Cell, At, ValueAt, ValueIn, SubsAt

LEMMA HitFacts ==
  ASSUME NEW tree \in SUBSET MemoryPayload, GoodTree(tree),
         NEW type \in {"r", "m"},
         NEW l \in Addr, NEW hi \in Addr, Hits(tree, type, l, hi) # {}
  PROVE  LET p == Leftmost(Hits(tree, type, l, hi))
         IN /\ p \in tree /\ p \in MemoryPayload /\ p.type = type
            /\ l <= p.hi /\ p.lo <= hi
            /\ \A q \in tree, a \in Addr :
                 /\ l <= a /\ a <= p.hi /\ a <= hi
                 /\ q.type = type /\ Covers(q, a)
                 => q = p
<1> DEFINE hits == Hits(tree, type, l, hi)
           p == Leftmost(hits)
<1>0. l \in Int /\ hi \in Int
  BY DEF Addr
<1>1. /\ hits \subseteq tree
      /\ \A s \in tree : s \in hits
                           <=> s.type = type /\ ~(s.hi < l) /\ ~(s.lo > hi)
  BY DEF Hits, Overlap
<1>2. \A q \in hits : q.lo \in Addr
  BY <1>1, PayloadFacts
<1>3. p \in hits /\ \A q \in hits : p.lo <= q.lo
  <2>1. hits # {}
    OBVIOUS
  <2> HIDE DEF hits
  <2> QED  BY <1>2, <2>1, LeftmostIn
<1> HIDE DEF hits, p
<1>4. /\ p \in tree /\ p \in MemoryPayload /\ p.lo \in Int /\ p.hi \in Int
      /\ p.type = type /\ l <= p.hi /\ p.lo <= hi
  <2>1. p \in tree /\ p \in MemoryPayload
    BY <1>1, <1>3
  <2>2. p.lo \in Int /\ p.hi \in Int
    BY <2>1, PayloadFacts
  <2> QED  BY <1>0, <1>1, <1>3, <2>1, <2>2
<1>5. ASSUME NEW q \in tree, NEW a \in Addr, l <= a, a <= p.hi, a <= hi,
             q.type = type, Covers(q, a)
      PROVE  q = p
  <2>1. q.lo \in Int /\ q.hi \in Int /\ a \in Int /\ q.lo <= a /\ a <= q.hi
    BY <1>5, PayloadFacts DEF Covers, Addr
  <2>2. q \in hits
    BY <1>0, <1>1, <1>5, <2>1
  <2>3. p.lo <= q.lo
    BY <1>3, <2>2
  <2>4. p \in InSpace(tree, type) /\ q \in InSpace(tree, type)
    BY <1>4, <1>5 DEF InSpace
  <2>5. Disjoint(InSpace(tree, type))
    BY DEF GoodTree
  <2>6. q # p => q.hi < p.lo \/ p.hi < q.lo
    BY <2>4, <2>5 DEF Disjoint
  <2> QED  BY <1>4, <1>5, <2>1, <2>3, <2>6
<1> QED  BY <1>4, <1>5 DEF p, hits

(* What the view has of the addresses from lo to hi. *)
Tells(found, view, type, lo, hi) ==
  /\ found \in SUBSET Known
  /\ \A a, v : <<a, v>> \in found
                 <=> /\ a \in lo .. hi
                     /\ v = view[<<type, a>>].value /\ v # Unknown

(* The part of the first hit, and before it, where nothing is known. *)
FirstKnown(p, l, hi) ==
  IF p.raw THEN Copy(p, Max2(l, p.lo), Min2(hi, p.hi))
  ELSE SubBytes(subtrees[p.contents], Max2(l, p.lo), Min2(hi, p.hi))

LEMMA FirstPart ==
  ASSUME ArenaGood, NEW tree, VersionGood(tree), NEW type \in {"r", "m"},
         NEW l \in Addr, NEW hi \in Addr, l <= hi,
         Hits(tree, type, l, hi) # {}
  PROVE  LET p == Leftmost(Hits(tree, type, l, hi))
             view == View(tree)
         IN \A a \in l .. Min2(hi, p.hi) :
              /\ a \in Addr
              /\ a < p.lo => view[<<type, a>>]
                               = [event |-> 0, line |-> 0, value |-> Unknown]
              /\ ~(a < p.lo) =>
                   /\ Covers(p, a)
                   /\ view[<<type, a>>] = Cell(bytes, subtrees, p, a)
<1> DEFINE p == Leftmost(Hits(tree, type, l, hi))
<1>0. l \in Int /\ hi \in Int
  BY DEF Addr
<1>1. /\ p \in tree /\ p \in MemoryPayload /\ p.type = type
      /\ l <= p.hi /\ p.lo <= hi
      /\ \A q \in tree, a \in Addr :
           l <= a /\ a <= p.hi /\ a <= hi /\ q.type = type /\ Covers(q, a)
             => q = p
  BY HitFacts DEF VersionGood
<1> HIDE DEF p
<1>2. p.lo \in Addr /\ p.hi \in Addr /\ p.lo \in Int /\ p.hi \in Int
  BY <1>1, PayloadFacts
<1> SUFFICES ASSUME NEW a \in l .. Min2(hi, p.hi)
             PROVE  /\ a \in Addr
                    /\ a < p.lo => View(tree)[<<type, a>>]
                                     = [event |-> 0, line |-> 0, value |-> Unknown]
                    /\ ~(a < p.lo) =>
                         /\ Covers(p, a)
                         /\ View(tree)[<<type, a>>]
                              = Cell(bytes, subtrees, p, a)
  BY DEF p
<1>3. a \in Addr /\ a \in Int /\ l <= a /\ a <= hi /\ a <= p.hi
  BY <1>0, <1>2, AddrAssumption DEF Min2, Addr
<1>4. CASE a < p.lo
  <2>1. ASSUME NEW q \in At(tree, type, a)
        PROVE  FALSE
    <3>1. q \in tree /\ q.type = type /\ Covers(q, a)
      BY DEF At
    <3>2. q = p
      BY <1>1, <1>3, <3>1
    <3> QED  BY <1>2, <1>3, <1>4, <3>1, <3>2 DEF Covers
  <2>2. <<type, a>> \in Bytes /\ <<type, a>>[1] = type /\ <<type, a>>[2] = a
    BY <1>3 DEF Bytes
  <2>3. At(tree, <<type, a>>[1], <<type, a>>[2]) = {}
    BY <2>1, <2>2
  <2> QED  BY <1>3, <1>4, <2>2, <2>3, CellOfNone, ViewIs
<1>5. CASE ~(a < p.lo)
  <2>1. Covers(p, a)
    BY <1>2, <1>3, <1>5 DEF Covers
  <2>2. View(tree)[<<type, a>>] = Cell(bytes, subtrees, p, a)
    BY <1>1, <1>3, <2>1, CellOf, ViewIs DEF VersionGood
  <2> QED  BY <1>3, <1>5, <2>1, <2>2
<1> QED  BY <1>4, <1>5

(* What a byte of a known interval is, and of one that is partly known. *)
LEMMA RawValue ==
  ASSUME ArenaGood, NEW p \in MemoryPayload, p.raw,
         InArena(p, bytes, DOMAIN subtrees), NEW a \in Addr, Covers(p, a)
  PROVE  /\ ValueIn(bytes, subtrees, p, a) = bytes[p.contents + (a - p.lo)]
         /\ ValueIn(bytes, subtrees, p, a) # Unknown
<1>1. a \in p.lo .. p.hi
  BY PayloadFacts DEF Covers, Addr
<1>2. p.contents + (a - p.lo) \in DOMAIN bytes
  BY <1>1 DEF InArena
<1>3. bytes[p.contents + (a - p.lo)] \in Byte
  BY <1>2 DEF ArenaGood
<1> QED  BY <1>3, ValueOfRaw, UnknownAssumption

LEMMA SubTreeGood ==
  ASSUME ArenaGood, NEW p \in MemoryPayload, ~p.raw,
         InArena(p, bytes, DOMAIN subtrees)
  PROVE  LET t == subtrees[p.contents]
         IN /\ t \in SUBSET MemorySubPayload /\ Disjoint(t) /\ Solid(t)
            /\ \A s \in t : SubInArena(s, bytes)
<1>1. p.contents \in DOMAIN subtrees
  BY DEF InArena
<1> QED  BY <1>1 DEF ArenaGood, SubsGood

LEMMA SubValue ==
  ASSUME ArenaGood, NEW p \in MemoryPayload, ~p.raw,
         InArena(p, bytes, DOMAIN subtrees), NEW a \in Addr
  PROVE  /\ \A s \in subtrees[p.contents] :
              Covers(s, a) =>
                /\ ValueIn(bytes, subtrees, p, a) = bytes[s.contents + (a - s.lo)]
                /\ ValueIn(bytes, subtrees, p, a) # Unknown
         /\ (\A s \in subtrees[p.contents] : ~Covers(s, a))
              => ValueIn(bytes, subtrees, p, a) = Unknown
<1> DEFINE t == subtrees[p.contents]
<1>1. /\ t \in SUBSET MemorySubPayload /\ Disjoint(t)
      /\ \A s \in t : SubInArena(s, bytes)
  BY SubTreeGood
<1>2. ASSUME NEW s \in t, Covers(s, a)
      PROVE  /\ ValueIn(bytes, subtrees, p, a) = bytes[s.contents + (a - s.lo)]
             /\ ValueIn(bytes, subtrees, p, a) # Unknown
  <2>1. ValueIn(bytes, subtrees, p, a) = bytes[s.contents + (a - s.lo)]
    BY <1>1, <1>2, ValueOfSub
  <2>2. a \in s.lo .. s.hi
    BY <1>1, <1>2, SubFacts DEF Covers, Addr
  <2>3. s.contents + (a - s.lo) \in DOMAIN bytes
    BY <1>1, <2>2 DEF SubInArena
  <2>4. bytes[s.contents + (a - s.lo)] \in Byte
    BY <2>3 DEF ArenaGood
  <2> QED  BY <2>1, <2>4, UnknownAssumption
<1>3. (\A s \in t : ~Covers(s, a)) => ValueIn(bytes, subtrees, p, a) = Unknown
  BY ValueOfNone
<1> QED  BY <1>2, <1>3

LEMMA FirstKnownTells ==
  ASSUME ArenaGood, NEW tree, VersionGood(tree), NEW type \in {"r", "m"},
         NEW l \in Addr, NEW hi \in Addr, hi < AddrMax, l <= hi,
         Hits(tree, type, l, hi) # {}
  PROVE  LET p == Leftmost(Hits(tree, type, l, hi))
         IN Tells(FirstKnown(p, l, hi), View(tree), type, l, Min2(hi, p.hi))
<1> DEFINE p == Leftmost(Hits(tree, type, l, hi))
           first == Max2(l, p.lo)
           last == Min2(hi, p.hi)
           view == View(tree)
<1>0. l \in Int /\ hi \in Int
  BY DEF Addr
<1>1. /\ p \in tree /\ p \in MemoryPayload /\ l <= p.hi /\ p.lo <= hi
      /\ p.lo <= p.hi
  BY HitFacts DEF VersionGood, Solid
<1>2. \A a \in l .. last :
        /\ a \in Addr
        /\ a < p.lo => view[<<type, a>>]
                         = [event |-> 0, line |-> 0, value |-> Unknown]
        /\ ~(a < p.lo) => /\ Covers(p, a)
                          /\ view[<<type, a>>] = Cell(bytes, subtrees, p, a)
  BY FirstPart
<1> HIDE DEF p, view
<1>3. /\ p.lo \in Addr /\ p.hi \in Addr /\ p.lo \in Int /\ p.hi \in Int
      /\ p.contents \in Int /\ InArena(p, bytes, DOMAIN subtrees)
  BY <1>1, PayloadFacts DEF VersionGood
<1>4. /\ first \in Addr /\ last \in Addr /\ first \in Int /\ last \in Int
      /\ first <= last /\ last <= hi /\ last < AddrMax /\ l <= first
      /\ \A a \in Int : a \in first .. last <=> a \in l .. last /\ ~(a < p.lo)
  <2>1. /\ first \in Addr /\ last \in Addr /\ first \in Int /\ last \in Int
        /\ last <= hi /\ l <= first
    BY <1>3, BoundFacts
  <2>2. first <= last
    BY <1>0, <1>1, <1>3 DEF Min2, Max2
  <2>3. \A a \in Int : a \in first .. last <=> a \in l .. last /\ ~(a < p.lo)
    BY <1>0, <1>1, <1>3, <2>1 DEF Max2
  <2> QED  BY <1>0, <2>1, <2>2, <2>3, AddrAssumption
<1> HIDE DEF first, last
<1> SUFFICES Tells(FirstKnown(p, l, hi), view, type, l, last)
  BY DEF p, last, view
<1>5. \A a : a \in first .. last <=> a \in l .. last /\ ~(a < p.lo)
  BY <1>0, <1>4
<1>6. \A a \in first .. last :
        /\ a \in Addr /\ Covers(p, a)
        /\ view[<<type, a>>].value = ValueIn(bytes, subtrees, p, a)
  <2> SUFFICES ASSUME NEW a \in first .. last
               PROVE  /\ a \in Addr /\ Covers(p, a)
                      /\ view[<<type, a>>].value = ValueIn(bytes, subtrees, p, a)
    OBVIOUS
  <2>1. /\ a \in Addr /\ Covers(p, a)
        /\ view[<<type, a>>] = Cell(bytes, subtrees, p, a)
    BY <1>2, <1>5
  <2> QED  BY <2>1 DEF Cell
<1>7. \A a \in l .. last : a < p.lo => view[<<type, a>>].value = Unknown
  BY <1>2
<1>8. ASSUME FirstKnown(p, l, hi) \in SUBSET Known,
             \A a, v : <<a, v>> \in FirstKnown(p, l, hi)
                         <=> /\ a \in first .. last /\ v # Unknown
                             /\ v = ValueIn(bytes, subtrees, p, a)
      PROVE  Tells(FirstKnown(p, l, hi), view, type, l, last)
  <2> SUFFICES ASSUME NEW a, NEW v
               PROVE  <<a, v>> \in FirstKnown(p, l, hi)
                        <=> /\ a \in l .. last
                            /\ v = view[<<type, a>>].value /\ v # Unknown
    BY <1>8 DEF Tells
  <2>1. CASE a \in first .. last
    BY <1>5, <1>6, <1>8, <2>1
  <2>2. CASE a \notin first .. last
    BY <1>5, <1>7, <1>8, <2>2
  <2> QED  BY <2>1, <2>2
<1>10. CASE p.raw
  <2>1. FirstKnown(p, l, hi) = Copy(p, first, last)
    BY <1>10 DEF FirstKnown, first, last
  <2>2. /\ FirstKnown(p, l, hi) \in SUBSET Known
        /\ \A a, v : <<a, v>> \in FirstKnown(p, l, hi)
             <=> a \in first .. last /\ v = bytes[p.contents + (a - p.lo)]
    BY <1>3, <1>4, <2>1, CopyIs
  <2>3. ASSUME NEW a \in first .. last
        PROVE  /\ ValueIn(bytes, subtrees, p, a) = bytes[p.contents + (a - p.lo)]
               /\ ValueIn(bytes, subtrees, p, a) # Unknown
    BY <1>1, <1>3, <1>6, <1>10, RawValue
  <2> QED  BY <1>8, <2>2, <2>3
<1>11. CASE ~p.raw
  <2> DEFINE t == subtrees[p.contents]
  <2>2. /\ t \in SUBSET MemorySubPayload /\ Disjoint(t)
        /\ \A s \in t : SubInArena(s, bytes)
    BY <1>1, <1>3, <1>11, SubTreeGood
  <2>3. FirstKnown(p, l, hi) = SubBytes(t, first, last)
    BY <1>11 DEF FirstKnown, first, last
  <2>4. KnowsOf(FirstKnown(p, l, hi), t, first, last)
    BY <1>4, <2>2, <2>3, SubBytesIs
  <2>5. ASSUME NEW a \in first .. last, NEW v
        PROVE  (v # Unknown /\ v = ValueIn(bytes, subtrees, p, a))
                 <=> \E s \in t : /\ Covers(s, a)
                                  /\ v = bytes[s.contents + (a - s.lo)]
    <3>1. a \in Addr
      BY <1>6
    <3>2. /\ \A s \in t :
               Covers(s, a) =>
                 /\ ValueIn(bytes, subtrees, p, a)
                      = bytes[s.contents + (a - s.lo)]
                 /\ ValueIn(bytes, subtrees, p, a) # Unknown
          /\ (\A s \in t : ~Covers(s, a))
               => ValueIn(bytes, subtrees, p, a) = Unknown
      BY <1>1, <1>3, <1>11, <3>1, SubValue
    <3> HIDE DEF t
    <3> QED  BY <3>2
  <2> HIDE DEF t
  <2>6. FirstKnown(p, l, hi) \in SUBSET Known
    BY <2>4 DEF KnowsOf
  <2>7. ASSUME NEW a, NEW v
        PROVE  <<a, v>> \in FirstKnown(p, l, hi)
                         <=> /\ a \in first .. last /\ v # Unknown
                             /\ v = ValueIn(bytes, subtrees, p, a)
    <3>1. <<a, v>> \in FirstKnown(p, l, hi)
            <=> /\ a \in first .. last
                /\ \E s \in t : /\ Covers(s, a)
                                /\ v = bytes[s.contents + (a - s.lo)]
      BY <2>4 DEF KnowsOf
    <3> HIDE DEF FirstKnown
    <3> QED  BY <2>5, <3>1
  <2> QED  BY <1>8, <2>6, <2>7
<1> QED  BY <1>10, <1>11

-----------------------------------------------------------------------------
(***************************************************************************)
(* No interval is empty: an empty one could be found first, and its record *)
(* be taken for the last to touch the range.                               *)
(***************************************************************************)
NoneEmpty ==
  /\ Solid(memroot)
  /\ \A i \in DOMAIN saved : Solid(saved[i])
  /\ \A i \in DOMAIN subtrees : Solid(subtrees[i])

LEMMA ReplaceSolid ==
  ASSUME NEW tree \in SUBSET MemoryPayload, Solid(tree),
         NEW new \in MemoryPayload, new.lo <= new.hi
  PROVE  Solid(Replace(tree, new))
<1> SUFFICES ASSUME NEW q \in DeleteFrom(tree, new.type, new.lo, new.hi)
             PROVE  q.lo <= q.hi
  BY DEF Solid, Replace
<1>1. /\ new.lo \in Addr /\ new.hi \in Addr
      /\ new.lo \in Int /\ new.hi \in Int
  BY PayloadFacts
<1>2. PICK p \in tree :
        \/ q = p /\ Kept(p, new.type, new.lo, new.hi)
        \/ q = Below(p, new.lo) /\ CutBelow(p, new.type, new.lo, new.hi)
        \/ q = Above(p, new.hi) /\ CutAbove(p, new.type, new.lo, new.hi)
  BY <1>1, Pieces
<1>3. p \in MemoryPayload /\ p.lo \in Int /\ p.hi \in Int /\ p.lo <= p.hi
  BY PayloadFacts DEF Solid
<1>4. CASE q = p
  BY <1>3, <1>4
<1>5. CASE q = Below(p, new.lo) /\ CutBelow(p, new.type, new.lo, new.hi)
  <2>1. q.lo = p.lo /\ q.hi = new.lo - 1
    BY <1>5 DEF Below, MemoryPayload
  <2> QED  BY <1>1, <1>3, <1>5, <2>1 DEF CutBelow
<1>6. CASE q = Above(p, new.hi) /\ CutAbove(p, new.type, new.lo, new.hi)
  <2>1. q.lo = new.hi + 1 /\ q.hi = p.hi
    BY <1>6 DEF Above, MemoryPayload
  <2> QED  BY <1>1, <1>3, <1>6, <2>1 DEF CutAbove
<1> QED  BY <1>2, <1>4, <1>5, <1>6

LEMMA InitNoneEmpty == Init => NoneEmpty
BY HiAll, AddrAssumption DEF Init, NoneEmpty, Solid

LEMMA EventSolid ==
  ASSUME IInv, NoneEmpty, NEW x \in Accesses, events' = events + 1,
         NEW type \in {"r", "m"}, NEW raw \in BOOLEAN, NEW contents \in Nat,
         memroot' = Replace(memroot,
                            Interval(type, x.addr, Hi(x.addr, x.size), raw,
                                     contents))
  PROVE  Solid(memroot')
<1> DEFINE new == Interval(type, x.addr, Hi(x.addr, x.size), raw, contents)
<1>1. /\ x.addr \in Addr /\ Hi(x.addr, x.size) \in Addr
      /\ x.addr <= Hi(x.addr, x.size)
  BY EventRange
<1>2. events' \in Nat /\ prev_lineno \in Nat /\ memroot \in SUBSET MemoryPayload
  BY DEF IInv, TypeOK, prev_lineno
<1>3. new \in MemoryPayload /\ new.lo <= new.hi
  BY <1>1, <1>2 DEF Interval, MemoryPayload
<1> HIDE DEF new
<1> QED  BY <1>2, <1>3, ReplaceSolid DEF NoneEmpty, new

LEMMA AppendElements ==
  ASSUME NEW T, NEW s \in Seq(T), NEW e \in T
  PROVE  LET r == Append(s, e)
         IN \A i \in DOMAIN r : r[i] = e \/ (i \in DOMAIN s /\ r[i] = s[i])
<1> DEFINE r == Append(s, e)
<1>1. DOMAIN s = 1 .. Len(s) /\ Len(s) \in Nat
  OBVIOUS
<1>2. r = [i \in 1 .. (Len(s) + 1) |-> IF i = Len(s) + 1 THEN e ELSE s[i]]
  BY AppendIs
<1> HIDE DEF r
<1>3. \A i \in DOMAIN r : r[i] = e \/ (i \in DOMAIN s /\ r[i] = s[i])
  BY <1>1, <1>2
<1> QED  BY <1>3 DEF r

LEMMA NextNoneEmpty ==
  ASSUME IInv, NoneEmpty, [Next]_vars
  PROVE  NoneEmpty'
<1>0. /\ subtrees \in Seq(SUBSET MemorySubPayload)
      /\ saved \in Seq(SUBSET MemoryPayload)
      /\ Len(bytes) + 1 \in Nat /\ Len(subtrees) + 1 \in Nat
  BY DEF IInv, TypeOK
<1>1. CASE UNCHANGED <<subtrees, memroot, saved>>
  BY <1>1 DEF NoneEmpty
<1>2. ASSUME NEW x \in Accesses, Write(x) PROVE NoneEmpty'
  <2>1. Solid(memroot')
    <3>1. x.type \in {"r", "m"}
      BY EventRange
    <3> QED  BY <1>0, <1>2, <3>1, EventSolid DEF Write, NextEvent
  <2> QED  BY <1>2, <2>1 DEF Write, NoneEmpty
<1>3. ASSUME NEW x \in Accesses, Forget(x) PROVE NoneEmpty'
  <2>1. Solid(memroot')
    BY <1>0, <1>3, EventSolid DEF Forget, NextEvent
  <2>2. subtrees' = Append(subtrees, {}) /\ saved' = saved
    BY <1>3 DEF Forget
  <2>3. \A i \in DOMAIN subtrees' :
          \/ subtrees'[i] = {}
          \/ i \in DOMAIN subtrees /\ subtrees'[i] = subtrees[i]
    <3> DEFINE T == SUBSET MemorySubPayload
    <3>1. {} \in T /\ subtrees \in Seq(T)
      BY <1>0
    <3> HIDE DEF T
    <3> QED  BY <2>2, <3>1, AppendElements
  <2> QED  BY <2>1, <2>2, <2>3 DEF NoneEmpty, Solid
<1>4. CASE NewRecord
  <2>1. saved' = Append(saved, memroot) /\ UNCHANGED <<subtrees, memroot>>
    BY <1>4 DEF NewRecord
  <2>2. memroot \in SUBSET MemoryPayload
    BY DEF IInv, TypeOK
  <2>3. \A i \in DOMAIN saved' :
          \/ saved'[i] = memroot
          \/ i \in DOMAIN saved /\ saved'[i] = saved[i]
    <3> DEFINE T == SUBSET MemoryPayload
    <3>1. memroot \in T /\ saved \in Seq(T)
      BY <1>0, <2>2
    <3> HIDE DEF T
    <3> QED  BY <2>1, <3>1, AppendElements
  <2> QED  BY <2>1, <2>3 DEF NoneEmpty
<1>5. CASE InsertGap
  <2>1. /\ pc = "insert" /\ UNCHANGED <<memroot, saved>>
        /\ subtrees' = [subtrees EXCEPT ![subroot.offset] =
             @ \cup {[lo |-> insert.lo, hi |-> insert.hi,
                      contents |-> insert.contents]}]
    BY <1>5 DEF InsertGap, Inserted
  <2>2. insert.lo <= insert.hi
    BY <2>1 DEF IInv, ReadOK, GapOK
  <2>3. \A i \in DOMAIN subtrees' : i \in DOMAIN subtrees /\
          \A p \in subtrees'[i] : \/ p \in subtrees[i]
                                  \/ p = [lo |-> insert.lo, hi |-> insert.hi,
                                          contents |-> insert.contents]
    BY <1>0, <2>1
  <2> QED  BY <2>1, <2>2, <2>3 DEF NoneEmpty, Solid
<1>6. CASE ReadStep
  BY <1>1, <1>5, <1>6
     DEF ReadStep, EndRead, SkipKnown, EnterUnknown, FillGap, SkipFound,
         LeaveUnknown
<1> QED  BY <1>1, <1>2, <1>3, <1>4, <1>5, <1>6
         DEF Next, TraceEnds, BeginRead, vars

LEMMA StateSound ==
  ASSUME IInv, NoneEmpty
  PROVE  ArenaGood /\ \A tree \in Versions : VersionGood(tree)
BY StateGood DEF IInv, TypeOK, ArenaGood, VersionGood, NoneEmpty, Versions

-----------------------------------------------------------------------------
(* The record that touched any of it last. *)
LastLine(n, view, type, lo, hi) ==
  /\ n \in Nat
  /\ \E a \in lo .. hi : n = view[<<type, a>>].line
  /\ \A a \in lo .. hi : view[<<type, a>>].line \in 0 .. n

(* Where the search goes on after its first hit. *)
GoesOn(p, hi) == Succ(p.hi) # 0 /\ Succ(p.hi) <= hi

LEMMA GoesOnIs ==
  ASSUME NEW p \in MemoryPayload, NEW l \in Addr, NEW hi \in Addr, hi < AddrMax,
         l <= p.hi
  PROVE  /\ GoesOn(p, hi) => /\ Succ(p.hi) \in Addr /\ Succ(p.hi) = p.hi + 1
                             /\ l < Succ(p.hi) /\ Succ(p.hi) <= hi
                             /\ Min2(hi, p.hi) = p.hi
         /\ ~GoesOn(p, hi) => Min2(hi, p.hi) = hi
<1>1. p.hi \in Addr /\ p.hi \in Int /\ hi \in Int /\ l \in Int /\ p.hi >= 0
  BY PayloadFacts DEF Addr
<1>2. Succ(p.hi) = IF p.hi = AddrMax THEN 0 ELSE p.hi + 1
  BY <1>1, SuccIs
<1>3. CASE p.hi = AddrMax
  <2>1. ~GoesOn(p, hi) /\ hi <= p.hi
    BY <1>1, <1>2, <1>3 DEF GoesOn
  <2> QED  BY <1>1, <2>1 DEF Min2
<1>4. CASE p.hi # AddrMax
  <2>1. Succ(p.hi) = p.hi + 1 /\ Succ(p.hi) \in Addr
    BY <1>1, <1>2, <1>4, SuccAddr
  <2>2. GoesOn(p, hi) <=> p.hi + 1 <= hi
    BY <1>1, <2>1 DEF GoesOn
  <2> QED  BY <1>1, <2>1, <2>2 DEF Min2
<1> QED  BY <1>3, <1>4

LEMMA FirstKnownType ==
  ASSUME ArenaGood, NEW tree, VersionGood(tree), NEW type \in {"r", "m"},
         NEW l \in Addr, NEW hi \in Addr, hi < AddrMax,
         Hits(tree, type, l, hi) # {}
  PROVE  LET p == Leftmost(Hits(tree, type, l, hi))
         IN /\ p \in tree /\ p \in MemoryPayload /\ p.type = type
            /\ l <= p.hi /\ p.lo <= hi /\ p.lo <= p.hi
            /\ p.line \in Nat /\ InArena(p, bytes, DOMAIN subtrees)
            /\ FirstKnown(p, l, hi) \in SUBSET Known
<1> DEFINE p == Leftmost(Hits(tree, type, l, hi))
<1>1. /\ p \in tree /\ p \in MemoryPayload /\ p.type = type
      /\ l <= p.hi /\ p.lo <= hi
  BY HitFacts DEF VersionGood
<1> HIDE DEF p
<1>2. /\ p.lo \in Addr /\ p.hi \in Addr /\ p.lo \in Int /\ p.contents \in Int
      /\ p.line \in Nat /\ p.lo <= p.hi /\ InArena(p, bytes, DOMAIN subtrees)
  BY <1>1, PayloadFacts DEF VersionGood, Solid
<1>3. /\ Max2(l, p.lo) \in Addr /\ Min2(hi, p.hi) \in Addr
      /\ Min2(hi, p.hi) < AddrMax
  <2>1. /\ Max2(l, p.lo) \in Addr /\ Min2(hi, p.hi) \in Addr
        /\ Min2(hi, p.hi) <= hi
    BY <1>2, BoundFacts
  <2> QED  BY <2>1, AddrAssumption DEF Addr
<1>4. FirstKnown(p, l, hi) \in SUBSET Known
  <2>1. CASE p.raw
    BY <1>2, <1>3, <2>1, CopyIs DEF FirstKnown
  <2>2. CASE ~p.raw
    <3>1. /\ subtrees[p.contents] \in SUBSET MemorySubPayload
          /\ Disjoint(subtrees[p.contents])
      BY <1>1, <1>2, <2>2, SubTreeGood
    <3> QED  BY <1>3, <2>2, <3>1, SubBytesIs DEF FirstKnown, KnowsOf
  <2> QED  BY <2>1, <2>2
<1> QED  BY <1>1, <1>2, <1>4 DEF p

LEMMA FirstLine ==
  ASSUME ArenaGood, NEW tree, VersionGood(tree), NEW type \in {"r", "m"},
         NEW l \in Addr, NEW hi \in Addr, hi < AddrMax, l <= hi,
         Hits(tree, type, l, hi) # {}
  PROVE  LET p == Leftmost(Hits(tree, type, l, hi))
         IN LastLine(p.line, View(tree), type, l, Min2(hi, p.hi))
<1> DEFINE p == Leftmost(Hits(tree, type, l, hi))
           last == Min2(hi, p.hi)
<1>1. /\ p \in MemoryPayload /\ l <= p.hi /\ p.lo <= hi /\ p.lo <= p.hi
      /\ p.line \in Nat
  BY FirstKnownType
<1>2. \A a \in l .. last :
        /\ a < p.lo => View(tree)[<<type, a>>]
                         = [event |-> 0, line |-> 0, value |-> Unknown]
        /\ ~(a < p.lo) => View(tree)[<<type, a>>] = Cell(bytes, subtrees, p, a)
  BY FirstPart
<1> HIDE DEF p
<1>3. p.lo \in Int /\ p.hi \in Int /\ l \in Int /\ hi \in Int
  BY <1>1, PayloadFacts DEF Addr
<1>4. Max2(l, p.lo) \in l .. last /\ ~(Max2(l, p.lo) < p.lo)
  BY <1>1, <1>3 DEF Max2, Min2
<1> HIDE DEF last
<1>c. \A a : Cell(bytes, subtrees, p, a).line = p.line
  BY DEF Cell
<1>5. View(tree)[<<type, Max2(l, p.lo)>>].line = p.line
  BY <1>2, <1>4, <1>c
<1>6. ASSUME NEW a \in l .. last
      PROVE  View(tree)[<<type, a>>].line \in 0 .. p.line
  <2>1. CASE a < p.lo
    <3>1. View(tree)[<<type, a>>].line = 0
      BY <1>2, <2>1
    <3> QED  BY <1>1, <3>1
  <2>2. CASE ~(a < p.lo)
    <3>1. View(tree)[<<type, a>>].line = p.line
      BY <1>2, <1>c, <2>2
    <3> QED  BY <1>1, <3>1
  <2> QED  BY <2>1, <2>2
<1>7. LastLine(p.line, View(tree), type, l, last)
  BY <1>1, <1>4, <1>5, <1>6 DEF LastLine
<1> QED  BY <1>7 DEF p, last

LEMMA Join ==
  ASSUME NEW view, NEW type, NEW l \in Int, NEW m \in Int, NEW hi \in Int,
         l <= m, m <= hi, NEW A, NEW B, Tells(A, view, type, l, m),
         Tells(B, view, type, m + 1, hi), NEW n, LastLine(n, view, type, l, m),
         NEW k, LastLine(k, view, type, m + 1, hi)
  PROVE  /\ Tells(A \cup B, view, type, l, hi)
         /\ LastLine(Max2(n, k), view, type, l, hi)
<1>1. \A a : a \in l .. hi <=> a \in l .. m \/ a \in (m + 1) .. hi
  OBVIOUS
<1>2. Tells(A \cup B, view, type, l, hi)
  BY <1>1 DEF Tells
<1>3. n \in Nat /\ k \in Nat
  BY DEF LastLine
<1>4. Max2(n, k) \in Nat /\ Max2(n, k) \in {n, k}
  BY <1>3 DEF Max2
<1>5. \E a \in l .. hi : Max2(n, k) = view[<<type, a>>].line
  BY <1>1, <1>4 DEF LastLine
<1>6. ASSUME NEW a \in l .. hi
      PROVE  view[<<type, a>>].line \in 0 .. Max2(n, k)
  <2>1. CASE a \in l .. m
    <3>2. view[<<type, a>>].line \in 0 .. n
      BY <2>1 DEF LastLine
    <3> QED  BY <1>3, <3>2 DEF Max2
  <2>2. CASE a \in (m + 1) .. hi
    <3>2. view[<<type, a>>].line \in 0 .. k
      BY <2>2 DEF LastLine
    <3> QED  BY <1>3, <3>2 DEF Max2
  <2> QED  BY <1>1, <2>1, <2>2
<1> QED  BY <1>2, <1>4, <1>5, <1>6 DEF LastLine

LEMMA GetMemIs ==
  ASSUME ArenaGood, NEW tree, VersionGood(tree), NEW type \in {"r", "m"},
         NEW lo \in Addr, NEW hi \in Addr, hi < AddrMax, lo <= hi
  PROVE  LET got == GetMem(tree, type, lo, hi)
         IN /\ Tells(got.known, View(tree), type, lo, hi)
            /\ LastLine(got.line, View(tree), type, lo, hi)
<1> DEFINE view == View(tree)
           Hit(l) == Hits(tree, type, l, hi)
           P(l) == Leftmost(Hit(l))
           None0 == [known |-> {}, line |-> 0]
           Rest(f, l) == IF GoesOn(P(l), hi) THEN f[Succ(P(l).hi)] ELSE None0
           With(p, l, rest) == [known |-> FirstKnown(p, l, hi) \cup rest.known,
                                line |-> Max2(p.line, rest.line)]
           Body(f, l) == IF Hit(l) = {} THEN None0
                         ELSE With(P(l), l, Rest(f, l))
           X == [known : SUBSET Known, line : Nat]
<1>0. lo \in Int /\ hi \in Int
  BY DEF Addr
<1>1. ASSUME NEW l \in Addr, Hit(l) # {}
      PROVE  /\ P(l) \in tree /\ P(l) \in MemoryPayload
             /\ l <= P(l).hi /\ P(l).line \in Nat
             /\ FirstKnown(P(l), l, hi) \in SUBSET Known
             /\ GoesOn(P(l), hi) => /\ Succ(P(l).hi) \in Addr
                                    /\ Succ(P(l).hi) = P(l).hi + 1
                                    /\ l < Succ(P(l).hi) /\ Succ(P(l).hi) <= hi
                                    /\ Min2(hi, P(l).hi) = P(l).hi
             /\ ~GoesOn(P(l), hi) => Min2(hi, P(l).hi) = hi
  <2>1. /\ P(l) \in tree /\ P(l) \in MemoryPayload
        /\ l <= P(l).hi /\ P(l).line \in Nat
        /\ FirstKnown(P(l), l, hi) \in SUBSET Known
    BY <1>1, FirstKnownType
  <2> HIDE DEF P
  <2> QED  BY <2>1, GoesOnIs
<1>2. None0 \in X
  OBVIOUS
<1>3. ASSUME NEW l \in Addr, Hit(l) # {}, NEW x \in X
      PROVE  With(P(l), l, x) \in X
  <2>1. FirstKnown(P(l), l, hi) \in SUBSET Known /\ P(l).line \in Nat
    BY <1>1, <1>3
  <2> HIDE DEF P
  <2>2. Max2(P(l).line, x.line) \in Nat
    BY <2>1 DEF Max2
  <2> QED  BY <2>1, <2>2
<1>4. \E f : f = [l \in Addr |-> Body(f, l)]
  <2> DEFINE end == {l \in Addr : Hit(l) = {} \/ ~GoesOn(P(l), hi)}
             base == [l \in Addr |-> IF Hit(l) = {} THEN None0
                                     ELSE With(P(l), l, None0)]
             step == [l \in Addr |-> [x \in X |-> IF l \in end THEN x
                                                  ELSE With(P(l), l, x)]]
             next == [l \in Addr |-> IF l \in end THEN l ELSE Succ(P(l).hi)]
  <2>1. base \in [Addr -> X]
    <3> HIDE DEF Hit, P, With, X, None0
    <3> QED  BY <1>2, <1>3
  <2>2. step \in [Addr -> [X -> X]]
    <3> HIDE DEF Hit, P, With, X, None0
    <3> QED  BY <1>2, <1>3
  <2>3. Ahead(end, next)
    <3> HIDE DEF Hit, P
    <3> QED  BY <1>1 DEF Ahead
  <2>4. end \in SUBSET Addr
    OBVIOUS
  <2>5. PICK f \in [Addr -> X] : Recurs(f, end, base, step, next)
    <3> HIDE DEF end, base, step, next, X
    <3> QED  BY <2>1, <2>2, <2>3, <2>4, RecursionUp
  <2>6. ASSUME NEW l \in Addr
        PROVE  f[l] = Body(f, l)
    <3> HIDE DEF Hit, P, With, X, None0
    <3>1. f[l] = IF l \in end THEN base[l] ELSE step[l][f[next[l]]]
      BY <2>5 DEF Recurs
    <3>2. CASE l \in end
      <4>1. f[l] = base[l]
        BY <3>1, <3>2
      <4> QED  BY <3>2, <4>1
    <3>3. CASE l \notin end
      <4>1. Succ(P(l).hi) \in Addr /\ Hit(l) # {} /\ GoesOn(P(l), hi)
        BY <1>1, <3>3
      <4>2. f[Succ(P(l).hi)] \in X
        BY <4>1
      <4>3. f[l] = step[l][f[Succ(P(l).hi)]]
        BY <3>1, <3>3
      <4>4. f[l] = With(P(l), l, f[Succ(P(l).hi)])
        BY <3>3, <4>2, <4>3
      <4> QED  BY <4>1, <4>4
    <3> QED  BY <3>2, <3>3
  <2>7. f = [l \in Addr |-> Body(f, l)]
    <3> HIDE DEF Body
    <3> QED  BY <2>6
  <2> QED  BY <2>7
<1>5. PICK f : /\ f = [l \in Addr |-> Body(f, l)]
               /\ GetMem(tree, type, lo, hi) = f[lo]
  BY <1>4 DEF GetMem, GoesOn, FirstKnown
<1>6. \A l \in Addr : f[l] = Body(f, l)
  <2> HIDE DEF Body
  <2> QED  BY <1>5
<1> DEFINE Right(l) == /\ Tells(f[l].known, view, type, l, hi)
                       /\ LastLine(f[l].line, view, type, l, hi)
           good == {l \in Addr : l <= hi => Right(l)}
<1>7. ASSUME NEW l \in Addr, \A m \in Addr : l < m => m \in good
      PROVE  l \in good
  <2> SUFFICES ASSUME l <= hi PROVE Right(l)
    OBVIOUS
  <2>0. l \in Int
    BY DEF Addr
  <2>1. CASE Hit(l) = {}
    <3>1. f[l].known = {} /\ f[l].line = 0
      <4>1. f[l] = None0
        <5> HIDE DEF Hit, With, Rest, None0
        <5> QED  BY <1>6, <2>1
      <4> QED  BY <4>1
    <3>2. ASSUME NEW a \in l .. hi
          PROVE  view[<<type, a>>] = [event |-> 0, line |-> 0, value |-> Unknown]
      <4>1. a \in Addr /\ a \in Int /\ l <= a /\ a <= hi
        BY <1>0, <2>0, AddrAssumption DEF Addr
      <4>2. ASSUME NEW q \in At(tree, type, a) PROVE FALSE
        <5>1. /\ q \in tree /\ q.type = type /\ Covers(q, a)
              /\ q.lo \in Int /\ q.hi \in Int
          BY PayloadFacts DEF At, VersionGood
        <5>2. q \in Hit(l)
          BY <1>0, <2>0, <4>1, <5>1 DEF Covers, Hits, Overlap
        <5> QED  BY <2>1, <5>2
      <4>3. <<type, a>> \in Bytes /\ <<type, a>>[1] = type /\ <<type, a>>[2] = a
        BY <4>1 DEF Bytes
      <4>4. At(tree, <<type, a>>[1], <<type, a>>[2]) = {}
        BY <4>2, <4>3
      <4> QED  BY <4>3, <4>4, CellOfNone, ViewIs
    <3>3. \A a \in l .. hi : /\ view[<<type, a>>].value = Unknown
                             /\ view[<<type, a>>].line = 0
      BY <3>2
    <3> HIDE DEF view
    <3>4. Tells({}, view, type, l, hi)
      BY <3>3 DEF Tells
    <3>5. l \in l .. hi
      BY <1>0, <2>0
    <3>6. LastLine(0, view, type, l, hi)
      BY <3>3, <3>5 DEF LastLine
    <3> QED  BY <3>1, <3>4, <3>6
  <2>2. CASE Hit(l) # {}
    <3> DEFINE last == Min2(hi, P(l).hi)
               first == FirstKnown(P(l), l, hi)
    <3>1. Tells(first, view, type, l, last) /\ LastLine(P(l).line, view, type, l, last)
      BY <2>2, FirstKnownTells, FirstLine
    <3>2. f[l] = With(P(l), l, Rest(f, l))
      BY <1>6, <2>2
    <3>3. /\ f[l].known = first \cup Rest(f, l).known
          /\ f[l].line = Max2(P(l).line, Rest(f, l).line)
      <4> HIDE DEF Rest, P
      <4> QED  BY <3>2
    <3>4. CASE GoesOn(P(l), hi)
      <4>1. /\ Rest(f, l) = f[last + 1] /\ last + 1 \in Addr /\ l < last + 1
            /\ last + 1 <= hi /\ last \in Int
        <5>1. /\ P(l).hi \in Int /\ Succ(P(l).hi) \in Addr
              /\ Succ(P(l).hi) = P(l).hi + 1
              /\ l < Succ(P(l).hi) /\ Succ(P(l).hi) <= hi /\ last = P(l).hi
          BY <1>1, <2>2, <3>4, PayloadFacts
        <5> HIDE DEF P, last
        <5> QED  BY <3>4, <5>1
      <4>2. last + 1 \in good
        BY <1>7, <4>1
      <4> HIDE DEF last, first, P, Rest
      <4>3. /\ Tells(f[last + 1].known, view, type, last + 1, hi)
            /\ LastLine(f[last + 1].line, view, type, last + 1, hi)
        BY <4>1, <4>2
      <4>4. l <= last /\ last <= hi
        BY <1>0, <2>0, <4>1
      <4> QED  BY <1>0, <2>0, <3>1, <3>3, <4>1, <4>3, <4>4, Join
    <3>5. CASE ~GoesOn(P(l), hi)
      <4>1. Rest(f, l).known = {} /\ Rest(f, l).line = 0
        BY <3>5
      <4>2. last = hi /\ P(l).line \in Nat
        BY <1>1, <2>2, <3>5
      <4> HIDE DEF last, first, P, Rest
      <4>3. f[l].known = first /\ f[l].line = P(l).line
        BY <3>3, <4>1, <4>2 DEF Max2
      <4> QED  BY <3>1, <4>2, <4>3
    <3> QED  BY <3>4, <3>5
  <2> QED  BY <2>1, <2>2
<1>8. good \in SUBSET Addr
  OBVIOUS
<1> HIDE DEF good
<1>9. lo \in good
  BY <1>7, <1>8, Downward
<1> QED  BY <1>5, <1>9 DEF good

-----------------------------------------------------------------------------
(* The first known bytes in one piece, and the record that touched them;   *)
(* or nothing, if nothing is known.                                        *)
KnownAt(view, type, a) == view[<<type, a>>].value # Unknown

Stretch(got, view, type, lo, hi) ==
  /\ (\A a \in lo .. hi : ~KnownAt(view, type, a)) => got = NoStretch
  /\ (\E a \in lo .. hi : KnownAt(view, type, a)) => got.known # {}
  /\ got.known \in SUBSET Known
  /\ \A a, v : <<a, v>> \in got.known =>
       /\ a \in lo .. hi /\ KnownAt(view, type, a)
       /\ v = view[<<type, a>>].value /\ got.line = view[<<type, a>>].line
       /\ \A b \in lo .. hi :
            b < a /\ KnownAt(view, type, b)
              => <<b, view[<<type, b>>].value>> \in got.known

(* What is found in the first hit of a search. *)
FirstFound(p, l, hi) ==
  LET first == Max2(l, p.lo)
      last == Min2(hi, p.hi)
      s == Leftmost(SubHits(subtrees[p.contents], first, last))
  IN [known |-> IF p.raw THEN Copy(p, first, last)
                ELSE Copy(s, Max2(first, s.lo), Min2(last, s.hi)),
      line |-> p.line]

FindsNone(p, l, hi) ==
  ~p.raw /\ SubHits(subtrees[p.contents], Max2(l, p.lo), Min2(hi, p.hi)) = {}

(* A piece of the interval, from where the interval's known bytes begin.   *)
LEMMA PieceIsStretch ==
  ASSUME NEW p \in MemoryPayload, NEW view, NEW type, NEW l \in Addr,
         NEW hi \in Addr, NEW n \in Addr, NEW m \in Addr,
         n <= m, l <= n, m <= hi, NEW q, q.contents \in Int, q.lo \in Int,
         \A a \in n .. m : /\ view[<<type, a>>] = Cell(bytes, subtrees, p, a)
                           /\ ValueIn(bytes, subtrees, p, a)
                                = bytes[q.contents + (a - q.lo)]
                           /\ KnownAt(view, type, a),
         \A a \in l .. m : a < n => ~KnownAt(view, type, a)
  PROVE  Stretch([known |-> Copy(q, n, m), line |-> p.line], view, type, l, hi)
<1> DEFINE found == Copy(q, n, m)
           got == [known |-> found, line |-> p.line]
<1>0. l \in Int /\ hi \in Int /\ n \in Int /\ m \in Int
  BY DEF Addr
<1>1. /\ found \in SUBSET Known
      /\ \A a, v : <<a, v>> \in found
                     <=> a \in n .. m /\ v = bytes[q.contents + (a - q.lo)]
  BY CopyIs
<1> HIDE DEF found
<1>2. got.known = found /\ got.line = p.line
  OBVIOUS
<1>3. \A a \in n .. m : /\ view[<<type, a>>].value
                            = bytes[q.contents + (a - q.lo)]
                        /\ view[<<type, a>>].line = p.line
  <2>1. \A a : /\ Cell(bytes, subtrees, p, a).line = p.line
               /\ Cell(bytes, subtrees, p, a).value
                    = ValueIn(bytes, subtrees, p, a)
    BY DEF Cell
  <2> QED  BY <2>1
<1>4. n \in n .. m /\ n \in l .. hi /\ KnownAt(view, type, n)
  <2>1. n \in n .. m /\ n \in l .. hi
    BY <1>0
  <2> QED  BY <2>1
<1>5. <<n, bytes[q.contents + (n - q.lo)]>> \in found
  BY <1>1, <1>4
<1> HIDE DEF got
<1>6. ASSUME NEW a, NEW v, <<a, v>> \in found
      PROVE  /\ a \in l .. hi /\ KnownAt(view, type, a)
             /\ v = view[<<type, a>>].value /\ got.line = view[<<type, a>>].line
             /\ \A b \in l .. hi :
                  b < a /\ KnownAt(view, type, b)
                    => <<b, view[<<type, b>>].value>> \in found
  <2>1. a \in n .. m /\ v = bytes[q.contents + (a - q.lo)]
    BY <1>1, <1>6
  <2>2. a \in l .. hi
    BY <1>0, <2>1
  <2>3. ASSUME NEW b \in l .. hi, b < a, KnownAt(view, type, b)
        PROVE  <<b, view[<<type, b>>].value>> \in found
    <3>1. b \in l .. m
      BY <1>0, <2>1, <2>3
    <3>2. b \in n .. m
      BY <1>0, <2>3, <3>1
    <3> QED  BY <1>1, <1>3, <3>2
  <2> QED  BY <1>2, <1>3, <2>1, <2>2, <2>3
<1>7. Stretch(got, view, type, l, hi)
  BY <1>1, <1>2, <1>4, <1>5, <1>6 DEF Stretch
<1> QED  BY <1>7 DEF got, found

LEMMA FirstStretch ==
  ASSUME ArenaGood, NEW tree, VersionGood(tree), NEW type \in {"r", "m"},
         NEW l \in Addr, NEW hi \in Addr, hi < AddrMax, l <= hi,
         Hits(tree, type, l, hi) # {}
  PROVE  LET p == Leftmost(Hits(tree, type, l, hi))
         IN IF FindsNone(p, l, hi)
            THEN \A a \in l .. Min2(hi, p.hi) : ~KnownAt(View(tree), type, a)
            ELSE Stretch(FirstFound(p, l, hi), View(tree), type, l, hi)
<1> DEFINE p == Leftmost(Hits(tree, type, l, hi))
           view == View(tree)
           first == Max2(l, p.lo)
           last == Min2(hi, p.hi)
           t == subtrees[p.contents]
           subs == SubHits(t, first, last)
           s == Leftmost(subs)
<1>1. /\ p \in tree /\ p \in MemoryPayload /\ l <= p.hi /\ p.lo <= hi
      /\ p.lo <= p.hi /\ InArena(p, bytes, DOMAIN subtrees)
  BY FirstKnownType
<1>2. \A a \in l .. last :
        /\ a \in Addr
        /\ a < p.lo => view[<<type, a>>]
                         = [event |-> 0, line |-> 0, value |-> Unknown]
        /\ ~(a < p.lo) => /\ Covers(p, a)
                          /\ view[<<type, a>>] = Cell(bytes, subtrees, p, a)
  BY FirstPart
<1> HIDE DEF p, view
<1>3. /\ p.lo \in Addr /\ p.hi \in Addr /\ p.lo \in Int /\ p.hi \in Int
      /\ p.contents \in Int /\ l \in Int /\ hi \in Int
  BY <1>1, PayloadFacts DEF Addr
<1>4. /\ first \in Addr /\ last \in Addr /\ first \in Int /\ last \in Int
      /\ first <= last /\ last <= hi /\ l <= first /\ p.lo <= first
      /\ \A a \in l .. last : a < first => a < p.lo
  <2>1. /\ first \in Addr /\ last \in Addr /\ first \in Int /\ last \in Int
        /\ last <= hi /\ l <= first /\ p.lo <= first
    BY <1>3, BoundFacts
  <2>2. first <= last
    BY <1>1, <1>3 DEF Min2, Max2
  <2>3. \A a \in l .. last : a < first => a < p.lo
    BY <1>3 DEF Max2
  <2> QED  BY <2>1, <2>2, <2>3
<1> HIDE DEF first, last
<1>5. \A a \in l .. last : a < p.lo => ~KnownAt(view, type, a)
  BY <1>2 DEF KnownAt
<1>6. \A a \in first .. last :
        /\ a \in l .. last /\ a \in Addr /\ a \in Int /\ ~(a < p.lo)
        /\ Covers(p, a) /\ view[<<type, a>>] = Cell(bytes, subtrees, p, a)
        /\ view[<<type, a>>].value = ValueIn(bytes, subtrees, p, a)
  <2> SUFFICES ASSUME NEW a \in first .. last
               PROVE  /\ a \in l .. last /\ a \in Addr /\ a \in Int /\ ~(a < p.lo)
                      /\ Covers(p, a)
                      /\ view[<<type, a>>] = Cell(bytes, subtrees, p, a)
                      /\ view[<<type, a>>].value = ValueIn(bytes, subtrees, p, a)
    OBVIOUS
  <2>1. a \in l .. last /\ a \in Int /\ ~(a < p.lo)
    BY <1>3, <1>4
  <2>2. /\ a \in Addr /\ Covers(p, a)
        /\ view[<<type, a>>] = Cell(bytes, subtrees, p, a)
    BY <1>2, <2>1
  <2>3. Cell(bytes, subtrees, p, a).value = ValueIn(bytes, subtrees, p, a)
    BY DEF Cell
  <2> QED  BY <2>1, <2>2, <2>3
<1> SUFFICES IF FindsNone(p, l, hi)
             THEN \A a \in l .. last : ~KnownAt(view, type, a)
             ELSE Stretch(FirstFound(p, l, hi), view, type, l, hi)
  BY DEF p, view, last
<1>7. CASE p.raw
  <2>1. ~FindsNone(p, l, hi)
    BY <1>7 DEF FindsNone
  <2>2. FirstFound(p, l, hi) = [known |-> Copy(p, first, last), line |-> p.line]
    BY <1>7 DEF FirstFound, first, last
  <2>3. \A a \in first .. last :
          /\ ValueIn(bytes, subtrees, p, a) = bytes[p.contents + (a - p.lo)]
          /\ KnownAt(view, type, a)
    BY <1>1, <1>6, <1>7, RawValue DEF KnownAt
  <2>4. \A a \in l .. last : a < first => ~KnownAt(view, type, a)
    BY <1>4, <1>5
  <2>5. Stretch([known |-> Copy(p, first, last), line |-> p.line],
                view, type, l, hi)
    BY <1>1, <1>3, <1>4, <1>6, <2>3, <2>4, PieceIsStretch
  <2> QED  BY <2>1, <2>2, <2>5
<1>8. CASE ~p.raw
  <2>1. t \in SUBSET MemorySubPayload /\ Disjoint(t) /\ Solid(t)
    BY <1>1, <1>8, SubTreeGood
  <2>2. \A a \in first .. last :
          /\ \A c \in t : Covers(c, a) =>
               /\ ValueIn(bytes, subtrees, p, a) = bytes[c.contents + (a - c.lo)]
               /\ KnownAt(view, type, a)
          /\ (\A c \in t : ~Covers(c, a)) => ~KnownAt(view, type, a)
    BY <1>1, <1>6, <1>8, SubValue DEF KnownAt
  <2>3. FindsNone(p, l, hi) <=> subs = {}
    BY <1>8 DEF FindsNone, first, last
  <2>4. CASE subs = {}
    <3>1. ASSUME NEW a \in first .. last, NEW c \in t, Covers(c, a)
          PROVE  FALSE
      <4>1. c.lo \in Int /\ c.hi \in Int
        BY <2>1, SubFacts
      <4>2. c \in subs
        BY <1>4, <3>1, <4>1 DEF Covers, SubHits, Overlap
      <4> QED  BY <2>4, <4>2
    <3>2. \A a \in first .. last : ~KnownAt(view, type, a)
      BY <2>2, <3>1
    <3>3. \A a \in l .. last : a < first \/ a \in first .. last
      BY <1>3, <1>4
    <3>4. \A a \in l .. last : ~KnownAt(view, type, a)
      BY <1>4, <1>5, <3>2, <3>3
    <3> QED  BY <2>3, <2>4, <3>4
  <2>5. CASE subs # {}
    <3> DEFINE n == Max2(first, s.lo)
               m == Min2(last, s.hi)
    <3>1. /\ s \in t /\ s \in MemorySubPayload /\ first <= s.hi /\ s.lo <= last
          /\ \A c \in t, a \in Addr :
               first <= a /\ a <= s.hi /\ a <= last /\ Covers(c, a) => c = s
      <4> HIDE DEF t
      <4> QED  BY <1>4, <2>1, <2>5, SubHitFacts
    <3>2. FirstFound(p, l, hi) = [known |-> Copy(s, n, m), line |-> p.line]
      BY <1>8 DEF FirstFound, first, last
    <3> HIDE DEF t, subs, s
    <3>3. /\ s.lo \in Addr /\ s.hi \in Addr /\ s.lo \in Int /\ s.hi \in Int
          /\ s.contents \in Int /\ s.lo <= s.hi
      BY <2>1, <3>1, SubFacts DEF Solid
    <3>4. /\ n \in Addr /\ m \in Addr /\ n \in Int /\ m \in Int
          /\ first <= n /\ m <= last /\ m <= s.hi /\ n \in {first, s.lo}
      BY <1>4, <3>3, BoundFacts
    <3>5. n <= m
      BY <1>4, <3>1, <3>3 DEF Max2, Min2
    <3>6. s.lo <= n
      BY <1>4, <3>3, BoundFacts
    <3> HIDE DEF n, m
    <3>7. \A a \in n .. m :
            /\ view[<<type, a>>] = Cell(bytes, subtrees, p, a)
            /\ ValueIn(bytes, subtrees, p, a) = bytes[s.contents + (a - s.lo)]
            /\ KnownAt(view, type, a)
      <4> SUFFICES ASSUME NEW a \in n .. m
                   PROVE  /\ view[<<type, a>>] = Cell(bytes, subtrees, p, a)
                          /\ ValueIn(bytes, subtrees, p, a)
                               = bytes[s.contents + (a - s.lo)]
                          /\ KnownAt(view, type, a)
        OBVIOUS
      <4>1. a \in first .. last /\ s.lo <= a /\ a <= s.hi
        BY <1>4, <3>3, <3>4, <3>6
      <4> QED  BY <1>6, <2>2, <3>1, <4>1 DEF Covers
    <3>8. ASSUME NEW a \in l .. m, a < n
          PROVE  ~KnownAt(view, type, a)
      <4>1. a \in Int /\ l <= a /\ a <= last /\ a <= s.hi
        BY <1>3, <1>4, <3>3, <3>4, <3>8
      <4>2. CASE a < first
        BY <1>3, <1>4, <1>5, <4>1, <4>2
      <4>3. CASE ~(a < first)
        <5>0. a \in first .. last
          BY <1>4, <4>1, <4>3
        <5>1. a \in first .. last /\ a \in Addr
          BY <1>6, <5>0
        <5>2. a < s.lo
          BY <3>4, <3>8, <4>3
        <5>3. ASSUME NEW c \in t, Covers(c, a)
              PROVE  FALSE
          <6>1. c = s
            BY <3>1, <4>1, <4>3, <5>1, <5>3
          <6> QED  BY <3>3, <4>1, <5>2, <5>3, <6>1 DEF Covers
        <5> QED  BY <2>2, <5>1, <5>3
      <4> QED  BY <4>2, <4>3
    <3>9. l <= n /\ m <= hi
      BY <1>3, <1>4, <3>4
    <3>10. Stretch([known |-> Copy(s, n, m), line |-> p.line], view, type, l, hi)
      BY <1>1, <3>3, <3>4, <3>5, <3>7, <3>8, <3>9, PieceIsStretch
    <3>11. ~FindsNone(p, l, hi)
      BY <2>3, <2>5
    <3>12. FirstFound(p, l, hi) = [known |-> Copy(s, n, m), line |-> p.line]
      BY <3>2 DEF n, m
    <3> QED  BY <3>10, <3>11, <3>12
  <2> QED  BY <2>4, <2>5
<1> QED  BY <1>7, <1>8

LEMMA GetMemNextIs ==
  ASSUME ArenaGood, NEW tree, VersionGood(tree), NEW type \in {"r", "m"},
         NEW lo \in Addr, NEW hi \in Addr, hi < AddrMax, lo <= hi
  PROVE  Stretch(GetMemNext(tree, type, lo, hi), View(tree), type, lo, hi)
<1> DEFINE view == View(tree)
           Hit(l) == Hits(tree, type, l, hi)
           P(l) == Leftmost(Hit(l))
           Body(f, l) == IF Hit(l) = {} THEN NoStretch
                         ELSE IF ~FindsNone(P(l), l, hi)
                         THEN FirstFound(P(l), l, hi)
                         ELSE IF GoesOn(P(l), hi) THEN f[Succ(P(l).hi)]
                         ELSE NoStretch
           end == {l \in Addr : \/ Hit(l) = {} \/ ~FindsNone(P(l), l, hi)
                                \/ ~GoesOn(P(l), hi)}
           base == [l \in Addr |-> IF Hit(l) = {} THEN NoStretch
                                   ELSE IF ~FindsNone(P(l), l, hi)
                                   THEN FirstFound(P(l), l, hi) ELSE NoStretch]
           X == {base[l] : l \in Addr}
           step == [l \in Addr |-> [x \in X |-> x]]
           next == [l \in Addr |-> IF l \in end THEN l ELSE Succ(P(l).hi)]
<1>0. lo \in Int /\ hi \in Int
  BY DEF Addr
<1>1. ASSUME NEW l \in Addr, Hit(l) # {}
      PROVE  /\ P(l) \in MemoryPayload
             /\ l <= P(l).hi
             /\ GoesOn(P(l), hi) => /\ Succ(P(l).hi) \in Addr
                                    /\ Succ(P(l).hi) = P(l).hi + 1
                                    /\ l < Succ(P(l).hi) /\ Succ(P(l).hi) <= hi
                                    /\ Min2(hi, P(l).hi) = P(l).hi
             /\ ~GoesOn(P(l), hi) => Min2(hi, P(l).hi) = hi
  <2>1. P(l) \in MemoryPayload /\ l <= P(l).hi
    BY <1>1, FirstKnownType
  <2> HIDE DEF P
  <2> QED  BY <2>1, GoesOnIs
<1>2. \E f : f = [l \in Addr |-> Body(f, l)]
  <2>1. base \in [Addr -> X]
    <3> HIDE DEF base
    <3>1. base = [l \in Addr |-> base[l]]
      BY DEF base
    <3> QED  BY <3>1
  <2>2. step \in [Addr -> [X -> X]]
    <3> HIDE DEF X
    <3> QED  OBVIOUS
  <2>3. Ahead(end, next)
    <3> HIDE DEF Hit, P
    <3> QED  BY <1>1 DEF Ahead
  <2>4. end \in SUBSET Addr
    OBVIOUS
  <2>5. PICK f \in [Addr -> X] : Recurs(f, end, base, step, next)
    <3> HIDE DEF end, base, step, next, X
    <3> QED  BY <2>1, <2>2, <2>3, <2>4, RecursionUp
  <2>6. ASSUME NEW l \in Addr
        PROVE  f[l] = Body(f, l)
    <3> HIDE DEF Hit, P, X
    <3>1. f[l] = IF l \in end THEN base[l] ELSE step[l][f[next[l]]]
      BY <2>5 DEF Recurs
    <3>2. CASE l \in end
      <4>1. f[l] = base[l]
        BY <3>1, <3>2
      <4> QED  BY <3>2, <4>1
    <3>3. CASE l \notin end
      <4>1. /\ Succ(P(l).hi) \in Addr /\ Hit(l) # {} /\ GoesOn(P(l), hi)
            /\ FindsNone(P(l), l, hi)
        BY <1>1, <3>3
      <4>2. f[Succ(P(l).hi)] \in X
        BY <4>1
      <4>3. f[l] = step[l][f[Succ(P(l).hi)]]
        BY <3>1, <3>3
      <4>4. f[l] = f[Succ(P(l).hi)]
        BY <4>2, <4>3
      <4> QED  BY <4>1, <4>4
    <3> QED  BY <3>2, <3>3
  <2>7. f = [l \in Addr |-> Body(f, l)]
    <3> HIDE DEF Body
    <3> QED  BY <2>6
  <2> QED  BY <2>7
<1>3. PICK f : f = [l \in Addr |-> Body(f, l)]
               /\ GetMemNext(tree, type, lo, hi) = f[lo]
  <2> DEFINE Asked(g, l) ==
        LET hits == Hits(tree, type, l, hi)
            p == Leftmost(hits)
            first == Max2(l, p.lo)
            last == Min2(hi, p.hi)
            subs == SubHits(subtrees[p.contents], first, last)
            s == Leftmost(subs)
        IN IF hits = {} THEN NoStretch
           ELSE IF p.raw
           THEN [known |-> Copy(p, first, last), line |-> p.line]
           ELSE IF subs # {}
           THEN [known |-> Copy(s, Max2(first, s.lo), Min2(last, s.hi)),
                 line |-> p.line]
           ELSE IF Succ(p.hi) # 0 /\ Succ(p.hi) <= hi
           THEN g[Succ(p.hi)]
           ELSE NoStretch
  <2>1. \A g, l : Asked(g, l) = Body(g, l)
    BY DEF FindsNone, FirstFound, GoesOn
  <2>2. GetMemNext(tree, type, lo, hi)
          = (CHOOSE g : g = [l \in Addr |-> Asked(g, l)])[lo]
    BY DEF GetMemNext
  <2> HIDE DEF Asked, Body
  <2>3. \A g : (g = [l \in Addr |-> Asked(g, l)])
                 <=> (g = [l \in Addr |-> Body(g, l)])
    BY <2>1
  <2>4. PICK g : g = [l \in Addr |-> Asked(g, l)]
    BY <1>2, <2>3
  <2> DEFINE c == CHOOSE h : h = [l \in Addr |-> Asked(h, l)]
  <2>5. c = [l \in Addr |-> Asked(c, l)]
    BY <2>4
  <2>6. c = [l \in Addr |-> Body(c, l)]
    BY <2>3, <2>5
  <2> QED  BY <2>2, <2>6
<1>4. \A l \in Addr : f[l] = Body(f, l)
  <2> HIDE DEF Body
  <2> QED  BY <1>3
<1> HIDE DEF end, base, X, step, next
<1> DEFINE good == {l \in Addr : l <= hi => Stretch(f[l], view, type, l, hi)}
<1>5. ASSUME NEW l \in Addr, \A m \in Addr : l < m => m \in good
      PROVE  l \in good
  <2> SUFFICES ASSUME l <= hi PROVE Stretch(f[l], view, type, l, hi)
    OBVIOUS
  <2>0. l \in Int
    BY DEF Addr
  <2>n. NoStretch.known = {}
    BY DEF NoStretch
  <2>1. CASE Hit(l) = {}
    <3>1. f[l] = NoStretch
      <4> HIDE DEF Hit, P
      <4> QED  BY <1>4, <2>1
    <3>2. ASSUME NEW a \in l .. hi
          PROVE  ~KnownAt(view, type, a)
      <4>1. a \in Addr /\ a \in Int /\ l <= a /\ a <= hi
        BY <1>0, <2>0, AddrAssumption DEF Addr
      <4>2. ASSUME NEW q \in At(tree, type, a) PROVE FALSE
        <5>1. /\ q \in tree /\ q.type = type /\ Covers(q, a)
              /\ q.lo \in Int /\ q.hi \in Int
          BY PayloadFacts DEF At, VersionGood
        <5>2. q \in Hit(l)
          BY <1>0, <2>0, <4>1, <5>1 DEF Covers, Hits, Overlap
        <5> QED  BY <2>1, <5>2
      <4>3. <<type, a>> \in Bytes /\ <<type, a>>[1] = type /\ <<type, a>>[2] = a
        BY <4>1 DEF Bytes
      <4>4. At(tree, <<type, a>>[1], <<type, a>>[2]) = {}
        BY <4>2, <4>3
      <4> QED  BY <4>3, <4>4, CellOfNone, ViewIs DEF KnownAt
    <3> HIDE DEF view
    <3> QED  BY <2>n, <3>1, <3>2 DEF Stretch
  <2>2. CASE Hit(l) # {} /\ ~FindsNone(P(l), l, hi)
    <3>1. f[l] = FirstFound(P(l), l, hi)
      <4> HIDE DEF Hit, P
      <4> QED  BY <1>4, <2>2
    <3>2. Stretch(FirstFound(P(l), l, hi), view, type, l, hi)
      BY <2>2, FirstStretch
    <3> HIDE DEF P, view
    <3> QED  BY <3>1, <3>2
  <2>3. CASE Hit(l) # {} /\ FindsNone(P(l), l, hi)
    <3> DEFINE last == Min2(hi, P(l).hi)
    <3>1. \A a \in l .. last : ~KnownAt(view, type, a)
      BY <2>3, FirstStretch
    <3>2. CASE GoesOn(P(l), hi)
      <4>1. /\ f[l] = f[last + 1] /\ last + 1 \in Addr /\ l < last + 1
            /\ last + 1 <= hi /\ last \in Int
        <5>1. /\ P(l).hi \in Int /\ Succ(P(l).hi) \in Addr
              /\ Succ(P(l).hi) = P(l).hi + 1
              /\ l < Succ(P(l).hi) /\ Succ(P(l).hi) <= hi /\ last = P(l).hi
          BY <1>1, <2>3, <3>2, PayloadFacts
        <5>2. f[l] = f[Succ(P(l).hi)]
          <6> HIDE DEF Hit, P
          <6> QED  BY <1>4, <2>3, <3>2
        <5> HIDE DEF P, last
        <5> QED  BY <5>1, <5>2
      <4>2. last + 1 \in good
        BY <1>5, <4>1
      <4> HIDE DEF last, P, view
      <4>3. Stretch(f[last + 1], view, type, last + 1, hi)
        BY <4>1, <4>2
      <4>4. \A a : a \in l .. hi <=> a \in l .. last \/ a \in (last + 1) .. hi
        BY <1>0, <2>0, <4>1
      <4>5. \A a \in l .. hi : KnownAt(view, type, a) => a \in (last + 1) .. hi
        BY <3>1, <4>4
      <4> QED  BY <4>1, <4>3, <4>4, <4>5 DEF Stretch
    <3>3. CASE ~GoesOn(P(l), hi)
      <4>1. f[l] = NoStretch
        <5> HIDE DEF Hit, P
        <5> QED  BY <1>4, <2>3, <3>3
      <4>2. last = hi
        BY <1>1, <2>3, <3>3
      <4> HIDE DEF last, P, view
      <4> QED  BY <2>n, <3>1, <4>1, <4>2 DEF Stretch
    <3> QED  BY <3>2, <3>3
  <2> QED  BY <2>1, <2>2, <2>3
<1>6. good \in SUBSET Addr
  OBVIOUS
<1> HIDE DEF good
<1>7. lo \in good
  BY <1>5, <1>6, Downward
<1> QED  BY <1>3, <1>7 DEF good

-----------------------------------------------------------------------------
(* All of a range is known if and only if there are as many known bytes.   *)
LEMMA AllKnown ==
  ASSUME NEW view, NEW type, NEW lo \in Addr, NEW hi \in Addr, lo <= hi,
         NEW found, Tells(found, view, type, lo, hi)
  PROVE  (Cardinality(found) = hi - lo + 1)
           <=> \A a \in lo .. hi : \E k \in found : k[1] = a
<1> DEFINE f == [k \in found |-> k[1]]
           S == lo .. hi
<1>0. lo \in Int /\ hi \in Int
  BY DEF Addr
<1>1. ASSUME NEW k \in found
      PROVE  k[1] \in S /\ k = <<k[1], view[<<type, k[1]>>].value>>
  <2>1. k \in Addr \X Contents
    BY DEF Tells, Known
  <2>2. PICK a \in Addr, v \in Contents : k = <<a, v>>
    BY <2>1
  <2>3. a \in lo .. hi /\ v = view[<<type, a>>].value
    BY <2>2 DEF Tells
  <2> QED  BY <2>2, <2>3
<1>2. f \in [found -> S]
  BY <1>1
<1>3. \A j, k \in found : f[j] = f[k] => j = k
  BY <1>1
<1>4. f \in Injection(found, S)
  BY <1>2, <1>3 DEF Injection, IsInjective
<1>5. IsFiniteSet(S) /\ Cardinality(S) = hi - lo + 1
  BY <1>0, FS_Interval
<1> HIDE DEF f, S
<1>6. Cardinality(found) = Cardinality(S) <=> f \in Surjection(found, S)
  BY <1>4, <1>5, FS_Injection
<1>7. f \in Surjection(found, S) <=> \A a \in S : \E k \in found : f[k] = a
  BY <1>2 DEF Surjection
<1>8. \A k \in found : f[k] = k[1]
  BY DEF f
<1> QED  BY <1>5, <1>6, <1>7, <1>8 DEF S

LEMMA KnownInIs ==
  ASSUME NEW view, NEW type, NEW r \in Ranges, NEW found,
         Tells(found, view, type, r[1], r[2])
  PROVE  found = KnownIn(view, type, r)
<1>1. ASSUME NEW k \in found
      PROVE  k \in KnownIn(view, type, r)
  <2>1. k \in Addr \X Contents
    BY DEF Tells, Known
  <2>2. PICK a \in Addr, v \in Contents : k = <<a, v>>
    BY <2>1
  <2>3. a \in r[1] .. r[2] /\ v = view[<<type, a>>].value /\ v # Unknown
    BY <2>2 DEF Tells
  <2> QED  BY <2>2, <2>3 DEF KnownIn
<1>2. ASSUME NEW k \in KnownIn(view, type, r)
      PROVE  k \in found
  BY DEF Tells, KnownIn
<1> QED  BY <1>1, <1>2

LEMMA RangeFacts ==
  ASSUME NEW r \in Ranges
  PROVE  /\ r[1] \in Addr /\ r[2] \in Addr /\ r[1] <= r[2] /\ r[2] < AddrMax
BY DEF Ranges

LEMMA GetMemRight ==
  ASSUME ArenaGood, NEW tree, VersionGood(tree), NEW type \in {"r", "m"},
         NEW r \in Ranges
  PROVE  GetMemExact(tree, View(tree), type, r)
<1> DEFINE view == View(tree)
           got == GetMem(tree, type, r[1], r[2])
           known == KnownIn(view, type, r)
           lines == Lines(view, type, r)
           lo == r[1]
           hi == r[2]
<1>1. lo \in Addr /\ hi \in Addr /\ lo <= hi /\ hi < AddrMax
  BY RangeFacts
<1>2. Tells(got.known, view, type, lo, hi) /\ LastLine(got.line, view, type, lo, hi)
  BY <1>1, GetMemIs
<1> HIDE DEF view, got
<1>3. got.known = known
  BY <1>2, KnownInIs
<1>4. got.line \in lines /\ \A n \in lines : n <= got.line
  <2>1. got.line \in lines
    BY <1>2 DEF LastLine, Lines
  <2>2. ASSUME NEW n \in lines PROVE n <= got.line
    <3>1. PICK a \in lo .. hi : n = view[<<type, a>>].line
      BY DEF Lines
    <3>2. n \in 0 .. got.line
      BY <1>2, <3>1 DEF LastLine
    <3> QED  BY <3>2
  <2> QED  BY <2>1, <2>2
<1>5. (Cardinality(got.known) = hi - lo + 1)
        <=> \A a \in lo .. hi : \E k \in got.known : k[1] = a
  <2> HIDE DEF lo, hi
  <2> QED  BY <1>1, <1>2, AllKnown
<1>6. ReadMemtreeValue(tree, type, lo, hi)
        = IF Cardinality(known) = hi - lo + 1 THEN known ELSE {}
  <2>1. ReadMemtreeValue(tree, type, lo, hi)
          = IF \A a \in lo .. hi : \E k \in got.known : k[1] = a
            THEN got.known ELSE {}
    BY DEF ReadMemtreeValue, got
  <2> HIDE DEF known, lo, hi
  <2> QED  BY <1>3, <1>5, <2>1
<1> QED  BY <1>3, <1>4, <1>6 DEF GetMemExact, view, got

LEMMA GetMemNextRight ==
  ASSUME ArenaGood, NEW tree, VersionGood(tree), NEW type \in {"r", "m"},
         NEW r \in Ranges
  PROVE  GetMemNextFirst(tree, View(tree), type, r)
<1> DEFINE view == View(tree)
           got == GetMemNext(tree, type, r[1], r[2])
           known == KnownIn(view, type, r)
           addrs == {k[1] : k \in got.known}
<1>1. /\ r[1] \in Addr /\ r[2] \in Addr /\ r[1] <= r[2] /\ r[2] < AddrMax
  BY RangeFacts
<1>2. Stretch(got, view, type, r[1], r[2])
  BY <1>1, GetMemNextIs
<1> HIDE DEF view, got
<1>3. ASSUME NEW k \in got.known
      PROVE  /\ k \in known /\ k[1] \in r[1] .. r[2]
             /\ view[<<type, k[1]>>].line = got.line
             /\ \A b \in r[1] .. r[2] :
                  b < k[1] /\ KnownAt(view, type, b)
                    => <<b, view[<<type, b>>].value>> \in got.known
  <2>1. k \in Addr \X Contents
    BY <1>2 DEF Stretch, Known
  <2>2. PICK a \in Addr, v \in Contents : k = <<a, v>>
    BY <2>1
  <2>3. /\ a \in r[1] .. r[2] /\ KnownAt(view, type, a)
        /\ v = view[<<type, a>>].value /\ got.line = view[<<type, a>>].line
        /\ \A b \in r[1] .. r[2] :
             b < a /\ KnownAt(view, type, b)
               => <<b, view[<<type, b>>].value>> \in got.known
    BY <1>2, <2>2 DEF Stretch
  <2> QED  BY <2>2, <2>3 DEF KnownIn, KnownAt
<1>4. ASSUME NEW j \in known
      PROVE  /\ j[1] \in r[1] .. r[2] /\ KnownAt(view, type, j[1])
             /\ j = <<j[1], view[<<type, j[1]>>].value>>
  <2>1. PICK a \in r[1] .. r[2] : /\ view[<<type, a>>].value # Unknown
                                 /\ j = <<a, view[<<type, a>>].value>>
    BY DEF KnownIn
  <2> QED  BY <2>1 DEF KnownAt
<1>5. CASE known = {}
  <2>1. ASSUME NEW a \in r[1] .. r[2], KnownAt(view, type, a)
        PROVE  FALSE
    <3>1. <<a, view[<<type, a>>].value>> \in known
      BY <2>1 DEF KnownIn, KnownAt
    <3> QED  BY <1>5, <3>1
  <2>2. got = NoStretch
    BY <1>2, <2>1 DEF Stretch
  <2> QED  BY <1>5, <2>2 DEF GetMemNextFirst, view, got
<1>6. CASE known # {}
  <2>1. PICK j \in known : TRUE
    BY <1>6
  <2>2. \E a \in r[1] .. r[2] : KnownAt(view, type, a)
    BY <1>4
  <2>3. got.known # {}
    BY <1>2, <2>2 DEF Stretch
  <2>4. got.known \subseteq known
    BY <1>3
  <2>5. \A k \in known, a \in addrs : k[1] < a => k \in got.known
    <3> SUFFICES ASSUME NEW k \in known, NEW g \in got.known, k[1] < g[1]
                 PROVE  k \in got.known
      OBVIOUS
    <3> QED  BY <1>3, <1>4
  <2>6. \A a \in addrs : view[<<type, a>>].line = got.line
    BY <1>3
  <2> QED  BY <1>6, <2>3, <2>4, <2>5, <2>6 DEF GetMemNextFirst, view, got
<1> QED  BY <1>5, <1>6

LEMMA QueriesRight ==
  ASSUME IInv, NoneEmpty
  PROVE  QueriesExact
<1> SUFFICES ASSUME NEW tree \in Versions, NEW type \in {"r", "m"},
                    NEW r \in Ranges
             PROVE  /\ GetMemExact(tree, View(tree), type, r)
                    /\ GetMemNextFirst(tree, View(tree), type, r)
  BY DEF QueriesExact
<1>1. ArenaGood /\ VersionGood(tree)
  BY StateSound
<1> QED  BY <1>1, GetMemRight, GetMemNextRight

(* Whatever version of the index is asked, and about whatever range below  *)
(* the last address, getmem() gives the bytes that are known, each as the  *)
(* byte memory has it, and the last record that touched any; getmem_next() *)
(* the first of them in one piece; and read_memtree_value() a value only   *)
(* if all of it is known.                                                  *)
THEOREM QueriesAlwaysExact == Spec => []QueriesExact
<1>1. Init => NoneEmpty
  BY InitNoneEmpty
<1>2. IInv /\ NoneEmpty /\ [Next]_vars => NoneEmpty'
  BY NextNoneEmpty
<1>3. IInv /\ NoneEmpty => QueriesExact
  BY QueriesRight
<1> QED  BY <1>1, <1>2, <1>3, Inductive, PTL DEF Spec
=============================================================================
