--------------------------- MODULE AVLDiskProofs ---------------------------
(***************************************************************************)
(* Theorems about AVLDisk for every set of keys, trees and finders, every  *)
(* number of updates and both modes: every pointer stays in the arena, no  *)
(* step writes to a committed node, and saved roots reach committed nodes  *)
(* only.                                                                   *)
(*                                                                         *)
(* The three are proved together, by one inductive invariant: IInv of      *)
(* AVLDisk.  Every action but commit() changes the heap to one it Extends, *)
(* and what an action has to add is that the offsets it passes around come *)
(* from the heap.                                                          *)
(*                                                                         *)
(* First come lemmas about the helpers of AVLHeap, for every heap: what    *)
(* they may do to it.  Extends(h, g) says that g is a well-formed heap     *)
(* with all of h's offsets, in which whatever lies below h's high-water    *)
(* mark is as it was.  Good(h, r) says the same of a returned heap, and    *)
(* that the returned node is a node of it.                                 *)
(***************************************************************************)
EXTENDS AVLDisk, TLAPS

(* The heap invariant with what hwm mode adds: nothing is ever freed. *)
HeapInv(h) ==
  /\ HeapOK(h)
  /\ ~Refcounting => h.free = <<>>

Extends(h, g) ==
  /\ HeapInv(g)
  /\ h.next <= g.next /\ g.hwm = h.hwm
  /\ ~Refcounting => \A o \in 1 .. (h.hwm - 1) : g.node[o] = h.node[o]

IsNode(n, next) == n \in Struct /\ InArena(n, next) /\ n.offset # 0

Good(h, r) == Extends(h, r.heap) /\ IsNode(r.n, r.heap.next)

-----------------------------------------------------------------------------
(* Lemmas about the helpers of AVLHeap. *)

LEMMA ExtendsRefl == ASSUME NEW h, HeapInv(h) PROVE Extends(h, h)
  BY DEF Extends, HeapInv, HeapOK

LEMMA ExtendsTrans ==
  ASSUME NEW f, NEW g, NEW h, HeapInv(f), Extends(f, g), Extends(g, h)
  PROVE  Extends(f, h)
  BY DEF Extends, HeapInv, HeapOK

(* A node struct that was in the arena still is when the arena has grown. *)
LEMMA IsNodeGrows ==
  ASSUME NEW n, NEW a \in Nat, NEW b \in Nat, a <= b, IsNode(n, a)
  PROVE  IsNode(n, b)
  BY DEF IsNode, InArena, Struct

(* get() of an offset in the arena is a node struct in the arena. *)
LEMMA GetType ==
  ASSUME NEW h, HeapInv(h), NEW o \in Nat, o < h.next
  PROVE  /\ Get(h, o) \in Struct /\ InArena(Get(h, o), h.next)
         /\ Get(h, o).offset = o
         /\ o = 0 => Get(h, o).height = 0
<1>1. CASE o = 0
  BY <1>1 DEF HeapInv, HeapOK, Get, NullNode, Struct, InArena, Key, NoKey
<1>2. CASE o # 0
  <2>1. o \in Offset(h)
    BY <1>2 DEF HeapInv, HeapOK, Offset
  <2>2. h.node[o] \in Node /\ h.node[o].lc < h.next /\ h.node[o].rc < h.next
    BY <2>1 DEF HeapInv, HeapOK
  <2> QED
    BY <1>2, <2>2 DEF Get, Struct, InArena, Node
<1> QED
  BY <1>1, <1>2

(* put() of a node struct in the arena keeps the heap well-formed and      *)
(* changes the one node.                                                   *)
LEMMA PutType ==
  ASSUME NEW h, HeapInv(h), NEW n, IsNode(n, h.next)
  PROVE  /\ HeapInv(Put(h, n))
         /\ Put(h, n).next = h.next /\ Put(h, n).hwm = h.hwm
         /\ \A o \in Offset(h) : o # n.offset => Put(h, n).node[o] = h.node[o]
<1> DEFINE rec == [lc |-> n.lc, rc |-> n.rc, height |-> n.height,
                   key |-> n.key, ann |-> n.ann]
           node == [h.node EXCEPT ![n.offset] = rec]
<1>1. rec \in Node /\ rec.lc < h.next /\ rec.rc < h.next
  BY DEF IsNode, InArena, Struct, Node
<1>2. node \in [Offset(h) -> Node]
  BY <1>1 DEF HeapInv, HeapOK
<1>3. n.offset \in Offset(h)
  BY DEF IsNode, InArena, Struct, Offset, HeapInv, HeapOK
<1>4. \A o \in Offset(h) : /\ node[o].lc < h.next /\ node[o].rc < h.next
                           /\ o # n.offset => node[o] = h.node[o]
  BY <1>1, <1>3 DEF HeapInv, HeapOK
<1>5. /\ Put(h, n).node = node /\ Put(h, n).refcount = h.refcount
      /\ Put(h, n).next = h.next /\ Put(h, n).free = h.free
      /\ Put(h, n).hwm = h.hwm
  BY DEF Put, Heap
<1> HIDE DEF rec, node
<1> QED
  BY <1>2, <1>4, <1>5 DEF HeapInv, HeapOK, Offset

(* adjust_refcount() touches refcounts only. *)
LEMMA AdjustType ==
  ASSUME NEW h, HeapInv(h), NEW o \in Nat, o < h.next, NEW adj \in Int
  PROVE  LET g == AdjustRefcount(h, o, adj)
         IN HeapInv(g) /\ g.next = h.next /\ g.hwm = h.hwm /\ g.node = h.node
<1>1. CASE ~Refcounting \/ o = 0
  <2>1. AdjustRefcount(h, o, adj) = h
    BY <1>1, Zenon DEF AdjustRefcount
  <2> QED
    BY <2>1
<1>2. CASE Refcounting /\ o # 0
  <2> DEFINE refcount == [h.refcount EXCEPT ![o] = @ + adj]
             g == AdjustRefcount(h, o, adj)
  <2>0. o \in Offset(h) /\ h.refcount \in [Offset(h) -> Int]
    BY <1>2 DEF HeapInv, HeapOK, Offset
  <2>1. refcount \in [Offset(h) -> Int]
    BY <2>0
  <2>2. /\ g.node = h.node /\ g.refcount = refcount /\ g.next = h.next
        /\ g.free = h.free /\ g.hwm = h.hwm
    BY <1>2, RefcountingAssumption DEF AdjustRefcount, Heap
  <2> HIDE DEF refcount, g
  <2>3. HeapInv(g)
    BY <1>2, <2>1, <2>2 DEF HeapInv, HeapOK, Offset
  <2> QED
    BY <2>2, <2>3 DEF g
<1> QED
  BY <1>1, <1>2

LEMMA AdjustExtends ==
  ASSUME NEW h, HeapInv(h), NEW o \in Nat, o < h.next, NEW adj \in Int
  PROVE  Extends(h, AdjustRefcount(h, o, adj))
  BY AdjustType DEF Extends, HeapInv, HeapOK

(* alloc_node() gives an offset of the arena; in hwm mode it is a new one, *)
(* above everything there was.                                             *)
LEMMA AllocType ==
  ASSUME NEW h, HeapInv(h)
  PROVE  /\ Extends(h, AllocNode(h))
         /\ AllocOffset(h) \in Nat \ {0}
         /\ AllocOffset(h) < AllocNode(h).next
         /\ ~Refcounting => AllocOffset(h) >= h.hwm
<1> DEFINE g == AllocNode(h)
<1>1. CASE h.free # <<>>
  <2>1. Refcounting
    BY <1>1 DEF HeapInv
  <2>2. /\ Head(h.free) \in Nat \ {0} /\ Head(h.free) < h.next
        /\ Tail(h.free) \in Seq(Nat \ {0})
        /\ \A i \in 1 .. Len(Tail(h.free)) : Tail(h.free)[i] < h.next
    BY <1>1 DEF HeapInv, HeapOK
  <2>a. h.refcount \in [Offset(h) -> Int] /\ Head(h.free) \in Offset(h)
    BY <2>2 DEF HeapInv, HeapOK, Offset
  <2>3. [h.refcount EXCEPT ![Head(h.free)] = 0] \in [Offset(h) -> Int]
    BY <2>a
  <2>4. /\ g.node = h.node /\ g.next = h.next /\ g.hwm = h.hwm
        /\ g.refcount = [h.refcount EXCEPT ![Head(h.free)] = 0]
        /\ g.free = Tail(h.free)
    BY <1>1 DEF AllocNode, Heap
  <2> HIDE DEF g
  <2>5. HeapInv(g)
    BY <2>1, <2>2, <2>3, <2>4 DEF HeapInv, HeapOK, Offset
  <2>6. Extends(h, g)
    BY <2>4, <2>5 DEF Extends, HeapInv, HeapOK
  <2>7. AllocOffset(h) = Head(h.free)
    BY <1>1 DEF AllocOffset
  <2> QED
    BY <2>1, <2>2, <2>4, <2>6, <2>7 DEF g
<1>2. CASE h.free = <<>>
  <2> DEFINE node == [o \in 1 .. h.next |->
                        IF o = h.next THEN BlankNode ELSE h.node[o]]
             refcount == [o \in 1 .. h.next |->
                            IF o = h.next THEN 0 ELSE h.refcount[o]]
  <2>1. /\ g.node = node /\ g.refcount = refcount /\ g.next = h.next + 1
        /\ g.free = <<>> /\ g.hwm = h.hwm
    BY <1>2 DEF AllocNode, Heap
  <2>2. h.next \in Nat \ {0} /\ Offset(h) = 1 .. (h.next - 1)
        /\ 1 .. ((h.next + 1) - 1) = 1 .. h.next
        /\ h.hwm \in 1 .. h.next
    BY DEF HeapInv, HeapOK, Offset
  <2>3. BlankNode \in Node /\ BlankNode.lc = 0 /\ BlankNode.rc = 0
    BY DEF BlankNode, Node, Key
  <2>4. \A o \in 1 .. h.next : o # h.next => o \in Offset(h)
    BY <2>2
  <2>5. node \in [1 .. h.next -> Node]
    BY <2>3, <2>4 DEF HeapInv, HeapOK
  <2>6. \A o \in 1 .. h.next : /\ node[o].lc < h.next + 1
                               /\ node[o].rc < h.next + 1
                               /\ o # h.next => node[o] = h.node[o]
    <3> SUFFICES ASSUME NEW o \in 1 .. h.next
                 PROVE  /\ node[o].lc < h.next + 1
                        /\ node[o].rc < h.next + 1
                        /\ o # h.next => node[o] = h.node[o]
      OBVIOUS
    <3>1. CASE o = h.next
      BY <3>1, <2>2, <2>3
    <3>2. CASE o # h.next
      <4>1. h.node[o] \in Node /\ h.node[o].lc < h.next /\ h.node[o].rc < h.next
        BY <3>2, <2>4 DEF HeapInv, HeapOK
      <4>2. h.node[o].lc \in Nat /\ h.node[o].rc \in Nat
        BY <4>1 DEF Node
      <4> QED
        BY <3>2, <4>1, <4>2, <2>2
    <3> QED
      BY <3>1, <3>2
  <2>7. refcount \in [1 .. h.next -> Int]
    BY <2>4 DEF HeapInv, HeapOK
  <2> HIDE DEF g, node, refcount
  <2>8. HeapInv(g)
    BY <2>1, <2>2, <2>5, <2>6, <2>7 DEF HeapInv, HeapOK, Offset
  <2>9. Extends(h, g)
    BY <2>1, <2>2, <2>6, <2>8 DEF Extends
  <2>10. AllocOffset(h) = h.next
    BY <1>2 DEF AllocOffset
  <2> QED
    BY <2>1, <2>2, <2>9, <2>10 DEF g
<1> QED
  BY <1>1, <1>2

(* Four reference count adjustments in a row. *)
LEMMA RelinkExtends ==
  ASSUME NEW h, HeapInv(h),
         NEW lc \in Nat, NEW newlc \in Nat, NEW rc \in Nat, NEW newrc \in Nat,
         lc < h.next, newlc < h.next, rc < h.next, newrc < h.next
  PROVE  /\ Extends(h, Relink(h, lc, newlc, rc, newrc))
         /\ Relink(h, lc, newlc, rc, newrc).next = h.next
<1> DEFINE a == AdjustRefcount(h, lc, -1)
           b == AdjustRefcount(a, newlc, 1)
           c == AdjustRefcount(b, rc, -1)
           d == AdjustRefcount(c, newrc, 1)
<1>1. HeapInv(a) /\ a.next = h.next /\ a.hwm = h.hwm /\ a.node = h.node
  BY AdjustType
<1> HIDE DEF a
<1>2. HeapInv(b) /\ b.next = h.next /\ b.hwm = h.hwm /\ b.node = h.node
  BY <1>1, AdjustType
<1> HIDE DEF b
<1>3. HeapInv(c) /\ c.next = h.next /\ c.hwm = h.hwm /\ c.node = h.node
  BY <1>2, AdjustType
<1> HIDE DEF c
<1>4. HeapInv(d) /\ d.next = h.next /\ d.hwm = h.hwm /\ d.node = h.node
  BY <1>3, AdjustType
<1>5. Relink(h, lc, newlc, rc, newrc) = d
  BY DEF Relink, a, b, c
<1> HIDE DEF d
<1>6. Extends(h, d)
  BY <1>4 DEF Extends, HeapInv, HeapOK
<1> QED
  BY <1>4, <1>5, <1>6

(* What rewrite() does before it links the new children in: the offset it  *)
(* will write is in the arena and, in hwm mode, not below the high-water   *)
(* mark.                                                                   *)
LEMMA CloneNodeType ==
  ASSUME NEW h, HeapInv(h), NEW n, IsNode(n, h.next), NEW forced \in BOOLEAN
  PROVE  LET g == CloneNode(h, n, forced)
             off == RewriteOffset(h, n, forced)
         IN /\ Extends(h, g)
            /\ off \in Nat \ {0} /\ off < g.next
            /\ ~Refcounting => off >= h.hwm
<1>1. n.offset \in Nat \ {0} /\ n.offset < h.next
      /\ n.lc \in Nat /\ n.lc < h.next /\ n.rc \in Nat /\ n.rc < h.next
      /\ h.next \in Nat /\ h.hwm \in Nat
  BY DEF IsNode, InArena, Struct, HeapInv, HeapOK
<1>2. CASE MustClone(h, n, forced)
  <2> DEFINE a == AllocNode(h)
             b == AdjustRefcount(a, n.lc, 1)
             c == AdjustRefcount(b, n.rc, 1)
  <2>1. /\ Extends(h, a) /\ AllocOffset(h) \in Nat \ {0}
        /\ AllocOffset(h) < a.next /\ (~Refcounting => AllocOffset(h) >= h.hwm)
    BY AllocType
  <2>2. HeapInv(a) /\ h.next <= a.next /\ a.next \in Nat
    BY <2>1 DEF Extends, HeapInv, HeapOK
  <2> HIDE DEF a
  <2>a. n.lc < a.next /\ n.rc < a.next
    BY <1>1, <2>2
  <2>3. HeapInv(b) /\ b.next = a.next /\ Extends(a, b)
    BY <1>1, <2>2, <2>a, AdjustType, AdjustExtends
  <2> HIDE DEF b
  <2>4. HeapInv(c) /\ c.next = a.next /\ Extends(b, c)
    BY <1>1, <2>a, <2>3, AdjustType, AdjustExtends
  <2>5. CloneNode(h, n, forced) = c /\ RewriteOffset(h, n, forced) = AllocOffset(h)
    BY <1>2 DEF CloneNode, RewriteOffset, a, b
  <2> HIDE DEF c
  <2>6. Extends(h, c)
    BY <2>1, <2>2, <2>3, <2>4, ExtendsTrans
  <2> QED
    BY <2>1, <2>4, <2>5, <2>6
<1>3. CASE ~MustClone(h, n, forced)
  <2>1. CloneNode(h, n, forced) = h /\ RewriteOffset(h, n, forced) = n.offset
    BY <1>3 DEF CloneNode, RewriteOffset
  <2>2. ~Refcounting => n.offset >= h.hwm
    BY <1>1, <1>3 DEF MustClone, Immutable
  <2> QED
    BY <1>1, <2>1, <2>2, ExtendsRefl
<1> QED
  BY <1>2, <1>3

(* The node struct rewrite() computes. *)
LEMMA RebuiltType ==
  ASSUME NEW h, HeapInv(h), NEW off \in Nat \ {0}, off < h.next,
         NEW key \in Key,
         NEW lc \in Nat, lc < h.next, NEW rc \in Nat, rc < h.next
  PROVE  IsNode(Rebuilt(h, off, key, lc, rc), h.next)
         /\ Rebuilt(h, off, key, lc, rc).offset = off
         /\ Rebuilt(h, off, key, lc, rc).lc = lc
         /\ Rebuilt(h, off, key, lc, rc).rc = rc
<1> DEFINE height == Max2(Get(h, lc).height, Get(h, rc).height) + 1
           ann == Get(h, lc).ann \cup {key} \cup Get(h, rc).ann
<1>1. Get(h, lc) \in Struct /\ Get(h, rc) \in Struct
  BY GetType
<1>2. height \in Nat
  BY <1>1 DEF Struct, Max2
<1>3. ann \in SUBSET Key
  BY <1>1 DEF Struct
<1>4. Rebuilt(h, off, key, lc, rc) =
        [offset |-> off, lc |-> lc, rc |-> rc, height |-> height,
         key |-> key, ann |-> ann]
  BY DEF Rebuilt
<1> HIDE DEF height, ann
<1>5. Rebuilt(h, off, key, lc, rc) \in Struct
  BY <1>2, <1>3, <1>4 DEF Struct
<1> QED
  BY <1>4, <1>5 DEF IsNode, InArena

(* rewrite() returns a node in the arena and, in hwm mode, leaves every    *)
(* committed node as it was.                                               *)
LEMMA RewriteGood ==
  ASSUME NEW h, HeapInv(h), NEW n, IsNode(n, h.next), NEW forced \in BOOLEAN,
         NEW newlc \in Nat, newlc < h.next, NEW newrc \in Nat, newrc < h.next
  PROVE  Good(h, Rewrite(h, n, newlc, newrc, forced))
<1> DEFINE c == CloneNode(h, n, forced)
           off == RewriteOffset(h, n, forced)
           g == Relink(c, n.lc, newlc, n.rc, newrc)
           new == Rebuilt(g, off, n.key, newlc, newrc)
           p == Put(g, new)
<1>1. n.lc \in Nat /\ n.lc < h.next /\ n.rc \in Nat /\ n.rc < h.next
      /\ h.next \in Nat /\ h.hwm \in Nat /\ n.key \in Key
  BY DEF IsNode, InArena, Struct, HeapInv, HeapOK
<1>2. /\ Extends(h, c) /\ off \in Nat \ {0} /\ off < c.next
      /\ ~Refcounting => off >= h.hwm
  BY CloneNodeType
<1>3. HeapInv(c) /\ h.next <= c.next /\ c.next \in Nat /\ c.hwm = h.hwm
  BY <1>2 DEF Extends, HeapInv, HeapOK
<1> HIDE DEF c, off
<1>a. n.lc < c.next /\ newlc < c.next /\ n.rc < c.next /\ newrc < c.next
  BY <1>1, <1>3
<1> HIDE DEF g, new, p
<1>4. Extends(c, g) /\ g.next = c.next
  <2>1. HeapInv(c) /\ n.lc \in Nat /\ n.rc \in Nat
    BY <1>1, <1>3
  <2>3. Extends(c, Relink(c, n.lc, newlc, n.rc, newrc))
    BY <2>1, <1>a, RelinkExtends, SMTT(30)
  <2>4. Relink(c, n.lc, newlc, n.rc, newrc).next = c.next
    BY <2>1, <1>a, RelinkExtends, SMTT(30)
  <2> QED
    BY <2>3, <2>4 DEF g
<1>5. HeapInv(g) /\ g.hwm = h.hwm
  BY <1>3, <1>4 DEF Extends
<1>6. /\ IsNode(new, g.next) /\ new.offset = off
      /\ new.lc = newlc /\ new.rc = newrc
  BY <1>1, <1>2, <1>a, <1>4, <1>5, RebuiltType DEF new
<1>7. /\ HeapInv(p) /\ p.next = g.next /\ p.hwm = g.hwm
      /\ \A o \in Offset(g) : o # off => p.node[o] = g.node[o]
  BY <1>5, <1>6, PutType DEF p
<1>8. Extends(g, p)
  <2>1. g.hwm \in 1 .. g.next /\ g.next \in Nat
    BY <1>5 DEF HeapInv, HeapOK
  <2>2. ASSUME ~Refcounting, NEW o \in 1 .. (g.hwm - 1)
        PROVE  p.node[o] = g.node[o]
    <3>1. o \in Offset(g) /\ o # off
      BY <2>1, <2>2, <1>2, <1>5 DEF Offset
    <3> QED
      BY <3>1, <1>7
  <2> QED
    BY <1>7, <2>1, <2>2 DEF Extends
<1>9. Extends(h, p)
  BY <1>2, <1>3, <1>4, <1>5, <1>8, ExtendsTrans
<1>10. /\ Rewrite(h, n, newlc, newrc, forced).heap = p
       /\ Rewrite(h, n, newlc, newrc, forced).n = new
  BY DEF Rewrite, p, new, g, c, off
<1> QED
  BY <1>6, <1>7, <1>9, <1>10 DEF Good

(* What follows from Good, in the form the lemmas below ask for. *)
LEMMA GoodFacts ==
  ASSUME NEW h, HeapInv(h), NEW r, Good(h, r)
  PROVE  /\ HeapInv(r.heap) /\ h.next <= r.heap.next
         /\ h.next \in Nat /\ r.heap.next \in Nat
         /\ IsNode(r.n, r.heap.next)
         /\ r.n.offset \in Nat /\ r.n.offset < r.heap.next
         /\ r.n.lc \in Nat /\ r.n.lc < r.heap.next
         /\ r.n.rc \in Nat /\ r.n.rc < r.heap.next
  BY DEF Good, Extends, HeapInv, HeapOK, IsNode, InArena, Struct

LEMMA NodeFacts ==
  ASSUME NEW next, NEW n, IsNode(n, next)
  PROVE  /\ n.offset \in Nat \ {0} /\ n.offset < next
         /\ n.lc \in Nat /\ n.lc < next /\ n.rc \in Nat /\ n.rc < next
  BY DEF IsNode, InArena, Struct

LEMMA GoodThen ==
  ASSUME NEW h, HeapInv(h), NEW q, Good(h, q), NEW r, Good(q.heap, r)
  PROVE  Good(h, r)
  BY ExtendsTrans DEF Good

LEMMA GetNode ==
  ASSUME NEW h, HeapInv(h), NEW o \in Nat \ {0}, o < h.next
  PROVE  IsNode(Get(h, o), h.next)
  BY GetType DEF IsNode

(* The rotations, when there is a child to rotate up. *)
LEMMA RotateLeftGood ==
  ASSUME NEW h, HeapInv(h), NEW n, IsNode(n, h.next), n.rc # 0,
         NEW m \in BOOLEAN
  PROVE  Good(h, RotateLeft(h, n, m))
<1> DEFINE rc == Get(h, n.rc)
           low == Rewrite(h, n, n.lc, rc.lc, m)
           high == Rewrite(low.heap, rc, low.n.offset, rc.rc, m)
<1>1. /\ n.lc \in Nat /\ n.lc < h.next
      /\ n.rc \in Nat \ {0} /\ n.rc < h.next
  BY NodeFacts
<1>2. IsNode(Get(h, n.rc), h.next)
  BY <1>1, GetNode
<1> HIDE DEF rc, low, high
<1>3. /\ IsNode(rc, h.next)
      /\ rc.lc \in Nat /\ rc.lc < h.next /\ rc.rc \in Nat /\ rc.rc < h.next
  BY <1>2, NodeFacts DEF rc
<1>4. Good(h, Rewrite(h, n, n.lc, rc.lc, m))
  BY <1>1, <1>3, RewriteGood
<1>5. Good(h, low)
  BY <1>4 DEF low
<1>6. /\ HeapInv(low.heap) /\ h.next <= low.heap.next
      /\ h.next \in Nat /\ low.heap.next \in Nat
      /\ low.n.offset \in Nat /\ low.n.offset < low.heap.next
  BY <1>5, GoodFacts
<1>7. IsNode(rc, low.heap.next) /\ rc.rc < low.heap.next
  BY <1>3, <1>6, IsNodeGrows
<1>8. Good(low.heap, Rewrite(low.heap, rc, low.n.offset, rc.rc, m))
  BY <1>3, <1>6, <1>7, RewriteGood
<1>9. Good(h, high)
  BY <1>5, <1>8, GoodThen DEF high
<1>10. RotateLeft(h, n, m) = high
  BY DEF RotateLeft, high, low, rc
<1> QED
  BY <1>9, <1>10

LEMMA RotateRightGood ==
  ASSUME NEW h, HeapInv(h), NEW n, IsNode(n, h.next), n.lc # 0,
         NEW m \in BOOLEAN
  PROVE  Good(h, RotateRight(h, n, m))
<1> DEFINE lc == Get(h, n.lc)
           low == Rewrite(h, n, lc.rc, n.rc, m)
           high == Rewrite(low.heap, lc, lc.lc, low.n.offset, m)
<1>1. /\ n.rc \in Nat /\ n.rc < h.next
      /\ n.lc \in Nat \ {0} /\ n.lc < h.next
  BY NodeFacts
<1>2. IsNode(Get(h, n.lc), h.next)
  BY <1>1, GetNode
<1> HIDE DEF lc, low, high
<1>3. /\ IsNode(lc, h.next)
      /\ lc.lc \in Nat /\ lc.lc < h.next /\ lc.rc \in Nat /\ lc.rc < h.next
  BY <1>2, NodeFacts DEF lc
<1>4. Good(h, Rewrite(h, n, lc.rc, n.rc, m))
  BY <1>1, <1>3, RewriteGood
<1>5. Good(h, low)
  BY <1>4 DEF low
<1>6. /\ HeapInv(low.heap) /\ h.next <= low.heap.next
      /\ h.next \in Nat /\ low.heap.next \in Nat
      /\ low.n.offset \in Nat /\ low.n.offset < low.heap.next
  BY <1>5, GoodFacts
<1>7. IsNode(lc, low.heap.next) /\ lc.lc < low.heap.next
  BY <1>3, <1>6, IsNodeGrows
<1>8. Good(low.heap, Rewrite(low.heap, lc, lc.lc, low.n.offset, m))
  BY <1>3, <1>6, <1>7, RewriteGood
<1>9. Good(h, high)
  BY <1>5, <1>8, GoodThen DEF high
<1>10. RotateRight(h, n, m) = high
  BY DEF RotateRight, high, low, lc
<1> QED
  BY <1>9, <1>10

(* Rebalancing rotates nodes that are there: a child two levels taller      *)
(* than its sibling is not the null pointer, nor is its inner child when   *)
(* that is one level taller.                                               *)
LEMMA FixLeftHeavyGood ==
  ASSUME NEW h, HeapInv(h), NEW root, IsNode(root, h.next)
  PROVE  Good(h, FixLeftHeavy(h, root))
<1> DEFINE c == Get(h, root.lc)
           k == Get(h, root.rc).height
           inner == RotateLeft(h, c, FALSE)
           linked == Rewrite(inner.heap, root, inner.n.offset, root.rc, FALSE)
           outer == RotateRight(linked.heap, linked.n, FALSE)
           single == RotateRight(h, root, FALSE)
           nofix == [heap |-> h, n |-> root]
<1>1. FixLeftHeavy(h, root) =
        IF c.height # k + 2 THEN nofix
        ELSE IF Get(h, c.rc).height = k + 1 THEN outer ELSE single
  BY DEF FixLeftHeavy
<1>2. /\ root.rc \in Nat /\ root.rc < h.next
      /\ root.lc \in Nat /\ root.lc < h.next
  BY NodeFacts
<1>3. k \in Nat
  <2>1. Get(h, root.rc) \in Struct
    BY <1>2, GetType
  <2> QED
    BY <2>1 DEF Struct
<1>4. ASSUME c.height = k + 2
      PROVE  root.lc # 0 /\ IsNode(c, h.next)
  <2>1. root.lc # 0
    <3>1. root.lc = 0 => c.height = 0
      BY <1>2, GetType
    <3> QED
      BY <3>1, <1>3, <1>4
  <2>2. IsNode(Get(h, root.lc), h.next)
    BY <2>1, <1>2, GetNode
  <2> QED
    BY <2>1, <2>2
<1> HIDE DEF c, k, inner, linked, outer, single, nofix
<1>5. Good(h, nofix)
  BY ExtendsRefl DEF Good, nofix
<1>6. ASSUME c.height = k + 2
      PROVE  Good(h, single)
  BY <1>4, <1>6, RotateRightGood DEF single
<1>7. ASSUME c.height = k + 2, Get(h, c.rc).height = k + 1
      PROVE  Good(h, outer)
  <2>1. IsNode(c, h.next) /\ c.rc \in Nat /\ c.rc < h.next
    BY <1>4, <1>7, NodeFacts
  <2>2. c.rc # 0
    <3>1. c.rc = 0 => Get(h, c.rc).height = 0
      BY <2>1, GetType
    <3> QED
      BY <3>1, <1>3, <1>7
  <2>3. Good(h, inner)
    BY <2>1, <2>2, RotateLeftGood DEF inner
  <2>4. /\ HeapInv(inner.heap) /\ h.next <= inner.heap.next
        /\ h.next \in Nat /\ inner.heap.next \in Nat
        /\ IsNode(inner.n, inner.heap.next)
    BY <2>3, GoodFacts
  <2>5. /\ inner.n.offset \in Nat /\ inner.n.offset # 0
        /\ inner.n.offset < inner.heap.next
        /\ root.rc < inner.heap.next
    BY <2>4, <1>2, NodeFacts
  <2>6. IsNode(root, inner.heap.next)
    BY <2>4, IsNodeGrows
  <2>7. Good(inner.heap, linked) /\ linked.n.lc = inner.n.offset
    <3> DEFINE g == inner.heap
               x == inner.n.offset
               y == root.rc
    <3>1. /\ HeapInv(g) /\ IsNode(root, g.next)
          /\ x \in Nat /\ x < g.next /\ y \in Nat /\ y < g.next
      BY <2>4, <2>5, <2>6, <1>2
    <3>2. linked = Rewrite(g, root, x, y, FALSE)
      BY DEF linked
    <3> HIDE DEF g, x, y
    <3>3. Good(g, Rewrite(g, root, x, y, FALSE))
      BY <3>1, RewriteGood
    <3>4. Rewrite(g, root, x, y, FALSE).n.lc = x
      BY DEF Rewrite, Rebuilt
    <3>5. Good(g, linked) /\ linked.n.lc = x
      BY <3>2, <3>3, <3>4
    <3> QED
      BY <3>5 DEF g, x
  <2>8. Good(inner.heap, linked) /\ linked.n.lc # 0
    BY <2>5, <2>7
  <2>9. HeapInv(linked.heap) /\ IsNode(linked.n, linked.heap.next)
    BY <2>4, <2>8, GoodFacts
  <2>10. Good(linked.heap, outer)
    BY <2>8, <2>9, RotateRightGood DEF outer
  <2>11. Good(inner.heap, outer)
    BY <2>4, <2>8, <2>10, GoodThen
  <2> QED
    BY <2>3, <2>11, GoodThen
<1> QED
  BY <1>1, <1>5, <1>6, <1>7

(* The mirror image. *)
LEMMA FixRightHeavyGood ==
  ASSUME NEW h, HeapInv(h), NEW root, IsNode(root, h.next)
  PROVE  Good(h, FixRightHeavy(h, root))
<1> DEFINE c == Get(h, root.rc)
           k == Get(h, root.lc).height
           inner == RotateRight(h, c, FALSE)
           linked == Rewrite(inner.heap, root, root.lc, inner.n.offset, FALSE)
           outer == RotateLeft(linked.heap, linked.n, FALSE)
           single == RotateLeft(h, root, FALSE)
           nofix == [heap |-> h, n |-> root]
<1>1. FixRightHeavy(h, root) =
        IF c.height # k + 2 THEN nofix
        ELSE IF Get(h, c.lc).height = k + 1 THEN outer ELSE single
  BY DEF FixRightHeavy
<1>2. /\ root.lc \in Nat /\ root.lc < h.next
      /\ root.rc \in Nat /\ root.rc < h.next
  BY NodeFacts
<1>3. k \in Nat
  <2>1. Get(h, root.lc) \in Struct
    BY <1>2, GetType
  <2> QED
    BY <2>1 DEF Struct
<1>4. ASSUME c.height = k + 2
      PROVE  root.rc # 0 /\ IsNode(c, h.next)
  <2>1. root.rc # 0
    <3>1. root.rc = 0 => c.height = 0
      BY <1>2, GetType
    <3> QED
      BY <3>1, <1>3, <1>4
  <2>2. IsNode(Get(h, root.rc), h.next)
    BY <2>1, <1>2, GetNode
  <2> QED
    BY <2>1, <2>2
<1> HIDE DEF c, k, inner, linked, outer, single, nofix
<1>5. Good(h, nofix)
  BY ExtendsRefl DEF Good, nofix
<1>6. ASSUME c.height = k + 2
      PROVE  Good(h, single)
  BY <1>4, <1>6, RotateLeftGood DEF single
<1>7. ASSUME c.height = k + 2, Get(h, c.lc).height = k + 1
      PROVE  Good(h, outer)
  <2>1. IsNode(c, h.next) /\ c.lc \in Nat /\ c.lc < h.next
    BY <1>4, <1>7, NodeFacts
  <2>2. c.lc # 0
    <3>1. c.lc = 0 => Get(h, c.lc).height = 0
      BY <2>1, GetType
    <3> QED
      BY <3>1, <1>3, <1>7
  <2>3. Good(h, inner)
    BY <2>1, <2>2, RotateRightGood DEF inner
  <2>4. /\ HeapInv(inner.heap) /\ h.next <= inner.heap.next
        /\ h.next \in Nat /\ inner.heap.next \in Nat
        /\ IsNode(inner.n, inner.heap.next)
    BY <2>3, GoodFacts
  <2>5. /\ inner.n.offset \in Nat /\ inner.n.offset # 0
        /\ inner.n.offset < inner.heap.next
        /\ root.lc < inner.heap.next
    BY <2>4, <1>2, NodeFacts
  <2>6. IsNode(root, inner.heap.next)
    BY <2>4, IsNodeGrows
  <2>7. Good(inner.heap, linked) /\ linked.n.rc = inner.n.offset
    <3> DEFINE g == inner.heap
               x == inner.n.offset
               y == root.lc
    <3>1. /\ HeapInv(g) /\ IsNode(root, g.next)
          /\ x \in Nat /\ x < g.next /\ y \in Nat /\ y < g.next
      BY <2>4, <2>5, <2>6, <1>2
    <3>2. linked = Rewrite(g, root, y, x, FALSE)
      BY DEF linked
    <3> HIDE DEF g, x, y
    <3>3. Good(g, Rewrite(g, root, y, x, FALSE))
      BY <3>1, RewriteGood
    <3>4. Rewrite(g, root, y, x, FALSE).n.rc = x
      BY DEF Rewrite, Rebuilt
    <3>5. Good(g, linked) /\ linked.n.rc = x
      BY <3>2, <3>3, <3>4
    <3> QED
      BY <3>5 DEF g, x
  <2>8. Good(inner.heap, linked) /\ linked.n.rc # 0
    BY <2>5, <2>7
  <2>9. HeapInv(linked.heap) /\ IsNode(linked.n, linked.heap.next)
    BY <2>4, <2>8, GoodFacts
  <2>10. Good(linked.heap, outer)
    BY <2>8, <2>9, RotateLeftGood DEF outer
  <2>11. Good(inner.heap, outer)
    BY <2>4, <2>8, <2>10, GoodThen
  <2> QED
    BY <2>3, <2>11, GoodThen
<1> QED
  BY <1>1, <1>5, <1>6, <1>7

-----------------------------------------------------------------------------
(* What each step does to the heap: it extends it, or freezes all of it.   *)
Frozen == \A o \in 1 .. (heap.hwm - 1) : heap'.node[o] = heap.node[o]

HeapPart == HeapOK(heap) /\ ModeOK /\ SavedTreesFrozen

-----------------------------------------------------------------------------
LEMMA InvHeap ==
  ASSUME IInv
  PROVE  HeapInv(heap) /\ heap.next \in Nat \ {0} /\ HeapPart
  BY DEF IInv, TypeOK, ModeOK, HeapInv, HeapOK, HeapPart

LEMMA InvParts ==
  ASSUME IInv
  PROVE  /\ CallOK(heap.next) /\ StackOK(heap.next) /\ LocalsOK(heap.next)
         /\ PathOK /\ TodoOK(heap.next) /\ CallerOK(heap.next)
  BY DEF IInv, TypeOK

LEMMA ExtendsNext ==
  ASSUME NEW h, HeapInv(h), NEW g, Extends(h, g)
  PROVE  HeapInv(g) /\ g.next \in Nat /\ h.next \in Nat /\ h.next <= g.next
  BY DEF Extends, HeapInv, HeapOK

(* A step that only extends the heap keeps what IInv says of the heap. *)
LEMMA HeapPartKept ==
  ASSUME IInv, Extends(heap, heap'), snaps' = snaps
  PROVE  HeapPart' /\ Frozen
<1>1. /\ HeapInv(heap') /\ HeapInv(heap) /\ heap'.hwm = heap.hwm
      /\ heap.next <= heap'.next
      /\ ~Refcounting => \A o \in 1 .. (heap.hwm - 1) :
                           heap'.node[o] = heap.node[o]
  BY InvHeap DEF Extends
<1>2. Refcounting => heap.hwm = 1
  BY DEF IInv, ModeOK
<1>3. Frozen
  BY <1>1, <1>2 DEF Frozen
<1>4. SavedTreesFrozen'
  BY <1>1, <1>3 DEF IInv, SavedTreesFrozen, Frozen
<1>5. ModeOK'
  BY <1>1 DEF IInv, ModeOK, HeapInv
<1>6. HeapOK(heap')
  BY <1>1 DEF HeapInv
<1> QED
  BY <1>3, <1>4, <1>5, <1>6 DEF HeapPart

(* What the operation and its caller hold stays in an arena that grows. *)
LEMMA StackKept ==
  ASSUME IInv, Extends(heap, heap'), stack' = stack
  PROVE  StackOK(heap.next)'
<1>1. heap.next \in Nat /\ heap'.next \in Nat /\ heap.next <= heap'.next
  BY InvHeap, ExtendsNext
<1>2. stack \in Seq(Frame)
  BY InvParts DEF StackOK
<1>3. ASSUME NEW i \in 1 .. Len(stack)
      PROVE  InArena(stack[i].node, heap'.next) /\ stack[i].node.offset # Null
  <2>1. stack[i].node \in Struct
    <3>1. stack[i] \in Frame
      BY <1>2
    <3> QED
      BY <3>1 DEF Frame
  <2>2. IsNode(stack[i].node, heap.next)
    <3>1. StackOK(heap.next)
      BY InvParts
    <3>2. InArena(stack[i].node, heap.next) /\ stack[i].node.offset # Null
      BY <3>1 DEF StackOK
    <3> QED
      BY <2>1, <3>2 DEF IsNode, Null
  <2> QED
    BY <1>1, <2>2, IsNodeGrows DEF IsNode, Null
<1> QED
  BY <1>2, <1>3 DEF StackOK

LEMMA LocalsKept ==
  ASSUME IInv, Extends(heap, heap'),
         UNCHANGED <<ret, removed, leftmost>>
  PROVE  LocalsOK(heap.next)'
<1>1. heap.next \in Nat /\ heap'.next \in Nat /\ heap.next <= heap'.next
  BY InvHeap, ExtendsNext
<1> QED
  BY <1>1, InvParts DEF LocalsOK, InArena, Struct

LEMMA TodoKept ==
  ASSUME IInv, Extends(heap, heap'), todo' = todo
  PROVE  TodoOK(heap.next)'
<1>1. heap.next \in Nat /\ heap'.next \in Nat /\ heap.next <= heap'.next
  BY InvHeap, ExtendsNext
<1>2. ASSUME NEW i \in 1 .. Len(todo)
      PROVE  todo[i].o < heap'.next
  <2>1. todo[i].o \in Nat /\ todo[i].o < heap.next
    <3>1. TodoOK(heap.next)
      BY InvParts
    <3>2. todo[i] \in Pending
      BY <3>1 DEF TodoOK
    <3> QED
      BY <3>1, <3>2 DEF TodoOK, Pending
  <2> QED
    BY <1>1, <2>1
<1> QED
  BY <1>2, InvParts DEF TodoOK

LEMMA CallerKept ==
  ASSUME IInv, Extends(heap, heap'), UNCHANGED <<roots, kept, snaps>>,
         updates' \in Updates
  PROVE  CallerOK(heap.next)'
<1>1. heap.next \in Nat /\ heap'.next \in Nat /\ heap.next <= heap'.next
  BY InvHeap, ExtendsNext
<1>2. ASSUME NEW t \in Trees
      PROVE  roots[t] \in Nat /\ roots[t] < heap'.next
  BY <1>1, InvParts DEF CallerOK
<1> QED
  BY <1>2, InvParts DEF CallerOK

LEMMA CountingType ==
  ASSUME IInv, NEW op
  PROVE  Counting(op) \in Updates
<1>1. updates \in Updates
  BY InvParts DEF CallerOK
<1> QED
  BY <1>1 DEF Counting, Updates

LEMMA IInvParts ==
  ASSUME HeapPart', CallOK(heap.next)', StackOK(heap.next)',
         LocalsOK(heap.next)', PathOK', TodoOK(heap.next)', CallerOK(heap.next)'
  PROVE  IInv'
  BY DEF HeapPart, IInv, TypeOK

(* Frames pushed and popped. *)
LEMMA SeqPush ==
  ASSUME NEW S, NEW s \in Seq(S), NEW x \in S
  PROVE  /\ <<x>> \o s \in Seq(S)
         /\ \A i \in 1 .. Len(<<x>> \o s) :
              IF i = 1 THEN (<<x>> \o s)[i] = x
              ELSE i - 1 \in 1 .. Len(s) /\ (<<x>> \o s)[i] = s[i - 1]
  OBVIOUS

LEMMA SeqPop ==
  ASSUME NEW S, NEW s \in Seq(S), s # <<>>
  PROVE  /\ Head(s) \in S /\ Head(s) = s[1] /\ 1 \in 1 .. Len(s)
         /\ Tail(s) \in Seq(S)
         /\ \A i \in 1 .. Len(Tail(s)) :
              i + 1 \in 1 .. Len(s) /\ Tail(s)[i] = s[i + 1]
  OBVIOUS

LEMMA StackPushed ==
  ASSUME IInv, heap' = heap, NEW f \in Frame, IsNode(f.node, heap.next),
         stack' = <<f>> \o stack
  PROVE  /\ StackOK(heap.next)'
         /\ NoReplace /\ f.dir # "replace" => NoReplace'
<1>1. StackOK(heap.next)
  BY InvParts
<1>2. stack \in Seq(Frame)
  BY <1>1 DEF StackOK
<1>3. /\ stack' \in Seq(Frame)
      /\ \A i \in 1 .. Len(stack') :
           IF i = 1 THEN stack'[i] = f
           ELSE i - 1 \in 1 .. Len(stack) /\ stack'[i] = stack[i - 1]
  BY <1>2, SeqPush
<1>4. InArena(f.node, heap.next) /\ f.node.offset # Null
  BY DEF IsNode, Null
<1>5. ASSUME NEW i \in 1 .. Len(stack')
      PROVE  InArena(stack'[i].node, heap.next) /\ stack'[i].node.offset # Null
  BY <1>1, <1>3, <1>4 DEF StackOK
<1>6. ASSUME NoReplace, f.dir # "replace", NEW i \in 1 .. Len(stack')
      PROVE  stack'[i].dir # "replace"
  BY <1>3, <1>6 DEF NoReplace
<1> QED
  BY <1>3, <1>5, <1>6 DEF StackOK, NoReplace

LEMMA StackPopped ==
  ASSUME IInv, Extends(heap, heap'), stack # <<>>, stack' = Tail(stack)
  PROVE  /\ StackOK(heap.next)'
         /\ NoReplace => NoReplace'
         /\ Head(stack) \in Frame /\ IsNode(Head(stack).node, heap.next)
         /\ NoReplace => Head(stack).dir # "replace"
<1>1. StackOK(heap.next)
  BY InvParts
<1>2. stack \in Seq(Frame)
  BY <1>1 DEF StackOK
<1>3. /\ Head(stack) \in Frame /\ Head(stack) = stack[1]
      /\ 1 \in 1 .. Len(stack) /\ stack' \in Seq(Frame)
      /\ \A i \in 1 .. Len(stack') :
           i + 1 \in 1 .. Len(stack) /\ stack'[i] = stack[i + 1]
  BY <1>2, SeqPop
<1>4. heap.next \in Nat /\ heap'.next \in Nat /\ heap.next <= heap'.next
  BY InvHeap, ExtendsNext
<1>5. ASSUME NEW i \in 1 .. Len(stack)
      PROVE  IsNode(stack[i].node, heap.next)
  <2>1. InArena(stack[i].node, heap.next) /\ stack[i].node.offset # Null
    BY <1>1 DEF StackOK
  <2>2. stack[i] \in Frame
    BY <1>2
  <2>3. stack[i].node \in Struct
    BY <2>2 DEF Frame
  <2> QED
    BY <2>1, <2>3 DEF IsNode, Null
<1>6. ASSUME NEW i \in 1 .. Len(stack')
      PROVE  InArena(stack'[i].node, heap'.next) /\ stack'[i].node.offset # Null
  <2>1. IsNode(stack'[i].node, heap.next)
    BY <1>3, <1>5
  <2> QED
    BY <2>1, <1>4, IsNodeGrows DEF IsNode, Null
<1>7. IsNode(Head(stack).node, heap.next)
  BY <1>3, <1>5
<1>8. ASSUME NoReplace
      PROVE  NoReplace' /\ Head(stack).dir # "replace"
  BY <1>3, <1>8 DEF NoReplace
<1> QED
  BY <1>3, <1>6, <1>7, <1>8 DEF StackOK

(* The node at the current level, and the calls that go a level down.      *)
LEMMA CurNode ==
  ASSUME IInv, cur # Null
  PROVE  /\ IsNode(Get(heap, cur), heap.next)
         /\ Get(heap, cur) \in Struct /\ Get(heap, cur).offset = cur
         /\ Get(heap, cur).lc \in Nat /\ Get(heap, cur).lc < heap.next
         /\ Get(heap, cur).rc \in Nat /\ Get(heap, cur).rc < heap.next
<1>1. cur \in Nat /\ cur < heap.next
  BY InvParts DEF CallOK
<1>2. HeapInv(heap)
  BY InvHeap
<1>3. IsNode(Get(heap, cur), heap.next) /\ Get(heap, cur).offset = cur
  BY <1>1, <1>2, GetNode, GetType DEF Null
<1> QED
  BY <1>3, NodeFacts DEF IsNode

LEMMA ImmutableType ==
  ASSUME NEW h, NEW n
  PROVE  Immutable(h, n) \in BOOLEAN
<1>1. CASE Refcounting
  <2>1. Immutable(h, n) = (n.offset # 0 /\ h.refcount[n.offset] > 1)
    BY <1>1, Zenon DEF Immutable
  <2> QED
    BY <2>1, Zenon
<1>2. CASE ~Refcounting
  <2>1. Immutable(h, n) = (n.offset < h.hwm)
    BY <1>2, Zenon DEF Immutable
  <2>2. (n.offset < h.hwm) \in BOOLEAN
    OBVIOUS
  <2> QED
    BY <2>1, <2>2, Zenon
<1> QED
  BY <1>1, <1>2

LEMMA HeapUnchanged ==
  ASSUME IInv, heap' = heap
  PROVE  Extends(heap, heap')
<1>1. HeapInv(heap)
  BY InvHeap
<1> QED
  BY <1>1, ExtendsRefl

(* A step down: a frame for this level on the stack, a child as `root'.    *)
LEMMA Descended ==
  ASSUME IInv, heap' = heap, NEW f \in Frame, IsNode(f.node, heap.next),
         stack' = <<f>> \o stack,
         cur' \in Nat, cur' < heap.next, must' \in BOOLEAN,
         pc' \in {"insert", "remove", "leftmost"},
         LocalsOK(heap.next)', PathOK',
         UNCHANGED <<call, todo, roots, kept, snaps, updates>>
  PROVE  IInv' /\ Frozen
<1>1. Extends(heap, heap')
  BY HeapUnchanged
<1>2. HeapPart' /\ Frozen
  BY <1>1, HeapPartKept
<1>3. TodoOK(heap.next)'
  BY <1>1, TodoKept
<1>4. updates \in Updates
  BY InvParts DEF CallerOK
<1>5. CallerOK(heap.next)'
  BY <1>1, <1>4, CallerKept
<1>6. StackOK(heap.next)'
  BY StackPushed
<1>7. /\ call \in Call /\ call.node < heap.next
      /\ call.op = "insert" => call.tree \in Trees /\ call.lo \in Keys
  BY InvParts DEF CallOK
<1>8. CallOK(heap.next)'
  BY <1>7 DEF CallOK
<1> QED
  BY <1>2, <1>3, <1>5, <1>6, <1>8, IInvParts

LEMMA InsertDescendInv == IInv /\ InsertDescend => IInv' /\ Frozen
<1> SUFFICES ASSUME IInv, InsertDescend
             PROVE  IInv' /\ Frozen
  OBVIOUS
<1> DEFINE root == Get(heap, cur)
           m == must \/ Immutable(heap, root)
           f == [node |-> root, must |-> m,
                 dir |-> IF root.key > call.lo THEN "left" ELSE "right"]
<1>1. /\ pc = "insert" /\ cur # Null /\ pc' = pc /\ heap' = heap
      /\ must' = m /\ cur' = (IF root.key > call.lo THEN root.lc ELSE root.rc)
      /\ stack' = <<f>> \o stack
      /\ UNCHANGED <<call, todo, roots, kept, snaps, updates>>
      /\ UNCHANGED <<ret, removed, leftmost>>
  BY DEF InsertDescend
<1>2. /\ IsNode(root, heap.next) /\ root \in Struct
      /\ root.lc \in Nat /\ root.lc < heap.next
      /\ root.rc \in Nat /\ root.rc < heap.next
  BY <1>1, CurNode
<1> HIDE DEF root
<1>3. m \in BOOLEAN
  BY ImmutableType, InvParts DEF CallOK
<1>4. f \in Frame /\ f.node = root /\ f.dir # "replace"
  BY <1>2, <1>3 DEF Frame
<1> HIDE DEF f, m
<1>5. NoReplace
  BY <1>1, InvParts DEF PathOK
<1>6. PathOK'
  BY <1>1, <1>2, <1>4, <1>5, StackPushed DEF PathOK
<1>7. LocalsOK(heap.next)'
  BY <1>1, HeapUnchanged, LocalsKept
<1>8. cur' \in Nat /\ cur' < heap.next
  BY <1>1, <1>2
<1> QED
  BY <1>1, <1>2, <1>3, <1>4, <1>6, <1>7, <1>8, Descended

(* With a null key finder the way down is to the left, while there is one. *)
LEMMA LeftmostCmp ==
  ASSUME pc = "leftmost", NEW root, Cmp(root) # 0
  PROVE  Cmp(root) < 0 /\ root.lc # Null
  BY DEF Cmp

LEMMA RemoveDescendInv == IInv /\ RemoveDescend => IInv' /\ Frozen
<1> SUFFICES ASSUME IInv, RemoveDescend
             PROVE  IInv' /\ Frozen
  OBVIOUS
<1> DEFINE root == Get(heap, cur)
           m == must \/ Immutable(heap, root)
           left == Cmp(root) < 0
           f == [node |-> root, must |-> m,
                 dir |-> IF left THEN "left" ELSE "right"]
<1>1. /\ pc \in {"remove", "leftmost"} /\ cur # Null /\ pc' = pc /\ heap' = heap
      /\ Cmp(root) # 0
      /\ must' = m /\ cur' = (IF left THEN root.lc ELSE root.rc)
      /\ stack' = <<f>> \o stack
      /\ UNCHANGED <<call, todo, roots, kept, snaps, updates>>
      /\ UNCHANGED <<ret, removed, leftmost>>
  BY DEF RemoveDescend
<1>2. /\ IsNode(root, heap.next) /\ root \in Struct
      /\ root.lc \in Nat /\ root.lc < heap.next
      /\ root.rc \in Nat /\ root.rc < heap.next
  BY <1>1, CurNode
<1>3. pc = "leftmost" => left /\ root.lc # Null
  BY <1>1, LeftmostCmp
<1> HIDE DEF root, left
<1>4. m \in BOOLEAN
  BY ImmutableType, InvParts DEF CallOK
<1>5. f \in Frame /\ f.node = root /\ f.dir # "replace"
  BY <1>2, <1>4 DEF Frame
<1> HIDE DEF f, m
<1>6. pc = "remove" => NoReplace
  BY InvParts DEF PathOK
<1>7. PathOK'
  BY <1>1, <1>2, <1>3, <1>5, <1>6, StackPushed DEF PathOK
<1>8. LocalsOK(heap.next)'
  BY <1>1, HeapUnchanged, LocalsKept
<1>9. cur' \in Nat /\ cur' < heap.next
  BY <1>1, <1>2
<1> QED
  BY <1>1, <1>2, <1>4, <1>5, <1>7, <1>8, <1>9, Descended

LEMMA RemoveTwoChildrenInv == IInv /\ RemoveTwoChildren => IInv' /\ Frozen
<1> SUFFICES ASSUME IInv, RemoveTwoChildren
             PROVE  IInv' /\ Frozen
  OBVIOUS
<1> DEFINE root == Get(heap, cur)
           m == must \/ Immutable(heap, root)
           f == [node |-> root, must |-> m, dir |-> "replace"]
<1>1. /\ cur # Null /\ pc' = "leftmost" /\ heap' = heap
      /\ root.rc # Null /\ removed' = root
      /\ must' = m /\ cur' = root.rc
      /\ stack' = <<f>> \o stack
      /\ UNCHANGED <<call, todo, roots, kept, snaps, updates>>
      /\ UNCHANGED <<ret, leftmost>>
  BY DEF RemoveTwoChildren
<1>2. /\ IsNode(root, heap.next) /\ root \in Struct
      /\ root.rc \in Nat /\ root.rc < heap.next
  BY <1>1, CurNode
<1> HIDE DEF root
<1>3. m \in BOOLEAN
  BY ImmutableType, InvParts DEF CallOK
<1>4. f \in Frame /\ f.node = root
  BY <1>2, <1>3 DEF Frame
<1> HIDE DEF f, m
<1>5. PathOK'
  BY <1>1 DEF PathOK
<1>6. LocalsOK(heap.next)
  BY InvParts
<1>7. LocalsOK(heap.next)'
  BY <1>1, <1>2, <1>6 DEF LocalsOK, IsNode
<1> QED
  BY <1>1, <1>2, <1>3, <1>4, <1>5, <1>7, Descended

(* A step that ends the way down: `root' stays, a result is handed up.     *)
LEMMA TurnedBack ==
  ASSUME IInv, heap' = heap, pc' = "unwind", LocalsOK(heap.next)', PathOK',
         UNCHANGED <<call, cur, must, stack, todo, roots, kept, snaps, updates>>
  PROVE  IInv' /\ Frozen
<1>1. Extends(heap, heap')
  BY HeapUnchanged
<1>2. HeapPart' /\ Frozen
  BY <1>1, HeapPartKept
<1>3. TodoOK(heap.next)' /\ StackOK(heap.next)'
  BY <1>1, TodoKept, StackKept
<1>4. updates \in Updates
  BY InvParts DEF CallerOK
<1>5. CallerOK(heap.next)'
  BY <1>1, <1>4, CallerKept
<1>6. CallOK(heap.next)
  BY InvParts
<1>7. CallOK(heap.next)'
  BY <1>6 DEF CallOK
<1> QED
  BY <1>2, <1>3, <1>5, <1>7, IInvParts

LEMMA NullNodeType == 
  ASSUME IInv
  PROVE  NullNode \in Struct /\ InArena(NullNode, heap.next)
<1>1. heap.next \in Nat \ {0}
  BY InvHeap
<1> QED
  BY <1>1 DEF NullNode, Struct, InArena, Key

LEMMA GetStruct ==
  ASSUME IInv, NEW o \in Nat, o < heap.next
  PROVE  /\ Get(heap, o) \in Struct /\ InArena(Get(heap, o), heap.next)
         /\ Get(heap, o).offset = o
<1>1. HeapInv(heap)
  BY InvHeap
<1> QED
  BY <1>1, GetType

LEMMA InsertAtNullInv == IInv /\ InsertAtNull => IInv' /\ Frozen
<1> SUFFICES ASSUME IInv, InsertAtNull
             PROVE  IInv' /\ Frozen
  OBVIOUS
<1>1. /\ pc = "insert" /\ pc' = "unwind" /\ heap' = heap
      /\ ret' = Get(heap, call.node)
      /\ UNCHANGED <<call, cur, must, stack, todo, roots, kept, snaps, updates>>
      /\ UNCHANGED <<removed, leftmost>>
  BY DEF InsertAtNull
<1>2. call.node \in Nat /\ call.node < heap.next
  BY InvParts DEF CallOK, Call
<1>3. LocalsOK(heap.next)
  BY InvParts
<1>4. LocalsOK(heap.next)'
  BY <1>1, <1>2, <1>3, GetStruct DEF LocalsOK
<1>5. NoReplace
  BY <1>1, InvParts DEF PathOK
<1>6. PathOK'
  BY <1>1, <1>5 DEF PathOK, NoReplace
<1> QED
  BY <1>1, <1>4, <1>6, TurnedBack

LEMMA RemoveNotFoundInv == IInv /\ RemoveNotFound => IInv' /\ Frozen
<1> SUFFICES ASSUME IInv, RemoveNotFound
             PROVE  IInv' /\ Frozen
  OBVIOUS
<1>1. PathOK /\ LocalsOK(heap.next)
  BY InvParts
<1>2. pc = "remove"
  BY <1>1 DEF PathOK, RemoveNotFound
<1>3. /\ pc' = "unwind" /\ heap' = heap
      /\ ret' = NullNode /\ removed' = NullNode /\ leftmost' = leftmost
      /\ UNCHANGED <<call, cur, must, stack, todo, roots, kept, snaps, updates>>
  BY <1>2 DEF RemoveNotFound
<1>4. LocalsOK(heap.next)'
  BY <1>1, <1>3, NullNodeType DEF LocalsOK
<1>5. PathOK'
  BY <1>1, <1>2, <1>3 DEF PathOK, NoReplace
<1> QED
  BY <1>3, <1>4, <1>5, TurnedBack

LEMMA RemoveHereInv == IInv /\ RemoveHere => IInv' /\ Frozen
<1> SUFFICES ASSUME IInv, RemoveHere
             PROVE  IInv' /\ Frozen
  OBVIOUS
<1> DEFINE root == Get(heap, cur)
           o == IF root.lc = Null THEN root.rc ELSE root.lc
<1>1. PathOK /\ LocalsOK(heap.next)
  BY InvParts
<1>2. /\ pc \in {"remove", "leftmost"} /\ pc' = "unwind" /\ heap' = heap
      /\ cur # Null /\ ret' = Get(heap, o)
      /\ IF pc = "remove" THEN removed' = root /\ leftmost' = leftmost
         ELSE leftmost' = root /\ removed' = removed
      /\ UNCHANGED <<call, cur, must, stack, todo, roots, kept, snaps, updates>>
  BY DEF RemoveHere
<1>3. /\ IsNode(root, heap.next)
      /\ root.lc \in Nat /\ root.lc < heap.next
      /\ root.rc \in Nat /\ root.rc < heap.next
  BY <1>2, CurNode
<1>4. o \in Nat /\ o < heap.next
  BY <1>3
<1> HIDE DEF root, o
<1>5. ret' \in Struct /\ InArena(ret', heap.next)
  BY <1>2, <1>4, GetStruct
<1>6. LocalsOK(heap.next)'
  BY <1>1, <1>2, <1>3, <1>5 DEF LocalsOK, IsNode
<1>7. PathOK'
  BY <1>1, <1>2, <1>3 DEF PathOK, NoReplace, IsNode, Null
<1> QED
  BY <1>2, <1>6, <1>7, TurnedBack

(* The way up: a level returns a node of the heap it leaves. *)
LEMMA Returned ==
  ASSUME IInv, pc = "unwind", stack # <<>>,
         NEW r, Good(heap, r), ReturnLevel(r)
  PROVE  IInv' /\ Frozen
<1>1. /\ heap' = r.heap /\ ret' = r.n /\ stack' = Tail(stack)
      /\ UNCHANGED <<pc, call, cur, must, removed, leftmost>>
      /\ UNCHANGED <<todo, roots, kept, snaps, updates>>
  BY DEF ReturnLevel
<1>2. Extends(heap, heap') /\ IsNode(ret', heap'.next)
  BY <1>1 DEF Good
<1>3. heap.next \in Nat /\ heap'.next \in Nat /\ heap.next <= heap'.next
  BY <1>2, InvHeap, ExtendsNext
<1>4. HeapPart' /\ Frozen
  BY <1>1, <1>2, HeapPartKept
<1>5. TodoOK(heap.next)'
  BY <1>1, <1>2, TodoKept
<1>6. updates \in Updates
  BY InvParts DEF CallerOK
<1>7. CallerOK(heap.next)'
  BY <1>1, <1>2, <1>6, CallerKept
<1>8. StackOK(heap.next)' /\ (NoReplace => NoReplace')
  BY <1>1, <1>2, StackPopped
<1>9. CallOK(heap.next) /\ LocalsOK(heap.next) /\ PathOK
  BY InvParts
<1>10. CallOK(heap.next)'
  <2>1. call.node \in Nat /\ cur \in Nat
    BY <1>9 DEF CallOK, Call
  <2>2. call'.node < heap'.next /\ cur' < heap'.next
    BY <2>1, <1>1, <1>3, <1>9 DEF CallOK
  <2> QED
    BY <2>2, <1>1, <1>9 DEF CallOK
<1>11. LocalsOK(heap.next)'
  <2>1. InArena(removed, heap'.next) /\ InArena(leftmost, heap'.next)
    BY <1>3, <1>9 DEF LocalsOK, InArena, Struct
  <2> QED
    BY <2>1, <1>1, <1>2, <1>9 DEF LocalsOK, IsNode
<1>12. PathOK'
  BY <1>1, <1>8, <1>9 DEF PathOK
<1> QED
  BY <1>4, <1>5, <1>7, <1>8, <1>10, <1>11, <1>12, IInvParts

(* What a level links in place of a child is what the level below returned. *)
LEMMA LinkGood ==
  ASSUME IInv, stack # <<>>
  PROVE  /\ Good(heap, LinkLeft(Head(stack)))
         /\ Good(heap, LinkRight(Head(stack)))
<1> DEFINE f == Head(stack)
<1>1. /\ f \in Frame /\ IsNode(f.node, heap.next)
  <2>1. StackOK(heap.next)
    BY InvParts
  <2>2. stack \in Seq(Frame)
    BY <2>1 DEF StackOK
  <2>3. f \in Frame /\ f = stack[1] /\ 1 \in 1 .. Len(stack)
    BY <2>2, SeqPop
  <2>4. f.node \in Struct
    BY <2>3 DEF Frame
  <2> QED
    BY <2>1, <2>3, <2>4 DEF StackOK, IsNode, Null
<1> HIDE DEF f
<1>2. /\ f.must \in BOOLEAN
      /\ f.node.lc \in Nat /\ f.node.lc < heap.next
      /\ f.node.rc \in Nat /\ f.node.rc < heap.next
  BY <1>1, NodeFacts DEF Frame
<1>3. ret.offset \in Nat /\ ret.offset < heap.next
  BY InvParts DEF LocalsOK, Struct, InArena
<1>4. HeapInv(heap)
  BY InvHeap
<1>5. Good(heap, Rewrite(heap, f.node, ret.offset, f.node.rc, f.must))
  BY <1>1, <1>2, <1>3, <1>4, RewriteGood
<1>6. Good(heap, Rewrite(heap, f.node, f.node.lc, ret.offset, f.must))
  BY <1>1, <1>2, <1>3, <1>4, RewriteGood
<1> QED
  BY <1>5, <1>6 DEF LinkLeft, LinkRight, f

LEMMA LinkFixGood ==
  ASSUME NEW h, HeapInv(h), NEW l, Good(h, l)
  PROVE  /\ Good(h, FixLeftHeavy(l.heap, l.n))
         /\ Good(h, FixRightHeavy(l.heap, l.n))
<1>1. HeapInv(l.heap) /\ IsNode(l.n, l.heap.next)
  BY GoodFacts
<1>2. /\ Good(l.heap, FixLeftHeavy(l.heap, l.n))
      /\ Good(l.heap, FixRightHeavy(l.heap, l.n))
  BY <1>1, FixLeftHeavyGood, FixRightHeavyGood
<1> QED
  BY <1>2, GoodThen

LEMMA InsertUnwindInv == IInv /\ InsertUnwind => IInv' /\ Frozen
<1> SUFFICES ASSUME IInv, InsertUnwind
             PROVE  IInv' /\ Frozen
  OBVIOUS
<1> DEFINE l == LinkLeft(Head(stack))
           r == LinkRight(Head(stack))
           a == FixLeftHeavy(l.heap, l.n)
           b == FixRightHeavy(r.heap, r.n)
<1>1. pc = "unwind" /\ stack # <<>> /\ (ReturnLevel(a) \/ ReturnLevel(b))
  BY DEF InsertUnwind
<1>2. Good(heap, a) /\ Good(heap, b)
  BY <1>1, InvHeap, LinkGood, LinkFixGood
<1> HIDE DEF a, b
<1> QED
  BY <1>1, <1>2, Returned

LEMMA RemoveUnwindInv == IInv /\ RemoveUnwind => IInv' /\ Frozen
<1> SUFFICES ASSUME IInv, RemoveUnwind
             PROVE  IInv' /\ Frozen
  OBVIOUS
<1> DEFINE l == LinkLeft(Head(stack))
           r == LinkRight(Head(stack))
           a == FixRightHeavy(l.heap, l.n)
           b == FixLeftHeavy(r.heap, r.n)
<1>1. pc = "unwind" /\ stack # <<>> /\ (ReturnLevel(a) \/ ReturnLevel(b))
  BY DEF RemoveUnwind
<1>2. Good(heap, a) /\ Good(heap, b)
  BY <1>1, InvHeap, LinkGood, LinkFixGood
<1> HIDE DEF a, b
<1> QED
  BY <1>1, <1>2, Returned

LEMMA RemoveUnwindSameInv == IInv /\ RemoveUnwindSame => IInv' /\ Frozen
<1> SUFFICES ASSUME IInv, RemoveUnwindSame
             PROVE  IInv' /\ Frozen
  OBVIOUS
<1> DEFINE r == [heap |-> heap, n |-> Head(stack).node]
<1>1. pc = "unwind" /\ stack # <<>> /\ ReturnLevel(r)
  BY DEF RemoveUnwindSame
<1>2. heap' = heap /\ stack' = Tail(stack)
  BY <1>1 DEF ReturnLevel
<1>3. IsNode(Head(stack).node, heap.next) /\ Extends(heap, heap)
  BY <1>1, <1>2, HeapUnchanged, StackPopped
<1>4. Good(heap, r)
  BY <1>3 DEF Good
<1> HIDE DEF r
<1> QED
  BY <1>1, <1>4, Returned

LEMMA RemoveUnwindReplaceInv ==
  IInv /\ RemoveUnwindReplace => IInv' /\ Frozen
<1> SUFFICES ASSUME IInv, RemoveUnwindReplace
             PROVE  IInv' /\ Frozen
  OBVIOUS
<1> DEFINE f == Head(stack)
           r1 == Rewrite(heap, leftmost, f.node.lc, ret.offset, f.must)
           r2 == Rewrite(r1.heap, r1.n, f.node.lc, ret.offset, FALSE)
           r == FixLeftHeavy(r2.heap, r2.n)
<1>1. /\ pc = "unwind" /\ stack # <<>> /\ f.dir = "replace" /\ ReturnLevel(r)
  BY DEF RemoveUnwindReplace
<1> HIDE DEF f, r1, r2, r
<1>2. StackOK(heap.next) /\ PathOK /\ LocalsOK(heap.next)
  BY InvParts
<1>3. /\ f \in Frame /\ f = stack[1] /\ 1 \in 1 .. Len(stack)
  <2>1. stack \in Seq(Frame)
    BY <1>2 DEF StackOK
  <2> QED
    BY <2>1, <1>1, SeqPop DEF f
<1>4. IsNode(leftmost, heap.next)
  BY <1>1, <1>2, <1>3 DEF PathOK, NoReplace, LocalsOK, IsNode, Null
<1>5. /\ f.must \in BOOLEAN /\ f.node.lc \in Nat /\ f.node.lc < heap.next
  <2>1. f.node \in Struct
    BY <1>3 DEF Frame
  <2> QED
    BY <2>1, <1>2, <1>3 DEF Frame, StackOK, InArena, Struct
<1>6. ret.offset \in Nat /\ ret.offset < heap.next
  BY <1>2 DEF LocalsOK, Struct, InArena
<1>7. HeapInv(heap)
  BY InvHeap
<1>8. Good(heap, r1)
  BY <1>4, <1>5, <1>6, <1>7, RewriteGood DEF r1
<1>9. /\ HeapInv(r1.heap) /\ heap.next <= r1.heap.next
      /\ heap.next \in Nat /\ r1.heap.next \in Nat
      /\ IsNode(r1.n, r1.heap.next)
  BY <1>7, <1>8, GoodFacts
<1>10. f.node.lc < r1.heap.next /\ ret.offset < r1.heap.next
  BY <1>5, <1>6, <1>9
<1>11. Good(r1.heap, r2)
  BY <1>5, <1>6, <1>9, <1>10, RewriteGood DEF r2
<1>12. Good(heap, r2)
  BY <1>7, <1>8, <1>11, GoodThen
<1>13. Good(heap, r)
  BY <1>7, <1>12, LinkFixGood DEF r
<1> QED
  BY <1>1, <1>13, Returned

(* The steps that begin and end an operation. *)
LEMMA Adjusted ==
  ASSUME IInv, NEW o \in Nat, o < heap.next, NEW adj \in Int,
         heap' = AdjustRefcount(heap, o, adj)
  PROVE  Extends(heap, heap') /\ heap'.next = heap.next
<1>1. HeapInv(heap)
  BY InvHeap
<1> QED
  BY <1>1, AdjustType, AdjustExtends

LEMMA Forgotten ==
  ASSUME IInv, Extends(heap, heap'), ForgetOp
  PROVE  /\ CallOK(heap.next)' /\ StackOK(heap.next)' /\ LocalsOK(heap.next)'
         /\ PathOK'
<1>1. HeapInv(heap') /\ heap'.next \in Nat \ {0}
  BY DEF Extends, HeapInv, HeapOK
<1>2. /\ pc' = "idle" /\ call' = NoCall /\ cur' = Null /\ must' = FALSE
      /\ stack' = <<>>
      /\ ret' = NullNode /\ removed' = NullNode /\ leftmost' = NullNode
  BY DEF ForgetOp
<1>3. CallOK(heap.next)'
  <2>1. NoCall \in Call
    BY DEF NoCall, Call, Null
  <2>2. NoCall.node = 0 /\ NoCall.op # "insert"
    BY DEF NoCall, Null
  <2>3. call'.node < heap'.next /\ cur' \in Nat /\ cur' < heap'.next
    BY <1>1, <1>2, <2>2 DEF Null
  <2>4. /\ call' \in Call /\ must' \in BOOLEAN
        /\ call'.op = "insert" => call'.tree \in Trees /\ call'.lo \in Keys
    BY <1>2, <2>1, <2>2
  <2> QED
    BY <1>2, <2>3, <2>4 DEF CallOK
<1>4. StackOK(heap.next)'
  BY <1>2 DEF StackOK
<1>5. NullNode \in Struct /\ InArena(NullNode, heap'.next)
  BY <1>1 DEF NullNode, Struct, InArena, Key
<1>6. LocalsOK(heap.next)'
  BY <1>2, <1>5 DEF LocalsOK
<1>7. PathOK'
  BY <1>2 DEF PathOK
<1> QED
  BY <1>3, <1>4, <1>6, <1>7

LEMMA RootSet ==
  ASSUME IInv, Extends(heap, heap'), NEW t, NEW o \in Nat, o < heap'.next,
         roots' = [roots EXCEPT ![t] = o],
         kept' \in [Trees -> SUBSET Keys], snaps' = snaps, updates' \in Updates
  PROVE  CallerOK(heap.next)'
<1>1. heap.next \in Nat /\ heap'.next \in Nat /\ heap.next <= heap'.next
  BY InvHeap, ExtendsNext
<1>2. CallerOK(heap.next)
  BY InvParts
<1>3. roots \in [Trees -> Nat]
  BY <1>2 DEF CallerOK
<1>4. roots' \in [Trees -> Nat]
  BY <1>3
<1>5. ASSUME NEW u \in Trees
      PROVE  roots'[u] < heap'.next
  <2>1. roots'[u] = IF u = t THEN o ELSE roots[u]
    BY <1>3
  <2>2. roots[u] \in Nat /\ roots[u] < heap.next
    BY <1>2, <1>3 DEF CallerOK
  <2> QED
    BY <1>1, <2>1, <2>2
<1> QED
  BY <1>2, <1>4, <1>5 DEF CallerOK

LEMMA InsertReturnInv == IInv /\ InsertReturn => IInv' /\ Frozen
<1> SUFFICES ASSUME IInv, InsertReturn
             PROVE  IInv' /\ Frozen
  OBVIOUS
<1>1. /\ call.op = "insert" /\ heap' = AdjustRefcount(heap, ret.offset, 1)
      /\ roots' = [roots EXCEPT ![call.tree] = ret.offset]
      /\ kept' = [kept EXCEPT ![call.tree] = @ \cup {call.lo}]
      /\ ForgetOp /\ todo' = todo /\ snaps' = snaps /\ updates' = updates
  BY DEF InsertReturn
<1>2. ret.offset \in Nat /\ ret.offset < heap.next
  BY InvParts DEF LocalsOK, Struct, InArena
<1>3. Extends(heap, heap') /\ heap'.next = heap.next
  BY <1>1, <1>2, Adjusted
<1>4. HeapPart' /\ Frozen
  BY <1>1, <1>3, HeapPartKept
<1>5. TodoOK(heap.next)'
  BY <1>1, <1>3, TodoKept
<1>6. /\ CallOK(heap.next)' /\ StackOK(heap.next)' /\ LocalsOK(heap.next)'
      /\ PathOK'
  BY <1>1, <1>3, Forgotten
<1>7. kept' \in [Trees -> SUBSET Keys]
  <2>1. /\ call.tree \in Trees /\ call.lo \in Keys
    BY <1>1, InvParts DEF CallOK
  <2>2. kept \in [Trees -> SUBSET Keys]
    BY InvParts DEF CallerOK
  <2>3. kept[call.tree] \cup {call.lo} \in SUBSET Keys
    BY <2>1, <2>2
  <2> QED
    BY <2>1, <2>2, <2>3, <1>1
<1>8. updates' \in Updates
  BY <1>1, InvParts DEF CallerOK
<1>9. CallerOK(heap.next)'
  BY <1>1, <1>2, <1>3, <1>7, <1>8, RootSet
<1> QED
  BY <1>4, <1>5, <1>6, <1>9, IInvParts

LEMMA RemoveReturnInv == IInv /\ RemoveReturn => IInv' /\ Frozen
<1> SUFFICES ASSUME IInv, RemoveReturn
             PROVE  IInv' /\ Frozen
  OBVIOUS
<1> DEFINE freeing == /\ Refcounting /\ removed.offset # Null /\ pc' = "free"
                      /\ todo' = <<[o |-> removed.offset, adj |-> 0,
                                    push |-> FALSE]>>
                      /\ UNCHANGED <<call, cur, must, stack, ret, removed, leftmost>>
<1>1. /\ stack = <<>> /\ heap' = AdjustRefcount(heap, ret.offset, 1)
      /\ roots' = [roots EXCEPT ![call.tree] = ret.offset]
      /\ kept' = [kept EXCEPT ![call.tree] = @ \ {removed.key}]
      /\ freeing \/ (ForgetOp /\ todo' = todo)
      /\ snaps' = snaps /\ updates' = updates
  BY DEF RemoveReturn
<1> HIDE DEF freeing
<1>2. LocalsOK(heap.next) /\ CallOK(heap.next) /\ CallerOK(heap.next)
  BY InvParts
<1>3. /\ ret.offset \in Nat /\ ret.offset < heap.next
      /\ removed.offset \in Nat /\ removed.offset < heap.next
  BY <1>2 DEF LocalsOK, Struct, InArena
<1>4. Extends(heap, heap') /\ heap'.next = heap.next
  BY <1>1, <1>3, Adjusted
<1>5. HeapPart' /\ Frozen
  BY <1>1, <1>4, HeapPartKept
<1>6. kept' \in [Trees -> SUBSET Keys]
  <2>1. kept \in [Trees -> SUBSET Keys]
    BY <1>2 DEF CallerOK
  <2>2. CASE call.tree \in Trees
    <3>1. kept[call.tree] \ {removed.key} \in SUBSET Keys
      BY <2>1, <2>2
    <3> QED
      BY <2>1, <2>2, <3>1, <1>1
  <2>3. CASE call.tree \notin Trees
    <3>1. kept' = kept
      BY <2>1, <2>3, <1>1
    <3> QED
      BY <2>1, <3>1
  <2> QED
    BY <2>2, <2>3
<1>7. updates' \in Updates
  BY <1>1, <1>2 DEF CallerOK
<1>8. CallerOK(heap.next)'
  BY <1>1, <1>3, <1>4, <1>6, <1>7, RootSet
<1>9. CASE ForgetOp /\ todo' = todo
  <2>1. TodoOK(heap.next)'
    BY <1>4, <1>9, TodoKept
  <2>2. /\ CallOK(heap.next)' /\ StackOK(heap.next)' /\ LocalsOK(heap.next)'
        /\ PathOK'
    BY <1>4, <1>9, Forgotten
  <2> QED
    BY <1>5, <1>8, <2>1, <2>2, IInvParts
<1>10. CASE freeing
  <2>1. /\ Refcounting /\ removed.offset # Null /\ pc' = "free"
        /\ todo' = <<[o |-> removed.offset, adj |-> 0, push |-> FALSE]>>
        /\ UNCHANGED <<call, cur, must, stack>>
        /\ UNCHANGED <<ret, removed, leftmost>>
    BY <1>10 DEF freeing
  <2>2. TodoOK(heap.next)'
    BY <2>1, <1>3, <1>4 DEF TodoOK, Pending, Null
  <2>3. CallOK(heap.next)'
    BY <2>1, <1>2, <1>4 DEF CallOK
  <2>4. StackOK(heap.next)' /\ LocalsOK(heap.next)'
    BY <2>1, <1>4, StackKept, LocalsKept
  <2>5. PathOK'
    BY <2>1, <1>1 DEF PathOK
  <2> QED
    BY <1>5, <1>8, <2>2, <2>3, <2>4, <2>5, IInvParts
<1> QED
  BY <1>1, <1>9, <1>10

(* The steps that only the caller or free_node make. *)
LEMMA BeginInsertHeap ==
  ASSUME NEW h, HeapInv(h), NEW k \in Keys, NEW o \in Nat, o < h.next
  PROVE  LET off == AllocOffset(h)
             g == Put(AllocNode(h),
                      [offset |-> off, lc |-> 0, rc |-> 0, height |-> 1,
                       key |-> k, ann |-> {k}])
         IN /\ Extends(h, AdjustRefcount(g, o, -1))
            /\ off \in Nat /\ off < AdjustRefcount(g, o, -1).next
<1> DEFINE off == AllocOffset(h)
           leaf == [offset |-> off, lc |-> 0, rc |-> 0, height |-> 1,
                    key |-> k, ann |-> {k}]
           a == AllocNode(h)
           g == Put(a, leaf)
           d == AdjustRefcount(g, o, -1)
<1>1. /\ Extends(h, a) /\ off \in Nat \ {0} /\ off < a.next
      /\ ~Refcounting => off >= h.hwm
  BY AllocType
<1> HIDE DEF a, off
<1>2. /\ HeapInv(a) /\ a.next \in Nat /\ h.next \in Nat /\ h.next <= a.next
      /\ a.hwm = h.hwm /\ a.hwm \in 1 .. a.next
  <2>1. a.hwm \in 1 .. a.next /\ a.hwm = h.hwm
    BY <1>1 DEF Extends, HeapInv, HeapOK
  <2> QED
    BY <1>1, <2>1, ExtendsNext
<1>3. IsNode(leaf, a.next) /\ leaf.offset = off
  <2>1. leaf \in Struct
    BY <1>1, KeysAssumption DEF Struct, Key
  <2> QED
    BY <1>1, <1>2, <2>1 DEF IsNode, InArena
<1> HIDE DEF leaf
<1>4. /\ HeapInv(g) /\ g.next = a.next /\ g.hwm = a.hwm
      /\ \A p \in Offset(a) : p # off => g.node[p] = a.node[p]
  BY <1>2, <1>3, PutType
<1> HIDE DEF g
<1>5. ASSUME ~Refcounting, NEW p \in 1 .. (a.hwm - 1)
      PROVE  g.node[p] = a.node[p]
  <2>1. p \in Offset(a) /\ p # off
    BY <1>1, <1>2, <1>5 DEF Offset
  <2> QED
    BY <2>1, <1>4
<1>6. Extends(a, g)
  BY <1>2, <1>4, <1>5 DEF Extends
<1>7. o < g.next
  BY <1>2, <1>4
<1>8. Extends(g, d) /\ d.next = g.next
  BY <1>4, <1>7, AdjustType, AdjustExtends
<1> HIDE DEF d
<1>9. Extends(h, g)
  BY <1>1, <1>6, ExtendsTrans
<1>10. Extends(h, d)
  BY <1>8, <1>9, ExtendsTrans
<1>11. off \in Nat /\ off < d.next
  BY <1>1, <1>4, <1>8
<1> QED
  BY <1>10, <1>11 DEF d, g, a, leaf, off

(* A call that starts going down from the root, with nothing on the stack. *)
LEMMA Begun ==
  ASSUME IInv, pc = "idle", Extends(heap, heap'), NEW t \in Trees,
         cur' = roots[t], must' \in BOOLEAN, pc' \in {"insert", "remove"},
         call' \in Call, call'.node < heap'.next,
         call'.op = "insert" => call'.tree \in Trees /\ call'.lo \in Keys,
         updates' \in Updates,
         UNCHANGED <<stack, ret, removed, leftmost, todo>>,
         UNCHANGED <<roots, kept, snaps>>
  PROVE  IInv' /\ Frozen
<1>1. heap.next \in Nat /\ heap'.next \in Nat /\ heap.next <= heap'.next
  BY InvHeap, ExtendsNext
<1>2. CallerOK(heap.next) /\ PathOK
  BY InvParts
<1>3. roots[t] \in Nat /\ roots[t] < heap.next
  BY <1>2 DEF CallerOK
<1>4. CallOK(heap.next)'
  BY <1>1, <1>3 DEF CallOK
<1>5. HeapPart' /\ Frozen
  BY HeapPartKept
<1>6. StackOK(heap.next)' /\ LocalsOK(heap.next)' /\ TodoOK(heap.next)'
  BY StackKept, LocalsKept, TodoKept
<1>7. CallerOK(heap.next)'
  BY CallerKept
<1>8. stack = <<>>
  BY <1>2 DEF PathOK
<1>9. PathOK'
  BY <1>8 DEF PathOK, NoReplace
<1> QED
  BY <1>4, <1>5, <1>6, <1>7, <1>9, IInvParts

LEMMA BeginInsertInv ==
  ASSUME NEW t \in Trees, NEW k \in Keys, IInv, BeginInsert(t, k)
  PROVE  IInv' /\ Frozen
<1> DEFINE off == AllocOffset(heap)
           g == Put(AllocNode(heap),
                    [offset |-> off, lc |-> 0, rc |-> 0, height |-> 1,
                     key |-> k, ann |-> {k}])
           c == [op |-> "insert", tree |-> t, lo |-> k, hi |-> k, node |-> off]
<1>1. /\ pc = "idle" /\ must' = Immutable(g, Get(g, roots[t]))
      /\ heap' = AdjustRefcount(g, roots[t], -1)
      /\ call' = c /\ pc' = "insert" /\ cur' = roots[t]
      /\ updates' = Counting("insert")
      /\ UNCHANGED <<stack, ret, removed, leftmost, todo>>
      /\ UNCHANGED <<roots, kept, snaps>>
  BY DEF BeginInsert, Called
<1>2. roots[t] \in Nat /\ roots[t] < heap.next
  BY InvParts DEF CallerOK
<1>3. HeapInv(heap)
  BY InvHeap
<1>4. Extends(heap, heap') /\ off \in Nat /\ off < heap'.next
  BY <1>1, <1>2, <1>3, BeginInsertHeap
<1>5. must' \in BOOLEAN
  BY <1>1, ImmutableType
<1> HIDE DEF off, g
<1>6. c \in Call /\ c.node = off
  BY <1>4, KeysAssumption DEF Call
<1>7. call'.op = "insert" => call'.tree \in Trees /\ call'.lo \in Keys
  BY <1>1
<1> HIDE DEF c
<1> QED
  BY <1>1, <1>4, <1>5, <1>6, <1>7, CountingType, Begun

LEMMA BeginRemoveInv ==
  ASSUME NEW t \in Trees, NEW lo \in Nat, NEW hi \in Nat,
         IInv, BeginRemove(t, lo, hi)
  PROVE  IInv' /\ Frozen
<1> DEFINE c == [op |-> "remove", tree |-> t, lo |-> lo, hi |-> hi, node |-> Null]
<1>1. /\ pc = "idle" /\ must' = Immutable(heap, Get(heap, roots[t]))
      /\ heap' = AdjustRefcount(heap, roots[t], -1)
      /\ call' = c /\ pc' = "remove" /\ cur' = roots[t]
      /\ updates' = Counting("remove")
      /\ UNCHANGED <<stack, ret, removed, leftmost, todo>>
      /\ UNCHANGED <<roots, kept, snaps>>
  BY DEF BeginRemove, Called
<1>2. roots[t] \in Nat /\ roots[t] < heap.next
  BY InvParts DEF CallerOK
<1>3. Extends(heap, heap') /\ heap'.next = heap.next
  BY <1>1, <1>2, Adjusted
<1>4. must' \in BOOLEAN
  BY <1>1, ImmutableType
<1>5. c \in Call /\ c.node = 0
  BY DEF Call, Null
<1>6. call'.op # "insert"
  BY <1>1
<1> HIDE DEF c
<1>7. heap'.next \in Nat \ {0}
  BY <1>3, InvHeap
<1>8. call'.node < heap'.next
  BY <1>1, <1>5, <1>7
<1> QED
  BY <1>1, <1>3, <1>4, <1>5, <1>6, <1>8, CountingType, Begun

(* A step that changes none of the running operation's locals. *)
LEMMA OpKept ==
  ASSUME IInv, Extends(heap, heap'), heap'.next = heap.next, pc' = pc,
         UNCHANGED <<call, cur, must, stack, ret, removed, leftmost>>
  PROVE  /\ CallOK(heap.next)' /\ StackOK(heap.next)' /\ LocalsOK(heap.next)'
         /\ PathOK'
<1>1. CallOK(heap.next) /\ PathOK
  BY InvParts
<1>2. CallOK(heap.next)'
  BY <1>1 DEF CallOK
<1>3. StackOK(heap.next)' /\ LocalsOK(heap.next)'
  BY StackKept, LocalsKept
<1>4. PathOK'
  BY <1>1 DEF PathOK, NoReplace
<1> QED
  BY <1>2, <1>3, <1>4

LEMMA CloneTreeInv ==
  ASSUME NEW t \in Trees, NEW u \in Trees, IInv, CloneTree(t, u)
  PROVE  IInv' /\ Frozen
<1>1. /\ heap' = AdjustRefcount(heap, roots[t], 1)
      /\ roots' = [roots EXCEPT ![u] = roots[t]]
      /\ kept' = [kept EXCEPT ![u] = kept[t]]
      /\ updates' = Counting("clone") /\ pc' = pc
      /\ UNCHANGED <<call, cur, must, stack, ret, removed, leftmost>>
      /\ todo' = todo /\ snaps' = snaps
  BY DEF CloneTree, Called, opvars
<1>2. CallerOK(heap.next)
  BY InvParts
<1>3. roots[t] \in Nat /\ roots[t] < heap.next /\ updates' \in Updates
  BY <1>1, <1>2, CountingType DEF CallerOK
<1>4. Extends(heap, heap') /\ heap'.next = heap.next
  BY <1>1, <1>3, Adjusted
<1>5. HeapPart' /\ Frozen
  BY <1>1, <1>4, HeapPartKept
<1>6. /\ CallOK(heap.next)' /\ StackOK(heap.next)' /\ LocalsOK(heap.next)'
      /\ PathOK'
  BY <1>1, <1>4, OpKept
<1>7. TodoOK(heap.next)'
  BY <1>1, <1>4, TodoKept
<1>8. kept' \in [Trees -> SUBSET Keys]
  <2>1. kept \in [Trees -> SUBSET Keys]
    BY <1>2 DEF CallerOK
  <2>2. kept[t] \in SUBSET Keys
    BY <2>1
  <2> QED
    BY <2>1, <2>2, <1>1
<1>9. CallerOK(heap.next)'
  BY <1>1, <1>3, <1>4, <1>8, RootSet
<1> QED
  BY <1>5, <1>6, <1>7, <1>9, IInvParts

LEMMA FreeTreeInv ==
  ASSUME NEW t \in Trees, IInv, FreeTree(t)
  PROVE  IInv' /\ Frozen
<1> DEFINE c == [op |-> "free", tree |-> t, lo |-> 0, hi |-> 0, node |-> Null]
<1>1. /\ pc = "idle" /\ Refcounting /\ heap' = heap /\ roots[t] # Null
      /\ roots' = [roots EXCEPT ![t] = Null]
      /\ kept' = [kept EXCEPT ![t] = {}]
      /\ todo' = <<[o |-> roots[t], adj |-> -1, push |-> FALSE]>>
      /\ pc' = "free" /\ call' = c
      /\ updates' = Counting("free") /\ snaps' = snaps
      /\ UNCHANGED <<cur, must>> /\ stack' = stack
      /\ UNCHANGED <<ret, removed, leftmost>>
  BY DEF FreeTree, Called
<1>2. CallerOK(heap.next) /\ CallOK(heap.next) /\ PathOK
  BY InvParts
<1>3. roots[t] \in Nat /\ roots[t] < heap.next /\ updates' \in Updates
  BY <1>1, <1>2, CountingType DEF CallerOK
<1>4. Extends(heap, heap') /\ heap.next \in Nat \ {0}
  BY <1>1, HeapUnchanged, InvHeap
<1>5. HeapPart' /\ Frozen
  BY <1>1, <1>4, HeapPartKept
<1>6. StackOK(heap.next)' /\ LocalsOK(heap.next)'
  BY <1>1, <1>4, StackKept, LocalsKept
<1>8. c \in Call /\ c.node = 0 /\ c.op # "insert"
  BY DEF Call, Null
<1> HIDE DEF c
<1>9. CallOK(heap.next)'
  BY <1>1, <1>2, <1>4, <1>8 DEF CallOK
<1>10. PathOK'
  BY <1>1, <1>2 DEF PathOK
<1>11. TodoOK(heap.next)'
  BY <1>1, <1>3 DEF TodoOK, Pending, Null
<1>12. kept' \in [Trees -> SUBSET Keys]
  <2>1. kept \in [Trees -> SUBSET Keys] /\ {} \in SUBSET Keys
    BY <1>2 DEF CallerOK
  <2> QED
    BY <2>1, <1>1
<1>13. CallerOK(heap.next)'
  <2>1. 0 \in Nat /\ 0 < heap'.next /\ roots' = [roots EXCEPT ![t] = 0]
    BY <1>1, <1>4 DEF Null
  <2> QED
    BY <2>1, <1>1, <1>3, <1>4, <1>12, RootSet
<1> QED
  BY <1>5, <1>6, <1>9, <1>10, <1>11, <1>13, IInvParts

LEMMA SeqConcat ==
  ASSUME NEW S, NEW a \in Seq(S), NEW b \in Seq(S)
  PROVE  a \o b \in Seq(S)
  OBVIOUS

(* The pending calls of free_node, as a sequence over one set.             *)
Pends(next) == {p \in Pending : p.o < next}

LEMMA PendsSeq ==
  ASSUME NEW next, NEW s
  PROVE  s \in Seq(Pends(next)) <=>
           s \in Seq(Pending) /\ \A i \in 1 .. Len(s) : s[i].o < next
<1>1. ASSUME s \in Seq(Pending), \A i \in 1 .. Len(s) : s[i].o < next
      PROVE  s \in Seq(Pends(next))
  <2>1. \A i \in 1 .. Len(s) : s[i] \in Pends(next)
    BY <1>1 DEF Pends
  <2>2. s \in [1 .. Len(s) -> Pends(next)]
    BY <1>1, <2>1
  <2> QED
    BY <1>1, <2>2
<1>2. ASSUME s \in Seq(Pends(next))
      PROVE  s \in Seq(Pending) /\ \A i \in 1 .. Len(s) : s[i].o < next
  <2>1. \A i \in 1 .. Len(s) : s[i] \in Pends(next)
    BY <1>2
  <2>2. \A i \in 1 .. Len(s) : s[i] \in Pending /\ s[i].o < next
    BY <2>1 DEF Pends
  <2>3. s \in [1 .. Len(s) -> Pending]
    BY <1>2, <2>2
  <2> QED
    BY <1>2, <2>2, <2>3
<1> QED
  BY <1>1, <1>2

LEMMA DropLinkType ==
  ASSUME NEW next, NEW c \in Nat, c < next
  PROVE  DropLink(c) \in Seq(Pends(next))
<1>1. CASE c = Null
  <2>1. DropLink(c) = <<>>
    BY <1>1 DEF DropLink
  <2> QED
    BY <2>1
<1>2. CASE c # Null
  <2> DEFINE p == [o |-> c, adj |-> -1, push |-> FALSE]
  <2>1. p \in Pends(next)
    BY <1>2 DEF Pends, Pending, Null
  <2>2. DropLink(c) = <<p>>
    BY <1>2 DEF DropLink
  <2> HIDE DEF p
  <2> QED
    BY <2>1, <2>2
<1> QED
  BY <1>1, <1>2

LEMMA FreeNodeInv == IInv /\ FreeNode => IInv' /\ Frozen
<1> SUFFICES ASSUME IInv, FreeNode
             PROVE  IInv' /\ Frozen
  OBVIOUS
<1> DEFINE o == Head(todo).o
           h == AdjustRefcount(heap, o, Head(todo).adj)
           p == [o |-> o, adj |-> 0, push |-> TRUE]
           P == Pends(heap.next)
           new == DropLink(h.node[o].lc) \o DropLink(h.node[o].rc) \o <<p>>
<1>1. /\ todo # <<>> /\ heap' = h /\ pc' = pc
      /\ todo' = (IF h.refcount[o] > 0 THEN <<>> ELSE new) \o Tail(todo)
      /\ UNCHANGED <<call, cur, must, stack, ret, removed, leftmost>>
      /\ UNCHANGED <<roots, kept, snaps>> /\ updates' = updates
  BY DEF FreeNode
<1>2. todo \in Seq(Pends(heap.next))
  BY InvParts, PendsSeq DEF TodoOK
<1>3. Head(todo) \in P /\ Tail(todo) \in Seq(P)
  BY <1>1, <1>2, SeqPop
<1>4. /\ o \in Nat \ {0} /\ o < heap.next /\ Head(todo).adj \in Int
  BY <1>3 DEF Pends, Pending
<1>5. HeapInv(heap)
  BY InvHeap
<1>6. Extends(heap, h) /\ h.next = heap.next /\ h.node = heap.node
  BY <1>4, <1>5, AdjustType, AdjustExtends
<1>7. p \in P
  BY <1>4 DEF Pends, Pending
<1> HIDE DEF o, h, P, p
<1>8. /\ h.node[o].lc \in Nat /\ h.node[o].lc < heap.next
      /\ h.node[o].rc \in Nat /\ h.node[o].rc < heap.next
  <2>1. o \in Offset(heap)
    BY <1>4, <1>5 DEF Offset, HeapInv, HeapOK
  <2>2. /\ heap.node[o] \in Node
        /\ heap.node[o].lc < heap.next /\ heap.node[o].rc < heap.next
    BY <2>1, <1>5 DEF HeapInv, HeapOK
  <2> QED
    BY <2>2, <1>6 DEF Node
<1>9. DropLink(h.node[o].lc) \in Seq(P) /\ DropLink(h.node[o].rc) \in Seq(P)
  BY <1>8, DropLinkType DEF P
<1>10. <<p>> \in Seq(P)
  BY <1>7
<1>11. new \in Seq(P)
  BY <1>9, <1>10, SeqConcat
<1> HIDE DEF new
<1>12. (IF h.refcount[o] > 0 THEN <<>> ELSE new) \in Seq(P)
  BY <1>11
<1>13. todo' \in Seq(P)
  BY <1>1, <1>3, <1>12, SeqConcat
<1>14. Extends(heap, heap') /\ heap'.next = heap.next
  BY <1>1, <1>6
<1>15. TodoOK(heap.next)'
  BY <1>13, <1>14, PendsSeq DEF TodoOK, P
<1>16. HeapPart' /\ Frozen
  BY <1>1, <1>14, HeapPartKept
<1>17. /\ CallOK(heap.next)' /\ StackOK(heap.next)' /\ LocalsOK(heap.next)'
       /\ PathOK'
  BY <1>1, <1>14, OpKept
<1>18. updates' \in Updates
  BY <1>1, InvParts DEF CallerOK
<1>19. CallerOK(heap.next)'
  BY <1>1, <1>14, <1>18, CallerKept
<1> QED
  BY <1>15, <1>16, <1>17, <1>19, IInvParts

LEMMA PushFreeInv == IInv /\ PushFree => IInv' /\ Frozen
<1> SUFFICES ASSUME IInv, PushFree
             PROVE  IInv' /\ Frozen
  OBVIOUS
<1>a. Refcounting
  BY InvParts DEF PathOK, PushFree
<1> DEFINE free == <<Head(todo).o>> \o heap.free
<1>1. /\ todo # <<>> /\ pc' = pc /\ todo' = Tail(todo)
      /\ heap' = Heap(heap.node, heap.refcount, heap.next, free, heap.hwm)
      /\ UNCHANGED <<call, cur, must, stack, ret, removed, leftmost>>
      /\ UNCHANGED <<roots, kept, snaps>> /\ updates' = updates
  BY DEF PushFree
<1>2. todo \in Seq(Pends(heap.next))
  BY InvParts, PendsSeq DEF TodoOK
<1>3. Head(todo) \in Pends(heap.next) /\ Tail(todo) \in Seq(Pends(heap.next))
  BY <1>1, <1>2, SeqPop
<1>4. Head(todo).o \in Nat \ {0} /\ Head(todo).o < heap.next
  BY <1>3 DEF Pends, Pending
<1>5. HeapInv(heap)
  BY InvHeap
<1>6. heap.free \in Seq(Nat \ {0})
      /\ \A i \in 1 .. Len(heap.free) : heap.free[i] < heap.next
  BY <1>5 DEF HeapInv, HeapOK
<1>7. /\ free \in Seq(Nat \ {0})
      /\ \A i \in 1 .. Len(free) :
           IF i = 1 THEN free[i] = Head(todo).o
           ELSE i - 1 \in 1 .. Len(heap.free) /\ free[i] = heap.free[i - 1]
  BY <1>4, <1>6, SeqPush
<1> HIDE DEF free
<1>8. \A i \in 1 .. Len(free) : free[i] < heap.next
  BY <1>4, <1>6, <1>7
<1>9. /\ heap'.node = heap.node /\ heap'.refcount = heap.refcount
      /\ heap'.next = heap.next /\ heap'.free = free /\ heap'.hwm = heap.hwm
  BY <1>1 DEF Heap
<1>10. HeapInv(heap')
  BY <1>a, <1>5, <1>7, <1>8, <1>9 DEF HeapInv, HeapOK, Offset
<1>11. Extends(heap, heap')
  BY <1>a, <1>5, <1>9, <1>10 DEF Extends, HeapInv, HeapOK
<1>12. TodoOK(heap.next)'
  BY <1>1, <1>3, <1>9, PendsSeq DEF TodoOK
<1>13. HeapPart' /\ Frozen
  BY <1>1, <1>11, HeapPartKept
<1>14. /\ CallOK(heap.next)' /\ StackOK(heap.next)' /\ LocalsOK(heap.next)'
       /\ PathOK'
  BY <1>1, <1>9, <1>11, OpKept
<1>15. updates' \in Updates
  BY <1>1, InvParts DEF CallerOK
<1>16. CallerOK(heap.next)'
  BY <1>1, <1>11, <1>15, CallerKept
<1> QED
  BY <1>12, <1>13, <1>14, <1>16, IInvParts

LEMMA FreeReturnInv == IInv /\ FreeReturn => IInv' /\ Frozen
<1> SUFFICES ASSUME IInv, FreeReturn
             PROVE  IInv' /\ Frozen
  OBVIOUS
<1>1. /\ heap' = heap /\ ForgetOp /\ todo' = todo
      /\ UNCHANGED <<roots, kept, snaps>> /\ updates' = updates
  BY DEF FreeReturn
<1>2. Extends(heap, heap')
  BY <1>1, HeapUnchanged
<1>3. HeapPart' /\ Frozen
  BY <1>1, <1>2, HeapPartKept
<1>4. /\ CallOK(heap.next)' /\ StackOK(heap.next)' /\ LocalsOK(heap.next)'
      /\ PathOK'
  BY <1>1, <1>2, Forgotten
<1>5. updates' \in Updates
  BY <1>1, InvParts DEF CallerOK
<1>6. TodoOK(heap.next)' /\ CallerOK(heap.next)'
  BY <1>1, <1>2, <1>5, TodoKept, CallerKept
<1> QED
  BY <1>3, <1>4, <1>6, IInvParts

(* commit() is where saved roots come to count as frozen: that they, and   *)
(* the links of every node there is, lie below the new high-water mark is  *)
(* what TypeOK says of the arena's end.                                    *)
LEMMA CommitInv == IInv /\ Commit => IInv' /\ Frozen
<1> SUFFICES ASSUME IInv, Commit
             PROVE  IInv' /\ Frozen
  OBVIOUS
<1> DEFINE snap == [root |-> roots, keys |-> kept]
<1>1. /\ ~Refcounting /\ pc' = pc /\ updates' = Counting("commit")
      /\ heap' = Heap(heap.node, heap.refcount, heap.next, heap.free, heap.next)
      /\ snaps' = Append(snaps, snap)
      /\ UNCHANGED <<call, cur, must, stack, ret, removed, leftmost>>
      /\ todo' = todo /\ UNCHANGED <<roots, kept>>
  BY DEF Commit, Called, opvars
<1>2. /\ heap'.node = heap.node /\ heap'.refcount = heap.refcount
      /\ heap'.next = heap.next /\ heap'.free = heap.free
      /\ heap'.hwm = heap.next
  BY <1>1 DEF Heap
<1>3. HeapOK(heap) /\ heap.next \in Nat \ {0} /\ heap.free = <<>>
      /\ heap.hwm \in 1 .. heap.next
  BY <1>1, InvHeap DEF HeapInv, HeapOK
<1>4. HeapOK(heap')
  BY <1>2, <1>3 DEF HeapOK, Offset
<1>5. ModeOK'
  BY <1>1, <1>2, <1>3 DEF ModeOK
<1>6. CallerOK(heap.next) /\ CallOK(heap.next) /\ StackOK(heap.next)
      /\ LocalsOK(heap.next) /\ TodoOK(heap.next) /\ PathOK
  BY InvParts
<1>7. snap \in Snap
  BY <1>6 DEF CallerOK, Snap
<1>8. /\ Len(snaps') = Len(snaps) + 1 /\ snaps'[Len(snaps) + 1] = snap
      /\ \A i \in 1 .. Len(snaps) : snaps'[i] = snaps[i]
      /\ snaps' \in Seq(Snap) /\ snaps \in Seq(Snap)
      /\ Len(snaps) \in Nat
  BY <1>1, <1>6, <1>7 DEF CallerOK
<1>9. SavedTreesFrozen'
  <2>1. ASSUME NEW i \in 1 .. Len(snaps'), NEW t \in Trees
        PROVE  snaps'[i].root[t] < heap.next
    <3>1. CASE i = Len(snaps) + 1
      BY <3>1, <1>6, <1>8 DEF CallerOK
    <3>2. CASE i # Len(snaps) + 1
      <4>1. i \in 1 .. Len(snaps) /\ snaps'[i] = snaps[i]
        BY <3>2, <1>8
      <4>2. snaps[i] \in Snap
        BY <4>1, <1>8
      <4>3. snaps[i].root \in [Trees -> Nat]
        BY <4>2 DEF Snap
      <4>4. snaps[i].root[t] \in Nat
        BY <4>3
      <4>5. snaps[i].root[t] < heap.hwm
        BY <4>1 DEF IInv, SavedTreesFrozen
      <4> QED
        BY <1>3, <4>1, <4>4, <4>5
    <3> QED
      BY <3>1, <3>2
  <2>2. \A o \in 1 .. (heap.next - 1) :
          heap.node[o].lc < heap.next /\ heap.node[o].rc < heap.next
    BY <1>3 DEF HeapOK, Offset
  <2> QED
    BY <1>2, <2>1, <2>2 DEF SavedTreesFrozen
<1>10. Frozen
  BY <1>2 DEF Frozen
<1>11. CallerOK(heap.next)'
  BY <1>1, <1>2, <1>6, <1>8, CountingType DEF CallerOK
<1>12. /\ CallOK(heap.next)' /\ StackOK(heap.next)' /\ LocalsOK(heap.next)'
       /\ TodoOK(heap.next)'
  BY <1>1, <1>2, <1>6 DEF CallOK, StackOK, LocalsOK, TodoOK
<1>13. PathOK'
  BY <1>1, <1>6 DEF PathOK, NoReplace
<1> QED
  BY <1>4, <1>5, <1>9, <1>10, <1>11, <1>12, <1>13, IInvParts DEF HeapPart

LEMMA StutterInv == IInv /\ UNCHANGED vars => IInv' /\ Frozen
<1> SUFFICES ASSUME IInv, UNCHANGED vars
             PROVE  IInv' /\ Frozen
  OBVIOUS
<1>1. /\ heap' = heap /\ pc' = pc
      /\ UNCHANGED <<call, cur, must, stack, ret, removed, leftmost>>
      /\ todo' = todo /\ UNCHANGED <<roots, kept, snaps>> /\ updates' = updates
  BY DEF vars
<1>2. Extends(heap, heap')
  BY <1>1, HeapUnchanged
<1>3. HeapPart' /\ Frozen
  BY <1>1, <1>2, HeapPartKept
<1>4. /\ CallOK(heap.next)' /\ StackOK(heap.next)' /\ LocalsOK(heap.next)'
      /\ PathOK'
  BY <1>1, <1>2, OpKept
<1>5. updates' \in Updates
  BY <1>1, InvParts DEF CallerOK
<1>6. TodoOK(heap.next)' /\ CallerOK(heap.next)'
  BY <1>1, <1>2, <1>5, TodoKept, CallerKept
<1> QED
  BY <1>3, <1>4, <1>6, IInvParts

-----------------------------------------------------------------------------
LEMMA InitInv == Init => IInv
<1> SUFFICES ASSUME Init
             PROVE  IInv
  OBVIOUS
<1>1. /\ heap = Heap(<<>>, <<>>, 1, <<>>, 1)
      /\ pc = "idle" /\ call = NoCall /\ cur = Null /\ must = FALSE
      /\ stack = <<>> /\ todo = <<>>
      /\ ret = NullNode /\ removed = NullNode /\ leftmost = NullNode
      /\ roots = [t \in Trees |-> Null] /\ kept = [t \in Trees |-> {}]
      /\ snaps = <<>> /\ updates = [n |-> 0, removes |-> FALSE, clones |-> FALSE]
  BY DEF Init
<1>2. /\ heap.node = <<>> /\ heap.refcount = <<>> /\ heap.next = 1
      /\ heap.free = <<>> /\ heap.hwm = 1
  BY <1>1 DEF Heap
<1>3. HeapOK(heap)
  <2>1. Offset(heap) = {}
    BY <1>2 DEF Offset
  <2>2. /\ <<>> \in [Offset(heap) -> Node] /\ <<>> \in [Offset(heap) -> Int]
    BY <2>1
  <2> QED
    BY <1>2, <2>1, <2>2 DEF HeapOK
<1>4. ModeOK
  BY <1>1, <1>2 DEF ModeOK
<1>5. SavedTreesFrozen
  BY <1>1, <1>2 DEF SavedTreesFrozen
<1>6. CallOK(heap.next)
  <2>1. NoCall \in Call
    BY DEF NoCall, Call, Null
  <2>2. NoCall.node = 0 /\ NoCall.op # "insert"
    BY DEF NoCall, Null
  <2>3. must \in BOOLEAN
    BY <1>1
  <2> QED
    BY <1>1, <1>2, <2>1, <2>2, <2>3 DEF CallOK, Null
<1>7. NullNode \in Struct /\ InArena(NullNode, 1)
  BY DEF NullNode, Struct, InArena, Key
<1>8. LocalsOK(heap.next) /\ StackOK(heap.next) /\ PathOK /\ TodoOK(heap.next)
  BY <1>1, <1>2, <1>7 DEF LocalsOK, StackOK, PathOK, TodoOK
<1>9. CallerOK(heap.next)
  BY <1>1, <1>2 DEF CallerOK, Null, Updates
<1> QED
  BY <1>3, <1>4, <1>5, <1>6, <1>8, <1>9 DEF IInv, TypeOK

LEMMA NextInv == IInv /\ [Next]_vars => IInv' /\ Frozen
<1> SUFFICES ASSUME IInv, [Next]_vars
             PROVE  IInv' /\ Frozen
  OBVIOUS
<1>1. CASE Step
  BY <1>1, InsertDescendInv, InsertAtNullInv, InsertUnwindInv, InsertReturnInv,
     RemoveNotFoundInv, RemoveDescendInv, RemoveHereInv, RemoveTwoChildrenInv,
     RemoveUnwindSameInv, RemoveUnwindInv, RemoveUnwindReplaceInv,
     RemoveReturnInv, FreeNodeInv, PushFreeInv, FreeReturnInv DEF Step
<1>2. ASSUME NEW t \in Trees, NEW k \in Keys, BeginInsert(t, k)
      PROVE  IInv' /\ Frozen
  BY <1>2, BeginInsertInv
<1>3. ASSUME NEW t \in Trees, NEW f \in Finders, BeginRemove(t, f[1], f[2])
      PROVE  IInv' /\ Frozen
  <2>1. f[1] \in Nat /\ f[2] \in Nat
    BY FindersAssumption
  <2> QED
    BY <1>3, <2>1, BeginRemoveInv
<1>4. ASSUME NEW t \in Trees, NEW u \in Trees, CloneTree(t, u)
      PROVE  IInv' /\ Frozen
  BY <1>4, CloneTreeInv
<1>5. ASSUME NEW t \in Trees, FreeTree(t)
      PROVE  IInv' /\ Frozen
  BY <1>5, FreeTreeInv
<1>6. CASE Commit
  BY <1>6, CommitInv
<1>7. CASE ReadOnly \/ UNCHANGED vars
  BY <1>7, StutterInv DEF ReadOnly
<1> QED
  BY <1>1, <1>2, <1>3, <1>4, <1>5, <1>6, <1>7 DEF Next

(***************************************************************************)
(* Every pointer the tree code follows stays in the arena: the assertion   *)
(* in Arena::getptr() (disktree.hh) never fires for a tree offset, in      *)
(* either mode, at any point inside an operation, and a level of the       *)
(* recursion always has a node to return to.                               *)
(***************************************************************************)
THEOREM TypeCorrect == Spec => []TypeOK
<1>1. Init => IInv
  BY InitInv
<1>2. IInv /\ [Next]_vars => IInv'
  BY NextInv
<1>3. IInv => TypeOK
  BY DEF IInv
<1> QED
  BY <1>1, <1>2, <1>3, PTL DEF Spec

(***************************************************************************)
(* commit() makes nodes immutable (disktree.hh): no step of any operation, *)
(* for any keys and any number of updates, writes to a committed node.     *)
(***************************************************************************)
THEOREM CommittedNodesFrozen == Spec => CommittedFrozen
<1>1. Init => IInv
  BY InitInv
<1>2. IInv /\ [Next]_vars => IInv'
  BY NextInv
<1>3. IInv /\ [Next]_vars =>
        [\A o \in 1 .. (heap.hwm - 1) : heap'.node[o] = heap.node[o]]_vars
  BY NextInv DEF Frozen
<1> QED
  BY <1>1, <1>2, <1>3, PTL DEF Spec, CommittedFrozen

(***************************************************************************)
(* Saved roots, and whatever is reachable from them, lie among the         *)
(* committed nodes, which the theorem above says never change: a saved     *)
(* tree stays valid for ever.                                              *)
(***************************************************************************)
THEOREM SavedTreesStayFrozen == Spec => []SavedTreesFrozen
<1>1. Init => IInv
  BY InitInv
<1>2. IInv /\ [Next]_vars => IInv'
  BY NextInv
<1>3. IInv => SavedTreesFrozen
  BY DEF IInv
<1> QED
  BY <1>1, <1>2, <1>3, PTL DEF Spec
=============================================================================
