------------------------------ MODULE AVLHeap ------------------------------
(***************************************************************************)
(* The node store under AVLDisk (include/libtarmac/disktree.hh): the part  *)
(* of an Arena that holds one tree's nodes, and the helpers every tree     *)
(* operation is built from.  Offsets count nodes, 0 is the null pointer.   *)
(*                                                                         *)
(* A heap is a record                                                      *)
(*   node      the disknode at each allocated offset, without its refcount *)
(*   refcount  the refcount field of that disknode                         *)
(*   next      arena.curr_offset(): where the next allocation will go      *)
(*   free      the free list, freehead first                               *)
(*   hwm       the high-water mark set by commit()                         *)
(* and every helper takes a heap and returns one, so that a C++ statement  *)
(* sequence reads as a chain of LETs.                                      *)
(*                                                                         *)
(* The annotation of a node is modelled by the most general one the code   *)
(* could be instantiated with: the set of the payloads it was computed     *)
(* from.  Annotation(p) is {p}, and the combining constructor is union.    *)
(***************************************************************************)
EXTENDS Integers, Sequences

CONSTANTS
  Refcounting,  \* the constructor's flag: copy-on-write by refcount, or by hwm
  Keys          \* payloads, compared by their order

ASSUME RefcountingAssumption == Refcounting \in BOOLEAN
ASSUME KeysAssumption == Keys \subseteq Nat

NoKey == -1

Offset(h) == 1 .. (h.next - 1)

Max2(a, b) == IF a >= b THEN a ELSE b

(* struct node for the null offset, and get(). *)
NullNode ==
  [offset |-> 0, lc |-> 0, rc |-> 0, height |-> 0, key |-> NoKey, ann |-> {}]

Get(h, o) ==
  IF o = 0
  THEN NullNode
  ELSE [offset |-> o, lc |-> h.node[o].lc, rc |-> h.node[o].rc,
        height |-> h.node[o].height, key |-> h.node[o].key,
        ann |-> h.node[o].ann]

Heap(node, refcount, next, free, hwm) ==
  [node |-> node, refcount |-> refcount, next |-> next, free |-> free,
   hwm |-> hwm]

(* put(): everything but the refcount goes back to the disknode. *)
Put(h, n) ==
  Heap([h.node EXCEPT ![n.offset] = [lc |-> n.lc, rc |-> n.rc,
                                     height |-> n.height, key |-> n.key,
                                     ann |-> n.ann]],
       h.refcount, h.next, h.free, h.hwm)

(* adjust_refcount(): a no-op on the null pointer and in hwm mode. *)
AdjustRefcount(h, o, adj) ==
  IF ~Refcounting \/ o = 0
  THEN h
  ELSE Heap(h.node, [h.refcount EXCEPT ![o] = @ + adj], h.next, h.free, h.hwm)

(* alloc_node(): the head of the free list, or else fresh arena space.     *)
(* BlankNode stands for the bytes of fresh space, which every caller       *)
(* overwrites with put() before anything reads them.                       *)
BlankNode == [lc |-> 0, rc |-> 0, height |-> 0, key |-> NoKey, ann |-> {}]

AllocOffset(h) == IF h.free # <<>> THEN Head(h.free) ELSE h.next

AllocNode(h) ==
  IF h.free # <<>>
  THEN Heap(h.node, [h.refcount EXCEPT ![Head(h.free)] = 0], h.next,
            Tail(h.free), h.hwm)
  ELSE Heap([o \in 1 .. h.next |-> IF o = h.next THEN BlankNode ELSE h.node[o]],
            [o \in 1 .. h.next |-> IF o = h.next THEN 0 ELSE h.refcount[o]],
            h.next + 1, h.free, h.hwm)

(* Mutant of Immutable: the newest committed node is taken to be mutable.   *)
ImmutableButLast(h, n) ==
  IF Refcounting
  THEN n.offset # 0 /\ h.refcount[n.offset] > 1
  ELSE n.offset < h.hwm - 1

(* immutable().  In refcounting mode the code also reads a "refcount" at   *)
(* offset 0 when the tree is empty; both callers ignore the answer then,   *)
(* so any answer will do and the model takes FALSE.                        *)
Immutable(h, n) ==
  IF Refcounting
  THEN n.offset # 0 /\ h.refcount[n.offset] > 1
  ELSE n.offset < h.hwm

(***************************************************************************)
(* rewrite(): give n new children, in place if nobody else can see it, in  *)
(* a clone otherwise.  Returns the heap and the node as it now stands.     *)
(***************************************************************************)
(* Mutant of MustClone: must_modify is not looked at, so a node that is not *)
(* shared itself but hangs off one that is gets written to.                *)
MustCloneIfImmutable(h, n, must) == Immutable(h, n)

MustClone(h, n, must) == Immutable(h, n) \/ must

RewriteOffset(h, n, must) ==
  IF MustClone(h, n, must) THEN AllocOffset(h) ELSE n.offset

(* Mutant of CloneNode: the clone does not count as an owner of rc.         *)
CloneNodeLeftOnly(h, n, must) ==
  IF MustClone(h, n, must)
  THEN AdjustRefcount(AllocNode(h), n.lc, 1)
  ELSE h

(* A clone is one more owner of the children it copies. *)
CloneNode(h, n, must) ==
  IF MustClone(h, n, must)
  THEN AdjustRefcount(AdjustRefcount(AllocNode(h), n.lc, 1), n.rc, 1)
  ELSE h

Relink(h, lc, newlc, rc, newrc) ==
  AdjustRefcount(AdjustRefcount(
    AdjustRefcount(AdjustRefcount(h, lc, -1), newlc, 1), rc, -1), newrc, 1)

(* Mutant of Rebuilt: the annotation leaves the right subtree out.          *)
RebuiltLeftOnly(h, off, key, lc, rc) ==
  [offset |-> off, lc |-> lc, rc |-> rc,
   height |-> Max2(Get(h, lc).height, Get(h, rc).height) + 1,
   key |-> key, ann |-> Get(h, lc).ann \cup {key}]

(* The height and annotation are computed afresh from the children's. *)
Rebuilt(h, off, key, lc, rc) ==
  [offset |-> off, lc |-> lc, rc |-> rc,
   height |-> Max2(Get(h, lc).height, Get(h, rc).height) + 1,
   key |-> key, ann |-> Get(h, lc).ann \cup {key} \cup Get(h, rc).ann]

Rewrite(h, n, newlc, newrc, must) ==
  LET g == Relink(CloneNode(h, n, must), n.lc, newlc, n.rc, newrc)
      new == Rebuilt(g, RewriteOffset(h, n, must), n.key, newlc, newrc)
  IN [heap |-> Put(g, new), n |-> new]

RotateLeft(h, n, must) ==
  LET rc == Get(h, n.rc)
      low == Rewrite(h, n, n.lc, rc.lc, must)
  IN Rewrite(low.heap, rc, low.n.offset, rc.rc, must)

RotateRight(h, n, must) ==
  LET lc == Get(h, n.lc)
      low == Rewrite(h, n, lc.rc, n.rc, must)
  IN Rewrite(low.heap, lc, lc.lc, low.n.offset, must)

(* Mutant of FixLeftHeavy: no inner rotation.                               *)
FixLeftHeavySingle(h, root) ==
  IF Get(h, root.lc).height # Get(h, root.rc).height + 2
  THEN [heap |-> h, n |-> root]
  ELSE RotateRight(h, root, FALSE)

(***************************************************************************)
(* The rebalancing that insert_main and remove_main share, once the child  *)
(* the recursion changed has been linked into the root: a child two levels *)
(* taller than its sibling is rotated up, after a rotation of its own when *)
(* its inner side is the taller one.                                       *)
(***************************************************************************)
FixLeftHeavy(h, root) ==
  LET lc == Get(h, root.lc)
      k == Get(h, root.rc).height
      inner == RotateLeft(h, lc, FALSE)
      linked == Rewrite(inner.heap, root, inner.n.offset, root.rc, FALSE)
  IN IF lc.height # k + 2 THEN [heap |-> h, n |-> root]
     ELSE IF Get(h, lc.rc).height = k + 1
          THEN RotateRight(linked.heap, linked.n, FALSE)
          ELSE RotateRight(h, root, FALSE)

FixRightHeavy(h, root) ==
  LET rc == Get(h, root.rc)
      k == Get(h, root.lc).height
      inner == RotateRight(h, rc, FALSE)
      linked == Rewrite(inner.heap, root, root.lc, inner.n.offset, FALSE)
  IN IF rc.height # k + 2 THEN [heap |-> h, n |-> root]
     ELSE IF Get(h, rc.lc).height = k + 1
          THEN RotateLeft(linked.heap, linked.n, FALSE)
          ELSE RotateLeft(h, root, FALSE)

-----------------------------------------------------------------------------
Key == Keys \cup {NoKey}
Node == [lc : Nat, rc : Nat, height : Nat, key : Key, ann : SUBSET Key]
Struct == [offset : Nat, lc : Nat, rc : Nat, height : Nat, key : Key,
           ann : SUBSET Key]

(* No pointer leaves the arena: what getptr() asserts of every offset.     *)
InArena(n, next) == n.offset < next /\ n.lc < next /\ n.rc < next

HeapOK(h) ==
  /\ h.next \in Nat \ {0} /\ h.hwm \in 1 .. h.next
  /\ h.node \in [Offset(h) -> Node]
  /\ \A o \in Offset(h) : h.node[o].lc < h.next /\ h.node[o].rc < h.next
  /\ h.refcount \in [Offset(h) -> Int]
  /\ h.free \in Seq(Nat \ {0})
  /\ \A i \in 1 .. Len(h.free) : h.free[i] < h.next
=============================================================================
