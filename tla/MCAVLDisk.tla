----------------------------- MODULE MCAVLDisk -----------------------------
(***************************************************************************)
(* Properties of AVLDisk for TLC: those that need the recursive reading of *)
(* a heap as trees, and the refinement of PersistentSets.                  *)
(***************************************************************************)
EXTENDS AVLSearch, SequencesExt

(* Every single payload, and a range that straddles the middle ones. *)
PointsAndRange == {<<k, k>> : k \in Keys} \cup {<<2, 3>>}

Symmetry == Permutations(Trees)

Idle == pc = "idle"

(* Every root anybody may still use. *)
LiveRoots == {roots[t] : t \in Trees}
             \cup UNION {{snaps[i].root[t] : t \in Trees} : i \in DOMAIN snaps}

(***************************************************************************)
(* Each tree holds exactly what its owner put in and did not take out,     *)
(* trees nobody is updating do not change while another tree is being      *)
(* updated, and saved trees never change.  While a tree is being updated   *)
(* in place its old root may no longer be read: until the operation        *)
(* returns it stands for what its owner knows to be in it.                 *)
(***************************************************************************)
Abstract == INSTANCE PersistentSets WITH
  sets <- [t \in Trees |->
             IF pc \notin {"idle", "free"} /\ call.tree = t THEN kept[t]
             ELSE Contents(heap, roots[t])],
  saved <- [i \in DOMAIN snaps |->
              [t \in Trees |-> Contents(heap, snaps[i].root[t])]]

ImplementsSets == Abstract!Spec

(* The tree behind a root is searchable: find, find_leftmost,              *)
(* find_rightmost, pred and succ give, for every key finder, what the      *)
(* payloads put in say they should, in live and in saved trees alike.      *)
SearchesRight(root, keys) ==
  \A lo, hi \in Keys :
    LET key(o) == IF o = Null THEN NoKey ELSE heap.node[o].key
        found == key(Find(heap, root, lo, hi))
        hits == {k \in keys : lo <= k /\ k <= hi}
        above == {k \in keys : k > hi}
        below == {k \in keys : k < lo}
        least(s) == IF s = {} THEN NoKey ELSE Min(s)
        most(s) == IF s = {} THEN NoKey ELSE Max(s)
    IN lo <= hi =>
       /\ IF hits = {} THEN found = NoKey ELSE found \in hits
       /\ key(FindLeftmost(heap, root, lo, hi)) = least(hits)
       /\ key(FindRightmost(heap, root, lo, hi)) = most(hits)
       /\ key(Succ(heap, root, lo, hi)) = least(above)
       /\ key(Pred(heap, root, lo, hi)) = most(below)

SearchesCorrect ==
  Idle => /\ \A t \in Trees : SearchesRight(roots[t], kept[t])
          /\ \A i \in DOMAIN snaps, t \in Trees :
               SearchesRight(snaps[i].root[t], snaps[i].keys[t])

(* remove() reports a payload, one the finder accepts, exactly when there  *)
(* was one.                                                                *)
RemoveReportsTruth ==
  pc = "unwind" /\ call.op = "remove" /\ stack = <<>> =>
    LET hits == {k \in kept[call.tree] : call.lo <= k /\ k <= call.hi}
    IN IF removed.offset = Null THEN hits = {} ELSE removed.key \in hits

(* Whatever a caller asks is answered truthfully.                          *)
AnswersTrue == SearchesCorrect /\ RemoveReportsTruth

-----------------------------------------------------------------------------
(* Refcounting mode. *)

(* A node's refcount is the number of links and owners that lead to it.    *)
Owners(o) ==
  LET live == UNION {Reach(heap, r) : r \in LiveRoots}
  IN Cardinality({t \in Trees : roots[t] = o})
     + Cardinality({p \in live : heap.node[p].lc = o})
     + Cardinality({p \in live : heap.node[p].rc = o})

RefcountsExact ==
  Idle /\ Refcounting =>
    \A r \in LiveRoots : \A o \in Reach(heap, r) : heap.refcount[o] = Owners(o)

(* A node is on the free list exactly when no tree uses it, and only once: *)
(* nothing in use is handed out again and nothing is lost.                 *)
FreeListExact ==
  Idle /\ Refcounting =>
    LET live == UNION {Reach(heap, r) : r \in LiveRoots}
        freed == {heap.free[i] : i \in DOMAIN heap.free}
    IN /\ Cardinality(freed) = Len(heap.free)
       /\ freed = Offset(heap) \ live

(* disktree.hh: "a node with a refcount > 1 may not be modified by an      *)
(* operation on one of the trees using that node": a walk of a tree that   *)
(* is not being updated visits what its owner put in, each once, in order. *)
BystandersUntouched ==
  \A t \in Trees : (Idle \/ call.tree # t) =>
    LET v == Visit(heap, roots[t])
    IN /\ {v[i] : i \in DOMAIN v} = kept[t]
       /\ \A i, j \in DOMAIN v : i < j => v[i] < v[j]

(* index_ds.hh: "a balanced binary search tree (AVL, as it happens)".      *)
Balanced ==
  Idle => \A r \in LiveRoots : \A o \in Reach(heap, r) :
            LET l == Depth(heap, heap.node[o].lc)
                d == Depth(heap, heap.node[o].rc)
            IN /\ l <= d + 1 /\ d <= l + 1
               /\ heap.node[o].height = 1 + Max2(l, d)

(* index_ds.hh: annotations are "additional information at each node,      *)
(* describing properties of the subtree rooted at that node".              *)
AnnotationsExact ==
  Idle => \A r \in LiveRoots : \A o \in Reach(heap, r) :
            heap.node[o].ann = Contents(heap, o)
=============================================================================
