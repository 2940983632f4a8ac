------------------------------ MODULE AVLDisk ------------------------------
(***************************************************************************)
(* AVLDisk (include/libtarmac/disktree.hh): AVL trees that share nodes.    *)
(* Trees are named by their root offset and live in an arena.  In hwm mode *)
(* commit() freezes every node allocated so far and later updates clone    *)
(* what they would have to change; in refcounting mode clone_tree() makes  *)
(* a second owner and nodes with several owners are cloned.                *)
(*                                                                         *)
(* insert_main, remove_main and free_node recurse.  Each level of their    *)
(* recursion is one action here on the way down and one on the way back,   *)
(* with the C++ stack in `stack' (and in `todo' for free_node), so that    *)
(* every intermediate heap is a state the properties speak about.          *)
(***************************************************************************)
EXTENDS AVLHeap, FiniteSets

CONSTANTS
  Trees,     \* the roots the caller holds and updates
  Ops,       \* the operations the caller uses
  Finders,   \* pairs <<lo, hi>>: the key finders remove() is called with
  MaxUpdates \* bound: how many calls of insert, remove, clone_tree, free_tree
             \* and commit the caller makes

ASSUME FindersAssumption == Finders \subseteq Nat \X Nat
ASSUME MaxUpdatesAssumption == MaxUpdates \in Nat

VARIABLES
  heap,      \* the arena as this tree uses it, see AVLHeap
  pc,        \* "idle", or where in the running operation we are
  call,      \* arguments of the running operation
  cur,       \* offset of the `root' argument of the current recursion level
  must,      \* its must_modify argument
  stack,     \* the levels above it
  ret,       \* the node struct the level below has just returned
  removed,   \* *removed of the outer remove_main
  leftmost,  \* `root' of the level that is removing its right child's leftmost
  todo,      \* pending calls of free_node
  (* What the caller keeps outside the tree. *)
  roots,     \* the root offset of each tree
  kept,      \* the payloads the caller has put in and not taken out
  snaps,     \* the roots it saved at each commit(), with their payloads
  updates    \* how many calls it has made, and whether it removed and cloned

opvars == <<pc, call, cur, must, stack, ret, removed, leftmost, todo>>
vars == <<heap, pc, call, cur, must, stack, ret, removed, leftmost, todo,
          roots, kept, snaps, updates>>

Null == 0
NoCall == [op |-> "none", tree |-> Null, lo |-> 0, hi |-> 0, node |-> Null]

Init ==
  /\ heap = Heap(<<>>, <<>>, 1, <<>>, 1)
  /\ pc = "idle" /\ call = NoCall
  /\ cur = Null /\ must = FALSE /\ stack = <<>>
  /\ ret = NullNode /\ removed = NullNode /\ leftmost = NullNode
  /\ todo = <<>>
  /\ roots = [t \in Trees |-> Null]
  /\ kept = [t \in Trees |-> {}]
  /\ snaps = <<>>
  /\ updates = [n |-> 0, removes |-> FALSE, clones |-> FALSE]

(* The caller makes another call. *)
Counting(op) ==
  [n |-> updates.n + 1, removes |-> updates.removes \/ op = "remove",
   clones |-> updates.clones \/ op = "clone"]

Called(op) ==
  /\ op \in Ops
  /\ pc = "idle" /\ updates.n < MaxUpdates
  /\ updates' = Counting(op)

(* The operation is over: its locals go out of scope. *)
ForgetOp ==
  /\ pc' = "idle" /\ call' = NoCall
  /\ cur' = Null /\ must' = FALSE /\ stack' = <<>>
  /\ ret' = NullNode /\ removed' = NullNode /\ leftmost' = NullNode

-----------------------------------------------------------------------------
(* insert().  No caller inserts a payload equal to one already there       *)
(* (insert_main asserts cmp != 0).                                         *)
BeginInsert(t, k) ==
  /\ Called("insert")
  /\ k \notin kept[t]
  /\ LET off == AllocOffset(heap)
         leaf == [offset |-> off, lc |-> 0, rc |-> 0, height |-> 1,
                  key |-> k, ann |-> {k}]
         h == Put(AllocNode(heap), leaf)
     IN /\ must' = Immutable(h, Get(h, roots[t]))
        /\ heap' = AdjustRefcount(h, roots[t], -1)
        /\ call' = [op |-> "insert", tree |-> t, lo |-> k, hi |-> k,
                    node |-> off]
  /\ pc' = "insert" /\ cur' = roots[t]
  /\ UNCHANGED <<stack, ret, removed, leftmost, todo, roots, kept, snaps>>

(* One call of insert_main, down to the recursive call it makes. *)
InsertDescend ==
  /\ pc = "insert" /\ cur # Null
  /\ LET root == Get(heap, cur)
         m == must \/ Immutable(heap, root)
         left == root.key > call.lo
     IN /\ must' = m
        /\ cur' = IF left THEN root.lc ELSE root.rc
        /\ stack' = <<[node |-> root, must |-> m,
                       dir |-> IF left THEN "left" ELSE "right"]>> \o stack
  /\ UNCHANGED <<heap, pc, call, ret, removed, leftmost, todo,
                 roots, kept, snaps, updates>>

InsertAtNull ==
  /\ pc = "insert" /\ cur = Null
  /\ ret' = Get(heap, call.node)
  /\ pc' = "unwind"
  /\ UNCHANGED <<heap, call, cur, must, stack, removed, leftmost, todo,
                 roots, kept, snaps, updates>>

(* A level of insert_main or remove_main returns n, leaving heap h. *)
ReturnLevel(r) ==
  /\ heap' = r.heap /\ ret' = r.n
  /\ stack' = Tail(stack)
  /\ UNCHANGED <<pc, call, cur, must, removed, leftmost, todo,
                 roots, kept, snaps, updates>>

(* Link what the recursion returned in place of the child it went into. *)
LinkLeft(f) == Rewrite(heap, f.node, ret.offset, f.node.rc, f.must)
LinkRight(f) == Rewrite(heap, f.node, f.node.lc, ret.offset, f.must)

InsertUnwind ==
  /\ pc = "unwind" /\ call.op = "insert" /\ stack # <<>>
  /\ LET f == Head(stack)
         l == LinkLeft(f)
         r == LinkRight(f)
     IN ReturnLevel(IF f.dir = "left" THEN FixLeftHeavy(l.heap, l.n)
                    ELSE FixRightHeavy(r.heap, r.n))

InsertReturn ==
  /\ pc = "unwind" /\ call.op = "insert" /\ stack = <<>>
  /\ heap' = AdjustRefcount(heap, ret.offset, 1)
  /\ roots' = [roots EXCEPT ![call.tree] = ret.offset]
  /\ kept' = [kept EXCEPT ![call.tree] = @ \cup {call.lo}]
  /\ ForgetOp
  /\ UNCHANGED <<todo, snaps, updates>>

-----------------------------------------------------------------------------
(* remove(), with a key finder that accepts the payloads in lo..hi, as the *)
(* index's range comparisons do: the first such payload on the way down    *)
(* goes.                                                                   *)
BeginRemove(t, lo, hi) ==
  /\ Called("remove")
  /\ must' = Immutable(heap, Get(heap, roots[t]))
  /\ heap' = AdjustRefcount(heap, roots[t], -1)
  /\ call' = [op |-> "remove", tree |-> t, lo |-> lo, hi |-> hi, node |-> Null]
  /\ pc' = "remove" /\ cur' = roots[t]
  /\ UNCHANGED <<stack, ret, removed, leftmost, todo, roots, kept, snaps>>

(* Mutants of Cmp: a null key finder goes left unconditionally; a payload   *)
(* at the upper end of the finder's range is not a match.                  *)
CmpAlwaysLeft(root) ==
  IF pc = "leftmost" THEN -1
  ELSE IF call.hi < root.key THEN -1
  ELSE IF call.lo > root.key THEN 1
  ELSE 0

CmpExclusive(root) ==
  IF pc = "leftmost" THEN (IF root.lc # Null THEN -1 ELSE 0)
  ELSE IF call.hi <= root.key THEN -1
  ELSE IF call.lo > root.key THEN 1
  ELSE 0

(* The comparison result at a node: the key finder's, or with a null key   *)
(* finder the direction of the leftmost node.                              *)
Cmp(root) ==
  IF pc = "leftmost" THEN (IF root.lc # Null THEN -1 ELSE 0)
  ELSE IF call.hi < root.key THEN -1
  ELSE IF call.lo > root.key THEN 1
  ELSE 0

RemoveNotFound ==
  /\ pc \in {"remove", "leftmost"} /\ cur = Null
  /\ ret' = NullNode /\ pc' = "unwind"
  /\ IF pc = "remove"
     THEN removed' = NullNode /\ UNCHANGED leftmost
     ELSE leftmost' = NullNode /\ UNCHANGED removed
  /\ UNCHANGED <<heap, call, cur, must, stack, todo, roots, kept, snaps, updates>>

RemoveDescend ==
  /\ pc \in {"remove", "leftmost"} /\ cur # Null
  /\ LET root == Get(heap, cur)
         m == must \/ Immutable(heap, root)
     IN /\ Cmp(root) # 0
        /\ must' = m
        /\ cur' = IF Cmp(root) < 0 THEN root.lc ELSE root.rc
        /\ stack' = <<[node |-> root, must |-> m,
                       dir |-> IF Cmp(root) < 0 THEN "left" ELSE "right"]>>
                    \o stack
  /\ UNCHANGED <<heap, pc, call, ret, removed, leftmost, todo,
                 roots, kept, snaps, updates>>

(* The node to remove has at most one child, which takes its place. *)
RemoveHere ==
  /\ pc \in {"remove", "leftmost"} /\ cur # Null
  /\ LET root == Get(heap, cur)
     IN /\ Cmp(root) = 0 /\ (root.lc = Null \/ root.rc = Null)
        /\ ret' = Get(heap, IF root.lc = Null THEN root.rc ELSE root.lc)
        /\ IF pc = "remove"
           THEN removed' = root /\ UNCHANGED leftmost
           ELSE leftmost' = root /\ UNCHANGED removed
  /\ pc' = "unwind"
  /\ UNCHANGED <<heap, call, cur, must, stack, todo, roots, kept, snaps, updates>>

(* It has two: the leftmost node of the right subtree is removed first and *)
(* then takes its place, through the null key finder and `&root'.          *)
RemoveTwoChildren ==
  /\ pc = "remove" /\ cur # Null
  /\ LET root == Get(heap, cur)
         m == must \/ Immutable(heap, root)
     IN /\ Cmp(root) = 0 /\ root.lc # Null /\ root.rc # Null
        /\ removed' = root
        /\ must' = m /\ cur' = root.rc
        /\ stack' = <<[node |-> root, must |-> m, dir |-> "replace"]>> \o stack
  /\ pc' = "leftmost"
  /\ UNCHANGED <<heap, call, ret, leftmost, todo, roots, kept, snaps, updates>>

OldChild(f) == IF f.dir = "left" THEN f.node.lc ELSE f.node.rc

(* The early return: the offset that came back is the offset that was      *)
(* there, so the level takes its root to be unchanged.                     *)
RemoveUnwindSame ==
  /\ pc = "unwind" /\ call.op = "remove" /\ stack # <<>>
  /\ LET f == Head(stack)
     IN /\ f.dir # "replace" /\ ret.offset = OldChild(f)
        /\ ReturnLevel([heap |-> heap, n |-> f.node])

RemoveUnwind ==
  /\ pc = "unwind" /\ call.op = "remove" /\ stack # <<>>
  /\ LET f == Head(stack)
         l == LinkLeft(f)
         r == LinkRight(f)
     IN /\ f.dir # "replace" /\ ret.offset # OldChild(f)
        /\ ReturnLevel(IF f.dir = "left" THEN FixRightHeavy(l.heap, l.n)
                       ELSE FixLeftHeavy(r.heap, r.n))

(* Mutant of RemoveUnwindReplace: the node to be removed stays, the         *)
(* leftmost node of its right subtree is the one that goes.                *)
RemoveUnwindKeep ==
  /\ pc = "unwind" /\ call.op = "remove" /\ stack # <<>>
  /\ LET f == Head(stack)
         r1 == Rewrite(heap, f.node, f.node.lc, ret.offset, f.must)
         r2 == Rewrite(r1.heap, r1.n, f.node.lc, ret.offset, FALSE)
     IN /\ f.dir = "replace"
        /\ ReturnLevel(FixLeftHeavy(r2.heap, r2.n))

RemoveUnwindReplace ==
  /\ pc = "unwind" /\ call.op = "remove" /\ stack # <<>>
  /\ LET f == Head(stack)
         r1 == Rewrite(heap, leftmost, f.node.lc, ret.offset, f.must)
         r2 == Rewrite(r1.heap, r1.n, f.node.lc, ret.offset, FALSE)
     IN /\ f.dir = "replace"
        /\ ReturnLevel(FixLeftHeavy(r2.heap, r2.n))

RemoveReturn ==
  /\ pc = "unwind" /\ call.op = "remove" /\ stack = <<>>
  /\ heap' = AdjustRefcount(heap, ret.offset, 1)
  /\ roots' = [roots EXCEPT ![call.tree] = ret.offset]
  /\ kept' = [kept EXCEPT ![call.tree] = @ \ {removed.key}]
  /\ IF Refcounting /\ removed.offset # Null
     THEN /\ pc' = "free" /\ todo' = <<[o |-> removed.offset, adj |-> 0, push |-> FALSE]>>
          /\ UNCHANGED <<call, cur, must, stack, ret, removed, leftmost>>
     ELSE ForgetOp /\ UNCHANGED todo
  /\ UNCHANGED <<snaps, updates>>

-----------------------------------------------------------------------------
(* Mutant of CloneTree: the new owner is not counted.                       *)
CloneTreeUncounted(t, u) ==
  /\ Called("clone") /\ Refcounting
  /\ t # u /\ roots[t] # Null /\ roots[u] = Null
  /\ roots' = [roots EXCEPT ![u] = roots[t]]
  /\ kept' = [kept EXCEPT ![u] = kept[t]]
  /\ UNCHANGED <<heap, opvars, snaps>>

(* clone_tree(): one more owner of the root. *)
CloneTree(t, u) ==
  /\ Called("clone") /\ Refcounting
  /\ t # u /\ roots[t] # Null /\ roots[u] = Null
  /\ heap' = AdjustRefcount(heap, roots[t], 1)
  /\ roots' = [roots EXCEPT ![u] = roots[t]]
  /\ kept' = [kept EXCEPT ![u] = kept[t]]
  /\ UNCHANGED <<opvars, snaps>>

(* free_tree(). *)
FreeTree(t) ==
  /\ Called("free") /\ Refcounting /\ roots[t] # Null
  /\ roots' = [roots EXCEPT ![t] = Null]
  /\ kept' = [kept EXCEPT ![t] = {}]
  /\ todo' = <<[o |-> roots[t], adj |-> -1, push |-> FALSE]>>
  /\ pc' = "free"
  /\ call' = [op |-> "free", tree |-> t, lo |-> 0, hi |-> 0, node |-> Null]
  /\ UNCHANGED <<heap, cur, must, stack, ret, removed, leftmost, snaps>>

(* Mutant of DropLink: freeing a node leaves its children's counts alone.   *)
DropLinkNever(c) == <<>>

DropLink(c) ==
  IF c = Null THEN <<>> ELSE <<[o |-> c, adj |-> -1, push |-> FALSE]>>

(* One call of free_node: drop the reference and, if it was the last, free *)
(* the children first and then put the node on the free list.  An entry    *)
(* with push set is that last part, waiting for the children.              *)
FreeNode ==
  /\ pc = "free" /\ todo # <<>> /\ ~Head(todo).push
  /\ LET o == Head(todo).o
         h == AdjustRefcount(heap, o, Head(todo).adj)
     IN /\ heap' = h
        /\ todo' = (IF h.refcount[o] > 0 THEN <<>>
                    ELSE DropLink(h.node[o].lc) \o DropLink(h.node[o].rc)
                         \o <<[o |-> o, adj |-> 0, push |-> TRUE]>>) \o Tail(todo)
  /\ UNCHANGED <<pc, call, cur, must, stack, ret, removed, leftmost,
                 roots, kept, snaps, updates>>

PushFree ==
  /\ pc = "free" /\ todo # <<>> /\ Head(todo).push
  /\ heap' = Heap(heap.node, heap.refcount, heap.next,
                   <<Head(todo).o>> \o heap.free, heap.hwm)
  /\ todo' = Tail(todo)
  /\ UNCHANGED <<pc, call, cur, must, stack, ret, removed, leftmost,
                 roots, kept, snaps, updates>>

FreeReturn ==
  /\ pc = "free" /\ todo = <<>>
  /\ ForgetOp
  /\ UNCHANGED <<heap, todo, roots, kept, snaps, updates>>

(* Mutant of Commit: the high-water mark is one node short.                 *)
CommitOneShort ==
  /\ Called("commit") /\ ~Refcounting
  /\ heap' = Heap(heap.node, heap.refcount, heap.next, heap.free,
                  Max2(heap.next - 1, 1))
  /\ snaps' = Append(snaps, [root |-> roots, keys |-> kept])
  /\ UNCHANGED <<opvars, roots, kept>>

(* commit(): the caller has saved its roots, nodes up to here are frozen.  *)
Commit ==
  /\ Called("commit") /\ ~Refcounting
  /\ heap' = Heap(heap.node, heap.refcount, heap.next, heap.free, heap.next)
  /\ snaps' = Append(snaps, [root |-> roots, keys |-> kept])
  /\ UNCHANGED <<opvars, roots, kept>>

(* find(), succ(), pred(), search(), visit() and the const walk() write    *)
(* nothing: see AVLSearch for what they return.  (The other walk() lets    *)
(* its visitor rewrite annotations; nothing here calls it.)                *)
ReadOnly == pc = "idle" /\ UNCHANGED vars

Step ==
  \/ InsertDescend \/ InsertAtNull \/ InsertUnwind \/ InsertReturn
  \/ RemoveNotFound \/ RemoveDescend \/ RemoveHere \/ RemoveTwoChildren
  \/ RemoveUnwindSame \/ RemoveUnwind \/ RemoveUnwindReplace \/ RemoveReturn
  \/ FreeNode \/ PushFree \/ FreeReturn

Next ==
  \/ Step
  \/ \E t \in Trees, k \in Keys : BeginInsert(t, k)
  \/ \E t \in Trees, f \in Finders : BeginRemove(t, f[1], f[2])
  \/ \E t, u \in Trees : CloneTree(t, u)
  \/ \E t \in Trees : FreeTree(t)
  \/ Commit
  \/ ReadOnly

Spec == Init /\ [][Next]_vars

-----------------------------------------------------------------------------
Frame == [node : Struct, must : BOOLEAN, dir : {"left", "right", "replace"}]
Call == [op : {"none", "insert", "remove", "free"}, tree : Trees \cup {Null},
         lo : Nat, hi : Nat, node : Nat]

CallOK(next) ==
  /\ pc \in {"idle", "insert", "remove", "leftmost", "unwind", "free"}
  /\ call \in Call /\ call.node < next
  /\ call.op = "insert" => call.tree \in Trees /\ call.lo \in Keys
  /\ cur \in Nat /\ cur < next /\ must \in BOOLEAN

StackOK(next) ==
  /\ stack \in Seq(Frame)
  /\ \A i \in 1 .. Len(stack) : /\ InArena(stack[i].node, next)
                                /\ stack[i].node.offset # Null

LocalsOK(next) ==
  /\ ret \in Struct /\ InArena(ret, next)
  /\ removed \in Struct /\ InArena(removed, next)
  /\ leftmost \in Struct /\ InArena(leftmost, next)

(* The null key finder is used below a node with two children only, and by *)
(* the time that node's level goes on there is a node to replace it with.  *)
NoReplace == \A i \in 1 .. Len(stack) : stack[i].dir # "replace"

PathOK ==
  /\ pc \in {"idle", "free"} => stack = <<>>
  /\ pc = "free" => Refcounting
  /\ pc \in {"insert", "remove"} => NoReplace
  /\ pc = "leftmost" => cur # Null
  /\ pc = "unwind" => NoReplace \/ leftmost.offset # Null

Pending == [o : Nat \ {0}, adj : {-1, 0}, push : BOOLEAN]

TodoOK(next) ==
  /\ todo \in Seq(Pending)
  /\ \A i \in 1 .. Len(todo) : todo[i].o < next

Updates == [n : Nat, removes : BOOLEAN, clones : BOOLEAN]
Snap == [root : [Trees -> Nat], keys : [Trees -> SUBSET Keys]]

CallerOK(next) ==
  /\ roots \in [Trees -> Nat] /\ \A t \in Trees : roots[t] < next
  /\ kept \in [Trees -> SUBSET Keys]
  /\ snaps \in Seq(Snap)
  /\ updates \in Updates

(***************************************************************************)
(* The heap holds well-formed nodes, every offset the operation or its     *)
(* caller holds lies in the arena, and a level of the recursion that will  *)
(* be returned to has a node to go on with: its own, and for the level     *)
(* that replaces a node with two children the one taken from below.        *)
(***************************************************************************)
TypeOK ==
  /\ HeapOK(heap)
  /\ CallOK(heap.next) /\ StackOK(heap.next) /\ LocalsOK(heap.next)
  /\ PathOK
  /\ TodoOK(heap.next)
  /\ CallerOK(heap.next)

(***************************************************************************)
(* disktree.hh, commit(): "Nodes at addresses below here are already used  *)
(* by some prior tree root and hence are immutable".  No step, even one in *)
(* the middle of an update, writes to a node below the high-water mark.    *)
(***************************************************************************)
CommittedFrozen ==
  [][\A o \in 1 .. (heap.hwm - 1) : heap'.node[o] = heap.node[o]]_vars

(***************************************************************************)
(* Nothing reachable from a saved root is above the high-water mark: the   *)
(* saved roots and the links of frozen nodes lead to frozen nodes only.    *)
(* With CommittedFrozen, a saved tree is the same tree for ever.           *)
(***************************************************************************)
SavedTreesFrozen ==
  /\ \A i \in 1 .. Len(snaps), t \in Trees : snaps[i].root[t] < heap.hwm
  /\ \A o \in 1 .. (heap.hwm - 1) :
       heap.node[o].lc < heap.hwm /\ heap.node[o].rc < heap.hwm

(* With what each mode never does, this is inductive: see AVLDiskProofs.   *)
ModeOK ==
  /\ ~Refcounting => heap.free = <<>>
  /\ Refcounting => heap.hwm = 1 /\ snaps = <<>>

IInv == TypeOK /\ ModeOK /\ SavedTreesFrozen
=============================================================================
