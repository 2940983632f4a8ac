------------------------------- MODULE AVLMem -------------------------------
(***************************************************************************)
(* The annotated AVL tree on the C++ heap (include/libtarmac/memtree.hh).  *)
(* Nobody shares its nodes, so a tree is a value: a record of its payload, *)
(* its children, its height and its annotation.                            *)
(*                                                                         *)
(* The template's parameters become one payload and one annotation that    *)
(* serve all its uses: a payload covers the keys from lo to hi of a space, *)
(* and has a line and a number of visible lines; an annotation has the sum *)
(* or the greatest of what the payloads of a sub-tree have.                *)
(***************************************************************************)
EXTENDS Integers, Sequences

Sign(a, b) == IF a < b THEN -1 ELSE IF a > b THEN 1 ELSE 0

Max2(a, b) == IF a >= b THEN a ELSE b

(* a.cmp(b) *)
Cmp(p, q) ==
  CASE p.space # q.space -> Sign(p.space, q.space)
    [] p.space = q.space /\ p.hi < q.lo -> -1
    [] p.space = q.space /\ p.lo > q.hi -> 1
    [] OTHER -> 0

(* Annotation(payload) *)
Own(p) == [phys |-> p.hi - p.lo + 1, vis |-> p.vis, line |-> p.line]

(* Annotation(annotation, annotation) *)
Joined(l, r) ==
  [phys |-> l.phys + r.phys, vis |-> l.vis + r.vis, line |-> Max2(l.line, r.line)]

(* The null pointer. *)
Nil == [height |-> 0]

(* rewrite: the annotation covers the left sub-tree, the node, the right.  *)
Rewrite(p, lc, rc) ==
  LET left == IF lc = Nil THEN Own(p) ELSE Joined(lc.annotation, Own(p))
  IN [payload |-> p, lc |-> lc, rc |-> rc,
      height |-> 1 + (IF lc.height > rc.height THEN lc.height ELSE rc.height),
      annotation |-> IF rc = Nil THEN left ELSE Joined(left, rc.annotation)]

RotateLeft(n) ==
  Rewrite(n.rc.payload, Rewrite(n.payload, n.lc, n.rc.lc), n.rc.rc)

RotateRight(n) ==
  Rewrite(n.lc.payload, n.lc.lc, Rewrite(n.payload, n.lc.rc, n.rc))

(* The rebalancing after the left or the right side may have become too    *)
(* high by one, as insert_main and remove_main both do it.                 *)
FixLeftHeavy(n) ==
  IF n.lc.height # n.rc.height + 2
  THEN n
  ELSE RotateRight(IF n.lc.rc.height = n.rc.height + 1
                   THEN Rewrite(n.payload, RotateLeft(n.lc), n.rc)
                   ELSE n)

FixRightHeavy(n) ==
  IF n.rc.height # n.lc.height + 2
  THEN n
  ELSE RotateLeft(IF n.rc.lc.height = n.lc.height + 1
                  THEN Rewrite(n.payload, n.lc, RotateRight(n.rc))
                  ELSE n)

(* A node after an insertion into one side, or a removal from it.          *)
Side(t, left) == IF left THEN t.lc ELSE t.rc

Grown(t, left, child) ==
  IF left THEN FixLeftHeavy(Rewrite(t.payload, child, t.rc))
  ELSE FixRightHeavy(Rewrite(t.payload, t.lc, child))

Shrunk(t, left, child) ==
  IF left THEN FixRightHeavy(Rewrite(t.payload, child, t.rc))
  ELSE FixLeftHeavy(Rewrite(t.payload, t.lc, child))

(* insert_main; its assert is that nothing in the tree compares equal.     *)
RECURSIVE Insert(_, _)
Insert(t, p) ==
  IF t = Nil
  THEN Rewrite(p, Nil, Nil)
  ELSE LET left == Cmp(t.payload, p) > 0
       IN Grown(t, left, Insert(Side(t, left), p))

Removal(tree, found, payload) ==
  [tree |-> tree, found |-> found, payload |-> payload]

NothingRemoved == Removal(Nil, FALSE, 0)

(* remove_main without a keyfinder takes out the leftmost node.            *)
RECURSIVE TakeFirst(_)
TakeFirst(t) ==
  IF t.lc = Nil
  THEN Removal(t.rc, TRUE, t.payload)
  ELSE LET r == TakeFirst(t.lc) IN [r EXCEPT !.tree = Shrunk(t, TRUE, @)]

(* The node itself goes: a lone child takes its place, or else the node    *)
(* that follows it.                                                        *)
Joining(t, next) == Shrunk([t EXCEPT !.payload = next.payload], FALSE, next.tree)

Joint(t) ==
  CASE t.lc = Nil -> t.rc
    [] t.lc # Nil /\ t.rc = Nil -> t.lc
    [] OTHER -> Joining(t, TakeFirst(t.rc))

(* remove_main: what compares equal to p goes, if there is such a node.    *)
RECURSIVE Removed(_, _)
Removed(t, p) ==
  IF t = Nil
  THEN NothingRemoved
  ELSE LET c == Cmp(p, t.payload)
           r == Removed(Side(t, c < 0), p)
       IN IF c = 0 THEN Removal(Joint(t), TRUE, t.payload)
          ELSE [r EXCEPT !.tree = Shrunk(t, c < 0, @)]

(* The payloads from left to right. *)
RECURSIVE Payloads(_)
Payloads(t) ==
  IF t = Nil THEN <<>> ELSE Payloads(t.lc) \o <<t.payload>> \o Payloads(t.rc)

(* Height balance, exact annotations and order, for the invariants.        *)
RECURSIVE WellBuilt(_)
WellBuilt(t) ==
  \/ t = Nil
  \/ /\ t.lc.height - t.rc.height \in -1 .. 1
     /\ t = Rewrite(t.payload, t.lc, t.rc)
     /\ WellBuilt(t.lc) /\ WellBuilt(t.rc)
=============================================================================
