----------------------------- MODULE AVLSearch -----------------------------
(***************************************************************************)
(* The read-only operations of AVLDisk, and what the heap means as trees.  *)
(* The recursions are functions on offsets.  A key finder accepts the      *)
(* payloads in lo..hi, as in AVLDisk.                                      *)
(***************************************************************************)
EXTENDS AVLDisk, FiniteSetsExt

FinderCmp(key, lo, hi) == IF hi < key THEN -1 ELSE IF lo > key THEN 1 ELSE 0

Offsets(h) == 0 .. (h.next - 1)

(* find_main *)
Find(h, root, lo, hi) ==
  LET f[o \in Offsets(h)] ==
        LET n == Get(h, o)
            cmp == FinderCmp(n.key, lo, hi)
        IN IF o = Null \/ cmp = 0 THEN o
           ELSE IF cmp < 0 THEN f[n.lc] ELSE f[n.rc]
  IN f[root]

(* find_leftmost_main and find_rightmost_main: go on past a match towards  *)
(* side, and come back to it if nothing further that way matches.          *)
FindOutermost(h, root, lo, hi, side) ==
  LET f[o \in Offsets(h)] ==
        LET n == Get(h, o)
            cmp == FinderCmp(n.key, lo, hi)
            outer == f[IF side < 0 THEN n.lc ELSE n.rc]
        IN IF o = Null THEN Null
           ELSE IF cmp < 0 THEN f[n.lc]
           ELSE IF cmp > 0 THEN f[n.rc]
           ELSE IF outer # Null THEN outer ELSE o
  IN f[root]

(* Mutant of PredSucc: a match goes on to the wrong side.                   *)
PredSuccWrongSide(h, root, lo, hi, sign) ==
  LET f[o \in Offsets(h)] ==
        LET n == Get(h, o)
            c == FinderCmp(n.key, lo, hi)
            cmp == IF c = 0 THEN -sign ELSE c
            below == f[IF cmp < 0 THEN n.lc ELSE n.rc]
        IN IF o = Null THEN Null
           ELSE IF below = Null /\ cmp * sign < 0 THEN o ELSE below
  IN f[root]

(* predsucc_main: sign +1 for succ(), -1 for pred(). *)
PredSucc(h, root, lo, hi, sign) ==
  LET f[o \in Offsets(h)] ==
        LET n == Get(h, o)
            c == FinderCmp(n.key, lo, hi)
            cmp == IF c = 0 THEN sign ELSE c
            below == f[IF cmp < 0 THEN n.lc ELSE n.rc]
        IN IF o = Null THEN Null
           ELSE IF below = Null /\ cmp * sign < 0 THEN o ELSE below
  IN f[root]

FindLeftmost(h, root, lo, hi) == FindOutermost(h, root, lo, hi, -1)
FindRightmost(h, root, lo, hi) == FindOutermost(h, root, lo, hi, 1)
Succ(h, root, lo, hi) == PredSucc(h, root, lo, hi, 1)
Pred(h, root, lo, hi) == PredSucc(h, root, lo, hi, -1)

-----------------------------------------------------------------------------
(* visit(): the payloads of a tree, in order. *)
Visit(h, root) ==
  LET f[o \in Offsets(h)] ==
        IF o = Null THEN <<>>
        ELSE f[h.node[o].lc] \o <<h.node[o].key>> \o f[h.node[o].rc]
  IN f[root]

Contents(h, root) == LET v == Visit(h, root) IN {v[i] : i \in DOMAIN v}

(* The offsets in a tree, and its height counted from the links. *)
Reach(h, root) ==
  LET f[o \in Offsets(h)] ==
        IF o = Null THEN {} ELSE {o} \cup f[h.node[o].lc] \cup f[h.node[o].rc]
  IN f[root]

Depth(h, root) ==
  LET f[o \in Offsets(h)] ==
        IF o = Null THEN 0 ELSE 1 + Max2(f[h.node[o].lc], f[h.node[o].rc])
  IN f[root]
=============================================================================
