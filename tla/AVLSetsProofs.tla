--------------------------- MODULE AVLSetsProofs ---------------------------
(***************************************************************************)
(* The trees of AVLDisk are the sets their callers take them for, in hwm   *)
(* mode (the one the index uses), for every set of keys, trees and finders *)
(* and every number of updates: AVLDisk implements PersistentSets, and     *)
(* searches find what is in the sets.                                      *)
(*                                                                         *)
(* An update takes its tree apart along a path and puts it together again, *)
(* and writes to nodes in place where it may.  So the invariant is not     *)
(* about whole trees: it is about a forest, of the trees nobody is         *)
(* updating, the trees saved, and the pieces of the tree that is being     *)
(* updated.  Two steps change a forest, TakenApart and PutTogether; every  *)
(* helper of AVLHeap is a sequence of them.                                *)
(***************************************************************************)
EXTENDS AVLDiskProofs, MCAVLDisk, WellFoundedInduction

-----------------------------------------------------------------------------
(***************************************************************************)
(* A forest.  A labelling c gives nodes the payloads of the trees below    *)
(* them; whatever has a label is the root of a search tree of nodes that   *)
(* have labels.  Handles are the offsets somebody goes on from.  A node    *)
(* that may be written to is one link's or one handle's, so that nothing   *)
(* else changes with it.                                                   *)
(***************************************************************************)
Below(c, o) == IF o = 0 THEN {} ELSE c[o]
Has(c, o) == o = 0 \/ o \in DOMAIN c

Sides == {"left", "right"}
Child(n, s) == IF s = "left" THEN n.lc ELSE n.rc

Sorted(c, lc, key, rc) ==
  /\ key \in Keys
  /\ \A x \in Below(c, lc) : x < key
  /\ \A x \in Below(c, rc) : key < x

Labelled(h, c) ==
  \A p \in DOMAIN c :
    /\ p \in Offset(h)
    /\ Has(c, h.node[p].lc) /\ Has(c, h.node[p].rc)
    /\ Sorted(c, h.node[p].lc, h.node[p].key, h.node[p].rc)
    /\ c[p] = Below(c, h.node[p].lc) \cup {h.node[p].key}
              \cup Below(c, h.node[p].rc)
    /\ c[p] \subseteq Keys

LinkedOnce(h, c) ==
  \A p, q \in DOMAIN c : \A s, r \in Sides :
    /\ Child(h.node[p], s) = Child(h.node[q], r)
    /\ h.hwm <= Child(h.node[p], s)
    => p = q /\ s = r

HeldOnce(h, c, held) ==
  /\ \A i \in DOMAIN held : Has(c, held[i])
  /\ \A i, j \in DOMAIN held : held[i] = held[j] /\ h.hwm <= held[i] => i = j
  /\ \A i \in DOMAIN held, p \in DOMAIN c, s \in Sides :
       h.hwm <= held[i] => Child(h.node[p], s) # held[i]

Forest(h, c, held) == Labelled(h, c) /\ LinkedOnce(h, c) /\ HeldOnce(h, c, held)

(* No node, not even one no tree has any longer, is below itself. *)
RanksOf(h, rank) ==
  /\ rank \in [Offset(h) \cup {0} -> Nat]
  /\ \A o \in Offset(h) : /\ rank[h.node[o].lc] < rank[o]
                          /\ rank[h.node[o].rc] < rank[o]
Ranked(h) == \E rank : RanksOf(h, rank)

(* Committed nodes link to committed nodes. *)
Closed(h) ==
  \A o \in 1 .. (h.hwm - 1) : h.node[o].lc < h.hwm /\ h.node[o].rc < h.hwm

(* What happens to the rest of the heap when something is done to a part   *)
(* of it, to the nodes in own among others: what is committed keeps its    *)
(* label, what is in no tree stays as it is.                               *)
Grown(h, c, g, d, own) ==
  \A q \in Offset(h) :
    /\ q < h.hwm /\ q \in DOMAIN c => q \in DOMAIN d /\ d[q] = c[q]
    /\ h.hwm <= q /\ q \notin DOMAIN c /\ q \notin own =>
         q \notin DOMAIN d /\ g.node[q] = h.node[q]

-----------------------------------------------------------------------------
(***************************************************************************)
(* Taking a tree apart: the handle i of its root goes to one child, the    *)
(* new handle x to the other.                                              *)
(***************************************************************************)
SplitHeld(held, i, x, a, b) ==
  [j \in DOMAIN held \cup {x} |->
     IF j = i THEN a ELSE IF j = x THEN b ELSE held[j]]
JoinHeld(held, i, x, o) ==
  [j \in DOMAIN held \ {x} |-> IF j = i THEN o ELSE held[j]]

Taken(h, c, p) == IF p < h.hwm THEN c ELSE [q \in DOMAIN c \ {p} |-> c[q]]

Other(s) == IF s = "left" THEN "right" ELSE "left"

LEMMA TakenIs ==
  ASSUME NEW h, NEW c, NEW p, p \in DOMAIN c, h.hwm \in Nat, p \in Nat, NEW d, d = Taken(h, c, p)
  PROVE  /\ \A q : q \in DOMAIN d <=> q \in DOMAIN c /\ (p < h.hwm \/ q # p)
         /\ \A q \in DOMAIN d : q \in DOMAIN c /\ d[q] = c[q]
         /\ h.hwm <= p => p \notin DOMAIN d
  BY DEF Taken

LEMMA TakenApart ==
  ASSUME NEW h, HeapInv(h), Closed(h), NEW c, NEW held, Forest(h, c, held),
         NEW i \in DOMAIN held, NEW p, p = held[i], p # 0,
         NEW x, x \notin DOMAIN held, NEW s \in Sides,
         NEW d, d = Taken(h, c, p)
  PROVE  /\ p \in DOMAIN c /\ p \in Offset(h)
         /\ Forest(h, d, SplitHeld(held, i, x, Child(h.node[p], s),
                                   Child(h.node[p], Other(s))))
         /\ \A r \in Sides :
              /\ Has(d, Child(h.node[p], r))
              /\ Below(d, Child(h.node[p], r)) = Below(c, Child(h.node[p], r))
         /\ \A j \in DOMAIN held \ {i} : Below(d, held[j]) = Below(c, held[j])
         /\ Sorted(d, h.node[p].lc, h.node[p].key, h.node[p].rc)
         /\ Below(c, p) = Below(d, h.node[p].lc) \cup {h.node[p].key}
                          \cup Below(d, h.node[p].rc)
         /\ h.hwm <= p => p \notin DOMAIN d
         /\ p < h.hwm => p \in DOMAIN d
         /\ Grown(h, c, h, d, {})
<1>1. p \in DOMAIN c /\ p \in Offset(h)
  BY DEF Forest, HeldOnce, Has, Labelled
<1>2. h.hwm \in Nat \ {0} /\ h.next \in Nat /\ p \in Nat
  BY <1>1 DEF HeapInv, HeapOK, Offset
<1>3. /\ \A q : q \in DOMAIN d <=> q \in DOMAIN c /\ (p < h.hwm \/ q # p)
      /\ \A q \in DOMAIN d : q \in DOMAIN c /\ d[q] = c[q]
      /\ h.hwm <= p => p \notin DOMAIN d
  BY <1>1, <1>2, TakenIs
<1>4. \A q \in DOMAIN c, r \in Sides : Has(c, Child(h.node[q], r))
  BY DEF Forest, Labelled, Child, Sides
(* Links lead to committed nodes or are the only ones to where they lead. *)
<1>5. \A q \in DOMAIN d, r \in Sides :
        Child(h.node[q], r) # p \/ p < h.hwm
  BY <1>2, <1>3 DEF Forest, HeldOnce
<1>6. ASSUME NEW q \in DOMAIN d, NEW r \in Sides
      PROVE  Has(d, Child(h.node[q], r))
  <2>1. Has(c, Child(h.node[q], r)) /\ (Child(h.node[q], r) # p \/ p < h.hwm)
    BY <1>3, <1>4, <1>5
  <2> QED  BY <1>3, <2>1 DEF Has
<1>7. \A r \in Sides : Has(d, Child(h.node[p], r))
  <2>1. CASE p < h.hwm
    BY <1>1, <1>3, <1>4, <2>1 DEF Has
  <2>2. CASE ~(p < h.hwm)
    <3>1. \A r \in Sides : Child(h.node[p], r) # p
      BY <1>1, <1>2, <2>2 DEF Forest, HeldOnce
    <3> QED  BY <1>1, <1>3, <1>4, <2>2, <3>1 DEF Has
  <2> QED  BY <2>1, <2>2
<1>8. \A j \in DOMAIN held \ {i} : Has(d, held[j])
  <2>1. \A j \in DOMAIN held \ {i} : Has(c, held[j]) /\ (held[j] # p \/ p < h.hwm)
    BY <1>2 DEF Forest, HeldOnce
  <2> QED  BY <1>3, <2>1 DEF Has
<1>9. \A o : Has(d, o) => Below(d, o) = Below(c, o)
  BY <1>3 DEF Has, Below
<1>10. Labelled(h, d)
  <2> SUFFICES ASSUME NEW q \in DOMAIN d
      PROVE  /\ q \in Offset(h)
             /\ Has(d, h.node[q].lc) /\ Has(d, h.node[q].rc)
             /\ Sorted(d, h.node[q].lc, h.node[q].key, h.node[q].rc)
             /\ d[q] = Below(d, h.node[q].lc) \cup {h.node[q].key}
                       \cup Below(d, h.node[q].rc)
             /\ d[q] \subseteq Keys
    BY DEF Labelled
  <2>1. Has(d, h.node[q].lc) /\ Has(d, h.node[q].rc)
    BY <1>6 DEF Child, Sides
  <2>2. /\ Below(d, h.node[q].lc) = Below(c, h.node[q].lc)
        /\ Below(d, h.node[q].rc) = Below(c, h.node[q].rc)
    BY <1>9, <2>1
  <2>3. q \in DOMAIN c /\ d[q] = c[q]
    BY <1>3
  <2> QED  BY <2>1, <2>2, <2>3 DEF Forest, Labelled, Sorted
<1>11. LinkedOnce(h, d)
  BY <1>3 DEF Forest, LinkedOnce
<1> DEFINE a == Child(h.node[p], s)
           b == Child(h.node[p], Other(s))
           new == SplitHeld(held, i, x, a, b)
<1>12. /\ DOMAIN new = DOMAIN held \cup {x} /\ new[i] = a /\ new[x] = b /\ i # x
       /\ \A j \in DOMAIN held \ {i} : new[j] = held[j]
  BY DEF SplitHeld
<1>13. Other(s) \in Sides /\ Other(s) # s
  BY DEF Sides, Other
<1>14. HeldOnce(h, d, new)
  <2>1. ASSUME NEW j \in DOMAIN new PROVE Has(d, new[j])
    BY <1>7, <1>8, <1>12, <1>13
  (* What is below a node that may be written to hangs from it alone. *)
  <2>2. ASSUME NEW r \in Sides, h.hwm <= Child(h.node[p], r)
        PROVE  /\ ~(p < h.hwm)
               /\ \A q \in DOMAIN d, t \in Sides :
                    Child(h.node[q], t) # Child(h.node[p], r)
               /\ \A j \in DOMAIN held : held[j] # Child(h.node[p], r)
               /\ \A t \in Sides : Child(h.node[p], t) = Child(h.node[p], r) => t = r
    <3>1. h.node[p].lc \in Nat /\ h.node[p].rc \in Nat
      BY <1>1 DEF HeapInv, HeapOK, Node
    <3>2. ~(p < h.hwm)
      <4>1. p < h.hwm => p \in 1 .. (h.hwm - 1)
        BY <1>1, <1>2 DEF Offset
      <4> QED  BY <1>2, <2>2, <3>1, <4>1 DEF Closed, Child
    <3>3. \A q \in DOMAIN d : q # p
      BY <1>3, <3>2
    <3>4. \A q \in DOMAIN c, t \in Sides :
            Child(h.node[q], t) = Child(h.node[p], r) => q = p /\ t = r
      BY <1>1, <2>2 DEF Forest, LinkedOnce
    <3>5. \A j \in DOMAIN held : held[j] # Child(h.node[p], r)
      BY <1>1, <2>2 DEF Forest, HeldOnce
    <3> QED  BY <1>1, <1>3, <3>2, <3>3, <3>4, <3>5
  <2>3. ASSUME NEW j \in DOMAIN new, NEW k \in DOMAIN new,
               new[j] = new[k], h.hwm <= new[j]
        PROVE  j = k
    <3>1. CASE j \in DOMAIN held \ {i} /\ k \in DOMAIN held \ {i}
      BY <1>12, <2>3, <3>1 DEF Forest, HeldOnce
    <3>2. CASE j = i
      BY <1>12, <1>13, <2>2, <2>3, <3>2
    <3>3. CASE j = x
      BY <1>12, <1>13, <2>2, <2>3, <3>3
    <3>4. CASE k = i \/ k = x
      BY <1>12, <1>13, <2>2, <2>3, <3>4
    <3> QED  BY <1>12, <3>1, <3>2, <3>3, <3>4
  <2>4. ASSUME NEW j \in DOMAIN new, NEW q \in DOMAIN d, NEW t \in Sides,
               h.hwm <= new[j]
        PROVE  Child(h.node[q], t) # new[j]
    <3>1. CASE j \in DOMAIN held \ {i}
      BY <1>3, <1>12, <2>4, <3>1 DEF Forest, HeldOnce
    <3>2. CASE j = i \/ j = x
      BY <1>12, <1>13, <2>2, <2>4, <3>2
    <3> QED  BY <1>12, <3>1, <3>2
  <2> HIDE DEF new
  <2> QED  BY <2>1, <2>3, <2>4 DEF HeldOnce
<1>15. /\ Has(d, h.node[p].lc) /\ Has(d, h.node[p].rc)
       /\ Below(d, h.node[p].lc) = Below(c, h.node[p].lc)
       /\ Below(d, h.node[p].rc) = Below(c, h.node[p].rc)
  BY <1>7, <1>9 DEF Child, Sides
<1>16. /\ Sorted(c, h.node[p].lc, h.node[p].key, h.node[p].rc)
       /\ c[p] = Below(c, h.node[p].lc) \cup {h.node[p].key}
                 \cup Below(c, h.node[p].rc)
  BY <1>1 DEF Forest, Labelled
<1>17. Below(c, p) = c[p]
  BY DEF Below
<1>18. Grown(h, c, h, d, {})
  BY <1>3 DEF Grown
<1> HIDE DEF new, a, b
<1> QED
  BY <1>1, <1>2, <1>3, <1>7, <1>8, <1>9, <1>10, <1>11, <1>14, <1>15, <1>16, <1>17, <1>18
  DEF Forest, new, a, b, Sorted

-----------------------------------------------------------------------------
(***************************************************************************)
(* Putting a tree together: a node nothing leads to, with the trees of the *)
(* handles i and x on its sides, becomes the tree of handle i.             *)
(***************************************************************************)
Built(c, n) == Below(c, n.lc) \cup {n.key} \cup Below(c, n.rc)

Added(g, c, p) ==
  [q \in DOMAIN c \cup {p} |-> IF q = p THEN Built(c, g.node[p]) ELSE c[q]]

LEMMA AddedIs ==
  ASSUME NEW g, NEW c, NEW p, p \notin DOMAIN c, p # 0, NEW d, d = Added(g, c, p)
  PROVE  /\ \A q : q \in DOMAIN d <=> q \in DOMAIN c \/ q = p
         /\ \A q \in DOMAIN c : d[q] = c[q] /\ q # p
         /\ d[p] = Built(c, g.node[p])
         /\ \A o : Has(c, o) => /\ Has(d, o) /\ Below(d, o) = Below(c, o)
                                /\ o # p
  BY DEF Added, Has, Below

LEMMA PutTogether ==
  ASSUME NEW h, HeapInv(h), NEW g, HeapInv(g),
         g.hwm = h.hwm, h.next <= g.next,
         NEW c, NEW held, Forest(h, c, held),
         \A q \in DOMAIN c : g.node[q] = h.node[q],
         NEW i \in DOMAIN held, NEW x \in DOMAIN held, i # x, NEW s \in Sides,
         NEW p \in Offset(g), h.hwm <= p, p \notin DOMAIN c,
         Child(g.node[p], s) = held[i], Child(g.node[p], Other(s)) = held[x],
         Sorted(c, g.node[p].lc, g.node[p].key, g.node[p].rc),
         NEW d, d = Added(g, c, p)
  PROVE  Forest(g, d, JoinHeld(held, i, x, p))
<1>1. h.hwm \in Nat \ {0} /\ h.next \in Nat /\ g.next \in Nat /\ p \in Nat /\ p # 0
  BY DEF HeapInv, HeapOK, Offset
<1>2. /\ \A q : q \in DOMAIN d <=> q \in DOMAIN c \/ q = p
      /\ \A q \in DOMAIN c : d[q] = c[q] /\ q # p
      /\ d[p] = Built(c, g.node[p])
      /\ \A o : Has(c, o) => /\ Has(d, o) /\ Below(d, o) = Below(c, o)
                             /\ o # p
  BY <1>1, AddedIs
<1>3. Has(c, held[i]) /\ Has(c, held[x])
  BY DEF Forest, HeldOnce
<1>4. \A r \in Sides : Child(g.node[p], r) = IF r = s THEN held[i] ELSE held[x]
  BY DEF Sides, Other, Child
<1>5. Has(c, g.node[p].lc) /\ Has(c, g.node[p].rc)
  BY <1>3, <1>4 DEF Sides, Child
<1>6. \A q \in DOMAIN c, r \in Sides :
        Child(g.node[q], r) = Child(h.node[q], r) /\ Has(c, Child(g.node[q], r))
  BY DEF Forest, Labelled, Child, Sides
<1>7. DOMAIN c \subseteq Offset(g)
  <2>1. \A q \in Offset(h) : q \in Offset(g)
    BY <1>1 DEF Offset
  <2> QED  BY <2>1 DEF Forest, Labelled
<1>8. \A o : Has(c, o) => Below(c, o) \subseteq Keys
  BY DEF Forest, Labelled, Has, Below
<1>9. Labelled(g, d)
  <2> SUFFICES ASSUME NEW q \in DOMAIN d
      PROVE  /\ q \in Offset(g)
             /\ Has(d, g.node[q].lc) /\ Has(d, g.node[q].rc)
             /\ Sorted(d, g.node[q].lc, g.node[q].key, g.node[q].rc)
             /\ d[q] = Below(d, g.node[q].lc) \cup {g.node[q].key}
                       \cup Below(d, g.node[q].rc)
             /\ d[q] \subseteq Keys
    BY DEF Labelled
  <2>1. CASE q = p
    BY <2>1, <1>2, <1>5, <1>8 DEF Sorted, Built
  <2>2. CASE q # p
    <3>1. q \in DOMAIN c /\ g.node[q] = h.node[q] /\ d[q] = c[q]
      BY <1>2, <2>2
    <3>2. /\ Has(c, h.node[q].lc) /\ Has(c, h.node[q].rc)
          /\ Sorted(c, h.node[q].lc, h.node[q].key, h.node[q].rc)
          /\ c[q] = Below(c, h.node[q].lc) \cup {h.node[q].key}
                    \cup Below(c, h.node[q].rc)
          /\ c[q] \subseteq Keys
      BY <3>1 DEF Forest, Labelled
    <3> QED  BY <3>1, <3>2, <1>2, <1>7 DEF Sorted
  <2> QED  BY <2>1, <2>2
<1>10. LinkedOnce(g, d)
  <2> SUFFICES ASSUME NEW q \in DOMAIN d, NEW t \in DOMAIN d,
                      NEW u \in Sides, NEW r \in Sides,
                      Child(g.node[q], u) = Child(g.node[t], r),
                      h.hwm <= Child(g.node[q], u)
               PROVE  q = t /\ u = r
    BY DEF LinkedOnce
  <2>1. CASE q # p /\ t # p
    BY <1>2, <1>6, <2>1 DEF Forest, LinkedOnce
  <2>2. CASE q = p /\ t # p
    BY <1>2, <1>4, <1>6, <2>2 DEF Forest, HeldOnce
  <2>3. CASE q # p /\ t = p
    BY <1>2, <1>4, <1>6, <2>3 DEF Forest, HeldOnce
  <2>4. CASE q = p /\ t = p
    <3>1. h.hwm <= held[i] => held[i] # held[x]
      BY DEF Forest, HeldOnce
    <3>2. h.hwm <= held[x] => held[i] # held[x]
      BY DEF Forest, HeldOnce
    <3> QED  BY <1>4, <2>4, <3>1, <3>2 DEF Sides
  <2> QED  BY <2>1, <2>2, <2>3, <2>4
<1> DEFINE new == JoinHeld(held, i, x, p)
<1>11. /\ DOMAIN new = DOMAIN held \ {x} /\ new[i] = p
       /\ \A j \in DOMAIN new \ {i} : new[j] = held[j] /\ j # i /\ j # x
  BY DEF JoinHeld
<1>12. HeldOnce(g, d, new)
  <2>1. \A j \in DOMAIN held : Has(c, held[j]) /\ held[j] # p
    BY <1>2 DEF Forest, HeldOnce
  <2>2. \A j \in DOMAIN new : Has(d, new[j])
    BY <1>2, <1>11, <2>1 DEF Has
  <2>3. ASSUME NEW j \in DOMAIN new, NEW k \in DOMAIN new,
               new[j] = new[k], h.hwm <= new[j]
        PROVE  j = k
    BY <1>11, <2>1, <2>3 DEF Forest, HeldOnce
  <2>4. ASSUME NEW j \in DOMAIN new, NEW q \in DOMAIN d, NEW t \in Sides,
               h.hwm <= new[j]
        PROVE  Child(g.node[q], t) # new[j]
    <3>1. CASE j = i
      BY <1>2, <1>4, <1>6, <1>11, <2>1, <2>4, <3>1
    <3>2. CASE j # i /\ q # p
      BY <1>2, <1>6, <1>11, <2>4, <3>2 DEF Forest, HeldOnce
    <3>3. CASE j # i /\ q = p
      <4>1. new[j] = held[j] /\ j # i /\ j # x /\ j \in DOMAIN held
        BY <1>11, <3>3
      <4>2. held[j] # held[i] /\ held[j] # held[x]
        BY <2>4, <4>1 DEF Forest, HeldOnce
      <4> QED  BY <1>4, <3>3, <4>1, <4>2
    <3> QED  BY <3>1, <3>2, <3>3
  <2> HIDE DEF new
  <2> QED  BY <2>2, <2>3, <2>4 DEF HeldOnce
<1> QED  BY <1>9, <1>10, <1>12 DEF Forest

(* What was written to is above everything below it; whatever was above it *)
(* before, in a tree or in none, is moved further up.                      *)
LEMMA RankedKept ==
  ASSUME NEW h, HeapInv(h), Ranked(h), NEW g, HeapInv(g), h.next <= g.next,
         NEW c, Labelled(h, c), NEW p \in Offset(g), p \notin DOMAIN c,
         Has(c, g.node[p].lc), Has(c, g.node[p].rc),
         \A q \in Offset(g) : q # p =>
           IF q \in Offset(h) THEN g.node[q] = h.node[q]
           ELSE g.node[q].lc = 0 /\ g.node[q].rc = 0
  PROVE  Ranked(g)
<1>1. PICK rank : RanksOf(h, rank)
  BY DEF Ranked
<1> DEFINE D == DOMAIN c \cup {0}
           a == rank[g.node[p].lc]
           b == rank[g.node[p].rc]
           z == rank[0]
           top == a + b + 1
           new == [q \in Offset(g) \cup {0} |->
                     IF q \in D THEN rank[q]
                     ELSE IF q = p THEN top
                     ELSE IF q \in Offset(h) THEN rank[q] + top + 1
                     ELSE z + 1]
<1>2. \A q \in Offset(h) \cup {0} : rank[q] \in Nat
  BY <1>1 DEF RanksOf
<1>3. \A q \in D : q \in Offset(h) \cup {0}
  BY DEF Labelled
<1>4. g.node[p].lc \in D /\ g.node[p].rc \in D /\ 0 \in D
  BY DEF Has
<1>5. a \in Nat /\ b \in Nat /\ z \in Nat /\ top \in Nat /\ a < top /\ b < top
  <2>1. a \in Nat /\ b \in Nat /\ z \in Nat
    BY <1>2, <1>3, <1>4
  <2> HIDE DEF a, b, z
  <2> QED  BY <2>1
<1>6. \A q \in D : q # 0 => /\ q \in Offset(h)
                            /\ h.node[q].lc \in D /\ h.node[q].rc \in D
  BY DEF Labelled, Has
<1>7. Offset(h) \subseteq Offset(g) /\ 0 \notin Offset(g)
  BY DEF Offset, HeapInv, HeapOK
<1>8. \A q \in Offset(h) : /\ h.node[q].lc \in Offset(h) \cup {0}
                           /\ h.node[q].rc \in Offset(h) \cup {0}
  <2> SUFFICES ASSUME NEW q \in Offset(h)
               PROVE  h.node[q].lc \in Offset(h) \cup {0} /\ h.node[q].rc \in Offset(h) \cup {0}
    OBVIOUS
  <2>1. h.node[q] \in Node /\ h.node[q].lc < h.next /\ h.node[q].rc < h.next /\ h.next \in Nat
    BY DEF HeapInv, HeapOK
  <2> QED  BY <2>1 DEF Node, Offset
<1>a. p # 0 /\ p \notin D
  BY <1>7
<1> HIDE DEF a, b, z, top, D
<1>9. \A q \in Offset(g) \cup {0} :
        /\ q \in D => new[q] = rank[q]
        /\ q = p => new[q] = top
        /\ q \notin D /\ q # p /\ q \in Offset(h) => new[q] = rank[q] + top + 1
        /\ q \notin D /\ q # p /\ q \notin Offset(h) => new[q] = z + 1
  BY <1>a
<1>10. \A q \in Offset(g) \cup {0} : new[q] \in Nat
  BY <1>2, <1>3, <1>5, <1>9
<1>b. new \in [Offset(g) \cup {0} -> Nat]
  <2>1. new = [q \in Offset(g) \cup {0} |-> new[q]]
    OBVIOUS
  <2> HIDE DEF new
  <2> QED  BY <1>10, <2>1
<1> HIDE DEF new
<1>11. ASSUME NEW q \in Offset(g)
       PROVE  new[g.node[q].lc] < new[q] /\ new[g.node[q].rc] < new[q]
  <2>1. CASE q = p
    <3>1. new[q] = top
      BY <1>9, <2>1
    <3>2. new[g.node[q].lc] = a /\ new[g.node[q].rc] = b
      BY <1>3, <1>4, <1>7, <1>9, <2>1 DEF a, b
    <3> QED  BY <1>5, <3>1, <3>2
  <2>2. CASE q \in D
    <3>1. q \in Offset(h) /\ q # p /\ q # 0 /\ h.node[q].lc \in D /\ h.node[q].rc \in D
      BY <1>a, <1>6, <1>7, <2>2
    <3>2. g.node[q] = h.node[q]
      BY <3>1
    <3>3. rank[h.node[q].lc] < rank[q] /\ rank[h.node[q].rc] < rank[q]
      BY <1>1, <3>1 DEF RanksOf
    <3>4. \A o \in D : new[o] = rank[o]
      BY <1>3, <1>7, <1>9
    <3> QED  BY <2>2, <3>1, <3>2, <3>3, <3>4
  <2>3. CASE q \in Offset(h) /\ q \notin D /\ q # p
    <3>1. new[q] = rank[q] + top + 1 /\ g.node[q] = h.node[q]
      BY <1>9, <2>3
    <3>2. ASSUME NEW o, o \in Offset(h) \cup {0}, rank[o] < rank[q]
          PROVE  new[o] < new[q]
      <4>1. rank[o] \in Nat /\ rank[q] \in Nat
        BY <1>2, <2>3, <3>2
      <4>2. new[o] = rank[o] \/ new[o] = top \/ new[o] = rank[o] + top + 1
        BY <1>4, <1>7, <1>9, <3>2
      <4> QED  BY <1>5, <3>1, <3>2, <4>1, <4>2
    <3>3. rank[h.node[q].lc] < rank[q] /\ rank[h.node[q].rc] < rank[q]
      BY <1>1, <2>3 DEF RanksOf
    <3> QED  BY <1>8, <2>3, <3>1, <3>2, <3>3
  <2>4. CASE q \notin Offset(h) /\ q \notin D /\ q # p
    <3>1. g.node[q].lc = 0 /\ g.node[q].rc = 0 /\ new[q] = z + 1 /\ new[0] = z
      BY <1>4, <1>9, <2>4 DEF z
    <3> QED  BY <1>5, <3>1
  <2> QED  BY <2>1, <2>2, <2>3, <2>4
<1> QED  BY <1>b, <1>11 DEF Ranked, RanksOf

-----------------------------------------------------------------------------
(***************************************************************************)
(* The helpers of AVLHeap in hwm mode, as steps of a forest.  A rewrite    *)
(* puts a node together, at its old place or at one that is new.           *)
(***************************************************************************)
LEMMA CloneNodeIs ==
  ASSUME ~Refcounting, NEW h, HeapInv(h), NEW n, NEW forced \in BOOLEAN,
         NEW g, g = CloneNode(h, n, forced),
         NEW p, p = RewriteOffset(h, n, forced)
  PROVE  /\ p = n.offset \/ p \notin Offset(h)
         /\ \A q \in Offset(g) : q # p => q \in Offset(h) /\ g.node[q] = h.node[q]
<1>1. h.free = <<>> /\ h.next \in Nat \ {0}
  BY DEF HeapInv, HeapOK
<1>2. CASE MustClone(h, n, forced)
  <2>1. g = AllocNode(h) /\ p = AllocOffset(h)
    BY <1>2 DEF CloneNode, RewriteOffset, AdjustRefcount
  <2>2. p = h.next
    BY <1>1, <2>1 DEF AllocOffset
  <2>3. /\ g.next = h.next + 1
        /\ g.node = [o \in 1 .. h.next |->
                       IF o = h.next THEN BlankNode ELSE h.node[o]]
    BY <1>1, <2>1 DEF AllocNode, Heap
  <2> QED  BY <1>1, <2>2, <2>3 DEF Offset
<1>3. CASE ~MustClone(h, n, forced)
  BY <1>3 DEF CloneNode, RewriteOffset
<1> QED  BY <1>2, <1>3

LEMMA RewriteIs ==
  ASSUME ~Refcounting, NEW h, HeapInv(h), NEW n, IsNode(n, h.next),
         NEW forced \in BOOLEAN,
         NEW lc \in Nat, lc < h.next, NEW rc \in Nat, rc < h.next,
         NEW r, r = Rewrite(h, n, lc, rc, forced),
         NEW p, p = r.n.offset
  PROVE  /\ Good(h, r) /\ p \in Offset(r.heap) /\ h.hwm <= p
         /\ Get(r.heap, p) = r.n
         /\ r.n.lc = lc /\ r.n.rc = rc /\ r.n.key = n.key
         /\ p = n.offset \/ p \notin Offset(h)
         /\ \A q \in Offset(r.heap) : q # p =>
              q \in Offset(h) /\ r.heap.node[q] = h.node[q]
<1> DEFINE g == CloneNode(h, n, forced)
           off == RewriteOffset(h, n, forced)
           new == Rebuilt(g, off, n.key, lc, rc)
<1>1. /\ Extends(h, g) /\ off \in Nat \ {0} /\ off < g.next /\ off >= h.hwm
  BY CloneNodeType
<1>2. HeapInv(g) /\ h.next <= g.next /\ g.next \in Nat /\ g.hwm = h.hwm
  BY <1>1 DEF Extends, HeapInv, HeapOK
<1>3. /\ off = n.offset \/ off \notin Offset(h)
      /\ \A q \in Offset(g) : q # off => q \in Offset(h) /\ g.node[q] = h.node[q]
  BY CloneNodeIs
<1>4. r = [heap |-> Put(g, new), n |-> new]
  <2>1. Relink(g, n.lc, lc, n.rc, rc) = g
    BY DEF Relink, AdjustRefcount
  <2> QED  BY <2>1 DEF Rewrite
<1>5. new.offset = off /\ new.lc = lc /\ new.rc = rc /\ new.key = n.key
  BY DEF Rebuilt
<1>6. /\ r.heap = Put(g, new) /\ r.n = new /\ p = off
  BY <1>4, <1>5
<1>7. new = [offset |-> off, lc |-> lc, rc |-> rc, height |-> new.height,
             key |-> n.key, ann |-> new.ann]
  BY DEF Rebuilt
<1>8. Good(h, r)
  BY RewriteGood
<1>9. off \in Offset(g) /\ DOMAIN g.node = Offset(g)
  BY <1>1, <1>2 DEF HeapInv, HeapOK, Offset
<1> HIDE DEF g, off, new
<1>10. /\ Put(g, new).next = g.next
       /\ Put(g, new).node = [g.node EXCEPT ![off] =
            [lc |-> lc, rc |-> rc, height |-> new.height, key |-> n.key,
             ann |-> new.ann]]
  BY <1>5 DEF Put, Heap
<1>11. Offset(r.heap) = Offset(g)
  BY <1>6, <1>10 DEF Offset
<1>12. \A q \in Offset(g) : q # off => r.heap.node[q] = g.node[q]
  BY <1>6, <1>9, <1>10
<1>13. r.heap.node[off] = [lc |-> lc, rc |-> rc, height |-> new.height,
                           key |-> n.key, ann |-> new.ann]
  BY <1>6, <1>9, <1>10
<1>14. Get(r.heap, off) = new
  BY <1>1, <1>7, <1>13 DEF Get
<1> QED
  BY <1>1, <1>3, <1>5, <1>6, <1>8, <1>9, <1>11, <1>12, <1>14

(***************************************************************************)
(* A forest in a heap, and what becomes of it when a helper that returns r *)
(* makes a tree, holding set, of those of the handles i and x.  A node the *)
(* helper is given is spare when no tree has it or it will not be written. *)
(***************************************************************************)
Grove(h, c, held) == HeapInv(h) /\ Closed(h) /\ Ranked(h) /\ Forest(h, c, held)

Spare(h, c, n) == n.offset < h.hwm \/ n.offset \notin DOMAIN c

Became(h, c, held, i, x, own, set, r, d) ==
  /\ Good(h, r) /\ Get(r.heap, r.n.offset) = r.n /\ h.hwm <= r.n.offset
  /\ Grove(r.heap, d, JoinHeld(held, i, x, r.n.offset))
  /\ Below(d, r.n.offset) = set
  /\ \A j \in DOMAIN held \ {i, x} : Below(d, held[j]) = Below(c, held[j])
  /\ Grown(h, c, r.heap, d, own)

(* The helpers come in mirror images: s is the side they are about. *)
Beside(s, u, v) == IF s = "left" THEN u < v ELSE v < u

Ordered(c, s, a, key, b) ==
  /\ key \in Keys
  /\ \A u \in Below(c, a) : Beside(s, u, key)
  /\ \A v \in Below(c, b) : Beside(s, key, v)

Relinked(h, n, s, a, b, m) ==
  IF s = "left" THEN Rewrite(h, n, a, b, m) ELSE Rewrite(h, n, b, a, m)

RotateUp(h, n, s, m) ==
  LET c == Get(h, Child(n, s))
      low == Relinked(h, n, s, Child(c, Other(s)), Child(n, Other(s)), m)
  IN Relinked(low.heap, c, s, Child(c, s), low.n.offset, m)

FixHeavy(h, root, s) ==
  LET c == Get(h, Child(root, s))
      k == Get(h, Child(root, Other(s))).height
      inner == RotateUp(h, c, Other(s), FALSE)
      linked == Relinked(inner.heap, root, s, inner.n.offset,
                         Child(root, Other(s)), FALSE)
  IN IF c.height # k + 2 THEN [heap |-> h, n |-> root]
     ELSE IF Get(h, Child(c, Other(s))).height = k + 1
          THEN RotateUp(linked.heap, linked.n, s, FALSE)
          ELSE RotateUp(h, root, s, FALSE)

LEMMA RotateUpIs ==
  ASSUME NEW h, NEW n, NEW m
  PROVE  /\ RotateUp(h, n, "left", m) = RotateRight(h, n, m)
         /\ RotateUp(h, n, "right", m) = RotateLeft(h, n, m)
  BY DEF RotateUp, RotateLeft, RotateRight, Relinked, Child, Other

LEMMA FixHeavyIs ==
  ASSUME NEW h, NEW root
  PROVE  /\ FixHeavy(h, root, "left") = FixLeftHeavy(h, root)
         /\ FixHeavy(h, root, "right") = FixRightHeavy(h, root)
<1>1. \A n : Child(n, "left") = n.lc /\ Child(n, "right") = n.rc
  BY DEF Child
<1>2. Other("left") = "right" /\ Other("right") = "left"
  BY DEF Other
<1>3. \A g, n, a, b, m :
        /\ Relinked(g, n, "left", a, b, m) = Rewrite(g, n, a, b, m)
        /\ Relinked(g, n, "right", a, b, m) = Rewrite(g, n, b, a, m)
  BY DEF Relinked
<1>4. \A g, n, m : /\ RotateUp(g, n, "left", m) = RotateRight(g, n, m)
                   /\ RotateUp(g, n, "right", m) = RotateLeft(g, n, m)
  BY RotateUpIs
<1>5. FixHeavy(h, root, "left") = FixLeftHeavy(h, root)
  <2> DEFINE c == Get(h, Child(root, "left"))
             k == Get(h, Child(root, Other("left"))).height
             inner == RotateUp(h, c, Other("left"), FALSE)
             side == Child(root, Other("left"))
             linked == Relinked(inner.heap, root, "left", inner.n.offset, side, FALSE)
             in == Child(c, Other("left"))
             c2 == Get(h, root.lc)
             k2 == Get(h, root.rc).height
             inner2 == RotateLeft(h, c2, FALSE)
             linked2 == Rewrite(inner2.heap, root, inner2.n.offset, root.rc, FALSE)
  <2>1. FixHeavy(h, root, "left") =
          IF c.height # k + 2 THEN [heap |-> h, n |-> root]
          ELSE IF Get(h, in).height = k + 1
               THEN RotateUp(linked.heap, linked.n, "left", FALSE)
               ELSE RotateUp(h, root, "left", FALSE)
    BY Zenon DEF FixHeavy
  <2>2. FixLeftHeavy(h, root) =
          IF c2.height # k2 + 2 THEN [heap |-> h, n |-> root]
          ELSE IF Get(h, c2.rc).height = k2 + 1
               THEN RotateRight(linked2.heap, linked2.n, FALSE)
               ELSE RotateRight(h, root, FALSE)
    BY Zenon DEF FixLeftHeavy
  <2>3. c = c2 /\ k = k2 /\ in = c.rc /\ side = root.rc
    BY <1>1, <1>2
  <2> HIDE DEF c, c2, k, k2
  <2>4. inner = inner2
    BY <1>2, <1>4, <2>3
  <2> HIDE DEF inner, inner2, side
  <2>5. linked = linked2
    <3>1. linked = Rewrite(inner.heap, root, inner.n.offset, side, FALSE)
      BY DEF linked, Relinked
    <3> QED  BY <2>3, <2>4, <3>1, Zenon
  <2> HIDE DEF linked, linked2, in
  <2>6. /\ RotateUp(linked.heap, linked.n, "left", FALSE) =
             RotateRight(linked2.heap, linked2.n, FALSE)
        /\ RotateUp(h, root, "left", FALSE) = RotateRight(h, root, FALSE)
    BY <1>4, <2>5, Zenon
  <2>7. Get(h, in).height = Get(h, c2.rc).height
    BY <2>3, Zenon
  <2>8. CASE c.height # k + 2
    BY <2>1, <2>2, <2>3, <2>8, Zenon
  <2>9. CASE c.height = k + 2 /\ Get(h, in).height = k + 1
    BY <2>1, <2>2, <2>3, <2>6, <2>7, <2>9, Zenon
  <2>10. CASE c.height = k + 2 /\ Get(h, in).height # k + 1
    BY <2>1, <2>2, <2>3, <2>6, <2>7, <2>10, Zenon
  <2> QED  BY <2>8, <2>9, <2>10
<1>6. FixHeavy(h, root, "right") = FixRightHeavy(h, root)
  <2> DEFINE c == Get(h, Child(root, "right"))
             k == Get(h, Child(root, Other("right"))).height
             inner == RotateUp(h, c, Other("right"), FALSE)
             side == Child(root, Other("right"))
             linked == Relinked(inner.heap, root, "right", inner.n.offset, side, FALSE)
             in == Child(c, Other("right"))
             c2 == Get(h, root.rc)
             k2 == Get(h, root.lc).height
             inner2 == RotateRight(h, c2, FALSE)
             linked2 == Rewrite(inner2.heap, root, root.lc, inner2.n.offset, FALSE)
  <2>1. FixHeavy(h, root, "right") =
          IF c.height # k + 2 THEN [heap |-> h, n |-> root]
          ELSE IF Get(h, in).height = k + 1
               THEN RotateUp(linked.heap, linked.n, "right", FALSE)
               ELSE RotateUp(h, root, "right", FALSE)
    BY Zenon DEF FixHeavy
  <2>2. FixRightHeavy(h, root) =
          IF c2.height # k2 + 2 THEN [heap |-> h, n |-> root]
          ELSE IF Get(h, c2.lc).height = k2 + 1
               THEN RotateLeft(linked2.heap, linked2.n, FALSE)
               ELSE RotateLeft(h, root, FALSE)
    BY Zenon DEF FixRightHeavy
  <2>3. c = c2 /\ k = k2 /\ in = c.lc /\ side = root.lc
    BY <1>1, <1>2
  <2> HIDE DEF c, c2, k, k2
  <2>4. inner = inner2
    BY <1>2, <1>4, <2>3
  <2> HIDE DEF inner, inner2, side
  <2>5. linked = linked2
    <3>1. linked = Rewrite(inner.heap, root, side, inner.n.offset, FALSE)
      BY DEF linked, Relinked
    <3> QED  BY <2>3, <2>4, <3>1, Zenon
  <2> HIDE DEF linked, linked2, in
  <2>6. /\ RotateUp(linked.heap, linked.n, "right", FALSE) =
             RotateLeft(linked2.heap, linked2.n, FALSE)
        /\ RotateUp(h, root, "right", FALSE) = RotateLeft(h, root, FALSE)
    BY <1>4, <2>5, Zenon
  <2>7. Get(h, in).height = Get(h, c2.lc).height
    BY <2>3, Zenon
  <2>8. CASE c.height # k + 2
    BY <2>1, <2>2, <2>3, <2>8, Zenon
  <2>9. CASE c.height = k + 2 /\ Get(h, in).height = k + 1
    BY <2>1, <2>2, <2>3, <2>6, <2>7, <2>9, Zenon
  <2>10. CASE c.height = k + 2 /\ Get(h, in).height # k + 1
    BY <2>1, <2>2, <2>3, <2>6, <2>7, <2>10, Zenon
  <2> QED  BY <2>8, <2>9, <2>10
<1> QED  BY <1>5, <1>6

LEMMA OrderedSorted ==
  ASSUME NEW c, NEW n, NEW s \in Sides
  PROVE  /\ Ordered(c, s, Child(n, s), n.key, Child(n, Other(s))) <=>
              Sorted(c, n.lc, n.key, n.rc)
         /\ Built(c, n) = Below(c, Child(n, s)) \cup {n.key}
                          \cup Below(c, Child(n, Other(s)))
<1>1. CASE s = "left"
  BY <1>1 DEF Ordered, Sorted, Beside, Child, Other, Built
<1>2. CASE s = "right"
  BY <1>2 DEF Ordered, Sorted, Beside, Child, Other, Built
<1> QED  BY <1>1, <1>2 DEF Sides

LEMMA GrownThen ==
  ASSUME NEW h, NEW g, NEW k, NEW c, NEW d, NEW e, NEW a, NEW b,
         Grown(h, c, g, d, a), Grown(g, d, k, e, b),
         Offset(h) \subseteq Offset(g), g.hwm = h.hwm,
         \A q \in b : q \in a \/ q \in DOMAIN c \/ q \notin Offset(h)
  PROVE  Grown(h, c, k, e, a)
  BY DEF Grown

LEMMA OffsetsGrow ==
  ASSUME NEW h, HeapInv(h), NEW g, Extends(h, g)
  PROVE  Offset(h) \subseteq Offset(g)
  BY DEF Extends, HeapInv, HeapOK, Offset

LEMMA ClosedKept ==
  ASSUME ~Refcounting, NEW h, HeapInv(h), Closed(h), NEW g, Extends(h, g)
  PROVE  Closed(g)
  BY DEF Extends, HeapInv, HeapOK, Closed

LEMMA HeldInArena ==
  ASSUME NEW h, HeapInv(h), NEW c, NEW held, Forest(h, c, held),
         NEW i \in DOMAIN held
  PROVE  held[i] \in Nat /\ held[i] < h.next
  BY DEF Forest, HeldOnce, Labelled, Has, HeapInv, HeapOK, Offset

LEMMA RelinkedIs ==
  ASSUME ~Refcounting, NEW h, HeapInv(h), NEW n, IsNode(n, h.next),
         NEW m \in BOOLEAN, NEW s \in Sides,
         NEW a \in Nat, a < h.next, NEW b \in Nat, b < h.next,
         NEW r, r = Relinked(h, n, s, a, b, m),
         NEW p, p = r.n.offset
  PROVE  /\ Good(h, r) /\ p \in Offset(r.heap) /\ h.hwm <= p
         /\ Get(r.heap, p) = r.n
         /\ Child(r.n, s) = a /\ Child(r.n, Other(s)) = b /\ r.n.key = n.key
         /\ p = n.offset \/ p \notin Offset(h)
         /\ \A q \in Offset(r.heap) : q # p =>
              q \in Offset(h) /\ r.heap.node[q] = h.node[q]
<1>1. CASE s = "left"
  <2>1. r = Rewrite(h, n, a, b, m)
    BY <1>1 DEF Relinked
  <2>2. /\ Good(h, r) /\ p \in Offset(r.heap) /\ h.hwm <= p
        /\ Get(r.heap, p) = r.n
        /\ r.n.lc = a /\ r.n.rc = b /\ r.n.key = n.key
        /\ p = n.offset \/ p \notin Offset(h)
        /\ \A q \in Offset(r.heap) : q # p =>
             q \in Offset(h) /\ r.heap.node[q] = h.node[q]
    BY <2>1, RewriteIs
  <2>3. Child(r.n, s) = a /\ Child(r.n, Other(s)) = b
    BY <1>1, <2>2 DEF Child, Other
  <2> QED  BY <2>2, <2>3
<1>2. CASE s = "right"
  <2>1. r = Rewrite(h, n, b, a, m)
    BY <1>2 DEF Relinked
  <2>2. /\ Good(h, r) /\ p \in Offset(r.heap) /\ h.hwm <= p
        /\ Get(r.heap, p) = r.n
        /\ r.n.lc = b /\ r.n.rc = a /\ r.n.key = n.key
        /\ p = n.offset \/ p \notin Offset(h)
        /\ \A q \in Offset(r.heap) : q # p =>
             q \in Offset(h) /\ r.heap.node[q] = h.node[q]
    BY <2>1, RewriteIs
  <2>3. Child(r.n, s) = a /\ Child(r.n, Other(s)) = b
    BY <1>2, <2>2 DEF Child, Other
  <2> QED  BY <2>2, <2>3
<1> QED  BY <1>1, <1>2 DEF Sides

Relinks(h, c, held, n, m, s, i, x) ==
  LET a == held[i]
      b == held[x]
      r == Relinked(h, n, s, a, b, m)
  IN \E d : /\ Became(h, c, held, i, x, {n.offset},
                      Below(c, a) \cup {n.key} \cup Below(c, b), r, d)
            /\ Child(r.n, s) = a /\ Child(r.n, Other(s)) = b /\ r.n.key = n.key

LEMMA RelinksTrees ==
  ASSUME ~Refcounting, NEW h, NEW c, NEW held, Grove(h, c, held),
         NEW n, IsNode(n, h.next), Spare(h, c, n),
         NEW m \in BOOLEAN, NEW s \in Sides,
         NEW i \in DOMAIN held, NEW x \in DOMAIN held, i # x,
         Ordered(c, s, held[i], n.key, held[x])
  PROVE  Relinks(h, c, held, n, m, s, i, x)
<1> DEFINE a == held[i]
           b == held[x]
           r == Relinked(h, n, s, a, b, m)
<1>0. a = held[i] /\ b = held[x] /\ r = Relinked(h, n, s, a, b, m)
      /\ Ordered(c, s, a, n.key, b)
  OBVIOUS
<1> HIDE DEF a, b, r
<1> USE <1>0
<1>1. HeapInv(h) /\ Closed(h) /\ Ranked(h) /\ Forest(h, c, held)
  BY DEF Grove
<1>2. /\ a \in Nat /\ a < h.next /\ b \in Nat /\ b < h.next
      /\ Has(c, a) /\ Has(c, b)
  <2>1. a \in Nat /\ a < h.next /\ b \in Nat /\ b < h.next
    BY <1>1, HeldInArena
  <2> QED  BY <1>1, <2>1 DEF Forest, HeldOnce
<1> DEFINE p == r.n.offset
           g == r.heap
           d == Added(g, c, p)
<1>3. /\ Good(h, r) /\ p \in Offset(g) /\ h.hwm <= p
      /\ Get(g, p) = r.n
      /\ Child(r.n, s) = a /\ Child(r.n, Other(s)) = b /\ r.n.key = n.key
      /\ p = n.offset \/ p \notin Offset(h)
      /\ \A q \in Offset(g) : q # p => q \in Offset(h) /\ g.node[q] = h.node[q]
  BY <1>1, <1>2, RelinkedIs
<1>4. /\ HeapInv(g) /\ h.next <= g.next /\ g.hwm = h.hwm /\ Extends(h, g)
      /\ h.next \in Nat /\ g.next \in Nat /\ h.hwm \in Nat \ {0} /\ p \in Nat /\ p # 0
  <2>1. HeapInv(g) /\ h.next <= g.next /\ g.hwm = h.hwm /\ Extends(h, g)
    BY <1>3 DEF Good, Extends
  <2>2. h.next \in Nat /\ g.next \in Nat /\ h.hwm \in Nat \ {0}
    BY <1>1, <2>1 DEF HeapInv, HeapOK
  <2>3. p \in Nat /\ p # 0
    BY <1>3, <2>2 DEF Offset
  <2> QED  BY <2>1, <2>2, <2>3
<1>5. DOMAIN c \subseteq Offset(h)
  BY <1>1 DEF Forest, Labelled
<1>6. p \notin DOMAIN c
  <2>1. CASE p = n.offset
    BY <1>3, <1>4, <2>1 DEF Spare
  <2>2. CASE p \notin Offset(h)
    BY <1>5, <2>2
  <2> QED  BY <1>3, <2>1, <2>2
<1>7. \A q \in DOMAIN c : g.node[q] = h.node[q]
  <2>1. \A q \in Offset(h) : q \in Offset(g)
    BY <1>1, <1>4, OffsetsGrow
  <2> QED  BY <1>3, <1>5, <1>6, <2>1
(* The written node as the heap has it, and as it was returned. *)
<1>8. /\ g.node[p].lc = r.n.lc /\ g.node[p].rc = r.n.rc
      /\ g.node[p].key = r.n.key
  BY <1>3, <1>4 DEF Get
<1>9. \A t \in Sides : Child(g.node[p], t) = Child(r.n, t)
  BY <1>8 DEF Child
<1>10. Other(s) \in Sides
  BY DEF Other, Sides
<1>11. /\ Sorted(c, g.node[p].lc, g.node[p].key, g.node[p].rc)
       /\ Built(c, g.node[p]) = Below(c, a) \cup {n.key} \cup Below(c, b)
  <2>1. /\ Ordered(c, s, Child(r.n, s), r.n.key, Child(r.n, Other(s))) <=>
              Sorted(c, r.n.lc, r.n.key, r.n.rc)
        /\ Built(c, r.n) = Below(c, Child(r.n, s)) \cup {r.n.key}
                          \cup Below(c, Child(r.n, Other(s)))
    BY OrderedSorted
  <2>2. Built(c, g.node[p]) = Built(c, r.n)
    BY <1>8 DEF Built
  <2> QED  BY <1>3, <1>8, <2>1, <2>2
<1>12. Forest(g, d, JoinHeld(held, i, x, p))
  <2>1. Child(g.node[p], s) = held[i] /\ Child(g.node[p], Other(s)) = held[x]
    BY <1>3, <1>9, <1>10
  <2> HIDE DEF p, g
  <2> QED  BY <1>1, <1>3, <1>4, <1>6, <1>7, <1>11, <2>1, PutTogether
<1>13. /\ \A q : q \in DOMAIN d <=> q \in DOMAIN c \/ q = p
       /\ \A q \in DOMAIN c : d[q] = c[q] /\ q # p
       /\ d[p] = Built(c, g.node[p])
       /\ \A o : Has(c, o) => /\ Has(d, o) /\ Below(d, o) = Below(c, o)
                              /\ o # p
  <2> HIDE DEF p, g
  <2> QED  BY <1>4, <1>6, AddedIs
<1>14. Has(c, g.node[p].lc) /\ Has(c, g.node[p].rc)
  <2>1. \A t \in Sides : Child(g.node[p], t) = IF t = s THEN a ELSE b
    BY <1>3, <1>9 DEF Sides, Other
  <2> QED  BY <1>2, <2>1 DEF Sides, Child
<1>15. Ranked(g)
  <2>1. \A q \in Offset(g) : q # p =>
           IF q \in Offset(h) THEN g.node[q] = h.node[q]
           ELSE g.node[q].lc = 0 /\ g.node[q].rc = 0
    BY <1>3
  <2>2. Labelled(h, c)
    BY <1>1 DEF Forest
  <2> HIDE DEF p, g
  <2> QED  BY <1>1, <1>3, <1>4, <1>6, <1>14, <2>1, <2>2, RankedKept
<1>16. Closed(g)
  BY <1>1, <1>4, ClosedKept
<1>17. Grown(h, c, g, d, {n.offset})
  <2>1. \A q \in Offset(h) : q \in Offset(g)
    BY <1>1, <1>4, OffsetsGrow
  <2> HIDE DEF p, g, d
  <2> QED  BY <1>3, <1>13, <2>1 DEF Grown
<1>18. Below(d, p) = Below(c, a) \cup {n.key} \cup Below(c, b)
  BY <1>4, <1>11, <1>13 DEF Below
<1>19. \A j \in DOMAIN held \ {i, x} : Below(d, held[j]) = Below(c, held[j])
  <2>1. \A j \in DOMAIN held : Has(c, held[j])
    BY <1>1 DEF Forest, HeldOnce
  <2> HIDE DEF p, g, d
  <2> QED  BY <1>13, <2>1
<1>20. Became(h, c, held, i, x, {n.offset},
              Below(c, a) \cup {n.key} \cup Below(c, b), r, d)
  <2> HIDE DEF d
  <2> QED
    BY <1>3, <1>4, <1>12, <1>15, <1>16, <1>17, <1>18, <1>19 DEF Became, Grove
<1>21. \E e : /\ Became(h, c, held, i, x, {n.offset},
                       Below(c, a) \cup {n.key} \cup Below(c, b), r, e)
              /\ Child(r.n, s) = a /\ Child(r.n, Other(s)) = b
              /\ r.n.key = n.key
  <2> HIDE DEF d
  <2> QED  BY <1>3, <1>20
<1> QED  BY <1>21, Zenon DEF Relinks, a, b, r

(***************************************************************************)
(* Opening the tree of a handle: its root is nobody's, unless committed.   *)
(***************************************************************************)
Loose(h, c, n) ==
  IF n.offset < h.hwm THEN n.offset \in DOMAIN c ELSE n.offset \notin DOMAIN c

Opens(h, c, held, i, x, s) ==
  LET p == held[i]
      n == Get(h, p)
      a == Child(n, s)
      b == Child(n, Other(s))
  IN /\ p \in DOMAIN c /\ IsNode(n, h.next) /\ n.offset = p
     /\ \E d : /\ Grove(h, d, SplitHeld(held, i, x, a, b))
               /\ Ordered(d, s, a, n.key, b)
               /\ Below(c, p) = Below(d, a) \cup {n.key} \cup Below(d, b)
               /\ \A j \in DOMAIN held \ {i} : Below(d, held[j]) = Below(c, held[j])
               /\ Loose(h, d, n) /\ Grown(h, c, h, d, {})

LEMMA OpensTree ==
  ASSUME NEW h, NEW c, NEW held, Grove(h, c, held),
         NEW i \in DOMAIN held, held[i] # 0, NEW x, x \notin DOMAIN held,
         NEW s \in Sides
  PROVE  Opens(h, c, held, i, x, s)
<1> DEFINE p == held[i]
           n == Get(h, p)
           a == Child(n, s)
           b == Child(n, Other(s))
<1>0. p = held[i] /\ p # 0 /\ n = Get(h, p) /\ a = Child(n, s) /\ b = Child(n, Other(s))
  OBVIOUS
<1> HIDE DEF p, n, a, b
<1> USE <1>0
<1>1. HeapInv(h) /\ Closed(h) /\ Ranked(h) /\ Forest(h, c, held)
  BY DEF Grove
<1> DEFINE d == Taken(h, c, p)
<1>2. /\ p \in DOMAIN c /\ p \in Offset(h)
      /\ Forest(h, d, SplitHeld(held, i, x, Child(h.node[p], s),
                                Child(h.node[p], Other(s))))
      /\ \A j \in DOMAIN held \ {i} : Below(d, held[j]) = Below(c, held[j])
      /\ Sorted(d, h.node[p].lc, h.node[p].key, h.node[p].rc)
      /\ Below(c, p) = Below(d, h.node[p].lc) \cup {h.node[p].key}
                       \cup Below(d, h.node[p].rc)
      /\ h.hwm <= p => p \notin DOMAIN d
      /\ p < h.hwm => p \in DOMAIN d
      /\ Grown(h, c, h, d, {})
  BY <1>1, TakenApart
<1>3. /\ p \in Nat \ {0} /\ p < h.next /\ h.hwm \in Nat
  BY <1>1, <1>2 DEF Offset, HeapInv, HeapOK
<1>4. IsNode(n, h.next) /\ n.offset = p
  <2>1. IsNode(n, h.next)
    BY <1>1, <1>3, GetNode
  <2> QED  BY <1>3, <2>1 DEF Get
<1>5. n.lc = h.node[p].lc /\ n.rc = h.node[p].rc /\ n.key = h.node[p].key
  BY <1>3 DEF Get
<1>6. Child(h.node[p], s) = a /\ Child(h.node[p], Other(s)) = b
  BY <1>5 DEF Child
<1> HIDE DEF d
<1>7. /\ Ordered(d, s, a, n.key, b)
      /\ Below(c, p) = Below(d, a) \cup {n.key} \cup Below(d, b)
  <2>1. /\ Ordered(d, s, Child(n, s), n.key, Child(n, Other(s))) <=>
              Sorted(d, n.lc, n.key, n.rc)
        /\ Built(d, n) = Below(d, Child(n, s)) \cup {n.key}
                          \cup Below(d, Child(n, Other(s)))
    BY OrderedSorted
  <2> QED  BY <1>2, <1>5, <2>1 DEF Built
<1>8. Loose(h, d, n)
  BY <1>2, <1>3, <1>4 DEF Loose
<1>9. Grove(h, d, SplitHeld(held, i, x, a, b))
  BY <1>1, <1>2, <1>6 DEF Grove
<1>10. /\ p \in DOMAIN c /\ IsNode(n, h.next) /\ n.offset = p
       /\ \E e : /\ Grove(h, e, SplitHeld(held, i, x, a, b))
                 /\ Ordered(e, s, a, n.key, b)
                 /\ Below(c, p) = Below(e, a) \cup {n.key} \cup Below(e, b)
                 /\ \A j \in DOMAIN held \ {i} : Below(e, held[j]) = Below(c, held[j])
                 /\ Loose(h, e, n) /\ Grown(h, c, h, e, {})
  BY <1>2, <1>4, <1>7, <1>8, <1>9
<1> QED  BY <1>10, Zenon DEF Opens, p, n, a, b

LEMMA HeldSplit ==
  ASSUME NEW held, NEW i \in DOMAIN held, NEW x, x \notin DOMAIN held,
         NEW a, NEW b, NEW new, new = SplitHeld(held, i, x, a, b)
  PROVE  /\ DOMAIN new = DOMAIN held \cup {x} /\ new[i] = a /\ new[x] = b
         /\ i # x /\ \A j \in DOMAIN held : j # i => new[j] = held[j] /\ j # x
  BY DEF SplitHeld

LEMMA HeldJoin ==
  ASSUME NEW held, NEW i \in DOMAIN held, NEW x \in DOMAIN held, i # x,
         NEW o, NEW new, new = JoinHeld(held, i, x, o)
  PROVE  /\ DOMAIN new = DOMAIN held \ {x} /\ new[i] = o
         /\ \A j \in DOMAIN new : j # i => new[j] = held[j]
  BY DEF JoinHeld

LEMMA HeldRotate ==
  ASSUME NEW held, NEW i \in DOMAIN held, NEW x \in DOMAIN held, i # x,
         NEW y, y \notin DOMAIN held, NEW a, NEW b, NEW lo, NEW hi
  PROVE  JoinHeld(JoinHeld(SplitHeld(held, i, y, a, b), y, x, lo), i, y, hi)
           = JoinHeld(held, i, x, hi)
<1> DEFINE one == SplitHeld(held, i, y, a, b)
           two == JoinHeld(one, y, x, lo)
           three == JoinHeld(two, i, y, hi)
           new == JoinHeld(held, i, x, hi)
<1>1. /\ DOMAIN one = DOMAIN held \cup {y}
      /\ \A j \in DOMAIN held : j # i => one[j] = held[j] /\ j # y
  BY DEF one, SplitHeld
<1>2. /\ DOMAIN two = DOMAIN one \ {x}
      /\ \A j \in DOMAIN two : two[j] = IF j = y THEN lo ELSE one[j]
  BY DEF two, JoinHeld
<1>3. three = [j \in DOMAIN two \ {y} |-> IF j = i THEN hi ELSE two[j]]
  BY DEF three, JoinHeld
<1>4. new = [j \in DOMAIN held \ {x} |-> IF j = i THEN hi ELSE held[j]]
  BY DEF new, JoinHeld
<1> HIDE DEF one, two, three, new
<1>5. DOMAIN two \ {y} = DOMAIN held \ {x}
  BY <1>1, <1>2
<1>6. \A j \in DOMAIN held \ {x} : j # i => two[j] = held[j]
  BY <1>1, <1>2
<1>7. three = new
  BY <1>3, <1>4, <1>5, <1>6
<1> QED  BY <1>7 DEF one, two, three, new

LEMMA HeldRejoin ==
  ASSUME NEW held, NEW i \in DOMAIN held, NEW x, x \notin DOMAIN held,
         held = [j \in DOMAIN held |-> held[j]],
         NEW a, NEW b, NEW o
  PROVE  JoinHeld(SplitHeld(held, i, x, a, b), i, x, o) = [held EXCEPT ![i] = o]
<1> DEFINE one == SplitHeld(held, i, x, a, b)
<1>1. /\ DOMAIN one = DOMAIN held \cup {x}
      /\ \A j \in DOMAIN held : j # i => one[j] = held[j]
  BY DEF one, SplitHeld
<1> HIDE DEF one
<1>2. JoinHeld(one, i, x, o) =
        [j \in DOMAIN held |-> IF j = i THEN o ELSE held[j]]
  BY <1>1 DEF JoinHeld
<1> QED  BY <1>2 DEF one

LEMMA BelowKeys ==
  ASSUME NEW h, NEW c, NEW held, Grove(h, c, held), NEW i \in DOMAIN held
  PROVE  Below(c, held[i]) \subseteq Keys /\ Below(c, held[i]) \subseteq Nat
<1>1. Has(c, held[i])
  BY DEF Grove, Forest, HeldOnce
<1>2. \A p \in DOMAIN c : c[p] \subseteq Keys
  BY DEF Grove, Forest, Labelled
<1> QED  BY <1>1, <1>2, KeysAssumption DEF Has, Below

LEMMA OrderedThen ==
  ASSUME NEW s \in Sides, NEW key \in Nat, NEW mid \in Nat, NEW B \in SUBSET Nat,
         Beside(s, mid, key), \A v \in B : Beside(s, key, v)
  PROVE  \A v \in B : Beside(s, mid, v)
  BY DEF Beside

LEMMA BecameFacts ==
  ASSUME NEW h, HeapInv(h), NEW c, NEW held, NEW i, NEW x, NEW own, NEW set,
         NEW r, NEW d, Became(h, c, held, i, x, own, set, r, d)
  PROVE  /\ Good(h, r) /\ IsNode(r.n, r.heap.next) /\ Extends(h, r.heap)
         /\ Get(r.heap, r.n.offset) = r.n /\ h.hwm <= r.n.offset
         /\ r.heap.hwm = h.hwm /\ HeapInv(r.heap)
         /\ Offset(h) \subseteq Offset(r.heap)
         /\ Grove(r.heap, d, JoinHeld(held, i, x, r.n.offset))
         /\ Below(d, r.n.offset) = set
         /\ \A j \in DOMAIN held : j # i /\ j # x => Below(d, held[j]) = Below(c, held[j])
         /\ Grown(h, c, r.heap, d, own)
  BY OffsetsGrow DEF Became, Good, Extends

Rotates(h, c, held, n, m, s, i, x) ==
  \E d : Became(h, c, held, i, x, {n.offset},
                Below(c, held[i]) \cup {n.key} \cup Below(c, held[x]),
                RotateUp(h, n, s, m), d)

LEMMA RotatesTree ==
  ASSUME ~Refcounting, NEW h, NEW c, NEW held, Grove(h, c, held),
         NEW n, IsNode(n, h.next), Spare(h, c, n),
         NEW m \in BOOLEAN, NEW s \in Sides,
         NEW i \in DOMAIN held, NEW x \in DOMAIN held, i # x,
         held[i] = Child(n, s), held[x] = Child(n, Other(s)), held[i] # 0,
         Ordered(c, s, held[i], n.key, held[x]),
         NEW y, y \notin DOMAIN held
  PROVE  Rotates(h, c, held, n, m, s, i, x)
<1> DEFINE a == held[i]
           b == held[x]
           r == RotateUp(h, n, s, m)
           e == Get(h, a)
           ea == Child(e, s)
           eb == Child(e, Other(s))
           held1 == SplitHeld(held, i, y, ea, eb)
           low == Relinked(h, n, s, eb, b, m)
           lo == low.n.offset
           held2 == JoinHeld(held1, y, x, lo)
           high == Relinked(low.heap, e, s, ea, lo, m)
           hi == high.n.offset
<1>0. /\ a = held[i] /\ b = held[x] /\ a = Child(n, s) /\ b = Child(n, Other(s))
      /\ a # 0 /\ Ordered(c, s, a, n.key, b)
  OBVIOUS
<1>1. r = high
  BY <1>0, Zenon DEF RotateUp
<1>2. HeapInv(h) /\ h.next \in Nat /\ h.hwm \in Nat \ {0}
  BY DEF Grove, HeapInv, HeapOK
<1>a. Opens(h, c, held, i, y, s)
  BY OpensTree
<1>3. a \in DOMAIN c /\ IsNode(e, h.next) /\ e.offset = a
  BY <1>a DEF Opens
<1>4. PICK d1 : /\ Grove(h, d1, held1)
                /\ Ordered(d1, s, ea, e.key, eb)
                /\ Below(c, a) = Below(d1, ea) \cup {e.key} \cup Below(d1, eb)
                /\ \A j \in DOMAIN held \ {i} : Below(d1, held[j]) = Below(c, held[j])
                /\ Loose(h, d1, e) /\ Grown(h, c, h, d1, {})
  BY <1>a DEF Opens
<1>5. /\ DOMAIN held1 = DOMAIN held \cup {y} /\ held1[i] = ea /\ held1[y] = eb
      /\ i # y /\ x # y /\ held1[x] = b
  BY DEF held1, SplitHeld
<1>6. Below(d1, b) = Below(c, b)
  BY <1>4
<1>7. Below(c, a) \subseteq Nat /\ Below(c, b) \subseteq Nat
  BY BelowKeys
<1>8. Ordered(d1, s, eb, n.key, b)
  BY <1>4, <1>6 DEF Ordered
<1>9. n.offset \in Offset(h) /\ n.offset \in Nat
  BY <1>2 DEF IsNode, InArena, Struct, Offset
<1>10. Spare(h, d1, n)
  BY <1>2, <1>4, <1>9 DEF Spare, Grown
<1> HIDE DEF a, b, r, e, ea, eb, held1
<1> USE <1>0
<1> DEFINE set2 == Below(d1, eb) \cup {n.key} \cup Below(d1, b)
<1>11. PICK d2 : Became(h, d1, held1, y, x, {n.offset}, set2, low, d2)
  <2>1. Relinks(h, d1, held1, n, m, s, y, x)
    BY <1>4, <1>5, <1>8, <1>10, RelinksTrees
  <2> QED  BY <1>5, <2>1 DEF Relinks
<1> HIDE DEF low
<1>12. /\ Good(h, low) /\ Extends(h, low.heap) /\ low.heap.hwm = h.hwm
       /\ HeapInv(low.heap) /\ Offset(h) \subseteq Offset(low.heap)
       /\ Grove(low.heap, d2, held2)
       /\ Below(d2, lo) = set2
       /\ Below(d2, ea) = Below(d1, ea)
       /\ Grown(h, d1, low.heap, d2, {n.offset})
  BY <1>2, <1>5, <1>11, BecameFacts
<1>13. /\ DOMAIN held2 = (DOMAIN held \cup {y}) \ {x}
       /\ held2[y] = lo /\ held2[i] = ea
  BY <1>5 DEF JoinHeld
<1> HIDE DEF held2, lo
<1>14. IsNode(e, low.heap.next)
  <2>1. h.next <= low.heap.next /\ low.heap.next \in Nat
    BY <1>12 DEF Extends, HeapInv, HeapOK
  <2> QED  BY <1>2, <1>3, <2>1, IsNodeGrows
<1>15. Spare(low.heap, d2, e)
  <2>1. CASE a < h.hwm
    BY <1>3, <1>12, <2>1 DEF Spare
  <2>2. CASE ~(a < h.hwm)
    <3>1. a \in Offset(h) /\ a \in Nat
      BY <1>2, <1>3 DEF IsNode, InArena, Struct, Offset
    <3>2. h.hwm <= a /\ a \notin DOMAIN d1
      BY <1>2, <1>3, <1>4, <2>2, <3>1 DEF Loose
    <3>3. a # n.offset
      BY <1>3, <2>2 DEF Spare
    <3>4. a \notin DOMAIN d2
      BY <1>12, <3>1, <3>2, <3>3 DEF Grown
    <3> QED  BY <1>3, <3>4 DEF Spare
  <2> QED  BY <2>1, <2>2
<1>16. Ordered(d2, s, ea, e.key, lo)
  <2>1. e.key \in Below(c, a) /\ Beside(s, e.key, n.key)
    BY <1>4 DEF Ordered
  <2>2. n.key \in Nat /\ e.key \in Nat
    BY <1>7, <2>1, KeysAssumption DEF Ordered
  <2>3. \A v \in Below(c, b) : Beside(s, e.key, v)
    <3>1. \A v \in Below(c, b) : Beside(s, n.key, v)
      BY DEF Ordered
    <3> QED  BY <1>7, <2>1, <2>2, <3>1, OrderedThen
  <2>4. \A v \in set2 : Beside(s, e.key, v)
    BY <1>4, <1>6, <2>1, <2>3 DEF Ordered
  <2> QED  BY <1>4, <1>12, <2>4 DEF Ordered
<1> DEFINE set3 == Below(d2, ea) \cup {e.key} \cup Below(d2, lo)
<1>17. PICK d3 : Became(low.heap, d2, held2, i, y, {e.offset}, set3, high, d3)
  <2>1. y \in DOMAIN held2 /\ i \in DOMAIN held2 /\ i # y
    BY <1>5, <1>13
  <2>2. Relinks(low.heap, d2, held2, e, m, s, i, y)
    BY <1>12, <1>13, <1>14, <1>15, <1>16, <2>1, RelinksTrees
  <2> QED  BY <1>13, <2>2 DEF Relinks
<1>18. set3 = Below(c, a) \cup {n.key} \cup Below(c, b)
  BY <1>4, <1>6, <1>12
<1> HIDE DEF set2, set3, high
<1>19. /\ Good(low.heap, high) /\ Extends(low.heap, high.heap)
       /\ Get(high.heap, hi) = high.n
       /\ low.heap.hwm <= hi
       /\ Grove(high.heap, d3, JoinHeld(held2, i, y, hi))
       /\ Below(d3, hi) = set3
       /\ \A j \in DOMAIN held2 : j # i /\ j # y => Below(d3, held2[j]) = Below(d2, held2[j])
       /\ Grown(low.heap, d2, high.heap, d3, {e.offset})
  BY <1>12, <1>17, BecameFacts
<1>20. JoinHeld(held2, i, y, hi) = JoinHeld(held, i, x, hi)
  <2>1. held2 = JoinHeld(SplitHeld(held, i, y, ea, eb), y, x, lo)
    BY DEF held2, held1, lo
  <2> HIDE DEF hi
  <2> QED  BY <2>1, HeldRotate
<1>21. ASSUME NEW j \in DOMAIN held, j # i, j # x
       PROVE  Below(d3, held[j]) = Below(c, held[j])
  <2>1. held1[j] = held[j] /\ j # y
    BY <1>21 DEF held1, SplitHeld
  <2>2. j \in DOMAIN held1 /\ Below(d2, held1[j]) = Below(d1, held1[j])
    BY <1>2, <1>5, <1>11, <1>21, <2>1, BecameFacts
  <2>3. j \in DOMAIN held2 /\ held2[j] = held1[j]
    <3>1. held2 = JoinHeld(held1, y, x, lo)
      BY DEF held2
    <3> QED  BY <1>5, <1>21, <2>1, <3>1 DEF JoinHeld
  <2> QED  BY <1>4, <1>19, <1>21, <2>1, <2>2, <2>3
<1>22. Grown(h, c, high.heap, d3, {n.offset})
  <2>1. Grown(h, c, low.heap, d2, {n.offset})
    <3>1. Grown(h, c, h, d1, {n.offset})
      BY <1>4 DEF Grown
    <3> QED  BY <1>12, <3>1, GrownThen
  <2> QED  BY <1>3, <1>12, <1>19, <2>1, GrownThen
<1>23. Good(h, high)
  BY <1>2, <1>12, <1>19, GoodThen
<1>24. Became(h, c, held, i, x, {n.offset},
              Below(c, a) \cup {n.key} \cup Below(c, b), high, d3)
  BY <1>12, <1>18, <1>19, <1>20, <1>21, <1>22, <1>23 DEF Became
<1> QED  BY <1>1, <1>24 DEF Rotates, a, b, r

(***************************************************************************)
(* Rotating and rebalancing the tree of a handle changes its root, and not *)
(* what is in it.                                                          *)
(***************************************************************************)
Mended(h, c, held, i, r, d) ==
  /\ Good(h, r) /\ Get(r.heap, r.n.offset) = r.n /\ h.hwm <= r.n.offset
  /\ Grove(r.heap, d, [held EXCEPT ![i] = r.n.offset])
  /\ Below(d, r.n.offset) = Below(c, held[i])
  /\ \A j \in DOMAIN held \ {i} : Below(d, held[j]) = Below(c, held[j])
  /\ Grown(h, c, r.heap, d, {})

Mends(h, c, held, i, r) == \E d : Mended(h, c, held, i, r, d)

IsFunction(f) == f = [j \in DOMAIN f |-> f[j]]

LEMMA MendedThen ==
  ASSUME NEW h, HeapInv(h), NEW c, NEW held, NEW i \in DOMAIN held,
         NEW q, NEW d, Mended(h, c, held, i, q, d),
         NEW r, NEW e, NEW new, new = [held EXCEPT ![i] = q.n.offset],
         Mended(q.heap, d, new, i, r, e)
  PROVE  Mended(h, c, held, i, r, e)
<1>1. /\ Good(h, q) /\ Good(q.heap, r) /\ HeapInv(q.heap) /\ q.heap.hwm = h.hwm
      /\ Offset(h) \subseteq Offset(q.heap)
  BY OffsetsGrow DEF Mended, Good, Extends
<1>2. Good(h, r)
  BY <1>1, GoodThen
<1>3. /\ DOMAIN new = DOMAIN held /\ new[i] = q.n.offset
      /\ \A j \in DOMAIN held \ {i} : new[j] = held[j]
  OBVIOUS
<1>4. [new EXCEPT ![i] = r.n.offset] = [held EXCEPT ![i] = r.n.offset]
  OBVIOUS
<1>5. Grown(h, c, r.heap, e, {})
  BY <1>1, GrownThen DEF Mended
<1> QED  BY <1>1, <1>2, <1>3, <1>4, <1>5 DEF Mended

LEMMA RotateMends ==
  ASSUME ~Refcounting, NEW h, NEW c, NEW held, Grove(h, c, held), IsFunction(held),
         NEW root, IsNode(root, h.next), Get(h, root.offset) = root,
         h.hwm <= root.offset,
         NEW i \in DOMAIN held, held[i] = root.offset,
         NEW s \in Sides, Child(root, s) # 0,
         NEW x, x \notin DOMAIN held, NEW y, y \notin DOMAIN held, x # y
  PROVE  Mends(h, c, held, i, RotateUp(h, root, s, FALSE))
<1> DEFINE a == Child(root, s)
           b == Child(root, Other(s))
           held1 == SplitHeld(held, i, x, a, b)
           r == RotateUp(h, root, s, FALSE)
<1>1. HeapInv(h) /\ h.hwm \in Nat \ {0} /\ root.offset \in Nat \ {0}
  BY DEF Grove, HeapInv, HeapOK, IsNode, Struct
<1>2. Opens(h, c, held, i, x, s)
  BY <1>1, OpensTree
<1>3. root.offset \in DOMAIN c
  BY <1>2 DEF Opens
<1>4. PICK d1 : /\ Grove(h, d1, held1)
                /\ Ordered(d1, s, a, root.key, b)
                /\ Below(c, held[i]) = Below(d1, a) \cup {root.key} \cup Below(d1, b)
                /\ \A j \in DOMAIN held \ {i} : Below(d1, held[j]) = Below(c, held[j])
                /\ Loose(h, d1, root) /\ Grown(h, c, h, d1, {})
  BY <1>2 DEF Opens
<1>5. /\ DOMAIN held1 = DOMAIN held \cup {x} /\ held1[i] = a /\ held1[x] = b
      /\ i # x /\ y \notin DOMAIN held1
      /\ \A j \in DOMAIN held : j # i => held1[j] = held[j] /\ j # x
  BY DEF held1, SplitHeld
<1>6. Spare(h, d1, root)
  BY <1>1, <1>4 DEF Loose, Spare
<1>7. Rotates(h, d1, held1, root, FALSE, s, i, x)
  <2>1. a # 0 /\ a = Child(root, s) /\ b = Child(root, Other(s)) /\ FALSE \in BOOLEAN
    OBVIOUS
  <2> HIDE DEF held1, a, b
  <2> QED  BY <1>4, <1>5, <1>6, <2>1, RotatesTree
<1>8. PICK d2 : Became(h, d1, held1, i, x, {root.offset},
                       Below(d1, a) \cup {root.key} \cup Below(d1, b), r, d2)
  BY <1>5, <1>7 DEF Rotates
<1> HIDE DEF r, held1, a, b
<1>9. /\ Good(h, r) /\ Get(r.heap, r.n.offset) = r.n /\ h.hwm <= r.n.offset
      /\ r.heap.hwm = h.hwm
      /\ Grove(r.heap, d2, JoinHeld(held1, i, x, r.n.offset))
      /\ Below(d2, r.n.offset) = Below(c, held[i])
      /\ \A j \in DOMAIN held1 : j # i /\ j # x => Below(d2, held1[j]) = Below(d1, held1[j])
      /\ Grown(h, d1, r.heap, d2, {root.offset})
  BY <1>1, <1>4, <1>8, BecameFacts
<1>10. JoinHeld(held1, i, x, r.n.offset) = [held EXCEPT ![i] = r.n.offset]
  <2>1. JoinHeld(SplitHeld(held, i, x, a, b), i, x, r.n.offset)
          = [held EXCEPT ![i] = r.n.offset]
    BY HeldRejoin DEF IsFunction
  <2> QED  BY <2>1 DEF held1
<1>11. Grown(h, c, r.heap, d2, {})
  <2>1. \A q \in {root.offset} : q \in {} \/ q \in DOMAIN c \/ q \notin Offset(h)
    BY <1>3
  <2> QED  BY <1>4, <1>9, <2>1, GrownThen
<1>12. \A j \in DOMAIN held \ {i} : Below(d2, held[j]) = Below(c, held[j])
  BY <1>4, <1>5, <1>9
<1> QED  BY <1>9, <1>10, <1>11, <1>12 DEF Mends, Mended, r

LEMMA FixMends ==
  ASSUME ~Refcounting, NEW h, NEW c, NEW held, Grove(h, c, held), IsFunction(held),
         NEW root, IsNode(root, h.next), Get(h, root.offset) = root,
         h.hwm <= root.offset,
         NEW i \in DOMAIN held, held[i] = root.offset, NEW s \in Sides,
         NEW x, x \notin DOMAIN held, NEW y, y \notin DOMAIN held,
         NEW z, z \notin DOMAIN held, x # y, x # z, y # z
  PROVE  Mends(h, c, held, i, FixHeavy(h, root, s))
<1> DEFINE a == Child(root, s)
           b == Child(root, Other(s))
           e == Get(h, a)
           k == Get(h, b).height
           ea == Child(e, Other(s))
           eb == Child(e, s)
           inner == RotateUp(h, e, Other(s), FALSE)
           linked == Relinked(inner.heap, root, s, inner.n.offset, b, FALSE)
           outer == RotateUp(linked.heap, linked.n, s, FALSE)
           single == RotateUp(h, root, s, FALSE)
           nofix == [heap |-> h, n |-> root]
<1>1. FixHeavy(h, root, s) =
        IF e.height # k + 2 THEN nofix
        ELSE IF Get(h, ea).height = k + 1 THEN outer ELSE single
  BY Zenon DEF FixHeavy
<1>2. /\ HeapInv(h) /\ h.next \in Nat /\ h.hwm \in Nat \ {0}
      /\ root.offset \in Nat \ {0} /\ root.offset < h.next
      /\ a \in Nat /\ a < h.next /\ b \in Nat /\ b < h.next
      /\ s \in Sides /\ Other(s) \in Sides /\ Other(Other(s)) = s /\ FALSE \in BOOLEAN
  BY DEF Grove, HeapInv, HeapOK, IsNode, Struct, InArena, Child, Sides, Other
<1>3. k \in Nat
  <2>1. Get(h, b) \in Struct
    BY <1>2, GetType
  <2> QED  BY <2>1 DEF Struct
<1>4. e.height = k + 2 => a # 0
  <2>1. a = 0 => e.height = 0
    BY <1>2, GetType
  <2> QED  BY <1>3, <2>1
<1> HIDE DEF a, b, e, k, ea, eb, inner, linked, outer, single, nofix
<1>5. Mends(h, c, held, i, nofix)
  <2>1. [held EXCEPT ![i] = root.offset] = held
    BY DEF IsFunction
  <2>2. nofix.heap = h /\ nofix.n = root
    BY DEF nofix
  <2>3. Good(h, nofix)
    BY <1>2, <2>2, ExtendsRefl DEF Good
  <2>4. Grown(h, c, h, c, {})
    BY DEF Grown
  <2>5. Mended(h, c, held, i, nofix, c)
    BY <2>1, <2>2, <2>3, <2>4 DEF Mended
  <2> QED  BY <2>5 DEF Mends
<1>6. ASSUME e.height = k + 2
      PROVE  Mends(h, c, held, i, single)
  BY <1>4, <1>6, RotateMends DEF a, single
<1>7. ASSUME e.height = k + 2, Get(h, ea).height = k + 1
      PROVE  Mends(h, c, held, i, outer)
  <2> DEFINE held1 == SplitHeld(held, i, x, a, b)
             held2 == SplitHeld(held1, i, y, ea, eb)
  (* The root is opened, then the child that is to be rotated. *)
  <2>1. Opens(h, c, held, i, x, s)
    BY <1>2, OpensTree
  <2>2. root.offset \in DOMAIN c
    BY <2>1 DEF Opens
  <2>3. PICK d1 : /\ Grove(h, d1, held1)
                  /\ Ordered(d1, s, a, root.key, b)
                  /\ Below(c, held[i]) = Below(d1, a) \cup {root.key} \cup Below(d1, b)
                  /\ \A j \in DOMAIN held \ {i} : Below(d1, held[j]) = Below(c, held[j])
                  /\ Loose(h, d1, root) /\ Grown(h, c, h, d1, {})
    BY <2>1 DEF Opens, a, b
  <2>4. /\ DOMAIN held1 = DOMAIN held \cup {x} /\ held1[i] = a /\ held1[x] = b
        /\ i # x /\ y \notin DOMAIN held1 /\ z \notin DOMAIN held1
        /\ \A j \in DOMAIN held : j # i => held1[j] = held[j] /\ j # x
    BY DEF held1, SplitHeld
  <2>5. Opens(h, d1, held1, i, y, Other(s))
    <3> HIDE DEF held1
    <3> QED  BY <1>2, <1>4, <1>7, <2>3, <2>4, OpensTree
  <2>6. a \in DOMAIN d1 /\ IsNode(e, h.next) /\ e.offset = a
    BY <2>4, <2>5 DEF Opens, e
  <2>7. PICK d2 : /\ Grove(h, d2, held2)
                  /\ Ordered(d2, Other(s), ea, e.key, eb)
                  /\ Below(d1, a) = Below(d2, ea) \cup {e.key} \cup Below(d2, eb)
                  /\ \A j \in DOMAIN held1 \ {i} : Below(d2, held1[j]) = Below(d1, held1[j])
                  /\ Loose(h, d2, e) /\ Grown(h, d1, h, d2, {})
    <3> HIDE DEF held1
    <3> QED  BY <1>2, <2>4, <2>5 DEF Opens, e, ea, eb
  <2>8. /\ DOMAIN held2 = DOMAIN held1 \cup {y} /\ held2[i] = ea /\ held2[y] = eb
        /\ i # y /\ z \notin DOMAIN held2 /\ held2[x] = b /\ x # y
        /\ \A j \in DOMAIN held1 : j # i => held2[j] = held1[j] /\ j # y
    <3> HIDE DEF held1
    <3> QED  BY <2>4 DEF held2, SplitHeld
  <2>9. ea # 0
    <3>1. ea \in Nat /\ ea < h.next
      BY <1>2, <2>6 DEF IsNode, InArena, Struct, Child, ea
    <3>2. ea = 0 => Get(h, ea).height = 0
      BY <1>2, <3>1, GetType
    <3> QED  BY <1>3, <1>7, <3>2
  <2>10. Spare(h, d2, e)
    BY <1>2, <2>6, <2>7 DEF Loose, Spare
  <2> HIDE DEF held1, held2
  <2>11. Rotates(h, d2, held2, e, FALSE, Other(s), i, y)
    <3>1. ea = Child(e, Other(s)) /\ eb = Child(e, Other(Other(s)))
      BY <1>2 DEF ea, eb
    <3> QED  BY <1>2, <2>4, <2>6, <2>7, <2>8, <2>9, <2>10, <3>1, RotatesTree
  <2> DEFINE top == inner.n.offset
             held3 == JoinHeld(held2, i, y, top)
  <2>12. PICK d3 : Became(h, d2, held2, i, y, {a},
                          Below(d2, ea) \cup {e.key} \cup Below(d2, eb), inner, d3)
    BY <2>6, <2>8, <2>11 DEF Rotates, inner
  <2>13. /\ Good(h, inner) /\ Extends(h, inner.heap) /\ inner.heap.hwm = h.hwm
         /\ HeapInv(inner.heap) /\ Offset(h) \subseteq Offset(inner.heap)
         /\ Grove(inner.heap, d3, held3)
         /\ Below(d3, top) = Below(d1, a)
         /\ \A j \in DOMAIN held2 : j # i /\ j # y => Below(d3, held2[j]) = Below(d2, held2[j])
         /\ Grown(h, d2, inner.heap, d3, {a})
    BY <1>2, <2>7, <2>8, <2>12, BecameFacts
  <2>14. held3 = [held1 EXCEPT ![i] = top]
    <3>1. held1 = [j \in DOMAIN held1 |-> held1[j]]
      BY DEF held1, SplitHeld
    <3> HIDE DEF top
    <3> QED  BY <2>4, <3>1, HeldRejoin DEF held3, held2
  <2>15. /\ DOMAIN held3 = DOMAIN held \cup {x} /\ held3[i] = top /\ held3[x] = b
         /\ \A j \in DOMAIN held : j # i => held3[j] = held[j]
    <3> HIDE DEF top, held3
    <3> QED  BY <2>4, <2>14
  <2>16. \A j \in DOMAIN held1 : j # i => Below(d3, held1[j]) = Below(d1, held1[j])
    BY <2>7, <2>8, <2>13
  <2>17. Below(d3, b) = Below(d1, b)
    BY <2>4, <2>16
  <2>18. Ordered(d3, s, top, root.key, b)
    BY <2>3, <2>13, <2>17 DEF Ordered
  <2>19. Grown(h, d1, inner.heap, d3, {})
    <3>1. \A q \in {a} : q \in DOMAIN d1
      BY <2>6
    <3> QED  BY <2>7, <2>13, <3>1, GrownThen
  <2>20. Spare(inner.heap, d3, root)
    <3>1. root.offset \in Offset(h)
      BY <1>2 DEF Offset
    <3>2. root.offset \notin DOMAIN d1
      BY <1>2, <2>3 DEF Loose
    <3>3. root.offset \notin DOMAIN d3
      BY <2>19, <3>1, <3>2 DEF Grown
    <3> QED  BY <3>3 DEF Spare
  <2>21. IsNode(root, inner.heap.next)
    <3>1. h.next <= inner.heap.next /\ inner.heap.next \in Nat
      BY <2>13 DEF Extends, HeapInv, HeapOK
    <3> QED  BY <1>2, <3>1, IsNodeGrows
  <2> HIDE DEF top, held3
  <2>22. Relinks(inner.heap, d3, held3, root, FALSE, s, i, x)
    BY <1>2, <2>4, <2>13, <2>15, <2>18, <2>20, <2>21, RelinksTrees
  (* The child's new root is linked; the tree is whole again. *)
  <2>23. PICK d4 : /\ Became(inner.heap, d3, held3, i, x, {root.offset},
                             Below(d3, top) \cup {root.key} \cup Below(d3, b), linked, d4)
                   /\ Child(linked.n, s) = top
    <3>1. linked = Relinked(inner.heap, root, s, held3[i], held3[x], FALSE)
      BY <2>15 DEF linked, top
    <3> QED  BY <2>15, <2>22, <3>1 DEF Relinks
  <2> DEFINE held4 == [held EXCEPT ![i] = linked.n.offset]
  <2>24. /\ Good(inner.heap, linked) /\ IsNode(linked.n, linked.heap.next)
         /\ Get(linked.heap, linked.n.offset) = linked.n
         /\ inner.heap.hwm <= linked.n.offset /\ linked.heap.hwm = inner.heap.hwm
         /\ Grove(linked.heap, d4, JoinHeld(held3, i, x, linked.n.offset))
         /\ Below(d4, linked.n.offset) =
              Below(d3, top) \cup {root.key} \cup Below(d3, b)
         /\ \A j \in DOMAIN held3 : j # i /\ j # x => Below(d4, held3[j]) = Below(d3, held3[j])
         /\ Grown(inner.heap, d3, linked.heap, d4, {root.offset})
    BY <2>13, <2>23, BecameFacts
  <2>25. JoinHeld(held3, i, x, linked.n.offset) = held4
    <3>1. DOMAIN held3 \ {x} = DOMAIN held
      BY <2>15
    <3>2. JoinHeld(held3, i, x, linked.n.offset) =
            [j \in DOMAIN held |-> IF j = i THEN linked.n.offset ELSE held[j]]
      BY <2>15, <3>1 DEF JoinHeld
    <3> QED  BY <3>2 DEF held4
  <2>26. Grown(h, c, linked.heap, d4, {})
    <3>1. Grown(h, c, inner.heap, d3, {})
      BY <2>3, <2>19, GrownThen
    <3>2. \A q \in {root.offset} : q \in DOMAIN c
      BY <2>2
    <3> QED  BY <2>13, <2>24, <3>1, <3>2, GrownThen
  <2>27. \A j \in DOMAIN held \ {i} : Below(d4, held[j]) = Below(c, held[j])
    BY <2>3, <2>4, <2>15, <2>16, <2>24
  <2>28. Below(d4, linked.n.offset) = Below(c, held[i])
    BY <2>3, <2>13, <2>17, <2>24
  <2>29. Good(h, linked)
    BY <1>2, <2>13, <2>24, GoodThen
  <2>30. Mended(h, c, held, i, linked, d4)
    BY <2>13, <2>24, <2>25, <2>26, <2>27, <2>28, <2>29 DEF Mended
  <2>31. /\ IsFunction(held4) /\ DOMAIN held4 = DOMAIN held
         /\ held4[i] = linked.n.offset
    BY DEF IsFunction, held4
  <2> HIDE DEF held4
  <2>32. Child(linked.n, s) # 0
    <3>1. h.hwm <= top /\ top \in Nat
      BY <1>2, <2>12, <2>13 DEF Became, top, Good, IsNode, Struct
    <3> QED  BY <1>2, <2>23, <3>1
  <2>33. Mends(linked.heap, d4, held4, i, outer)
    BY <1>2, <2>13, <2>24, <2>25, <2>31, <2>32, RotateMends DEF outer
  <2>34. PICK d5 : Mended(linked.heap, d4, held4, i, outer, d5)
    BY <2>33 DEF Mends
  <2>35. Mended(h, c, held, i, outer, d5)
    BY <1>2, <2>30, <2>34, MendedThen DEF held4
  <2> QED  BY <2>35 DEF Mends
<1> QED  BY <1>1, <1>5, <1>6, <1>7

(* Writing a tree's root once more, as it is. *)
LEMMA RelinkMends ==
  ASSUME ~Refcounting, NEW h, NEW c, NEW held, Grove(h, c, held), IsFunction(held),
         NEW root, IsNode(root, h.next), Get(h, root.offset) = root,
         h.hwm <= root.offset,
         NEW i \in DOMAIN held, held[i] = root.offset, NEW s \in Sides,
         NEW x, x \notin DOMAIN held
  PROVE  Mends(h, c, held, i,
               Relinked(h, root, s, Child(root, s), Child(root, Other(s)), FALSE))
<1> DEFINE a == Child(root, s)
           b == Child(root, Other(s))
           held1 == SplitHeld(held, i, x, a, b)
           r == Relinked(h, root, s, a, b, FALSE)
<1>1. HeapInv(h) /\ h.hwm \in Nat \ {0} /\ root.offset \in Nat \ {0}
  BY DEF Grove, HeapInv, HeapOK, IsNode, Struct
<1>2. Opens(h, c, held, i, x, s)
  BY <1>1, OpensTree
<1>3. root.offset \in DOMAIN c
  BY <1>2 DEF Opens
<1>4. PICK d1 : /\ Grove(h, d1, held1)
                /\ Ordered(d1, s, a, root.key, b)
                /\ Below(c, held[i]) = Below(d1, a) \cup {root.key} \cup Below(d1, b)
                /\ \A j \in DOMAIN held \ {i} : Below(d1, held[j]) = Below(c, held[j])
                /\ Loose(h, d1, root) /\ Grown(h, c, h, d1, {})
  BY <1>2 DEF Opens
<1>5. /\ DOMAIN held1 = DOMAIN held \cup {x} /\ held1[i] = a /\ held1[x] = b
      /\ i # x
      /\ \A j \in DOMAIN held : j # i => held1[j] = held[j] /\ j # x
  BY DEF held1, SplitHeld
<1>6. Spare(h, d1, root)
  BY <1>1, <1>4 DEF Loose, Spare
<1>7. Relinks(h, d1, held1, root, FALSE, s, i, x)
  <2>1. FALSE \in BOOLEAN
    OBVIOUS
  <2> HIDE DEF held1, a, b
  <2> QED  BY <1>4, <1>5, <1>6, <2>1, RelinksTrees
<1>8. PICK d2 : Became(h, d1, held1, i, x, {root.offset},
                       Below(d1, a) \cup {root.key} \cup Below(d1, b), r, d2)
  BY <1>5, <1>7 DEF Relinks
<1> HIDE DEF r, held1, a, b
<1>9. /\ Good(h, r) /\ Get(r.heap, r.n.offset) = r.n /\ h.hwm <= r.n.offset
      /\ r.heap.hwm = h.hwm
      /\ Grove(r.heap, d2, JoinHeld(held1, i, x, r.n.offset))
      /\ Below(d2, r.n.offset) = Below(c, held[i])
      /\ \A j \in DOMAIN held1 : j # i /\ j # x => Below(d2, held1[j]) = Below(d1, held1[j])
      /\ Grown(h, d1, r.heap, d2, {root.offset})
  BY <1>1, <1>4, <1>8, BecameFacts
<1>10. JoinHeld(held1, i, x, r.n.offset) = [held EXCEPT ![i] = r.n.offset]
  <2>1. JoinHeld(SplitHeld(held, i, x, a, b), i, x, r.n.offset)
          = [held EXCEPT ![i] = r.n.offset]
    BY HeldRejoin DEF IsFunction
  <2> QED  BY <2>1 DEF held1
<1>11. Grown(h, c, r.heap, d2, {})
  <2>1. \A q \in {root.offset} : q \in {} \/ q \in DOMAIN c \/ q \notin Offset(h)
    BY <1>3
  <2> QED  BY <1>4, <1>9, <2>1, GrownThen
<1>12. \A j \in DOMAIN held \ {i} : Below(d2, held[j]) = Below(c, held[j])
  BY <1>4, <1>5, <1>9
<1> QED  BY <1>9, <1>10, <1>11, <1>12 DEF Mends, Mended, r, a, b

LEMMA BecameMended ==
  ASSUME NEW h, HeapInv(h), NEW c, NEW held, NEW i \in DOMAIN held,
         NEW x \in DOMAIN held, i # x, NEW own, NEW set,
         NEW q, NEW d, Became(h, c, held, i, x, own, set, q, d),
         NEW r, NEW e, NEW new, new = JoinHeld(held, i, x, q.n.offset),
         Mended(q.heap, d, new, i, r, e)
  PROVE  Became(h, c, held, i, x, own, set, r, e)
<1>1. /\ Good(h, q) /\ Good(q.heap, r) /\ HeapInv(q.heap) /\ q.heap.hwm = h.hwm
      /\ Offset(h) \subseteq Offset(q.heap)
  BY OffsetsGrow DEF Became, Mended, Good, Extends
<1>2. Good(h, r)
  BY <1>1, GoodThen
<1>3. /\ DOMAIN new = DOMAIN held \ {x} /\ new[i] = q.n.offset
      /\ \A j \in DOMAIN held \ {i, x} : j \in DOMAIN new \ {i} /\ new[j] = held[j]
  BY DEF JoinHeld
<1>4. [new EXCEPT ![i] = r.n.offset] = JoinHeld(held, i, x, r.n.offset)
  BY DEF JoinHeld
<1>5. Grown(h, c, r.heap, e, own)
  BY <1>1, GrownThen DEF Mended, Became
<1>6. \A j \in DOMAIN held \ {i, x} : Below(e, held[j]) = Below(c, held[j])
  BY <1>3 DEF Mended, Became
<1> QED  BY <1>1, <1>2, <1>3, <1>4, <1>5, <1>6 DEF Mended, Became

(* A level of the recursion on its way back: the two trees at its node     *)
(* become one, balanced on side t.  Replacing writes the node twice.       *)
Levelled(h, c, held, n, i, x, r) ==
  \E d : Became(h, c, held, i, x, {n.offset},
                Below(c, held[i]) \cup {n.key} \cup Below(c, held[x]), r, d)

LEMMA LevelFixed ==
  ASSUME ~Refcounting, NEW h, NEW c, NEW held, Grove(h, c, held),
         NEW i \in DOMAIN held, NEW x \in DOMAIN held, i # x,
         NEW n, NEW q, Levelled(h, c, held, n, i, x, q), NEW t \in Sides,
         NEW u, u \notin DOMAIN held, NEW v, v \notin DOMAIN held, u # v
  PROVE  Levelled(h, c, held, n, i, x, FixHeavy(q.heap, q.n, t))
<1> DEFINE set == Below(c, held[i]) \cup {n.key} \cup Below(c, held[x])
           new == JoinHeld(held, i, x, q.n.offset)
<1>1. HeapInv(h)
  BY DEF Grove
<1>2. PICK d : Became(h, c, held, i, x, {n.offset}, set, q, d)
  BY DEF Levelled
<1>3. /\ IsNode(q.n, q.heap.next) /\ Get(q.heap, q.n.offset) = q.n
      /\ q.heap.hwm <= q.n.offset /\ Grove(q.heap, d, new)
  BY <1>1, <1>2, BecameFacts
<1>4. /\ IsFunction(new) /\ DOMAIN new = DOMAIN held \ {x} /\ i \in DOMAIN new
      /\ new[i] = q.n.offset /\ x \notin DOMAIN new /\ u # x /\ v # x
      /\ u \notin DOMAIN new /\ v \notin DOMAIN new
  BY DEF JoinHeld, IsFunction
<1> HIDE DEF new, set
<1>5. Mends(q.heap, d, new, i, FixHeavy(q.heap, q.n, t))
  BY <1>3, <1>4, FixMends
<1>6. PICK e : Mended(q.heap, d, new, i, FixHeavy(q.heap, q.n, t), e)
  BY <1>5 DEF Mends
<1>7. Became(h, c, held, i, x, {n.offset}, set, FixHeavy(q.heap, q.n, t), e)
  BY <1>1, <1>2, <1>6, BecameMended DEF new
<1> QED  BY <1>7 DEF Levelled, set

LEMMA LevelLinked ==
  ASSUME ~Refcounting, NEW h, NEW c, NEW held, Grove(h, c, held),
         NEW n, IsNode(n, h.next), Spare(h, c, n),
         NEW m \in BOOLEAN, NEW s \in Sides, NEW t \in Sides,
         NEW i \in DOMAIN held, NEW x \in DOMAIN held, i # x,
         Ordered(c, s, held[i], n.key, held[x]),
         NEW u, u \notin DOMAIN held, NEW v, v \notin DOMAIN held, u # v,
         NEW l, l = Relinked(h, n, s, held[i], held[x], m)
  PROVE  Levelled(h, c, held, n, i, x, FixHeavy(l.heap, l.n, t))
<1>1. Relinks(h, c, held, n, m, s, i, x)
  BY RelinksTrees
<1>2. Levelled(h, c, held, n, i, x, l)
  BY <1>1 DEF Relinks, Levelled
<1> QED  BY <1>2, LevelFixed

Replaces(h, c, held, n, m, s, t, i, x) ==
  LET l == Relinked(h, n, s, held[i], held[x], m)
      w == Relinked(l.heap, l.n, s, held[i], held[x], FALSE)
  IN Levelled(h, c, held, n, i, x, FixHeavy(w.heap, w.n, t))

LEMMA LevelReplaced ==
  ASSUME ~Refcounting, NEW h, NEW c, NEW held, Grove(h, c, held),
         NEW n, IsNode(n, h.next), Spare(h, c, n),
         NEW m \in BOOLEAN, NEW s \in Sides, NEW t \in Sides,
         NEW i \in DOMAIN held, NEW x \in DOMAIN held, i # x,
         Ordered(c, s, held[i], n.key, held[x]),
         NEW u, u \notin DOMAIN held, NEW v, v \notin DOMAIN held, u # v
  PROVE  Replaces(h, c, held, n, m, s, t, i, x)
<1> DEFINE l == Relinked(h, n, s, held[i], held[x], m)
           w == Relinked(l.heap, l.n, s, held[i], held[x], FALSE)
<1>0. Replaces(h, c, held, n, m, s, t, i, x) <=>
        Levelled(h, c, held, n, i, x, FixHeavy(w.heap, w.n, t))
  BY Zenon DEF Replaces
<1> DEFINE set == Below(c, held[i]) \cup {n.key} \cup Below(c, held[x])
           new == JoinHeld(held, i, x, l.n.offset)
<1> SUFFICES Levelled(h, c, held, n, i, x, FixHeavy(w.heap, w.n, t))
  BY <1>0
<1>1. Relinks(h, c, held, n, m, s, i, x) /\ HeapInv(h)
  BY RelinksTrees DEF Grove
<1>2. PICK d : /\ Became(h, c, held, i, x, {n.offset}, set, l, d)
               /\ Child(l.n, s) = held[i] /\ Child(l.n, Other(s)) = held[x]
  BY <1>1 DEF Relinks
<1>3. /\ IsNode(l.n, l.heap.next) /\ Get(l.heap, l.n.offset) = l.n
      /\ l.heap.hwm <= l.n.offset /\ Grove(l.heap, d, new)
  BY <1>1, <1>2, BecameFacts
<1>4. /\ IsFunction(new) /\ i \in DOMAIN new
      /\ new[i] = l.n.offset /\ x \notin DOMAIN new
  BY DEF JoinHeld, IsFunction
<1> HIDE DEF l
<1>5. w = Relinked(l.heap, l.n, s, Child(l.n, s), Child(l.n, Other(s)), FALSE)
  BY <1>2, Zenon
<1> HIDE DEF new, set, w
<1>6. Mends(l.heap, d, new, i,
            Relinked(l.heap, l.n, s, Child(l.n, s), Child(l.n, Other(s)), FALSE))
  BY <1>3, <1>4, RelinkMends
<1>7. Mends(l.heap, d, new, i, w)
  BY <1>5, <1>6, Zenon
<1>8. PICK e : Mended(l.heap, d, new, i, w, e)
  BY <1>7 DEF Mends
<1>9. Became(h, c, held, i, x, {n.offset}, set, w, e)
  BY <1>1, <1>2, <1>8, BecameMended DEF new
<1>10. Levelled(h, c, held, n, i, x, w)
  BY <1>9 DEF Levelled, set
<1> QED  BY <1>10, LevelFixed

-----------------------------------------------------------------------------
(***************************************************************************)
(* The forest of a state.  While an operation is under way its tree has    *)
(* been taken apart along the path to the focus: the levels of the         *)
(* recursion, counted from the outermost, each with a node and the tree on *)
(* the side not taken.                                                     *)
(***************************************************************************)
Levels == 1 .. Len(stack)
Level(d) == stack[Len(stack) + 1 - d]

Busy == pc \in {"insert", "remove", "leftmost", "unwind"}
Focus == IF pc = "unwind" THEN ret.offset ELSE cur

Way(f) == IF f.dir = "left" THEN "left" ELSE "right"
Sibling(f) == Child(f.node, Other(Way(f)))

Held ==
  [i \in ({1} \X Trees) \cup ({2} \X Levels) |->
     IF i[1] = 2 THEN Sibling(Level(i[2]))
     ELSE IF Busy /\ call.tree = i[2] THEN Focus ELSE roots[i[2]]]

(* The key at a level once what is below is done, what the level adds to   *)
(* the tree, and all there is below it; the key an insertion is to add.    *)
LevelKey(f) ==
  IF f.dir = "replace" /\ pc = "unwind" THEN leftmost.key ELSE f.node.key
Part(c, d) == {LevelKey(Level(d))} \cup Below(c, Sibling(Level(d)))
Inside(c, d) ==
  Below(c, Focus) \cup UNION {Part(c, e) : e \in {l \in Levels : d < l}}
All(c) == Inside(c, 0)
ToCome == IF pc = "insert" THEN {call.lo} ELSE {}

(* A level's node is its own, or committed, and still as it was read; what *)
(* is below the level and what is beside it are on either side of its key. *)
LevelOK(c, d) ==
  LET f == Level(d)
  IN /\ Loose(heap, c, f.node) /\ Get(heap, f.node.offset) = f.node
     /\ LevelKey(f) \in Keys
     /\ \A u \in Inside(c, d) \cup ToCome : Beside(Way(f), u, LevelKey(f))
     /\ \A v \in Below(c, Sibling(f)) : Beside(Way(f), LevelKey(f), v)

Apart ==
  \A d, e \in Levels :
    /\ heap.hwm <= Level(d).node.offset
    /\ Level(d).node.offset = Level(e).node.offset
    => d = e

ReplacedOnce ==
  \A d, e \in Levels : Level(d).dir = "replace" /\ Level(e).dir = "replace" => d = e
Replacing == \E d \in Levels : Level(d).dir = "replace"

LevelsOK(c) ==
  Busy => /\ call.tree \in Trees
          /\ \A d \in Levels : LevelOK(c, d)
          /\ Apart /\ ReplacedOnce

(* An insertion: the new node waits, in no tree, until there is a place. *)
InsertOK(c) ==
  /\ call.lo \notin kept[call.tree]
  /\ pc \in {"insert", "unwind"} /\ ~Replacing
  /\ pc = "unwind" => All(c) = kept[call.tree] \cup {call.lo}
  /\ pc = "insert" =>
       /\ All(c) = kept[call.tree]
       /\ call.node \in Offset(heap) /\ heap.hwm <= call.node
       /\ call.node \notin DOMAIN c
       /\ \A d \in Levels : Level(d).node.offset # call.node
       /\ heap.node[call.node].lc = 0 /\ heap.node[call.node].rc = 0
       /\ heap.node[call.node].key = call.lo

(* A removal: so far no match; then, a match with two children, whose key  *)
(* is that of the level to be replaced; then, back with all but a match,   *)
(* if there was one.                                                       *)
Hit(k) == call.lo <= k /\ k <= call.hi

Searching(c) ==
  /\ All(c) = kept[call.tree]
  /\ \A d \in Levels : \A x \in Part(c, d) : ~Hit(x)

Fetching(c) ==
  /\ All(c) = kept[call.tree]
  /\ removed.offset # 0 /\ Hit(removed.key)
  /\ \E d \in Levels : /\ Level(d).dir = "replace"
                       /\ Level(d).node.key = removed.key
                       /\ \A e \in Levels : d < e => Level(e).dir = "left"

Removed(c) ==
  IF removed.offset = 0
  THEN /\ ~Replacing /\ All(c) = kept[call.tree]
       /\ \A x \in All(c) : ~Hit(x)
       /\ removed.key = NoKey
  ELSE /\ All(c) = kept[call.tree] \ {removed.key}
       /\ removed.key \in kept[call.tree] /\ Hit(removed.key)

LeftmostOK(c) ==
  Replacing =>
    /\ leftmost.offset # 0 /\ Loose(heap, c, leftmost)
    /\ \A d \in Levels :
         heap.hwm <= leftmost.offset => Level(d).node.offset # leftmost.offset

RemoveOK(c) ==
  /\ pc \in {"remove", "leftmost", "unwind"}
  /\ pc = "remove" => Searching(c)
  /\ pc = "leftmost" => Fetching(c)
  /\ pc = "unwind" => Removed(c) /\ LeftmostOK(c)

OperationOK(c) ==
  Busy => /\ call.op \in {"insert", "remove"}
          /\ call.op = "insert" => InsertOK(c)
          /\ call.op = "remove" => RemoveOK(c)

OthersOK(c) ==
  \A t \in Trees : ~(Busy /\ call.tree = t) => Below(c, roots[t]) = kept[t]

SavedOK(c) ==
  \A i \in 1 .. Len(snaps), t \in Trees :
    /\ Has(c, snaps[i].root[t])
    /\ Below(c, snaps[i].root[t]) = snaps[i].keys[t]

PiecesAre(c) ==
  Grove(heap, c, Held) /\ OthersOK(c) /\ SavedOK(c) /\ LevelsOK(c)

TreesAre(c) == PiecesAre(c) /\ OperationOK(c)

TreesOK == \E c : TreesAre(c)

-----------------------------------------------------------------------------
(* Levels come and go at the inner end. *)
LEMMA Pushed ==
  ASSUME StackOK(heap.next), NEW f \in Frame, stack' = <<f>> \o stack
  PROVE  /\ Len(stack) \in Nat /\ Len(stack) + 1 \notin Levels
         /\ \A d : d \in Levels' <=> d \in Levels \/ d = Len(stack) + 1
         /\ \A d : d = Len(stack) + 1 => Level(d)' = f
         /\ \A d \in Levels : Level(d)' = Level(d)
<1>1. stack \in Seq(Frame) /\ Len(stack) \in Nat
  BY DEF StackOK
<1>2. /\ stack' \in Seq(Frame) /\ Len(stack') = Len(stack) + 1
      /\ \A i \in 1 .. Len(stack') :
           IF i = 1 THEN stack'[i] = f
           ELSE i - 1 \in 1 .. Len(stack) /\ stack'[i] = stack[i - 1]
  BY <1>1, SeqPush
<1>3. stack'[1] = f
  BY <1>1, <1>2
<1>4. ASSUME NEW d, d = Len(stack) + 1 PROVE Level(d)' = f
  <2>1. Len(stack') + 1 - d = 1
    BY <1>1, <1>2, <1>4
  <2> QED  BY <1>3, <2>1 DEF Level
<1>5. ASSUME NEW d \in Levels PROVE Level(d)' = Level(d)
  <2> DEFINE i == Len(stack') + 1 - d
  <2>1. /\ i \in 1 .. Len(stack') /\ i # 1 /\ i - 1 = Len(stack) + 1 - d
    BY <1>1, <1>2 DEF Levels
  <2>2. stack'[i] = stack[i - 1]
    BY <1>2, <2>1
  <2> QED  BY <2>1, <2>2 DEF Level
<1>6. \A d : d \in Levels' <=> d \in Levels \/ d = Len(stack) + 1
  BY <1>1, <1>2 DEF Levels
<1> QED  BY <1>1, <1>4, <1>5, <1>6 DEF Levels

LEMMA Popped ==
  ASSUME StackOK(heap.next), stack # <<>>, stack' = Tail(stack)
  PROVE  /\ Len(stack) \in Levels /\ Level(Len(stack)) = Head(stack)
         /\ Len(stack') = Len(stack) - 1
         /\ \A d : d \in Levels' <=> d \in Levels /\ d # Len(stack)
         /\ \A d \in Levels' : d < Len(stack) /\ Level(d)' = Level(d)
<1>1. stack \in Seq(Frame) /\ Len(stack) \in Nat
  BY DEF StackOK
<1>2. /\ Head(stack) = stack[1] /\ 1 \in 1 .. Len(stack)
      /\ stack' \in Seq(Frame) /\ Len(stack') = Len(stack) - 1
      /\ \A i \in 1 .. Len(stack') : stack'[i] = stack[i + 1]
  BY <1>1, SeqPop
<1>3. Len(stack) \in Levels /\ Level(Len(stack)) = Head(stack)
  <2>1. Len(stack) + 1 - Len(stack) = 1
    BY <1>1
  <2> QED  BY <1>1, <1>2, <2>1 DEF Level, Levels
<1>4. \A d : d \in Levels' <=> d \in Levels /\ d # Len(stack)
  BY <1>1, <1>2 DEF Levels
<1>5. ASSUME NEW d \in Levels' PROVE d < Len(stack) /\ Level(d)' = Level(d)
  <2> DEFINE i == Len(stack') + 1 - d
  <2>1. i \in 1 .. Len(stack') /\ i + 1 = Len(stack) + 1 - d /\ d < Len(stack)
    BY <1>1, <1>2 DEF Levels
  <2>2. stack'[i] = stack[i + 1]
    BY <1>2, <2>1
  <2> QED  BY <2>1, <2>2 DEF Level
<1> QED  BY <1>2, <1>3, <1>4, <1>5

(* What the type invariant says of a level. *)
LEMMA LevelType ==
  ASSUME StackOK(heap.next), NEW d \in Levels
  PROVE  Level(d) \in Frame /\ IsNode(Level(d).node, heap.next)
<1>1. stack \in Seq(Frame) /\ Len(stack) \in Nat
  BY DEF StackOK
<1> DEFINE i == Len(stack) + 1 - d
<1>2. i \in 1 .. Len(stack)
  BY <1>1 DEF Levels
<1>3. stack[i] \in Frame /\ InArena(stack[i].node, heap.next) /\ stack[i].node.offset # 0
  BY <1>1, <1>2 DEF StackOK, Null
<1>4. Level(d) = stack[i]
  BY DEF Level
<1> QED  BY <1>3, <1>4 DEF IsNode, Frame

(* The invariant of the heap, in the words of the forest. *)
LEMMA HeapNow ==
  ASSUME IInv
  PROVE  /\ HeapInv(heap) /\ Closed(heap)
         /\ heap.hwm \in Nat \ {0} /\ heap.next \in Nat \ {0}
         /\ StackOK(heap.next) /\ LocalsOK(heap.next) /\ CallOK(heap.next)
         /\ PathOK /\ CallerOK(heap.next) /\ SavedTreesFrozen
  BY InvHeap, InvParts DEF IInv, HeapPart, HeapOK, SavedTreesFrozen, Closed

(* What changes in a step, to the rest of the forest: nothing. *)
LEMMA LooseKept ==
  ASSUME ~Refcounting, NEW h, HeapInv(h), NEW g, Extends(h, g),
         NEW c, NEW e, NEW own, Grown(h, c, g, e, own),
         NEW n, IsNode(n, h.next), Loose(h, c, n), Get(h, n.offset) = n,
         h.hwm <= n.offset => n.offset \notin own
  PROVE  Loose(g, e, n) /\ Get(g, n.offset) = n
<1>1. /\ h.hwm \in Nat \ {0} /\ n.offset \in Offset(h) /\ n.offset \in Nat
      /\ n.offset # 0
  BY DEF HeapInv, HeapOK, IsNode, InArena, Struct, Offset
<1>2. g.hwm = h.hwm
  BY DEF Extends
<1>3. CASE n.offset < h.hwm
  <2>1. n.offset \in DOMAIN c /\ n.offset \in 1 .. (h.hwm - 1)
    BY <1>1, <1>3 DEF Loose
  <2>2. n.offset \in DOMAIN e /\ g.node[n.offset] = h.node[n.offset]
    BY <1>1, <1>3, <2>1 DEF Grown, Extends
  <2> QED  BY <1>1, <1>2, <1>3, <2>2 DEF Loose, Get
<1>4. CASE ~(n.offset < h.hwm)
  <2>1. n.offset \notin DOMAIN c /\ h.hwm <= n.offset
    BY <1>1, <1>4 DEF Loose
  <2>2. n.offset \notin DOMAIN e /\ g.node[n.offset] = h.node[n.offset]
    BY <1>1, <2>1 DEF Grown
  <2> QED  BY <1>1, <1>2, <1>4, <2>2 DEF Loose, Get
<1> QED  BY <1>3, <1>4

LEMMA LevelKept ==
  ASSUME ~Refcounting, IInv, Extends(heap, heap'),
         NEW c, NEW e, NEW own, Grown(heap, c, heap', e, own),
         NEW d \in Levels, LevelOK(c, d), Level(d)' = Level(d),
         LevelKey(Level(d))' = LevelKey(Level(d)),
         heap.hwm <= Level(d).node.offset => Level(d).node.offset \notin own,
         \A u \in (Inside(e, d) \cup ToCome)' : u \in Inside(c, d) \cup ToCome,
         Below(e, Sibling(Level(d))) = Below(c, Sibling(Level(d)))
  PROVE  LevelOK(e, d)'
<1> DEFINE f == Level(d)
<1>1. HeapInv(heap) /\ IsNode(f.node, heap.next)
  BY HeapNow, LevelType
<1>2. Loose(heap', e, f.node) /\ Get(heap', f.node.offset) = f.node
  <2>1. Loose(heap, c, f.node) /\ Get(heap, f.node.offset) = f.node
    BY DEF LevelOK
  <2> QED  BY <1>1, <2>1, LooseKept
<1>3. /\ LevelKey(f) \in Keys
      /\ \A u \in Inside(c, d) \cup ToCome : Beside(Way(f), u, LevelKey(f))
      /\ \A v \in Below(c, Sibling(f)) : Beside(Way(f), LevelKey(f), v)
  BY DEF LevelOK
<1>4. f' = f /\ LevelKey(f)' = LevelKey(f) /\ Sibling(f)' = Sibling(f) /\ Way(f)' = Way(f)
  BY DEF Sibling, Way
<1> HIDE DEF f
<1>5. LevelKey(f)' \in Keys
  BY <1>3, <1>4
<1>6. \A u \in (Inside(e, d) \cup ToCome)' : Beside(Way(f), u, LevelKey(f)')
  BY <1>3, <1>4 DEF f
<1>7. \A v \in Below(e, Sibling(f)) : Beside(Way(f), LevelKey(f)', v)
  BY <1>3, <1>4 DEF f
<1> QED  BY <1>2, <1>4, <1>5, <1>6, <1>7 DEF LevelOK, f

LEMMA SavedKept ==
  ASSUME IInv, NEW c, Labelled(heap, c), SavedOK(c), snaps' = snaps,
         NEW g, NEW e, NEW own, Grown(heap, c, g, e, own)
  PROVE  SavedOK(e)'
<1> SUFFICES ASSUME NEW i \in 1 .. Len(snaps), NEW t \in Trees
             PROVE  /\ Has(e, snaps[i].root[t])
                    /\ Below(e, snaps[i].root[t]) = snaps[i].keys[t]
  BY DEF SavedOK
<1> DEFINE o == snaps[i].root[t]
<1>1. Has(c, o) /\ Below(c, o) = snaps[i].keys[t] /\ o < heap.hwm
  BY HeapNow DEF SavedOK, SavedTreesFrozen
<1>2. o # 0 => o \in DOMAIN c /\ o \in Offset(heap)
  BY <1>1 DEF Has, Labelled
<1> HIDE DEF o
<1>3. Has(e, o) /\ Below(e, o) = Below(c, o)
  BY <1>1, <1>2 DEF Grown, Has, Below
<1> QED  BY <1>1, <1>3 DEF o

LEMMA OthersKept ==
  ASSUME NEW c, OthersOK(c), Busy, Busy', UNCHANGED <<call, roots, kept>>, NEW e,
         \A t \in Trees : t # call.tree => Below(e, roots[t]) = Below(c, roots[t])
  PROVE  OthersOK(e)'
  BY DEF OthersOK

(* Who holds what. *)
LEMMA HeldAt ==
  /\ \A t \in Trees :
       /\ <<1, t>> \in DOMAIN Held
       /\ Held[<<1, t>>] = IF Busy /\ call.tree = t THEN Focus ELSE roots[t]
  /\ \A d \in Levels : /\ <<2, d>> \in DOMAIN Held
                       /\ Held[<<2, d>>] = Sibling(Level(d))
  /\ DOMAIN Held = ({1} \X Trees) \cup ({2} \X Levels)
  BY DEF Held

LEMMA HeldPushed ==
  ASSUME StackOK(heap.next), NEW f \in Frame, stack' = <<f>> \o stack,
         Busy, Busy', UNCHANGED <<call, roots>>,
         NEW n, n = Len(stack) + 1,
         NEW i, i = <<1, call.tree>>, NEW x, x = <<2, n>>
  PROVE  /\ x \notin DOMAIN Held
         /\ Held' = SplitHeld(Held, i, x, Focus', Sibling(f))
<1>1. /\ Len(stack) \in Nat /\ n \notin Levels
      /\ \A d : d \in Levels' <=> d \in Levels \/ d = n
      /\ Level(n)' = f
      /\ \A d \in Levels : Level(d)' = Level(d)
  BY Pushed
<1>2. DOMAIN Held = ({1} \X Trees) \cup ({2} \X Levels)
  BY HeldAt
<1>3. x \notin DOMAIN Held
  BY <1>1, <1>2
<1>4. ({1} \X Trees) \cup ({2} \X Levels') = DOMAIN Held \cup {x}
  BY <1>1, <1>2
<1>5. ASSUME NEW j \in DOMAIN Held \cup {x}
      PROVE  (IF j[1] = 2 THEN Sibling(Level(j[2]))'
              ELSE IF (Busy /\ call.tree = j[2])' THEN Focus' ELSE roots'[j[2]])
               = IF j = i THEN Focus' ELSE IF j = x THEN Sibling(f) ELSE Held[j]
  <2>1. CASE j = x
    <3>2. Sibling(Level(n))' = Sibling(f)
      BY <1>1 DEF Sibling, Way
    <3> QED  BY <1>2, <1>3, <2>1, <3>2, HeldAt
  <2>2. ASSUME NEW t \in Trees, j = <<1, t>> PROVE <1>5!2
    <3>1. Held[j] = IF Busy /\ call.tree = t THEN Focus ELSE roots[t]
      BY <2>2, HeldAt
    <3> QED  BY <2>2, <3>1
  <2>3. ASSUME NEW d \in Levels, j = <<2, d>> PROVE <1>5!2
    <3>1. Held[j] = Sibling(Level(d)) /\ d # n
      BY <1>1, <2>3, HeldAt
    <3>2. Sibling(Level(d))' = Sibling(Level(d))
      BY <1>1 DEF Sibling, Way
    <3> QED  BY <2>3, <3>1, <3>2
  <2> QED  BY <1>2, <2>1, <2>2, <2>3
<1> DEFINE D == DOMAIN Held \cup {x}
           new(j) == IF j[1] = 2 THEN Sibling(Level(j[2]))'
                     ELSE IF (Busy /\ call.tree = j[2])' THEN Focus' ELSE roots'[j[2]]
           split(j) == IF j = i THEN Focus' ELSE IF j = x THEN Sibling(f) ELSE Held[j]
<1>6. SplitHeld(Held, i, x, Focus', Sibling(f)) = [j \in D |-> split(j)]
  BY Zenon DEF SplitHeld
<1>7. \A j \in D : new(j) = split(j)
  BY <1>5
<1>8. D = ({1} \X Trees) \cup ({2} \X Levels')
  BY <1>4
<1> HIDE DEF D
<1>9. Held' = [j \in D |-> new(j)]
  BY <1>8, Zenon DEF Held
<1> HIDE DEF new, split
<1> QED
  BY <1>3, <1>6, <1>7, <1>9

LEMMA HeldPopped ==
  ASSUME StackOK(heap.next), stack # <<>>, stack' = Tail(stack),
         Busy, Busy', UNCHANGED <<call, roots>>, call.tree \in Trees,
         NEW n, n = Len(stack),
         NEW i, i = <<1, call.tree>>, NEW x, x = <<2, n>>
  PROVE  /\ i \in DOMAIN Held /\ x \in DOMAIN Held /\ i # x
         /\ Held[i] = Focus /\ Held[x] = Sibling(Head(stack))
         /\ Held' = JoinHeld(Held, i, x, Focus')
<1>1. /\ n \in Levels /\ Level(n) = Head(stack)
      /\ \A d : d \in Levels' <=> d \in Levels /\ d # n
      /\ \A d \in Levels' : Level(d)' = Level(d)
  BY Popped
<1>2. DOMAIN Held = ({1} \X Trees) \cup ({2} \X Levels)
  BY HeldAt
<1>3. ({1} \X Trees) \cup ({2} \X Levels') = DOMAIN Held \ {x}
  BY <1>1, <1>2
<1>4. ASSUME NEW j \in DOMAIN Held \ {x}
      PROVE  (IF j[1] = 2 THEN Sibling(Level(j[2]))'
              ELSE IF (Busy /\ call.tree = j[2])' THEN Focus' ELSE roots'[j[2]])
               = IF j = i THEN Focus' ELSE Held[j]
  <2>1. ASSUME NEW t \in Trees, j = <<1, t>> PROVE <1>4!2
    <3>1. Held[j] = IF Busy /\ call.tree = t THEN Focus ELSE roots[t]
      BY <2>1, HeldAt
    <3> QED  BY <2>1, <3>1
  <2>2. ASSUME NEW d \in Levels, j = <<2, d>> PROVE <1>4!2
    <3>1. Held[j] = Sibling(Level(d)) /\ d # n
      BY <1>1, <2>2, HeldAt
    <3>2. Sibling(Level(d))' = Sibling(Level(d))
      BY <1>1, <3>1 DEF Sibling, Way
    <3> QED  BY <2>2, <3>1, <3>2
  <2> QED  BY <1>2, <2>1, <2>2
<1> DEFINE D == DOMAIN Held \ {x}
           new(j) == IF j[1] = 2 THEN Sibling(Level(j[2]))'
                     ELSE IF (Busy /\ call.tree = j[2])' THEN Focus' ELSE roots'[j[2]]
           join(j) == IF j = i THEN Focus' ELSE Held[j]
<1>5. JoinHeld(Held, i, x, Focus') = [j \in D |-> join(j)]
  BY Zenon DEF JoinHeld
<1>6. \A j \in D : new(j) = join(j)
  BY <1>4
<1>7. D = ({1} \X Trees) \cup ({2} \X Levels')
  BY <1>3
<1> HIDE DEF D
<1>8. Held' = [j \in D |-> new(j)]
  BY <1>7, Zenon DEF Held
<1> HIDE DEF new, join
<1>9. Held' = JoinHeld(Held, i, x, Focus')
  BY <1>5, <1>6, <1>8
<1>10. /\ i \in DOMAIN Held /\ x \in DOMAIN Held /\ i # x
       /\ Held[i] = Focus /\ Held[x] = Sibling(Head(stack))
  BY <1>1, HeldAt
<1> QED  BY <1>9, <1>10

LEMMA HeldTurned ==
  ASSUME Busy, Busy', UNCHANGED <<stack, call, roots>>,
         NEW i, i = <<1, call.tree>>, i \in DOMAIN Held
  PROVE  Held' = [Held EXCEPT ![i] = Focus']
<1>1. DOMAIN Held = ({1} \X Trees) \cup ({2} \X Levels)
  BY HeldAt
<1> DEFINE D == DOMAIN Held
           new(j) == IF j[1] = 2 THEN Sibling(Level(j[2]))'
                     ELSE IF (Busy /\ call.tree = j[2])' THEN Focus' ELSE roots'[j[2]]
           put(j) == IF j = i THEN Focus' ELSE Held[j]
<1>2. Levels' = Levels
  BY DEF Levels
<1>3. ASSUME NEW j \in D PROVE new(j) = put(j)
  <2>1. ASSUME NEW t \in Trees, j = <<1, t>> PROVE new(j) = put(j)
    <3>1. Held[j] = IF Busy /\ call.tree = t THEN Focus ELSE roots[t]
      BY <2>1, HeldAt
    <3> QED  BY <2>1, <3>1
  <2>2. ASSUME NEW d \in Levels, j = <<2, d>> PROVE new(j) = put(j)
    <3>1. Held[j] = Sibling(Level(d))
      BY <2>2, HeldAt
    <3>2. Sibling(Level(d))' = Sibling(Level(d))
      BY DEF Sibling, Way, Level
    <3> QED  BY <2>2, <3>1, <3>2
  <2> QED  BY <1>1, <2>1, <2>2
<1>4. [Held EXCEPT ![i] = Focus'] = [j \in D |-> put(j)]
  BY Zenon
<1>5. D = ({1} \X Trees) \cup ({2} \X Levels')
  BY <1>1, <1>2
<1> HIDE DEF D
<1>6. Held' = [j \in D |-> new(j)]
  BY <1>5, Zenon DEF Held
<1> HIDE DEF new, put
<1> QED  BY <1>3, <1>4, <1>6

LEMMA InsideIs ==
  ASSUME NEW c, NEW d
  PROVE  \A u : u \in Inside(c, d) <=>
                  \/ u \in Below(c, Focus)
                  \/ \E l \in Levels : d < l /\ u \in Part(c, l)
  BY DEF Inside

(***************************************************************************)
(* A level down: the node at the focus goes on the stack, one of its trees *)
(* is beside it and the other is the focus.                                *)
(***************************************************************************)
Down(c, e, f) ==
  /\ PiecesAre(e)'
  /\ cur \in DOMAIN c /\ Grown(heap, c, heap, e, {})
  /\ All(e)' = All(c)
  /\ \A d \in Levels : Part(e, d)' = Part(c, d)
  /\ \A d : d = Len(stack) + 1 => Part(e, d)' = {f.node.key} \cup Below(e, Sibling(f))
  /\ \A v \in Below(e, Sibling(f)) : Beside(Way(f), f.node.key, v)
  /\ Below(e, Sibling(f)) \subseteq Nat /\ f.node.key \in Keys

LEMMA Descend ==
  ASSUME ~Refcounting, IInv, IInv', NEW c, PiecesAre(c),
         pc \in {"insert", "remove", "leftmost"},
         pc' \in {"insert", "remove", "leftmost"}, pc' = "insert" <=> pc = "insert",
         cur # Null, NEW f \in Frame, f.node = Get(heap, cur),
         stack' = <<f>> \o stack, cur' = Child(f.node, Way(f)), heap' = heap,
         UNCHANGED <<call, roots, kept, snaps>>,
         f.dir = "replace" => ~Replacing,
         \A u \in ToCome : Beside(Way(f), u, f.node.key)
  PROVE  \E e : Down(c, e, f)
<1> DEFINE n == Len(stack) + 1
           t == call.tree
           i == <<1, t>>
           x == <<2, n>>
           b == Sibling(f)
<1>1. /\ HeapInv(heap) /\ Closed(heap) /\ StackOK(heap.next) /\ heap.hwm \in Nat
      /\ Grove(heap, c, Held) /\ OthersOK(c) /\ SavedOK(c) /\ LevelsOK(c)
  BY HeapNow DEF PiecesAre
<1>2. Busy /\ Busy' /\ Focus = cur /\ Focus' = cur' /\ cur # 0
  BY DEF Busy, Focus, Null
<1>3. t \in Trees
  BY <1>1, <1>2 DEF LevelsOK
<1>4. i \in DOMAIN Held /\ Held[i] = cur
  BY <1>2, <1>3, HeldAt
<1>5. x \notin DOMAIN Held /\ Held' = SplitHeld(Held, i, x, cur', b)
  BY <1>1, <1>2, HeldPushed
<1>6. Way(f) \in Sides /\ Sibling(f) = Child(f.node, Other(Way(f)))
  BY DEF Way, Sides, Sibling
<1>7. Opens(heap, c, Held, i, x, Way(f))
  BY <1>1, <1>2, <1>4, <1>5, <1>6, OpensTree
<1>8. /\ cur \in DOMAIN c /\ IsNode(f.node, heap.next) /\ f.node.offset = cur
      /\ \E e : /\ Grove(heap, e, SplitHeld(Held, i, x, cur', b))
                /\ Ordered(e, Way(f), cur', f.node.key, b)
                /\ Below(c, cur) = Below(e, cur') \cup {f.node.key} \cup Below(e, b)
                /\ \A j \in DOMAIN Held \ {i} : Below(e, Held[j]) = Below(c, Held[j])
                /\ Loose(heap, e, f.node) /\ Grown(heap, c, heap, e, {})
  BY <1>4, <1>6, <1>7 DEF Opens
<1>9. PICK e : /\ Grove(heap, e, SplitHeld(Held, i, x, cur', b))
               /\ Ordered(e, Way(f), cur', f.node.key, b)
               /\ Below(c, cur) = Below(e, cur') \cup {f.node.key} \cup Below(e, b)
               /\ \A j \in DOMAIN Held \ {i} : Below(e, Held[j]) = Below(c, Held[j])
               /\ Loose(heap, e, f.node) /\ Grown(heap, c, heap, e, {})
  BY <1>8
<1>10. /\ n \in Nat /\ n \notin Levels
       /\ \A d : d \in Levels' <=> d \in Levels \/ d = n
       /\ \A d : d = n => Level(d)' = f
       /\ \A d \in Levels : Level(d)' = Level(d) /\ d < n
  BY <1>1, Pushed DEF Levels
<1>11. Grove(heap, e, Held)'
  BY <1>5, <1>9
<1>12. SavedOK(e)'
  BY <1>1, <1>9, SavedKept DEF Grove, Forest
<1>13. OthersOK(e)'
  <2>1. ASSUME NEW u \in Trees, u # t
        PROVE  Below(e, roots[u]) = Below(c, roots[u])
    <3>1. <<1, u>> \in DOMAIN Held \ {i} /\ Held[<<1, u>>] = roots[u]
      BY <2>1, HeldAt
    <3> QED  BY <1>9, <3>1
  <2> QED  BY <1>1, <1>2, <2>1, OthersKept
<1> HIDE DEF n, b
<1>14. ASSUME NEW d \in Levels
       PROVE  /\ Below(e, Sibling(Level(d))) = Below(c, Sibling(Level(d)))
              /\ LevelKey(Level(d))' = LevelKey(Level(d))
              /\ Part(e, d)' = Part(c, d)
  <2>1. <<2, d>> \in DOMAIN Held \ {i} /\ Held[<<2, d>>] = Sibling(Level(d))
    BY HeldAt
  <2>2. Below(e, Sibling(Level(d))) = Below(c, Sibling(Level(d)))
    BY <1>9, <2>1
  <2>3. LevelKey(Level(d))' = LevelKey(Level(d)) /\ Sibling(Level(d))' = Sibling(Level(d))
    BY <1>10 DEF LevelKey, Sibling, Way
  <2> QED  BY <2>2, <2>3 DEF Part
<1>15. ASSUME NEW d, d = n
       PROVE  Part(e, d)' = {f.node.key} \cup Below(e, b) /\ LevelKey(Level(d))' = f.node.key
  <2>1. Level(d)' = f /\ Sibling(Level(d))' = b
    BY <1>10, <1>15 DEF Sibling, Way, b
  <2>2. LevelKey(Level(d))' = f.node.key
    BY <2>1 DEF LevelKey
  <2> QED  BY <2>1, <2>2 DEF Part
<1>16. ASSUME NEW d \in Levels \cup {0}
       PROVE  Inside(e, d)' = Inside(c, d)
  <2>1. d < n /\ d \in Nat
    BY <1>10 DEF Levels
  <2>2. \A u : u \in Inside(e, d)' <=>
                  \/ u \in Below(e, cur')
                  \/ \E l \in Levels' : d < l /\ u \in Part(e, l)'
    BY <1>2 DEF Inside
  <2>3. \A u : u \in Inside(c, d) <=>
                  \/ u \in Below(c, cur)
                  \/ \E l \in Levels : d < l /\ u \in Part(c, l)
    BY <1>2, InsideIs
  <2>4. \A u : (\E l \in Levels' : d < l /\ u \in Part(e, l)') <=>
                  \/ \E l \in Levels : d < l /\ u \in Part(c, l)
                  \/ u \in {f.node.key} \cup Below(e, b)
    BY <1>10, <1>14, <1>15, <2>1
  <2>5. \A u : u \in Inside(e, d)' <=> u \in Inside(c, d)
    BY <1>9, <2>2, <2>3, <2>4
  <2> QED  BY <2>5
<1>17. ASSUME NEW d, d = n
       PROVE  Inside(e, d)' = Below(e, cur')
  <2>1. \A l \in Levels' : ~(d < l)
    BY <1>10, <1>17 DEF Levels
  <2> QED  BY <1>2, <2>1 DEF Inside
<1>18. ToCome' = ToCome
  BY DEF ToCome
<1>19. ASSUME NEW d \in Levels PROVE LevelOK(e, d)'
  <2>1. LevelOK(c, d)
    BY <1>1, <1>2 DEF LevelsOK
  <2>2. Extends(heap, heap')
    BY HeapUnchanged
  <2>3. \A u \in (Inside(e, d) \cup ToCome)' : u \in Inside(c, d) \cup ToCome
    BY <1>16, <1>18
  <2>4. Grown(heap, c, heap', e, {})
    BY <1>9
  <2> QED  BY <1>10, <1>14, <2>1, <2>2, <2>3, <2>4, LevelKept
<1>20. ASSUME NEW d, d = n PROVE LevelOK(e, d)'
  <2>1. /\ Level(d)' = f /\ Sibling(Level(d))' = b /\ Way(Level(d))' = Way(f)
    BY <1>10, <1>20 DEF Sibling, Way, b
  <2>2. /\ f.node.key \in Keys
        /\ \A u \in Below(e, cur') : Beside(Way(f), u, f.node.key)
        /\ \A v \in Below(e, b) : Beside(Way(f), f.node.key, v)
    BY <1>9 DEF Ordered
  <2>3. \A u \in (Inside(e, d) \cup ToCome)' : Beside(Way(f), u, f.node.key)
    BY <1>17, <1>18, <1>20, <2>2
  <2>4. Loose(heap', e, f.node) /\ Get(heap', f.node.offset) = f.node
    BY <1>8, <1>9
  <2> QED  BY <1>15, <1>20, <2>1, <2>2, <2>3, <2>4 DEF LevelOK
<1>21. LevelsOK(e)'
  <2>1. \A d \in Levels' : LevelOK(e, d)'
    BY <1>10, <1>19, <1>20
  <2>2. \A d \in Levels : heap.hwm <= Level(d).node.offset => Level(d).node.offset # cur
    BY <1>1, <1>2, <1>8, LevelType DEF LevelsOK, LevelOK, Loose, IsNode, Struct
  <2>3. Apart'
    BY <1>1, <1>2, <1>8, <1>10, <2>2 DEF LevelsOK, Apart
  <2>4. ReplacedOnce'
    BY <1>1, <1>2, <1>10 DEF LevelsOK, ReplacedOnce, Replacing
  <2> QED  BY <1>3, <2>1, <2>3, <2>4 DEF LevelsOK
<1>22. All(e)' = All(c)
  BY <1>16 DEF All
<1>23. /\ f.node.key \in Keys
       /\ \A v \in Below(e, b) : Beside(Way(f), f.node.key, v)
  BY <1>9 DEF Ordered
<1>24. Below(e, b) \subseteq Nat
  <2>1. /\ x \in DOMAIN SplitHeld(Held, i, x, cur', b)
        /\ SplitHeld(Held, i, x, cur', b)[x] = b
    BY <1>4, <1>5 DEF SplitHeld
  <2> QED  BY <1>9, <2>1, BelowKeys
<1> QED
  BY <1>24, <1>8, <1>9, <1>11, <1>12, <1>13, <1>14, <1>15, <1>21, <1>22, <1>23
  DEF Down, PiecesAre, n, b

(***************************************************************************)
(* A level up: the tree returned and the tree beside the level become one, *)
(* with the level's key, at the cost of no node but its own.               *)
(***************************************************************************)
Joins(h, c, held, i, x, r, key, own, e) ==
  /\ Extends(h, r.heap) /\ Grove(r.heap, e, JoinHeld(held, i, x, r.n.offset))
  /\ Below(e, r.n.offset) = Below(c, held[i]) \cup {key} \cup Below(c, held[x])
  /\ \A j \in DOMAIN held \ {i, x} : Below(e, held[j]) = Below(c, held[j])
  /\ Grown(h, c, r.heap, e, {own})

Up(c, e) == PiecesAre(e)' /\ All(e)' = All(c)

LEMMA Ascend ==
  ASSUME ~Refcounting, IInv, IInv', NEW c, PiecesAre(c),
         pc = "unwind", stack # <<>>, NEW r, ReturnLevel(r),
         NEW n, n = Len(stack), NEW i, i = <<1, call.tree>>, NEW x, x = <<2, n>>,
         NEW own, NEW e,
         Joins(heap, c, Held, i, x, r, LevelKey(Head(stack)), own, e),
         \A d \in Levels : heap.hwm <= Level(d).node.offset /\ Level(d).node.offset = own
                           => d = n
  PROVE  Up(c, e)
<1> DEFINE t == call.tree
           f == Head(stack)
           b == Sibling(f)
           key == LevelKey(f)
<1>1. /\ HeapInv(heap) /\ Closed(heap) /\ StackOK(heap.next) /\ heap.hwm \in Nat
      /\ Grove(heap, c, Held) /\ OthersOK(c) /\ SavedOK(c) /\ LevelsOK(c)
  BY HeapNow DEF PiecesAre
<1>2. /\ heap' = r.heap /\ ret' = r.n /\ stack' = Tail(stack)
      /\ UNCHANGED <<pc, call, cur, must, removed, leftmost, todo,
                     roots, kept, snaps, updates>>
  BY DEF ReturnLevel
<1>3. Busy /\ Busy' /\ Focus = ret.offset /\ Focus' = r.n.offset
  BY <1>2 DEF Busy, Focus
<1>4. t \in Trees /\ Apart /\ ReplacedOnce
  BY <1>1, <1>3 DEF LevelsOK
<1>5. /\ i \in DOMAIN Held /\ x \in DOMAIN Held /\ i # x
      /\ Held[i] = Focus /\ Held[x] = b
      /\ Held' = JoinHeld(Held, i, x, Focus')
  BY <1>1, <1>2, <1>3, <1>4, HeldPopped
<1>6. /\ Extends(heap, heap') /\ Grove(heap', e, JoinHeld(Held, i, x, Focus'))
      /\ Below(e, Focus') = Below(c, Focus) \cup {key} \cup Below(c, b)
      /\ \A j \in DOMAIN Held \ {i, x} : Below(e, Held[j]) = Below(c, Held[j])
      /\ Grown(heap, c, heap', e, {own})
  BY <1>2, <1>3, <1>5 DEF Joins
<1>7. /\ n \in Levels /\ Level(n) = f
      /\ \A d : d \in Levels' <=> d \in Levels /\ d # n
      /\ \A d \in Levels' : Level(d)' = Level(d) /\ d < n
  BY <1>1, <1>2, Popped
<1>8. Grove(heap, e, Held)'
  BY <1>5, <1>6
<1>9. SavedOK(e)'
  BY <1>1, <1>2, <1>6, SavedKept DEF Grove, Forest
<1>10. OthersOK(e)'
  <2>1. ASSUME NEW u \in Trees, u # t
        PROVE  Below(e, roots[u]) = Below(c, roots[u])
    <3>1. <<1, u>> \in DOMAIN Held \ {i, x} /\ Held[<<1, u>>] = roots[u]
      BY <2>1, HeldAt
    <3> QED  BY <1>6, <3>1
  <2> QED  BY <1>1, <1>2, <1>3, <2>1, OthersKept
<1> HIDE DEF b, key, f
<1>11. ASSUME NEW d \in Levels'
       PROVE  /\ Below(e, Sibling(Level(d))) = Below(c, Sibling(Level(d)))
              /\ LevelKey(Level(d))' = LevelKey(Level(d))
              /\ Part(e, d)' = Part(c, d)
  <2>1. <<2, d>> \in DOMAIN Held \ {i, x} /\ Held[<<2, d>>] = Sibling(Level(d))
    BY <1>7, HeldAt
  <2>2. Below(e, Sibling(Level(d))) = Below(c, Sibling(Level(d)))
    BY <1>6, <2>1
  <2>3. LevelKey(Level(d))' = LevelKey(Level(d)) /\ Sibling(Level(d))' = Sibling(Level(d))
    BY <1>2, <1>7 DEF LevelKey, Sibling, Way
  <2> QED  BY <2>2, <2>3 DEF Part
<1>12. Part(c, n) = {key} \cup Below(c, b)
  BY <1>7 DEF Part, b, key
<1>13. ASSUME NEW d \in Levels' \cup {0}
       PROVE  Inside(e, d)' = Inside(c, d)
  <2>1. d < n /\ d \in Nat
    BY <1>1, <1>7 DEF Levels, StackOK
  <2>2. \A u : u \in Inside(e, d)' <=>
                  \/ u \in Below(e, Focus')
                  \/ \E l \in Levels' : d < l /\ u \in Part(e, l)'
    BY <1>3 DEF Inside
  <2>3. \A u : u \in Inside(c, d) <=>
                  \/ u \in Below(c, Focus)
                  \/ \E l \in Levels : d < l /\ u \in Part(c, l)
    BY InsideIs
  <2>4. \A u : (\E l \in Levels : d < l /\ u \in Part(c, l)) <=>
                  \/ \E l \in Levels' : d < l /\ u \in Part(e, l)'
                  \/ u \in {key} \cup Below(c, b)
    BY <1>7, <1>11, <1>12, <2>1
  <2>5. \A u : u \in Inside(e, d)' <=> u \in Inside(c, d)
    BY <1>6, <2>2, <2>3, <2>4
  <2> QED  BY <2>5
<1>14. ToCome' = {}
  BY <1>2 DEF ToCome
<1>15. ASSUME NEW d \in Levels' PROVE LevelOK(e, d)'
  <2>1. LevelOK(c, d) /\ d \in Levels
    BY <1>1, <1>3, <1>7 DEF LevelsOK
  <2>2. \A u \in (Inside(e, d) \cup ToCome)' : u \in Inside(c, d) \cup ToCome
    BY <1>13, <1>14
  <2>3. heap.hwm <= Level(d).node.offset => Level(d).node.offset \notin {own}
    BY <1>7, <2>1
  <2> QED  BY <1>6, <1>7, <1>11, <2>1, <2>2, <2>3, LevelKept
<1>16. LevelsOK(e)'
  <2>1. Apart'
    BY <1>4, <1>6, <1>7 DEF Apart, Extends
  <2>2. ReplacedOnce'
    BY <1>4, <1>7 DEF ReplacedOnce
  <2> QED  BY <1>2, <1>4, <1>15, <2>1, <2>2 DEF LevelsOK
<1>17. All(e)' = All(c)
  BY <1>13 DEF All
<1> QED
  BY <1>8, <1>9, <1>10, <1>16, <1>17 DEF Up, PiecesAre

(* What LevelOK says of a level on its way back is what joining it takes.  *)
LEMMA LevelledJoins ==
  ASSUME NEW h, HeapInv(h), NEW c, NEW held, NEW n, NEW i, NEW x, NEW r,
         Levelled(h, c, held, n, i, x, r)
  PROVE  \E e : Joins(h, c, held, i, x, r, n.key, n.offset, e)
<1>1. PICK e : Became(h, c, held, i, x, {n.offset},
                      Below(c, held[i]) \cup {n.key} \cup Below(c, held[x]), r, e)
  BY DEF Levelled
<1>2. Joins(h, c, held, i, x, r, n.key, n.offset, e)
  BY <1>1 DEF Became, Joins, Good
<1> QED  BY <1>2

(* A level nothing came back changed to: its node still has the two trees. *)
LEMMA Restored ==
  ASSUME NEW h, NEW c, NEW held, Grove(h, c, held),
         NEW n, IsNode(n, h.next), Get(h, n.offset) = n, Loose(h, c, n),
         NEW s \in Sides, NEW i \in DOMAIN held, NEW x \in DOMAIN held, i # x,
         held[i] = Child(n, s), held[x] = Child(n, Other(s)),
         Ordered(c, s, held[i], n.key, held[x]),
         NEW r, r = [heap |-> h, n |-> n]
  PROVE  \E e : Joins(h, c, held, i, x, r, n.key, n.offset, e)
<1> DEFINE p == n.offset
           new == JoinHeld(held, i, x, p)
<1>1. /\ HeapInv(h) /\ Closed(h) /\ Ranked(h) /\ Forest(h, c, held)
      /\ Labelled(h, c) /\ HeldOnce(h, c, held) /\ LinkedOnce(h, c)
      /\ r.heap = h /\ r.n.offset = p
  BY DEF Grove, Forest
<1>2. /\ h.hwm \in Nat \ {0} /\ p \in Offset(h) /\ p \in Nat /\ p # 0
      /\ h.node[p].lc = n.lc /\ h.node[p].rc = n.rc /\ h.node[p].key = n.key
  BY <1>1 DEF HeapInv, HeapOK, IsNode, InArena, Struct, Offset, Get
<1>3. Extends(h, h)
  BY <1>1, ExtendsRefl
<1>4. Built(c, n) = Below(c, held[i]) \cup {n.key} \cup Below(c, held[x])
      /\ Sorted(c, n.lc, n.key, n.rc)
  <2>1. /\ Ordered(c, s, Child(n, s), n.key, Child(n, Other(s)))
             <=> Sorted(c, n.lc, n.key, n.rc)
        /\ Built(c, n) = Below(c, Child(n, s)) \cup {n.key}
                         \cup Below(c, Child(n, Other(s)))
    BY OrderedSorted
  <2>2. Ordered(c, s, Child(n, s), n.key, Child(n, Other(s)))
    BY Zenon
  <2> QED  BY <2>1, <2>2
<1>5. CASE p < h.hwm
  <2>1. p \in DOMAIN c
    BY <1>5 DEF Loose
  <2>2. Below(c, p) = Below(c, held[i]) \cup {n.key} \cup Below(c, held[x])
    BY <1>1, <1>2, <1>4, <2>1 DEF Labelled, Built, Below
  <2>3. HeldOnce(h, c, new)
    BY <1>1, <1>2, <1>5, <2>1 DEF HeldOnce, JoinHeld, Has
  <2>4. Grove(h, c, new)
    BY <1>1, <2>3 DEF Grove, Forest
  <2>5. Grown(h, c, h, c, {p})
    BY DEF Grown
  <2>6. Joins(h, c, held, i, x, r, n.key, p, c)
    BY <1>1, <1>3, <2>2, <2>4, <2>5 DEF Joins
  <2> QED  BY <2>6
<1>6. CASE ~(p < h.hwm)
  <2> DEFINE d == Added(h, c, p)
  <2>1. p \notin DOMAIN c /\ h.hwm <= p
    BY <1>2, <1>6 DEF Loose
  <2>2. Child(h.node[p], s) = held[i] /\ Child(h.node[p], Other(s)) = held[x]
    BY <1>2 DEF Child
  <2>a. /\ h.next <= h.next /\ \A q \in DOMAIN c : h.node[q] = h.node[q]
        /\ Sorted(c, h.node[p].lc, h.node[p].key, h.node[p].rc)
    BY <1>1, <1>2, <1>4 DEF HeapInv, HeapOK
  <2> HIDE DEF p
  <2>3. Forest(h, d, new)
    BY <1>1, <1>2, <2>1, <2>2, <2>a, PutTogether
  <2> USE DEF p
  <2>4. /\ \A q : q \in DOMAIN d <=> q \in DOMAIN c \/ q = p
        /\ \A q \in DOMAIN c : d[q] = c[q] /\ q # p
        /\ d[p] = Built(c, h.node[p])
        /\ \A o : Has(c, o) => Has(d, o) /\ Below(d, o) = Below(c, o) /\ o # p
    BY <1>2, <2>1, AddedIs
  <2> HIDE DEF d
  <2>5. Grove(h, d, new)
    BY <1>1, <2>3 DEF Grove
  <2>6. Below(d, p) = Below(c, held[i]) \cup {n.key} \cup Below(c, held[x])
    BY <1>2, <1>4, <2>4 DEF Below, Built
  <2>7. \A j \in DOMAIN held \ {i, x} : Below(d, held[j]) = Below(c, held[j])
    BY <1>1, <2>4 DEF HeldOnce
  <2>8. Grown(h, c, h, d, {p})
    BY <2>4 DEF Grown
  <2>9. Joins(h, c, held, i, x, r, n.key, p, d)
    BY <1>1, <1>3, <2>5, <2>6, <2>7, <2>8 DEF Joins
  <2> QED  BY <2>9
<1> QED  BY <1>5, <1>6

(* What a level that is about to be returned to holds.                     *)
Rising(c, f, s, n, i, x) ==
  /\ f \in Frame /\ IsNode(f.node, heap.next) /\ s \in Sides
  /\ Loose(heap, c, f.node) /\ Get(heap, f.node.offset) = f.node
  /\ i \in DOMAIN Held /\ x \in DOMAIN Held /\ i # x
  /\ Held[i] = ret.offset /\ Held[x] = Child(f.node, Other(s))
  /\ ret.offset \in Nat /\ ret.offset < heap.next
  /\ Ordered(c, s, Held[i], LevelKey(f), Held[x])
  /\ \A d \in Levels :
       heap.hwm <= Level(d).node.offset /\ Level(d).node.offset = f.node.offset
       => d = n
  /\ <<3, 0>> \notin DOMAIN Held /\ <<4, 0>> \notin DOMAIN Held

LEMMA RisingNow ==
  ASSUME IInv, NEW c, PiecesAre(c), pc = "unwind", stack # <<>>,
         NEW f, f = Head(stack), NEW s, s = Way(f),
         NEW n, n = Len(stack), NEW i, i = <<1, call.tree>>, NEW x, x = <<2, n>>
  PROVE  Rising(c, f, s, n, i, x)
<1>1. /\ HeapInv(heap) /\ StackOK(heap.next) /\ heap.hwm \in Nat
      /\ LevelsOK(c) /\ LocalsOK(heap.next)
  BY HeapNow DEF PiecesAre
<1>2. Busy /\ Focus = ret.offset
  BY DEF Busy, Focus
<1>3. call.tree \in Trees /\ Apart /\ \A d \in Levels : LevelOK(c, d)
  BY <1>1, <1>2 DEF LevelsOK
<1>4. stack \in Seq(Frame) /\ n \in 1 .. Len(stack) /\ Head(stack) = stack[1] /\ Len(stack) \in Nat
  BY <1>1 DEF StackOK
<1>5. n \in Levels /\ Level(n) = f
  <2>1. Len(stack) + 1 - n = 1
    BY <1>4
  <2> QED  BY <1>4, <2>1 DEF Levels, Level
<1>6. f \in Frame /\ IsNode(f.node, heap.next)
  BY <1>1, <1>5, LevelType
<1>7. s \in Sides /\ Sibling(f) = Child(f.node, Other(s))
  BY DEF Way, Sides, Sibling
<1>8. /\ Held[i] = ret.offset /\ Held[x] = Sibling(f)
      /\ i \in DOMAIN Held /\ x \in DOMAIN Held /\ i # x
  BY <1>2, <1>3, <1>5, HeldAt
<1>9. /\ Loose(heap, c, f.node) /\ Get(heap, f.node.offset) = f.node
      /\ LevelKey(f) \in Keys
      /\ \A u \in Inside(c, n) \cup ToCome : Beside(s, u, LevelKey(f))
      /\ \A v \in Below(c, Sibling(f)) : Beside(s, LevelKey(f), v)
  BY <1>3, <1>5 DEF LevelOK
<1>10. \A u \in Below(c, Focus) : u \in Inside(c, n)
  BY InsideIs
<1>11. Ordered(c, s, Held[i], LevelKey(f), Held[x])
  BY <1>2, <1>8, <1>9, <1>10 DEF Ordered
<1>12. \A d \in Levels :
       heap.hwm <= Level(d).node.offset /\ Level(d).node.offset = f.node.offset
       => d = n
  BY <1>3, <1>5 DEF Apart
<1>13. <<3, 0>> \notin DOMAIN Held /\ <<4, 0>> \notin DOMAIN Held
  <2>1. DOMAIN Held = ({1} \X Trees) \cup ({2} \X Levels)
    BY HeldAt
  <2> QED  BY <2>1
<1>14. ret.offset \in Nat /\ ret.offset < heap.next
  BY <1>1 DEF LocalsOK, InArena, Struct
<1> QED
  BY <1>6, <1>7, <1>8, <1>9, <1>11, <1>12, <1>13, <1>14 DEF Rising

(* Linking what came back into a level's node and rebalancing on side t.   *)
LEMMA LinkedJoins ==
  ASSUME ~Refcounting, NEW c, Grove(heap, c, Held),
         NEW f, NEW s, NEW n, NEW i, NEW x, Rising(c, f, s, n, i, x),
         LevelKey(f) = f.node.key, NEW t \in Sides,
         NEW l, l = Relinked(heap, f.node, s, ret.offset, Child(f.node, Other(s)), f.must),
         NEW r, r = FixHeavy(l.heap, l.n, t)
  PROVE  \E e : Joins(heap, c, Held, i, x, r, LevelKey(f), f.node.offset, e)
<1>1. /\ IsNode(f.node, heap.next) /\ s \in Sides /\ f.must \in BOOLEAN
      /\ Spare(heap, c, f.node)
      /\ i \in DOMAIN Held /\ x \in DOMAIN Held /\ i # x
      /\ Held[i] = ret.offset /\ Held[x] = Child(f.node, Other(s))
      /\ Ordered(c, s, Held[i], f.node.key, Held[x])
      /\ <<3, 0>> \notin DOMAIN Held /\ <<4, 0>> \notin DOMAIN Held
  BY DEF Rising, Loose, Spare, Frame
<1>2. l = Relinked(heap, f.node, s, Held[i], Held[x], f.must)
  BY <1>1, Zenon
<1>3. <<3, 0>> # <<4, 0>>
  OBVIOUS
<1>4. Levelled(heap, c, Held, f.node, i, x, r)
  BY <1>1, <1>2, <1>3, LevelLinked
<1>5. HeapInv(heap)
  BY DEF Grove
<1>6. \E e : Joins(heap, c, Held, i, x, r, f.node.key, f.node.offset, e)
  BY <1>4, <1>5, LevelledJoins
<1> QED  BY <1>6

LEMMA InsertUp ==
  ASSUME ~Refcounting, IInv, IInv', NEW c, TreesAre(c), InsertUnwind
  PROVE  TreesOK'
<1> DEFINE f == Head(stack)
           s == Way(f)
           l == Relinked(heap, f.node, s, ret.offset, Child(f.node, Other(s)), f.must)
           r == FixHeavy(l.heap, l.n, s)
<1>1. /\ pc = "unwind" /\ call.op = "insert" /\ stack # <<>>
      /\ PiecesAre(c) /\ OperationOK(c) /\ Grove(heap, c, Held)
  BY DEF InsertUnwind, TreesAre, PiecesAre
<1>2. ReturnLevel(r)
  <2>1. CASE f.dir = "left"
    <3>1. s = "left" /\ l = LinkLeft(f)
      BY <2>1 DEF Way, LinkLeft, Relinked, Child, Other
    <3>2. r = FixLeftHeavy(LinkLeft(f).heap, LinkLeft(f).n)
      BY <3>1, FixHeavyIs
    <3> QED  BY <2>1, <3>2 DEF InsertUnwind
  <2>2. CASE f.dir # "left"
    <3>1. s = "right" /\ l = LinkRight(f)
      BY <2>2 DEF Way, LinkRight, Relinked, Child, Other
    <3>2. r = FixRightHeavy(LinkRight(f).heap, LinkRight(f).n)
      BY <3>1, FixHeavyIs
    <3> QED  BY <2>2, <3>2 DEF InsertUnwind
  <2> QED  BY <2>1, <2>2
<1> DEFINE n == Len(stack)
           i == <<1, call.tree>>
           x == <<2, n>>
<1>3. Rising(c, f, s, n, i, x)
  BY <1>1, RisingNow
<1>4. Busy /\ InsertOK(c)
  BY <1>1 DEF OperationOK, Busy
<1>5. LevelKey(f) = f.node.key
  <2>1. StackOK(heap.next)
    BY HeapNow
  <2>2. /\ stack \in Seq(Frame) /\ Len(stack) \in Nat
        /\ 1 \in 1 .. Len(stack) /\ Head(stack) = stack[1]
    BY <1>1, <2>1 DEF StackOK
  <2>3. Len(stack) \in Levels /\ Level(Len(stack)) = f
    <3>1. Len(stack) + 1 - Len(stack) = 1
      BY <2>2
    <3> QED  BY <2>2, <3>1 DEF Levels, Level
  <2>4. f.dir # "replace"
    BY <1>4, <2>3 DEF InsertOK, Replacing
  <2> QED  BY <2>4 DEF LevelKey
<1> HIDE DEF f, s, l, r, n, i, x
<1>6. \E e : Joins(heap, c, Held, i, x, r, LevelKey(f), f.node.offset, e)
  BY <1>1, <1>3, <1>5, LinkedJoins DEF l, r, Rising
<1>7. PICK e : Joins(heap, c, Held, i, x, r, LevelKey(f), f.node.offset, e)
  BY <1>6
<1>8. \A d \in Levels :
        heap.hwm <= Level(d).node.offset /\ Level(d).node.offset = f.node.offset
        => d = n
  BY <1>3 DEF Rising
<1>9. Up(c, e)
  BY <1>1, <1>2, <1>7, <1>8, Ascend DEF f, n, i, x
<1>10. /\ UNCHANGED <<pc, call, kept>> /\ stack' = Tail(stack)
  BY <1>2 DEF ReturnLevel
<1>11. ~Replacing'
  <2>1. /\ \A d \in Levels' : d \in Levels /\ Level(d)' = Level(d)
    BY <1>1, <1>10, HeapNow, Popped
  <2> QED  BY <1>4, <2>1 DEF InsertOK, Replacing
<1>12. OperationOK(e)'
  BY <1>1, <1>4, <1>9, <1>10, <1>11 DEF OperationOK, InsertOK, Up
<1>13. TreesAre(e)'
  BY <1>9, <1>12 DEF Up, TreesAre
<1> QED  BY <1>13 DEF TreesOK

(* A removal goes up a level, and still knows what it knows.               *)
LEMMA RemoveUp ==
  ASSUME ~Refcounting, IInv, IInv', NEW c, TreesAre(c),
         pc = "unwind", call.op = "remove", stack # <<>>, NEW r, ReturnLevel(r),
         NEW f, f = Head(stack), NEW s, s = Way(f),
         NEW n, n = Len(stack), NEW i, i = <<1, call.tree>>, NEW x, x = <<2, n>>,
         NEW own, NEW e, Joins(heap, c, Held, i, x, r, LevelKey(f), own, e),
         own = f.node.offset \/ (f.dir = "replace" /\ own = leftmost.offset)
  PROVE  TreesOK'
<1>1. /\ PiecesAre(c) /\ OperationOK(c) /\ LevelsOK(c)
      /\ UNCHANGED <<pc, call, kept, removed, leftmost>> /\ stack' = Tail(stack)
      /\ heap' = r.heap
  BY DEF TreesAre, PiecesAre, ReturnLevel
<1>2. /\ Busy /\ Removed(c) /\ LeftmostOK(c)
      /\ \A d, e1 \in Levels :
           Level(d).dir = "replace" /\ Level(e1).dir = "replace" => d = e1
  BY <1>1 DEF OperationOK, Busy, RemoveOK, LevelsOK, ReplacedOnce
<1>3. /\ n \in Levels /\ Level(n) = f
      /\ \A d \in Levels' : d \in Levels /\ d # n /\ Level(d)' = Level(d)
  BY <1>1, HeapNow, Popped
<1>4. Rising(c, f, s, n, i, x)
  BY <1>1, RisingNow
<1>5. \A d \in Levels :
        heap.hwm <= Level(d).node.offset /\ Level(d).node.offset = own => d = n
  BY <1>2, <1>3, <1>4 DEF Rising, LeftmostOK, Replacing
<1>6. Up(c, e)
  BY <1>1, <1>5, Ascend
<1>7. Replacing' => Replacing /\ f.dir # "replace"
  BY <1>2, <1>3 DEF Replacing
<1>8. /\ Extends(heap, heap') /\ Grown(heap, c, heap', e, {own})
      /\ heap'.hwm = heap.hwm /\ HeapInv(heap)
  BY <1>1, HeapNow DEF Joins, Extends
<1>9. LeftmostOK(e)'
  <2> SUFFICES ASSUME Replacing'
               PROVE  /\ leftmost.offset # 0 /\ Loose(heap', e, leftmost)
                      /\ \A d \in Levels' :
                           heap.hwm <= leftmost.offset
                           => Level(d).node.offset # leftmost.offset
    BY <1>1, <1>3, <1>8 DEF LeftmostOK
  <2>1. /\ leftmost.offset # 0 /\ Loose(heap, c, leftmost)
        /\ \A d \in Levels :
             heap.hwm <= leftmost.offset => Level(d).node.offset # leftmost.offset
        /\ own = f.node.offset
    BY <1>2, <1>7 DEF LeftmostOK
  <2>2. leftmost.offset \in Offset(heap) /\ heap.hwm \in Nat /\ leftmost.offset \in Nat
    <3>1. LocalsOK(heap.next) /\ heap.hwm \in Nat /\ heap.next \in Nat
      BY HeapNow
    <3>2. leftmost.offset \in Nat /\ leftmost.offset < heap.next
      BY <3>1 DEF LocalsOK, InArena, Struct
    <3> QED  BY <2>1, <3>1, <3>2 DEF Offset
  <2>3. heap.hwm <= leftmost.offset => leftmost.offset # own
    BY <1>3, <2>1
  <2>4. Loose(heap', e, leftmost)
    BY <1>8, <2>1, <2>2, <2>3 DEF Loose, Grown
  <2> QED  BY <1>3, <2>1, <2>4
<1>10. Removed(e)'
  BY <1>1, <1>2, <1>6, <1>7 DEF Removed, Up, Hit
<1>11. OperationOK(e)'
  BY <1>1, <1>9, <1>10 DEF OperationOK, RemoveOK
<1>12. TreesAre(e)'
  BY <1>6, <1>11 DEF Up, TreesAre
<1> QED  BY <1>12 DEF TreesOK

LEMMA RemoveUpLinked ==
  ASSUME ~Refcounting, IInv, IInv', NEW c, TreesAre(c), RemoveUnwind
  PROVE  TreesOK'
<1> DEFINE f == Head(stack)
           s == Way(f)
           t == Other(s)
           l == Relinked(heap, f.node, s, ret.offset, Child(f.node, Other(s)), f.must)
           r == FixHeavy(l.heap, l.n, t)
           n == Len(stack)
           i == <<1, call.tree>>
           x == <<2, n>>
<1>1. /\ pc = "unwind" /\ call.op = "remove" /\ stack # <<>> /\ f.dir # "replace"
      /\ PiecesAre(c) /\ OperationOK(c) /\ Grove(heap, c, Held)
  BY DEF RemoveUnwind, TreesAre, PiecesAre
<1>2. ReturnLevel(r)
  <2>1. CASE f.dir = "left"
    <3>1. s = "left" /\ t = "right" /\ l = LinkLeft(f)
      BY <2>1 DEF Way, LinkLeft, Relinked, Child, Other
    <3>2. r = FixRightHeavy(LinkLeft(f).heap, LinkLeft(f).n)
      BY <3>1, FixHeavyIs
    <3> QED  BY <2>1, <3>2 DEF RemoveUnwind
  <2>2. CASE f.dir # "left"
    <3>1. s = "right" /\ t = "left" /\ l = LinkRight(f)
      BY <2>2 DEF Way, LinkRight, Relinked, Child, Other
    <3>2. r = FixLeftHeavy(LinkRight(f).heap, LinkRight(f).n)
      BY <3>1, FixHeavyIs
    <3> QED  BY <2>2, <3>2 DEF RemoveUnwind
  <2> QED  BY <2>1, <2>2
<1>3. Rising(c, f, s, n, i, x)
  BY <1>1, RisingNow
<1>4. LevelKey(f) = f.node.key
  BY <1>1 DEF LevelKey
<1>5. t \in Sides
  BY DEF Other, Sides
<1> HIDE DEF f, s, t, l, r, n, i, x
<1>6. \E e : Joins(heap, c, Held, i, x, r, LevelKey(f), f.node.offset, e)
  BY <1>1, <1>3, <1>4, <1>5, LinkedJoins DEF l, r
<1>7. PICK e : Joins(heap, c, Held, i, x, r, LevelKey(f), f.node.offset, e)
  BY <1>6
<1> QED  BY <1>1, <1>2, <1>7, RemoveUp DEF f, s, n, i, x

LEMMA RemoveUpSame ==
  ASSUME ~Refcounting, IInv, IInv', NEW c, TreesAre(c), RemoveUnwindSame
  PROVE  TreesOK'
<1> DEFINE f == Head(stack)
           s == Way(f)
           r == [heap |-> heap, n |-> f.node]
           n == Len(stack)
           i == <<1, call.tree>>
           x == <<2, n>>
<1>1. /\ pc = "unwind" /\ call.op = "remove" /\ stack # <<>> /\ f.dir # "replace"
      /\ ret.offset = OldChild(f) /\ ReturnLevel(r)
      /\ PiecesAre(c) /\ OperationOK(c) /\ Grove(heap, c, Held)
  BY DEF RemoveUnwindSame, TreesAre, PiecesAre
<1>2. Rising(c, f, s, n, i, x)
  BY <1>1, RisingNow
<1>3. LevelKey(f) = f.node.key
  BY <1>1 DEF LevelKey
<1>4. ret.offset = Child(f.node, s)
  BY <1>1 DEF OldChild, Child, Way
<1> HIDE DEF f, s, n, i, x
<1>5. \E e : Joins(heap, c, Held, i, x, r, f.node.key, f.node.offset, e)
  <2>1. /\ IsNode(f.node, heap.next) /\ Get(heap, f.node.offset) = f.node
        /\ Loose(heap, c, f.node) /\ s \in Sides
        /\ i \in DOMAIN Held /\ x \in DOMAIN Held /\ i # x
        /\ Held[i] = Child(f.node, s) /\ Held[x] = Child(f.node, Other(s))
        /\ Ordered(c, s, Held[i], f.node.key, Held[x])
    BY <1>2, <1>3, <1>4 DEF Rising
  <2> QED  BY <1>1, <2>1, Restored
<1>6. PICK e : Joins(heap, c, Held, i, x, r, LevelKey(f), f.node.offset, e)
  BY <1>3, <1>5
<1> QED  BY <1>1, <1>6, RemoveUp DEF f, s, n, i, x

LEMMA RemoveUpReplaced ==
  ASSUME ~Refcounting, IInv, IInv', NEW c, TreesAre(c), RemoveUnwindReplace
  PROVE  TreesOK'
<1> DEFINE f == Head(stack)
           s == Way(f)
           l == Relinked(heap, leftmost, s, ret.offset, Child(f.node, Other(s)), f.must)
           w == Relinked(l.heap, l.n, s, ret.offset, Child(f.node, Other(s)), FALSE)
           r == FixHeavy(w.heap, w.n, "left")
           n == Len(stack)
           i == <<1, call.tree>>
           x == <<2, n>>
<1>1. /\ pc = "unwind" /\ call.op = "remove" /\ stack # <<>> /\ f.dir = "replace"
      /\ PiecesAre(c) /\ OperationOK(c) /\ Grove(heap, c, Held)
  BY DEF RemoveUnwindReplace, TreesAre, PiecesAre
<1>2. ReturnLevel(r)
  <2> DEFINE r1 == Rewrite(heap, leftmost, f.node.lc, ret.offset, f.must)
             r2 == Rewrite(r1.heap, r1.n, f.node.lc, ret.offset, FALSE)
  <2>1. s = "right" /\ l = r1
    BY <1>1 DEF Way, Relinked, Child, Other
  <2>2. w = r2
    BY <2>1, Zenon DEF Relinked, Child, Other
  <2>3. r = FixLeftHeavy(r2.heap, r2.n)
    BY <2>2, FixHeavyIs
  <2>4. ReturnLevel(FixLeftHeavy(r2.heap, r2.n))
    BY DEF RemoveUnwindReplace
  <2> QED  BY <2>3, <2>4
<1>3. Rising(c, f, s, n, i, x)
  BY <1>1, RisingNow
<1>4. LevelKey(f) = leftmost.key
  BY <1>1 DEF LevelKey
<1>5. /\ n \in Levels /\ Level(n) = f
      /\ Busy /\ LeftmostOK(c)
  <2>1. stack' = Tail(stack)
    BY <1>2 DEF ReturnLevel
  <2> QED
    BY <1>1, <2>1, HeapNow, Popped DEF OperationOK, Busy, RemoveOK
<1>6. leftmost.offset # 0 /\ Loose(heap, c, leftmost)
  BY <1>1, <1>5 DEF LeftmostOK, Replacing
<1>7. IsNode(leftmost, heap.next) /\ Spare(heap, c, leftmost)
  BY <1>6, HeapNow DEF LocalsOK, IsNode, Loose, Spare
<1> HIDE DEF f, s, l, w, r, n, i, x
<1>8. \E e : Joins(heap, c, Held, i, x, r, leftmost.key, leftmost.offset, e)
  <2>1. /\ s \in Sides /\ f.must \in BOOLEAN
        /\ i \in DOMAIN Held /\ x \in DOMAIN Held /\ i # x
        /\ Held[i] = ret.offset /\ Held[x] = Child(f.node, Other(s))
        /\ Ordered(c, s, Held[i], leftmost.key, Held[x])
        /\ <<3, 0>> \notin DOMAIN Held /\ <<4, 0>> \notin DOMAIN Held
    BY <1>3, <1>4 DEF Rising, Frame
  <2>2. /\ l = Relinked(heap, leftmost, s, Held[i], Held[x], f.must)
        /\ w = Relinked(l.heap, l.n, s, Held[i], Held[x], FALSE)
    BY <2>1, Zenon DEF l, w
  <2>3. <<3, 0>> # <<4, 0>> /\ "left" \in Sides
    BY DEF Sides
  <2>4. Replaces(heap, c, Held, leftmost, f.must, s, "left", i, x)
    BY <1>1, <1>7, <2>1, <2>3, LevelReplaced
  <2>5. Levelled(heap, c, Held, leftmost, i, x, r)
    BY <2>2, <2>4, Zenon DEF r, Replaces
  <2> QED  BY <2>5, HeapNow, LevelledJoins
<1>9. PICK e : Joins(heap, c, Held, i, x, r, LevelKey(f), leftmost.offset, e)
  BY <1>4, <1>8
<1> QED  BY <1>1, <1>2, <1>9, RemoveUp DEF f, s, n, i, x

(* The node at the focus of a search. *)
LEMMA FocusNode ==
  ASSUME IInv, NEW c, PiecesAre(c), pc \in {"insert", "remove", "leftmost"},
         cur # Null, NEW root, root = Get(heap, cur)
  PROVE  /\ cur \in DOMAIN c /\ root \in Struct /\ IsNode(root, heap.next)
         /\ root.offset = cur /\ root.key \in Keys
         /\ root.key \in All(c)
         /\ must \/ Immutable(heap, root) \in BOOLEAN
<1>1. Grove(heap, c, Held) /\ LevelsOK(c) /\ CallOK(heap.next)
  BY HeapNow DEF PiecesAre
<1>2. Busy /\ Focus = cur
  BY DEF Busy, Focus
<1>3. <<1, call.tree>> \in DOMAIN Held /\ Held[<<1, call.tree>>] = cur
  BY <1>1, <1>2, HeldAt DEF LevelsOK
<1>4. cur \in DOMAIN c
  BY <1>1, <1>3 DEF Grove, Forest, HeldOnce, Has, Null
<1>5. root \in Struct /\ IsNode(root, heap.next) /\ root.offset = cur
  BY CurNode
<1>6. root.key = heap.node[cur].key
  BY DEF Get, Null
<1>7. root.key \in Keys /\ root.key \in c[cur]
  BY <1>1, <1>4, <1>6 DEF Grove, Forest, Labelled, Sorted
<1>8. root.key \in Below(c, Focus)
  BY <1>2, <1>7 DEF Below, Null
<1>9. root.key \in All(c)
  BY <1>8, InsideIs DEF All
<1>10. must \/ Immutable(heap, root) \in BOOLEAN
  BY <1>1, ImmutableType DEF CallOK
<1> QED  BY <1>4, <1>5, <1>7, <1>9, <1>10

LEMMA NotReplacing == ASSUME StackOK(heap.next), NoReplace PROVE ~Replacing
<1>1. stack \in Seq(Frame) /\ Len(stack) \in Nat
  BY DEF StackOK
<1>2. \A d \in Levels : Len(stack) + 1 - d \in 1 .. Len(stack)
  BY <1>1 DEF Levels
<1> QED  BY <1>2 DEF Replacing, Level, NoReplace

LEMMA InsertDown ==
  ASSUME ~Refcounting, IInv, IInv', NEW c, TreesAre(c), InsertDescend
  PROVE  TreesOK'
<1> DEFINE root == Get(heap, cur)
           m == must \/ Immutable(heap, root)
           f == [node |-> root, must |-> m,
                 dir |-> IF root.key > call.lo THEN "left" ELSE "right"]
           n == Len(stack) + 1
<1>1. /\ pc = "insert" /\ cur # Null /\ pc' = pc /\ heap' = heap
      /\ cur' = (IF root.key > call.lo THEN root.lc ELSE root.rc)
      /\ stack' = <<f>> \o stack
      /\ UNCHANGED <<call, roots, kept, snaps>>
      /\ PiecesAre(c) /\ OperationOK(c)
  BY DEF InsertDescend, TreesAre
<1>2. /\ cur \in DOMAIN c /\ root \in Struct /\ IsNode(root, heap.next)
      /\ root.offset = cur /\ root.key \in Keys /\ root.key \in All(c)
      /\ m \in BOOLEAN
  BY <1>1, FocusNode
<1>3. InsertOK(c) /\ call.op = "insert"
  BY <1>1 DEF OperationOK, Busy, RemoveOK
<1>4. StackOK(heap.next) /\ ~Replacing /\ call.lo \in Keys
  BY <1>3, HeapNow DEF InsertOK, CallOK
<1> HIDE DEF root, m
<1>5. f \in Frame /\ f.node = root /\ f.dir # "replace"
  BY <1>2 DEF Frame
<1>a. Way(f) = IF root.key > call.lo THEN "left" ELSE "right"
  BY Zenon DEF Way
<1>b. f.node = Get(heap, cur)
  BY <1>5 DEF root
<1> HIDE DEF f
<1>6. cur' = Child(f.node, Way(f)) /\ Beside(Way(f), call.lo, root.key)
  <2>1. call.lo # root.key
    BY <1>1, <1>2, <1>3 DEF InsertOK
  <2>2. root.key \in Nat /\ call.lo \in Nat
    BY <1>2, <1>4, KeysAssumption
  <2>3. CASE root.key > call.lo
    <3>1. Way(f) = "left" /\ cur' = root.lc
      BY <1>1, <1>a, <2>3
    <3> QED  BY <1>5, <2>2, <2>3, <3>1 DEF Child, Beside
  <2>4. CASE ~(root.key > call.lo)
    <3>1. Way(f) = "right" /\ cur' = root.rc
      BY <1>1, <1>a, <2>4
    <3> QED  BY <1>5, <2>1, <2>2, <2>4, <3>1 DEF Child, Beside
  <2> QED  BY <2>3, <2>4
<1>8. \A u \in ToCome : Beside(Way(f), u, f.node.key)
  BY <1>5, <1>6 DEF ToCome
<1>9. \E e : Down(c, e, f)
  BY <1>1, <1>5, <1>6, <1>8, <1>b, Descend
<1>10. PICK e : Down(c, e, f)
  BY <1>9
<1> HIDE DEF n
<1>11. /\ \A d : d \in Levels' <=> d \in Levels \/ d = n
       /\ \A d : d = n => Level(d)' = f
       /\ \A d \in Levels : Level(d)' = Level(d)
  BY <1>1, <1>4, <1>5, Pushed DEF n
<1>12. ~Replacing'
  BY <1>4, <1>5, <1>11 DEF Replacing
<1>13. /\ All(c) = kept[call.tree] /\ call.node \in Offset(heap)
       /\ heap.hwm <= call.node /\ call.node \notin DOMAIN c
       /\ \A d \in Levels : Level(d).node.offset # call.node
       /\ heap.node[call.node].lc = 0 /\ heap.node[call.node].rc = 0
       /\ heap.node[call.node].key = call.lo
       /\ call.lo \notin kept[call.tree]
  BY <1>1, <1>3 DEF InsertOK
<1>14. call.node \notin DOMAIN e /\ All(e)' = All(c) /\ PiecesAre(e)'
  BY <1>10, <1>13 DEF Down, Grown
<1>15. \A d \in Levels' : Level(d)'.node.offset # call.node
  BY <1>2, <1>5, <1>11, <1>13
<1>16. InsertOK(e)'
  BY <1>1, <1>12, <1>13, <1>14, <1>15 DEF InsertOK
<1>17. OperationOK(e)'
  BY <1>1, <1>3, <1>16 DEF OperationOK
<1> QED  BY <1>14, <1>17 DEF TreesOK, TreesAre

(* The way a removal goes at a node, by the key finder.                    *)
LEMMA CmpIs ==
  ASSUME NEW root, root.key \in Nat, call.lo \in Nat, call.hi \in Nat
  PROVE  /\ pc = "remove" /\ Cmp(root) < 0 => call.hi < root.key
         /\ pc = "remove" /\ Cmp(root) # 0 /\ ~(Cmp(root) < 0) => root.key < call.lo
         /\ pc = "remove" /\ Cmp(root) = 0 => Hit(root.key)
         /\ pc = "leftmost" /\ Cmp(root) # 0 => Cmp(root) < 0
         /\ pc = "leftmost" /\ Cmp(root) = 0 => root.lc = Null
  BY DEF Cmp, Hit

LEMMA RemoveDown ==
  ASSUME ~Refcounting, IInv, IInv', NEW c, TreesAre(c), RemoveDescend
  PROVE  TreesOK'
<1> DEFINE root == Get(heap, cur)
           m == must \/ Immutable(heap, root)
           f == [node |-> root, must |-> m,
                 dir |-> IF Cmp(root) < 0 THEN "left" ELSE "right"]
           n == Len(stack) + 1
<1>1. /\ pc \in {"remove", "leftmost"} /\ cur # Null /\ pc' = pc /\ heap' = heap
      /\ Cmp(root) # 0
      /\ cur' = (IF Cmp(root) < 0 THEN root.lc ELSE root.rc)
      /\ stack' = <<f>> \o stack
      /\ UNCHANGED <<call, roots, kept, snaps, removed>>
      /\ PiecesAre(c) /\ OperationOK(c)
  BY DEF RemoveDescend, TreesAre
<1>2. /\ cur \in DOMAIN c /\ root \in Struct /\ IsNode(root, heap.next)
      /\ root.offset = cur /\ root.key \in Keys /\ root.key \in All(c)
      /\ m \in BOOLEAN
  BY <1>1, FocusNode
<1>3. RemoveOK(c) /\ call.op = "remove"
  BY <1>1 DEF OperationOK, Busy, InsertOK
<1>4. /\ StackOK(heap.next) /\ call.lo \in Nat /\ call.hi \in Nat /\ root.key \in Nat
      /\ n \in Nat
  <2>1. StackOK(heap.next) /\ CallOK(heap.next)
    BY HeapNow
  <2>2. call.lo \in Nat /\ call.hi \in Nat
    BY <2>1 DEF CallOK, Call
  <2>3. n \in Nat
    BY <2>1 DEF StackOK
  <2> QED  BY <1>2, <2>1, <2>2, <2>3, KeysAssumption
<1>5. /\ pc = "remove" /\ Cmp(root) < 0 => call.hi < root.key
      /\ pc = "remove" /\ ~(Cmp(root) < 0) => root.key < call.lo
      /\ pc = "leftmost" => Cmp(root) < 0
  BY <1>1, <1>4, CmpIs
<1> DEFINE left == Cmp(root) < 0
<1> HIDE DEF root, m, left
<1>6. f \in Frame /\ f.node = root /\ f.dir # "replace" /\ (left => f.dir = "left")
      /\ Way(f) = IF left THEN "left" ELSE "right"
  <2>1. Way(f) = IF left THEN "left" ELSE "right"
    BY Zenon DEF Way, left
  <2> QED  BY <1>2, <2>1 DEF Frame, left
<1>7. f.node = Get(heap, cur)
  BY <1>6 DEF root
<1>8. stack' = <<f>> \o stack
  BY <1>1
<1>9. cur' = IF left THEN root.lc ELSE root.rc
  BY <1>1 DEF left
<1> HIDE DEF f
<1>10. cur' = Child(f.node, Way(f))
  BY <1>6, <1>9 DEF Child
<1>11. ToCome = {}
  BY <1>1 DEF ToCome
<1>12. \E e : Down(c, e, f)
  BY <1>1, <1>6, <1>7, <1>8, <1>10, <1>11, Descend
<1>13. PICK e : Down(c, e, f)
  BY <1>12
<1> HIDE DEF n
<1>14. /\ \A d : d \in Levels' <=> d \in Levels \/ d = n
       /\ \A d : d = n => Level(d)' = f
       /\ \A d \in Levels : Level(d)' = Level(d) /\ d < n
       /\ n \notin Levels /\ Len(stack) \in Nat
  BY <1>4, <1>6, <1>8, Pushed DEF n, Levels
<1>15. /\ PiecesAre(e)' /\ All(e)' = All(c)
       /\ \A d \in Levels : Part(e, d)' = Part(c, d)
       /\ \A d : d = n => Part(e, d)' = {root.key} \cup Below(e, Sibling(f))
       /\ \A v \in Below(e, Sibling(f)) : Beside(Way(f), root.key, v)
       /\ Below(e, Sibling(f)) \subseteq Nat
  BY <1>6, <1>13 DEF Down, n
<1>16. CASE pc = "remove"
  <2>1. Searching(c)
    BY <1>3, <1>16 DEF RemoveOK
  <2>2. ASSUME NEW u \in {root.key} \cup Below(e, Sibling(f)), Hit(u)
        PROVE  FALSE
    <3>1. CASE left
      <4>1. call.hi < root.key /\ Way(f) = "left"
        BY <1>5, <1>6, <1>16, <3>1 DEF left
      <4>2. u = root.key \/ root.key < u
        BY <1>15, <4>1 DEF Beside
      <4> QED  BY <1>4, <1>15, <2>2, <4>1, <4>2 DEF Hit
    <3>2. CASE ~left
      <4>1. root.key < call.lo /\ Way(f) = "right"
        BY <1>5, <1>6, <1>16, <3>2 DEF left
      <4>2. u = root.key \/ u < root.key
        BY <1>15, <4>1 DEF Beside
      <4> QED  BY <1>4, <1>15, <2>2, <4>1, <4>2 DEF Hit
    <3> QED  BY <3>1, <3>2
  <2>3. \A u : Hit(u)' <=> Hit(u)
    BY <1>1 DEF Hit
  <2>4. Searching(e)'
    BY <1>1, <1>14, <1>15, <2>1, <2>2, <2>3 DEF Searching
  <2>5. OperationOK(e)'
    BY <1>1, <1>3, <1>16, <2>4 DEF OperationOK, RemoveOK
  <2> QED  BY <1>15, <2>5 DEF TreesOK, TreesAre
<1>17. CASE pc = "leftmost"
  <2>1. Fetching(c)
    BY <1>3, <1>17 DEF RemoveOK
  <2>2. f.dir = "left"
    BY <1>5, <1>6, <1>17 DEF left
  <2>3. \E d \in Levels : /\ Level(d).dir = "replace"
                          /\ Level(d).node.key = removed.key
                          /\ \A j \in Levels : d < j => Level(j).dir = "left"
    BY <2>1 DEF Fetching
  <2>4. \E d \in Levels' : /\ Level(d)'.dir = "replace"
                           /\ Level(d)'.node.key = removed.key
                           /\ \A j \in Levels' : d < j => Level(j)'.dir = "left"
    BY <1>14, <2>2, <2>3
  <2>5. Fetching(e)'
    BY <1>1, <1>15, <2>1, <2>4 DEF Fetching, Hit
  <2>6. OperationOK(e)'
    BY <1>1, <1>3, <1>17, <2>5 DEF OperationOK, RemoveOK
  <2> QED  BY <1>15, <2>6 DEF TreesOK, TreesAre
<1> QED  BY <1>1, <1>16, <1>17

LEMMA RemoveDownTwo ==
  ASSUME ~Refcounting, IInv, IInv', NEW c, TreesAre(c), RemoveTwoChildren
  PROVE  TreesOK'
<1> DEFINE root == Get(heap, cur)
           m == must \/ Immutable(heap, root)
           f == [node |-> root, must |-> m, dir |-> "replace"]
           n == Len(stack) + 1
<1>1. /\ pc = "remove" /\ cur # Null /\ pc' = "leftmost" /\ heap' = heap
      /\ Cmp(root) = 0 /\ removed' = root /\ cur' = root.rc
      /\ stack' = <<f>> \o stack
      /\ UNCHANGED <<call, roots, kept, snaps>>
      /\ PiecesAre(c) /\ OperationOK(c)
  BY DEF RemoveTwoChildren, TreesAre
<1>2. /\ cur \in DOMAIN c /\ root \in Struct /\ IsNode(root, heap.next)
      /\ root.offset = cur /\ root.key \in Keys /\ root.key \in All(c)
      /\ m \in BOOLEAN
  BY <1>1, FocusNode
<1>3. RemoveOK(c) /\ call.op = "remove" /\ Searching(c)
  BY <1>1 DEF OperationOK, Busy, InsertOK, RemoveOK
<1>4. /\ StackOK(heap.next) /\ call.lo \in Nat /\ call.hi \in Nat /\ root.key \in Nat
      /\ n \in Nat /\ ~Replacing
  <2>1. StackOK(heap.next) /\ CallOK(heap.next) /\ PathOK
    BY HeapNow
  <2>2. call.lo \in Nat /\ call.hi \in Nat
    BY <2>1 DEF CallOK, Call
  <2>3. n \in Nat
    BY <2>1 DEF StackOK
  <2>4. ~Replacing
    BY <1>1, <2>1, NotReplacing DEF PathOK
  <2> QED  BY <1>2, <2>1, <2>2, <2>3, <2>4, KeysAssumption
<1>5. Hit(root.key)
  BY <1>1, <1>4, CmpIs
<1> HIDE DEF root, m
<1>6. /\ f \in Frame /\ f.node = root /\ f.dir = "replace" /\ Way(f) = "right"
      /\ f.node = Get(heap, cur)
  BY <1>2 DEF Frame, Way, root
<1>7. stack' = <<f>> \o stack /\ ToCome = {}
  BY <1>1 DEF ToCome
<1> HIDE DEF f
<1>8. cur' = Child(f.node, Way(f))
  BY <1>1, <1>6 DEF Child
<1>9. \E e : Down(c, e, f)
  BY <1>1, <1>4, <1>6, <1>7, <1>8, Descend
<1>10. PICK e : Down(c, e, f)
  BY <1>9
<1>11. /\ \A d : d \in Levels' <=> d \in Levels \/ d = n
       /\ \A d : d = n => Level(d)' = f
       /\ \A d \in Levels : d < n
  BY <1>4, <1>6, <1>7, Pushed DEF Levels
<1> HIDE DEF n
<1>12. PiecesAre(e)' /\ All(e)' = All(c)
  BY <1>10 DEF Down
<1>13. \A j \in Levels' : ~(n < j)
  BY <1>4, <1>11 DEF Levels
<1>14. \A d : d = n => /\ d \in Levels' /\ Level(d)'.dir = "replace"
                       /\ Level(d)'.node.key = root.key
                       /\ \A j \in Levels' : d < j => Level(j)'.dir = "left"
  BY <1>6, <1>11, <1>13
<1>15. \E d \in Levels' : /\ Level(d)'.dir = "replace"
                          /\ Level(d)'.node.key = root.key
                          /\ \A j \in Levels' : d < j => Level(j)'.dir = "left"
  BY <1>14
<1>16. removed'.offset # 0 /\ removed'.key = root.key /\ Hit(removed.key)'
  BY <1>1, <1>2, <1>5 DEF Hit, Null
<1>17. Fetching(e)'
  BY <1>1, <1>3, <1>12, <1>15, <1>16 DEF Fetching, Searching
<1>18. OperationOK(e)'
  BY <1>1, <1>3, <1>17 DEF OperationOK, RemoveOK
<1> QED  BY <1>12, <1>18 DEF TreesOK, TreesAre

-----------------------------------------------------------------------------
(* The steps in which an operation turns round.                            *)
LEMMA HeldDropped ==
  ASSUME NEW h, NEW c, NEW held, Grove(h, c, held), NEW x, NEW new,
         new = [j \in DOMAIN held \ {x} |-> held[j]]
  PROVE  Grove(h, c, new)
<1>1. /\ DOMAIN new = DOMAIN held \ {x}
      /\ \A j \in DOMAIN new : j \in DOMAIN held /\ new[j] = held[j]
  OBVIOUS
<1>2. HeldOnce(h, c, new)
  BY <1>1 DEF Grove, Forest, HeldOnce
<1> QED  BY <1>2 DEF Grove, Forest

LEMMA HeldNull ==
  ASSUME NEW h, NEW c, NEW held, Grove(h, c, held), NEW x, x \notin DOMAIN held,
         NEW new, new = [j \in DOMAIN held \cup {x} |-> IF j = x THEN 0 ELSE held[j]]
  PROVE  Grove(h, c, new)
<1>1. /\ DOMAIN new = DOMAIN held \cup {x} /\ new[x] = 0
      /\ \A j \in DOMAIN held : j # x /\ new[j] = held[j]
  OBVIOUS
<1>2. h.hwm \in Nat \ {0}
  BY DEF Grove, HeapInv, HeapOK
<1>3. ~(h.hwm <= 0) /\ Has(c, 0)
  BY <1>2 DEF Has
<1>4. HeldOnce(h, c, new)
  <2>1. \A j \in DOMAIN new : Has(c, new[j])
    BY <1>1, <1>3 DEF Grove, Forest, HeldOnce
  <2>2. \A j, k \in DOMAIN new : new[j] = new[k] /\ h.hwm <= new[j] => j = k
    BY <1>1, <1>3 DEF Grove, Forest, HeldOnce
  <2>3. \A j \in DOMAIN new, p \in DOMAIN c, s \in Sides :
          h.hwm <= new[j] => Child(h.node[p], s) # new[j]
    BY <1>1, <1>3 DEF Grove, Forest, HeldOnce
  <2> QED  BY <2>1, <2>2, <2>3 DEF HeldOnce
<1> QED  BY <1>4 DEF Grove, Forest

(* Only the focus is another: what else there is, stays.                   *)
Turns(c, e, own) ==
  /\ Grove(heap, e, Held') /\ Grown(heap, c, heap, e, own)
  /\ \A j \in DOMAIN Held \ {<<1, call.tree>>} : Below(e, Held[j]) = Below(c, Held[j])

LEMMA Turn ==
  ASSUME ~Refcounting, IInv, IInv', NEW c, PiecesAre(c), Busy, Busy', heap' = heap,
         UNCHANGED <<call, stack, roots, kept, snaps>>,
         NEW e, NEW own, Turns(c, e, own), \A d \in Levels : LevelOK(e, d)'
  PROVE  PiecesAre(e)'
<1>1. Grove(heap, c, Held) /\ OthersOK(c) /\ SavedOK(c) /\ LevelsOK(c)
  BY DEF PiecesAre
<1>2. /\ Grove(heap, e, Held') /\ Grown(heap, c, heap, e, own)
      /\ \A j \in DOMAIN Held \ {<<1, call.tree>>} : Below(e, Held[j]) = Below(c, Held[j])
  BY DEF Turns
<1>3. SavedOK(e)'
  BY <1>1, <1>2, SavedKept DEF Grove, Forest
<1>4. OthersOK(e)'
  <2>1. ASSUME NEW u \in Trees, u # call.tree
        PROVE  Below(e, roots[u]) = Below(c, roots[u])
    <3>1. <<1, u>> \in DOMAIN Held \ {<<1, call.tree>>} /\ Held[<<1, u>>] = roots[u]
      BY <2>1, HeldAt
    <3> QED  BY <1>2, <3>1
  <2> QED  BY <1>1, <2>1, OthersKept
<1>5. LevelsOK(e)'
  BY <1>1 DEF LevelsOK, Apart, ReplacedOnce, Levels, Level
<1>6. Grove(heap, e, Held)'
  BY <1>2
<1> QED  BY <1>3, <1>4, <1>5, <1>6 DEF PiecesAre

(* The tree at the focus and the trees beside the levels.                  *)
LEMMA FocusHeld ==
  ASSUME NEW c, PiecesAre(c), Busy, NEW i, i = <<1, call.tree>>
  PROVE  /\ i \in DOMAIN Held /\ Held[i] = Focus
         /\ <<3, 0>> \notin DOMAIN Held /\ Grove(heap, c, Held)
         /\ \A d \in Levels : /\ LevelOK(c, d)
                              /\ <<2, d>> \in DOMAIN Held \ {i}
                              /\ Held[<<2, d>>] = Sibling(Level(d))
<1>1. call.tree \in Trees /\ \A d \in Levels : LevelOK(c, d)
  BY DEF PiecesAre, LevelsOK
<1>2. DOMAIN Held = ({1} \X Trees) \cup ({2} \X Levels)
  BY HeldAt
<1>3. <<3, 0>> \notin DOMAIN Held
  BY <1>2
<1>4. Grove(heap, c, Held)
  BY DEF PiecesAre
<1> QED  BY <1>1, <1>3, <1>4, HeldAt

LEMMA PartsApart ==
  ASSUME NEW c, PiecesAre(c), Busy, NEW d \in Levels, NEW u \in Inside(c, d)
  PROVE  u \notin Part(c, d)
<1>1. /\ LevelOK(c, d) /\ <<2, d>> \in DOMAIN Held /\ Grove(heap, c, Held)
      /\ Held[<<2, d>>] = Sibling(Level(d))
  BY FocusHeld
<1>2. Below(c, Sibling(Level(d))) \subseteq Nat
  BY <1>1, BelowKeys
<1>3. /\ LevelKey(Level(d)) \in Nat /\ Beside(Way(Level(d)), u, LevelKey(Level(d)))
      /\ \A v \in Below(c, Sibling(Level(d))) :
           Beside(Way(Level(d)), LevelKey(Level(d)), v)
  BY <1>1, KeysAssumption DEF LevelOK
<1>4. ASSUME u = LevelKey(Level(d)) PROVE FALSE
  BY <1>3, <1>4 DEF Beside
<1>5. ASSUME u \in Below(c, Sibling(Level(d))) PROVE FALSE
  BY <1>2, <1>3, <1>5 DEF Beside
<1> QED  BY <1>4, <1>5 DEF Part

(* A leaf nothing leads to takes the place of an empty tree.               *)
LEMMA LeafForest ==
  ASSUME NEW h, NEW c, NEW held, Grove(h, c, held), NEW i \in DOMAIN held, held[i] = 0,
         NEW x, x \notin DOMAIN held,
         NEW p \in Offset(h), h.hwm <= p, p \notin DOMAIN c,
         h.node[p].lc = 0, h.node[p].rc = 0, h.node[p].key \in Keys
  PROVE  \E d : /\ Grove(h, d, [held EXCEPT ![i] = p]) /\ Grown(h, c, h, d, {p})
                /\ Below(d, p) = {h.node[p].key}
                /\ \A j \in DOMAIN held : Below(d, held[j]) = Below(c, held[j])
<1> DEFINE one == [j \in DOMAIN held \cup {x} |-> IF j = x THEN 0 ELSE held[j]]
           d == Added(h, c, p)
<1>1. Grove(h, c, one)
  BY HeldNull
<1>2. /\ one[i] = 0 /\ one[x] = 0 /\ i \in DOMAIN one /\ x \in DOMAIN one /\ i # x
  OBVIOUS
<1>3. JoinHeld(one, i, x, p) = [held EXCEPT ![i] = p]
  <2>1. DOMAIN one \ {x} = DOMAIN held
    OBVIOUS
  <2>2. \A j \in DOMAIN held : (IF j = i THEN p ELSE one[j]) = IF j = i THEN p ELSE held[j]
    OBVIOUS
  <2>3. JoinHeld(one, i, x, p) = [j \in DOMAIN held |-> IF j = i THEN p ELSE one[j]]
    BY <2>1, Zenon DEF JoinHeld
  <2>4. [held EXCEPT ![i] = p] = [j \in DOMAIN held |-> IF j = i THEN p ELSE held[j]]
    BY Zenon
  <2> HIDE DEF one
  <2> QED  BY <2>2, <2>3, <2>4
<1> HIDE DEF one
<1>4. /\ HeapInv(h) /\ Closed(h) /\ Ranked(h) /\ Forest(h, c, one)
      /\ h.next <= h.next /\ h.next \in Nat
      /\ \A q \in DOMAIN c : h.node[q] = h.node[q]
  BY <1>1 DEF Grove, HeapInv, HeapOK
<1>5. "left" \in Sides
  BY DEF Sides
<1>6. Child(h.node[p], "left") = one[i] /\ Child(h.node[p], Other("left")) = one[x]
  BY <1>2 DEF Child, Other
<1>7. Sorted(c, h.node[p].lc, h.node[p].key, h.node[p].rc)
  BY DEF Sorted, Below
<1>8. Forest(h, d, JoinHeld(one, i, x, p))
  BY <1>2, <1>4, <1>5, <1>6, <1>7, PutTogether
<1>9. p # 0
  BY DEF Offset
<1>10. /\ \A q : q \in DOMAIN d <=> q \in DOMAIN c \/ q = p
       /\ \A q \in DOMAIN c : d[q] = c[q] /\ q # p
       /\ d[p] = Built(c, h.node[p])
       /\ \A o : Has(c, o) => Has(d, o) /\ Below(d, o) = Below(c, o) /\ o # p
  BY <1>9, AddedIs
<1> HIDE DEF d
<1>11. Grove(h, d, [held EXCEPT ![i] = p])
  BY <1>3, <1>4, <1>8 DEF Grove
<1>12. Grown(h, c, h, d, {p})
  BY <1>10 DEF Grown
<1>13. Below(d, p) = {h.node[p].key}
  BY <1>9, <1>10 DEF Below, Built
<1>14. \A j \in DOMAIN held : Below(d, held[j]) = Below(c, held[j])
  BY <1>10 DEF Grove, Forest, HeldOnce
<1> QED  BY <1>11, <1>12, <1>13, <1>14

LEMMA InsertTurns ==
  ASSUME ~Refcounting, IInv, IInv', NEW c, TreesAre(c), InsertAtNull
  PROVE  TreesOK'
<1> DEFINE i == <<1, call.tree>>
           p == call.node
<1>1. /\ pc = "insert" /\ cur = 0 /\ ret' = Get(heap, p) /\ pc' = "unwind" /\ heap' = heap
      /\ UNCHANGED <<call, cur, must, stack, roots, kept, snaps>>
      /\ PiecesAre(c) /\ OperationOK(c)
  BY DEF InsertAtNull, TreesAre, Null
<1>2. Busy /\ Busy' /\ Focus = 0
  BY <1>1 DEF Busy, Focus
<1>3. InsertOK(c) /\ call.op = "insert" /\ call.lo \in Keys
  BY <1>1, <1>2, HeapNow DEF OperationOK, RemoveOK, CallOK
<1>4. /\ All(c) = kept[call.tree] /\ p \in Offset(heap)
      /\ heap.hwm <= p /\ p \notin DOMAIN c /\ call.lo \notin kept[call.tree]
      /\ \A d \in Levels : Level(d).node.offset # p
      /\ heap.node[p].lc = 0 /\ heap.node[p].rc = 0
      /\ heap.node[p].key = call.lo /\ ~Replacing
  BY <1>1, <1>3 DEF InsertOK
<1>5. Focus' = p /\ p # 0
  BY <1>1, <1>4 DEF Focus, Get, Offset
<1>6. /\ i \in DOMAIN Held /\ Held[i] = 0 /\ <<3, 0>> \notin DOMAIN Held
      /\ Grove(heap, c, Held)
      /\ \A d \in Levels : /\ LevelOK(c, d) /\ <<2, d>> \in DOMAIN Held \ {i}
                           /\ Held[<<2, d>>] = Sibling(Level(d))
  BY <1>1, <1>2, FocusHeld
<1>7. Held' = [Held EXCEPT ![i] = p]
  BY <1>1, <1>2, <1>5, <1>6, HeldTurned
<1> HIDE DEF i, p
<1>8. \E e : /\ Grove(heap, e, [Held EXCEPT ![i] = p]) /\ Grown(heap, c, heap, e, {p})
             /\ Below(e, p) = {heap.node[p].key}
             /\ \A j \in DOMAIN Held : Below(e, Held[j]) = Below(c, Held[j])
  BY <1>3, <1>4, <1>6, LeafForest
<1>9. PICK e : /\ Grove(heap, e, [Held EXCEPT ![i] = p]) /\ Grown(heap, c, heap, e, {p})
               /\ Below(e, p) = {heap.node[p].key}
               /\ \A j \in DOMAIN Held : Below(e, Held[j]) = Below(c, Held[j])
  BY <1>8
<1>10. Turns(c, e, {p})
  BY <1>7, <1>9 DEF Turns
<1>11. Levels' = Levels /\ \A d \in Levels : Level(d)' = Level(d) /\ Level(d).dir # "replace"
  BY <1>1, <1>4 DEF Levels, Level, Replacing
<1>12. ASSUME NEW d \in Levels
       PROVE  /\ LevelKey(Level(d))' = LevelKey(Level(d))
              /\ Below(e, Sibling(Level(d))) = Below(c, Sibling(Level(d)))
              /\ Part(e, d)' = Part(c, d)
  <2>1. LevelKey(Level(d))' = LevelKey(Level(d)) /\ Sibling(Level(d))' = Sibling(Level(d))
    BY <1>11 DEF LevelKey, Sibling, Way
  <2>2. Below(e, Sibling(Level(d))) = Below(c, Sibling(Level(d)))
    BY <1>6, <1>9
  <2> QED  BY <2>1, <2>2 DEF Part
<1>13. ASSUME NEW d PROVE Inside(e, d)' = Inside(c, d) \cup {call.lo}
  <2>1. \A u : u \in Inside(e, d)' <=>
                  \/ u \in Below(e, p)
                  \/ \E l \in Levels' : d < l /\ u \in Part(e, l)'
    BY <1>5 DEF Inside
  <2>2. \A u : u \in Inside(c, d) <=>
                  \/ u \in Below(c, 0)
                  \/ \E l \in Levels : d < l /\ u \in Part(c, l)
    BY <1>2, InsideIs
  <2>3. Below(c, 0) = {}
    BY DEF Below
  <2>4. \A u : u \in Inside(e, d)' <=> u \in Inside(c, d) \cup {call.lo}
    BY <1>4, <1>9, <1>11, <1>12, <2>1, <2>2, <2>3
  <2> QED  BY <2>4
<1>14. ToCome = {call.lo} /\ ToCome' = {}
  BY <1>1 DEF ToCome
<1>15. ASSUME NEW d \in Levels PROVE LevelOK(e, d)'
  <2>1. Extends(heap, heap') /\ Grown(heap, c, heap', e, {p})
    BY <1>1, <1>9, HeapUnchanged
  <2>2. \A u \in (Inside(e, d) \cup ToCome)' : u \in Inside(c, d) \cup ToCome
    BY <1>13, <1>14
  <2>3. heap.hwm <= Level(d).node.offset => Level(d).node.offset \notin {p}
    BY <1>4
  <2> QED  BY <1>6, <1>11, <1>12, <2>1, <2>2, <2>3, LevelKept
<1>16. PiecesAre(e)'
  BY <1>1, <1>2, <1>10, <1>15, Turn
<1>17. All(e)' = All(c) \cup {call.lo}
  BY <1>13 DEF All
<1>18. ~Replacing'
  BY <1>11 DEF Replacing
<1>19. InsertOK(e)'
  BY <1>1, <1>4, <1>17, <1>18 DEF InsertOK
<1>20. OperationOK(e)'
  BY <1>1, <1>3, <1>19 DEF OperationOK
<1> QED  BY <1>16, <1>20 DEF TreesOK, TreesAre

LEMMA RemoveTurnsEmpty ==
  ASSUME ~Refcounting, IInv, IInv', NEW c, TreesAre(c), RemoveNotFound
  PROVE  TreesOK'
<1> DEFINE i == <<1, call.tree>>
<1>1. /\ pc = "remove" /\ cur = 0 /\ ret' = NullNode /\ pc' = "unwind" /\ heap' = heap
      /\ removed' = NullNode /\ stack' = stack
      /\ UNCHANGED <<call, cur, must, stack, roots, kept, snaps>>
      /\ PiecesAre(c) /\ OperationOK(c)
  BY HeapNow DEF RemoveNotFound, TreesAre, Null, PathOK
<1>2. Busy /\ Busy' /\ Focus = 0 /\ Focus' = 0
  BY <1>1 DEF Busy, Focus, NullNode
<1>3. Searching(c) /\ call.op = "remove"
  BY <1>1, <1>2 DEF OperationOK, InsertOK, RemoveOK
<1>4. ~Replacing
  BY <1>1, HeapNow, NotReplacing DEF PathOK
<1>6. /\ i \in DOMAIN Held /\ Held[i] = 0 /\ Grove(heap, c, Held)
      /\ \A d \in Levels : LevelOK(c, d)
  BY <1>1, <1>2, FocusHeld
<1>7. Held' = [Held EXCEPT ![i] = 0]
  BY <1>1, <1>2, <1>6, HeldTurned
<1>8. Held' = Held
  <2>1. Held = [j \in DOMAIN Held |-> Held[j]]
    BY Zenon DEF Held
  <2> QED  BY <1>6, <1>7, <2>1
<1> HIDE DEF i
<1>9. Grown(heap, c, heap, c, {})
  BY DEF Grown
<1>10. Turns(c, c, {})
  BY <1>6, <1>8, <1>9 DEF Turns
<1>11. Levels' = Levels /\ \A d \in Levels : Level(d)' = Level(d) /\ Level(d).dir # "replace"
  BY <1>1, <1>4 DEF Levels, Level, Replacing
<1>12. ASSUME NEW d \in Levels
       PROVE  LevelKey(Level(d))' = LevelKey(Level(d)) /\ Part(c, d)' = Part(c, d)
  <2>1. LevelKey(Level(d))' = LevelKey(Level(d)) /\ Sibling(Level(d))' = Sibling(Level(d))
    BY <1>11 DEF LevelKey, Sibling, Way
  <2> QED  BY <2>1 DEF Part
<1>13. ASSUME NEW d PROVE Inside(c, d)' = Inside(c, d)
  <2>1. \A u : u \in Inside(c, d)' <=>
                  \/ u \in Below(c, 0)
                  \/ \E l \in Levels' : d < l /\ u \in Part(c, l)'
    BY <1>2 DEF Inside
  <2>2. \A u : u \in Inside(c, d) <=>
                  \/ u \in Below(c, 0)
                  \/ \E l \in Levels : d < l /\ u \in Part(c, l)
    BY <1>2, InsideIs
  <2>4. \A u : u \in Inside(c, d)' <=> u \in Inside(c, d)
    BY <1>11, <1>12, <2>1, <2>2
  <2> QED  BY <2>4
<1>14. ToCome' = {}
  BY <1>1 DEF ToCome
<1>15. ASSUME NEW d \in Levels PROVE LevelOK(c, d)'
  <2>1. Extends(heap, heap') /\ Grown(heap, c, heap', c, {})
    BY <1>1, <1>9, HeapUnchanged
  <2>2. \A u \in (Inside(c, d) \cup ToCome)' : u \in Inside(c, d) \cup ToCome
    BY <1>13, <1>14
  <2> QED  BY <1>6, <1>11, <1>12, <2>1, <2>2, LevelKept
<1>16. PiecesAre(c)'
  BY <1>1, <1>2, <1>10, <1>15, Turn
<1>17. All(c)' = All(c)
  BY <1>13 DEF All
<1>18. ~Replacing'
  BY <1>11 DEF Replacing
<1>19. ASSUME NEW u \in All(c) PROVE ~Hit(u)
  <2>1. \/ u \in Below(c, 0)
        \/ \E l \in Levels : u \in Part(c, l)
    BY <1>2, InsideIs DEF All
  <2> QED  BY <1>3, <2>1 DEF Searching, Below
<1>20. \A u \in All(c)' : ~Hit(u)'
  BY <1>1, <1>17, <1>19 DEF Hit
<1>21. Removed(c)'
  BY <1>1, <1>3, <1>17, <1>18, <1>20 DEF Removed, Searching, NullNode
<1>22. RemoveOK(c)'
  BY <1>1, <1>18, <1>21 DEF RemoveOK, LeftmostOK
<1>23. OperationOK(c)'
  BY <1>1, <1>3, <1>22 DEF OperationOK
<1> QED  BY <1>16, <1>23 DEF TreesOK, TreesAre

(* Taking out a node that has one tree at most leaves that one.            *)
TakesOut(c, e, root, a) ==
  /\ Turns(c, e, {}) /\ Focus' = a
  /\ Below(c, cur) = Below(e, a) \cup {root.key}
  /\ \A u \in Below(e, a) : IF root.lc = 0 THEN root.key < u ELSE u < root.key
  /\ Loose(heap, e, root) /\ cur \in DOMAIN c
  /\ \A d \in Levels : Below(e, Sibling(Level(d))) = Below(c, Sibling(Level(d)))

LEMMA TakeOut ==
  ASSUME ~Refcounting, IInv, IInv', NEW c, PiecesAre(c), RemoveHere,
         NEW root, root = Get(heap, cur),
         NEW a, a = IF root.lc = 0 THEN root.rc ELSE root.lc
  PROVE  \E e : TakesOut(c, e, root, a)
<1> DEFINE i == <<1, call.tree>>
           s == IF root.lc = 0 THEN "right" ELSE "left"
           x == <<3, 0>>
           held1 == SplitHeld(Held, i, x, a, 0)
<1>1. /\ pc \in {"remove", "leftmost"} /\ cur # 0 /\ pc' = "unwind" /\ heap' = heap
      /\ root.lc = 0 \/ root.rc = 0
      /\ ret' = Get(heap, a)
      /\ UNCHANGED <<call, stack, roots, kept, snaps>>
  BY DEF RemoveHere, Null
<1>2. Busy /\ Busy' /\ Focus = cur
  BY <1>1 DEF Busy, Focus
<1>3. /\ i \in DOMAIN Held /\ Held[i] = cur /\ x \notin DOMAIN Held
      /\ Grove(heap, c, Held)
      /\ \A d \in Levels : /\ LevelOK(c, d) /\ <<2, d>> \in DOMAIN Held \ {i}
                           /\ Held[<<2, d>>] = Sibling(Level(d))
  BY <1>2, FocusHeld
<1>4. s \in Sides /\ a = Child(root, s) /\ 0 = Child(root, Other(s))
  BY <1>1 DEF Sides, Child, Other
<1>5. /\ cur \in DOMAIN c /\ root \in Struct /\ root.offset = cur /\ root.key \in Keys
      /\ a \in Nat
  <2>1. cur # Null /\ pc \in {"insert", "remove", "leftmost"}
    BY <1>1 DEF Null
  <2>2. cur \in DOMAIN c /\ root \in Struct /\ root.offset = cur /\ root.key \in Keys
    BY <2>1, FocusNode
  <2> QED  BY <1>1, <2>2 DEF Struct
<1>6. Focus' = a
  BY <1>1, <1>5 DEF Focus, Get, NullNode
<1>7. Held' = [Held EXCEPT ![i] = a]
  BY <1>1, <1>2, <1>3, <1>6, HeldTurned
<1> HIDE DEF i, x, s
<1>8. Opens(heap, c, Held, i, x, s)
  BY <1>1, <1>3, <1>4, OpensTree
<1>9. \E e : /\ Grove(heap, e, held1) /\ Ordered(e, s, a, root.key, 0)
             /\ Below(c, cur) = Below(e, a) \cup {root.key} \cup Below(e, 0)
             /\ \A j \in DOMAIN Held \ {i} : Below(e, Held[j]) = Below(c, Held[j])
             /\ Loose(heap, e, root) /\ Grown(heap, c, heap, e, {})
  BY <1>3, <1>4, <1>8 DEF Opens
<1>10. PICK e : /\ Grove(heap, e, held1) /\ Ordered(e, s, a, root.key, 0)
                /\ Below(c, cur) = Below(e, a) \cup {root.key} \cup Below(e, 0)
                /\ \A j \in DOMAIN Held \ {i} : Below(e, Held[j]) = Below(c, Held[j])
                /\ Loose(heap, e, root) /\ Grown(heap, c, heap, e, {})
  BY <1>9
<1>11. Held' = [j \in DOMAIN held1 \ {x} |-> held1[j]]
  <2>1. /\ DOMAIN held1 \ {x} = DOMAIN Held /\ i # x
        /\ \A j \in DOMAIN Held : held1[j] = IF j = i THEN a ELSE Held[j]
    BY <1>3 DEF SplitHeld
  <2>2. [Held EXCEPT ![i] = a] = [j \in DOMAIN Held |-> IF j = i THEN a ELSE Held[j]]
    BY Zenon
  <2> HIDE DEF held1
  <2> QED  BY <1>7, <2>1, <2>2
<1>12. Grove(heap, e, Held')
  BY <1>10, <1>11, HeldDropped
<1>13. Turns(c, e, {})
  BY <1>10, <1>12 DEF Turns, i
<1>14. \A u \in Below(e, a) : IF root.lc = 0 THEN root.key < u ELSE u < root.key
  BY <1>10 DEF Ordered, Beside, s
<1>15. Below(c, cur) = Below(e, a) \cup {root.key}
  BY <1>10 DEF Below
<1>16. \A d \in Levels : Below(e, Sibling(Level(d))) = Below(c, Sibling(Level(d)))
  BY <1>3, <1>10
<1>17. TakesOut(c, e, root, a)
  BY <1>5, <1>6, <1>10, <1>13, <1>14, <1>15, <1>16 DEF TakesOut
<1> QED  BY <1>17

LEMMA RemoveTurnsHere ==
  ASSUME ~Refcounting, IInv, IInv', NEW c, TreesAre(c), RemoveHere, pc = "remove"
  PROVE  TreesOK'
<1> DEFINE root == Get(heap, cur)
           k == root.key
           a == IF root.lc = 0 THEN root.rc ELSE root.lc
<1>1. /\ cur # 0 /\ pc' = "unwind" /\ heap' = heap /\ Cmp(root) = 0
      /\ removed' = root /\ stack' = stack
      /\ UNCHANGED <<call, stack, roots, kept, snaps>>
      /\ PiecesAre(c) /\ OperationOK(c)
  BY DEF RemoveHere, TreesAre, Null
<1>2. Busy /\ Busy' /\ Focus = cur
  BY <1>1 DEF Busy, Focus
<1>3. Searching(c) /\ call.op = "remove"
  BY <1>2 DEF OperationOK, InsertOK, RemoveOK, TreesAre
<1>4. ~Replacing
  BY HeapNow, NotReplacing DEF PathOK
<1>5. /\ root.offset = cur /\ k \in Keys /\ k \in All(c) /\ call.lo \in Nat /\ call.hi \in Nat
  <2>1. CallOK(heap.next) /\ cur # Null
    BY <1>1, HeapNow DEF Null
  <2>2. call.lo \in Nat /\ call.hi \in Nat
    BY <2>1 DEF CallOK, Call
  <2> QED  BY <1>1, <2>1, <2>2, FocusNode
<1>6. Hit(k)
  BY <1>1, <1>5, KeysAssumption, CmpIs
<1>7. \E e : TakesOut(c, e, root, a)
  BY <1>1, TakeOut
<1>8. PICK e : TakesOut(c, e, root, a)
  BY <1>7
<1> HIDE DEF root, k, a
<1>9. /\ Turns(c, e, {}) /\ Focus' = a /\ Below(c, cur) = Below(e, a) \cup {k}
      /\ \A u \in Below(e, a) : IF root.lc = 0 THEN k < u ELSE u < k
      /\ \A d \in Levels : Below(e, Sibling(Level(d))) = Below(c, Sibling(Level(d)))
  BY <1>8 DEF TakesOut, k
<1>10. k \notin Below(e, a)
  BY <1>5, <1>9, KeysAssumption
<1>11. Levels' = Levels /\ \A d \in Levels : Level(d)' = Level(d) /\ Level(d).dir # "replace"
  BY <1>1, <1>4 DEF Levels, Level, Replacing
<1>12. ASSUME NEW d \in Levels
       PROVE  LevelKey(Level(d))' = LevelKey(Level(d)) /\ Part(e, d)' = Part(c, d)
  <2>1. LevelKey(Level(d))' = LevelKey(Level(d)) /\ Sibling(Level(d))' = Sibling(Level(d))
    BY <1>11 DEF LevelKey, Sibling, Way
  <2> QED  BY <1>9, <2>1 DEF Part
<1>13. \A d \in Levels : k \notin Part(c, d)
  BY <1>3, <1>6 DEF Searching
<1>14. ASSUME NEW d PROVE Inside(e, d)' = Inside(c, d) \ {k}
  <2>1. \A u : u \in Inside(e, d)' <=>
                  \/ u \in Below(e, a)
                  \/ \E l \in Levels' : d < l /\ u \in Part(e, l)'
    BY <1>9 DEF Inside
  <2>2. \A u : u \in Inside(c, d) <=>
                  \/ u \in Below(c, cur)
                  \/ \E l \in Levels : d < l /\ u \in Part(c, l)
    BY <1>2, InsideIs
  <2>3. \A u : u \in Inside(e, d)' <=> u \in Inside(c, d) \ {k}
    BY <1>9, <1>10, <1>11, <1>12, <1>13, <2>1, <2>2
  <2> QED  BY <2>3
<1>15. ToCome' = {}
  BY <1>1 DEF ToCome
<1>16. ASSUME NEW d \in Levels PROVE LevelOK(e, d)'
  <2>1. Extends(heap, heap') /\ Grown(heap, c, heap', e, {})
    BY <1>1, <1>9, HeapUnchanged DEF Turns
  <2>2. \A u \in (Inside(e, d) \cup ToCome)' : u \in Inside(c, d) \cup ToCome
    BY <1>14, <1>15
  <2>3. LevelOK(c, d)
    BY <1>1, <1>2, FocusHeld
  <2> QED  BY <1>9, <1>11, <1>12, <2>1, <2>2, <2>3, LevelKept
<1>17. PiecesAre(e)'
  BY <1>1, <1>2, <1>9, <1>16, Turn
<1>18. All(e)' = All(c) \ {k}
  BY <1>14 DEF All
<1>19. ~Replacing'
  BY <1>11 DEF Replacing
<1>20. removed'.offset # 0 /\ removed'.key = k
  BY <1>1, <1>5 DEF k
<1>21. Hit(removed.key)'
  BY <1>1, <1>6, <1>20 DEF Hit
<1>22. Removed(e)'
  BY <1>1, <1>3, <1>5, <1>18, <1>20, <1>21 DEF Removed, Searching
<1>23. RemoveOK(e)'
  BY <1>1, <1>19, <1>22 DEF RemoveOK, LeftmostOK
<1>24. OperationOK(e)'
  BY <1>1, <1>3, <1>23 DEF OperationOK
<1> QED  BY <1>17, <1>24 DEF TreesOK, TreesAre

LEMMA LeftmostTurns ==
  ASSUME ~Refcounting, IInv, IInv', NEW c, TreesAre(c), RemoveHere, pc = "leftmost"
  PROVE  TreesOK'
<1> DEFINE root == Get(heap, cur)
           k == root.key
           K == removed.key
           a == IF root.lc = 0 THEN root.rc ELSE root.lc
<1>1. /\ cur # 0 /\ pc' = "unwind" /\ heap' = heap /\ Cmp(root) = 0
      /\ leftmost' = root /\ removed' = removed
      /\ UNCHANGED <<call, stack, roots, kept, snaps>>
      /\ PiecesAre(c) /\ OperationOK(c)
  BY DEF RemoveHere, TreesAre, Null
<1>2. Busy /\ Busy' /\ Focus = cur
  BY <1>1 DEF Busy, Focus
<1>3. Fetching(c) /\ call.op = "remove"
  BY <1>2 DEF OperationOK, InsertOK, RemoveOK, TreesAre
<1>4. PICK d0 \in Levels : /\ Level(d0).dir = "replace" /\ Level(d0).node.key = K
                           /\ \A l \in Levels : d0 < l => Level(l).dir = "left"
  BY <1>3 DEF Fetching
<1>5. /\ root.offset = cur /\ k \in Keys /\ k \in Nat /\ root.lc = 0
  <2>1. cur # Null /\ root.lc \in Nat
    BY <1>1, CurNode DEF Null
  <2>2. root.offset = cur /\ k \in Keys
    BY <1>1, <2>1, FocusNode
  <2>3. root.lc = 0
    BY <1>1 DEF Cmp, Null
  <2> QED  BY <2>2, <2>3, KeysAssumption
<1>6. \E e : TakesOut(c, e, root, a)
  BY <1>1, TakeOut
<1>7. PICK e : TakesOut(c, e, root, a)
  BY <1>6
<1> HIDE DEF root, k, a, K
<1>8. /\ Turns(c, e, {}) /\ Focus' = a /\ Below(c, cur) = Below(e, a) \cup {k}
      /\ \A u \in Below(e, a) : k < u
      /\ \A d \in Levels : Below(e, Sibling(Level(d))) = Below(c, Sibling(Level(d)))
      /\ cur \in DOMAIN c /\ Loose(heap, e, root)
  BY <1>5, <1>7 DEF TakesOut, k
<1>9. Levels' = Levels /\ \A d \in Levels : Level(d)' = Level(d)
  BY <1>1 DEF Levels, Level
<1>10. /\ Grove(heap, c, Held)
       /\ \A d \in Levels : /\ LevelOK(c, d) /\ <<2, d>> \in DOMAIN Held
                            /\ Held[<<2, d>>] = Sibling(Level(d))
       /\ \A d \in Levels : Level(d).dir = "replace" => d = d0
  BY <1>1, <1>2, <1>4, FocusHeld DEF PiecesAre, LevelsOK, ReplacedOnce
<1>11. \A d \in Levels : /\ LevelKey(Level(d)) = Level(d).node.key
                         /\ LevelKey(Level(d))' = IF d = d0 THEN k ELSE Level(d).node.key
  BY <1>1, <1>4, <1>9, <1>10 DEF LevelKey, k
<1>12. LevelKey(Level(d0)) = K
  BY <1>4, <1>11
<1>13. \A d \in Levels : LevelKey(Level(d)) \in Nat /\ Below(c, Sibling(Level(d))) \subseteq Nat
  BY <1>10, BelowKeys, KeysAssumption DEF LevelOK
<1>14. \A d \in Levels : Part(e, d)' = {LevelKey(Level(d))'} \cup Below(c, Sibling(Level(d)))
  <2> SUFFICES ASSUME NEW d \in Levels
               PROVE  Part(e, d)' = {LevelKey(Level(d))'} \cup Below(c, Sibling(Level(d)))
    OBVIOUS
  <2>1. Sibling(Level(d))' = Sibling(Level(d))
    BY <1>9 DEF Sibling, Way
  <2> QED  BY <1>8, <2>1 DEF Part
<1>15. \A d \in Levels : d # d0 => Part(e, d)' = Part(c, d)
  BY <1>11, <1>14 DEF Part
<1>16. Part(e, d0)' = {k} \cup (Part(c, d0) \ {K})
  <2>1. \A v \in Below(c, Sibling(Level(d0))) :
          Beside(Way(Level(d0)), LevelKey(Level(d0)), v)
    BY <1>10 DEF LevelOK
  <2>2. K \notin Below(c, Sibling(Level(d0)))
    BY <1>12, <1>13, <2>1 DEF Beside
  <2> QED  BY <1>11, <1>12, <1>14, <2>2 DEF Part
<1>17. \A d, u : u \in Inside(c, d) <=>
                   \/ u \in Below(c, cur)
                   \/ \E l \in Levels : d < l /\ u \in Part(c, l)
  BY <1>2, InsideIs
<1>18. \A d, u : u \in Inside(e, d)' <=>
                   \/ u \in Below(e, a)
                   \/ \E l \in Levels : d < l /\ u \in Part(e, l)'
  BY <1>8, <1>9 DEF Inside
<1>19. \A d : k \in Inside(c, d)
  BY <1>8, <1>17
<1>20. \A d \in Levels : d \in Nat
  BY DEF Levels
<1>21. ASSUME NEW d PROVE \A u \in Inside(e, d)' : u \in Inside(c, d)
  BY <1>8, <1>15, <1>16, <1>17, <1>18, <1>19
<1>22. ToCome' = {}
  BY <1>1 DEF ToCome
<1>23. Extends(heap, heap') /\ Grown(heap, c, heap', e, {})
  BY <1>1, <1>8, HeapUnchanged DEF Turns
<1>24. ASSUME NEW d \in Levels, d # d0 PROVE LevelOK(e, d)'
  <2>1. LevelKey(Level(d))' = LevelKey(Level(d))
    BY <1>11, <1>24
  <2>2. \A u \in (Inside(e, d) \cup ToCome)' : u \in Inside(c, d) \cup ToCome
    BY <1>21, <1>22
  <2>3. LevelOK(c, d) /\ Level(d)' = Level(d)
    BY <1>9, <1>10
  <2>4. Below(e, Sibling(Level(d))) = Below(c, Sibling(Level(d)))
    BY <1>8
  <2> QED  BY <1>23, <2>1, <2>2, <2>3, <2>4, LevelKept
(* What is left below the level to be replaced is right of the new key.    *)
<1>25. ASSUME NEW u \in Inside(e, d0)' PROVE k < u
  <2>1. CASE u \in Below(e, a)
    BY <1>8, <2>1
  <2>2. ASSUME NEW l \in Levels, d0 < l, u \in Part(e, l)' PROVE k < u
    <3>1. u \in Part(c, l) /\ Way(Level(l)) = "left"
      BY <1>4, <1>15, <1>20, <2>2 DEF Way
    <3>2. /\ Beside("left", k, LevelKey(Level(l)))
          /\ \A v \in Below(c, Sibling(Level(l))) : Beside("left", LevelKey(Level(l)), v)
      BY <1>10, <1>19, <3>1 DEF LevelOK
    <3>3. u = LevelKey(Level(l)) \/ u \in Below(c, Sibling(Level(l)))
      BY <3>1 DEF Part
    <3> QED  BY <1>5, <1>13, <3>2, <3>3 DEF Beside
  <2> QED  BY <1>18, <2>1, <2>2
<1>26. LevelOK(e, d0)'
  <2>1. /\ Way(Level(d0)) = "right"
        /\ Way(Level(d0))' = "right" /\ Sibling(Level(d0))' = Sibling(Level(d0))
    BY <1>4, <1>9 DEF Way, Sibling
  <2>2. /\ Beside("right", k, K) /\ Loose(heap, c, Level(d0).node)
        /\ Get(heap, Level(d0).node.offset) = Level(d0).node
        /\ \A v \in Below(c, Sibling(Level(d0))) : Beside("right", K, v)
    BY <1>10, <1>12, <1>19, <2>1 DEF LevelOK
  <2>3. \A v \in Below(e, Sibling(Level(d0))) : Beside("right", k, v)
    BY <1>5, <1>8, <1>12, <1>13, <2>2 DEF Beside
  <2>4. \A u \in (Inside(e, d0) \cup ToCome)' : Beside("right", u, k)
    BY <1>22, <1>25 DEF Beside
  <2>5. IsNode(Level(d0).node, heap.next) /\ HeapInv(heap)
    BY HeapNow, LevelType
  <2>6. Loose(heap', e, Level(d0).node) /\ Get(heap', Level(d0).node.offset) = Level(d0).node
    BY <1>23, <2>2, <2>5, LooseKept
  <2>7. LevelKey(Level(d0))' = k
    BY <1>11
  <2> QED  BY <1>5, <1>9, <2>1, <2>3, <2>4, <2>6, <2>7 DEF LevelOK
<1>27. \A d \in Levels : LevelOK(e, d)'
  BY <1>24, <1>26
<1>28. PiecesAre(e)'
  BY <1>1, <1>2, <1>8, <1>27, Turn
(* All but the key that was to go is there.                                *)
<1>29. K \in Part(c, d0)
  BY <1>12 DEF Part
<1>30. ASSUME NEW l \in Levels, l # d0 PROVE K \notin Part(c, l)
  <2>1. CASE l < d0
    BY <1>1, <1>2, <1>17, <1>29, <2>1, PartsApart
  <2>2. CASE d0 < l
    <3>1. K \in Part(c, l) => K \in Inside(c, d0)
      BY <1>17, <2>2
    <3> QED  BY <1>1, <1>2, <1>29, <3>1, PartsApart
  <2> QED  BY <1>20, <1>30, <2>1, <2>2
<1>31. K \notin Below(c, cur)
  <2>1. K \in Below(c, cur) => K \in Inside(c, d0)
    BY <1>17
  <2> QED  BY <1>1, <1>2, <1>29, <2>1, PartsApart
<1>32. \A l \in Levels : 0 < l
  BY DEF Levels
<1>33. All(e)' = All(c) \ {K}
  <2>1. \A u : u \in All(c) <=> u \in Below(c, cur) \/ \E l \in Levels : u \in Part(c, l)
    BY <1>17, <1>32 DEF All
  <2>2. \A u : u \in All(e)' <=> u \in Below(e, a) \/ \E l \in Levels : u \in Part(e, l)'
    BY <1>18, <1>32 DEF All
  <2>3. \A u : u \in All(e)' => u \in All(c) /\ u # K
    BY <1>8, <1>15, <1>16, <1>30, <1>31, <2>1, <2>2
  <2>4. \A u : u \in All(c) /\ u # K => u \in All(e)'
    BY <1>8, <1>15, <1>16, <2>1, <2>2
  <2> QED  BY <2>3, <2>4
<1>34. K \in All(c)
  BY <1>17, <1>29, <1>32 DEF All
<1>35. Removed(e)'
  <2>1. Hit(removed.key)'
    BY <1>1, <1>3 DEF Hit, Fetching
  <2> QED  BY <1>1, <1>3, <1>33, <1>34, <2>1 DEF Removed, Fetching, K
<1>36. \A d \in Levels : heap.hwm <= cur => Level(d).node.offset # cur
  <2>1. cur \in Nat /\ heap.hwm \in Nat
    BY HeapNow DEF CallOK
  <2>2. ASSUME heap.hwm <= cur, NEW d \in Levels PROVE Level(d).node.offset # cur
    <3>1. Loose(heap, c, Level(d).node)
      BY <1>10 DEF LevelOK
    <3>2. ~(cur < heap.hwm) /\ cur \in DOMAIN c
      BY <1>8, <2>1, <2>2
    <3> QED  BY <3>1, <3>2 DEF Loose
  <2> QED  BY <2>2
<1>37. LeftmostOK(e)'
  BY <1>1, <1>5, <1>8, <1>9, <1>36 DEF LeftmostOK
<1>38. RemoveOK(e)'
  BY <1>1, <1>35, <1>37 DEF RemoveOK
<1>39. OperationOK(e)'
  BY <1>1, <1>3, <1>38 DEF OperationOK
<1> QED  BY <1>28, <1>39 DEF TreesOK, TreesAre

-----------------------------------------------------------------------------
(* The steps at either end of an operation, when nothing is taken apart.   *)
LEMMA NoLevels == ASSUME stack = <<>> PROVE Levels = {}
<1>1. Len(stack) = 0
  OBVIOUS
<1> QED  BY <1>1 DEF Levels

Whose(t) == IF Busy /\ call.tree = t THEN Focus ELSE roots[t]

LEMMA HeldSame ==
  ASSUME stack = <<>>, stack' = stack, \A t \in Trees : Whose(t)' = Whose(t)
  PROVE  Held' = Held
<1>1. Levels = {} /\ Levels' = {}
  BY NoLevels DEF Levels
<1> DEFINE D == {1} \X Trees
<1>2. ({1} \X Trees) \cup ({2} \X Levels) = D /\ ({1} \X Trees) \cup ({2} \X Levels') = D
  BY <1>1
<1> DEFINE old(j) == IF j[1] = 2 THEN Sibling(Level(j[2])) ELSE Whose(j[2])
           new(j) == IF j[1] = 2 THEN Sibling(Level(j[2]))' ELSE Whose(j[2])'
<1>3. \A j \in D : new(j) = old(j)
  OBVIOUS
<1> HIDE DEF D
<1>4. Held = [j \in D |-> old(j)]
  BY <1>2, Zenon DEF Held, Whose
<1>5. Held' = [j \in D |-> new(j)]
  BY <1>2, Zenon DEF Held, Whose
<1> HIDE DEF old, new
<1> QED  BY <1>3, <1>4, <1>5

LEMMA AllEmpty ==
  ASSUME stack = <<>>, NEW c PROVE All(c) = Below(c, Focus)
<1>1. \A u : u \in Inside(c, 0) <=> u \in Below(c, Focus)
  BY NoLevels, InsideIs
<1> QED  BY <1>1 DEF All

LEMMA Begins ==
  ASSUME NEW c, PiecesAre(c), pc = "idle", Busy', stack = <<>>, stack' = stack,
         NEW t \in Trees, call'.tree = t, Focus' = roots[t],
         UNCHANGED <<roots, kept, snaps>>, Grove(heap', c, Held)
  PROVE  PiecesAre(c)' /\ All(c)' = kept'[t] /\ Levels' = {}
<1>1. ~Busy
  BY DEF Busy
<1>2. \A u \in Trees : Whose(u)' = Whose(u)
  BY <1>1 DEF Whose
<1>3. Held' = Held
  BY <1>2, HeldSame
<1>4. OthersOK(c) /\ SavedOK(c)
  BY DEF PiecesAre
<1>5. Levels' = {}
  BY NoLevels DEF Levels
<1>6. SavedOK(c)'
  BY <1>4 DEF SavedOK
<1>7. OthersOK(c)'
  BY <1>1, <1>4 DEF OthersOK
<1>8. LevelsOK(c)'
  BY <1>5 DEF LevelsOK, Apart, ReplacedOnce
<1>9. Below(c, roots[t]) = kept[t]
  BY <1>1, <1>4 DEF OthersOK
<1>10. \A u : u \in Inside(c, 0)' <=> u \in Below(c, roots[t])
  BY <1>5 DEF Inside
<1>11. All(c)' = kept'[t]
  BY <1>9, <1>10 DEF All
<1> QED  BY <1>3, <1>5, <1>6, <1>7, <1>8, <1>11 DEF PiecesAre

LEMMA HeapThen == ASSUME IInv' PROVE HeapInv(heap') /\ Closed(heap')
  BY DEF IInv, TypeOK, ModeOK, SavedTreesFrozen, HeapInv, Closed

LEMMA InsertBegins ==
  ASSUME ~Refcounting, IInv, IInv', NEW c, TreesAre(c),
         NEW t \in Trees, NEW k \in Keys, BeginInsert(t, k)
  PROVE  TreesOK'
<1> DEFINE p == heap.next
           leaf == [offset |-> p, lc |-> 0, rc |-> 0, height |-> 1, key |-> k, ann |-> {k}]
<1>1. /\ pc = "idle" /\ k \notin kept[t] /\ pc' = "insert" /\ cur' = roots[t]
      /\ stack' = stack /\ UNCHANGED <<roots, kept, snaps>>
  BY DEF BeginInsert, Called
<1>2. stack = <<>> /\ heap.free = <<>> /\ PiecesAre(c) /\ p \in Nat \ {0}
  BY <1>1, HeapNow DEF PathOK, HeapInv, TreesAre
<1>3. AllocOffset(heap) = p
  BY <1>2 DEF AllocOffset
<1>4. /\ heap' = Put(AllocNode(heap), leaf)
      /\ call' = [op |-> "insert", tree |-> t, lo |-> k, hi |-> k, node |-> p]
  BY <1>3 DEF BeginInsert, AdjustRefcount
<1> DEFINE a == AllocNode(heap)
<1>5. /\ a.next = p + 1 /\ a.hwm = heap.hwm
      /\ a.node = [o \in 1 .. p |-> IF o = p THEN BlankNode ELSE heap.node[o]]
  BY <1>2 DEF AllocNode, Heap
<1> HIDE DEF a
<1> DEFINE disk == [lc |-> 0, rc |-> 0, height |-> 1, key |-> k, ann |-> {k}]
<1>6. /\ heap'.node = [a.node EXCEPT ![p] = disk]
      /\ heap'.next = a.next /\ heap'.hwm = a.hwm
  BY <1>4 DEF Put, Heap, a
<1>7. /\ heap'.next = p + 1 /\ heap'.hwm = heap.hwm /\ p \in Offset(heap')
      /\ heap'.node[p] = disk
      /\ \A q \in Offset(heap) : heap'.node[q] = heap.node[q] /\ q \in Offset(heap')
      /\ \A q \in Offset(heap') : q # p => q \in Offset(heap)
  <2> HIDE DEF disk
  <2> QED  BY <1>2, <1>5, <1>6 DEF Offset
<1>8. /\ Grove(heap, c, Held) /\ Forest(heap, c, Held) /\ Labelled(heap, c)
      /\ Ranked(heap) /\ HeapInv(heap)
  BY <1>2 DEF PiecesAre, Grove, Forest
<1>9. HeapInv(heap') /\ Closed(heap')
  BY HeapThen
<1>10. \A q \in DOMAIN c : q \in Offset(heap) /\ heap'.node[q] = heap.node[q] /\ q # p
  BY <1>2, <1>7, <1>8 DEF Labelled, Offset
<1>11. heap'.node[p].lc = 0 /\ heap'.node[p].rc = 0 /\ heap'.node[p].key = k
  BY <1>7
<1> HIDE DEF p, disk, leaf
<1>12. Ranked(heap')
  <2>1. heap.next <= heap'.next
    BY <1>2, <1>7 DEF p
  <2>2. p \in Offset(heap') /\ p \notin DOMAIN c
    BY <1>7, <1>10
  <2>3. Has(c, heap'.node[p].lc) /\ Has(c, heap'.node[p].rc)
    BY <1>11 DEF Has
  <2>4. \A q \in Offset(heap') : q # p =>
          IF q \in Offset(heap) THEN heap'.node[q] = heap.node[q]
          ELSE heap'.node[q].lc = 0 /\ heap'.node[q].rc = 0
    BY <1>7
  <2> QED  BY <1>8, <1>9, <2>1, <2>2, <2>3, <2>4, RankedKept
<1>13. Labelled(heap', c)
  BY <1>7, <1>8, <1>10 DEF Labelled
<1>14. LinkedOnce(heap', c)
  BY <1>7, <1>8, <1>10 DEF Forest, LinkedOnce
<1>15. HeldOnce(heap', c, Held)
  BY <1>7, <1>8, <1>10 DEF Forest, HeldOnce
<1>16. Grove(heap', c, Held)
  BY <1>9, <1>12, <1>13, <1>14, <1>15 DEF Grove, Forest
<1>17. Busy' /\ Focus' = roots[t] /\ call'.tree = t
  BY <1>1, <1>4 DEF Busy, Focus
<1>18. PiecesAre(c)' /\ All(c)' = kept'[t] /\ Levels' = {}
  BY <1>1, <1>2, <1>16, <1>17, Begins
<1>19. heap'.hwm <= p
  BY <1>7, HeapNow DEF HeapInv, HeapOK, p
<1>20. /\ call'.op = "insert" /\ call'.lo = k /\ call'.node = p
  BY <1>4
<1>21. InsertOK(c)'
  BY <1>1, <1>7, <1>10, <1>11, <1>17, <1>18, <1>19, <1>20 DEF InsertOK, Replacing
<1>22. OperationOK(c)'
  BY <1>20, <1>21 DEF OperationOK
<1> QED  BY <1>18, <1>22 DEF TreesOK, TreesAre

LEMMA RemoveBegins ==
  ASSUME ~Refcounting, IInv, IInv', NEW c, TreesAre(c),
         NEW t \in Trees, NEW lo, NEW hi, BeginRemove(t, lo, hi)
  PROVE  TreesOK'
<1>1. /\ pc = "idle" /\ pc' = "remove" /\ cur' = roots[t]
      /\ stack' = stack /\ UNCHANGED <<roots, kept, snaps>>
      /\ call' = [op |-> "remove", tree |-> t, lo |-> lo, hi |-> hi, node |-> 0]
  BY DEF BeginRemove, Called, Null
<1>2. stack = <<>> /\ PiecesAre(c) /\ heap' = heap
  BY <1>1, HeapNow DEF PathOK, TreesAre, BeginRemove, AdjustRefcount
<1>3. Busy' /\ Focus' = roots[t] /\ call'.tree = t /\ call'.op = "remove"
  BY <1>1 DEF Busy, Focus
<1>4. Grove(heap', c, Held)
  BY <1>2 DEF PiecesAre
<1>5. PiecesAre(c)' /\ All(c)' = kept'[t] /\ Levels' = {}
  BY <1>1, <1>2, <1>3, <1>4, Begins
<1>6. RemoveOK(c)'
  BY <1>1, <1>3, <1>5 DEF RemoveOK, Searching
<1>7. OperationOK(c)'
  BY <1>3, <1>6 DEF OperationOK
<1> QED  BY <1>5, <1>7 DEF TreesOK, TreesAre

LEMMA Returns ==
  ASSUME IInv, NEW c, PiecesAre(c), Busy, ~Busy', stack = <<>>, stack' = stack,
         heap' = heap, snaps' = snaps,
         roots' = [roots EXCEPT ![call.tree] = Focus],
         kept' = [kept EXCEPT ![call.tree] = All(c)]
  PROVE  TreesOK'
<1>1. call.tree \in Trees /\ OthersOK(c) /\ SavedOK(c) /\ Grove(heap, c, Held)
  BY DEF PiecesAre, LevelsOK
<1>2. roots \in [Trees -> Nat] /\ kept \in [Trees -> SUBSET Keys]
  BY HeapNow DEF CallerOK
<1>3. \A t \in Trees :
        /\ roots'[t] = IF t = call.tree THEN Focus ELSE roots[t]
        /\ kept'[t] = IF t = call.tree THEN All(c) ELSE kept[t]
  BY <1>2
<1>4. \A t \in Trees : Whose(t)' = Whose(t)
  BY <1>3 DEF Whose
<1>5. Held' = Held
  BY <1>4, HeldSame
<1>6. OthersOK(c)'
  BY <1>1, <1>3, AllEmpty DEF OthersOK
<1>7. SavedOK(c)'
  BY <1>1 DEF SavedOK
<1>8. LevelsOK(c)' /\ OperationOK(c)'
  BY DEF LevelsOK, OperationOK
<1> QED  BY <1>1, <1>5, <1>6, <1>7, <1>8 DEF TreesOK, TreesAre, PiecesAre

LEMMA InsertReturns ==
  ASSUME ~Refcounting, IInv, NEW c, TreesAre(c), InsertReturn
  PROVE  TreesOK'
<1>1. /\ pc = "unwind" /\ call.op = "insert" /\ stack = <<>> /\ stack' = stack
      /\ pc' = "idle" /\ snaps' = snaps /\ heap' = heap
      /\ roots' = [roots EXCEPT ![call.tree] = ret.offset]
      /\ kept' = [kept EXCEPT ![call.tree] = @ \cup {call.lo}]
  BY DEF InsertReturn, ForgetOp, AdjustRefcount
<1>2. Busy /\ ~Busy' /\ Focus = ret.offset
  BY <1>1 DEF Busy, Focus
<1>3. PiecesAre(c) /\ All(c) = kept[call.tree] \cup {call.lo}
  BY <1>1, <1>2 DEF TreesAre, OperationOK, InsertOK
<1>4. kept' = [kept EXCEPT ![call.tree] = All(c)]
  BY <1>1, <1>3
<1> QED  BY <1>1, <1>2, <1>3, <1>4, Returns

LEMMA RemoveReturns ==
  ASSUME ~Refcounting, IInv, NEW c, TreesAre(c), RemoveReturn
  PROVE  TreesOK'
<1>1. /\ pc = "unwind" /\ call.op = "remove" /\ stack = <<>> /\ stack' = stack
      /\ pc' = "idle" /\ snaps' = snaps /\ heap' = heap
      /\ roots' = [roots EXCEPT ![call.tree] = ret.offset]
      /\ kept' = [kept EXCEPT ![call.tree] = @ \ {removed.key}]
  BY DEF RemoveReturn, ForgetOp, AdjustRefcount
<1>2. Busy /\ ~Busy' /\ Focus = ret.offset
  BY <1>1 DEF Busy, Focus
<1>3. PiecesAre(c) /\ Removed(c) /\ call.tree \in Trees
  BY <1>1, <1>2 DEF TreesAre, OperationOK, RemoveOK, PiecesAre, LevelsOK
<1>4. kept[call.tree] \ {removed.key} = All(c)
  <2>1. CASE removed.offset = 0
    <3>1. removed.key = NoKey /\ All(c) = kept[call.tree]
      BY <1>3, <2>1 DEF Removed
    <3>2. kept[call.tree] \subseteq Nat
      BY <1>3, HeapNow, KeysAssumption DEF CallerOK
    <3> QED  BY <3>1, <3>2 DEF NoKey
  <2>2. CASE removed.offset # 0
    BY <1>3, <2>2 DEF Removed
  <2> QED  BY <2>1, <2>2
<1>5. kept' = [kept EXCEPT ![call.tree] = All(c)]
  BY <1>1, <1>4
<1> QED  BY <1>1, <1>2, <1>3, <1>5, Returns

LEMMA CommitForest ==
  ASSUME NEW h, NEW g, NEW c, NEW held, Grove(h, c, held), HeapInv(g), Closed(g),
         g.node = h.node, g.next = h.next, h.hwm <= g.hwm
  PROVE  Grove(g, c, held)
<1>1. Ranked(h) /\ Labelled(h, c) /\ LinkedOnce(h, c) /\ HeldOnce(h, c, held) /\ HeapInv(h)
  BY DEF Grove, Forest
<1>2. Offset(g) = Offset(h) /\ h.hwm \in Nat /\ g.hwm \in Nat /\ h.next \in Nat
  BY <1>1 DEF Offset, HeapInv, HeapOK
<1>3. Ranked(g)
  BY <1>1, <1>2 DEF Ranked, RanksOf
<1>4. Labelled(g, c)
  BY <1>1, <1>2 DEF Labelled
<1>5. \A o : Has(c, o) => o \in Nat
  BY <1>1, <1>2 DEF Has, Labelled, Offset
<1>6. \A p \in DOMAIN c, s \in Sides : Child(h.node[p], s) \in Nat
  BY <1>1, <1>5 DEF Labelled, Child
<1>7. \A o \in Nat : g.hwm <= o => h.hwm <= o
  BY <1>2
<1>8. LinkedOnce(g, c)
  <2> SUFFICES ASSUME NEW p \in DOMAIN c, NEW q \in DOMAIN c, NEW s \in Sides, NEW r \in Sides,
                      Child(h.node[p], s) = Child(h.node[q], r), g.hwm <= Child(h.node[p], s)
               PROVE  p = q /\ s = r
    BY DEF LinkedOnce
  <2>1. h.hwm <= Child(h.node[p], s)
    BY <1>6, <1>7
  <2> QED  BY <1>1, <2>1 DEF LinkedOnce
<1>9. \A i \in DOMAIN held : held[i] \in Nat
  BY <1>1, <1>5 DEF HeldOnce
<1>10. HeldOnce(g, c, held)
  BY <1>1, <1>7, <1>9 DEF HeldOnce
<1> QED  BY <1>3, <1>4, <1>8, <1>10 DEF Grove, Forest

LEMMA Commits ==
  ASSUME ~Refcounting, IInv, IInv', NEW c, TreesAre(c), Commit
  PROVE  TreesOK'
<1>1. /\ pc = "idle" /\ UNCHANGED <<pc, call, cur, stack, ret, roots, kept>>
      /\ heap'.node = heap.node /\ heap'.next = heap.next /\ heap'.hwm = heap.next
      /\ snaps' = Append(snaps, [root |-> roots, keys |-> kept])
  BY DEF Commit, Called, opvars, Heap
<1>2. /\ stack = <<>> /\ PiecesAre(c) /\ ~Busy /\ ~Busy' /\ HeapInv(heap)
      /\ snaps \in Seq(Snap)
  BY <1>1, HeapNow DEF PathOK, TreesAre, Busy, CallerOK
<1>3. Grove(heap, c, Held) /\ OthersOK(c) /\ SavedOK(c)
  BY <1>2 DEF PiecesAre
<1>4. heap.hwm <= heap'.hwm
  BY <1>1, <1>2 DEF HeapInv, HeapOK
<1>5. Grove(heap', c, Held)
  BY <1>1, <1>3, <1>4, HeapThen, CommitForest
<1>6. \A t \in Trees : Whose(t)' = Whose(t)
  BY <1>1, <1>2 DEF Whose
<1>7. Held' = Held
  BY <1>1, <1>2, <1>6, HeldSame
<1>8. OthersOK(c)'
  BY <1>1, <1>2, <1>3 DEF OthersOK
<1>9. \A t \in Trees : Has(c, roots[t]) /\ Below(c, roots[t]) = kept[t]
  <2> SUFFICES ASSUME NEW t \in Trees PROVE Has(c, roots[t]) /\ Below(c, roots[t]) = kept[t]
    OBVIOUS
  <2>1. <<1, t>> \in DOMAIN Held /\ Held[<<1, t>>] = roots[t]
    BY <1>2, HeldAt
  <2>2. Has(c, roots[t])
    BY <1>3, <2>1 DEF Grove, Forest, HeldOnce
  <2> QED  BY <1>2, <1>3, <2>2 DEF OthersOK
<1>10. SavedOK(c)'
  <2> DEFINE s == [root |-> roots, keys |-> kept]
  <2>1. /\ Len(snaps') = Len(snaps) + 1 /\ Len(snaps) \in Nat
        /\ \A i \in 1 .. Len(snaps') :
             snaps'[i] = IF i = Len(snaps) + 1 THEN s ELSE snaps[i]
    BY <1>1, <1>2
  <2>2. ASSUME NEW i \in 1 .. Len(snaps'), NEW t \in Trees
        PROVE  /\ Has(c, snaps'[i].root[t])
               /\ Below(c, snaps'[i].root[t]) = snaps'[i].keys[t]
    <3>1. CASE i = Len(snaps) + 1
      BY <1>9, <2>1, <3>1
    <3>2. CASE i # Len(snaps) + 1
      <4>1. i \in 1 .. Len(snaps) /\ snaps'[i] = snaps[i]
        BY <2>1, <3>2
      <4> QED  BY <1>3, <4>1 DEF SavedOK
    <3> QED  BY <3>1, <3>2
  <2> QED  BY <2>2 DEF SavedOK
<1>11. LevelsOK(c)' /\ OperationOK(c)'
  BY <1>2 DEF LevelsOK, OperationOK
<1> QED  BY <1>5, <1>7, <1>8, <1>10, <1>11 DEF TreesOK, TreesAre, PiecesAre

LEMMA Stutters == ASSUME NEW c, TreesAre(c), UNCHANGED vars PROVE TreesOK'
<1>1. UNCHANGED <<heap, pc, call, cur, stack, ret, removed, leftmost, roots, kept, snaps>>
  BY DEF vars
<1>2. Levels' = Levels /\ Focus' = Focus /\ Busy' = Busy /\ ToCome' = ToCome
  BY <1>1 DEF Levels, Focus, Busy, ToCome
<1>3. Held' = Held
  BY <1>1 DEF Held, Levels, Level, Focus, Busy, Sibling, Way
<1>4. ASSUME NEW d PROVE Inside(c, d)' = Inside(c, d)
  BY <1>1 DEF Inside, Levels, Level, Focus, Part, LevelKey, Sibling, Way
<1>5. PiecesAre(c)'
  <2>1. PiecesAre(c)
    BY DEF TreesAre
  <2>2. Grove(heap, c, Held)'
    BY <1>1, <1>3, <2>1 DEF PiecesAre
  <2>3. OthersOK(c)' /\ SavedOK(c)'
    BY <1>1, <1>2, <2>1 DEF PiecesAre, OthersOK, SavedOK
  <2>4. ASSUME NEW d \in Levels, LevelOK(c, d) PROVE LevelOK(c, d)'
    <3>1. /\ heap' = heap /\ Level(d)' = Level(d) /\ LevelKey(Level(d))' = LevelKey(Level(d))
          /\ Sibling(Level(d))' = Sibling(Level(d)) /\ Way(Level(d))' = Way(Level(d))
          /\ Inside(c, d)' = Inside(c, d) /\ ToCome' = ToCome
      BY <1>1, <1>2, <1>4 DEF Level, LevelKey, Sibling, Way
    <3> QED  BY <2>4, <3>1 DEF LevelOK
  <2>5. Apart' /\ ReplacedOnce' <=> Apart /\ ReplacedOnce
    BY <1>1 DEF Apart, ReplacedOnce, Levels, Level
  <2>6. LevelsOK(c)'
    BY <1>1, <1>2, <2>1, <2>4, <2>5 DEF PiecesAre, LevelsOK
  <2> QED  BY <2>2, <2>3, <2>6 DEF PiecesAre
<1>6. OperationOK(c)'
  <2>1. OperationOK(c)
    BY DEF TreesAre
  <2>2. InsertOK(c)' <=> InsertOK(c)
    BY <1>1, <1>4 DEF InsertOK, All, Replacing, Levels, Level
  <2>3. Searching(c)' <=> Searching(c)
    BY <1>1, <1>4 DEF Searching, All, Levels, Part, Hit, LevelKey, Sibling, Way, Level
  <2>4. Fetching(c)' <=> Fetching(c)
    BY <1>1, <1>4 DEF Fetching, All, Levels, Level, Hit
  <2>5. Removed(c)' <=> Removed(c)
    BY <1>1, <1>4 DEF Removed, All, Hit, Replacing, Levels, Level
  <2>6. LeftmostOK(c)' <=> LeftmostOK(c)
    BY <1>1 DEF LeftmostOK, Replacing, Levels, Level
  <2>7. RemoveOK(c)' <=> RemoveOK(c)
    BY <1>1, <2>3, <2>4, <2>5, <2>6 DEF RemoveOK
  <2> QED  BY <1>1, <1>2, <2>1, <2>2, <2>7 DEF OperationOK
<1> QED  BY <1>5, <1>6 DEF TreesOK, TreesAre

LEMMA Starts == ASSUME ~Refcounting, Init, IInv PROVE TreesOK
<1> DEFINE c == [q \in {} |-> {}]
           rank == [o \in {0} |-> 0]
<1>1. /\ heap.next = 1 /\ heap.hwm = 1 /\ heap.node = <<>>
      /\ pc = "idle" /\ stack = <<>> /\ snaps = <<>>
      /\ roots = [t \in Trees |-> 0] /\ kept = [t \in Trees |-> {}]
  BY DEF Init, Heap, Null
<1>2. HeapInv(heap) /\ Closed(heap) /\ ~Busy /\ Offset(heap) = {}
  BY <1>1, HeapNow DEF Busy, Offset
<1>3. DOMAIN c = {} /\ \A q : q \notin DOMAIN c
  OBVIOUS
<1> HIDE DEF c
<1>4. Ranked(heap)
  <2>1. rank \in [Offset(heap) \cup {0} -> Nat]
    BY <1>2
  <2> QED  BY <1>2, <2>1 DEF Ranked, RanksOf
<1>5. \A i \in DOMAIN Held : Held[i] = 0
  <2>1. DOMAIN Held = ({1} \X Trees) \cup ({2} \X Levels)
    BY HeldAt
  <2>2. \A i \in DOMAIN Held : i \in {1} \X Trees
    BY <1>1, <2>1, NoLevels
  <2> QED  BY <1>1, <1>2, <2>2, HeldAt
<1>6. Labelled(heap, c) /\ LinkedOnce(heap, c)
  BY <1>3 DEF Labelled, LinkedOnce
<1>7. HeldOnce(heap, c, Held)
  BY <1>1, <1>3, <1>5 DEF HeldOnce, Has
<1>8. OthersOK(c) /\ SavedOK(c)
  BY <1>1, <1>2 DEF OthersOK, SavedOK, Below
<1>9. LevelsOK(c) /\ OperationOK(c)
  BY <1>2 DEF LevelsOK, OperationOK
<1> QED
  BY <1>2, <1>4, <1>6, <1>7, <1>8, <1>9 DEF TreesOK, TreesAre, PiecesAre, Grove, Forest

LEMMA TreesNext ==
  ASSUME ~Refcounting, IInv, IInv', TreesOK, [Next]_vars PROVE TreesOK'
<1>1. PICK c : TreesAre(c)
  BY DEF TreesOK
<1>2. PathOK
  BY HeapNow
<1>3. ~FreeNode /\ ~PushFree /\ ~FreeReturn
  BY <1>2 DEF PathOK, FreeNode, PushFree, FreeReturn
<1>4. ASSUME Step PROVE TreesOK'
  <2>1. ASSUME InsertDescend \/ InsertAtNull \/ InsertUnwind \/ InsertReturn PROVE TreesOK'
    BY <1>1, <2>1, InsertDown, InsertTurns, InsertUp, InsertReturns
  <2>2. ASSUME RemoveHere PROVE TreesOK'
    <3>1. pc = "remove" \/ pc = "leftmost"
      BY <2>2 DEF RemoveHere
    <3> QED  BY <1>1, <2>2, <3>1, RemoveTurnsHere, LeftmostTurns
  <2>3. ASSUME RemoveNotFound \/ RemoveDescend \/ RemoveTwoChildren PROVE TreesOK'
    BY <1>1, <2>3, RemoveTurnsEmpty, RemoveDown, RemoveDownTwo
  <2>4. ASSUME \/ RemoveUnwindSame \/ RemoveUnwind \/ RemoveUnwindReplace \/ RemoveReturn
        PROVE  TreesOK'
    BY <1>1, <2>4, RemoveUpSame, RemoveUpLinked, RemoveUpReplaced, RemoveReturns
  <2> QED  BY <1>3, <1>4, <2>1, <2>2, <2>3, <2>4 DEF Step
<1>5. ASSUME NEW t \in Trees, NEW k \in Keys, BeginInsert(t, k) PROVE TreesOK'
  BY <1>1, <1>5, InsertBegins
<1>6. ASSUME NEW t \in Trees, NEW f \in Finders, BeginRemove(t, f[1], f[2]) PROVE TreesOK'
  BY <1>1, <1>6, RemoveBegins
<1>7. ASSUME Commit PROVE TreesOK'
  BY <1>1, <1>7, Commits
<1>8. ASSUME UNCHANGED vars PROVE TreesOK'
  BY <1>1, <1>8, Stutters
<1> QED  BY <1>4, <1>5, <1>6, <1>7, <1>8 DEF Next, CloneTree, FreeTree, ReadOnly

(***************************************************************************)
(* The pieces of the trees fit together in every state, however deep in a  *)
(* recursion of insert_main or remove_main: what is in them is what the    *)
(* caller has put in, and nobody else leads to a node that may be written. *)
(***************************************************************************)
THEOREM ForestKept == ASSUME ~Refcounting PROVE Spec => []TreesOK
<1>1. Init => IInv /\ TreesOK
  BY InitInv, Starts
<1>2. IInv /\ TreesOK /\ [Next]_vars => IInv' /\ TreesOK'
  BY NextInv, TreesNext
<1> QED  BY <1>1, <1>2, PTL DEF Spec

-----------------------------------------------------------------------------
(***************************************************************************)
(* What recursions over a heap compute.  A heap whose nodes have ranks has *)
(* no circle, so a function defined at each node from its values at the    *)
(* children exists, and what holds at a node if it holds at the children   *)
(* holds everywhere.                                                       *)
(***************************************************************************)
LEMMA LeastNumber ==
  ASSUME NEW bad \in SUBSET Nat, bad # {}
  PROVE  \E n \in bad : \A k \in bad : n <= k
<1> DEFINE less == OpToRel(<, Nat)
<1>1. IsWellFoundedOn(less, Nat)
  BY NatLessThanWellFounded
<1>2. \A k, n \in Nat : <<k, n>> \in less <=> k < n
  BY DEF OpToRel
<1> HIDE DEF less
<1>3. PICK n \in bad : \A k \in bad : ~(<<k, n>> \in less)
  BY <1>1, WFMin
<1>4. ASSUME NEW k \in bad PROVE n <= k
  <2>1. n \in Nat /\ k \in Nat /\ ~(k < n)
    BY <1>2, <1>3
  <2> QED  BY <2>1
<1> QED  BY <1>4

LEMMA LowestOf ==
  ASSUME NEW D, NEW rank \in [D -> Nat], NEW S \in SUBSET D, S # {}
  PROVE  \E o \in S : \A q \in S : rank[o] <= rank[q]
<1> DEFINE ranks == {rank[o] : o \in S}
<1>1. ranks \in SUBSET Nat /\ ranks # {}
  OBVIOUS
<1>2. PICK n \in ranks : \A k \in ranks : n <= k
  <2> HIDE DEF ranks
  <2> QED  BY <1>1, LeastNumber
<1> QED  BY <1>2

LEMMA RanksBounded ==
  ASSUME NEW n \in Nat, NEW rank \in [0 .. n -> Nat]
  PROVE  \E b \in Nat : \A o \in 0 .. n : rank[o] < b
<1> DEFINE Bound(m, b) == \A o \in 0 .. m : rank[o] < b
           bad == {m \in 0 .. n : ~\E b \in Nat : Bound(m, b)}
<1>1. ASSUME bad # {} PROVE FALSE
  <2>1. PICK m \in bad : \A k \in bad : m <= k
    <3>1. bad \in SUBSET Nat
      OBVIOUS
    <3> HIDE DEF bad
    <3> QED  BY <1>1, <3>1, LeastNumber
  <2>2. m # 0
    <3>1. rank[0] + 1 \in Nat /\ Bound(0, rank[0] + 1)
      OBVIOUS
    <3> HIDE DEF Bound
    <3> QED  BY <2>1, <3>1
  <2>3. m - 1 \in 0 .. n /\ m - 1 \notin bad /\ m \in 0 .. n
    <3> HIDE DEF Bound
    <3> QED  BY <2>1, <2>2
  <2>4. PICK b \in Nat : Bound(m - 1, b)
    <3> HIDE DEF Bound
    <3> QED  BY <2>3
  <2> DEFINE big == b + rank[m] + 1
  <2>5. big \in Nat /\ Bound(m, big)
    <3>1. rank[m] \in Nat
      BY <2>3
    <3>2. ASSUME NEW o \in 0 .. m PROVE rank[o] < big
      <4>1. CASE o = m
        BY <3>1, <4>1
      <4>2. CASE o # m
        <5>1. o \in 0 .. (m - 1) /\ o \in 0 .. n /\ rank[o] \in Nat
          BY <2>3, <3>2, <4>2
        <5>2. rank[o] < b
          BY <2>4, <5>1
        <5> QED  BY <3>1, <5>1, <5>2
      <4> QED  BY <4>1, <4>2
    <3> QED  BY <3>1, <3>2
  <2> HIDE DEF Bound, big
  <2> QED  BY <2>1, <2>5
<1>2. n \notin bad /\ n \in 0 .. n
  <2> HIDE DEF bad
  <2> QED  BY <1>1
<1>3. \E b \in Nat : Bound(n, b)
  <2> HIDE DEF Bound
  <2> QED  BY <1>2
<1> QED  BY <1>3

Along(h, step, f, o) ==
  f[o] = step[o][<<f[h.node[o].lc], f[h.node[o].rc]>>]

FoldsTo(h, V, base, step, rank, n) ==
  {f \in [Offsets(h) -> V] :
     /\ f[0] = base
     /\ \A o \in Offset(h) : rank[o] < n => Along(h, step, f, o)}

LEMMA FoldExists ==
  ASSUME NEW h, HeapInv(h), Ranked(h), NEW V, NEW base \in V,
         NEW step \in [Offset(h) -> [V \X V -> V]]
  PROVE  \E f \in [Offsets(h) -> V] :
           f[0] = base /\ \A o \in Offset(h) : Along(h, step, f, o)
<1>1. PICK rank : RanksOf(h, rank)
  BY DEF Ranked
<1>2. /\ h.next \in Nat \ {0} /\ Offsets(h) = 0 .. (h.next - 1)
      /\ \A o : o \in Offsets(h) <=> o = 0 \/ o \in Offset(h)
      /\ 0 \notin Offset(h)
      /\ rank \in [Offsets(h) -> Nat]
      /\ \A o \in Offset(h) :
           /\ h.node[o].lc \in Offsets(h) /\ h.node[o].rc \in Offsets(h)
           /\ rank[h.node[o].lc] < rank[o] /\ rank[h.node[o].rc] < rank[o]
  <2>1. h.next \in Nat \ {0} /\ \A o : o \in Offsets(h) <=> o = 0 \/ o \in Offset(h)
    BY DEF Offset, Offsets, HeapInv, HeapOK
  <2>2. Offsets(h) = Offset(h) \cup {0}
    BY <2>1
  <2>3. \A o \in Offset(h) : h.node[o].lc \in Offsets(h) /\ h.node[o].rc \in Offsets(h)
    BY <2>1 DEF HeapInv, HeapOK, Node, Offsets
  <2> QED  BY <1>1, <2>1, <2>2, <2>3 DEF RanksOf, Offsets, Offset
<1> DEFINE UpTo(n) == FoldsTo(h, V, base, step, rank, n)
<1>3. ASSUME NEW n \in Nat, UpTo(n) # {} PROVE UpTo(n + 1) # {}
  <2>1. PICK f \in UpTo(n) : TRUE
    BY <1>3
  <2>2. /\ f \in [Offsets(h) -> V] /\ f[0] = base
        /\ \A o \in Offset(h) : rank[o] < n => Along(h, step, f, o)
    BY <2>1 DEF FoldsTo
  <2> DEFINE at(o) == step[o][<<f[h.node[o].lc], f[h.node[o].rc]>>]
             g == [o \in Offsets(h) |-> IF o # 0 /\ rank[o] = n THEN at(o) ELSE f[o]]
  <2>3. \A o \in Offset(h) : at(o) \in V
    BY <1>2, <2>2
  <2> HIDE DEF at
  <2>4. /\ g \in [Offsets(h) -> V] /\ g[0] = base
        /\ \A o \in Offset(h) : g[o] = IF rank[o] = n THEN at(o) ELSE f[o]
        /\ \A o \in Offsets(h) : rank[o] < n => g[o] = f[o]
    BY <1>2, <2>2, <2>3
  <2> HIDE DEF g
  <2>5. ASSUME NEW o \in Offset(h), rank[o] < n + 1 PROVE Along(h, step, g, o)
    <3> DEFINE l == h.node[o].lc
               r == h.node[o].rc
    <3>1. /\ l \in Offsets(h) /\ r \in Offsets(h) /\ rank[l] < rank[o] /\ rank[r] < rank[o]
          /\ rank[o] \in Nat /\ rank[l] \in Nat /\ rank[r] \in Nat
      BY <1>2
    <3>2. rank[l] < n /\ rank[r] < n
      BY <2>5, <3>1
    <3>3. g[l] = f[l] /\ g[r] = f[r]
      BY <2>4, <3>1, <3>2
    <3>4. CASE rank[o] = n
      BY <2>4, <3>3, <3>4 DEF Along, at
    <3>5. CASE rank[o] # n
      <4>0. \A x, y \in Nat : x < y + 1 /\ x # y => x < y
        OBVIOUS
      <4>1. rank[o] < n
        BY <2>5, <3>1, <3>5, <4>0, Zenon
      <4> QED  BY <2>2, <2>4, <3>3, <3>5, <4>1 DEF Along
    <3> QED  BY <3>4, <3>5
  <2> QED  BY <2>4, <2>5 DEF FoldsTo
<1>4. UpTo(0) # {}
  <2> DEFINE f == [o \in Offsets(h) |-> base]
  <2>1. f \in [Offsets(h) -> V] /\ f[0] = base
    BY <1>2
  <2>2. \A o \in Offset(h) : ~(rank[o] < 0)
    BY <1>2
  <2> HIDE DEF f
  <2> QED  BY <2>1, <2>2 DEF FoldsTo
<1>5. ASSUME NEW n \in Nat PROVE UpTo(n) # {}
  <2> DEFINE bad == {m \in Nat : UpTo(m) = {}}
  <2> HIDE DEF UpTo
  <2> SUFFICES ASSUME bad # {} PROVE FALSE
    OBVIOUS
  <2>1. PICK m \in bad : \A k \in bad : m <= k
    <3>1. bad \in SUBSET Nat
      OBVIOUS
    <3> HIDE DEF bad
    <3> QED  BY <3>1, LeastNumber
  <2>2. m # 0 /\ m \in Nat
    BY <1>4, <2>1
  <2>3. m - 1 \in Nat /\ m - 1 \notin bad /\ (m - 1) + 1 = m
    BY <2>1, <2>2
  <2> QED  BY <1>3, <2>1, <2>3
<1>6. PICK b \in Nat : \A o \in Offsets(h) : rank[o] < b
  <2>1. h.next - 1 \in Nat /\ rank \in [0 .. (h.next - 1) -> Nat]
    BY <1>2
  <2> QED  BY <1>2, <2>1, RanksBounded
<1>7. PICK f \in UpTo(b) : TRUE
  BY <1>5
<1> QED  BY <1>2, <1>6, <1>7 DEF FoldsTo

(* What a heap is to its recursions. *)
LEMMA HeapWays ==
  ASSUME NEW h, HeapInv(h)
  PROVE  /\ \A o : o \in Offsets(h) <=> o = 0 \/ o \in Offset(h)
         /\ 0 \notin Offset(h)
         /\ \A o \in Offset(h) :
              /\ o \in Nat /\ o # 0
              /\ h.node[o].lc \in Offsets(h) /\ h.node[o].rc \in Offsets(h)
              /\ h.node[o].key \in Key
              /\ Get(h, o).lc = h.node[o].lc /\ Get(h, o).rc = h.node[o].rc
              /\ Get(h, o).key = h.node[o].key
<1>1. h.next \in Nat \ {0} /\ \A o : o \in Offsets(h) <=> o = 0 \/ o \in Offset(h)
  BY DEF Offset, Offsets, HeapInv, HeapOK
<1>2. 0 \notin Offset(h) /\ \A o \in Offset(h) : o \in Nat /\ o # 0
  BY DEF Offset
<1>3. \A o \in Offset(h) : /\ h.node[o].lc \in Offsets(h) /\ h.node[o].rc \in Offsets(h)
                           /\ h.node[o].key \in Key
  BY <1>1 DEF HeapInv, HeapOK, Node, Offsets
<1> QED  BY <1>1, <1>2, <1>3 DEF Get

Elements(v) == {v[i] : i \in DOMAIN v}

LEMMA ElementsJoin ==
  ASSUME NEW T, NEW s \in Seq(T), NEW t \in Seq(T), NEW k \in T
  PROVE  /\ s \o <<k>> \o t \in Seq(T)
         /\ Elements(s \o <<k>> \o t) = Elements(s) \cup {k} \cup Elements(t)
<1> DEFINE u == s \o <<k>> \o t
<1>1. /\ u \in Seq(T) /\ Len(u) = Len(s) + 1 + Len(t)
      /\ Len(s) \in Nat /\ Len(t) \in Nat
      /\ DOMAIN s = 1 .. Len(s) /\ DOMAIN t = 1 .. Len(t) /\ DOMAIN u = 1 .. Len(u)
      /\ \A i \in 1 .. Len(u) :
           u[i] = IF i <= Len(s) THEN s[i]
                  ELSE IF i = Len(s) + 1 THEN k ELSE t[i - Len(s) - 1]
  OBVIOUS
<1> HIDE DEF u
<1>2. \A x : x \in Elements(u) => x \in Elements(s) \/ x = k \/ x \in Elements(t)
  <2> SUFFICES ASSUME NEW i \in 1 .. Len(u)
               PROVE  u[i] \in Elements(s) \/ u[i] = k \/ u[i] \in Elements(t)
    BY <1>1 DEF Elements
  <2>1. i \in 1 .. Len(s) \/ i = Len(s) + 1 \/ i - Len(s) - 1 \in 1 .. Len(t)
    BY <1>1
  <2>2. CASE i \in 1 .. Len(s)
    <3>1. u[i] = s[i]
      BY <1>1, <2>2
    <3> QED  BY <1>1, <2>2, <3>1 DEF Elements
  <2>3. CASE i = Len(s) + 1
    BY <1>1, <2>3
  <2>4. CASE i - Len(s) - 1 \in 1 .. Len(t)
    <3>1. u[i] = t[i - Len(s) - 1]
      BY <1>1, <2>4
    <3> QED  BY <1>1, <2>4, <3>1 DEF Elements
  <2> QED  BY <2>1, <2>2, <2>3, <2>4
<1>3. \A x : x \in Elements(s) => x \in Elements(u)
  <2> SUFFICES ASSUME NEW i \in 1 .. Len(s) PROVE s[i] \in Elements(u)
    BY <1>1 DEF Elements
  <2>1. i \in 1 .. Len(u) /\ u[i] = s[i]
    BY <1>1
  <2> QED  BY <1>1, <2>1 DEF Elements
<1>4. k \in Elements(u)
  <2>1. Len(s) + 1 \in 1 .. Len(u) /\ u[Len(s) + 1] = k
    BY <1>1
  <2> QED  BY <1>1, <2>1 DEF Elements
<1>5. \A x : x \in Elements(t) => x \in Elements(u)
  <2> SUFFICES ASSUME NEW i \in 1 .. Len(t) PROVE t[i] \in Elements(u)
    BY <1>1 DEF Elements
  <2> DEFINE j == Len(s) + 1 + i
  <2>1. /\ j \in 1 .. Len(u) /\ ~(j <= Len(s)) /\ j # Len(s) + 1
        /\ j - Len(s) - 1 = i
    BY <1>1
  <2> HIDE DEF j
  <2>2. u[j] = t[i]
    BY <1>1, <2>1
  <2> QED  BY <1>1, <2>1, <2>2 DEF Elements
<1>6. \A x : x \in Elements(u) <=> x \in Elements(s) \cup {k} \cup Elements(t)
  BY <1>2, <1>3, <1>4, <1>5
<1> QED  BY <1>1, <1>6 DEF u

LEMMA VisitIs ==
  ASSUME NEW h, HeapInv(h), Ranked(h)
  PROVE  \E f : /\ f[0] = <<>>
                /\ \A o \in Offset(h) :
                     f[o] = f[h.node[o].lc] \o <<h.node[o].key>> \o f[h.node[o].rc]
                /\ \A root : Visit(h, root) = f[root]
<1> DEFINE V == Seq(Key)
           step == [o \in Offset(h) |->
                      [p \in V \X V |-> p[1] \o <<h.node[o].key>> \o p[2]]]
           def(f) == [o \in Offsets(h) |->
                        IF o = 0 THEN <<>>
                        ELSE f[h.node[o].lc] \o <<h.node[o].key>> \o f[h.node[o].rc]]
           up == CHOOSE f : f = def(f)
<1>1. step \in [Offset(h) -> [V \X V -> V]]
  <2>1. \A o \in Offset(h), p \in V \X V : p[1] \o <<h.node[o].key>> \o p[2] \in V
    BY HeapWays
  <2> QED  BY <2>1
<1>2. <<>> \in V
  OBVIOUS
<1>3. \A o \in Offset(h) : \A a, b \in V :
        step[o][<<a, b>>] = a \o <<h.node[o].key>> \o b
  OBVIOUS
<1> HIDE DEF V, step
<1>4. PICK f \in [Offsets(h) -> V] :
        f[0] = <<>> /\ \A o \in Offset(h) : Along(h, step, f, o)
  BY <1>1, <1>2, FoldExists
<1>5. \A o \in Offset(h) :
        f[o] = f[h.node[o].lc] \o <<h.node[o].key>> \o f[h.node[o].rc]
  <2> SUFFICES ASSUME NEW o \in Offset(h)
               PROVE  f[o] = f[h.node[o].lc] \o <<h.node[o].key>> \o f[h.node[o].rc]
    OBVIOUS
  <2>1. h.node[o].lc \in Offsets(h) /\ h.node[o].rc \in Offsets(h)
    BY HeapWays
  <2>2. f[h.node[o].lc] \in V /\ f[h.node[o].rc] \in V
    BY <1>4, <2>1
  <2>3. f[o] = step[o][<<f[h.node[o].lc], f[h.node[o].rc]>>]
    BY <1>4 DEF Along
  <2> QED  BY <1>3, <2>2, <2>3
<1>6. f = def(f)
  <2>1. \A o \in Offsets(h) : f[o] = def(f)[o]
    BY <1>4, <1>5, HeapWays
  <2> QED  BY <2>1
<1>7. up = def(up)
  BY <1>6
<1>8. \A root : Visit(h, root) = up[root]
  BY DEF Visit, Null
<1> HIDE DEF up
<1>9. /\ up[0] = <<>>
      /\ \A o \in Offset(h) :
           up[o] = up[h.node[o].lc] \o <<h.node[o].key>> \o up[h.node[o].rc]
  BY <1>7, HeapWays
<1> QED  BY <1>8, <1>9

LEMMA ContentsAre ==
  ASSUME NEW h, HeapInv(h), Ranked(h), NEW c, Labelled(h, c), NEW root, Has(c, root)
  PROVE  Contents(h, root) = Below(c, root)
<1>1. PICK f : /\ f[0] = <<>>
               /\ \A o \in Offset(h) :
                    f[o] = f[h.node[o].lc] \o <<h.node[o].key>> \o f[h.node[o].rc]
               /\ \A o : Visit(h, o) = f[o]
  BY VisitIs
<1>2. PICK rank : RanksOf(h, rank)
  BY DEF Ranked
<1> DEFINE Told(o) == f[o] \in Seq(Keys) /\ Elements(f[o]) = Below(c, o)
           D == Offset(h) \cup {0}
           bad == {o \in D : Has(c, o) /\ ~Told(o)}
<1>3. ASSUME bad # {} PROVE FALSE
  <2>1. PICK o \in bad : \A q \in bad : rank[o] <= rank[q]
    <3>1. rank \in [D -> Nat] /\ bad \in SUBSET D
      BY <1>2 DEF RanksOf
    <3> HIDE DEF bad, D
    <3> QED  BY <1>3, <3>1, LowestOf
  <2>2. o # 0
    <3>1. <<>> \in Seq(Keys) /\ Elements(<<>>) = {}
      BY DEF Elements
    <3>2. Told(0)
      BY <1>1, <3>1 DEF Below
    <3> HIDE DEF Told
    <3> QED  BY <2>1, <3>2
  <2> DEFINE l == h.node[o].lc
             r == h.node[o].rc
             k == h.node[o].key
  <2>3. /\ o \in DOMAIN c /\ o \in Offset(h) /\ Has(c, l) /\ Has(c, r) /\ k \in Keys
        /\ Below(c, o) = Below(c, l) \cup {k} \cup Below(c, r)
    BY <2>1, <2>2 DEF Has, Labelled, Sorted, Below
  <2>4. l \in D /\ r \in D /\ rank[l] < rank[o] /\ rank[r] < rank[o]
        /\ rank[l] \in Nat /\ rank[r] \in Nat /\ rank[o] \in Nat
    BY <1>2, <2>3, HeapWays DEF RanksOf
  <2>5. f[o] = f[l] \o <<k>> \o f[r]
    BY <1>1, <2>3
  <2> HIDE DEF l, r, k
  <2>6. l \notin bad /\ r \notin bad
    <3> HIDE DEF bad
    <3> QED  BY <2>1, <2>4
  <2>7. Told(l) /\ Told(r)
    <3> HIDE DEF Told
    <3> QED  BY <2>3, <2>4, <2>6
  <2>8. /\ f[o] \in Seq(Keys)
        /\ Elements(f[o]) = Elements(f[l]) \cup {k} \cup Elements(f[r])
    BY <2>3, <2>5, <2>7, ElementsJoin
  <2>9. Told(o)
    BY <2>3, <2>7, <2>8
  <2> HIDE DEF Told
  <2> QED  BY <2>1, <2>9
<1>4. root \in D
  BY DEF Has, Labelled
<1>5. Told(root)
  <2> HIDE DEF Told
  <2> QED  BY <1>3, <1>4
<1>6. Contents(h, root) = Elements(f[root])
  BY <1>1 DEF Contents, Elements
<1> QED  BY <1>5, <1>6

(* What holds of the empty tree, and of a node if it does of its children. *)
LEMMA TreeInduction ==
  ASSUME NEW h, HeapInv(h), Ranked(h), NEW c, Labelled(h, c), NEW S, 0 \in S,
         \A o \in DOMAIN c : h.node[o].lc \in S /\ h.node[o].rc \in S => o \in S
  PROVE  \A o : Has(c, o) => o \in S
<1>1. PICK rank : RanksOf(h, rank)
  BY DEF Ranked
<1> DEFINE D == Offset(h) \cup {0}
           bad == {o \in DOMAIN c : o \notin S}
<1>2. ASSUME bad # {} PROVE FALSE
  <2>1. PICK o \in bad : \A q \in bad : rank[o] <= rank[q]
    <3>1. rank \in [D -> Nat] /\ bad \in SUBSET D
      BY <1>1 DEF RanksOf, Labelled
    <3> HIDE DEF bad, D
    <3> QED  BY <1>2, <3>1, LowestOf
  <2>2. o \in DOMAIN c /\ o \in Offset(h) /\ o \notin S
    BY <2>1 DEF Labelled
  <2> DEFINE l == h.node[o].lc
             r == h.node[o].rc
  <2>3. /\ l \in D /\ r \in D /\ rank[l] < rank[o] /\ rank[r] < rank[o]
        /\ rank[l] \in Nat /\ rank[r] \in Nat /\ rank[o] \in Nat
        /\ Has(c, l) /\ Has(c, r)
    BY <1>1, <2>2, HeapWays DEF RanksOf, Labelled
  <2>4. l \notin bad /\ r \notin bad
    <3> HIDE DEF bad, l, r
    <3> QED  BY <2>1, <2>3
  <2>5. l \in S /\ r \in S
    BY <2>3, <2>4 DEF Has
  <2> QED  BY <2>2, <2>5
<1> QED  BY <1>2 DEF Has

LEMMA NodeSorted ==
  ASSUME NEW h, HeapInv(h), NEW c, Labelled(h, c), NEW o \in DOMAIN c,
         NEW l, l = h.node[o].lc, NEW r, r = h.node[o].rc, NEW k, k = h.node[o].key
  PROVE  /\ o \in Offset(h) /\ o # 0 /\ k \in Nat
         /\ \A x \in Below(c, l) : x \in Nat /\ x < k
         /\ \A x \in Below(c, r) : x \in Nat /\ k < x
         /\ \A x : x \in Below(c, o) <=> x \in Below(c, l) \/ x = k \/ x \in Below(c, r)
<1>1. /\ o \in Offset(h) /\ Has(c, l) /\ Has(c, r) /\ k \in Keys
      /\ \A x \in Below(c, l) : x < k
      /\ \A x \in Below(c, r) : k < x
      /\ c[o] = Below(c, l) \cup {k} \cup Below(c, r)
  BY DEF Labelled, Sorted
<1>2. o # 0
  BY <1>1, HeapWays
<1>3. Below(c, o) = c[o]
  BY <1>2 DEF Below
<1>4. \A p : Has(c, p) => Below(c, p) \subseteq Keys
  BY DEF Has, Below, Labelled
<1> QED  BY <1>1, <1>2, <1>3, <1>4, KeysAssumption

LEMMA CmpFinds ==
  ASSUME NEW k \in Int, NEW lo \in Nat, NEW hi \in Nat, lo <= hi
  PROVE  \/ FinderCmp(k, lo, hi) = -1 /\ hi < k
         \/ FinderCmp(k, lo, hi) = 1 /\ k < lo
         \/ FinderCmp(k, lo, hi) = 0 /\ lo <= k /\ k <= hi
  BY DEF FinderCmp

(* find(): a payload the finder accepts, if there is one.                  *)
LEMMA FindIs ==
  ASSUME NEW h, HeapInv(h), Ranked(h), NEW lo, NEW hi
  PROVE  \E f : /\ f[0] = 0
                /\ \A o \in Offset(h) :
                     LET cmp == FinderCmp(h.node[o].key, lo, hi)
                     IN f[o] = IF cmp = 0 THEN o
                               ELSE IF cmp < 0 THEN f[h.node[o].lc] ELSE f[h.node[o].rc]
                /\ \A root : Find(h, root, lo, hi) = f[root]
<1> DEFINE V == Offsets(h)
           cmp(o) == FinderCmp(h.node[o].key, lo, hi)
           pick(o, a, b) == IF cmp(o) = 0 THEN o ELSE IF cmp(o) < 0 THEN a ELSE b
           step == [o \in Offset(h) |-> [p \in V \X V |-> pick(o, p[1], p[2])]]
           at(o) == FinderCmp(Get(h, o).key, lo, hi)
           def(f) == [o \in V |-> IF o = 0 \/ at(o) = 0 THEN o
                                  ELSE IF at(o) < 0 THEN f[Get(h, o).lc] ELSE f[Get(h, o).rc]]
           up == CHOOSE f : f = def(f)
<1>1. step \in [Offset(h) -> [V \X V -> V]]
  <2>1. \A o \in Offset(h), p \in V \X V : pick(o, p[1], p[2]) \in V
    <3> HIDE DEF cmp
    <3> QED  BY HeapWays
  <2> HIDE DEF pick
  <2> QED  BY <2>1
<1>2. \A o \in Offset(h) : \A a, b \in V : step[o][<<a, b>>] = pick(o, a, b)
  <2> HIDE DEF cmp
  <2> QED  OBVIOUS
<1>3. 0 \in V /\ \A o \in V : o = 0 \/ o \in Offset(h)
  BY HeapWays
<1> HIDE DEF step
<1>4. PICK f \in [V -> V] : f[0] = 0 /\ \A o \in Offset(h) : Along(h, step, f, o)
  BY <1>1, <1>3, FoldExists
<1>5. \A o \in Offset(h) : f[o] = pick(o, f[h.node[o].lc], f[h.node[o].rc])
  <2> SUFFICES ASSUME NEW o \in Offset(h)
               PROVE  f[o] = pick(o, f[h.node[o].lc], f[h.node[o].rc])
    OBVIOUS
  <2>1. f[h.node[o].lc] \in V /\ f[h.node[o].rc] \in V
    BY <1>4, HeapWays
  <2>2. f[o] = step[o][<<f[h.node[o].lc], f[h.node[o].rc]>>]
    BY <1>4 DEF Along
  <2> HIDE DEF pick, V
  <2> QED  BY <1>2, <2>1, <2>2
<1>6. \A o \in Offset(h) : at(o) = cmp(o) /\ o \in V
  BY HeapWays
<1>7. \A g, o : o \in Offset(h) => def(g)[o] = pick(o, g[h.node[o].lc], g[h.node[o].rc])
  <2> SUFFICES ASSUME NEW g, NEW o \in Offset(h)
               PROVE  def(g)[o] = pick(o, g[h.node[o].lc], g[h.node[o].rc])
    OBVIOUS
  <2>1. o # 0 /\ Get(h, o).lc = h.node[o].lc /\ Get(h, o).rc = h.node[o].rc
    BY HeapWays
  <2> HIDE DEF cmp, at, V
  <2> QED  BY <1>6, <2>1
<1>8. \A g : def(g)[0] = 0
  BY <1>3
<1>9. \A o \in V : f[o] = def(f)[o]
  <2> HIDE DEF def, pick, V
  <2> QED  BY <1>3, <1>4, <1>5, <1>7, <1>8
<1>10. f = def(f)
  <2> HIDE DEF at, V
  <2> QED  BY <1>4, <1>9
<1>11. up = def(up)
  <2> HIDE DEF def
  <2> QED  BY <1>10
<1>12. \A root : Find(h, root, lo, hi) = up[root]
  BY DEF Find, Null
<1> HIDE DEF up, def
<1>13. up[0] = 0 /\ \A o \in Offset(h) : up[o] = pick(o, up[h.node[o].lc], up[h.node[o].rc])
  BY <1>7, <1>8, <1>11
<1> QED  BY <1>12, <1>13

(* find_leftmost() and find_rightmost(): the outermost such payload.       *)
LEMMA OutermostIs ==
  ASSUME NEW h, HeapInv(h), Ranked(h), NEW lo, NEW hi, NEW side
  PROVE  \E f : /\ f[0] = 0
                /\ \A o \in Offset(h) :
                     LET cmp == FinderCmp(h.node[o].key, lo, hi)
                         outer == f[IF side < 0 THEN h.node[o].lc ELSE h.node[o].rc]
                     IN f[o] = IF cmp < 0 THEN f[h.node[o].lc]
                               ELSE IF cmp > 0 THEN f[h.node[o].rc]
                               ELSE IF outer # 0 THEN outer ELSE o
                /\ \A root : FindOutermost(h, root, lo, hi, side) = f[root]
<1> DEFINE V == Offsets(h)
           cmp(o) == FinderCmp(h.node[o].key, lo, hi)
           outer(a, b) == IF side < 0 THEN a ELSE b
           pick(o, a, b) == IF cmp(o) < 0 THEN a ELSE IF cmp(o) > 0 THEN b
                            ELSE IF outer(a, b) # 0 THEN outer(a, b) ELSE o
           step == [o \in Offset(h) |-> [p \in V \X V |-> pick(o, p[1], p[2])]]
           at(o) == FinderCmp(Get(h, o).key, lo, hi)
           def(f) == [o \in V |->
             IF o = 0 THEN 0
             ELSE IF at(o) < 0 THEN f[Get(h, o).lc]
             ELSE IF at(o) > 0 THEN f[Get(h, o).rc]
             ELSE IF f[IF side < 0 THEN Get(h, o).lc ELSE Get(h, o).rc] # 0
                  THEN f[IF side < 0 THEN Get(h, o).lc ELSE Get(h, o).rc]
                  ELSE o]
           up == CHOOSE f : f = def(f)
<1>1. step \in [Offset(h) -> [V \X V -> V]]
  <2>1. \A o \in Offset(h), p \in V \X V : pick(o, p[1], p[2]) \in V
    <3> HIDE DEF cmp
    <3> QED  BY HeapWays
  <2> HIDE DEF pick
  <2> QED  BY <2>1
<1>2. \A o \in Offset(h) : \A a, b \in V : step[o][<<a, b>>] = pick(o, a, b)
  <2> HIDE DEF cmp
  <2> QED  OBVIOUS
<1>3. 0 \in V /\ \A o \in V : o = 0 \/ o \in Offset(h)
  BY HeapWays
<1> HIDE DEF step
<1>4. PICK f \in [V -> V] : f[0] = 0 /\ \A o \in Offset(h) : Along(h, step, f, o)
  BY <1>1, <1>3, FoldExists
<1>5. \A o \in Offset(h) : f[o] = pick(o, f[h.node[o].lc], f[h.node[o].rc])
  <2> SUFFICES ASSUME NEW o \in Offset(h)
               PROVE  f[o] = pick(o, f[h.node[o].lc], f[h.node[o].rc])
    OBVIOUS
  <2>1. f[h.node[o].lc] \in V /\ f[h.node[o].rc] \in V
    BY <1>4, HeapWays
  <2>2. f[o] = step[o][<<f[h.node[o].lc], f[h.node[o].rc]>>]
    BY <1>4 DEF Along
  <2> HIDE DEF pick, V
  <2> QED  BY <1>2, <2>1, <2>2
<1>6. \A o \in Offset(h) : at(o) = cmp(o) /\ o \in V
  BY HeapWays
<1>7. \A g, o : o \in Offset(h) => def(g)[o] = pick(o, g[h.node[o].lc], g[h.node[o].rc])
  <2> SUFFICES ASSUME NEW g, NEW o \in Offset(h)
               PROVE  def(g)[o] = pick(o, g[h.node[o].lc], g[h.node[o].rc])
    OBVIOUS
  <2>1. o # 0 /\ Get(h, o).lc = h.node[o].lc /\ Get(h, o).rc = h.node[o].rc
    BY HeapWays
  <2> HIDE DEF cmp, at, V
  <2> QED  BY <1>6, <2>1
<1>8. \A g : def(g)[0] = 0
  BY <1>3
<1>9. \A o \in V : f[o] = def(f)[o]
  <2> HIDE DEF def, pick, V
  <2> QED  BY <1>3, <1>4, <1>5, <1>7, <1>8
<1>10. f = def(f)
  <2> HIDE DEF at, V
  <2> QED  BY <1>4, <1>9
<1>11. up = def(up)
  <2> HIDE DEF def
  <2> QED  BY <1>10
<1>12. \A root : FindOutermost(h, root, lo, hi, side) = up[root]
  BY DEF FindOutermost, Null
<1> HIDE DEF up, def
<1>13. up[0] = 0 /\ \A o \in Offset(h) : up[o] = pick(o, up[h.node[o].lc], up[h.node[o].rc])
  BY <1>7, <1>8, <1>11
<1> QED  BY <1>12, <1>13

(* succ() and pred(): the nearest payload beyond the range.                *)
LEMMA PredSuccIs ==
  ASSUME NEW h, HeapInv(h), Ranked(h), NEW lo, NEW hi, NEW sign
  PROVE  \E f : /\ f[0] = 0
                /\ \A o \in Offset(h) :
                     LET got == FinderCmp(h.node[o].key, lo, hi)
                         cmp == IF got = 0 THEN sign ELSE got
                         below == f[IF cmp < 0 THEN h.node[o].lc ELSE h.node[o].rc]
                     IN f[o] = IF below = 0 /\ cmp * sign < 0 THEN o ELSE below
                /\ \A root : PredSucc(h, root, lo, hi, sign) = f[root]
<1> DEFINE V == Offsets(h)
           got(o) == FinderCmp(h.node[o].key, lo, hi)
           cmp(o) == IF got(o) = 0 THEN sign ELSE got(o)
           below(o, a, b) == IF cmp(o) < 0 THEN a ELSE b
           pick(o, a, b) == IF below(o, a, b) = 0 /\ cmp(o) * sign < 0 THEN o
                            ELSE below(o, a, b)
           step == [o \in Offset(h) |-> [p \in V \X V |-> pick(o, p[1], p[2])]]
           read(o) == FinderCmp(Get(h, o).key, lo, hi)
           at(o) == IF read(o) = 0 THEN sign ELSE read(o)
           def(f) == [o \in V |->
             IF o = 0 THEN 0
             ELSE IF f[IF at(o) < 0 THEN Get(h, o).lc ELSE Get(h, o).rc] = 0
                     /\ at(o) * sign < 0
                  THEN o ELSE f[IF at(o) < 0 THEN Get(h, o).lc ELSE Get(h, o).rc]]
           up == CHOOSE f : f = def(f)
<1>1. step \in [Offset(h) -> [V \X V -> V]]
  <2>1. \A o \in Offset(h), p \in V \X V : pick(o, p[1], p[2]) \in V
    <3> HIDE DEF cmp
    <3> QED  BY HeapWays
  <2> HIDE DEF pick
  <2> QED  BY <2>1
<1>2. \A o \in Offset(h) : \A a, b \in V : step[o][<<a, b>>] = pick(o, a, b)
  <2> HIDE DEF cmp
  <2> QED  OBVIOUS
<1>3. 0 \in V /\ \A o \in V : o = 0 \/ o \in Offset(h)
  BY HeapWays
<1> HIDE DEF step
<1>4. PICK f \in [V -> V] : f[0] = 0 /\ \A o \in Offset(h) : Along(h, step, f, o)
  BY <1>1, <1>3, FoldExists
<1>5. \A o \in Offset(h) : f[o] = pick(o, f[h.node[o].lc], f[h.node[o].rc])
  <2> SUFFICES ASSUME NEW o \in Offset(h)
               PROVE  f[o] = pick(o, f[h.node[o].lc], f[h.node[o].rc])
    OBVIOUS
  <2>1. f[h.node[o].lc] \in V /\ f[h.node[o].rc] \in V
    BY <1>4, HeapWays
  <2>2. f[o] = step[o][<<f[h.node[o].lc], f[h.node[o].rc]>>]
    BY <1>4 DEF Along
  <2> HIDE DEF pick, V
  <2> QED  BY <1>2, <2>1, <2>2
<1>6. \A o \in Offset(h) : at(o) = cmp(o) /\ o \in V
  BY HeapWays
<1>7. \A g, o : o \in Offset(h) => def(g)[o] = pick(o, g[h.node[o].lc], g[h.node[o].rc])
  <2> SUFFICES ASSUME NEW g, NEW o \in Offset(h)
               PROVE  def(g)[o] = pick(o, g[h.node[o].lc], g[h.node[o].rc])
    OBVIOUS
  <2>1. o # 0 /\ Get(h, o).lc = h.node[o].lc /\ Get(h, o).rc = h.node[o].rc
    BY HeapWays
  <2> HIDE DEF cmp, at, V
  <2> QED  BY <1>6, <2>1
<1>8. \A g : def(g)[0] = 0
  BY <1>3
<1>9. \A o \in V : f[o] = def(f)[o]
  <2> HIDE DEF def, pick, V
  <2> QED  BY <1>3, <1>4, <1>5, <1>7, <1>8
<1>10. f = def(f)
  <2> HIDE DEF at, V
  <2> QED  BY <1>4, <1>9
<1>11. up = def(up)
  <2> HIDE DEF def
  <2> QED  BY <1>10
<1>12. \A root : PredSucc(h, root, lo, hi, sign) = up[root]
  BY DEF PredSucc, Null
<1> HIDE DEF up, def
<1>13. up[0] = 0 /\ \A o \in Offset(h) : up[o] = pick(o, up[h.node[o].lc], up[h.node[o].rc])
  BY <1>7, <1>8, <1>11
<1> QED  BY <1>12, <1>13

(* What the searches find in a labelled tree.                              *)
Fits(S, lo, hi) == {k \in S : lo <= k /\ k <= hi}
Beyond(S, lo, hi, sign) == {k \in S : IF sign = 1 THEN hi < k ELSE k < lo}

(* A node with a key of S, the one nothing of S is before, if S has any.   *)
OneOf(h, r, S) == IF S = {} THEN r = 0 ELSE r \in Offset(h) /\ h.node[r].key \in S
FirstOf(h, r, S, up) ==
  /\ OneOf(h, r, S)
  /\ r # 0 => \A x \in S : IF up THEN h.node[r].key <= x ELSE x <= h.node[r].key

LEMMA FindsOne ==
  ASSUME NEW h, HeapInv(h), Ranked(h), NEW c, Labelled(h, c), NEW root, Has(c, root),
         NEW lo \in Nat, NEW hi \in Nat, lo <= hi
  PROVE  OneOf(h, Find(h, root, lo, hi), Fits(Below(c, root), lo, hi))
<1>1. PICK f : /\ f[0] = 0
               /\ \A o \in Offset(h) :
                    LET cmp == FinderCmp(h.node[o].key, lo, hi)
                    IN f[o] = IF cmp = 0 THEN o
                              ELSE IF cmp < 0 THEN f[h.node[o].lc] ELSE f[h.node[o].rc]
               /\ \A o : Find(h, o, lo, hi) = f[o]
  BY FindIs
<1> DEFINE Told(o) == OneOf(h, f[o], Fits(Below(c, o), lo, hi))
           S == {o \in Offset(h) \cup {0} : Told(o)}
<1>2. Told(0)
  BY <1>1 DEF OneOf, Fits, Below
<1>3. ASSUME NEW o \in DOMAIN c, h.node[o].lc \in S, h.node[o].rc \in S
      PROVE  o \in S
  <2> DEFINE l == h.node[o].lc
             r == h.node[o].rc
             k == h.node[o].key
             cmp == FinderCmp(k, lo, hi)
  <2>1. /\ o \in Offset(h) /\ o # 0 /\ k \in Nat
        /\ \A x \in Below(c, l) : x \in Nat /\ x < k
        /\ \A x \in Below(c, r) : x \in Nat /\ k < x
        /\ \A x : x \in Below(c, o) <=> x \in Below(c, l) \/ x = k \/ x \in Below(c, r)
    BY NodeSorted
  <2>2. f[o] = IF cmp = 0 THEN o ELSE IF cmp < 0 THEN f[l] ELSE f[r]
    BY <1>1, <2>1
  <2>3. Told(l) /\ Told(r)
    BY <1>3
  <2>4. \/ cmp = -1 /\ hi < k
        \/ cmp = 1 /\ k < lo
        \/ cmp = 0 /\ lo <= k /\ k <= hi
    BY <2>1, CmpFinds
  <2>n. h.node[o].key = k
    OBVIOUS
  <2> HIDE DEF l, r, k, cmp
  <2>5. CASE cmp = -1 /\ hi < k
    <3>1. Fits(Below(c, o), lo, hi) = Fits(Below(c, l), lo, hi)
      BY <2>1, <2>5 DEF Fits
    <3> QED  BY <2>1, <2>2, <2>3, <2>5, <3>1
  <2>6. CASE cmp = 1 /\ k < lo
    <3>1. Fits(Below(c, o), lo, hi) = Fits(Below(c, r), lo, hi)
      BY <2>1, <2>6 DEF Fits
    <3> QED  BY <2>1, <2>2, <2>3, <2>6, <3>1
  <2>7. CASE cmp = 0 /\ lo <= k /\ k <= hi
    <3>1. k \in Fits(Below(c, o), lo, hi) /\ f[o] = o
      BY <2>1, <2>2, <2>7 DEF Fits
    <3> QED  BY <2>n, <2>1, <3>1 DEF OneOf
  <2> QED  BY <2>4, <2>5, <2>6, <2>7
<1> HIDE DEF Told
<1>4. 0 \in S /\ \A o \in DOMAIN c : h.node[o].lc \in S /\ h.node[o].rc \in S => o \in S
  BY <1>2, <1>3
<1> HIDE DEF S
<1>5. root \in S
  BY <1>4, TreeInduction
<1> QED  BY <1>1, <1>5 DEF S, Told

LEMMA FindsOutermost ==
  ASSUME NEW h, HeapInv(h), Ranked(h), NEW c, Labelled(h, c), NEW root, Has(c, root),
         NEW lo \in Nat, NEW hi \in Nat, lo <= hi, NEW side \in {-1, 1}
  PROVE  FirstOf(h, FindOutermost(h, root, lo, hi, side),
                 Fits(Below(c, root), lo, hi), side = -1)
<1>1. PICK f : /\ f[0] = 0
               /\ \A o \in Offset(h) :
                    LET cmp == FinderCmp(h.node[o].key, lo, hi)
                        outer == f[IF side < 0 THEN h.node[o].lc ELSE h.node[o].rc]
                    IN f[o] = IF cmp < 0 THEN f[h.node[o].lc]
                              ELSE IF cmp > 0 THEN f[h.node[o].rc]
                              ELSE IF outer # 0 THEN outer ELSE o
               /\ \A o : FindOutermost(h, o, lo, hi, side) = f[o]
  BY OutermostIs
<1> DEFINE Told(o) == FirstOf(h, f[o], Fits(Below(c, o), lo, hi), side = -1)
           S == {o \in Offset(h) \cup {0} : Told(o)}
<1>2. Told(0)
  BY <1>1 DEF FirstOf, OneOf, Fits, Below
<1>3. ASSUME NEW o \in DOMAIN c, h.node[o].lc \in S, h.node[o].rc \in S
      PROVE  o \in S
  <2> DEFINE l == h.node[o].lc
             r == h.node[o].rc
             k == h.node[o].key
             cmp == FinderCmp(k, lo, hi)
  <2>1. /\ o \in Offset(h) /\ o # 0 /\ k \in Nat
        /\ \A x \in Below(c, l) : x \in Nat /\ x < k
        /\ \A x \in Below(c, r) : x \in Nat /\ k < x
        /\ \A x : x \in Below(c, o) <=> x \in Below(c, l) \/ x = k \/ x \in Below(c, r)
    BY NodeSorted
  <2>2. f[o] = IF cmp < 0 THEN f[l] ELSE IF cmp > 0 THEN f[r]
               ELSE IF f[IF side < 0 THEN l ELSE r] # 0
                    THEN f[IF side < 0 THEN l ELSE r] ELSE o
    BY <1>1, <2>1
  <2>3. Told(l) /\ Told(r)
    BY <1>3
  <2>4. \/ cmp = -1 /\ hi < k
        \/ cmp = 1 /\ k < lo
        \/ cmp = 0 /\ lo <= k /\ k <= hi
    BY <2>1, CmpFinds
  <2>n. h.node[o].key = k /\ \A q \in Offset(h) : q # 0
    BY HeapWays
  <2> HIDE DEF l, r, k, cmp
  <2>5. CASE cmp = -1 /\ hi < k
    <3>1. Fits(Below(c, o), lo, hi) = Fits(Below(c, l), lo, hi)
      BY <2>1, <2>5 DEF Fits
    <3> QED  BY <2>1, <2>2, <2>3, <2>5, <3>1
  <2>6. CASE cmp = 1 /\ k < lo
    <3>1. Fits(Below(c, o), lo, hi) = Fits(Below(c, r), lo, hi)
      BY <2>1, <2>6 DEF Fits
    <3> QED  BY <2>1, <2>2, <2>3, <2>6, <3>1
  <2>7. CASE cmp = 0 /\ lo <= k /\ k <= hi
    <3> DEFINE here == Fits(Below(c, o), lo, hi)
               left == Fits(Below(c, l), lo, hi)
               right == Fits(Below(c, r), lo, hi)
    <3>1. /\ \A x : x \in here <=> x \in left \/ x = k \/ x \in right
          /\ \A x \in left : x \in Nat /\ x < k
          /\ \A x \in right : x \in Nat /\ k < x
      BY <2>1, <2>7 DEF Fits
    <3>2. /\ FirstOf(h, f[l], left, side = -1)
          /\ FirstOf(h, f[r], right, side = -1)
      BY <2>3
    <3> HIDE DEF here, left, right
    <3>3. CASE side = -1
      <4>1. f[o] = IF f[l] # 0 THEN f[l] ELSE o
        BY <2>2, <2>7, <3>3
      <4>2. /\ OneOf(h, f[l], left)
            /\ f[l] # 0 => \A x \in left : h.node[f[l]].key <= x
        BY <3>2, <3>3 DEF FirstOf
      <4>3. CASE f[l] = 0
        <5>1. left = {}
          BY <2>n, <4>2, <4>3 DEF OneOf
        <5> QED  BY <2>n, <2>1, <3>1, <3>3, <4>1, <4>3, <5>1 DEF FirstOf, OneOf, here
      <4>4. CASE f[l] # 0
        <5>1. left # {} /\ f[l] \in Offset(h) /\ h.node[f[l]].key \in left
          BY <4>2, <4>4 DEF OneOf
        <5>2. \A x \in here : h.node[f[l]].key <= x
          BY <2>1, <3>1, <4>2, <4>4, <5>1
        <5>3. f[o] = f[l] /\ h.node[f[l]].key \in here /\ here # {}
          BY <3>1, <4>1, <4>4, <5>1
        <5>4. OneOf(h, f[o], here)
          BY <5>1, <5>3 DEF OneOf
        <5>5. FirstOf(h, f[o], here, side = -1)
          BY <3>3, <5>2, <5>3, <5>4 DEF FirstOf
        <5> QED  BY <2>1, <5>5 DEF here
      <4> QED  BY <4>3, <4>4
    <3>4. CASE side = 1
      <4>1. f[o] = IF f[r] # 0 THEN f[r] ELSE o
        BY <2>2, <2>7, <3>4
      <4>2. /\ OneOf(h, f[r], right)
            /\ f[r] # 0 => \A x \in right : x <= h.node[f[r]].key
        BY <3>2, <3>4 DEF FirstOf
      <4>3. CASE f[r] = 0
        <5>1. right = {}
          BY <2>n, <4>2, <4>3 DEF OneOf
        <5> QED  BY <2>n, <2>1, <3>1, <3>4, <4>1, <4>3, <5>1 DEF FirstOf, OneOf, here
      <4>4. CASE f[r] # 0
        <5>1. right # {} /\ f[r] \in Offset(h) /\ h.node[f[r]].key \in right
          BY <4>2, <4>4 DEF OneOf
        <5>2. \A x \in here : x <= h.node[f[r]].key
          BY <2>1, <3>1, <4>2, <4>4, <5>1
        <5>3. f[o] = f[r] /\ h.node[f[r]].key \in here /\ here # {}
          BY <3>1, <4>1, <4>4, <5>1
        <5>4. OneOf(h, f[o], here)
          BY <5>1, <5>3 DEF OneOf
        <5>5. FirstOf(h, f[o], here, side = -1)
          BY <3>4, <5>2, <5>3, <5>4 DEF FirstOf
        <5> QED  BY <2>1, <5>5 DEF here
      <4> QED  BY <4>3, <4>4
    <3> QED  BY <3>3, <3>4
  <2> QED  BY <2>4, <2>5, <2>6, <2>7
<1> HIDE DEF Told
<1>4. 0 \in S /\ \A o \in DOMAIN c : h.node[o].lc \in S /\ h.node[o].rc \in S => o \in S
  BY <1>2, <1>3
<1> HIDE DEF S
<1>5. root \in S
  BY <1>4, TreeInduction
<1> QED  BY <1>1, <1>5 DEF S, Told

LEMMA FindsBeyond ==
  ASSUME NEW h, HeapInv(h), Ranked(h), NEW c, Labelled(h, c), NEW root, Has(c, root),
         NEW lo \in Nat, NEW hi \in Nat, lo <= hi, NEW sign \in {-1, 1}
  PROVE  FirstOf(h, PredSucc(h, root, lo, hi, sign),
                 Beyond(Below(c, root), lo, hi, sign), sign = 1)
<1>1. PICK f : /\ f[0] = 0
               /\ \A o \in Offset(h) :
                    LET got == FinderCmp(h.node[o].key, lo, hi)
                        cmp == IF got = 0 THEN sign ELSE got
                        below == f[IF cmp < 0 THEN h.node[o].lc ELSE h.node[o].rc]
                    IN f[o] = IF below = 0 /\ cmp * sign < 0 THEN o ELSE below
               /\ \A o : PredSucc(h, o, lo, hi, sign) = f[o]
  BY PredSuccIs
<1> DEFINE Told(o) == FirstOf(h, f[o], Beyond(Below(c, o), lo, hi, sign), sign = 1)
           S == {o \in Offset(h) \cup {0} : Told(o)}
<1>2. Told(0)
  BY <1>1 DEF FirstOf, OneOf, Beyond, Below
<1>3. ASSUME NEW o \in DOMAIN c, h.node[o].lc \in S, h.node[o].rc \in S
      PROVE  o \in S
  <2> DEFINE l == h.node[o].lc
             r == h.node[o].rc
             k == h.node[o].key
             got == FinderCmp(k, lo, hi)
             cmp == IF got = 0 THEN sign ELSE got
  <2>1. /\ o \in Offset(h) /\ o # 0 /\ k \in Nat
        /\ \A x \in Below(c, l) : x \in Nat /\ x < k
        /\ \A x \in Below(c, r) : x \in Nat /\ k < x
        /\ \A x : x \in Below(c, o) <=> x \in Below(c, l) \/ x = k \/ x \in Below(c, r)
    BY NodeSorted
  <2>2. f[o] = IF f[IF cmp < 0 THEN l ELSE r] = 0 /\ cmp * sign < 0 THEN o
               ELSE f[IF cmp < 0 THEN l ELSE r]
    BY <1>1, <2>1
  <2>3. Told(l) /\ Told(r)
    BY <1>3
  <2>4. \/ got = -1 /\ hi < k
        \/ got = 1 /\ k < lo
        \/ got = 0 /\ lo <= k /\ k <= hi
    BY <2>1, CmpFinds
  <2>n. h.node[o].key = k /\ \A q \in Offset(h) : q # 0
    BY HeapWays
  <2> DEFINE here == Beyond(Below(c, o), lo, hi, sign)
             left == Beyond(Below(c, l), lo, hi, sign)
             right == Beyond(Below(c, r), lo, hi, sign)
  <2>5. /\ FirstOf(h, f[l], left, sign = 1)
        /\ FirstOf(h, f[r], right, sign = 1)
    BY <2>3
  <2>6. /\ \A x : x \in here <=>
               \/ x \in left \/ x \in right
               \/ x = k /\ IF sign = 1 THEN hi < k ELSE k < lo
        /\ \A x \in left : x \in Nat /\ x < k
        /\ \A x \in right : x \in Nat /\ k < x
    <3> HIDE DEF l, r, k
    <3> QED  BY <2>1 DEF Beyond
  <2>7. CASE sign = 1
    <3>1. (cmp = -1 /\ hi < k) \/ (cmp = 1 /\ k <= hi)
      <4> HIDE DEF k, got
      <4> QED  BY <2>1, <2>4, <2>7
    <3>2. /\ OneOf(h, f[l], left) /\ OneOf(h, f[r], right)
          /\ f[l] # 0 => \A x \in left : h.node[f[l]].key <= x
          /\ f[r] # 0 => \A x \in right : h.node[f[r]].key <= x
      BY <2>5, <2>7 DEF FirstOf
    <3>3. k <= hi => left = {}
      <4>1. \A x \in left : hi < x /\ x < k /\ x \in Nat
        BY <2>6, <2>7 DEF Beyond
      <4> HIDE DEF left, k
      <4> QED  BY <2>1, <4>1
    <3> HIDE DEF l, r, k, cmp, here, left, right
    <3>4. CASE cmp = -1 /\ hi < k
      <4>1. f[o] = IF f[l] = 0 THEN o ELSE f[l]
        BY <2>2, <2>7, <3>4
      <4>2. CASE f[l] = 0
        <5>1. left = {} /\ h.node[f[o]].key = k /\ f[o] = o
          BY <2>n, <3>2, <4>1, <4>2 DEF OneOf
        <5>2. OneOf(h, f[o], here) /\ \A x \in here : h.node[f[o]].key <= x
          BY <2>1, <2>6, <2>7, <3>4, <5>1 DEF OneOf
        <5>3. FirstOf(h, f[o], here, sign = 1)
          BY <2>7, <5>2 DEF FirstOf
        <5> QED  BY <2>1, <5>3 DEF here
      <4>3. CASE f[l] # 0
        <5>1. left # {} /\ f[l] \in Offset(h) /\ h.node[f[l]].key \in left /\ f[o] = f[l]
          BY <3>2, <4>1, <4>3 DEF OneOf
        <5>2. \A x \in here : h.node[f[l]].key <= x
          BY <2>1, <2>6, <3>2, <4>3, <5>1
        <5>3. OneOf(h, f[o], here)
          BY <2>6, <5>1 DEF OneOf
        <5>4. FirstOf(h, f[o], here, sign = 1)
          BY <2>7, <5>1, <5>2, <5>3 DEF FirstOf
        <5> QED  BY <2>1, <5>4 DEF here
      <4> QED  BY <4>2, <4>3
    <3>5. CASE cmp = 1 /\ k <= hi
      <4>1. f[o] = f[r]
        BY <2>2, <2>7, <3>5
      <4>2. \A x : x \in here <=> x \in right
        BY <2>1, <2>6, <2>7, <3>3, <3>5
      <4>3. here = right
        BY <4>2
      <4> QED  BY <2>1, <2>5, <4>1, <4>3 DEF here
    <3> QED  BY <3>1, <3>4, <3>5
  <2>8. CASE sign = -1
    <3>1. (cmp = 1 /\ k < lo) \/ (cmp = -1 /\ lo <= k)
      <4> HIDE DEF k, got
      <4> QED  BY <2>1, <2>4, <2>8
    <3>2. /\ OneOf(h, f[l], left) /\ OneOf(h, f[r], right)
          /\ f[l] # 0 => \A x \in left : x <= h.node[f[l]].key
          /\ f[r] # 0 => \A x \in right : x <= h.node[f[r]].key
      BY <2>5, <2>8 DEF FirstOf
    <3>3. lo <= k => right = {}
      <4>1. \A x \in right : x < lo /\ k < x /\ x \in Nat
        BY <2>6, <2>8 DEF Beyond
      <4> HIDE DEF right, k
      <4> QED  BY <2>1, <4>1
    <3> HIDE DEF l, r, k, cmp, here, left, right
    <3>4. CASE cmp = 1 /\ k < lo
      <4>1. f[o] = IF f[r] = 0 THEN o ELSE f[r]
        BY <2>2, <2>8, <3>4
      <4>2. CASE f[r] = 0
        <5>1. right = {} /\ h.node[f[o]].key = k /\ f[o] = o
          BY <2>n, <3>2, <4>1, <4>2 DEF OneOf
        <5>2. OneOf(h, f[o], here) /\ \A x \in here : x <= h.node[f[o]].key
          BY <2>1, <2>6, <2>8, <3>4, <5>1 DEF OneOf
        <5>3. FirstOf(h, f[o], here, sign = 1)
          BY <2>8, <5>2 DEF FirstOf
        <5> QED  BY <2>1, <5>3 DEF here
      <4>3. CASE f[r] # 0
        <5>1. right # {} /\ f[r] \in Offset(h) /\ h.node[f[r]].key \in right /\ f[o] = f[r]
          BY <3>2, <4>1, <4>3 DEF OneOf
        <5>2. \A x \in here : x <= h.node[f[r]].key
          BY <2>1, <2>6, <3>2, <4>3, <5>1
        <5>3. OneOf(h, f[o], here)
          BY <2>6, <5>1 DEF OneOf
        <5>4. FirstOf(h, f[o], here, sign = 1)
          BY <2>8, <5>1, <5>2, <5>3 DEF FirstOf
        <5> QED  BY <2>1, <5>4 DEF here
      <4> QED  BY <4>2, <4>3
    <3>5. CASE cmp = -1 /\ lo <= k
      <4>1. f[o] = f[l]
        BY <2>2, <2>8, <3>5
      <4>2. \A x : x \in here <=> x \in left
        BY <2>1, <2>6, <2>8, <3>3, <3>5
      <4>3. here = left
        BY <4>2
      <4> QED  BY <2>1, <2>5, <4>1, <4>3 DEF here
    <3> QED  BY <3>1, <3>4, <3>5
  <2> QED  BY <2>7, <2>8
<1> HIDE DEF Told
<1>4. 0 \in S /\ \A o \in DOMAIN c : h.node[o].lc \in S /\ h.node[o].rc \in S => o \in S
  BY <1>2, <1>3
<1> HIDE DEF S
<1>5. root \in S
  BY <1>4, TreeInduction
<1> QED  BY <1>1, <1>5 DEF S, Told

LEMMA LeastIs ==
  ASSUME NEW S \in SUBSET Nat, NEW m \in S
  PROVE  /\ (\A x \in S : m <= x) => Min(S) = m
         /\ (\A x \in S : x <= m) => Max(S) = m
<1>1. \A q \in S : q <= m /\ m <= q => q = m
  OBVIOUS
<1>2. ASSUME \A x \in S : m <= x PROVE Min(S) = m
  <2>1. \E x \in S : \A y \in S : x <= y
    BY <1>2
  <2>2. Min(S) \in S /\ \A y \in S : Min(S) <= y
    BY <2>1, Zenon DEF Min
  <2> QED  BY <1>1, <1>2, <2>2, Zenon
<1>3. ASSUME \A x \in S : x <= m PROVE Max(S) = m
  <2>1. \E x \in S : \A y \in S : x >= y
    BY <1>3
  <2>2. Max(S) \in S /\ \A y \in S : Max(S) >= y
    BY <2>1, Zenon DEF Max
  <2>3. m <= Max(S)
    <3>1. \A q \in S : q >= m => m <= q
      OBVIOUS
    <3> QED  BY <2>2, <3>1, Zenon
  <2> QED  BY <1>1, <1>3, <2>2, <2>3, Zenon
<1> QED  BY <1>2, <1>3

LEMMA TreeSearched ==
  ASSUME NEW c, HeapInv(heap), Ranked(heap), Labelled(heap, c),
         NEW root, Has(c, root), NEW keys, keys = Below(c, root)
  PROVE  SearchesRight(root, keys)
<1>1. keys \in SUBSET Nat /\ NoKey \notin keys
  BY KeysAssumption DEF Has, Below, Labelled, NoKey
<1>2. SUFFICES ASSUME NEW lo \in Keys, NEW hi \in Keys, lo <= hi
               PROVE  LET key(o) == IF o = 0 THEN NoKey ELSE heap.node[o].key
                          found == key(Find(heap, root, lo, hi))
                          hits == {k \in keys : lo <= k /\ k <= hi}
                          above == {k \in keys : k > hi}
                          below == {k \in keys : k < lo}
                          least(s) == IF s = {} THEN NoKey ELSE Min(s)
                          most(s) == IF s = {} THEN NoKey ELSE Max(s)
                      IN /\ IF hits = {} THEN found = NoKey ELSE found \in hits
                         /\ key(FindLeftmost(heap, root, lo, hi)) = least(hits)
                         /\ key(FindRightmost(heap, root, lo, hi)) = most(hits)
                         /\ key(Succ(heap, root, lo, hi)) = least(above)
                         /\ key(Pred(heap, root, lo, hi)) = most(below)
  BY DEF SearchesRight, Null
<1>3. lo \in Nat /\ hi \in Nat /\ \A q \in Offset(heap) : q # 0
  BY KeysAssumption, HeapWays
<1> DEFINE key(o) == IF o = 0 THEN NoKey ELSE heap.node[o].key
           hits == {k \in keys : lo <= k /\ k <= hi}
           above == {k \in keys : k > hi}
           below == {k \in keys : k < lo}
           least(s) == IF s = {} THEN NoKey ELSE Min(s)
           most(s) == IF s = {} THEN NoKey ELSE Max(s)
<1>4. /\ hits \in SUBSET Nat /\ above \in SUBSET Nat /\ below \in SUBSET Nat
      /\ Fits(keys, lo, hi) = hits
      /\ Beyond(keys, lo, hi, 1) = above /\ Beyond(keys, lo, hi, -1) = below
  BY <1>1, <1>3 DEF Fits, Beyond
<1> HIDE DEF hits, above, below
<1>5. ASSUME NEW S \in SUBSET Nat, NEW r, OneOf(heap, r, S)
      PROVE  /\ IF S = {} THEN key(r) = NoKey ELSE key(r) \in S
             /\ (r # 0 => \A x \in S : heap.node[r].key <= x) => key(r) = least(S)
             /\ (r # 0 => \A x \in S : x <= heap.node[r].key) => key(r) = most(S)
  <2>1. CASE S = {}
    BY <1>5, <2>1 DEF OneOf
  <2>2. CASE S # {}
    <3>1. r # 0 /\ heap.node[r].key \in S
      BY <1>3, <1>5, <2>2 DEF OneOf
    <3> DEFINE m == heap.node[r].key
    <3> HIDE DEF m
    <3>2. m \in S /\ key(r) = m /\ heap.node[r].key = m
      BY <3>1 DEF m
    <3> QED  BY <2>2, <3>1, <3>2, LeastIs
  <2> QED  BY <2>1, <2>2
<1> HIDE DEF key, least, most
<1>6. IF hits = {} THEN key(Find(heap, root, lo, hi)) = NoKey
      ELSE key(Find(heap, root, lo, hi)) \in hits
  <2>1. OneOf(heap, Find(heap, root, lo, hi), hits)
    BY <1>2, <1>3, <1>4, FindsOne
  <2> QED  BY <1>4, <1>5, <2>1
<1>7. key(FindLeftmost(heap, root, lo, hi)) = least(hits)
  <2> DEFINE r == FindOutermost(heap, root, lo, hi, -1)
  <2>1. FirstOf(heap, r, hits, -1 = -1)
    BY <1>2, <1>3, <1>4, FindsOutermost
  <2>2. FindLeftmost(heap, root, lo, hi) = r
    BY DEF FindLeftmost
  <2> HIDE DEF r
  <2>3. OneOf(heap, r, hits) /\ (r # 0 => \A x \in hits : heap.node[r].key <= x)
    BY <2>1 DEF FirstOf
  <2> QED  BY <1>4, <1>5, <2>2, <2>3
<1>8. key(FindRightmost(heap, root, lo, hi)) = most(hits)
  <2> DEFINE r == FindOutermost(heap, root, lo, hi, 1)
  <2>1. FirstOf(heap, r, hits, 1 = -1)
    BY <1>2, <1>3, <1>4, FindsOutermost
  <2>2. FindRightmost(heap, root, lo, hi) = r
    BY DEF FindRightmost
  <2> HIDE DEF r
  <2>3. OneOf(heap, r, hits) /\ (r # 0 => \A x \in hits : x <= heap.node[r].key)
    BY <2>1 DEF FirstOf
  <2> QED  BY <1>4, <1>5, <2>2, <2>3
<1>9. key(Succ(heap, root, lo, hi)) = least(above)
  <2> DEFINE r == PredSucc(heap, root, lo, hi, 1)
  <2>1. FirstOf(heap, r, above, 1 = 1)
    BY <1>2, <1>3, <1>4, FindsBeyond
  <2>2. Succ(heap, root, lo, hi) = r
    BY DEF Succ
  <2> HIDE DEF r
  <2>3. OneOf(heap, r, above) /\ (r # 0 => \A x \in above : heap.node[r].key <= x)
    BY <2>1 DEF FirstOf
  <2> QED  BY <1>4, <1>5, <2>2, <2>3
<1>10. key(Pred(heap, root, lo, hi)) = most(below)
  <2> DEFINE r == PredSucc(heap, root, lo, hi, -1)
  <2>1. FirstOf(heap, r, below, -1 = 1)
    BY <1>2, <1>3, <1>4, FindsBeyond
  <2>2. Pred(heap, root, lo, hi) = r
    BY DEF Pred
  <2> HIDE DEF r
  <2>3. OneOf(heap, r, below) /\ (r # 0 => \A x \in below : x <= heap.node[r].key)
    BY <2>1 DEF FirstOf
  <2> QED  BY <1>4, <1>5, <2>2, <2>3
<1> QED  BY <1>6, <1>7, <1>8, <1>9, <1>10 DEF key, least, most, hits, above, below

(* The roots the caller holds lead to what it put in.                      *)
LEMMA RootsLead ==
  ASSUME IInv, NEW c, PiecesAre(c)
  PROVE  /\ HeapInv(heap) /\ Ranked(heap) /\ Labelled(heap, c)
         /\ \A t \in Trees : ~(Busy /\ call.tree = t) =>
              Has(c, roots[t]) /\ Below(c, roots[t]) = kept[t]
         /\ \A i \in DOMAIN snaps, t \in Trees :
              /\ Has(c, snaps[i].root[t])
              /\ Below(c, snaps[i].root[t]) = snaps[i].keys[t]
<1>1. Grove(heap, c, Held) /\ OthersOK(c) /\ SavedOK(c)
  BY DEF PiecesAre
<1>2. HeldOnce(heap, c, Held) /\ HeapInv(heap) /\ Ranked(heap) /\ Labelled(heap, c)
  BY <1>1 DEF Grove, Forest
<1>3. DOMAIN snaps = 1 .. Len(snaps)
  BY HeapNow DEF CallerOK
<1>4. \A t \in Trees : ~(Busy /\ call.tree = t) => Has(c, roots[t])
  BY <1>2, HeldAt DEF HeldOnce
<1> QED  BY <1>1, <1>2, <1>3, <1>4 DEF OthersOK, SavedOK

LEMMA Answers == ASSUME IInv, TreesOK PROVE AnswersTrue
<1>1. PICK c : TreesAre(c)
  BY DEF TreesOK
<1>2. PiecesAre(c) /\ OperationOK(c)
  BY <1>1 DEF TreesAre
<1>3. SearchesCorrect
  <2> SUFFICES ASSUME pc = "idle"
               PROVE  /\ \A t \in Trees : SearchesRight(roots[t], kept[t])
                      /\ \A i \in DOMAIN snaps, t \in Trees :
                           SearchesRight(snaps[i].root[t], snaps[i].keys[t])
    BY DEF SearchesCorrect, Idle
  <2>1. ~Busy
    BY DEF Busy
  <2> QED  BY <1>2, <2>1, RootsLead, TreeSearched
<1>4. RemoveReportsTruth
  <2> SUFFICES ASSUME pc = "unwind", call.op = "remove", stack = <<>>
               PROVE  LET hits == {k \in kept[call.tree] : call.lo <= k /\ k <= call.hi}
                      IN IF removed.offset = 0 THEN hits = {} ELSE removed.key \in hits
    BY DEF RemoveReportsTruth, Null
  <2>1. Removed(c)
    BY <1>2 DEF OperationOK, RemoveOK, Busy
  <2> QED  BY <2>1 DEF Removed, Hit
<1> QED  BY <1>3, <1>4 DEF AnswersTrue

(***************************************************************************)
(* What the tree code answers is the truth about what the caller put in:   *)
(* find(), find_leftmost(), find_rightmost(), pred() and succ() on every   *)
(* live and every saved tree, and what remove() reports to have removed.   *)
(***************************************************************************)
THEOREM AnswersAreTrue == ASSUME ~Refcounting PROVE Spec => []AnswersTrue
<1>1. Init => IInv /\ TreesOK
  BY InitInv, Starts
<1>2. IInv /\ TreesOK /\ [Next]_vars => IInv' /\ TreesOK'
  BY NextInv, TreesNext
<1>3. IInv /\ TreesOK => AnswersTrue
  BY Answers
<1> QED  BY <1>1, <1>2, <1>3, PTL DEF Spec

-----------------------------------------------------------------------------
(***************************************************************************)
(* The trees are sets: the refinement of PersistentSets.  What reading the *)
(* heap gives is what the caller put in, in every state, so a step that    *)
(* changes the one changes the other.                                      *)
(***************************************************************************)
AbsSets ==
  [t \in Trees |->
     IF pc \notin {"idle", "free"} /\ call.tree = t THEN kept[t]
     ELSE Contents(heap, roots[t])]
AbsSaved ==
  [i \in DOMAIN snaps |-> [t \in Trees |-> Contents(heap, snaps[i].root[t])]]

KeptSaved == [i \in DOMAIN snaps |-> snaps[i].keys]

ReadsKept == AbsSets = kept /\ AbsSaved = KeptSaved

LEMMA ReadsWhatIsKept == ASSUME ~Refcounting, IInv, TreesOK PROVE ReadsKept
<1>1. PICK c : PiecesAre(c)
  BY DEF TreesOK, TreesAre
<1>2. /\ HeapInv(heap) /\ Ranked(heap) /\ Labelled(heap, c)
      /\ \A t \in Trees : ~(Busy /\ call.tree = t) =>
           Has(c, roots[t]) /\ Below(c, roots[t]) = kept[t]
      /\ \A i \in DOMAIN snaps, t \in Trees :
           /\ Has(c, snaps[i].root[t])
           /\ Below(c, snaps[i].root[t]) = snaps[i].keys[t]
  BY <1>1, RootsLead
<1>3. kept \in [Trees -> SUBSET Keys] /\ snaps \in Seq(Snap)
  BY HeapNow DEF CallerOK
<1>4. ASSUME NEW t \in Trees, ~(Busy /\ call.tree = t)
      PROVE  Contents(heap, roots[t]) = kept[t]
  <2>1. Has(c, roots[t]) /\ Below(c, roots[t]) = kept[t]
    BY <1>2, <1>4
  <2> QED  BY <1>2, <2>1, ContentsAre
<1>5. \A t \in Trees : Busy /\ call.tree = t <=> pc \notin {"idle", "free"} /\ call.tree = t
  BY HeapNow DEF CallOK, PathOK, Busy
<1>6. \A t \in Trees : AbsSets[t] = kept[t]
  BY <1>4, <1>5 DEF AbsSets
<1>7. AbsSets = kept
  <2>1. AbsSets = [t \in Trees |-> AbsSets[t]]
    BY DEF AbsSets
  <2> QED  BY <1>3, <1>6, <2>1
<1>8. ASSUME NEW i \in DOMAIN snaps
      PROVE  [t \in Trees |-> Contents(heap, snaps[i].root[t])] = snaps[i].keys
  <2>0. snaps[i] \in Snap
    BY <1>3
  <2>1. snaps[i].keys \in [Trees -> SUBSET Keys]
    BY <2>0 DEF Snap
  <2>2. \A t \in Trees : Contents(heap, snaps[i].root[t]) = snaps[i].keys[t]
    BY <1>2, ContentsAre
  <2> QED  BY <2>1, <2>2
<1>9. AbsSaved = KeptSaved
  BY <1>8, Zenon DEF AbsSaved, KeptSaved
<1> QED  BY <1>7, <1>9 DEF ReadsKept

(* What an operation changes of what the caller keeps.                     *)
LEMMA KeptBy ==
  ASSUME ~Refcounting, IInv, TreesOK, [Next]_vars
  PROVE  \/ kept' = kept /\ snaps' = snaps
         \/ /\ \E t \in Trees, k \in Keys :
                 \/ k \notin kept[t] /\ kept' = [kept EXCEPT ![t] = @ \cup {k}]
                 \/ k \in kept[t] /\ kept' = [kept EXCEPT ![t] = @ \ {k}]
            /\ snaps' = snaps
         \/ kept' = kept /\ snaps' = Append(snaps, [root |-> roots, keys |-> kept])
<1>1. PICK c : TreesAre(c)
  BY DEF TreesOK
<1>2. kept \in [Trees -> SUBSET Keys] /\ PathOK /\ CallOK(heap.next)
  BY HeapNow DEF CallerOK
<1>3. CASE InsertReturn
  <2>1. /\ pc = "unwind" /\ call.op = "insert" /\ snaps' = snaps
        /\ kept' = [kept EXCEPT ![call.tree] = @ \cup {call.lo}]
    BY <1>3 DEF InsertReturn
  <2>2. call.tree \in Trees /\ call.lo \in Keys
    BY <1>2, <2>1 DEF CallOK
  <2>3. call.lo \notin kept[call.tree]
    BY <1>1, <2>1 DEF TreesAre, OperationOK, InsertOK, Busy
  <2> QED  BY <2>1, <2>2, <2>3
<1>4. CASE RemoveReturn
  <2>1. /\ pc = "unwind" /\ call.op = "remove" /\ snaps' = snaps
        /\ kept' = [kept EXCEPT ![call.tree] = @ \ {removed.key}]
    BY <1>4 DEF RemoveReturn
  <2>2. Removed(c) /\ call.tree \in Trees
    BY <1>1, <2>1 DEF TreesAre, OperationOK, RemoveOK, Busy, PiecesAre, LevelsOK
  <2>3. CASE removed.offset = 0
    <3>1. removed.key = NoKey /\ NoKey \notin kept[call.tree]
      BY <1>2, <2>2, <2>3, KeysAssumption DEF Removed, NoKey
    <3>2. kept' = kept
      BY <1>2, <2>1, <2>2, <3>1
    <3> QED  BY <2>1, <3>2
  <2>4. CASE removed.offset # 0
    <3>1. removed.key \in kept[call.tree] /\ removed.key \in Keys
      BY <1>2, <2>2, <2>4 DEF Removed
    <3> QED  BY <2>1, <2>2, <3>1
  <2> QED  BY <2>3, <2>4
<1>5. CASE Commit
  BY <1>5 DEF Commit
<1>6. ASSUME Step, ~InsertReturn, ~RemoveReturn PROVE kept' = kept /\ snaps' = snaps
  BY <1>6 DEF Step, InsertDescend, InsertAtNull, InsertUnwind, RemoveNotFound,
     RemoveDescend, RemoveHere, RemoveTwoChildren, RemoveUnwindSame, RemoveUnwind,
     RemoveUnwindReplace, FreeNode, PushFree, FreeReturn, ReturnLevel
<1>7. ASSUME NEW t \in Trees, NEW k \in Keys, BeginInsert(t, k)
      PROVE  kept' = kept /\ snaps' = snaps
  BY <1>7 DEF BeginInsert
<1>8. ASSUME NEW t \in Trees, NEW f \in Finders, BeginRemove(t, f[1], f[2])
      PROVE  kept' = kept /\ snaps' = snaps
  BY <1>8 DEF BeginRemove
<1>9. ASSUME UNCHANGED vars PROVE kept' = kept /\ snaps' = snaps
  BY <1>9 DEF vars
<1> QED
  BY <1>3, <1>4, <1>5, <1>6, <1>7, <1>8, <1>9 DEF Next, CloneTree, FreeTree, ReadOnly

LEMMA StepsRefine ==
  ASSUME ~Refcounting, IInv, TreesOK, [Next]_vars, ReadsKept, ReadsKept'
  PROVE  [Abstract!Next]_(Abstract!vars)
<1>1. AbsSets = kept /\ AbsSets' = kept' /\ AbsSaved = KeptSaved /\ AbsSaved' = KeptSaved'
  BY DEF ReadsKept
<1> SUFFICES \/ \E t \in Trees, k \in Keys :
                  \/ /\ k \notin AbsSets[t]
                     /\ AbsSets' = [AbsSets EXCEPT ![t] = @ \cup {k}]
                     /\ AbsSaved' = AbsSaved
                  \/ /\ k \in AbsSets[t]
                     /\ AbsSets' = [AbsSets EXCEPT ![t] = @ \ {k}]
                     /\ AbsSaved' = AbsSaved
             \/ AbsSaved' = Append(AbsSaved, AbsSets) /\ AbsSets' = AbsSets
             \/ AbsSets' = AbsSets /\ AbsSaved' = AbsSaved
  BY DEF Abstract!Next, Abstract!Insert, Abstract!Remove, Abstract!Commit, Abstract!vars,
     AbsSets, AbsSaved
<1>2. CASE kept' = kept /\ snaps' = snaps
  BY <1>1, <1>2 DEF KeptSaved
<1>3. CASE /\ \E t \in Trees, k \in Keys :
                \/ k \notin kept[t] /\ kept' = [kept EXCEPT ![t] = @ \cup {k}]
                \/ k \in kept[t] /\ kept' = [kept EXCEPT ![t] = @ \ {k}]
           /\ snaps' = snaps
  <2>1. AbsSaved' = AbsSaved
    BY <1>1, <1>3 DEF KeptSaved
  <2> QED  BY <1>1, <1>3, <2>1
<1>4. CASE kept' = kept /\ snaps' = Append(snaps, [root |-> roots, keys |-> kept])
  <2> DEFINE s == [root |-> roots, keys |-> kept]
             n == Len(snaps)
  <2>1. /\ snaps \in Seq(Snap) /\ roots \in [Trees -> Nat]
        /\ kept \in [Trees -> SUBSET Keys]
    BY HeapNow DEF CallerOK
  <2>2. /\ n \in Nat /\ DOMAIN snaps = 1 .. n /\ DOMAIN snaps' = 1 .. (n + 1)
        /\ \A i \in 1 .. (n + 1) : snaps'[i] = IF i = n + 1 THEN s ELSE snaps[i]
    <3> HIDE DEF s
    <3> QED  BY <1>4, <2>1 DEF s
  <2>3. \A i \in 1 .. (n + 1) :
          snaps'[i].keys = IF i = n + 1 THEN kept ELSE snaps[i].keys
    BY <2>2
  <2>4. /\ KeptSaved = [i \in 1 .. n |-> snaps[i].keys]
        /\ KeptSaved' = [i \in 1 .. (n + 1) |-> snaps'[i].keys]
    BY <2>2, Zenon DEF KeptSaved
  <2>5. KeptSaved \in Seq([Trees -> SUBSET Keys]) /\ Len(KeptSaved) = n
    <3>0. \A i \in 1 .. n : snaps[i] \in Snap
      BY <2>1, <2>2
    <3>1. \A i \in 1 .. n : snaps[i].keys \in [Trees -> SUBSET Keys]
      BY <3>0 DEF Snap
    <3> HIDE DEF n
    <3> QED  BY <2>2, <2>4, <3>1
  <2> HIDE DEF n
  <2>6. Append(KeptSaved, kept) =
          [i \in 1 .. (n + 1) |-> IF i = n + 1 THEN kept ELSE KeptSaved[i]]
    <3> DEFINE T == [Trees -> SUBSET Keys]
               all == Append(KeptSaved, kept)
               put(i) == IF i = n + 1 THEN kept ELSE KeptSaved[i]
    <3>1. KeptSaved \in Seq(T) /\ kept \in T
      BY <2>1, <2>5
    <3> HIDE DEF T
    <3>2. all \in Seq(T) /\ Len(all) = n + 1 /\ \A i \in 1 .. (n + 1) : all[i] = put(i)
      BY <2>5, <3>1
    <3>3. all = [i \in 1 .. (n + 1) |-> all[i]]
      <4> HIDE DEF all
      <4> QED  BY <3>2
    <3> HIDE DEF all, put
    <3>4. all = [i \in 1 .. (n + 1) |-> put(i)]
      BY <3>2, <3>3
    <3> QED  BY <3>4 DEF all, put
  <2>7. \A i \in 1 .. (n + 1) :
          snaps'[i].keys = IF i = n + 1 THEN kept ELSE KeptSaved[i]
    <3>1. \A i \in 1 .. (n + 1) : i # n + 1 => i \in 1 .. n
      BY <2>2
    <3> QED  BY <2>3, <2>4, <3>1
  <2>8. KeptSaved' = Append(KeptSaved, kept)
    BY <2>4, <2>6, <2>7
  <2> QED  BY <1>1, <1>4, <2>8
<1> QED  BY <1>2, <1>3, <1>4, KeptBy

LEMMA StartsAsSets == ASSUME Init, ReadsKept PROVE Abstract!Init
<1>1. AbsSets = [t \in Trees |-> {}] /\ AbsSaved = <<>>
  <2>1. kept = [t \in Trees |-> {}] /\ snaps = <<>>
    BY DEF Init
  <2>2. KeptSaved = <<>>
    BY <2>1 DEF KeptSaved
  <2> QED  BY <2>1, <2>2 DEF ReadsKept
<1> QED  BY <1>1 DEF Abstract!Init, AbsSets, AbsSaved

(***************************************************************************)
(* The trees of hwm mode are persistent sets: each holds what its owner    *)
(* put in and did not take out, an update of one changes no other, and the *)
(* trees saved at a commit() stay as they were for ever (disktree.hh).     *)
(***************************************************************************)
THEOREM TreesImplementSets == ASSUME ~Refcounting PROVE Spec => ImplementsSets
<1>1. Init => IInv /\ TreesOK
  BY InitInv, Starts
<1>2. IInv /\ TreesOK /\ [Next]_vars => IInv' /\ TreesOK'
  BY NextInv, TreesNext
<1>3. IInv /\ TreesOK => ReadsKept
  BY ReadsWhatIsKept
<1>4. Init /\ ReadsKept => Abstract!Init
  BY StartsAsSets
<1>5. IInv /\ TreesOK /\ [Next]_vars /\ ReadsKept /\ ReadsKept'
        => [Abstract!Next]_(Abstract!vars)
  BY StepsRefine
<1> QED  BY <1>1, <1>2, <1>3, <1>4, <1>5, PTL DEF Spec, ImplementsSets, Abstract!Spec
=============================================================================
