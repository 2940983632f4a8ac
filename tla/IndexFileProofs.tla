--------------------------- MODULE IndexFileProofs ---------------------------
(***************************************************************************)
(* What holds of index files for any number of tools, runs, seconds and    *)
(* versions of the trace, and for indexes of any size:                     *)
(*                                                                         *)
(*   TypeCorrect       every variable keeps its type;                      *)
(*   NeverSpoilt       a whole index stays whole, unless two runs have its *)
(*                     file open for writing at the same time;             *)
(*   BuiltIsRead       a tool that built an index without being disturbed  *)
(*                     reads that very index;                              *)
(*   OpenedIsSound     the index that a tool opens is whole, and not older *)
(*                     than the trace (OpenedWhole and NoOlderThanTrace).  *)
(*                                                                         *)
(* The inductive invariant says what a run that is alone with its file     *)
(* knows of it: how long it is, that nothing is stored yet beyond what the *)
(* run has allocated, and where its header and its parts are.  It also     *)
(* says that the number of a run, which will name the inode it may create, *)
(* is in nobody's use before.                                              *)
(***************************************************************************)
EXTENDS IndexFile, TLAPS

Early == {"stat", "check", "remove", "create"}

\* No file has been created under this number.
NotMade(i) ==
    /\ file[i].cells = << >>
    /\ name # i
    /\ i \notin overlap
    /\ \A u \in Tool : tool[u].pc \in Writing => tool[u].inode # i

RunsFresh ==
    /\ \A i \in Run : i > runs => NotMade(i)
    /\ \A t \in Tool : tool[t].pc \notin Idle => tool[t].run \in 1 .. runs
    /\ \A t \in Tool : tool[t].pc \in Early => NotMade(tool[t].run)
    /\ \A t, u \in Tool :
          t # u /\ tool[t].pc \notin Idle /\ tool[u].pc \notin Idle
          => tool[t].run # tool[u].run

\* A tool that writes has an inode, and as many parts as it should have.
Proper ==
    \A t \in Tool :
        /\ tool[t].pc \in Writing => tool[t].inode \in Run
        /\ tool[t].pc \in Early \cup {"header"} => tool[t].parts = << >>
        /\ tool[t].pc = "part" => Len(tool[t].parts) < Parts
        /\ tool[t].pc \in {"flags", "roots", "close"} => Len(tool[t].parts) = Parts
        /\ tool[t].pc \in Writing \ {"header"} => tool[t].header # 0

\* Tool t is the only one to write to the inode it has open.
Sole(t) ==
    \A u \in Tool : u # t /\ tool[u].pc \in Writing
                        => tool[u].inode # tool[t].inode

\* What a tool in state r, alone with a file of these cells, knows of it.
Knows(r, cells) ==
    /\ r.next <= r.size
    /\ Len(cells) = r.size
    /\ \A p \in 1 .. Len(cells) : p > r.next => cells[p] = Zero
    /\ r.pc # "header" => /\ r.header \in 1 .. r.next
                          /\ cells[r.header].kind = "header"
    /\ MadeBy(r.run, cells, r.parts)
    /\ \A k \in 1 .. Len(r.parts) : r.parts[k] <= r.next

Alone(t) == tool[t].pc \in Writing /\ tool[t].inode \notin overlap

AloneKnows ==
    \A t \in Tool : Alone(t) => /\ Sole(t)
                                /\ Knows(tool[t], file[tool[t].inode].cells)

Inv == TypeOK /\ Proper /\ RunsFresh /\ AloneKnows
-----------------------------------------------------------------------------
(* A tool that nobody disturbs, in state r with its inode's cells, when the *)
(* name leads to nm and ov are the inodes that were shared.  While it       *)
(* builds, the name leads to its own file, whose first cell is its header;  *)
(* afterwards the header leads to all of its parts.                         *)

Built == Writing \cup {"open", "reading"}

Undisturbed(r, cells, nm, ov) ==
    /\ r.pc \in Writing \cup {"open"} => nm = r.inode /\ r.inode \in Run
    /\ r.pc \in Writing => r.inode \notin ov
    /\ r.pc = "header" => r.next = 0
    /\ r.pc \in Writing \ {"header"} => r.header = 1
    /\ r.pc = "close" => cells[1].roots = r.parts
    /\ r.pc = "open" => /\ cells # << >>
                        /\ cells[1].kind = "header"
                        /\ cells[1].roots = r.parts
                        /\ Len(r.parts) = Parts
                        /\ MadeBy(r.run, cells, r.parts)
    /\ r.pc = "reading" => /\ Len(r.roots) = Parts
                           /\ MadeBy(r.run, cells, r.roots)

Own(r, cells, nm, ov) ==
    /\ r.built => r.pc \in Built
    /\ ~r.disturbed /\ r.pc = "create" => nm = None
    /\ ~r.disturbed /\ r.built => Undisturbed(r, cells, nm, ov)

OwnIndex ==
    \A t \in Tool : Own(tool[t], file[tool[t].inode].cells, name, overlap)

-----------------------------------------------------------------------------
(* Cells.                                                                  *)

LEMMA LenAsDomain ==
    ASSUME NEW S, NEW n \in Nat, NEW s \in [1 .. n -> S]
    PROVE  s \in Seq(S) /\ Len(s) = n
<1>1. s \in Seq(S)  OBVIOUS
<1>2. DOMAIN s = 1 .. Len(s) /\ Len(s) \in Nat  BY <1>1
<1>3. 1 .. n = 1 .. Len(s)  BY <1>2
<1>4. n = Len(s)
  <2>1. n <= Len(s)  BY <1>2, <1>3
  <2>2. Len(s) <= n  BY <1>2, <1>3
  <2> QED  BY <1>2, <2>1, <2>2
<1> QED  BY <1>1, <1>4

LEMMA CellsTruncated ==
    ASSUME NEW cells \in Seq(Cell), NEW n \in Nat
    PROVE  /\ Truncated(cells, n) \in Seq(Cell)
           /\ Len(Truncated(cells, n)) = n
           /\ \A p \in 1 .. n : Truncated(cells, n)[p] =
                  IF p <= Len(cells) THEN cells[p] ELSE Zero
<1>1. Zero \in Cell  BY DEF Zero, Cell
<1>2. \A p \in 1 .. n : p <= Len(cells) => cells[p] \in Cell  OBVIOUS
<1>3. Truncated(cells, n) \in [1 .. n -> Cell]  BY <1>1, <1>2 DEF Truncated
<1>4. Truncated(cells, n) \in Seq(Cell) /\ Len(Truncated(cells, n)) = n
  BY <1>3, LenAsDomain
<1>5. \A p \in 1 .. n : Truncated(cells, n)[p] =
         IF p <= Len(cells) THEN cells[p] ELSE Zero
  BY DEF Truncated
<1> QED  BY <1>4, <1>5

LEMMA CellsStored ==
    ASSUME NEW cells \in Seq(Cell), NEW p \in 1 .. Len(cells), NEW c \in Cell
    PROVE  /\ [cells EXCEPT ![p] = c] \in Seq(Cell)
           /\ Len([cells EXCEPT ![p] = c]) = Len(cells)
           /\ \A q \in 1 .. Len(cells) :
                  [cells EXCEPT ![p] = c][q] = IF q = p THEN c ELSE cells[q]
OBVIOUS

LEMMA HeaderIsCell ==
    ASSUME NEW b \in BOOLEAN, NEW x \in Seq(Nat)
    PROVE  Header(b, x) \in Cell
BY DEF Header, Cell

LEMMA PartIsCell ==
    ASSUME NEW r \in Run, NEW k \in 1 .. Parts, NEW v \in Nat
    PROVE  Part(r, k, v) \in Cell
BY DEF Part, Cell

LEMMA HeaderAtType ==
    ASSUME NEW cells \in Seq(Cell), NEW p \in Nat \ {0}
    PROVE  /\ HeaderAt(cells, p).complete \in BOOLEAN
           /\ HeaderAt(cells, p).roots \in Seq(Nat)
<1>1. CASE p <= Len(cells) /\ cells[p].kind = "header"
  <2>1. cells[p] \in Cell  BY <1>1
  <2>2. cells[p] \in [kind : {"header"}, complete : BOOLEAN, roots : Seq(Nat)]
    BY <1>1, <2>1 DEF Cell
  <2> QED  BY <1>1, <2>2 DEF HeaderAt
<1>2. CASE ~(p <= Len(cells) /\ cells[p].kind = "header")
  <2>1. HeaderAt(cells, p) = Header(FALSE, << >>)  BY <1>2 DEF HeaderAt
  <2>2. << >> \in Seq(Nat)  OBVIOUS
  <2> QED  BY <2>1, <2>2 DEF Header
<1> QED  BY <1>1, <1>2

\* What a run has made stays where it is when other cells are written ...
LEMMA MadeStays ==
    ASSUME NEW cells \in Seq(Cell), NEW new \in Seq(Cell), NEW r, NEW x \in Seq(Nat),
           MadeBy(r, cells, x),
           \A k \in 1 .. Len(x) : x[k] <= Len(new) /\ new[x[k]] = cells[x[k]]
    PROVE  MadeBy(r, new, x)
BY DEF MadeBy

\* ... and so does a whole index.
LEMMA WholeStays ==
    ASSUME NEW cells \in Seq(Cell), NEW new \in Seq(Cell), Whole(cells),
           Len(new) > 0, new[1] = cells[1],
           \A p \in 1 .. Len(cells) :
               cells[p].kind = "part" => p <= Len(new) /\ new[p] = cells[p]
    PROVE  Whole(new)
<1> DEFINE x == cells[1].roots
<1>1. cells # << >> /\ cells[1].kind = "header" /\ cells[1].complete
  BY DEF Whole
<1>2. cells[1] \in Cell  BY <1>1
<1>3. x \in Seq(Nat)  BY <1>1, <1>2 DEF Cell
<1>4. Len(x) = Parts /\ \E r \in Run : MadeBy(r, cells, x)  BY DEF Whole, Leads
<1>5. PICK r \in Run : MadeBy(r, cells, x)  BY <1>4
<1>6. \A k \in 1 .. Len(x) : x[k] <= Len(new) /\ new[x[k]] = cells[x[k]]
  BY <1>5 DEF MadeBy
<1> HIDE DEF x
<1>7. MadeBy(r, new, x)  BY <1>3, <1>5, <1>6, MadeStays
<1>8. Leads(new, x)  BY <1>4, <1>7 DEF Leads
<1>9. Leads(new, new[1].roots)  BY <1>8 DEF x
<1> QED  BY <1>1, <1>9 DEF Whole

-----------------------------------------------------------------------------
(* What a run that is alone knows of its file, step by step.               *)

LEMMA GrowKnows ==
    ASSUME NEW r \in ToolState, NEW cells \in Seq(Cell), Knows(r, cells),
           r.pc \in {"header", "part"}, r.next = r.size,
           NEW n \in Nat, n = r.next + 1 + Slack
    PROVE  Knows([r EXCEPT !.size = n], Truncated(cells, n))
<1> DEFINE new == Truncated(cells, n)
<1> DEFINE q == [r EXCEPT !.size = n]
<1>1. /\ r.next \in Nat /\ r.size \in Nat /\ r.header \in Nat
      /\ r.parts \in Seq(Nat)
  BY DEF ToolState
<1>2. /\ new \in Seq(Cell) /\ Len(new) = n
      /\ \A p \in 1 .. n : new[p] = IF p <= Len(cells) THEN cells[p] ELSE Zero
  BY CellsTruncated
<1>3. /\ q.size = n /\ q.next = r.next /\ q.pc = r.pc /\ q.header = r.header
      /\ q.parts = r.parts /\ q.run = r.run
  BY DEF ToolState
<1>4. n > Len(cells) /\ Len(cells) = r.next
  BY <1>1, BoundsAssumption DEF Knows
<1> HIDE DEF new, q
<1>5. \A p \in 1 .. Len(cells) : p <= Len(new) /\ new[p] = cells[p]
  BY <1>2, <1>4
<1>6. q.next <= q.size /\ Len(new) = q.size  BY <1>1, <1>2, <1>3, <1>4
<1>7. \A p \in 1 .. Len(new) : p > q.next => new[p] = Zero
  BY <1>1, <1>2, <1>3, <1>4
<1>8. q.pc # "header" => /\ q.header \in 1 .. q.next
                         /\ new[q.header].kind = "header"
  BY <1>1, <1>3, <1>4, <1>5 DEF Knows
<1>9. \A k \in 1 .. Len(q.parts) : q.parts[k] <= q.next  BY <1>3 DEF Knows
<1>10. MadeBy(r.run, cells, r.parts)  BY DEF Knows
<1>11. \A k \in 1 .. Len(r.parts) :
          r.parts[k] <= Len(new) /\ new[r.parts[k]] = cells[r.parts[k]]
  BY <1>5, <1>10 DEF MadeBy
<1>12. MadeBy(q.run, new, q.parts)  BY <1>1, <1>2, <1>3, <1>10, <1>11, MadeStays
<1>13. Knows(q, new)  BY <1>6, <1>7, <1>8, <1>9, <1>12 DEF Knows
<1> QED  BY <1>13 DEF q, new

LEMMA HeaderKnows ==
    ASSUME NEW r \in ToolState, NEW cells \in Seq(Cell), Knows(r, cells),
           r.pc = "header", r.parts = << >>, r.next < r.size, NEW c \in Cell,
           c.kind = "header"
    PROVE  Knows([r EXCEPT !.pc = "part", !.next = @ + 1, !.header = r.next + 1],
                 [cells EXCEPT ![r.next + 1] = c])
<1> DEFINE p0 == r.next + 1
<1> DEFINE new == [cells EXCEPT ![p0] = c]
<1> DEFINE q == [r EXCEPT !.pc = "part", !.next = @ + 1, !.header = r.next + 1]
<1>1. r.next \in Nat /\ r.size \in Nat /\ r.parts \in Seq(Nat)
  BY DEF ToolState
<1>2. q.size = r.size /\ q.next = p0 /\ q.header = p0 /\ q.parts = r.parts
  BY DEF ToolState
<1>3. p0 \in 1 .. Len(cells)  BY <1>1 DEF Knows
<1>4. /\ new \in Seq(Cell) /\ Len(new) = Len(cells)
      /\ \A p \in 1 .. Len(cells) : new[p] = IF p = p0 THEN c ELSE cells[p]
  BY <1>3, CellsStored
<1> HIDE DEF new, q
<1>5. q.next <= q.size /\ Len(new) = q.size  BY <1>1, <1>2, <1>4 DEF Knows
<1>6. \A p \in 1 .. Len(new) : p > q.next => new[p] = Zero
  BY <1>1, <1>2, <1>4 DEF Knows
<1>7. q.header \in 1 .. q.next /\ new[q.header].kind = "header"
  BY <1>1, <1>2, <1>3, <1>4
<1>8. Len(q.parts) = 0  BY <1>2
<1>9. MadeBy(q.run, new, q.parts)  BY <1>8 DEF MadeBy
<1>10. Knows(q, new)  BY <1>5, <1>6, <1>7, <1>8, <1>9 DEF Knows
<1> QED  BY <1>10 DEF q, new

LEMMA PartKnows ==
    ASSUME NEW r \in ToolState, NEW cells \in Seq(Cell), Knows(r, cells),
           r.pc = "part", Len(r.parts) < Parts, r.run \in Run,
           r.next < r.size, NEW v \in Nat, NEW pc, NEW e
    PROVE  Knows([r EXCEPT !.pc = pc, !.next = r.next + 1,
                           !.parts = Append(@, r.next + 1), !.events = e],
                 [cells EXCEPT ![r.next + 1] = Part(r.run, Len(r.parts) + 1, v)])
<1> DEFINE p0 == r.next + 1
<1> DEFINE k0 == Len(r.parts) + 1
<1> DEFINE c == Part(r.run, k0, v)
<1> DEFINE new == [cells EXCEPT ![p0] = c]
<1> DEFINE q == [r EXCEPT !.pc = pc, !.next = r.next + 1,
                          !.parts = Append(@, r.next + 1), !.events = e]
<1>1. /\ r.next \in Nat /\ r.size \in Nat /\ r.header \in Nat
      /\ r.parts \in Seq(Nat)
  BY DEF ToolState
<1>2. /\ q.size = r.size /\ q.next = p0 /\ q.header = r.header
      /\ q.parts = Append(r.parts, p0) /\ q.run = r.run
  BY DEF ToolState
<1>3. p0 \in 1 .. Len(cells)  BY <1>1 DEF Knows
<1>4. k0 \in 1 .. Parts  BY <1>1, BoundsAssumption
<1>5. c \in Cell  BY <1>4, PartIsCell
<1>6. c.kind = "part" /\ c.run = r.run /\ c.part = k0  BY DEF Part
<1> HIDE DEF c
<1>7. /\ new \in Seq(Cell) /\ Len(new) = Len(cells)
      /\ \A p \in 1 .. Len(cells) : new[p] = IF p = p0 THEN c ELSE cells[p]
  BY <1>3, <1>5, CellsStored
<1> HIDE DEF new, q
<1>8. q.next <= q.size /\ Len(new) = q.size  BY <1>1, <1>2, <1>7 DEF Knows
<1>9. \A p \in 1 .. Len(new) : p > q.next => new[p] = Zero
  BY <1>1, <1>2, <1>7 DEF Knows
<1>10. q.header \in 1 .. q.next /\ new[q.header].kind = "header"
  <2>1. r.header \in 1 .. r.next /\ cells[r.header].kind = "header"
    BY DEF Knows
  <2>2. r.header # p0 /\ r.header \in 1 .. Len(cells) /\ r.header \in 1 .. p0
    BY <2>1, <1>1, <1>3
  <2>3. new[r.header] = cells[r.header]  BY <2>2, <1>7
  <2> QED  BY <2>1, <2>2, <2>3, <1>2
<1>11. /\ Len(q.parts) = k0 /\ q.parts[k0] = p0
       /\ \A k \in 1 .. Len(r.parts) : q.parts[k] = r.parts[k]
  BY <1>1, <1>2
<1>12. \A k \in 1 .. Len(r.parts) :
          /\ r.parts[k] \in 1 .. Len(cells) /\ r.parts[k] <= r.next
          /\ cells[r.parts[k]].kind = "part"
          /\ cells[r.parts[k]].run = r.run
          /\ cells[r.parts[k]].part = k
  BY DEF Knows, MadeBy
<1>13. \A k \in 1 .. k0 :
          /\ q.parts[k] \in 1 .. Len(new)
          /\ new[q.parts[k]].kind = "part"
          /\ new[q.parts[k]].run = r.run
          /\ new[q.parts[k]].part = k
          /\ q.parts[k] <= q.next
  <2> SUFFICES ASSUME NEW k \in 1 .. k0
               PROVE  /\ q.parts[k] \in 1 .. Len(new)
                      /\ new[q.parts[k]].kind = "part"
                      /\ new[q.parts[k]].run = r.run
                      /\ new[q.parts[k]].part = k
                      /\ q.parts[k] <= q.next
    OBVIOUS
  <2>1. CASE k = k0  BY <2>1, <1>1, <1>2, <1>3, <1>6, <1>7, <1>11
  <2>2. CASE k # k0
    <3>1. k \in 1 .. Len(r.parts)  BY <2>2, <1>1
    <3>2. r.parts[k] # p0 /\ r.parts[k] \in 1 .. Len(cells)  BY <3>1, <1>1, <1>12
    <3>3. new[r.parts[k]] = cells[r.parts[k]]  BY <3>2, <1>7
    <3>4. q.parts[k] = r.parts[k]  BY <3>1, <1>11
    <3>5. q.parts[k] <= q.next  BY <3>1, <3>2, <3>4, <1>1, <1>2, <1>12
    <3> QED  BY <3>1, <3>2, <3>3, <3>4, <3>5, <1>7, <1>12
  <2> QED  BY <2>1, <2>2
<1>14. MadeBy(q.run, new, q.parts)  BY <1>2, <1>11, <1>13 DEF MadeBy
<1>15. Knows(q, new)
  <2>1. \A k \in 1 .. Len(q.parts) : q.parts[k] <= q.next  BY <1>11, <1>13
  <2> QED  BY <2>1, <1>8, <1>9, <1>10, <1>14 DEF Knows
<1> QED  BY <1>15 DEF q, new, c

LEMMA StoreKnows ==
    ASSUME NEW r \in ToolState, NEW cells \in Seq(Cell), Knows(r, cells),
           r.pc # "header", NEW c \in Cell, c.kind = "header", NEW pc
    PROVE  Knows([r EXCEPT !.pc = pc], [cells EXCEPT ![r.header] = c])
<1> DEFINE p0 == r.header
<1> DEFINE new == [cells EXCEPT ![p0] = c]
<1> DEFINE q == [r EXCEPT !.pc = pc]
<1>1. /\ r.next \in Nat /\ r.size \in Nat /\ r.header \in Nat
      /\ r.parts \in Seq(Nat)
  BY DEF ToolState
<1>2. /\ q.size = r.size /\ q.next = r.next /\ q.header = p0
      /\ q.parts = r.parts /\ q.run = r.run
  BY DEF ToolState
<1>3. p0 \in 1 .. Len(cells) /\ p0 <= r.next /\ cells[p0].kind = "header"
  BY <1>1 DEF Knows
<1>4. /\ new \in Seq(Cell) /\ Len(new) = Len(cells)
      /\ \A p \in 1 .. Len(cells) : new[p] = IF p = p0 THEN c ELSE cells[p]
  BY <1>3, CellsStored
<1> HIDE DEF new, q, p0
<1>5. q.next <= q.size /\ Len(new) = q.size  BY <1>1, <1>2, <1>4 DEF Knows
<1>6. \A p \in 1 .. Len(new) : p > q.next => new[p] = Zero
  BY <1>1, <1>2, <1>3, <1>4 DEF Knows
<1>7. q.header \in 1 .. q.next /\ new[q.header].kind = "header"
  BY <1>1, <1>2, <1>3, <1>4
<1>8. MadeBy(r.run, cells, r.parts)  BY DEF Knows
<1>9. \A k \in 1 .. Len(r.parts) :
         r.parts[k] <= Len(new) /\ new[r.parts[k]] = cells[r.parts[k]]
  BY <1>3, <1>4, <1>8 DEF MadeBy
<1>10. MadeBy(q.run, new, q.parts)  BY <1>1, <1>2, <1>4, <1>8, <1>9, MadeStays
<1>11. \A k \in 1 .. Len(q.parts) : q.parts[k] <= q.next  BY <1>2 DEF Knows
<1>12. Knows(q, new)  BY <1>5, <1>6, <1>7, <1>10, <1>11 DEF Knows
<1> QED  BY <1>12 DEF q, new, p0

-----------------------------------------------------------------------------
(* Nothing that such a run does spoils a whole index.                      *)

\* Resizing keeps all that has been allocated.
LEMMA TruncatedWhole ==
    ASSUME NEW r \in ToolState, NEW cells \in Seq(Cell), Knows(r, cells),
           Whole(cells), NEW n \in Nat, n >= r.next
    PROVE  Whole(Truncated(cells, n))
<1> DEFINE new == Truncated(cells, n)
<1>1. r.next \in Nat /\ r.size \in Nat  BY DEF ToolState
<1>2. /\ new \in Seq(Cell) /\ Len(new) = n
      /\ \A p \in 1 .. n : new[p] = IF p <= Len(cells) THEN cells[p] ELSE Zero
  BY CellsTruncated
<1>3. Len(cells) > 0 /\ cells[1].kind = "header"  BY DEF Whole
<1>4. \A p \in 1 .. Len(cells) : cells[p].kind # "zero" => p <= r.next
  BY <1>1 DEF Knows, Zero
<1> HIDE DEF new
<1>5. 1 <= n  BY <1>1, <1>3, <1>4
<1>6. new[1] = cells[1]  BY <1>2, <1>3, <1>5
<1>7. \A p \in 1 .. Len(cells) :
         cells[p].kind = "part" => p <= Len(new) /\ new[p] = cells[p]
  <2> SUFFICES ASSUME NEW p \in 1 .. Len(cells), cells[p].kind = "part"
               PROVE  p <= Len(new) /\ new[p] = cells[p]
    OBVIOUS
  <2>1. p <= r.next  BY <1>4
  <2>2. p \in 1 .. n  BY <2>1, <1>1
  <2> QED  BY <2>2, <1>2
<1>8. Whole(new)  BY <1>2, <1>3, <1>5, <1>6, <1>7, WholeStays
<1> QED  BY <1>8 DEF new

\* A new cell takes the place of one that is all zeros.
LEMMA AppendedWhole ==
    ASSUME NEW r \in ToolState, NEW cells \in Seq(Cell), Knows(r, cells),
           Whole(cells), r.next < r.size, NEW c \in Cell
    PROVE  Whole([cells EXCEPT ![r.next + 1] = c])
<1> DEFINE p0 == r.next + 1
<1> DEFINE new == [cells EXCEPT ![p0] = c]
<1>1. r.next \in Nat /\ r.size \in Nat  BY DEF ToolState
<1>2. p0 \in 1 .. Len(cells) /\ cells[p0].kind = "zero"
  BY <1>1 DEF Knows, Zero
<1>3. /\ new \in Seq(Cell) /\ Len(new) = Len(cells)
      /\ \A p \in 1 .. Len(cells) : new[p] = IF p = p0 THEN c ELSE cells[p]
  BY <1>2, CellsStored
<1>4. Len(cells) > 0 /\ cells[1].kind = "header"  BY DEF Whole
<1> HIDE DEF new, p0
<1>5. Len(new) > 0 /\ new[1] = cells[1]  BY <1>2, <1>3, <1>4
<1>6. \A p \in 1 .. Len(cells) :
         cells[p].kind = "part" => p <= Len(new) /\ new[p] = cells[p]
  BY <1>2, <1>3
<1>7. Whole(new)  BY <1>3, <1>5, <1>6, WholeStays
<1> QED  BY <1>7 DEF new, p0

\* A header that is stored again, complete and with roots that lead to an
\* index if it is the first cell.
LEMMA HeaderWhole ==
    ASSUME NEW cells \in Seq(Cell), Whole(cells), NEW p0 \in 1 .. Len(cells),
           cells[p0].kind = "header", NEW c \in Cell, c.kind = "header",
           p0 = 1 => /\ c.complete /\ c.roots \in Seq(Nat)
                     /\ Leads(cells, c.roots)
    PROVE  Whole([cells EXCEPT ![p0] = c])
<1> DEFINE new == [cells EXCEPT ![p0] = c]
<1>1. /\ new \in Seq(Cell) /\ Len(new) = Len(cells)
      /\ \A p \in 1 .. Len(cells) : new[p] = IF p = p0 THEN c ELSE cells[p]
  BY CellsStored
<1>2. Len(cells) > 0  BY DEF Whole
<1> HIDE DEF new
<1>3. \A p \in 1 .. Len(cells) :
         cells[p].kind = "part" => p <= Len(new) /\ new[p] = cells[p]
  BY <1>1
<1>4. CASE p0 # 1
  <2>1. Len(new) > 0 /\ new[1] = cells[1]  BY <1>1, <1>2, <1>4
  <2>2. Whole(new)  BY <2>1, <1>1, <1>3, WholeStays
  <2> QED  BY <2>2 DEF new
<1>5. CASE p0 = 1
  <2>1. PICK r \in Run : MadeBy(r, cells, c.roots)  BY <1>5 DEF Leads
  <2>2. \A k \in 1 .. Len(c.roots) :
           c.roots[k] <= Len(new) /\ new[c.roots[k]] = cells[c.roots[k]]
    BY <2>1, <1>3 DEF MadeBy
  <2>3. c.roots \in Seq(Nat)  BY <1>5
  <2>4. MadeBy(r, new, c.roots)  BY <2>1, <2>2, <2>3, <1>1, MadeStays
  <2>5. Leads(new, c.roots)  BY <2>4, <1>5 DEF Leads
  <2>6. new[1] = c /\ new # << >>  BY <1>1, <1>2, <1>5
  <2>7. Whole(new)  BY <2>5, <2>6, <1>5 DEF Whole
  <2> QED  BY <2>7 DEF new
<1> QED  BY <1>4, <1>5

-----------------------------------------------------------------------------
(* Steps of a tool, by what they do to the files and to the other tools.   *)

\* Two states of a tool that differ in `disturbed' at most.
Alike(q, r) ==
    /\ q.pc = r.pc /\ q.run = r.run /\ q.inode = r.inode
    /\ q.header = r.header /\ q.next = r.next /\ q.size = r.size
    /\ q.parts = r.parts /\ q.roots = r.roots /\ q.built = r.built

LEMMA KnowsAlike ==
    ASSUME NEW q, NEW r, NEW cells, Alike(q, r), Knows(r, cells)
    PROVE  Knows(q, cells)
<1>1. /\ q.pc = r.pc /\ q.run = r.run /\ q.header = r.header
      /\ q.next = r.next /\ q.size = r.size /\ q.parts = r.parts
  BY DEF Alike
<1>2. MadeBy(q.run, cells, q.parts)  BY <1>1 DEF Knows
<1>3. \A k \in 1 .. Len(q.parts) : q.parts[k] <= q.next  BY <1>1 DEF Knows
<1>4. \A p \in 1 .. Len(cells) : p > q.next => cells[p] = Zero  BY <1>1 DEF Knows
<1>5. q.next <= q.size /\ Len(cells) = q.size  BY <1>1 DEF Knows
<1>6. q.pc # "header" => /\ q.header \in 1 .. q.next
                         /\ cells[q.header].kind = "header"
  BY <1>1 DEF Knows
<1> QED  BY <1>2, <1>3, <1>4, <1>5, <1>6 DEF Knows

LEMMA DisturbedAlike ==
    ASSUME NEW r \in ToolState, NEW e
    PROVE  /\ Alike([r EXCEPT !.disturbed = e], r)
           /\ [r EXCEPT !.disturbed = e].disturbed = e
BY DEF Alike, ToolState

LEMMA VisiblyMoves ==
    ASSUME tool \in [Tool -> ToolState], NEW t \in Tool, NEW x \in ToolState,
           Visibly(t, x)
    PROVE  /\ tool' \in [Tool -> ToolState]
           /\ tool'[t] = x
           /\ \A u \in Tool : u # t => Alike(tool'[u], tool[u])
           /\ \A u \in Tool : u # t /\ tool[u].pc \notin Idle => tool'[u].disturbed
<1>1. \A u \in Tool : tool[u] \in ToolState  OBVIOUS
<1>2. \A u \in Tool : [tool[u] EXCEPT !.disturbed = @ \/ tool[u].pc \notin Idle]
                           \in ToolState
  BY <1>1 DEF ToolState
<1>3. tool'[t] = x /\ tool' \in [Tool -> ToolState]  BY <1>2 DEF Visibly
<1>4. \A u \in Tool : u # t =>
         tool'[u] = [tool[u] EXCEPT !.disturbed = @ \/ tool[u].pc \notin Idle]
  BY DEF Visibly
<1>5. \A u \in Tool : u # t => Alike(tool'[u], tool[u])
  <2> SUFFICES ASSUME NEW u \in Tool, u # t PROVE Alike(tool'[u], tool[u])
    OBVIOUS
  <2>1. tool'[u] = [tool[u] EXCEPT !.disturbed =
                       tool[u].disturbed \/ tool[u].pc \notin Idle]
    BY <1>4
  <2> QED  BY <2>1, <1>1, DisturbedAlike
<1>6. \A u \in Tool : u # t /\ tool[u].pc \notin Idle => tool'[u].disturbed
  <2> SUFFICES ASSUME NEW u \in Tool, u # t, tool[u].pc \notin Idle
               PROVE  tool'[u].disturbed
    OBVIOUS
  <2> DEFINE e == tool[u].disturbed \/ tool[u].pc \notin Idle
  <2>1. tool'[u] = [tool[u] EXCEPT !.disturbed = e]  BY <1>4
  <2>2. e  OBVIOUS
  <2> HIDE DEF e
  <2>3. tool'[u].disturbed = e  BY <2>1, <1>1, DisturbedAlike
  <2> QED  BY <2>2, <2>3
<1> QED  BY <1>3, <1>5, <1>6

LEMMA QuietMoves ==
    ASSUME tool \in [Tool -> ToolState], NEW t \in Tool, NEW x \in ToolState,
           tool' = [tool EXCEPT ![t] = x]
    PROVE  /\ tool' \in [Tool -> ToolState]
           /\ tool'[t] = x
           /\ \A u \in Tool : u # t => tool'[u] = tool[u]
           /\ \A u \in Tool : u # t => Alike(tool'[u], tool[u])
BY DEF Alike

\* The numbers of runs stay fresh in a step that starts no run and creates
\* no file.
LEMMA FreshStays ==
    ASSUME TypeOK, RunsFresh, NEW t \in Tool, runs' = runs,
           name' = name \/ name' = None, overlap' = overlap,
           \A u \in Tool : u # t => Alike(tool'[u], tool[u]),
           \/ tool'[t].pc \in Idle
           \/ /\ tool[t].pc \notin Idle /\ tool'[t].run = tool[t].run
              /\ tool'[t].pc \in Early => tool[t].pc \in Early
              /\ tool'[t].pc \in Writing => /\ tool[t].pc \in Writing
                                            /\ tool'[t].inode = tool[t].inode,
           \A i \in Run : NotMade(i) => file'[i].cells = file[i].cells
    PROVE  RunsFresh'
<1>1. runs \in Nat /\ runs <= MaxRun  BY BoundsAssumption DEF TypeOK
<1>2. Early \cap Idle = {} /\ Writing \cap Idle = {}  BY DEF Early, Idle, Writing
<1>3. \A i \in Run : NotMade(i) => NotMade(i)'
  <2> SUFFICES ASSUME NEW i \in Run, NotMade(i) PROVE NotMade(i)'
    OBVIOUS
  <2>1. file'[i].cells = << >>  BY DEF NotMade
  <2>2. name' # i  BY DEF NotMade, None, Run
  <2>3. i \notin overlap'  BY DEF NotMade
  <2>4. ASSUME NEW u \in Tool, tool'[u].pc \in Writing PROVE tool'[u].inode # i
    <3>1. tool[u].pc \in Writing /\ tool'[u].inode = tool[u].inode
      BY <2>4, <1>2 DEF Alike
    <3> QED  BY <3>1 DEF NotMade
  <2> QED  BY <2>1, <2>2, <2>3, <2>4 DEF NotMade
<1>4. \A u \in Tool : tool'[u].pc \notin Idle =>
         /\ tool[u].pc \notin Idle /\ tool'[u].run = tool[u].run
         /\ tool'[u].pc \in Early => tool[u].pc \in Early
  BY DEF Alike
<1>5. \A i \in Run : i > runs' => NotMade(i)'  BY <1>3 DEF RunsFresh
<1>6. \A u \in Tool : tool'[u].pc \notin Idle => tool'[u].run \in 1 .. runs'
  BY <1>4 DEF RunsFresh
<1>7. ASSUME NEW u \in Tool, tool'[u].pc \in Early
      PROVE  NotMade(tool[u].run)'
  <2>1. tool[u].pc \in Early /\ tool'[u].run = tool[u].run /\ tool[u].pc \notin Idle
    BY <1>7, <1>2, <1>4
  <2>2. NotMade(tool[u].run) /\ tool[u].run \in 1 .. runs  BY <2>1 DEF RunsFresh
  <2>3. tool[u].run \in Run  BY <2>2, <1>1, BoundsAssumption DEF Run
  <2>4. PICK j \in Run : j = tool[u].run /\ NotMade(j)  BY <2>2, <2>3
  <2>5. NotMade(j)' /\ tool'[u].run = j  BY <2>1, <2>4, <1>3
  <2> QED  BY <2>5 DEF NotMade
<1>8. \A u, w \in Tool :
         u # w /\ tool'[u].pc \notin Idle /\ tool'[w].pc \notin Idle
         => tool'[u].run # tool'[w].run
  BY <1>4 DEF RunsFresh
<1> QED  BY <1>5, <1>6, <1>7, <1>8 DEF RunsFresh

\* A tool goes on without changing any file.
LEMMA QuietStep ==
    ASSUME Inv, NEW t \in Tool, NEW x \in ToolState, tool' = [tool EXCEPT ![t] = x],
           x.pc \notin Writing,
           \/ x.pc \in Idle
           \/ /\ tool[t].pc \notin Idle /\ x.run = tool[t].run
              /\ x.pc \in Early => tool[t].pc \in Early
              /\ x.parts = tool[t].parts,
           UNCHANGED << clock, trace, name, file, runs, overlap, reused, racy >>,
           torn' \subseteq Run
    PROVE  Inv'
<1>1. tool \in [Tool -> ToolState]  BY DEF Inv, TypeOK
<1>2. /\ tool' \in [Tool -> ToolState] /\ tool'[t] = x
      /\ \A u \in Tool : u # t => tool'[u] = tool[u]
      /\ \A u \in Tool : u # t => Alike(tool'[u], tool[u])
  BY <1>1, QuietMoves
<1>3. TypeOK'  BY <1>2 DEF Inv, TypeOK
<1>4. Proper'
  <2>1. x.pc \in Early => x.parts = << >>  BY DEF Inv, Proper, Early, Idle
  <2>2. x.pc \notin {"header", "part", "flags", "roots", "close"}  BY DEF Writing
  <2> QED  BY <1>2, <2>1, <2>2 DEF Inv, Proper
<1>5. RunsFresh'
  <2>1. TypeOK /\ RunsFresh  BY DEF Inv
  <2>2. \A i \in Run : NotMade(i) => file'[i].cells = file[i].cells  OBVIOUS
  <2>3. \/ tool'[t].pc \in Idle
        \/ /\ tool[t].pc \notin Idle /\ tool'[t].run = tool[t].run
           /\ tool'[t].pc \in Early => tool[t].pc \in Early
           /\ tool'[t].pc \in Writing => /\ tool[t].pc \in Writing
                                         /\ tool'[t].inode = tool[t].inode
    <3>1. tool'[t].pc = x.pc /\ tool'[t].run = x.run  BY <1>2
    <3>2. x.pc \notin Writing  OBVIOUS
    <3>3. \/ x.pc \in Idle
          \/ /\ tool[t].pc \notin Idle /\ x.run = tool[t].run
             /\ x.pc \in Early => tool[t].pc \in Early
      OBVIOUS
    <3> QED  BY <3>1, <3>2, <3>3
  <2> QED  BY <1>2, <2>1, <2>2, <2>3, FreshStays
<1>6. AloneKnows'
  <2> SUFFICES ASSUME NEW u \in Tool, Alone(u)'
               PROVE  Sole(u)' /\ Knows(tool[u], file[tool[u].inode].cells)'
    BY DEF AloneKnows
  <2>1. u # t /\ tool'[u] = tool[u]  BY <1>2 DEF Alone
  <2>2. Alone(u)  BY <2>1 DEF Alone
  <2>3. Sole(u) /\ Knows(tool[u], file[tool[u].inode].cells)
    BY <2>2 DEF Inv, AloneKnows
  <2>4. Sole(u)'  BY <1>2, <2>1, <2>3 DEF Sole
  <2>5. file'[tool'[u].inode].cells = file[tool[u].inode].cells  BY <2>1
  <2>6. Knows(tool'[u], file'[tool'[u].inode].cells)  BY <2>1, <2>3, <2>5
  <2> QED  BY <2>4, <2>6 DEF Knows, MadeBy
<1> QED  BY <1>3, <1>4, <1>5, <1>6 DEF Inv

\* A tool that builds an index changes its file.
LEMMA FileStep ==
    ASSUME Inv, NEW t \in Tool, tool[t].pc \in Writing,
           NEW x \in ToolState, Visibly(t, x),
           x.pc \in Writing \cup {"open"}, x.run = tool[t].run,
           x.inode = tool[t].inode,
           x.pc # "header" \/ x.parts = << >>,
           x.pc = "part" => Len(x.parts) < Parts,
           x.pc \in {"flags", "roots", "close"} => Len(x.parts) = Parts,
           x.pc \in Writing \ {"header"} => x.header # 0,
           NEW new \in Seq(Cell), NEW m \in Nat,
           file' = [file EXCEPT ![tool[t].inode] = [cells |-> new, mtime |-> m]],
           x.pc \in Writing /\ Alone(t) => Knows(x, new),
           Alone(t) /\ Whole(file[tool[t].inode].cells) => Whole(new),
           UNCHANGED << clock, trace, name, runs, overlap, reused, torn, racy >>
    PROVE  /\ Inv'
           /\ \A i \in Run : Whole(file[i].cells) /\ i \notin overlap
                            => Whole(file'[i].cells)
<1> DEFINE i0 == tool[t].inode
<1>0. /\ TypeOK /\ Proper /\ RunsFresh /\ AloneKnows
      /\ tool \in [Tool -> ToolState]
      /\ file \in [Run -> [cells : Seq(Cell), mtime : Nat]]
  BY DEF Inv, TypeOK
<1>1. i0 \in Run  BY <1>0 DEF Proper
<1>2. /\ tool' \in [Tool -> ToolState] /\ tool'[t] = x
      /\ \A u \in Tool : u # t => Alike(tool'[u], tool[u])
  BY <1>0, VisiblyMoves
<1>3. /\ file' \in [Run -> [cells : Seq(Cell), mtime : Nat]]
      /\ file'[i0].cells = new
      /\ \A i \in Run : i # i0 => file'[i] = file[i]
  BY <1>0, <1>1
<1>4. TypeOK'  BY <1>0, <1>2, <1>3 DEF TypeOK
<1>5. Proper'
  <2>1. /\ x.inode \in Run
        /\ x.pc \in Early \cup {"header"} => x.parts = << >>
        /\ x.pc = "part" => Len(x.parts) < Parts
        /\ x.pc \in {"flags", "roots", "close"} => Len(x.parts) = Parts
        /\ x.pc \in Writing \ {"header"} => x.header # 0
    BY <1>1 DEF Early, Writing
  <2> QED  BY <1>0, <1>2, <2>1 DEF Proper, Alike
<1>6. RunsFresh'
  <2>1. \A i \in Run : NotMade(i) => i # i0  BY DEF NotMade
  <2>2. \A i \in Run : NotMade(i) => file'[i].cells = file[i].cells
    BY <2>1, <1>3
  <2>3. /\ tool[t].pc \notin Idle /\ tool'[t].run = tool[t].run
        /\ tool'[t].pc \in Early => tool[t].pc \in Early
        /\ tool'[t].pc \in Writing => /\ tool[t].pc \in Writing
                                      /\ tool'[t].inode = tool[t].inode
    BY <1>2 DEF Writing, Idle, Early
  <2> QED  BY <1>0, <1>2, <2>2, <2>3, FreshStays
<1>7. AloneKnows'
  <2> SUFFICES ASSUME NEW u \in Tool, Alone(u)'
               PROVE  Sole(u)' /\ Knows(tool[u], file[tool[u].inode].cells)'
    BY DEF AloneKnows
  <2>1. tool'[u].pc \in Writing /\ tool'[u].inode \notin overlap  BY DEF Alone
  <2>2. Alone(u)
    BY <2>1, <1>2 DEF Alone, Alike
  <2>3. Sole(u) /\ Knows(tool[u], file[tool[u].inode].cells)
    BY <2>2, <1>0 DEF AloneKnows
  <2>4. \A w \in Tool : tool'[w].pc \in Writing =>
           tool[w].pc \in Writing /\ tool'[w].inode = tool[w].inode
    BY <1>2 DEF Alike
  <2>5. tool'[u].inode = tool[u].inode  BY <1>2 DEF Alike
  <2>6. Sole(u)'  BY <2>3, <2>4, <2>5 DEF Sole
  <2>7. CASE u = t
    <3>1. Knows(x, new)  BY <2>1, <2>2, <2>7, <1>2
    <3> QED  BY <3>1, <2>6, <2>7, <1>1, <1>2, <1>3 DEF Knows, MadeBy
  <2>8. CASE u # t
    <3>1. tool[u].inode # i0 /\ tool[u].inode \in Run
      BY <2>2, <2>3, <2>8, <1>0 DEF Sole, Alone, Proper
    <3>2. file'[tool'[u].inode] = file[tool[u].inode]  BY <3>1, <2>5, <1>3
    <3>3. Alike(tool'[u], tool[u])  BY <2>8, <1>2
    <3>4. Knows(tool'[u], file[tool[u].inode].cells)  BY <3>3, <2>3, KnowsAlike
    <3>5. tool'[u] \in ToolState /\ file'[tool'[u].inode].cells \in Seq(Cell)
      BY <1>2, <1>3, <2>5, <3>1
    <3>6. Knows(tool'[u], file'[tool'[u].inode].cells)  BY <3>2, <3>4
    <3> QED  BY <3>6, <2>6 DEF Knows, MadeBy
  <2> QED  BY <2>7, <2>8
<1>8. \A i \in Run : Whole(file[i].cells) /\ i \notin overlap
                     => Whole(file'[i].cells)
  BY <1>3 DEF Alone
<1> QED  BY <1>4, <1>5, <1>6, <1>7, <1>8 DEF Inv

-----------------------------------------------------------------------------
(* The invariant is inductive: one lemma per action, or per group of       *)
(* actions of the same form.                                               *)

LEMMA NoRunType ==
    NoRun \in ToolState /\ NoRun.pc = "idle" /\ NoRun.pc \notin Writing
    /\ NoRun.pc \in Idle
<1>1. << >> \in Seq(Nat)  OBVIOUS
<1> QED  BY <1>1 DEF NoRun, ToolState, Idle, None, Writing

LEMMA InvInit == Init => Inv
<1> SUFFICES ASSUME Init PROVE Inv
  OBVIOUS
<1>1. tool \in [Tool -> ToolState] /\ \A t \in Tool : tool[t].pc = "idle"
  BY NoRunType DEF Init
<1>2. << >> \in Seq(Cell)  OBVIOUS
<1>3. file \in [Run -> [cells : Seq(Cell), mtime : Nat]]
      /\ \A i \in Run : file[i].cells = << >>
  BY <1>2 DEF Init
<1>4. TypeOK  BY <1>1, <1>3, BoundsAssumption DEF Init, TypeOK
<1>5. Proper /\ AloneKnows
  BY <1>1 DEF Proper, AloneKnows, Alone, Writing, Early
<1>6. RunsFresh
  <2>1. \A i \in Run : name # i /\ i \notin overlap  BY DEF Init, None, Run
  <2>2. \A i \in Run : NotMade(i)  BY <1>1, <1>3, <2>1 DEF NotMade, Writing
  <2> QED  BY <1>1, <2>2 DEF RunsFresh, Idle, Early
<1> QED  BY <1>4, <1>5, <1>6 DEF Inv

LEMMA EndInv ==
    ASSUME Inv, NEW t \in Tool, NoEvents(t) \/ Quit(t) \/ Kill(t)
    PROVE  Inv'
<1>1. UNCHANGED << clock, trace, name, file, runs, overlap, reused, racy >>
  BY DEF NoEvents, Quit, Kill
<1>2. tool' = [tool EXCEPT ![t] = NoRun]  BY DEF NoEvents, Quit, Kill, End
<1>3. torn' \subseteq Run
  <2>1. torn \subseteq Run  BY DEF Inv, TypeOK
  <2>2. CASE Kill(t)
    <3>1. tool[t].pc = "roots" => tool[t].inode \in Run
      BY DEF Inv, Proper, Writing
    <3> QED  BY <2>1, <2>2, <3>1 DEF Kill
  <2> QED  BY <2>1, <2>2 DEF NoEvents, Quit
<1> QED  BY <1>1, <1>2, <1>3, NoRunType, QuietStep

LEMMA AbortType ==
    ASSUME TypeOK, NEW t \in Tool
    PROVE  LET x == [NoRun EXCEPT !.pc = "aborted", !.checked = tool[t].checked,
                                  !.disturbed = tool[t].disturbed]
           IN x \in ToolState /\ x.pc \in Idle /\ x.pc \notin Writing
<1>1. tool[t] \in ToolState  BY DEF TypeOK
<1>2. NoRun \in ToolState  BY NoRunType
<1> QED  BY <1>1, <1>2 DEF ToolState, Idle, Writing

LEMMA EndOrAbortInv ==
    ASSUME Inv, NEW t \in Tool, End(t) \/ Abort(t),
           UNCHANGED << clock, trace, name, file, runs, overlap, reused, torn, racy >>
    PROVE  Inv'
<1>1. torn' \subseteq Run  BY DEF Inv, TypeOK
<1>2. CASE End(t)
  <2>1. tool' = [tool EXCEPT ![t] = NoRun]  BY <1>2 DEF End
  <2> QED  BY <1>1, <2>1, NoRunType, QuietStep
<1>3. CASE Abort(t)
  <2> DEFINE x == [NoRun EXCEPT !.pc = "aborted", !.checked = tool[t].checked,
                                !.disturbed = tool[t].disturbed]
  <2>1. tool' = [tool EXCEPT ![t] = x]  BY <1>3 DEF Abort
  <2>2. x \in ToolState /\ x.pc \in Idle /\ x.pc \notin Writing
    BY AbortType DEF Inv
  <2> HIDE DEF x
  <2> QED  BY <1>1, <2>1, <2>2, QuietStep
<1> QED  BY <1>2, <1>3

LEMMA CheckInv ==
    ASSUME Inv, NEW t \in Tool, StatIndex(t) \/ CheckHeader(t)
    PROVE  Inv'
<1>1. UNCHANGED << clock, trace, name, file, runs, overlap, reused, torn, racy >>
  BY DEF StatIndex, CheckHeader
<1>2. tool[t] \in ToolState /\ torn' \subseteq Run  BY <1>1 DEF Inv, TypeOK
<1>3. tool[t].pc \in {"stat", "check"}  BY DEF StatIndex, CheckHeader
<1>4. CASE StatIndex(t)
  <2>1. PICK l \in {"remove", "check"} :
           tool' = [tool EXCEPT ![t] = [@ EXCEPT !.pc = l, !.stamp = 0]]
    BY <1>4 DEF StatIndex
  <2> DEFINE x == [tool[t] EXCEPT !.pc = l, !.stamp = 0]
  <2>2. x \in ToolState /\ x.pc = l /\ x.run = tool[t].run
        /\ x.parts = tool[t].parts
    BY <1>2 DEF ToolState, Indexing
  <2>3. tool' = [tool EXCEPT ![t] = x]  BY <2>1 DEF Inv, TypeOK
  <2> HIDE DEF x
  <2>4. x.pc \notin Writing /\ tool[t].pc \in Early /\ tool[t].pc \notin Idle
    BY <1>3, <2>2 DEF Writing, Early, Idle
  <2> QED  BY <1>1, <1>2, <2>2, <2>3, <2>4, QuietStep
<1>5. CASE CheckHeader(t) /\ (End(t) \/ Abort(t))
  BY <1>1, <1>5, EndOrAbortInv
<1>6. CASE CheckHeader(t) /\ ~(End(t) \/ Abort(t))
  <2>1. PICK l \in {"open", "remove"} : tool' = [tool EXCEPT ![t].pc = l]
    BY <1>6 DEF CheckHeader, Goto
  <2> DEFINE x == [tool[t] EXCEPT !.pc = l]
  <2>2. x \in ToolState /\ x.pc = l /\ x.run = tool[t].run
        /\ x.parts = tool[t].parts
    BY <1>2 DEF ToolState, Indexing
  <2>3. tool' = [tool EXCEPT ![t] = x]  BY <2>1 DEF Inv, TypeOK
  <2> HIDE DEF x
  <2>4. x.pc \notin Writing /\ tool[t].pc \in Early /\ tool[t].pc \notin Idle
    BY <1>3, <2>2 DEF Writing, Early, Idle
  <2> QED  BY <1>1, <1>2, <2>2, <2>3, <2>4, QuietStep
<1> QED  BY <1>4, <1>5, <1>6

LEMMA OpenInv ==
    ASSUME Inv, NEW t \in Tool, Open(t)
    PROVE  Inv'
<1>1. UNCHANGED << clock, trace, name, file, runs, overlap, reused, torn, racy >>
      /\ tool[t].pc = "open"
  BY DEF Open
<1>2. tool[t] \in ToolState /\ torn' \subseteq Run  BY <1>1 DEF Inv, TypeOK
<1>3. CASE End(t) \/ Abort(t)  BY <1>1, <1>3, EndOrAbortInv
<1>4. CASE ~(End(t) \/ Abort(t))
  <2> DEFINE x == [tool[t] EXCEPT !.pc = "reading", !.inode = name,
                                  !.header = 0, !.next = 0, !.size = 0,
                                  !.roots = file[name].cells[1].roots]
  <2>1. tool' = [tool EXCEPT ![t] = x]  BY <1>4 DEF Open
  <2>2. /\ name # None /\ file[name].cells # << >>
        /\ file[name].cells[1].kind = "header"
    BY <1>4 DEF Open
  <2>3. name \in Run /\ file[name].cells \in Seq(Cell)
    BY <2>2 DEF Inv, TypeOK
  <2>4. file[name].cells[1] \in Cell  BY <2>2, <2>3
  <2>5. file[name].cells[1].roots \in Seq(Nat)  BY <2>2, <2>4 DEF Cell
  <2>6. x \in ToolState /\ x.pc = "reading" /\ x.run = tool[t].run
        /\ x.parts = tool[t].parts
    BY <1>2, <2>3, <2>5 DEF ToolState
  <2> HIDE DEF x
  <2>7. x.pc \notin Writing /\ x.pc \notin Early /\ tool[t].pc \notin Idle
    BY <1>1, <2>6 DEF Writing, Early, Idle
  <2> QED  BY <1>1, <1>2, <2>1, <2>6, <2>7, QuietStep
<1> QED  BY <1>3, <1>4

LEMMA WorldInv ==
    ASSUME Inv, WriteTrace \/ Tick
    PROVE  Inv'
<1>1. UNCHANGED << name, file, tool, runs, overlap, reused, torn >>
  BY DEF WriteTrace, Tick
<1>2. clock' \in Nat /\ trace' \in [mtime : Nat, version : Nat] /\ racy' \subseteq Run
  <2>1. clock \in Nat /\ trace \in [mtime : Nat, version : Nat] /\ racy \subseteq Run
    BY DEF Inv, TypeOK
  <2>2. CASE WriteTrace
    <3>1. clock' = clock /\ trace' = [mtime |-> clock, version |-> trace.version + 1]
      BY <2>2 DEF WriteTrace
    <3>2. racy' \subseteq Run  BY <2>1, <2>2 DEF WriteTrace
    <3> QED  BY <2>1, <3>1, <3>2
  <2>3. CASE Tick  BY <2>1, <2>3 DEF Tick
  <2> QED  BY <2>2, <2>3
<1>3. TypeOK'  BY <1>1, <1>2 DEF Inv, TypeOK
<1>4. Proper'  BY <1>1 DEF Inv, Proper
<1>5. RunsFresh'
  <2>1. \A i : NotMade(i)' <=> NotMade(i)  BY <1>1 DEF NotMade
  <2>2. RunsFresh  BY DEF Inv
  <2> QED  BY <1>1, <2>2 DEF RunsFresh, NotMade
<1>6. AloneKnows'
  <2> SUFFICES ASSUME NEW u \in Tool, Alone(u)'
               PROVE  Sole(u)' /\ Knows(tool[u], file[tool[u].inode].cells)'
    BY DEF AloneKnows
  <2>1. Alone(u)  BY <1>1 DEF Alone
  <2>2. Sole(u) /\ Knows(tool[u], file[tool[u].inode].cells)
    BY <2>1 DEF Inv, AloneKnows
  <2>3. Sole(u)'  BY <1>1, <2>2 DEF Sole
  <2>4. Knows(tool'[u], file'[tool'[u].inode].cells)  BY <1>1, <2>2
  <2> QED  BY <2>3, <2>4 DEF Knows, MadeBy
<1> QED  BY <1>3, <1>4, <1>5, <1>6 DEF Inv

\* A new run gets a number that no run and no file has had.
LEMMA StartInv ==
    ASSUME Inv, NEW t \in Tool, NEW mode, Start(t, mode)
    PROVE  Inv'
<1>0. TypeOK /\ Proper /\ RunsFresh /\ AloneKnows  BY DEF Inv
<1>1. /\ UNCHANGED << clock, trace, name, file, overlap, reused, torn, racy >>
      /\ tool[t].pc \in Idle /\ runs' = runs + 1 /\ runs < MaxRun
  BY DEF Start
<1>2. /\ runs \in Nat /\ runs <= MaxRun /\ tool \in [Tool -> ToolState]
      /\ trace \in [mtime : Nat, version : Nat]
  BY <1>0, BoundsAssumption DEF TypeOK
<1>3. PICK l \in {"stat", "remove", "open"}, s \in Nat, c \in BOOLEAN, v \in Nat,
           d \in BOOLEAN :
        tool' = [tool EXCEPT ![t] =
            [NoRun EXCEPT !.pc = l, !.run = runs + 1, !.stamp = s, !.checked = c,
                          !.version = v, !.disturbed = d]]
  <2> DEFINE l == CASE mode = "auto" -> "stat" [] mode = "force" -> "remove"
                    [] OTHER -> "open"
  <2> DEFINE s == IF mode = "auto" THEN trace.mtime ELSE 0
  <2> DEFINE c == mode # "never"
  <2> DEFINE v == IF mode = "never" THEN 0 ELSE trace.version
  <2> DEFINE d == \E u \in Tool \ {t} : tool[u].pc \in Indexing
  <2>1. tool' = [tool EXCEPT ![t] =
            [NoRun EXCEPT !.pc = l, !.run = runs + 1, !.stamp = s, !.checked = c,
                          !.version = v, !.disturbed = d]]
    BY DEF Start
  <2>2. l \in {"stat", "remove", "open"}
    <3>1. CASE mode = "auto"  BY <3>1
    <3>2. CASE mode = "force"  BY <3>2
    <3>3. CASE mode # "auto" /\ mode # "force"  BY <3>3
    <3> QED  BY <3>1, <3>2, <3>3
  <2>3. s \in Nat /\ v \in Nat  BY <1>2
  <2>4. c \in BOOLEAN /\ d \in BOOLEAN  OBVIOUS
  <2> HIDE DEF l, s, c, v, d
  <2> QED  BY <2>1, <2>2, <2>3, <2>4
<1> DEFINE x == [NoRun EXCEPT !.pc = l, !.run = runs + 1, !.stamp = s,
                              !.checked = c, !.version = v, !.disturbed = d]
<1>4. runs + 1 \in Run  BY <1>1, <1>2, BoundsAssumption DEF Run
<1>5. x \in ToolState /\ x.pc = l /\ x.run = runs + 1 /\ x.parts = << >>
  BY <1>4, NoRunType DEF ToolState, Indexing, NoRun
<1>6. x.pc \notin Writing /\ x.pc \notin Idle
  BY <1>5 DEF Writing, Idle
<1> HIDE DEF x
<1>7. tool' = [tool EXCEPT ![t] = x]  BY <1>3 DEF x
<1>8. /\ tool' \in [Tool -> ToolState] /\ tool'[t] = x
      /\ \A u \in Tool : u # t => tool'[u] = tool[u]
  BY <1>2, <1>5, <1>7, QuietMoves
<1>9. TypeOK'
  <2>1. runs' \in 0 .. MaxRun  BY <1>1, <1>2, BoundsAssumption
  <2> QED  BY <1>0, <1>1, <1>8, <2>1 DEF TypeOK
<1>10. Proper'  BY <1>0, <1>5, <1>6, <1>8 DEF Proper, Writing
<1>11. \A i \in Run : NotMade(i) => NotMade(i)'
  <2> SUFFICES ASSUME NEW i \in Run, NotMade(i) PROVE NotMade(i)'
    OBVIOUS
  <2>1. \A u \in Tool : tool'[u].pc \in Writing => tool'[u].inode # i
    BY <1>6, <1>8 DEF NotMade
  <2> QED  BY <1>1, <2>1 DEF NotMade
<1>12. RunsFresh'
  <2>1. \A i \in Run : i > runs' => NotMade(i)'
    <3>1. \A i \in Run : i > runs + 1 => i > runs  BY <1>2 DEF Run
    <3>2. \A i \in Run : i > runs => NotMade(i)  BY <1>0 DEF RunsFresh
    <3>3. \A i \in Run : i > runs + 1 => NotMade(i)'  BY <3>1, <3>2, <1>11
    <3> QED  BY <3>3, <1>1
  <2>2. \A u \in Tool : tool'[u].pc \notin Idle => tool'[u].run \in 1 .. runs'
    <3> SUFFICES ASSUME NEW u \in Tool, tool'[u].pc \notin Idle
                 PROVE  tool'[u].run \in 1 .. runs'
      OBVIOUS
    <3>1. CASE u = t  BY <3>1, <1>1, <1>2, <1>5, <1>8
    <3>2. CASE u # t
      <4>1. tool[u].run \in 1 .. runs /\ tool'[u] = tool[u]
        BY <3>2, <1>0, <1>8 DEF RunsFresh
      <4> QED  BY <4>1, <1>1, <1>2
    <3> QED  BY <3>1, <3>2
  <2>3. ASSUME NEW u \in Tool, tool'[u].pc \in Early
        PROVE  NotMade(tool[u].run)'
    <3>1. PICK j \in Run : j = tool'[u].run /\ NotMade(j)
      <4>1. CASE u = t
        <5>1. runs + 1 > runs  BY <1>2
        <5>2. NotMade(runs + 1)  BY <5>1, <1>0, <1>4 DEF RunsFresh
        <5>3. tool'[u].run = runs + 1  BY <4>1, <1>5, <1>8
        <5> QED  BY <5>2, <5>3, <1>4
      <4>2. CASE u # t
        <5>1. tool'[u] = tool[u] /\ tool[u].pc \in Early /\ tool[u].pc \notin Idle
          BY <4>2, <2>3, <1>8 DEF Early, Idle
        <5>2. NotMade(tool[u].run) /\ tool[u].run \in 1 .. runs
          BY <5>1, <1>0 DEF RunsFresh
        <5>3. tool[u].run \in Run  BY <5>2, <1>2, BoundsAssumption DEF Run
        <5> QED  BY <5>1, <5>2, <5>3
      <4> QED  BY <4>1, <4>2
    <3>2. NotMade(j)'  BY <3>1, <1>11
    <3> QED  BY <3>1, <3>2 DEF NotMade
  <2>4. ASSUME NEW u \in Tool, NEW w \in Tool, u # w,
               tool'[u].pc \notin Idle, tool'[w].pc \notin Idle
        PROVE  tool'[u].run # tool'[w].run
    <3>1. CASE u # t /\ w # t  BY <2>4, <3>1, <1>0, <1>8 DEF RunsFresh
    <3>2. CASE u = t
      <4>1. tool[w].run \in 1 .. runs /\ tool'[w] = tool[w]
        BY <2>4, <3>2, <1>0, <1>8 DEF RunsFresh
      <4> QED  BY <4>1, <3>2, <1>2, <1>5, <1>8
    <3>3. CASE w = t
      <4>1. tool[u].run \in 1 .. runs /\ tool'[u] = tool[u]
        BY <2>4, <3>3, <1>0, <1>8 DEF RunsFresh
      <4> QED  BY <4>1, <3>3, <1>2, <1>5, <1>8
    <3> QED  BY <3>1, <3>2, <3>3
  <2>5. \A u, w \in Tool :
           u # w /\ tool'[u].pc \notin Idle /\ tool'[w].pc \notin Idle
           => tool'[u].run # tool'[w].run
    BY <2>4
  <2> QED  BY <2>1, <2>2, <2>3, <2>5 DEF RunsFresh
<1>13. AloneKnows'
  <2> SUFFICES ASSUME NEW u \in Tool, Alone(u)'
               PROVE  Sole(u)' /\ Knows(tool[u], file[tool[u].inode].cells)'
    BY DEF AloneKnows
  <2>1. u # t /\ tool'[u] = tool[u]  BY <1>6, <1>8 DEF Alone
  <2>2. Alone(u)  BY <1>1, <2>1 DEF Alone
  <2>3. Sole(u) /\ Knows(tool[u], file[tool[u].inode].cells)
    BY <2>2, <1>0 DEF AloneKnows
  <2>4. Sole(u)'  BY <1>6, <1>8, <2>1, <2>3 DEF Sole
  <2>5. file'[tool'[u].inode].cells = file[tool[u].inode].cells  BY <1>1, <2>1
  <2>6. Knows(tool'[u], file'[tool'[u].inode].cells)  BY <2>1, <2>3, <2>5
  <2> QED  BY <2>4, <2>6 DEF Knows, MadeBy
<1> QED  BY <1>9, <1>10, <1>12, <1>13 DEF Inv

\* A step that takes the name away, and changes nothing else that others
\* could see.
LEMMA UnlinkStep ==
    ASSUME Inv, NEW t \in Tool, NEW x \in ToolState, Visibly(t, x),
           x.pc \notin Writing, x.pc # "header", x.parts = << >>,
           \/ x.pc \in Idle
           \/ tool[t].pc \in Early /\ x.run = tool[t].run,
           name' = None,
           UNCHANGED << clock, trace, file, runs, overlap, reused, torn, racy >>
    PROVE  Inv'
<1>0. TypeOK /\ Proper /\ RunsFresh /\ AloneKnows  BY DEF Inv
<1>1. UNCHANGED << clock, trace, file, runs, overlap, reused, torn, racy >>
      /\ name' = None
  OBVIOUS
<1>2. tool \in [Tool -> ToolState]  BY <1>0 DEF TypeOK
<1>5. /\ tool' \in [Tool -> ToolState] /\ tool'[t] = x
      /\ \A u \in Tool : u # t => Alike(tool'[u], tool[u])
  BY <1>2, VisiblyMoves
<1>6. TypeOK'  BY <1>0, <1>1, <1>5 DEF TypeOK
<1>7. \A u \in Tool : tool'[u].pc \in Writing => u # t  BY <1>5
<1>8. Proper'
  BY <1>0, <1>5 DEF Proper, Alike, Writing
<1>9. RunsFresh'
  <2>1. \/ tool'[t].pc \in Idle
        \/ /\ tool[t].pc \notin Idle /\ tool'[t].run = tool[t].run
           /\ tool'[t].pc \in Early => tool[t].pc \in Early
           /\ tool'[t].pc \notin Writing
    BY <1>5 DEF Idle, Early
  <2> QED  BY <1>0, <1>1, <1>5, <2>1, FreshStays
<1>10. AloneKnows'
  <2> SUFFICES ASSUME NEW u \in Tool, Alone(u)'
               PROVE  Sole(u)' /\ Knows(tool[u], file[tool[u].inode].cells)'
    BY DEF AloneKnows
  <2>1. u # t  BY <1>7 DEF Alone
  <2>2. Alike(tool'[u], tool[u])  BY <2>1, <1>5
  <2>3. Alone(u)  BY <2>2, <1>1 DEF Alone, Alike
  <2>4. Sole(u) /\ Knows(tool[u], file[tool[u].inode].cells)
    BY <2>3, <1>0 DEF AloneKnows
  <2>5. Sole(u)'  BY <2>2, <2>4, <1>5, <1>7 DEF Sole, Alike
  <2>6. Knows(tool'[u], file[tool[u].inode].cells)  BY <2>2, <2>4, KnowsAlike
  <2>7. file'[tool'[u].inode].cells = file[tool[u].inode].cells
    BY <2>2, <1>1 DEF Alike
  <2>8. Knows(tool'[u], file'[tool'[u].inode].cells)  BY <2>6, <2>7
  <2> QED  BY <2>5, <2>8 DEF Knows, MadeBy
<1> QED  BY <1>6, <1>8, <1>9, <1>10 DEF Inv

LEMMA RemoveInv ==
    ASSUME Inv, NEW t \in Tool, Remove(t)
    PROVE  Inv'
<1> DEFINE x == [tool[t] EXCEPT !.pc = "create"]
<1>1. /\ tool[t].pc = "remove" /\ Visibly(t, x) /\ name' = None
      /\ UNCHANGED << clock, trace, file, runs, overlap, reused, torn, racy >>
  BY DEF Remove, NameRemoved
<1>2. tool[t] \in ToolState  BY DEF Inv, TypeOK
<1>3. x \in ToolState /\ x.pc = "create" /\ x.run = tool[t].run
      /\ x.parts = tool[t].parts
  BY <1>2 DEF ToolState, Indexing
<1> HIDE DEF x
<1>4. tool[t].pc \in Early /\ x.parts = << >>
  BY <1>1, <1>3 DEF Inv, Proper, Early
<1>5. x.pc \notin Writing /\ x.pc # "header"  BY <1>3 DEF Writing
<1> QED  BY <1>1, <1>3, <1>4, <1>5, UnlinkStep

LEMMA ParseErrorInv ==
    ASSUME Inv, NEW t \in Tool, ParseError(t)
    PROVE  Inv'
<1>1. /\ Visibly(t, NoRun) /\ name' = None
      /\ UNCHANGED << clock, trace, file, runs, overlap, reused, torn, racy >>
  BY DEF ParseError
<1>2. /\ NoRun \in ToolState /\ NoRun.pc \in Idle /\ NoRun.parts = << >>
  BY NoRunType DEF NoRun, Idle
<1>3. NoRun.pc \notin Writing /\ NoRun.pc # "header"  BY DEF NoRun, Writing
<1> QED  BY <1>1, <1>2, <1>3, UnlinkStep

\* What a step does to whole indexes.
Kept == \A i \in Run : Whole(file[i].cells) /\ i \notin overlap'
                       => Whole(file'[i].cells)

\* open() leaves t with a file of its own, or with one that is marked as
\* shared, or with one that nobody writes to any more.
Opens(t, i, cells, x) ==
    /\ tool[t].pc = "create"
    /\ x.pc = "header" /\ x.run = tool[t].run /\ x.inode = i
    /\ x.next = Len(cells) /\ x.size = Len(cells) /\ x.parts = tool[t].parts
    /\ Visibly(t, x)
    /\ name' = i
    /\ file' \in [Run -> [cells : Seq(Cell), mtime : Nat]]
    /\ file'[i].cells = cells
    /\ \A j \in Run : j # i => file'[j] = file[j]
    /\ overlap' = IF WritersOf(i) # {} THEN overlap \cup {i} ELSE overlap
    /\ reused' \subseteq Run
    /\ \A j \in Run : j > runs => i # j
    /\ \A u \in Tool : u # t /\ tool[u].pc \in Early => tool[u].run # i
    /\ UNCHANGED << clock, trace, runs, torn, racy >>

LEMMA OpenedStep ==
    ASSUME Inv, NEW t \in Tool, NEW i \in Run, NEW cells \in Seq(Cell),
           NEW x \in ToolState, Opens(t, i, cells, x)
    PROVE  Inv'
<1> USE DEF Opens
<1>0. /\ TypeOK /\ Proper /\ RunsFresh /\ AloneKnows
      /\ tool \in [Tool -> ToolState] /\ runs \in Nat /\ runs <= MaxRun
  BY BoundsAssumption DEF Inv, TypeOK
<1>1. /\ tool' \in [Tool -> ToolState] /\ tool'[t] = x
      /\ \A u \in Tool : u # t => Alike(tool'[u], tool[u])
  BY <1>0, VisiblyMoves
<1>2. /\ x.pc \in Writing /\ x.pc \notin Early /\ x.pc \notin Idle
      /\ tool[t].pc \in Early /\ tool[t].pc \notin Idle
  BY DEF Writing, Early, Idle
<1>3. x.parts = << >>  BY <1>0, <1>2 DEF Proper
<1>4. TypeOK'
  <2>1. overlap' \subseteq Run  BY <1>0 DEF TypeOK
  <2> QED  BY <1>0, <1>1, <2>1 DEF TypeOK
<1>5. Proper'  BY <1>0, <1>1, <1>2, <1>3 DEF Proper, Alike
<1>6. \A j \in Run : NotMade(j) /\ j # i => NotMade(j)'
  <2> SUFFICES ASSUME NEW j \in Run, NotMade(j), j # i PROVE NotMade(j)'
    OBVIOUS
  <2>1. file'[j].cells = << >> /\ name' # j /\ j \notin overlap'  BY DEF NotMade
  <2>2. \A u \in Tool : tool'[u].pc \in Writing => tool'[u].inode # j
    BY <1>1 DEF NotMade, Alike
  <2> QED  BY <2>1, <2>2 DEF NotMade
<1>7. RunsFresh'
  <2>1. \A j \in Run : j > runs' => NotMade(j)'  BY <1>0, <1>6 DEF RunsFresh
  <2>2. \A u \in Tool : tool'[u].pc \notin Idle =>
           tool[u].pc \notin Idle /\ tool'[u].run = tool[u].run
    BY <1>1, <1>2 DEF Alike
  <2>3. \A u \in Tool : tool'[u].pc \notin Idle => tool'[u].run \in 1 .. runs'
    BY <1>0, <2>2 DEF RunsFresh
  <2>4. ASSUME NEW u \in Tool, tool'[u].pc \in Early
        PROVE  NotMade(tool[u].run)'
    <3>1. /\ u # t /\ tool[u].pc \in Early /\ tool[u].pc \notin Idle
          /\ tool'[u].run = tool[u].run
      BY <2>4, <1>1, <1>2 DEF Alike, Early, Idle
    <3>2. /\ NotMade(tool[u].run) /\ tool[u].run \in 1 .. runs
          /\ tool[u].run # i
      BY <3>1, <1>0 DEF RunsFresh
    <3>3. tool[u].run \in Run  BY <3>2, <1>0, BoundsAssumption DEF Run
    <3>4. PICK j \in Run : j = tool'[u].run /\ j # i /\ NotMade(j)
      BY <3>1, <3>2, <3>3
    <3>5. NotMade(j)'  BY <3>4, <1>6
    <3> QED  BY <3>4, <3>5 DEF NotMade
  <2>5. \A u, w \in Tool :
           u # w /\ tool'[u].pc \notin Idle /\ tool'[w].pc \notin Idle
           => tool'[u].run # tool'[w].run
    BY <2>2, <1>0 DEF RunsFresh
  <2> QED  BY <2>1, <2>3, <2>4, <2>5 DEF RunsFresh
<1>8. AloneKnows'
  <2> SUFFICES ASSUME NEW u \in Tool, Alone(u)'
               PROVE  Sole(u)' /\ Knows(tool[u], file[tool[u].inode].cells)'
    BY DEF AloneKnows
  <2>1. CASE u = t
    <3>1. i \notin overlap'  BY <2>1, <1>1 DEF Alone
    <3>2. \A w \in Tool : tool[w].pc \in Writing => tool[w].inode # i
      BY <3>1 DEF WritersOf
    <3>3. Sole(u)'  BY <2>1, <3>2, <1>1 DEF Sole, Alike
    <3>4. MadeBy(x.run, cells, x.parts)  BY <1>3 DEF MadeBy
    <3>5. Knows(x, cells)  BY <1>3, <3>4 DEF Knows
    <3>6. Knows(tool'[u], file'[tool'[u].inode].cells)  BY <2>1, <3>5, <1>1
    <3> QED  BY <3>3, <3>6 DEF Knows, MadeBy
  <2>2. CASE u # t
    <3>1. Alike(tool'[u], tool[u])  BY <2>2, <1>1
    <3>2. Alone(u)  BY <3>1 DEF Alone, Alike
    <3>3. Sole(u) /\ Knows(tool[u], file[tool[u].inode].cells)
      BY <3>2, <1>0 DEF AloneKnows
    <3>4. tool'[u].inode = tool[u].inode /\ tool[u].inode \in Run
      BY <3>1, <3>2, <1>0 DEF Alike, Alone, Proper
    <3>5. tool[u].inode # i
      <4>1. tool[u].inode = i => WritersOf(i) # {}
        BY <3>2 DEF WritersOf, Alone
      <4>2. tool'[u].inode \notin overlap'  BY DEF Alone
      <4> QED  BY <3>4, <4>1, <4>2
    <3>6. Sole(u)'  BY <2>2, <3>1, <3>3, <3>5, <1>1 DEF Sole, Alike
    <3>7. Knows(tool'[u], file[tool[u].inode].cells)  BY <3>1, <3>3, KnowsAlike
    <3>8. Knows(tool'[u], file'[tool'[u].inode].cells)  BY <3>4, <3>5, <3>7
    <3> QED  BY <3>6, <3>8 DEF Knows, MadeBy
  <2> QED  BY <2>1, <2>2
<1> QED  BY <1>4, <1>5, <1>7, <1>8 DEF Inv

LEMMA CreateInv ==
    ASSUME Inv, NEW t \in Tool, Create(t)
    PROVE  Inv' /\ Kept
<1>0. /\ TypeOK /\ Proper /\ RunsFresh /\ AloneKnows
      /\ tool \in [Tool -> ToolState] /\ tool[t] \in ToolState
      /\ file \in [Run -> [cells : Seq(Cell), mtime : Nat]]
      /\ clock \in Nat /\ runs \in Nat /\ runs <= MaxRun
      /\ reused \subseteq Run /\ name \in {None} \cup Run
  BY BoundsAssumption DEF Inv, TypeOK
<1>1. tool[t].pc = "create"  BY DEF Create
<1>2. tool[t].pc \in Early /\ tool[t].pc \notin Idle  BY <1>1 DEF Early, Idle
<1>3. UNCHANGED << clock, trace, runs, torn, racy >>  BY DEF Create
<1>4. \A u \in Tool : u # t /\ tool[u].pc \in Early =>
         /\ tool[u].run # tool[t].run /\ NotMade(tool[u].run)
         /\ tool[u].run \in 1 .. runs
  BY <1>0, <1>2 DEF RunsFresh, Early, Idle
<1>5. CASE name = None
  <2> DEFINE i == tool[t].run
  <2>1. i \in 1 .. runs /\ NotMade(i)  BY <1>0, <1>2 DEF RunsFresh
  <2>2. i \in Run  BY <1>0, <2>1, BoundsAssumption DEF Run
  <2>3. FirstFree(i) = 0 /\ file[i].cells = << >>  BY <2>1 DEF FirstFree, NotMade
  <2> DEFINE x == [tool[t] EXCEPT !.pc = "header", !.inode = i,
                                  !.next = 0, !.size = 0, !.built = TRUE]
  <2>4. /\ Visibly(t, x) /\ name' = i
        /\ file' = [file EXCEPT ![i] = [cells |-> << >>, mtime |-> clock]]
        /\ overlap' = IF WritersOf(i) # {} THEN overlap \cup {i} ELSE overlap
        /\ reused' = reused
    BY <1>5, <2>3 DEF Create
  <2>5. /\ x \in ToolState /\ x.pc = "header" /\ x.run = tool[t].run
        /\ x.inode = i /\ x.next = 0 /\ x.size = 0 /\ x.parts = tool[t].parts
    BY <1>0, <2>2 DEF ToolState, Indexing, Writing
  <2> HIDE DEF x
  <2> DEFINE none == << >>
  <2>6. none \in Seq(Cell) /\ x.next = Len(none) /\ x.size = Len(none)
    BY <2>5
  <2>7. \A u \in Tool : u # t /\ tool[u].pc \in Early => tool[u].run # i
    BY <1>4
  <2>8. \A j \in Run : j > runs => i # j  BY <1>0, <2>1 DEF Run
  <2> HIDE DEF i
  <2>9. /\ file' \in [Run -> [cells : Seq(Cell), mtime : Nat]]
        /\ file'[i].cells = none
        /\ \A j \in Run : j # i => file'[j] = file[j]
    BY <1>0, <2>2, <2>4, <2>6
  <2> HIDE DEF none
  <2>10. Inv'
    <3>1. reused' \subseteq Run  BY <1>0, <2>4
    <3>2. Opens(t, i, none, x)
      BY <3>1, <1>1, <1>3, <2>4, <2>5, <2>6, <2>7, <2>8, <2>9 DEF Opens
    <3> QED  BY <3>2, <2>2, <2>5, <2>6, OpenedStep
  <2>11. ~Whole(file[i].cells)  BY <2>3 DEF Whole
  <2>12. Kept  BY <2>9, <2>11 DEF Kept
  <2> QED  BY <2>10, <2>12
<1>6. CASE name # None
  <2> DEFINE i == name
  <2> DEFINE n == Len(file[i].cells)
  <2>1. i \in Run  BY <1>0, <1>6
  <2>2. n \in Nat /\ file[i].cells \in Seq(Cell)  BY <1>0, <2>1
  <2> DEFINE x == [tool[t] EXCEPT !.pc = "header", !.inode = i,
                                  !.next = n, !.size = n, !.built = TRUE]
  <2>4. /\ Visibly(t, x) /\ name' = i /\ file' = file
        /\ overlap' = IF WritersOf(i) # {} THEN overlap \cup {i} ELSE overlap
        /\ reused' = reused \cup {i}
    BY <1>6 DEF Create, FirstFree
  <2>5. /\ x \in ToolState /\ x.pc = "header" /\ x.run = tool[t].run
        /\ x.inode = i /\ x.next = n /\ x.size = n /\ x.parts = tool[t].parts
    BY <1>0, <2>1, <2>2 DEF ToolState, Indexing, Writing
  <2> HIDE DEF x
  <2>7. \A u \in Tool : u # t /\ tool[u].pc \in Early => tool[u].run # i
    BY <1>4 DEF NotMade
  <2>8. \A j \in Run : j > runs => i # j  BY <1>0 DEF RunsFresh, NotMade
  <2>9. reused' \subseteq Run  BY <1>0, <2>1, <2>4
  <2> DEFINE cells == file[i].cells
  <2>10. /\ file' \in [Run -> [cells : Seq(Cell), mtime : Nat]]
         /\ file'[i].cells = cells
         /\ \A j \in Run : j # i => file'[j] = file[j]
         /\ cells \in Seq(Cell) /\ x.next = Len(cells) /\ x.size = Len(cells)
    BY <1>0, <2>2, <2>4, <2>5
  <2> HIDE DEF i, cells
  <2>12. Inv'
    <3>1. Opens(t, i, cells, x)
      BY <1>1, <1>3, <2>4, <2>5, <2>7, <2>8, <2>9, <2>10 DEF Opens
    <3> QED  BY <3>1, <2>1, <2>5, <2>10, OpenedStep
  <2>11. Kept  BY <2>4 DEF Kept
  <2> QED  BY <2>11, <2>12
<1> QED  BY <1>5, <1>6

\* What the actions of a writing tool have in common.
LEMMA WriterTypes ==
    ASSUME Inv, NEW t \in Tool, tool[t].pc \in Writing
    PROVE  /\ tool[t].inode \in Run
           /\ tool[t] \in ToolState
           /\ file[tool[t].inode] \in [cells : Seq(Cell), mtime : Nat]
           /\ clock \in Nat /\ trace.version \in Nat
           /\ tool[t].next \in Nat /\ tool[t].size \in Nat
           /\ tool[t].header \in Nat /\ tool[t].parts \in Seq(Nat)
           /\ tool[t].run \in Run
           /\ Alone(t) => Knows(tool[t], file[tool[t].inode].cells)
<1>1. tool[t].inode \in Run  BY DEF Inv, Proper
<1>2. tool[t] \in ToolState /\ file[tool[t].inode] \in [cells : Seq(Cell), mtime : Nat]
      /\ clock \in Nat /\ trace.version \in Nat
  BY <1>1 DEF Inv, TypeOK
<1>3. tool[t].run \in Run
  <2>1. runs \in 0 .. MaxRun  BY DEF Inv, TypeOK
  <2>2. tool[t].run \in 1 .. runs  BY DEF Inv, RunsFresh, Writing, Idle
  <2> QED  BY <2>1, <2>2, BoundsAssumption DEF Run
<1>4. Alone(t) => Knows(tool[t], file[tool[t].inode].cells)
  BY DEF Inv, AloneKnows
<1> QED  BY <1>1, <1>2, <1>3, <1>4 DEF ToolState

LEMMA GrowInv ==
    ASSUME Inv, NEW t \in Tool, Grow(t)
    PROVE  Inv' /\ Kept
<1> DEFINE r == tool[t]
<1> DEFINE i0 == r.inode
<1> DEFINE cells == file[i0].cells
<1> DEFINE n == r.next + 1 + Slack
<1> DEFINE new == Truncated(cells, n)
<1> DEFINE x == [r EXCEPT !.size = n]
<1>1. r.pc \in {"header", "part"} /\ r.next = r.size  BY DEF Grow
<1>2. r.pc \in Writing  BY <1>1 DEF Writing
<1>3. /\ i0 \in Run /\ r \in ToolState /\ cells \in Seq(Cell) /\ clock \in Nat
      /\ r.next \in Nat
      /\ Alone(t) => Knows(r, cells)
  BY <1>2, WriterTypes
<1>4. n \in Nat /\ n = r.next + 1 + Slack /\ n >= r.next
  BY <1>3, BoundsAssumption
<1>5. /\ file' = [file EXCEPT ![i0] = [cells |-> new, mtime |-> clock]]
      /\ Visibly(t, x)
      /\ UNCHANGED << clock, trace, name, runs, overlap, reused, torn, racy >>
  BY DEF Grow
<1>6. /\ x \in ToolState /\ x.pc = r.pc /\ x.run = r.run /\ x.inode = i0
      /\ x.parts = r.parts
  BY <1>3, <1>4 DEF ToolState
<1>7. /\ x.pc # "header" \/ x.parts = << >>
      /\ x.pc = "part" => Len(x.parts) < Parts
      /\ x.pc \notin {"flags", "roots", "close"}
      /\ x.pc \in Writing \ {"header"} => x.header # 0
  BY <1>1, <1>3, <1>6 DEF Inv, Proper, ToolState
<1> HIDE DEF cells, n
<1>8. new \in Seq(Cell)  BY <1>3, <1>4, CellsTruncated
<1>9. ASSUME Alone(t) PROVE Knows(x, new)
  <2>1. Knows(r, cells)  BY <1>3, <1>9
  <2> HIDE DEF r
  <2> QED  BY <2>1, <1>1, <1>3, <1>4, GrowKnows
<1>10. ASSUME Alone(t), Whole(cells) PROVE Whole(new)
  <2>1. Knows(r, cells)  BY <1>3, <1>10
  <2> HIDE DEF r
  <2> QED  BY <2>1, <1>3, <1>4, <1>10, TruncatedWhole
<1> HIDE DEF x, new
<1>11. /\ Inv'
       /\ \A i \in Run : Whole(file[i].cells) /\ i \notin overlap
                        => Whole(file'[i].cells)
  BY <1>2, <1>3, <1>5, <1>6, <1>7, <1>8, <1>9, <1>10, FileStep DEF cells
<1> QED  BY <1>5, <1>11 DEF Kept

\* File i now has these cells, and nothing else is different.
Becomes(i, new) ==
    /\ new \in Seq(Cell)
    /\ \E m \in Nat : file' = [file EXCEPT ![i] = [cells |-> new, mtime |-> m]]

\* A store by t, as FileStep wants it.
LEMMA StoreChange ==
    ASSUME Inv, NEW t \in Tool, tool[t].pc \in Writing,
           NEW p \in Nat, NEW c \in Cell, Store(t, p, c)
    PROVE  Becomes(tool[t].inode, [file[tool[t].inode].cells EXCEPT ![p] = c])
<1> DEFINE i0 == tool[t].inode
<1> DEFINE cells == file[i0].cells
<1>1. /\ i0 \in Run /\ file[i0] \in [cells : Seq(Cell), mtime : Nat]
      /\ clock \in Nat
  BY WriterTypes
<1>2. p <= Len(cells)  BY DEF Store
<1>3. PICK m \in {file[i0].mtime, clock} :
         file' = [file EXCEPT ![i0] = [cells |-> [@.cells EXCEPT ![p] = c], mtime |-> m]]
  BY DEF Store
<1>4. m \in Nat /\ cells \in Seq(Cell)  BY <1>1
<1>5. [cells EXCEPT ![p] = c] \in Seq(Cell)
  <2>1. CASE p = 0
    <3>1. [cells EXCEPT ![p] = c] = cells  BY <2>1, <1>4
    <3> QED  BY <3>1, <1>4
  <2>2. CASE p # 0
    <3>1. p \in 1 .. Len(cells)  BY <2>2, <1>2, <1>4
    <3> QED  BY <3>1, <1>4, CellsStored
  <2> QED  BY <2>1, <2>2
<1>6. file' = [file EXCEPT ![i0] = [cells |-> [cells EXCEPT ![p] = c], mtime |-> m]]
  BY <1>1, <1>3 DEF Inv, TypeOK
<1> HIDE DEF cells
<1>7. Becomes(i0, [cells EXCEPT ![p] = c])  BY <1>4, <1>5, <1>6 DEF Becomes
<1> QED  BY <1>7 DEF cells

LEMMA InitHeaderInv ==
    ASSUME Inv, NEW t \in Tool, InitHeader(t)
    PROVE  Inv' /\ Kept
<1> DEFINE r == tool[t]
<1> DEFINE i0 == r.inode
<1> DEFINE cells == file[i0].cells
<1> DEFINE p == r.next + 1
<1> DEFINE c == Header(FALSE, HeaderAt(cells, p).roots)
<1> DEFINE new == [cells EXCEPT ![p] = c]
<1> DEFINE x == [r EXCEPT !.pc = "part", !.next = @ + 1, !.header = r.next + 1]
<1>1. r.pc = "header" /\ r.next < r.size  BY DEF InitHeader
<1>2. r.pc \in Writing  BY <1>1 DEF Writing
<1>3. /\ i0 \in Run /\ r \in ToolState /\ cells \in Seq(Cell)
      /\ r.next \in Nat
      /\ Alone(t) => Knows(r, cells)
  BY <1>2, WriterTypes
<1>4. p \in Nat \ {0}  BY <1>3
<1>5. Store(t, p, c) /\ Visibly(t, x)
      /\ UNCHANGED << clock, trace, name, runs, overlap, reused, torn, racy >>
  BY DEF InitHeader
<1>6. r.parts = << >>  BY <1>1 DEF Inv, Proper
<1>7. /\ x \in ToolState /\ x.pc = "part" /\ x.run = r.run /\ x.inode = i0
      /\ x.parts = << >> /\ x.header # 0
  BY <1>3, <1>4, <1>6 DEF ToolState, Indexing, Writing
<1>8. Len(x.parts) < Parts  BY <1>7, BoundsAssumption
<1> HIDE DEF cells
<1>9. c \in Cell /\ c.kind = "header"
  <2>1. HeaderAt(cells, p).roots \in Seq(Nat)  BY <1>3, <1>4, HeaderAtType
  <2>2. c \in Cell  BY <2>1, HeaderIsCell
  <2> QED  BY <2>2 DEF Header
<1> HIDE DEF c
<1>10. new \in Seq(Cell) /\ \E m \in Nat : file' = [file EXCEPT ![i0] =
                               [cells |-> new, mtime |-> m]]
  <2>1. /\ tool[t].pc \in Writing /\ p \in Nat \ {0} /\ c \in Cell
        /\ Store(t, p, c)
    BY <1>2, <1>4, <1>5, <1>9
  <2> HIDE DEF p
  <2>2. Becomes(tool[t].inode, [file[tool[t].inode].cells EXCEPT ![p] = c])
    BY <2>1, StoreChange
  <2> QED  BY <2>2 DEF cells, Becomes
<1>11. PICK m \in Nat : file' = [file EXCEPT ![i0] = [cells |-> new, mtime |-> m]]
  BY <1>10
<1>12. ASSUME Alone(t) PROVE Knows(x, new)
  <2>1. Knows(r, cells)  BY <1>3, <1>12
  <2> HIDE DEF r
  <2> QED  BY <2>1, <1>1, <1>3, <1>6, <1>9, HeaderKnows
<1>13. ASSUME Alone(t), Whole(cells) PROVE Whole(new)
  <2>1. Knows(r, cells)  BY <1>3, <1>13
  <2> HIDE DEF r
  <2> QED  BY <2>1, <1>1, <1>3, <1>9, <1>13, AppendedWhole
<1> HIDE DEF x, new
<1>14. /\ x.pc \in Writing \cup {"open"}
       /\ x.pc # "header" \/ x.parts = << >>
       /\ x.pc \notin {"flags", "roots", "close"}
       /\ x.header # 0
  BY <1>7 DEF Writing
<1>15. /\ Inv'
       /\ \A i \in Run : Whole(file[i].cells) /\ i \notin overlap
                        => Whole(file'[i].cells)
  BY <1>2, <1>5, <1>7, <1>8, <1>10, <1>11, <1>12, <1>13, <1>14, FileStep DEF cells
<1> QED  BY <1>5, <1>15 DEF Kept

LEMMA WritePartInv ==
    ASSUME Inv, NEW t \in Tool, WritePart(t)
    PROVE  Inv' /\ Kept
<1> DEFINE r == tool[t]
<1> DEFINE i0 == r.inode
<1> DEFINE cells == file[i0].cells
<1> DEFINE p == r.next + 1
<1> DEFINE k == Len(r.parts) + 1
<1> DEFINE pc == IF k = Parts THEN "flags" ELSE "part"
<1> DEFINE e == r.events \/ trace.version > 0
<1> DEFINE c == Part(r.run, k, trace.version)
<1> DEFINE new == [cells EXCEPT ![p] = c]
<1> DEFINE x == [r EXCEPT !.pc = pc, !.next = r.next + 1,
                          !.parts = Append(@, r.next + 1), !.events = e]
<1>1. r.pc = "part" /\ r.next < r.size  BY DEF WritePart
<1>2. r.pc \in Writing  BY <1>1 DEF Writing
<1>3. /\ i0 \in Run /\ r \in ToolState /\ cells \in Seq(Cell)
      /\ r.next \in Nat /\ r.parts \in Seq(Nat) /\ r.run \in Run
      /\ trace.version \in Nat /\ r.header # 0
      /\ Alone(t) => Knows(r, cells)
  BY <1>1, <1>2, WriterTypes DEF Inv, Proper
<1>4. p \in Nat \ {0}  BY <1>3
<1>5. Store(t, p, c)
      /\ UNCHANGED << clock, trace, name, runs, overlap, reused, torn, racy >>
  BY DEF WritePart
<1>6. Visibly(t, x)
  <2>1. x = [r EXCEPT !.pc = pc, !.next = p, !.parts = Append(@, p),
                      !.events = @ \/ trace.version > 0]
    BY <1>3
  <2> QED  BY <2>1 DEF WritePart
<1>7. Len(r.parts) < Parts  BY <1>1 DEF Inv, Proper
<1>8. k \in 1 .. Parts  BY <1>3, <1>7, BoundsAssumption
<1>9. Append(r.parts, p) \in Seq(Nat) /\ Len(Append(r.parts, p)) = k
  BY <1>3, <1>4
<1>10. /\ x \in ToolState /\ x.pc = pc /\ x.run = r.run /\ x.inode = i0
       /\ x.parts = Append(r.parts, p) /\ x.header # 0
  <2>1. pc \in {"flags", "part"} /\ e \in BOOLEAN /\ p \in Nat  BY <1>3, <1>4
  <2> HIDE DEF pc, e, p
  <2>2. r.next + 1 = p  BY DEF p
  <2> QED  BY <2>1, <2>2, <1>3, <1>9 DEF ToolState, Indexing, Writing
<1>11. /\ x.pc \in Writing \cup {"open"}
       /\ x.pc # "header" \/ x.parts = << >>
       /\ x.pc = "part" => Len(x.parts) < Parts
       /\ x.pc \in {"flags", "roots", "close"} => Len(x.parts) = Parts
       /\ x.header # 0
  BY <1>8, <1>9, <1>10, BoundsAssumption DEF Writing
<1>12. c \in Cell  BY <1>3, <1>8, PartIsCell
<1> HIDE DEF cells
<1>13. ASSUME Alone(t) PROVE Knows(x, new)
  <2>1. Knows(r, cells)  BY <1>3, <1>13
  <2> HIDE DEF r, pc, e
  <2> QED  BY <2>1, <1>1, <1>3, <1>7, PartKnows
<1> HIDE DEF c
<1>14. new \in Seq(Cell) /\ \E m \in Nat : file' = [file EXCEPT ![i0] =
                               [cells |-> new, mtime |-> m]]
  <2>1. /\ tool[t].pc \in Writing /\ p \in Nat \ {0} /\ c \in Cell
        /\ Store(t, p, c)
    BY <1>2, <1>4, <1>5, <1>12
  <2> HIDE DEF p
  <2>2. Becomes(tool[t].inode, [file[tool[t].inode].cells EXCEPT ![p] = c])
    BY <2>1, StoreChange
  <2> QED  BY <2>2 DEF cells, Becomes
<1>15. PICK m \in Nat : file' = [file EXCEPT ![i0] = [cells |-> new, mtime |-> m]]
  BY <1>14
<1>16. ASSUME Alone(t), Whole(cells) PROVE Whole(new)
  <2>1. Knows(r, cells)  BY <1>3, <1>16
  <2> HIDE DEF r
  <2> QED  BY <2>1, <1>1, <1>3, <1>12, <1>16, AppendedWhole
<1> HIDE DEF x, new
<1>17. /\ Inv'
       /\ \A i \in Run : Whole(file[i].cells) /\ i \notin overlap
                        => Whole(file'[i].cells)
  BY <1>2, <1>5, <1>6, <1>10, <1>11, <1>13, <1>14, <1>15, <1>16, FileStep DEF cells
<1> QED  BY <1>5, <1>17 DEF Kept

LEMMA StoreFlagsInv ==
    ASSUME Inv, NEW t \in Tool, StoreFlags(t)
    PROVE  Inv' /\ Kept
<1> DEFINE r == tool[t]
<1> DEFINE i0 == r.inode
<1> DEFINE cells == file[i0].cells
<1> DEFINE p == r.header
<1> DEFINE c == Header(TRUE, HeaderAt(cells, p).roots)
<1> DEFINE new == [cells EXCEPT ![p] = c]
<1> DEFINE x == [r EXCEPT !.pc = "roots"]
<1>1. r.pc = "flags"  BY DEF StoreFlags
<1>2. r.pc \in Writing /\ r.pc # "header"  BY <1>1 DEF Writing
<1>3. /\ i0 \in Run /\ r \in ToolState /\ cells \in Seq(Cell)
      /\ p \in Nat /\ r.parts \in Seq(Nat) /\ r.run \in Run
      /\ p # 0
      /\ Alone(t) => Knows(r, cells)
  BY <1>2, WriterTypes DEF Inv, Proper
<1>4. Len(r.parts) = Parts  BY <1>1 DEF Inv, Proper
<1>5. Store(t, p, c) /\ Visibly(t, x)
      /\ UNCHANGED << clock, trace, name, runs, overlap, reused, torn, racy >>
  BY DEF StoreFlags
<1>6. /\ x \in ToolState /\ x.pc = "roots" /\ x.run = r.run /\ x.inode = i0
      /\ x.parts = r.parts
  BY <1>3 DEF ToolState, Indexing, Writing
<1>7. /\ x.pc \in Writing \cup {"open"} /\ x.pc # "header" /\ x.pc # "part"
      /\ Len(x.parts) = Parts /\ x.header # 0
  BY <1>3, <1>4, <1>6 DEF Writing, ToolState
<1> HIDE DEF cells
<1>8. /\ HeaderAt(cells, p).complete \in BOOLEAN
      /\ HeaderAt(cells, p).roots \in Seq(Nat)
  BY <1>3, HeaderAtType
<1>9. c \in Cell /\ c.kind = "header"
  <2>1. c \in Cell  BY <1>3, <1>8, HeaderIsCell
  <2> QED  BY <2>1 DEF Header
<1>10. ASSUME Alone(t), Whole(cells), p = 1
       PROVE  c.complete /\ c.roots \in Seq(Nat) /\ Leads(cells, c.roots)
  <2>1. p <= Len(cells) /\ cells[p].kind = "header"  BY <1>3, <1>10 DEF Whole
  <2>2. HeaderAt(cells, p) = cells[1]  BY <2>1, <1>10 DEF HeaderAt
  <2>3. c.complete /\ c.roots = cells[1].roots  BY <2>2 DEF Header
  <2> QED  BY <2>2, <2>3, <1>8, <1>10 DEF Whole
<1> HIDE DEF c
<1>11. ASSUME Alone(t) PROVE Knows(x, new)
  <2>1. Knows(r, cells)  BY <1>3, <1>11
  <2> HIDE DEF r
  <2> QED  BY <2>1, <1>2, <1>3, <1>9, StoreKnows
<1>12. ASSUME Alone(t), Whole(cells) PROVE Whole(new)
  <2>1. p \in 1 .. Len(cells) /\ cells[p].kind = "header"
    BY <1>2, <1>3, <1>12 DEF Knows, ToolState
  <2> HIDE DEF p
  <2> QED  BY <2>1, <1>3, <1>9, <1>10, <1>12, HeaderWhole
<1>13. Becomes(i0, new)
  <2> HIDE DEF p
  <2>1. Becomes(tool[t].inode, [file[tool[t].inode].cells EXCEPT ![p] = c])
    BY <1>2, <1>3, <1>5, <1>9, StoreChange
  <2> QED  BY <2>1 DEF cells
<1> HIDE DEF x, new
<1>14. PICK m \in Nat : /\ new \in Seq(Cell)
                        /\ file' = [file EXCEPT ![i0] = [cells |-> new, mtime |-> m]]
  BY <1>13 DEF Becomes
<1>15. /\ Inv'
       /\ \A i \in Run : Whole(file[i].cells) /\ i \notin overlap
                        => Whole(file'[i].cells)
  BY <1>2, <1>5, <1>6, <1>7, <1>11, <1>12, <1>14, FileStep DEF cells
<1> QED  BY <1>5, <1>15 DEF Kept

LEMMA StoreRootsInv ==
    ASSUME Inv, NEW t \in Tool, StoreRoots(t)
    PROVE  Inv' /\ Kept
<1> DEFINE r == tool[t]
<1> DEFINE i0 == r.inode
<1> DEFINE cells == file[i0].cells
<1> DEFINE p == r.header
<1> DEFINE c == Header(HeaderAt(cells, p).complete, r.parts)
<1> DEFINE new == [cells EXCEPT ![p] = c]
<1> DEFINE x == [r EXCEPT !.pc = "close"]
<1>1. r.pc = "roots"  BY DEF StoreRoots
<1>2. r.pc \in Writing /\ r.pc # "header"  BY <1>1 DEF Writing
<1>3. /\ i0 \in Run /\ r \in ToolState /\ cells \in Seq(Cell)
      /\ p \in Nat /\ r.parts \in Seq(Nat) /\ r.run \in Run
      /\ p # 0
      /\ Alone(t) => Knows(r, cells)
  BY <1>2, WriterTypes DEF Inv, Proper
<1>4. Len(r.parts) = Parts  BY <1>1 DEF Inv, Proper
<1>5. Store(t, p, c) /\ Visibly(t, x)
      /\ UNCHANGED << clock, trace, name, runs, overlap, reused, torn, racy >>
  BY DEF StoreRoots
<1>6. /\ x \in ToolState /\ x.pc = "close" /\ x.run = r.run /\ x.inode = i0
      /\ x.parts = r.parts
  BY <1>3 DEF ToolState, Indexing, Writing
<1>7. /\ x.pc \in Writing \cup {"open"} /\ x.pc # "header" /\ x.pc # "part"
      /\ Len(x.parts) = Parts /\ x.header # 0
  BY <1>3, <1>4, <1>6 DEF Writing, ToolState
<1> HIDE DEF cells
<1>8. /\ HeaderAt(cells, p).complete \in BOOLEAN
      /\ HeaderAt(cells, p).roots \in Seq(Nat)
  BY <1>3, HeaderAtType
<1>9. c \in Cell /\ c.kind = "header"
  <2>1. c \in Cell  BY <1>3, <1>8, HeaderIsCell
  <2> QED  BY <2>1 DEF Header
<1>10. ASSUME Alone(t), Whole(cells), p = 1
       PROVE  c.complete /\ c.roots \in Seq(Nat) /\ Leads(cells, c.roots)
  <2>1. p <= Len(cells) /\ cells[p].kind = "header"  BY <1>3, <1>10 DEF Whole
  <2>2. HeaderAt(cells, p) = cells[1]  BY <2>1, <1>10 DEF HeaderAt
  <2>3. c.complete /\ c.roots = r.parts  BY <2>2, <1>10 DEF Header, Whole
  <2>4. MadeBy(r.run, cells, r.parts)  BY <1>3, <1>10 DEF Knows
  <2>5. Leads(cells, r.parts)  BY <2>4, <1>3, <1>4 DEF Leads
  <2> QED  BY <2>3, <2>5, <1>3
<1> HIDE DEF c
<1>11. ASSUME Alone(t) PROVE Knows(x, new)
  <2>1. Knows(r, cells)  BY <1>3, <1>11
  <2> HIDE DEF r
  <2> QED  BY <2>1, <1>2, <1>3, <1>9, StoreKnows
<1>12. ASSUME Alone(t), Whole(cells) PROVE Whole(new)
  <2>1. p \in 1 .. Len(cells) /\ cells[p].kind = "header"
    BY <1>2, <1>3, <1>12 DEF Knows, ToolState
  <2> HIDE DEF p
  <2> QED  BY <2>1, <1>3, <1>9, <1>10, <1>12, HeaderWhole
<1>13. Becomes(i0, new)
  <2> HIDE DEF p
  <2>1. Becomes(tool[t].inode, [file[tool[t].inode].cells EXCEPT ![p] = c])
    BY <1>2, <1>3, <1>5, <1>9, StoreChange
  <2> QED  BY <2>1 DEF cells
<1> HIDE DEF x, new
<1>14. PICK m \in Nat : /\ new \in Seq(Cell)
                        /\ file' = [file EXCEPT ![i0] = [cells |-> new, mtime |-> m]]
  BY <1>13 DEF Becomes
<1>15. /\ Inv'
       /\ \A i \in Run : Whole(file[i].cells) /\ i \notin overlap
                        => Whole(file'[i].cells)
  BY <1>2, <1>5, <1>6, <1>7, <1>11, <1>12, <1>14, FileStep DEF cells
<1> QED  BY <1>5, <1>15 DEF Kept

LEMMA CloseInv ==
    ASSUME Inv, NEW t \in Tool, Close(t)
    PROVE  Inv' /\ Kept
<1> DEFINE r == tool[t]
<1> DEFINE i0 == r.inode
<1> DEFINE cells == file[i0].cells
<1> DEFINE n == r.next
<1> DEFINE new == Truncated(cells, n)
<1> DEFINE x == [r EXCEPT !.pc = "open"]
<1>1. r.pc \in Writing  BY DEF Close, Writing
<1>2. /\ i0 \in Run /\ r \in ToolState /\ cells \in Seq(Cell) /\ clock \in Nat
      /\ n \in Nat /\ n >= r.next
      /\ Alone(t) => Knows(r, cells)
  BY <1>1, WriterTypes
<1>3. /\ file' = [file EXCEPT ![i0] = [cells |-> new, mtime |-> clock]]
      /\ Visibly(t, x)
      /\ UNCHANGED << clock, trace, name, runs, overlap, reused, torn, racy >>
  BY DEF Close
<1>4. x \in ToolState /\ x.pc = "open" /\ x.run = r.run /\ x.inode = i0
  BY <1>2 DEF ToolState
<1>5. x.pc \notin Writing  BY <1>4 DEF Writing
<1> HIDE DEF cells
<1>6. new \in Seq(Cell)  BY <1>2, CellsTruncated
<1>7. ASSUME Alone(t), Whole(cells) PROVE Whole(new)
  <2>1. Knows(r, cells)  BY <1>2, <1>7
  <2> HIDE DEF n
  <2> QED  BY <2>1, <1>2, <1>7, TruncatedWhole
<1> HIDE DEF x, new
<1>8. /\ Inv'
      /\ \A i \in Run : Whole(file[i].cells) /\ i \notin overlap
                       => Whole(file'[i].cells)
  BY <1>1, <1>2, <1>3, <1>4, <1>5, <1>6, <1>7, FileStep DEF cells
<1> QED  BY <1>3, <1>8 DEF Kept

-----------------------------------------------------------------------------
(* A tool that nobody disturbs reads what it has built: what it owns stays *)
(* its own in every step.                                                  *)

\* A step that others see disturbs them, unless they run nothing.
LEMMA OthersVisible ==
    ASSUME Inv, OwnIndex, NEW t \in Tool, NEW x \in ToolState, Visibly(t, x)
    PROVE  /\ tool'[t] = x
           /\ \A u \in Tool : u # t =>
                 Own(tool'[u], file'[tool'[u].inode].cells, name', overlap')
<1>1. tool \in [Tool -> ToolState]  BY DEF Inv, TypeOK
<1>2. /\ tool'[t] = x
      /\ \A u \in Tool : u # t => Alike(tool'[u], tool[u])
      /\ \A u \in Tool : u # t /\ tool[u].pc \notin Idle => tool'[u].disturbed
  BY <1>1, VisiblyMoves
<1>3. ASSUME NEW u \in Tool, u # t
      PROVE  Own(tool'[u], file'[tool'[u].inode].cells, name', overlap')
  <2>1. /\ tool'[u].built = tool[u].built /\ tool'[u].pc = tool[u].pc
        /\ tool[u].built => tool[u].pc \in Built
    BY <1>2, <1>3 DEF Alike, OwnIndex, Own
  <2>2. CASE tool[u].pc \in Idle
    <3>1. tool[u].pc \notin Built /\ tool[u].pc # "create"
      BY <2>2 DEF Built, Writing, Idle
    <3> QED  BY <2>1, <3>1 DEF Own
  <2>3. CASE tool[u].pc \notin Idle
    <3>1. tool'[u].disturbed  BY <1>2, <1>3, <2>3
    <3> QED  BY <2>1, <3>1 DEF Own
  <2> QED  BY <2>2, <2>3
<1> QED  BY <1>2, <1>3

\* A step of t that is no concern of others.
LEMMA OwnQuiet ==
    ASSUME Inv, OwnIndex, NEW t \in Tool, NEW x,
           tool' = [tool EXCEPT ![t] = x], UNCHANGED << name, file, overlap >>,
           Own(x, file[x.inode].cells, name, overlap)
    PROVE  OwnIndex'
<1>1. tool \in [Tool -> ToolState]  BY DEF Inv, TypeOK
<1>2. tool'[t] = x /\ \A u \in Tool : u # t => tool'[u] = tool[u]  BY <1>1
<1>3. ASSUME NEW u \in Tool
      PROVE  Own(tool'[u], file'[tool'[u].inode].cells, name', overlap')
  <2>1. CASE u = t  BY <2>1, <1>2
  <2>2. CASE u # t
    <3>1. Own(tool[u], file[tool[u].inode].cells, name, overlap)
      BY DEF OwnIndex
    <3> QED  BY <2>2, <3>1, <1>2
  <2> QED  BY <2>1, <2>2
<1> QED  BY <1>3 DEF OwnIndex

LEMMA OwnVisible ==
    ASSUME Inv, OwnIndex, NEW t \in Tool, NEW x \in ToolState, Visibly(t, x),
           Own(x, file'[x.inode].cells, name', overlap')
    PROVE  OwnIndex'
<1>1. /\ tool'[t] = x
      /\ \A u \in Tool : u # t =>
            Own(tool'[u], file'[tool'[u].inode].cells, name', overlap')
  BY OthersVisible
<1>2. ASSUME NEW u \in Tool
      PROVE  Own(tool'[u], file'[tool'[u].inode].cells, name', overlap')
  <2>1. CASE u = t  BY <2>1, <1>1
  <2>2. CASE u # t  BY <2>2, <1>1
  <2> QED  BY <2>1, <2>2
<1> QED  BY <1>2 DEF OwnIndex

\* A run that has not built anything, and is not about to, owns nothing.
LEMMA OwnNothing ==
    ASSUME NEW x, ~x.built, x.pc # "create", NEW cells, NEW nm, NEW ov
    PROVE  Own(x, cells, nm, ov)
BY DEF Own

LEMMA EndOwn ==
    ASSUME Inv, OwnIndex, NEW t \in Tool, End(t) \/ Abort(t),
           UNCHANGED << name, file, overlap >>
    PROVE  OwnIndex'
<1>1. PICK x : tool' = [tool EXCEPT ![t] = x] /\ ~x.built /\ x.pc \in Idle
  <2>1. CASE End(t)
    <3>1. ~NoRun.built /\ NoRun.pc \in Idle  BY DEF NoRun, Idle
    <3> QED  BY <2>1, <3>1 DEF End
  <2>2. CASE Abort(t)
    <3> DEFINE x == [NoRun EXCEPT !.pc = "aborted", !.checked = tool[t].checked,
                                  !.disturbed = tool[t].disturbed]
    <3>1. ~x.built /\ x.pc \in Idle  BY DEF NoRun, Idle
    <3> QED  BY <2>2, <3>1 DEF Abort
  <2> QED  BY <2>1, <2>2
<1>2. x.pc # "create"  BY <1>1 DEF Idle
<1>3. Own(x, file[x.inode].cells, name, overlap)  BY <1>1, <1>2, OwnNothing
<1> QED  BY <1>1, <1>3, OwnQuiet

LEMMA StartOwn ==
    ASSUME Inv, OwnIndex, NEW t \in Tool, NEW mode, Start(t, mode)
    PROVE  OwnIndex'
<1> DEFINE l == CASE mode = "auto" -> "stat" [] mode = "force" -> "remove"
                  [] OTHER -> "open"
<1> DEFINE s == IF mode = "auto" THEN trace.mtime ELSE 0
<1> DEFINE c == mode # "never"
<1> DEFINE v == IF mode = "never" THEN 0 ELSE trace.version
<1> DEFINE d == \E u \in Tool \ {t} : tool[u].pc \in Indexing
<1> DEFINE x == [NoRun EXCEPT !.pc = l, !.run = runs + 1, !.stamp = s, !.checked = c,
                              !.version = v, !.disturbed = d]
<1>1. tool' = [tool EXCEPT ![t] = x] /\ UNCHANGED << name, file, overlap >>
  BY DEF Start
<1>2. l # "create"
  <2>1. CASE mode = "auto"  BY <2>1
  <2>2. CASE mode = "force"  BY <2>2
  <2>3. CASE mode # "auto" /\ mode # "force"  BY <2>3
  <2> QED  BY <2>1, <2>2, <2>3
<1> HIDE DEF l, s, c, v, d
<1>3. ~x.built /\ x.pc = l  BY DEF NoRun
<1> HIDE DEF x
<1>4. Own(x, file[x.inode].cells, name, overlap)  BY <1>2, <1>3, OwnNothing
<1> QED  BY <1>1, <1>4, OwnQuiet

LEMMA CheckOwn ==
    ASSUME Inv, OwnIndex, NEW t \in Tool, StatIndex(t) \/ CheckHeader(t)
    PROVE  OwnIndex'
<1>1. tool[t].pc \in {"stat", "check"} /\ UNCHANGED << name, file, overlap >>
  BY DEF StatIndex, CheckHeader
<1>2. ~tool[t].built
  <2>1. tool[t].built => tool[t].pc \in Built  BY DEF OwnIndex, Own
  <2> QED  BY <1>1, <2>1 DEF Built, Writing
<1>3. tool[t] \in ToolState  BY DEF Inv, TypeOK
<1>4. CASE End(t) \/ Abort(t)  BY <1>1, <1>4, EndOwn
<1>5. CASE ~(End(t) \/ Abort(t))
  <2>1. PICK x : tool' = [tool EXCEPT ![t] = x] /\ ~x.built /\ x.pc # "create"
    <3>1. CASE StatIndex(t)
      <4> DEFINE l == IF MissingOrTooOld(name, tool[t].stamp)
                      THEN "remove" ELSE "check"
      <4> DEFINE x == [tool[t] EXCEPT !.pc = l, !.stamp = 0]
      <4>1. tool' = [tool EXCEPT ![t] = x]  BY <3>1 DEF StatIndex
      <4>2. l # "create"  OBVIOUS
      <4> HIDE DEF l
      <4>3. ~x.built /\ x.pc = l  BY <1>2, <1>3 DEF ToolState
      <4> QED  BY <4>1, <4>2, <4>3
    <3>2. CASE CheckHeader(t)
      <4> DEFINE l == IF Complete(file[name].cells[1]) THEN "open" ELSE "remove"
      <4> DEFINE x == [tool[t] EXCEPT !.pc = l]
      <4>1. Goto(t, l)  BY <3>2, <1>5 DEF CheckHeader
      <4>2. l # "create"  OBVIOUS
      <4> HIDE DEF l
      <4>3. tool' = [tool EXCEPT ![t] = x]  BY <4>1, <1>3 DEF Goto, ToolState
      <4>4. ~x.built /\ x.pc = l  BY <1>2, <1>3 DEF ToolState
      <4> QED  BY <4>2, <4>3, <4>4
    <3> QED  BY <3>1, <3>2
  <2>2. Own(x, file[x.inode].cells, name, overlap)  BY <2>1, OwnNothing
  <2> QED  BY <1>1, <2>1, <2>2, OwnQuiet
<1> QED  BY <1>4, <1>5

LEMMA OpenOwn ==
    ASSUME Inv, OwnIndex, NEW t \in Tool, Open(t)
    PROVE  OwnIndex'
<1> DEFINE r == tool[t]
<1>1. r.pc = "open" /\ UNCHANGED << name, file, overlap >>  BY DEF Open
<1>2. r \in ToolState  BY DEF Inv, TypeOK
<1>3. CASE End(t) \/ Abort(t)  BY <1>1, <1>3, EndOwn
<1>4. CASE ~(End(t) \/ Abort(t))
  <2> DEFINE roots == file[name].cells[1].roots
  <2> DEFINE x == [r EXCEPT !.pc = "reading", !.inode = name, !.header = 0,
                            !.next = 0, !.size = 0, !.roots = roots]
  <2>1. tool' = [tool EXCEPT ![t] = x]  BY <1>4 DEF Open
  <2> HIDE DEF roots
  <2>2. /\ x.pc = "reading" /\ x.inode = name /\ x.roots = roots
        /\ x.run = r.run /\ x.built = r.built /\ x.disturbed = r.disturbed
    BY <1>2 DEF ToolState
  <2> HIDE DEF x
  <2>3. ASSUME ~x.disturbed, x.built
        PROVE  Undisturbed(x, file[x.inode].cells, name, overlap)
    <3>1. Undisturbed(r, file[r.inode].cells, name, overlap)
      BY <2>2, <2>3 DEF OwnIndex, Own
    <3>2. /\ name = r.inode /\ file[name].cells[1].roots = r.parts
          /\ Len(r.parts) = Parts /\ MadeBy(r.run, file[name].cells, r.parts)
      BY <1>1, <3>1 DEF Undisturbed
    <3>3. Len(x.roots) = Parts /\ MadeBy(x.run, file[x.inode].cells, x.roots)
      BY <2>2, <3>2 DEF roots
    <3> QED  BY <2>2, <3>3 DEF Undisturbed, Writing
  <2>4. Own(x, file[x.inode].cells, name, overlap)
    BY <2>2, <2>3 DEF Own, Built
  <2> QED  BY <1>1, <2>1, <2>4, OwnQuiet
<1> QED  BY <1>3, <1>4

LEMMA RemoveOwn ==
    ASSUME Inv, OwnIndex, NEW t \in Tool, Remove(t)
    PROVE  OwnIndex'
<1> DEFINE x == [tool[t] EXCEPT !.pc = "create"]
<1>1. /\ tool[t].pc = "remove" /\ name' = None /\ Visibly(t, x)
  BY DEF Remove, NameRemoved
<1>2. tool[t] \in ToolState  BY DEF Inv, TypeOK
<1>3. ~tool[t].built
  <2>1. tool[t].built => tool[t].pc \in Built  BY DEF OwnIndex, Own
  <2> QED  BY <1>1, <2>1 DEF Built, Writing
<1>4. x \in ToolState /\ ~x.built  BY <1>2, <1>3 DEF ToolState, Indexing
<1> HIDE DEF x
<1>5. Own(x, file'[x.inode].cells, name', overlap')  BY <1>1, <1>4 DEF Own
<1> QED  BY <1>1, <1>4, <1>5, OwnVisible

LEMMA ParseErrorOwn ==
    ASSUME Inv, OwnIndex, NEW t \in Tool, ParseError(t)
    PROVE  OwnIndex'
<1>1. Visibly(t, NoRun)  BY DEF ParseError
<1>2. NoRun \in ToolState  BY NoRunType
<1>3. ~NoRun.built /\ NoRun.pc # "create"  BY DEF NoRun
<1>4. Own(NoRun, file'[NoRun.inode].cells, name', overlap')
  BY <1>3, OwnNothing
<1> QED  BY <1>1, <1>2, <1>4, OwnVisible

\* A run whose remove() nobody has seen yet creates the file that it opens.
LEMMA CreateOwn ==
    ASSUME Inv, OwnIndex, NEW t \in Tool, Create(t)
    PROVE  OwnIndex'
<1> DEFINE r == tool[t]
<1> DEFINE i == IF name = None THEN r.run ELSE name
<1> DEFINE n == FirstFree(i)
<1> DEFINE x == [r EXCEPT !.pc = "header", !.inode = i, !.next = n, !.size = n,
                          !.built = TRUE]
<1>1. r.pc = "create" /\ name' = i /\ Visibly(t, x)
      /\ overlap' = IF WritersOf(i) # {} THEN overlap \cup {i} ELSE overlap
  BY DEF Create
<1>2. r \in ToolState /\ name \in {None} \cup Run /\ runs <= MaxRun /\ runs \in Nat
      /\ file \in [Run -> [cells : Seq(Cell), mtime : Nat]]
  BY BoundsAssumption DEF Inv, TypeOK
<1>3. r.run \in Run /\ NotMade(r.run)
  <2>1. r.run \in 1 .. runs /\ NotMade(r.run)
    BY <1>1 DEF Inv, RunsFresh, Early, Idle
  <2> QED  BY <2>1, <1>2, BoundsAssumption DEF Run
<1>4. i \in Run  BY <1>2, <1>3
<1>5. n \in Nat  BY <1>2, <1>4 DEF FirstFree
<1>6. /\ x \in ToolState /\ x.pc = "header" /\ x.inode = i /\ x.next = n
      /\ x.disturbed = r.disturbed
  BY <1>2, <1>4, <1>5 DEF ToolState, Indexing, Writing
<1>7. ASSUME ~r.disturbed PROVE i \notin overlap' /\ n = 0
  <2>1. name = None  BY <1>1, <1>7 DEF OwnIndex, Own
  <2>2. WritersOf(i) = {}  BY <2>1, <1>3 DEF NotMade, WritersOf
  <2> QED  BY <2>1, <2>2, <1>1, <1>3 DEF NotMade, FirstFree
<1> HIDE DEF x, i, n
<1>8. ASSUME ~x.disturbed
      PROVE  Undisturbed(x, file'[x.inode].cells, name', overlap')
  BY <1>1, <1>4, <1>6, <1>7, <1>8 DEF Undisturbed, Writing
<1>9. Own(x, file'[x.inode].cells, name', overlap')
  BY <1>6, <1>8 DEF Own, Built, Writing
<1> QED  BY <1>1, <1>6, <1>9, OwnVisible

\* What the actions of a writing tool have in common.
LEMMA OwnWriter ==
    ASSUME Inv, OwnIndex, NEW t \in Tool, tool[t].pc \in Writing,
           NEW x \in ToolState, Visibly(t, x), x.pc \in Writing \cup {"open"},
           x.inode = tool[t].inode, x.built = tool[t].built,
           x.disturbed = tool[t].disturbed, UNCHANGED << name, overlap >>,
           NEW new, NEW m,
           file' = [file EXCEPT ![tool[t].inode] = [cells |-> new, mtime |-> m]],
           Alone(t) /\ Undisturbed(tool[t], file[tool[t].inode].cells, name, overlap)
              => Undisturbed(x, new, name, overlap)
    PROVE  OwnIndex'
<1> DEFINE i0 == tool[t].inode
<1>1. i0 \in Run /\ file \in [Run -> [cells : Seq(Cell), mtime : Nat]]
  BY WriterTypes DEF Inv, TypeOK
<1>2. file'[x.inode].cells = new  BY <1>1
<1>3. ASSUME ~x.disturbed, x.built PROVE Undisturbed(x, new, name, overlap)
  <2>1. Undisturbed(tool[t], file[i0].cells, name, overlap)
    BY <1>3 DEF OwnIndex, Own
  <2>2. Alone(t)  BY <2>1 DEF Alone, Undisturbed
  <2> QED  BY <2>1, <2>2
<1>4. x.pc \in Built /\ x.pc # "create"  BY DEF Built, Writing
<1>5. Own(x, file'[x.inode].cells, name', overlap')
  BY <1>2, <1>3, <1>4 DEF Own
<1> QED  BY <1>5, OwnVisible

LEMMA GrowOwn ==
    ASSUME Inv, OwnIndex, NEW t \in Tool, Grow(t)
    PROVE  OwnIndex'
<1> DEFINE r == tool[t]
<1> DEFINE n == r.next + 1 + Slack
<1> DEFINE new == Truncated(file[r.inode].cells, n)
<1> DEFINE x == [r EXCEPT !.size = n]
<1>1. /\ r.pc \in {"header", "part"} /\ Visibly(t, x)
      /\ UNCHANGED << name, overlap >>
      /\ file' = [file EXCEPT ![r.inode] = [cells |-> new, mtime |-> clock]]
  BY DEF Grow
<1>2. r.pc \in Writing  BY <1>1 DEF Writing
<1>3. r \in ToolState /\ n \in Nat  BY <1>2, WriterTypes, BoundsAssumption
<1>4. /\ x \in ToolState /\ x.pc = r.pc /\ x.inode = r.inode
      /\ x.built = r.built /\ x.disturbed = r.disturbed
      /\ x.next = r.next /\ x.header = r.header
  BY <1>3 DEF ToolState
<1> HIDE DEF x, new
<1>5. ASSUME Undisturbed(r, file[r.inode].cells, name, overlap)
      PROVE  Undisturbed(x, new, name, overlap)
  BY <1>1, <1>4, <1>5 DEF Undisturbed
<1> QED  BY <1>1, <1>2, <1>4, <1>5, OwnWriter

LEMMA InitHeaderOwn ==
    ASSUME Inv, OwnIndex, NEW t \in Tool, InitHeader(t)
    PROVE  OwnIndex'
<1> DEFINE r == tool[t]
<1> DEFINE p == r.next + 1
<1> DEFINE c == Header(FALSE, HeaderAt(file[r.inode].cells, p).roots)
<1> DEFINE x == [r EXCEPT !.pc = "part", !.next = p, !.header = p]
<1>1. /\ r.pc = "header" /\ Visibly(t, x) /\ Store(t, p, c)
      /\ UNCHANGED << name, overlap >>
  BY DEF InitHeader
<1>2. r.pc \in Writing  BY <1>1 DEF Writing
<1>3. r \in ToolState /\ r.next \in Nat /\ p \in Nat /\ p = r.next + 1
  BY <1>2, WriterTypes
<1> HIDE DEF p
<1>4. /\ x \in ToolState /\ x.pc = "part" /\ x.inode = r.inode
      /\ x.built = r.built /\ x.disturbed = r.disturbed
      /\ x.header = p
  BY <1>3 DEF ToolState, Indexing, Writing
<1> HIDE DEF x, c
<1>5. PICK new, m :
         file' = [file EXCEPT ![r.inode] = [cells |-> new, mtime |-> m]]
  BY <1>1 DEF Store
<1>6. ASSUME Undisturbed(r, file[r.inode].cells, name, overlap)
      PROVE  Undisturbed(x, new, name, overlap)
  BY <1>1, <1>2, <1>3, <1>4, <1>6 DEF Undisturbed
<1>7. x.pc \in Writing  BY <1>4 DEF Writing
<1> QED  BY <1>1, <1>2, <1>4, <1>5, <1>6, <1>7, OwnWriter

LEMMA WritePartOwn ==
    ASSUME Inv, OwnIndex, NEW t \in Tool, WritePart(t)
    PROVE  OwnIndex'
<1> DEFINE r == tool[t]
<1> DEFINE p == r.next + 1
<1> DEFINE k == Len(r.parts) + 1
<1> DEFINE pc == IF k = Parts THEN "flags" ELSE "part"
<1> DEFINE e == r.events \/ trace.version > 0
<1> DEFINE c == Part(r.run, k, trace.version)
<1> DEFINE x == [r EXCEPT !.pc = pc, !.next = p, !.parts = Append(@, p),
                          !.events = e]
<1>1. /\ r.pc = "part" /\ Visibly(t, x) /\ Store(t, p, c)
      /\ UNCHANGED << name, overlap >>
  BY DEF WritePart
<1>2. r.pc \in Writing /\ r.pc # "header"  BY <1>1 DEF Writing
<1>3. /\ r \in ToolState /\ r.parts \in Seq(Nat) /\ p \in Nat /\ e \in BOOLEAN
      /\ pc \in {"flags", "part"}
  BY <1>2, WriterTypes DEF ToolState
<1> HIDE DEF p, c, k, pc, e
<1>4. Append(r.parts, p) \in Seq(Nat)  BY <1>3
<1>5. /\ x \in ToolState /\ x.pc = pc /\ x.inode = r.inode
      /\ x.built = r.built /\ x.disturbed = r.disturbed /\ x.header = r.header
  BY <1>3, <1>4 DEF ToolState, Indexing, Writing
<1> HIDE DEF x
<1>6. PICK new, m :
         file' = [file EXCEPT ![r.inode] = [cells |-> new, mtime |-> m]]
  BY <1>1 DEF Store
<1>7. ASSUME Undisturbed(r, file[r.inode].cells, name, overlap)
      PROVE  Undisturbed(x, new, name, overlap)
  BY <1>2, <1>3, <1>5, <1>7 DEF Undisturbed, Writing
<1>8. x.pc \in Writing  BY <1>3, <1>5 DEF Writing
<1> QED  BY <1>1, <1>2, <1>5, <1>6, <1>7, <1>8, OwnWriter

LEMMA StoreFlagsOwn ==
    ASSUME Inv, OwnIndex, NEW t \in Tool, StoreFlags(t)
    PROVE  OwnIndex'
<1> DEFINE r == tool[t]
<1> DEFINE p == r.header
<1> DEFINE c == Header(TRUE, HeaderAt(file[r.inode].cells, p).roots)
<1> DEFINE x == [r EXCEPT !.pc = "roots"]
<1>1. /\ r.pc = "flags" /\ Visibly(t, x) /\ Store(t, p, c)
      /\ UNCHANGED << name, overlap >>
  BY DEF StoreFlags
<1>2. r.pc \in Writing /\ r.pc # "header"  BY <1>1 DEF Writing
<1>3. r \in ToolState  BY <1>2, WriterTypes
<1>4. /\ x \in ToolState /\ x.pc = "roots" /\ x.inode = r.inode
      /\ x.built = r.built /\ x.disturbed = r.disturbed /\ x.header = r.header
  BY <1>3 DEF ToolState, Indexing, Writing
<1> HIDE DEF x, c
<1>5. PICK new, m :
         file' = [file EXCEPT ![r.inode] = [cells |-> new, mtime |-> m]]
  BY <1>1 DEF Store
<1>6. ASSUME Undisturbed(r, file[r.inode].cells, name, overlap)
      PROVE  Undisturbed(x, new, name, overlap)
  BY <1>2, <1>4, <1>6 DEF Undisturbed, Writing
<1>7. x.pc \in Writing  BY <1>4 DEF Writing
<1> QED  BY <1>1, <1>2, <1>4, <1>5, <1>6, <1>7, OwnWriter

\* The roots are stored in the first cell ...
LEMMA StoreRootsOwn ==
    ASSUME Inv, OwnIndex, NEW t \in Tool, StoreRoots(t)
    PROVE  OwnIndex'
<1> DEFINE r == tool[t]
<1> DEFINE cells == file[r.inode].cells
<1> DEFINE p == r.header
<1> DEFINE c == Header(HeaderAt(cells, p).complete, r.parts)
<1> DEFINE new == [cells EXCEPT ![p] = c]
<1> DEFINE x == [r EXCEPT !.pc = "close"]
<1>1. /\ r.pc = "roots" /\ Visibly(t, x) /\ Store(t, p, c)
      /\ UNCHANGED << name, overlap >>
  BY DEF StoreRoots
<1>2. r.pc \in Writing /\ r.pc # "header"  BY <1>1 DEF Writing
<1>3. /\ r \in ToolState /\ r.inode \in Run /\ cells \in Seq(Cell)
      /\ file \in [Run -> [cells : Seq(Cell), mtime : Nat]]
      /\ Alone(t) => Knows(r, cells)
  BY <1>2, WriterTypes DEF Inv, TypeOK
<1>4. /\ x \in ToolState /\ x.pc = "close" /\ x.inode = r.inode
      /\ x.built = r.built /\ x.disturbed = r.disturbed /\ x.header = r.header
      /\ x.parts = r.parts
  BY <1>3 DEF ToolState, Indexing, Writing
<1>5. c.roots = r.parts  BY DEF Header
<1> HIDE DEF x, c
<1>6. PICK m : file' = [file EXCEPT ![r.inode] = [cells |-> new, mtime |-> m]]
  BY <1>1, <1>3 DEF Store
<1>7. ASSUME Alone(t), Undisturbed(r, cells, name, overlap)
      PROVE  Undisturbed(x, new, name, overlap)
  <2>1. p = 1  BY <1>2, <1>7 DEF Undisturbed
  <2>2. p \in 1 .. Len(cells)  BY <1>2, <1>3, <1>7 DEF Knows, ToolState
  <2> HIDE DEF cells
  <2>3. new[1].roots = r.parts  BY <1>3, <1>5, <2>1, <2>2
  <2> QED  BY <1>2, <1>4, <1>7, <2>3 DEF Undisturbed, Writing
<1>8. x.pc \in Writing  BY <1>4 DEF Writing
<1> HIDE DEF new
<1> QED  BY <1>1, <1>2, <1>4, <1>6, <1>7, <1>8, OwnWriter

\* ... and lead to all of the parts, which the truncated file still holds.
LEMMA CloseOwn ==
    ASSUME Inv, OwnIndex, NEW t \in Tool, Close(t)
    PROVE  OwnIndex'
<1> DEFINE r == tool[t]
<1> DEFINE cells == file[r.inode].cells
<1> DEFINE n == r.next
<1> DEFINE new == Truncated(cells, n)
<1> DEFINE x == [r EXCEPT !.pc = "open"]
<1>1. /\ r.pc = "close" /\ Visibly(t, x) /\ UNCHANGED << name, overlap >>
      /\ file' = [file EXCEPT ![r.inode] = [cells |-> new, mtime |-> clock]]
  BY DEF Close
<1>2. r.pc \in Writing /\ r.pc # "header"  BY <1>1 DEF Writing
<1>3. /\ r \in ToolState /\ r.inode \in Run /\ cells \in Seq(Cell)
      /\ n \in Nat /\ r.header \in Nat /\ r.size \in Nat /\ r.parts \in Seq(Nat)
      /\ Alone(t) => Knows(r, cells)
  BY <1>2, WriterTypes
<1>4. Len(r.parts) = Parts  BY <1>1 DEF Inv, Proper
<1>5. /\ x \in ToolState /\ x.pc = "open" /\ x.inode = r.inode
      /\ x.built = r.built /\ x.disturbed = r.disturbed
      /\ x.parts = r.parts /\ x.run = r.run
  BY <1>3 DEF ToolState
<1> HIDE DEF x, cells
<1>6. /\ new \in Seq(Cell) /\ Len(new) = n
      /\ \A p \in 1 .. n : p <= Len(cells) => new[p] = cells[p]
  BY <1>3, CellsTruncated
<1> HIDE DEF new
<1>7. ASSUME Alone(t), Undisturbed(r, cells, name, overlap)
      PROVE  Undisturbed(x, new, name, overlap)
  <2>1. /\ r.header = 1 /\ cells[1].roots = r.parts /\ name = r.inode
    BY <1>1, <1>2, <1>7 DEF Undisturbed
  <2>2. /\ n <= Len(cells) /\ 1 <= n /\ cells[1].kind = "header"
        /\ MadeBy(r.run, cells, r.parts)
        /\ \A k \in 1 .. Len(r.parts) : r.parts[k] <= n
    BY <1>2, <1>3, <1>7, <2>1 DEF Knows
  <2>3. new # << >> /\ new[1] = cells[1]  BY <1>3, <1>6, <2>2
  <2>4. MadeBy(r.run, new, r.parts)
    <3> SUFFICES ASSUME NEW k \in 1 .. Len(r.parts)
                 PROVE  /\ r.parts[k] \in 1 .. Len(new)
                        /\ new[r.parts[k]] = cells[r.parts[k]]
      BY <2>2 DEF MadeBy
    <3>1. r.parts[k] \in 1 .. n /\ r.parts[k] <= Len(cells)
      BY <1>3, <2>2 DEF MadeBy
    <3> QED  BY <3>1, <1>6
  <2> QED  BY <1>3, <1>4, <1>5, <2>1, <2>2, <2>3, <2>4 DEF Undisturbed, Writing
<1> QED  BY <1>1, <1>2, <1>3, <1>5, <1>7, OwnWriter DEF cells

LEMMA NextOwn ==
    ASSUME Inv, OwnIndex, [Next]_vars
    PROVE  OwnIndex'
<1>1. CASE UNCHANGED vars  BY <1>1 DEF vars, OwnIndex
<1>2. ASSUME NEW t \in Tool,
             \/ \E mode \in {"auto", "force", "never"} : Start(t, mode)
             \/ StatIndex(t) \/ CheckHeader(t)
             \/ Remove(t) \/ Create(t) \/ Grow(t) \/ InitHeader(t)
             \/ WritePart(t) \/ ParseError(t) \/ NoEvents(t)
             \/ StoreFlags(t) \/ StoreRoots(t) \/ Close(t)
             \/ Open(t) \/ Quit(t) \/ Kill(t)
      PROVE  OwnIndex'
  <2>1. CASE \E mode \in {"auto", "force", "never"} : Start(t, mode)
    BY <2>1, StartOwn
  <2>2. CASE StatIndex(t) \/ CheckHeader(t)  BY <2>2, CheckOwn
  <2>3. CASE Remove(t)  BY <2>3, RemoveOwn
  <2>4. CASE Create(t)  BY <2>4, CreateOwn
  <2>5. CASE Grow(t)  BY <2>5, GrowOwn
  <2>6. CASE InitHeader(t)  BY <2>6, InitHeaderOwn
  <2>7. CASE WritePart(t)  BY <2>7, WritePartOwn
  <2>8. CASE StoreFlags(t)  BY <2>8, StoreFlagsOwn
  <2>9. CASE StoreRoots(t)  BY <2>9, StoreRootsOwn
  <2>10. CASE Close(t)  BY <2>10, CloseOwn
  <2>11. CASE Open(t)  BY <2>11, OpenOwn
  <2>12. CASE NoEvents(t) \/ Quit(t) \/ Kill(t)
    <3>1. End(t) /\ UNCHANGED << name, file, overlap >>
      BY <2>12 DEF NoEvents, Quit, Kill
    <3> QED  BY <3>1, EndOwn
  <2>13. CASE ParseError(t)  BY <2>13, ParseErrorOwn
  <2> QED
    BY <1>2, <2>1, <2>2, <2>3, <2>4, <2>5, <2>6, <2>7, <2>8, <2>9, <2>10,
       <2>11, <2>12, <2>13
<1>3. CASE WriteTrace \/ Tick
  <2>1. UNCHANGED << name, file, tool, overlap >>  BY <1>3 DEF WriteTrace, Tick
  <2> QED  BY <2>1 DEF OwnIndex
<1> QED  BY <1>1, <1>2, <1>3 DEF Next

-----------------------------------------------------------------------------
(* The theorems.                                                           *)

LEMMA NextInv ==
    ASSUME Inv, [Next]_vars
    PROVE  Inv' /\ Kept
<1>1. CASE UNCHANGED vars
  <2>1. Inv'
    <3>0. UNCHANGED << clock, trace, name, file, tool, runs, overlap, reused,
                       torn, racy >>
      BY <1>1 DEF vars
    <3>1. TypeOK'  BY <3>0 DEF Inv, TypeOK
    <3>2. Proper'  BY <3>0 DEF Inv, Proper
    <3>3. RunsFresh'
      <4>1. \A i : NotMade(i)' = NotMade(i)  BY <3>0 DEF NotMade
      <4> QED  BY <3>0, <4>1 DEF Inv, RunsFresh
    <3>4. AloneKnows'
      <4>1. \A t \in Tool : Alone(t)' = Alone(t) /\ Sole(t)' = Sole(t)
        BY <3>0 DEF Alone, Sole
      <4>2. \A t \in Tool : Knows(tool[t], file[tool[t].inode].cells)
               => Knows(tool[t], file[tool[t].inode].cells)'
        BY <3>0 DEF Knows, MadeBy
      <4> QED  BY <4>1, <4>2 DEF Inv, AloneKnows
    <3> QED  BY <3>1, <3>2, <3>3, <3>4 DEF Inv
  <2>2. Kept  BY <1>1 DEF vars, Kept
  <2> QED  BY <2>1, <2>2
<1>2. ASSUME NEW t \in Tool,
             \/ \E mode \in {"auto", "force", "never"} : Start(t, mode)
             \/ StatIndex(t) \/ CheckHeader(t)
             \/ Remove(t) \/ Create(t) \/ Grow(t) \/ InitHeader(t)
             \/ WritePart(t) \/ ParseError(t) \/ NoEvents(t)
             \/ StoreFlags(t) \/ StoreRoots(t) \/ Close(t)
             \/ Open(t) \/ Quit(t) \/ Kill(t)
      PROVE  Inv' /\ Kept
  <2>1. CASE \E mode \in {"auto", "force", "never"} : Start(t, mode)
    <3>1. PICK mode : Start(t, mode)  BY <2>1
    <3>2. Inv'  BY <3>1, StartInv
    <3>3. Kept  BY <3>1 DEF Start, Kept
    <3> QED  BY <3>2, <3>3
  <2>2. CASE StatIndex(t) \/ CheckHeader(t)
    <3>1. Inv'  BY <2>2, CheckInv
    <3>2. Kept  BY <2>2 DEF StatIndex, CheckHeader, Kept
    <3> QED  BY <3>1, <3>2
  <2>3. CASE Remove(t)
    <3>1. Inv'  BY <2>3, RemoveInv
    <3>2. Kept  BY <2>3 DEF Remove, Kept
    <3> QED  BY <3>1, <3>2
  <2>4. CASE Create(t)  BY <2>4, CreateInv
  <2>5. CASE Grow(t)  BY <2>5, GrowInv
  <2>6. CASE InitHeader(t)  BY <2>6, InitHeaderInv
  <2>7. CASE WritePart(t)  BY <2>7, WritePartInv
  <2>8. CASE StoreFlags(t)  BY <2>8, StoreFlagsInv
  <2>9. CASE StoreRoots(t)  BY <2>9, StoreRootsInv
  <2>10. CASE Close(t)  BY <2>10, CloseInv
  <2>11. CASE Open(t)
    <3>1. Inv'  BY <2>11, OpenInv
    <3>2. Kept  BY <2>11 DEF Open, Kept
    <3> QED  BY <3>1, <3>2
  <2>12. CASE NoEvents(t) \/ Quit(t) \/ Kill(t)
    <3>1. Inv'  BY <2>12, EndInv
    <3>2. Kept  BY <2>12 DEF NoEvents, Quit, Kill, Kept
    <3> QED  BY <3>1, <3>2
  <2>13. CASE ParseError(t)
    <3>1. Inv'  BY <2>13, ParseErrorInv
    <3>2. Kept  BY <2>13 DEF ParseError, Kept
    <3> QED  BY <3>1, <3>2
  <2> QED
    BY <1>2, <2>1, <2>2, <2>3, <2>4, <2>5, <2>6, <2>7, <2>8, <2>9, <2>10,
       <2>11, <2>12, <2>13
<1>3. CASE WriteTrace \/ Tick
  <2>1. Inv'  BY <1>3, WorldInv
  <2>2. Kept  BY <1>3 DEF WriteTrace, Tick, Kept
  <2> QED  BY <2>1, <2>2
<1> QED  BY <1>1, <1>2, <1>3 DEF Next

\* Every variable keeps its type, whatever the tools, the simulator and the
\* clock do: updateIndexIfNeeded, Indexer and IndexReader as a whole.
THEOREM TypeCorrect == Spec => []TypeOK
<1>1. Inv /\ [Next]_vars => Inv'  BY NextInv
<1>2. Inv => TypeOK  BY DEF Inv
<1> QED  BY <1>1, <1>2, InvInit, PTL DEF Spec

\* No step of any tool spoils a whole index, unless two runs had its file
\* open for writing at the same time: open_index_file removes the name and
\* allocates at the end of what it opens, so readers keep what they mapped.
THEOREM NeverSpoilt == Spec => StaysWhole
<1>1. Inv /\ [Next]_vars => Inv'  BY NextInv
<1>2. Inv /\ [Next]_vars =>
         [\A i \in Run : Whole(file[i].cells) /\ i \notin overlap'
                         => Whole(file[i].cells)']_vars
  <2> SUFFICES ASSUME Inv, [Next]_vars
               PROVE  \A i \in Run : Whole(file[i].cells) /\ i \notin overlap'
                                     => Whole(file[i].cells)'
    OBVIOUS
  <2>1. \A i \in Run : Whole(file[i].cells) /\ i \notin overlap'
                       => Whole(file'[i].cells)
    BY NextInv DEF Kept
  <2>2. ASSUME NEW i \in Run, Whole(file'[i].cells) PROVE Whole(file[i].cells)'
    BY <2>2 DEF Whole, Leads, MadeBy
  <2> QED  BY <2>1, <2>2
<1> QED  BY <1>1, <1>2, InvInit, PTL DEF Spec, StaysWhole

\* A tool that built an index, without a run that overtook it, reads the very
\* index that it built: open_index_file, finalise_index and IndexReader.
THEOREM BuiltIsRead == Spec => []ReadsWhatItBuilt
<1>1. Init => Inv /\ OwnIndex
  <2>1. ASSUME Init PROVE OwnIndex
    BY <2>1 DEF Init, OwnIndex, Own, NoRun
  <2> QED  BY <2>1, InvInit
<1>2. Inv /\ OwnIndex /\ [Next]_vars => Inv' /\ OwnIndex'
  BY NextInv, NextOwn
<1>3. OwnIndex => ReadsWhatItBuilt
  BY DEF OwnIndex, Own, Undisturbed, ReadsWhatItBuilt
<1> QED  BY <1>1, <1>2, <1>3, PTL DEF Spec

-----------------------------------------------------------------------------
(***************************************************************************)
(* What is opened.  To the invariants above comes what the marks and the   *)
(* time stamps of the files are worth: a file that is marked complete is   *)
(* whole, but for the exceptions, and one that is not older than the trace *)
(* has nothing older than the trace in it.  A run that nobody has          *)
(* disturbed knows of the file it is about to open what it has seen of it  *)
(* on its way there, and that no other tool has been writing meanwhile.    *)
(***************************************************************************)
\* A reader of these cells is told that the index is complete.
Marked(cells) == cells # << >> /\ Complete(cells[1])

\* The run that has marked file i is on its way to store the roots in it.
AboutToStoreRoots(i) ==
    \E t \in Tool : tool[t].pc = "roots" /\ tool[t].inode = i /\ tool[t].header = 1

MarkedIsWhole ==
    \A i \in Run : i \notin torn \cup overlap /\ Marked(file[i].cells)
                   => Whole(file[i].cells) \/ AboutToStoreRoots(i)

\* All parts in these cells are made from version v of the trace or later ones.
NoneBefore(cells, v) ==
    \A p \in 1 .. Len(cells) : cells[p].kind = "part" => cells[p].version >= v

\* A file that no trace was written under is up to date, or shows its age.
OldOrUpToDate ==
    \A i \in Run : i \notin reused \cup racy =>
        \/ NoneBefore(file[i].cells, trace.version)
        \/ WritersOf(i) = {} /\ file[i].mtime < trace.mtime

\* No time stamp and no version lies in the future.
Dated ==
    /\ trace.mtime <= clock
    /\ \A i \in Run : file[i].mtime <= clock
    /\ \A t \in Tool : tool[t].version <= trace.version

\* Who shares a file has not created it.
SharedIsReused == overlap \subseteq reused

\* No tool but t is about to open a file for writing, or has one open.
Quiet(t) ==
    \A u \in Tool : u # t => tool[u].pc \notin Writing \cup {"create"}

\* File i is as new as version v, if time stamps say anything about it.
Fresh(i, v) == i \notin reused \cup racy => NoneBefore(file[i].cells, v)

\* What a run in state r that nobody has disturbed knows of the files.
TrustsStamps(r) ==
    r.pc = "stat" => \A i \in Run : Fresh(i, r.version) \/ file[i].mtime < r.stamp

TrustsFound(r) ==
    r.pc = "check" => name # None /\ Fresh(name, r.version)

TrustsMark(r) ==
    /\ r.pc \in Writing => r.built
    /\ r.pc \in {"roots", "close"} => file[r.inode].cells[1].complete

TrustsName(r) ==
    r.pc = "open" /\ r.checked =>
        name # None /\ Marked(file[name].cells) /\ Fresh(name, r.version)

TrustsOpened(r) ==
    r.pc = "reading" /\ r.checked =>
        /\ r.inode \in Run
        /\ Fresh(r.inode, r.version)
        /\ r.inode \notin torn \cup overlap =>
              Whole(file[r.inode].cells) /\ r.roots = file[r.inode].cells[1].roots

Trusts(r) ==
    /\ TrustsStamps(r) /\ TrustsFound(r) /\ TrustsMark(r)
    /\ TrustsName(r) /\ TrustsOpened(r)

Untroubled ==
    \A t \in Tool : tool[t].pc \notin Idle /\ ~tool[t].disturbed
                    => Quiet(t) /\ Trusts(tool[t])

Sound == MarkedIsWhole /\ OldOrUpToDate /\ Dated /\ SharedIsReused /\ Untroubled

-----------------------------------------------------------------------------
(* What the other runs know after a step of t.                             *)

\* A step that others see changes no more than `disturbed' in their states.
LEMMA VisiblyKeeps ==
    ASSUME TypeOK, NEW t \in Tool, NEW x \in ToolState, Visibly(t, x)
    PROVE  \A u \in Tool : u # t => /\ tool'[u].version = tool[u].version
                                    /\ tool'[u].pc = tool[u].pc
                                    /\ tool'[u].inode = tool[u].inode
                                    /\ tool'[u].header = tool[u].header
<1> SUFFICES ASSUME NEW u \in Tool, u # t
             PROVE  /\ tool'[u].version = tool[u].version
                    /\ tool'[u].pc = tool[u].pc
                    /\ tool'[u].inode = tool[u].inode
                    /\ tool'[u].header = tool[u].header
  OBVIOUS
<1>1. tool[u] \in ToolState  BY DEF TypeOK
<1> DEFINE e == tool[u].disturbed \/ tool[u].pc \notin Idle
<1>2. tool'[u] = [tool[u] EXCEPT !.disturbed = e]  BY DEF Visibly
<1> HIDE DEF e
<1> QED  BY <1>1, <1>2 DEF ToolState

\* It disturbs them, so they rely on nothing any more ...
LEMMA VisiblyUntroubled ==
    ASSUME TypeOK, Untroubled, NEW t \in Tool, NEW x \in ToolState, Visibly(t, x),
           x.pc \in Idle \/ tool[t].pc \notin Idle,
           x.disturbed = tool[t].disturbed \/ x.pc \in Idle,
           x.pc \notin Idle /\ ~x.disturbed /\ Quiet(t) /\ Trusts(tool[t])
               => Trusts(tool[t])'
    PROVE  Untroubled'
<1>1. tool \in [Tool -> ToolState]  BY DEF TypeOK
<1>2. /\ tool'[t] = x
      /\ \A u \in Tool : u # t => Alike(tool'[u], tool[u])
      /\ \A u \in Tool : u # t /\ tool[u].pc \notin Idle => tool'[u].disturbed
  BY <1>1, VisiblyMoves
<1> SUFFICES ASSUME NEW u \in Tool, tool'[u].pc \notin Idle, ~tool'[u].disturbed
             PROVE  Quiet(u)' /\ Trusts(tool[u])'
  BY DEF Untroubled
<1>3. u = t  BY <1>2 DEF Alike
<1>4. Quiet(t) /\ Trusts(tool[t])  BY <1>2, <1>3 DEF Untroubled
<1>5. Quiet(t)'  BY <1>2, <1>4 DEF Quiet, Alike
<1> QED  BY <1>2, <1>3, <1>4, <1>5

\* ... and one that leaves name and files alone takes nothing from them.
LEMMA QuietUntroubled ==
    ASSUME TypeOK, Untroubled, NEW t \in Tool, NEW x \in ToolState,
           tool' = [tool EXCEPT ![t] = x],
           x.pc \notin Writing \cup {"create"},
           UNCHANGED << name, file, reused, racy, overlap >>, torn \subseteq torn',
           x.pc \notin Idle /\ ~x.disturbed => Quiet(t) /\ Trusts(tool[t])'
    PROVE  Untroubled'
<1>1. /\ tool'[t] = x
      /\ \A u \in Tool : u # t => tool'[u] = tool[u]
  BY DEF TypeOK
<1> SUFFICES ASSUME NEW u \in Tool, tool'[u].pc \notin Idle, ~tool'[u].disturbed
             PROVE  Quiet(u)' /\ Trusts(tool[u])'
  BY DEF Untroubled
<1>2. CASE u = t
  <2>1. Quiet(t) /\ Trusts(tool[t])'  BY <1>1, <1>2
  <2>2. Quiet(t)'  BY <1>1, <2>1 DEF Quiet
  <2> QED  BY <1>2, <2>1, <2>2
<1>3. CASE u # t
  <2>1. tool'[u] = tool[u] /\ Quiet(u) /\ Trusts(tool[u])
    BY <1>1, <1>3 DEF Untroubled
  <2>2. Quiet(u)'  BY <1>1, <2>1 DEF Quiet
  <2>3. \A i, v : Fresh(i, v)' <=> Fresh(i, v)  BY DEF Fresh, NoneBefore
  <2>4. TrustsStamps(tool[u])'  BY <2>1, <2>3 DEF Trusts, TrustsStamps
  <2>5. TrustsFound(tool[u])'  BY <2>1, <2>3 DEF Trusts, TrustsFound
  <2>6. TrustsMark(tool[u])'  BY <2>1 DEF Trusts, TrustsMark
  <2>7. TrustsName(tool[u])'
    BY <2>1, <2>3 DEF Trusts, TrustsName, Marked, Complete
  <2>8. TrustsOpened(tool[u])'
    <3>1. CASE ~(tool[u].pc = "reading" /\ tool[u].checked)
      BY <2>1, <3>1 DEF TrustsOpened
    <3>2. CASE tool[u].pc = "reading" /\ tool[u].checked
      <4>1. TrustsOpened(tool[u])  BY <2>1 DEF Trusts
      <4>2. tool[u].inode \in Run /\ Fresh(tool[u].inode, tool[u].version)
        BY <3>2, <4>1 DEF TrustsOpened
      <4>3. Fresh(tool[u].inode, tool[u].version)'
        BY <2>1, <4>2 DEF Fresh, NoneBefore
      <4>4. ASSUME tool[u].inode \notin torn' \cup overlap'
            PROVE  /\ Whole(file[tool[u].inode].cells)
                   /\ tool[u].roots = file[tool[u].inode].cells[1].roots
        BY <3>2, <4>1, <4>4 DEF TrustsOpened
      <4>5. Whole(file[tool[u].inode].cells) => Whole(file'[tool'[u].inode].cells)
        BY <2>1
      <4>6. Whole(file'[tool'[u].inode].cells) => Whole(file[tool[u].inode].cells)'
        BY DEF Whole, Leads, MadeBy
      <4> QED  BY <2>1, <4>2, <4>3, <4>4, <4>5, <4>6 DEF TrustsOpened
    <3> QED  BY <3>1, <3>2
  <2> QED  BY <2>2, <2>4, <2>5, <2>6, <2>7, <2>8 DEF Trusts
<1> QED  BY <1>2, <1>3

-----------------------------------------------------------------------------
(* Steps that change no file.                                              *)

\* A tool goes on, or ends, on its own.  If it dies between the stores of the
\* flags and of the roots, its file counts as torn.
LEMMA QuietSound ==
    ASSUME TypeOK, Sound, NEW t \in Tool, NEW x \in ToolState,
           tool' = [tool EXCEPT ![t] = x],
           x.pc \notin Writing \cup {"create"}, x.version <= trace.version,
           UNCHANGED << clock, trace, name, file, overlap, reused, racy >>,
           torn \subseteq torn', tool[t].pc = "roots" => tool[t].inode \in torn',
           x.pc \notin Idle /\ ~x.disturbed => Quiet(t) /\ Trusts(tool[t])'
    PROVE  Sound'
<1>1. /\ tool'[t] = x
      /\ \A u \in Tool : u # t => tool'[u] = tool[u]
  BY DEF TypeOK
<1>2. MarkedIsWhole'
  <2> SUFFICES ASSUME NEW i \in Run, i \notin torn' \cup overlap',
                      Marked(file[i].cells)'
               PROVE  Whole(file[i].cells)' \/ AboutToStoreRoots(i)'
    BY DEF MarkedIsWhole
  <2>1. i \notin torn \cup overlap /\ Marked(file[i].cells)
    BY DEF Marked, Complete
  <2>2. CASE Whole(file[i].cells)  BY <2>2
  <2>3. CASE AboutToStoreRoots(i)
    <3>1. PICK u \in Tool :
             tool[u].pc = "roots" /\ tool[u].inode = i /\ tool[u].header = 1
      BY <2>3 DEF AboutToStoreRoots
    <3>2. u # t  BY <3>1
    <3> QED  BY <3>1, <3>2, <1>1 DEF AboutToStoreRoots
  <2> QED  BY <2>1, <2>2, <2>3 DEF Sound, MarkedIsWhole
<1>3. OldOrUpToDate'
  <2> SUFFICES ASSUME NEW i \in Run, i \notin reused' \cup racy'
               PROVE  \/ NoneBefore(file[i].cells, trace.version)'
                      \/ WritersOf(i)' = {} /\ file'[i].mtime < trace'.mtime
    BY DEF OldOrUpToDate
  <2>1. WritersOf(i) = {} => WritersOf(i)' = {}  BY <1>1 DEF WritersOf
  <2> QED  BY <2>1 DEF Sound, OldOrUpToDate, NoneBefore
<1>4. Dated'  BY <1>1 DEF Sound, Dated
<1>5. SharedIsReused'  BY DEF Sound, SharedIsReused
<1>6. Untroubled'  BY QuietUntroubled DEF Sound
<1> QED  BY <1>2, <1>3, <1>4, <1>5, <1>6 DEF Sound

\* A tool takes the name away.
LEMMA UnlinkSound ==
    ASSUME TypeOK, Sound, NEW t \in Tool, NEW x \in ToolState, Visibly(t, x),
           tool[t].pc \notin Idle \cup {"roots"}, x.pc \in Idle \cup {"create"},
           x.version <= trace.version,
           x.disturbed = tool[t].disturbed \/ x.pc \in Idle,
           UNCHANGED << clock, trace, file, overlap, reused, torn, racy >>
    PROVE  Sound'
<1>1. tool \in [Tool -> ToolState]  BY DEF TypeOK
<1>2. /\ tool'[t] = x
      /\ \A u \in Tool : u # t => /\ tool'[u].version = tool[u].version
                                  /\ tool'[u].pc = tool[u].pc
                                  /\ tool'[u].inode = tool[u].inode
                                  /\ tool'[u].header = tool[u].header
  BY <1>1, VisiblyMoves, VisiblyKeeps
<1>3. MarkedIsWhole'
  <2> SUFFICES ASSUME NEW i \in Run, i \notin torn' \cup overlap',
                      Marked(file[i].cells)'
               PROVE  Whole(file[i].cells)' \/ AboutToStoreRoots(i)'
    BY DEF MarkedIsWhole
  <2>1. i \notin torn \cup overlap /\ Marked(file[i].cells)
    BY DEF Marked, Complete
  <2>2. CASE Whole(file[i].cells)  BY <2>2
  <2>3. CASE AboutToStoreRoots(i)
    <3>1. PICK u \in Tool :
             tool[u].pc = "roots" /\ tool[u].inode = i /\ tool[u].header = 1
      BY <2>3 DEF AboutToStoreRoots
    <3>2. u # t  BY <3>1
    <3> QED  BY <3>1, <3>2, <1>2 DEF AboutToStoreRoots
  <2> QED  BY <2>1, <2>2, <2>3 DEF Sound, MarkedIsWhole
<1>4. OldOrUpToDate'
  <2> SUFFICES ASSUME NEW i \in Run, i \notin reused' \cup racy'
               PROVE  \/ NoneBefore(file[i].cells, trace.version)'
                      \/ WritersOf(i)' = {} /\ file'[i].mtime < trace'.mtime
    BY DEF OldOrUpToDate
  <2>1. x.pc \notin Writing  BY DEF Writing, Idle
  <2>2. WritersOf(i) = {} => WritersOf(i)' = {}  BY <1>2, <2>1 DEF WritersOf
  <2> QED  BY <2>2 DEF Sound, OldOrUpToDate, NoneBefore
<1>5. Dated'  BY <1>2 DEF Sound, Dated
<1>6. SharedIsReused'  BY DEF Sound, SharedIsReused
<1>7. Untroubled'
  <2>1. ASSUME x.pc \notin Idle PROVE Trusts(tool[t])'
    <3>1. tool'[t].pc = "create"  BY <1>2, <2>1
    <3> QED  BY <3>1 DEF Trusts, TrustsStamps, TrustsFound, TrustsMark,
                         TrustsName, TrustsOpened, Writing
  <2> QED  BY <2>1, VisiblyUntroubled DEF Sound
<1> QED  BY <1>3, <1>4, <1>5, <1>6, <1>7 DEF Sound

\* A new trace leaves the files as old as they are; time goes by.
LEMMA WorldSound ==
    ASSUME TypeOK, Sound, WriteTrace \/ Tick \/ UNCHANGED vars
    PROVE  Sound'
<1>1. UNCHANGED << name, file, tool, runs, overlap, reused, torn >>
      /\ racy \subseteq racy'
  BY DEF WriteTrace, Tick, vars
<1>2. /\ clock \in Nat /\ trace \in [mtime : Nat, version : Nat]
      /\ file \in [Run -> [cells : Seq(Cell), mtime : Nat]]
      /\ tool \in [Tool -> ToolState]
  BY DEF TypeOK
<1>3. MarkedIsWhole'
  <2>1. \A i \in Run : Marked(file[i].cells)' <=> Marked(file[i].cells)
    BY <1>1 DEF Marked, Complete
  <2>2. \A i \in Run : Whole(file[i].cells)' <=> Whole(file[i].cells)
    BY <1>1 DEF Whole, Leads, MadeBy
  <2>3. \A i \in Run : AboutToStoreRoots(i)' <=> AboutToStoreRoots(i)
    BY <1>1 DEF AboutToStoreRoots
  <2> QED  BY <1>1, <2>1, <2>2, <2>3 DEF Sound, MarkedIsWhole
<1>4. OldOrUpToDate'
  <2> SUFFICES ASSUME NEW i \in Run, i \notin reused' \cup racy'
               PROVE  \/ NoneBefore(file[i].cells, trace.version)'
                      \/ WritersOf(i)' = {} /\ file'[i].mtime < trace'.mtime
    BY DEF OldOrUpToDate
  <2>1. WritersOf(i)' = WritersOf(i)  BY <1>1 DEF WritersOf
  <2>2. CASE Tick \/ UNCHANGED vars
    <3>1. trace' = trace  BY <2>2 DEF Tick, vars
    <3> QED  BY <1>1, <2>1, <3>1 DEF Sound, OldOrUpToDate, NoneBefore
  <2>3. CASE WriteTrace
    <3>1. WritersOf(i) = {} /\ (file[i].cells = << >> \/ file[i].mtime # clock)
      BY <2>3 DEF WriteTrace
    <3>2. CASE file[i].cells = << >>  BY <3>2, <1>1 DEF NoneBefore
    <3>3. CASE file[i].mtime # clock
      <4>1. file[i].mtime \in Nat /\ file[i].mtime <= clock
        BY <1>2 DEF Sound, Dated
      <4>2. trace'.mtime = clock  BY <2>3 DEF WriteTrace
      <4>3. file'[i].mtime < trace'.mtime  BY <1>1, <1>2, <3>3, <4>1, <4>2
      <4> QED  BY <2>1, <3>1, <4>3
    <3> QED  BY <3>1, <3>2, <3>3
  <2> QED  BY <2>2, <2>3
<1>5. Dated'
  <2>1. /\ trace.mtime <= clock /\ \A i \in Run : file[i].mtime <= clock
        /\ \A t \in Tool : tool[t].version <= trace.version
    BY DEF Sound, Dated
  <2>2. CASE Tick
    <3>1. trace' = trace /\ clock' = clock + 1  BY <2>2 DEF Tick
    <3>2. \A i \in Run : file[i].mtime \in Nat  BY <1>2
    <3> QED  BY <1>1, <1>2, <2>1, <3>1, <3>2 DEF Dated
  <2>3. CASE WriteTrace
    <3>1. clock' = clock /\ trace'.mtime = clock /\ trace'.version = trace.version + 1
      BY <2>3 DEF WriteTrace
    <3>2. \A t \in Tool : tool[t].version \in Nat  BY <1>2 DEF ToolState
    <3> QED  BY <1>1, <1>2, <2>1, <3>1, <3>2 DEF Dated
  <2>4. CASE UNCHANGED vars
    <3>1. trace' = trace /\ clock' = clock  BY <2>4 DEF vars
    <3> QED  BY <1>1, <2>1, <3>1 DEF Dated
  <2> QED  BY <2>2, <2>3, <2>4
<1>6. SharedIsReused'  BY <1>1 DEF Sound, SharedIsReused
<1>7. Untroubled'
  <2> SUFFICES ASSUME NEW u \in Tool, tool[u].pc \notin Idle, ~tool[u].disturbed
               PROVE  Quiet(u)' /\ Trusts(tool[u])'
    BY <1>1 DEF Untroubled
  <2>1. Quiet(u) /\ Trusts(tool[u])  BY DEF Sound, Untroubled
  <2>2. Quiet(u)'  BY <1>1, <2>1 DEF Quiet
  <2>3. \A i, v : Fresh(i, v) => Fresh(i, v)'  BY <1>1 DEF Fresh, NoneBefore
  <2>4. TrustsStamps(tool[u])'  BY <1>1, <2>1, <2>3 DEF Trusts, TrustsStamps
  <2>5. TrustsFound(tool[u])'  BY <1>1, <2>1, <2>3 DEF Trusts, TrustsFound
  <2>6. TrustsMark(tool[u])'  BY <1>1, <2>1 DEF Trusts, TrustsMark
  <2>7. TrustsName(tool[u])'
    BY <1>1, <2>1, <2>3 DEF Trusts, TrustsName, Marked, Complete
  <2>8. TrustsOpened(tool[u])'
    <3>1. CASE ~(tool[u].pc = "reading" /\ tool[u].checked)
      BY <1>1, <2>1, <3>1 DEF TrustsOpened
    <3>2. CASE tool[u].pc = "reading" /\ tool[u].checked
      <4>1. TrustsOpened(tool[u])  BY <2>1 DEF Trusts
      <4>2. tool[u].inode \in Run /\ Fresh(tool[u].inode, tool[u].version)
        BY <3>2, <4>1 DEF TrustsOpened
      <4>3. Fresh(tool[u].inode, tool[u].version)'
        BY <1>1, <2>1, <4>2 DEF Fresh, NoneBefore
      <4>4. ASSUME tool[u].inode \notin torn' \cup overlap'
            PROVE  /\ Whole(file[tool[u].inode].cells)
                   /\ tool[u].roots = file[tool[u].inode].cells[1].roots
        BY <1>1, <3>2, <4>1, <4>4 DEF TrustsOpened
      <4>5. Whole(file[tool[u].inode].cells) => Whole(file'[tool'[u].inode].cells)
        BY <1>1, <2>1
      <4>6. Whole(file'[tool'[u].inode].cells) => Whole(file[tool[u].inode].cells)'
        BY DEF Whole, Leads, MadeBy
      <4> QED  BY <1>1, <2>1, <4>2, <4>3, <4>4, <4>5, <4>6 DEF TrustsOpened
    <3> QED  BY <3>1, <3>2
  <2> QED  BY <2>2, <2>4, <2>5, <2>6, <2>7, <2>8 DEF Trusts
<1> QED  BY <1>3, <1>4, <1>5, <1>6, <1>7 DEF Sound

\* A run that has just started, or ended, relies on nothing but time stamps.
LEMMA StartSound ==
    ASSUME TypeOK, Sound, NEW t \in Tool,
           NEW mode \in {"auto", "force", "never"}, Start(t, mode)
    PROVE  Sound'
<1> DEFINE l == CASE mode = "auto" -> "stat" [] mode = "force" -> "remove"
                  [] OTHER -> "open"
<1> DEFINE s == IF mode = "auto" THEN trace.mtime ELSE 0
<1> DEFINE c == mode # "never"
<1> DEFINE v == IF mode = "never" THEN 0 ELSE trace.version
<1> DEFINE d == \E u \in Tool \ {t} : tool[u].pc \in Indexing
<1> DEFINE x == [NoRun EXCEPT !.pc = l, !.run = runs + 1, !.stamp = s, !.checked = c,
                              !.version = v, !.disturbed = d]
<1>1. /\ tool' = [tool EXCEPT ![t] = x] /\ tool[t].pc \in Idle
      /\ UNCHANGED << clock, trace, name, file, overlap, reused, torn, racy >>
      /\ runs < MaxRun
  BY DEF Start
<1>2. /\ trace \in [mtime : Nat, version : Nat] /\ runs \in Nat
      /\ tool \in [Tool -> ToolState]
      /\ file \in [Run -> [cells : Seq(Cell), mtime : Nat]]
  BY BoundsAssumption DEF TypeOK
<1>3. /\ l \in {"stat", "remove", "open"} /\ (l = "stat" <=> mode = "auto")
      /\ l = "open" => ~c
  <2>1. CASE mode = "auto"  BY <2>1
  <2>2. CASE mode = "force"  BY <2>2
  <2>3. CASE mode # "auto" /\ mode # "force"
    <3>1. l = "open"  BY <2>3
    <3> QED  BY <2>1, <2>2, <2>3, <3>1
  <2> QED  BY <2>1, <2>2, <2>3
<1>4. s \in Nat /\ v \in Nat /\ v <= trace.version  BY <1>2
<1>5. d <=> \E u \in Tool \ {t} : tool[u].pc \in Indexing  OBVIOUS
<1>6. l = "stat" => s = trace.mtime /\ v = trace.version  BY <1>3
<1>7. c \in BOOLEAN /\ d \in BOOLEAN /\ runs + 1 \in Run
  BY <1>1, <1>2, BoundsAssumption DEF Run
<1> HIDE DEF l, s, c, v, d
<1>8. /\ x.pc = l /\ x.stamp = s /\ x.checked = c /\ x.version = v
      /\ x.disturbed = d
  BY DEF NoRun
<1>9. x \in ToolState
  BY <1>3, <1>4, <1>7, NoRunType DEF ToolState, Indexing
<1> HIDE DEF x
<1>10. tool'[t] = x  BY <1>1, <1>2
<1>11. x.pc \notin Writing \cup {"create"}  BY <1>3, <1>8 DEF Writing
<1>12. ASSUME ~x.disturbed PROVE Quiet(t)
  BY <1>5, <1>8, <1>12 DEF Quiet, Indexing
<1>13. TrustsStamps(tool[t])'
  <2> SUFFICES ASSUME l = "stat", NEW i \in Run
               PROVE  Fresh(i, trace.version)' \/ file'[i].mtime < trace.mtime
    BY <1>1, <1>6, <1>8, <1>10 DEF TrustsStamps, Fresh, NoneBefore
  <2> QED  BY <1>1 DEF Sound, OldOrUpToDate, Fresh, NoneBefore
<1>14. Trusts(tool[t])'
  BY <1>3, <1>8, <1>10, <1>13 DEF Trusts, TrustsFound, TrustsMark, TrustsName,
                                  TrustsOpened, Writing
<1>15. /\ torn \subseteq torn' /\ tool[t].pc # "roots" /\ x.version <= trace.version
  BY <1>1, <1>4, <1>8 DEF Idle
<1> QED  BY <1>1, <1>9, <1>11, <1>12, <1>14, <1>15, QuietSound

LEMMA EndSound ==
    ASSUME TypeOK, Sound, NEW t \in Tool, End(t) \/ Abort(t),
           UNCHANGED << clock, trace, name, file, overlap, reused, racy >>,
           torn \subseteq torn', tool[t].pc = "roots" => tool[t].inode \in torn'
    PROVE  Sound'
<1>1. PICK x \in ToolState :
         tool' = [tool EXCEPT ![t] = x] /\ x.pc \in Idle /\ x.version = 0
  <2>1. CASE End(t)
    <3>1. NoRun \in ToolState /\ NoRun.pc \in Idle /\ NoRun.version = 0
      BY NoRunType DEF NoRun
    <3> QED  BY <2>1, <3>1 DEF End
  <2>2. CASE Abort(t)
    <3> DEFINE x == [NoRun EXCEPT !.pc = "aborted", !.checked = tool[t].checked,
                                  !.disturbed = tool[t].disturbed]
    <3>1. x \in ToolState /\ x.pc \in Idle  BY AbortType
    <3>2. x.version = 0  BY DEF NoRun
    <3> QED  BY <2>2, <3>1, <3>2 DEF Abort
  <2> QED  BY <2>1, <2>2
<1>2. x.pc \notin Writing \cup {"create"}  BY <1>1 DEF Idle, Writing
<1>3. x.version <= trace.version  BY <1>1 DEF TypeOK
<1> QED  BY <1>1, <1>2, <1>3, QuietSound

\* stat(): a file that is there, and not older than the trace.
LEMMA StatIndexSound ==
    ASSUME TypeOK, Sound, NEW t \in Tool, StatIndex(t)
    PROVE  Sound'
<1> DEFINE r == tool[t]
<1> DEFINE l == IF MissingOrTooOld(name, r.stamp) THEN "remove" ELSE "check"
<1> DEFINE x == [r EXCEPT !.pc = l, !.stamp = 0]
<1>1. /\ r.pc = "stat" /\ tool' = [tool EXCEPT ![t] = x]
      /\ UNCHANGED << clock, trace, name, file, overlap, reused, torn, racy >>
  BY DEF StatIndex
<1>2. /\ r \in ToolState /\ name \in {None} \cup Run /\ tool \in [Tool -> ToolState]
      /\ file \in [Run -> [cells : Seq(Cell), mtime : Nat]]
  BY DEF TypeOK
<1>3. l \in {"remove", "check"} /\ (l = "check" => ~MissingOrTooOld(name, r.stamp))
  OBVIOUS
<1> HIDE DEF l
<1>4. /\ x \in ToolState /\ x.pc = l /\ x.version = r.version
      /\ x.disturbed = r.disturbed
  BY <1>2, <1>3 DEF ToolState, Indexing
<1> HIDE DEF x
<1>5. tool'[t] = x  BY <1>1, <1>2
<1>6. ASSUME ~x.disturbed PROVE Quiet(t) /\ Trusts(tool[t])'
  <2>1. Quiet(t) /\ TrustsStamps(r)
    BY <1>1, <1>4, <1>6 DEF Sound, Untroubled, Trusts, Idle
  <2>2. TrustsFound(tool[t])'
    <3> SUFFICES ASSUME l = "check" PROVE name # None /\ Fresh(name, r.version)'
      BY <1>1, <1>4, <1>5 DEF TrustsFound, Fresh, NoneBefore
    <3>1. name # None /\ ~(file[name].mtime < r.stamp)
      BY <1>3 DEF MissingOrTooOld
    <3>2. name \in Run  BY <1>2, <3>1
    <3>3. Fresh(name, r.version)  BY <1>1, <2>1, <3>1, <3>2 DEF TrustsStamps
    <3> QED  BY <1>1, <1>4, <1>5, <3>1, <3>3 DEF Fresh, NoneBefore
  <2> QED  BY <1>3, <1>4, <1>5, <2>1, <2>2
           DEF Trusts, TrustsStamps, TrustsMark, TrustsName, TrustsOpened, Writing
<1>7. x.pc \notin Writing \cup {"create"}  BY <1>3, <1>4 DEF Writing
<1>8. x.version <= trace.version  BY <1>4 DEF Sound, Dated
<1> QED  BY <1>1, <1>4, <1>6, <1>7, <1>8, QuietSound

\* check_index_header: the mark of the file that stat() has found, for no other
\* tool has been writing.
LEMMA CheckHeaderSound ==
    ASSUME TypeOK, Sound, NEW t \in Tool, CheckHeader(t)
    PROVE  Sound'
<1> DEFINE r == tool[t]
<1>1. /\ r.pc = "check"
      /\ UNCHANGED << clock, trace, name, file, overlap, reused, torn, racy >>
  BY DEF CheckHeader
<1>2. CASE End(t) \/ Abort(t)  BY <1>1, <1>2, EndSound
<1>3. CASE ~(End(t) \/ Abort(t))
  <2> DEFINE l == IF Complete(file[name].cells[1]) THEN "open" ELSE "remove"
  <2> DEFINE x == [r EXCEPT !.pc = l]
  <2>1. name # None /\ file[name].cells # << >> /\ tool' = [tool EXCEPT ![t] = x]
    BY <1>3 DEF CheckHeader, Goto, TypeOK
  <2>2. r \in ToolState /\ tool \in [Tool -> ToolState]  BY DEF TypeOK
  <2>3. l \in {"remove", "open"} /\ (l = "open" => Marked(file[name].cells))
    BY <2>1 DEF Marked
  <2> HIDE DEF l
  <2>4. /\ x \in ToolState /\ x.pc = l /\ x.version = r.version
        /\ x.disturbed = r.disturbed
    BY <2>2, <2>3 DEF ToolState, Indexing
  <2> HIDE DEF x
  <2>5. tool'[t] = x  BY <2>1, <2>2
  <2>6. ASSUME ~x.disturbed PROVE Quiet(t) /\ Trusts(tool[t])'
    <3>1. Quiet(t) /\ TrustsFound(r)
      BY <1>1, <2>4, <2>6 DEF Sound, Untroubled, Trusts, Idle
    <3>2. Fresh(name, r.version)  BY <1>1, <3>1 DEF TrustsFound
    <3>3. TrustsName(tool[t])'
      <4>1. Fresh(name, r.version)'  BY <1>1, <2>1, <2>2, <2>4, <2>5, <3>2
                                     DEF Fresh, NoneBefore
      <4>2. l = "open" => Marked(file[name].cells)'
        BY <1>1, <2>3 DEF Marked, Complete
      <4> QED  BY <1>1, <2>1, <2>4, <2>5, <4>1, <4>2
               DEF TrustsName, Fresh, NoneBefore
    <3> QED  BY <2>3, <2>4, <2>5, <3>1, <3>3
             DEF Trusts, TrustsStamps, TrustsFound, TrustsMark, TrustsOpened, Writing
  <2>7. x.pc \notin Writing \cup {"create"}  BY <2>3, <2>4 DEF Writing
  <2>8. x.version <= trace.version  BY <2>4 DEF Sound, Dated
  <2> QED  BY <1>1, <2>1, <2>4, <2>6, <2>7, <2>8, QuietSound
<1> QED  BY <1>2, <1>3

\* A file that is marked complete is whole: no other tool is on its way from
\* the flags to the roots.
LEMMA OpenSound ==
    ASSUME TypeOK, Sound, NEW t \in Tool, Open(t)
    PROVE  Sound'
<1> DEFINE r == tool[t]
<1>1. /\ r.pc = "open"
      /\ UNCHANGED << clock, trace, name, file, overlap, reused, torn, racy >>
  BY DEF Open
<1>2. CASE End(t) \/ Abort(t)  BY <1>1, <1>2, EndSound
<1>3. CASE ~(End(t) \/ Abort(t))
  <2> DEFINE x == [r EXCEPT !.pc = "reading", !.inode = name,
                            !.header = 0, !.next = 0, !.size = 0,
                            !.roots = file[name].cells[1].roots]
  <2>1. /\ name # None /\ file[name].cells # << >>
        /\ file[name].cells[1].kind = "header"
        /\ tool' = [tool EXCEPT ![t] = x]
    BY <1>3 DEF Open
  <2>2. /\ r \in ToolState /\ tool \in [Tool -> ToolState] /\ name \in Run
        /\ file[name].cells \in Seq(Cell)
    BY <2>1 DEF TypeOK
  <2>3. file[name].cells[1].roots \in Seq(Nat)
    <3>1. file[name].cells[1] \in Cell  BY <2>1, <2>2
    <3> QED  BY <2>1, <3>1 DEF Cell
  <2>4. /\ x \in ToolState /\ x.pc = "reading" /\ x.version = r.version
        /\ x.disturbed = r.disturbed /\ x.inode = name /\ x.checked = r.checked
        /\ x.roots = file[name].cells[1].roots
    BY <2>2, <2>3 DEF ToolState
  <2> HIDE DEF x
  <2>5. tool'[t] = x  BY <2>1, <2>2
  <2>6. ASSUME ~x.disturbed PROVE Quiet(t) /\ Trusts(tool[t])'
    <3>1. Quiet(t) /\ TrustsName(r)
      BY <1>1, <2>4, <2>6 DEF Sound, Untroubled, Trusts, Idle
    <3>2. ASSUME r.checked
          PROVE  /\ Fresh(name, r.version)
                 /\ name \notin torn \cup overlap => Whole(file[name].cells)
      <4>1. Marked(file[name].cells) /\ Fresh(name, r.version)
        BY <1>1, <3>1, <3>2 DEF TrustsName
      <4>2. ~AboutToStoreRoots(name)
        BY <1>1, <3>1 DEF Quiet, AboutToStoreRoots, Writing
      <4> QED  BY <2>2, <4>1, <4>2 DEF Sound, MarkedIsWhole
    <3>3. TrustsOpened(tool[t])'
      <4>1. r.checked => Fresh(name, r.version)'
        BY <1>1, <2>4, <2>5, <3>2 DEF Fresh, NoneBefore
      <4>2. r.checked /\ name \notin torn \cup overlap => Whole(file'[name].cells)
        BY <1>1, <3>2
      <4>3. Whole(file'[name].cells) => Whole(file[name].cells)'
        BY <1>1 DEF Whole, Leads, MadeBy
      <4>4. tool'[t].roots = file'[tool'[t].inode].cells[1].roots
        BY <1>1, <2>4, <2>5
      <4>5. /\ tool'[t].inode = name' /\ tool'[t].checked = r.checked
            /\ tool'[t].version = r.version /\ name' = name
            /\ torn' = torn /\ overlap' = overlap
        BY <1>1, <2>4, <2>5
      <4>6. Fresh(name, r.version)' => Fresh(tool[t].inode, tool[t].version)'
        BY <4>5 DEF Fresh, NoneBefore
      <4>7. Whole(file'[name].cells) => Whole(file'[tool'[t].inode].cells)
        BY <4>5
      <4>8. Whole(file'[tool'[t].inode].cells) => Whole(file[tool[t].inode].cells)'
        BY DEF Whole, Leads, MadeBy
      <4> QED  BY <2>2, <4>1, <4>2, <4>4, <4>5, <4>6, <4>7, <4>8 DEF TrustsOpened
    <3> QED  BY <2>4, <2>5, <3>1, <3>3
             DEF Trusts, TrustsStamps, TrustsFound, TrustsMark, TrustsName, Writing
  <2>7. x.pc \notin Writing \cup {"create"}  BY <2>4 DEF Writing
  <2>8. x.version <= trace.version  BY <2>4 DEF Sound, Dated
  <2> QED  BY <1>1, <2>1, <2>4, <2>6, <2>7, <2>8, QuietSound
<1> QED  BY <1>2, <1>3

-----------------------------------------------------------------------------
(* Steps of a tool that builds an index.                                   *)

\* A tool opens file i, or changes it.
LEMMA FileSound ==
    ASSUME TypeOK, Sound, NEW t \in Tool, NEW x \in ToolState, Visibly(t, x),
           NEW i \in Run, tool[t].pc \notin Idle, x.pc \notin Idle,
           tool[t].pc = "roots" => tool[t].inode = i,
           x.pc \in Writing => x.inode = i,
           x.version = tool[t].version, x.disturbed = tool[t].disturbed,
           \A j \in Run : j # i => file'[j] = file[j],
           file'[i].mtime <= clock,
           Marked(file'[i].cells) /\ i \notin torn \cup overlap'
               => Whole(file'[i].cells) \/ AboutToStoreRoots(i)',
           i \notin reused' \cup racy => NoneBefore(file'[i].cells, trace.version),
           overlap \subseteq overlap', overlap' \subseteq reused',
           reused \subseteq reused', UNCHANGED << clock, trace, torn, racy >>,
           ~x.disturbed /\ Quiet(t) /\ Trusts(tool[t]) => Trusts(tool[t])'
    PROVE  Sound'
<1>1. tool \in [Tool -> ToolState]  BY DEF TypeOK
<1>2. /\ tool'[t] = x
      /\ \A u \in Tool : u # t => /\ tool'[u].version = tool[u].version
                                  /\ tool'[u].pc = tool[u].pc
                                  /\ tool'[u].inode = tool[u].inode
                                  /\ tool'[u].header = tool[u].header
  BY <1>1, VisiblyMoves, VisiblyKeeps
<1>3. MarkedIsWhole'
  <2> SUFFICES ASSUME NEW j \in Run, j \notin torn' \cup overlap',
                      Marked(file[j].cells)'
               PROVE  Whole(file[j].cells)' \/ AboutToStoreRoots(j)'
    BY DEF MarkedIsWhole
  <2>1. CASE j = i
    <3>1. Marked(file'[i].cells)  BY <2>1 DEF Marked, Complete
    <3>2. Whole(file'[j].cells) \/ AboutToStoreRoots(i)'  BY <2>1, <3>1
    <3>3. Whole(file'[j].cells) => Whole(file[j].cells)'
      BY DEF Whole, Leads, MadeBy
    <3>4. AboutToStoreRoots(i)' => AboutToStoreRoots(j)'
      BY <2>1 DEF AboutToStoreRoots
    <3> QED  BY <3>2, <3>3, <3>4
  <2>2. CASE j # i
    <3>1. file'[j] = file[j]  BY <2>2
    <3>2. j \notin torn \cup overlap /\ Marked(file[j].cells)
      BY <3>1 DEF Marked, Complete
    <3>3. CASE Whole(file[j].cells)
      <4>1. Whole(file'[j].cells)  BY <3>1, <3>3
      <4> QED  BY <4>1 DEF Whole, Leads, MadeBy
    <3>4. CASE AboutToStoreRoots(j)
      <4>1. PICK u \in Tool :
               tool[u].pc = "roots" /\ tool[u].inode = j /\ tool[u].header = 1
        BY <3>4 DEF AboutToStoreRoots
      <4>2. u # t  BY <2>2, <4>1
      <4> QED  BY <4>1, <4>2, <1>2 DEF AboutToStoreRoots
    <3> QED  BY <3>2, <3>3, <3>4 DEF Sound, MarkedIsWhole
  <2> QED  BY <2>1, <2>2
<1>4. OldOrUpToDate'
  <2> SUFFICES ASSUME NEW j \in Run, j \notin reused' \cup racy'
               PROVE  \/ NoneBefore(file[j].cells, trace.version)'
                      \/ WritersOf(j)' = {} /\ file'[j].mtime < trace'.mtime
    BY DEF OldOrUpToDate
  <2>1. CASE j = i
    <3>1. NoneBefore(file'[i].cells, trace.version)  BY <2>1
    <3> QED  BY <2>1, <3>1 DEF NoneBefore
  <2>2. CASE j # i
    <3>1. file'[j] = file[j]  BY <2>2
    <3>2. WritersOf(j) = {} => WritersOf(j)' = {}  BY <1>2, <2>2 DEF WritersOf
    <3> QED  BY <3>1, <3>2 DEF Sound, OldOrUpToDate, NoneBefore
  <2> QED  BY <2>1, <2>2
<1>5. Dated'
  <2>1. \A j \in Run : file'[j].mtime <= clock  BY DEF Sound, Dated
  <2> QED  BY <1>2, <2>1 DEF Sound, Dated
<1>6. SharedIsReused'  BY DEF SharedIsReused
<1>7. Untroubled'  BY VisiblyUntroubled DEF Sound
<1> QED  BY <1>3, <1>4, <1>5, <1>6, <1>7 DEF Sound

\* A tool that has a file open for writing changes it.  The parts that it adds
\* are made from the trace as it is.
LEMMA WriterSound ==
    ASSUME Inv, Sound, Kept, NEW t \in Tool, tool[t].pc \in Writing,
           NEW x \in ToolState, Visibly(t, x), x.pc \in Writing \cup {"open"},
           x.inode = tool[t].inode, x.version = tool[t].version,
           x.disturbed = tool[t].disturbed,
           NEW new \in Seq(Cell), NEW m \in {file[tool[t].inode].mtime, clock},
           file' = [file EXCEPT ![tool[t].inode] = [cells |-> new, mtime |-> m]],
           UNCHANGED << clock, trace, overlap, reused, torn, racy >>,
           \A p \in 1 .. Len(new) : new[p].kind = "part" =>
               \/ p <= Len(file[tool[t].inode].cells)
                  /\ new[p] = file[tool[t].inode].cells[p]
               \/ new[p].version = trace.version,
           Alone(t) /\ Marked(new) /\ ~Whole(new) =>
               \/ x.pc = "roots" /\ x.header = 1
               \/ /\ Marked(file[tool[t].inode].cells)
                  /\ ~(tool[t].pc = "roots" /\ tool[t].header = 1),
           ~x.disturbed /\ Quiet(t) /\ Trusts(tool[t]) => Trusts(tool[t])'
    PROVE  Sound'
<1> DEFINE i == tool[t].inode
<1>1. /\ i \in Run /\ clock \in Nat /\ trace.version \in Nat
      /\ file \in [Run -> [cells : Seq(Cell), mtime : Nat]] /\ TypeOK
      /\ tool \in [Tool -> ToolState]
  BY WriterTypes DEF Inv, TypeOK
<1>2. /\ tool'[t] = x
      /\ \A u \in Tool : u # t => /\ tool'[u].version = tool[u].version
                                  /\ tool'[u].pc = tool[u].pc
                                  /\ tool'[u].inode = tool[u].inode
                                  /\ tool'[u].header = tool[u].header
  BY <1>1, VisiblyMoves, VisiblyKeeps
<1>3. /\ file'[i].cells = new /\ file'[i].mtime = m
      /\ \A j \in Run : j # i => file'[j] = file[j]
  BY <1>1
<1>4. m <= clock  BY <1>1 DEF Sound, Dated
<1>5. ASSUME Marked(file'[i].cells), i \notin torn \cup overlap'
      PROVE  Whole(file'[i].cells) \/ AboutToStoreRoots(i)'
  <2>1. Alone(t) /\ Marked(new)  BY <1>3, <1>5 DEF Alone
  <2>2. CASE Whole(new)  BY <1>3, <2>2
  <2>3. CASE x.pc = "roots" /\ x.header = 1
    BY <1>2, <2>3 DEF AboutToStoreRoots
  <2>4. CASE /\ Marked(file[i].cells)
             /\ ~(tool[t].pc = "roots" /\ tool[t].header = 1)
    <3>1. CASE Whole(file[i].cells)  BY <1>1, <1>5, <3>1 DEF Kept
    <3>2. CASE AboutToStoreRoots(i)
      <4>1. PICK u \in Tool :
               tool[u].pc = "roots" /\ tool[u].inode = i /\ tool[u].header = 1
        BY <3>2 DEF AboutToStoreRoots
      <4>2. u # t  BY <2>4, <4>1
      <4>3. /\ tool'[u].pc = "roots" /\ tool'[u].inode = i
            /\ tool'[u].header = 1 /\ tool'[t].inode = i
        BY <1>2, <4>1, <4>2
      <4> QED  BY <4>3 DEF AboutToStoreRoots
    <3> QED  BY <1>1, <1>5, <2>4, <3>1, <3>2 DEF Sound, MarkedIsWhole
  <2> QED  BY <2>1, <2>2, <2>3, <2>4
<1>6. ASSUME i \notin reused' \cup racy
      PROVE  NoneBefore(file'[i].cells, trace.version)
  <2>1. t \in WritersOf(i)  BY DEF WritersOf
  <2>2. NoneBefore(file[i].cells, trace.version)
    BY <1>1, <1>6, <2>1 DEF Sound, OldOrUpToDate
  <2> SUFFICES ASSUME NEW p \in 1 .. Len(new), new[p].kind = "part"
               PROVE  new[p].version >= trace.version
    BY <1>3 DEF NoneBefore
  <2>3. CASE new[p].version = trace.version  BY <1>1, <2>3
  <2>4. CASE p <= Len(file[i].cells) /\ new[p] = file[i].cells[p]
    <3>1. p \in 1 .. Len(file[i].cells)  BY <1>1, <2>4
    <3> QED  BY <2>2, <2>4, <3>1 DEF NoneBefore
  <2> QED  BY <2>3, <2>4
<1>7. /\ tool[t].pc \notin Idle /\ x.pc \notin Idle
      /\ overlap \subseteq overlap' /\ overlap' \subseteq reused'
      /\ reused \subseteq reused'
  BY DEF Idle, Writing, Sound, SharedIsReused
<1>8. AboutToStoreRoots(tool[t].inode)' <=>
         \E u \in Tool : tool'[u].pc = "roots" /\ tool'[u].inode = tool'[t].inode
                         /\ tool'[u].header = 1
  BY DEF AboutToStoreRoots
<1>9. PICK j \in Run : j = i  BY <1>1
<1>10. ASSUME Marked(file'[j].cells), j \notin torn \cup overlap'
       PROVE  Whole(file'[j].cells) \/ AboutToStoreRoots(j)'
  BY <1>2, <1>5, <1>8, <1>9, <1>10 DEF AboutToStoreRoots
<1>11. j \notin reused' \cup racy => NoneBefore(file'[j].cells, trace.version)
  BY <1>6, <1>9
<1> HIDE DEF i
<1>12. /\ tool[t].inode = j /\ x.inode = j /\ file'[j].mtime <= clock
       /\ \A k \in Run : k # j => file'[k] = file[k]
  BY <1>3, <1>4, <1>9 DEF i
<1> QED  BY <1>1, <1>7, <1>10, <1>11, <1>12, FileSound

\* A store of a cell: a header that is marked makes the file one that is whole,
\* or that is about to be.
LEMMA StoreSound ==
    ASSUME Inv, Sound, Kept, NEW t \in Tool, tool[t].pc \in Writing,
           NEW x \in ToolState, Visibly(t, x), x.pc \in Writing,
           x.inode = tool[t].inode, x.version = tool[t].version,
           x.disturbed = tool[t].disturbed,
           NEW p \in Nat \ {0}, NEW c \in Cell, Store(t, p, c),
           UNCHANGED << clock, trace, overlap, reused, torn, racy >>,
           c.kind = "part" => c.version = trace.version,
           Alone(t) /\ p = 1 /\ Complete(c) =>
               \/ x.pc = "roots" /\ x.header = 1
               \/ Whole([file[tool[t].inode].cells EXCEPT ![p] = c]),
           tool[t].pc = "roots" => tool[t].header = p,
           ~x.disturbed /\ Quiet(t) /\ Trusts(tool[t]) => Trusts(tool[t])'
    PROVE  Sound'
<1> DEFINE i == tool[t].inode
<1> DEFINE cells == file[i].cells
<1> DEFINE new == [cells EXCEPT ![p] = c]
<1>1. /\ i \in Run /\ clock \in Nat /\ cells \in Seq(Cell)
      /\ file \in [Run -> [cells : Seq(Cell), mtime : Nat]]
  BY WriterTypes DEF Inv, TypeOK
<1>2. p <= Len(cells)  BY DEF Store
<1>3. PICK m \in {file[i].mtime, clock} :
         file' = [file EXCEPT ![i] = [cells |-> new, mtime |-> m]]
  BY <1>1 DEF Store
<1>4. p \in 1 .. Len(cells)  BY <1>1, <1>2
<1>5. /\ new \in Seq(Cell) /\ Len(new) = Len(cells)
      /\ \A q \in 1 .. Len(cells) : new[q] = IF q = p THEN c ELSE cells[q]
  BY <1>1, <1>4, CellsStored
<1>6. ASSUME Alone(t), Marked(new), ~Whole(new)
      PROVE  \/ x.pc = "roots" /\ x.header = 1
             \/ Marked(cells) /\ ~(tool[t].pc = "roots" /\ tool[t].header = 1)
  <2>1. 1 \in 1 .. Len(cells) /\ cells # << >>  BY <1>1, <1>4
  <2>2. CASE p = 1
    <3>1. new[1] = c  BY <1>5, <2>1, <2>2
    <3> QED  BY <1>6, <2>2, <3>1 DEF Marked
  <2>3. CASE p # 1
    <3>1. new[1] = cells[1]  BY <1>5, <2>1, <2>3
    <3> QED  BY <1>6, <2>1, <2>3, <3>1 DEF Marked
  <2> QED  BY <2>2, <2>3
<1>7. \A q \in 1 .. Len(new) : new[q].kind = "part" =>
         \/ q <= Len(cells) /\ new[q] = cells[q]
         \/ new[q].version = trace.version
  BY <1>5
<1> HIDE DEF new
<1> QED  BY <1>3, <1>5, <1>6, <1>7, WriterSound

\* A run that nobody disturbs relies on nothing while it writes, but that it
\* builds an index.
LEMMA WriterTrusts ==
    ASSUME NEW t \in Tool, tool'[t].pc \in {"header", "part", "flags"}, tool'[t].built
    PROVE  Trusts(tool[t])'
BY DEF Trusts, TrustsStamps, TrustsFound, TrustsMark, TrustsName, TrustsOpened

\* open(): the file is new, with no cells, or counts as reused.
LEMMA CreateSound ==
    ASSUME Inv, Inv', Sound, NEW t \in Tool, Create(t)
    PROVE  Sound'
<1> DEFINE r == tool[t]
<1>1. /\ r \in ToolState /\ name \in {None} \cup Run /\ TypeOK
      /\ file \in [Run -> [cells : Seq(Cell), mtime : Nat]]
      /\ tool \in [Tool -> ToolState] /\ clock \in Nat
  BY DEF Inv, TypeOK
<1>2. r.pc = "create"  BY DEF Create
<1>3. r.run \in Run /\ NotMade(r.run)
  <2>1. runs \in 0 .. MaxRun  BY DEF Inv, TypeOK
  <2>2. r.run \in 1 .. runs /\ NotMade(r.run)
    BY <1>2 DEF Inv, RunsFresh, Early, Idle
  <2> QED  BY <2>1, <2>2, BoundsAssumption DEF Run
<1>4. PICK i \in Run : i = IF name = None THEN r.run ELSE name
  BY <1>1, <1>3
<1> DEFINE n == FirstFree(i)
<1> DEFINE x == [r EXCEPT !.pc = "header", !.inode = i, !.next = n, !.size = n,
                          !.built = TRUE]
<1>5. /\ Visibly(t, x)
      /\ file' = IF name = None
                 THEN [file EXCEPT ![i] = [cells |-> << >>, mtime |-> clock]]
                 ELSE file
      /\ overlap' = IF WritersOf(i) # {} THEN overlap \cup {i} ELSE overlap
      /\ reused' = IF name = None THEN reused ELSE reused \cup {i}
      /\ UNCHANGED << clock, trace, torn, racy >>
  BY <1>4 DEF Create
<1>5a. n \in Nat  BY <1>1 DEF FirstFree
<1>6. name = None => WritersOf(i) = {}  BY <1>3, <1>4 DEF NotMade, WritersOf
<1> HIDE DEF n
<1>7. /\ x \in ToolState /\ x.pc = "header" /\ x.inode = i
      /\ x.version = r.version /\ x.disturbed = r.disturbed /\ x.built
  BY <1>1, <1>5a DEF ToolState, Indexing, Writing
<1> HIDE DEF x
<1>8. /\ tool'[t] = x
      /\ \A u \in Tool : u # t => /\ tool'[u].pc = tool[u].pc
                                  /\ tool'[u].inode = tool[u].inode
                                  /\ tool'[u].header = tool[u].header
  BY <1>1, <1>5, <1>7, VisiblyMoves, VisiblyKeeps
<1>9. /\ \A j \in Run : j # i => file'[j] = file[j]
      /\ file'[i].mtime <= clock
  <2>1. CASE name = None  BY <1>1, <1>5, <2>1
  <2>2. CASE name # None  BY <1>5, <2>2 DEF Sound, Dated
  <2> QED  BY <2>1, <2>2
<1>10. /\ overlap \subseteq overlap' /\ overlap' \subseteq reused'
       /\ reused \subseteq reused'
  BY <1>5, <1>6 DEF Sound, SharedIsReused
<1>11. ASSUME Marked(file'[i].cells), i \notin torn \cup overlap'
       PROVE  Whole(file'[i].cells) \/ AboutToStoreRoots(i)'
  <2>1. CASE name = None  BY <1>1, <1>5, <1>11, <2>1 DEF Marked
  <2>2. CASE name # None
    <3>1. file' = file /\ i \notin overlap  BY <1>5, <1>10, <1>11, <2>2
    <3>2. CASE AboutToStoreRoots(i)
      <4>1. PICK u \in Tool :
               tool[u].pc = "roots" /\ tool[u].inode = i /\ tool[u].header = 1
        BY <3>2 DEF AboutToStoreRoots
      <4>2. u # t  BY <1>2, <4>1
      <4>3. /\ tool'[u].pc = "roots" /\ tool'[u].inode = i
            /\ tool'[u].header = 1
        BY <1>7, <1>8, <4>1, <4>2
      <4> QED  BY <4>3 DEF AboutToStoreRoots
    <3> QED  BY <1>11, <3>1, <3>2 DEF Sound, MarkedIsWhole
  <2> QED  BY <2>1, <2>2
<1>12. ASSUME i \notin reused' \cup racy
       PROVE  NoneBefore(file'[i].cells, trace.version)
  <2>1. name = None  BY <1>5, <1>12
  <2>2. file'[i].cells = << >>  BY <1>1, <1>5, <2>1
  <2> QED  BY <2>2 DEF NoneBefore
<1>13. Trusts(tool[t])'  BY <1>7, <1>8, WriterTrusts
<1>14. x.pc \notin Idle /\ r.pc \notin Idle /\ r.pc # "roots"
  BY <1>2, <1>7 DEF Idle
<1> QED  BY <1>1, <1>5, <1>7, <1>9, <1>10, <1>11, <1>12, <1>13, <1>14, FileSound

\* A first cell that is all zeros is not marked.
LEMMA TruncatedMark ==
    ASSUME NEW cells \in Seq(Cell), NEW n \in Nat
    PROVE  /\ Marked(Truncated(cells, n)) => Marked(cells)
           /\ \A p \in 1 .. Len(Truncated(cells, n)) :
                 Truncated(cells, n)[p].kind = "part"
                 => p <= Len(cells) /\ Truncated(cells, n)[p] = cells[p]
<1> DEFINE new == Truncated(cells, n)
<1>1. /\ new \in Seq(Cell) /\ Len(new) = n
      /\ \A p \in 1 .. n : new[p] = IF p <= Len(cells) THEN cells[p] ELSE Zero
  BY CellsTruncated
<1>2. Zero.kind = "zero"  BY DEF Zero
<1> HIDE DEF new
<1>3. ASSUME Marked(new) PROVE Marked(cells)
  <2>1. 1 \in 1 .. n /\ new[1].kind = "header"
    BY <1>1, <1>3 DEF Marked, Complete
  <2>2. 1 <= Len(cells) /\ new[1] = cells[1]  BY <1>1, <1>2, <2>1
  <2> QED  BY <1>3, <2>2 DEF Marked, Complete
<1>4. \A p \in 1 .. Len(new) : new[p].kind = "part"
         => p <= Len(cells) /\ new[p] = cells[p]
  BY <1>1, <1>2
<1> QED  BY <1>3, <1>4 DEF new

LEMMA GrowSound ==
    ASSUME Inv, OwnIndex, Kept, Sound, NEW t \in Tool, Grow(t)
    PROVE  Sound'
<1> DEFINE r == tool[t]
<1> DEFINE cells == file[r.inode].cells
<1> DEFINE n == r.next + 1 + Slack
<1> DEFINE new == Truncated(cells, n)
<1> DEFINE x == [r EXCEPT !.size = n]
<1>1. /\ r.pc \in {"header", "part"} /\ Visibly(t, x)
      /\ UNCHANGED << clock, trace, overlap, reused, torn, racy >>
      /\ file' = [file EXCEPT ![r.inode] = [cells |-> new, mtime |-> clock]]
  BY DEF Grow
<1>2. r.pc \in Writing /\ r.pc \notin Idle  BY <1>1 DEF Writing, Idle
<1>3. r \in ToolState /\ n \in Nat /\ cells \in Seq(Cell)
  BY <1>2, WriterTypes, BoundsAssumption
<1>4. /\ x \in ToolState /\ x.pc = r.pc /\ x.inode = r.inode
      /\ x.built = r.built /\ x.disturbed = r.disturbed /\ x.version = r.version
  BY <1>3 DEF ToolState
<1>5. tool'[t] = x  BY <1>1, <1>4, VisiblyMoves DEF Inv, TypeOK
<1> HIDE DEF x, n
<1>6. ASSUME Trusts(r) PROVE Trusts(tool[t])'
  <2>1. r.built  BY <1>2, <1>6 DEF Trusts, TrustsMark
  <2> QED  BY <1>1, <1>4, <1>5, <2>1, WriterTrusts
<1>7. new \in Seq(Cell)  BY <1>3, CellsTruncated
<1>8. /\ Marked(new) => Marked(cells)
      /\ \A p \in 1 .. Len(new) :
            new[p].kind = "part" => p <= Len(cells) /\ new[p] = cells[p]
  BY <1>3, TruncatedMark
<1>9. r.pc # "roots" /\ x.pc \in Writing \cup {"open"}  BY <1>1, <1>2, <1>4
<1> HIDE DEF new
<1> QED  BY <1>1, <1>2, <1>4, <1>6, <1>7, <1>8, <1>9, WriterSound

LEMMA InitHeaderSound ==
    ASSUME Inv, OwnIndex, Kept, Sound, NEW t \in Tool, InitHeader(t)
    PROVE  Sound'
<1> DEFINE r == tool[t]
<1> DEFINE p == r.next + 1
<1> DEFINE c == Header(FALSE, HeaderAt(file[r.inode].cells, p).roots)
<1> DEFINE x == [r EXCEPT !.pc = "part", !.next = p, !.header = p]
<1>1. /\ r.pc = "header" /\ Visibly(t, x) /\ Store(t, p, c)
      /\ UNCHANGED << clock, trace, overlap, reused, torn, racy >>
  BY DEF InitHeader
<1>2. r.pc \in Writing  BY <1>1 DEF Writing
<1>3. /\ r \in ToolState /\ r.next \in Nat /\ p \in Nat \ {0}
      /\ file[r.inode].cells \in Seq(Cell)
  BY <1>2, WriterTypes
<1> HIDE DEF p
<1>4. HeaderAt(file[r.inode].cells, p).roots \in Seq(Nat)
  BY <1>3, HeaderAtType
<1>5. c \in Cell /\ c.kind = "header" /\ ~c.complete
  <2>1. c \in Cell  BY <1>4, HeaderIsCell
  <2> QED  BY <2>1 DEF Header
<1>6. /\ x \in ToolState /\ x.pc = "part" /\ x.inode = r.inode
      /\ x.built = r.built /\ x.disturbed = r.disturbed /\ x.version = r.version
  BY <1>3 DEF ToolState, Indexing, Writing
<1>7. tool'[t] = x  BY <1>1, <1>6, VisiblyMoves DEF Inv, TypeOK
<1> HIDE DEF x, c
<1>8. ASSUME Trusts(r) PROVE Trusts(tool[t])'
  <2>1. r.built  BY <1>2, <1>8 DEF Trusts, TrustsMark
  <2> QED  BY <1>6, <1>7, <2>1, WriterTrusts
<1>9. x.pc \in Writing /\ r.pc # "roots" /\ ~Complete(c)
  BY <1>1, <1>5, <1>6 DEF Writing, Complete
<1> QED  BY <1>1, <1>2, <1>3, <1>5, <1>6, <1>8, <1>9, StoreSound

LEMMA WritePartSound ==
    ASSUME Inv, OwnIndex, Kept, Sound, NEW t \in Tool, WritePart(t)
    PROVE  Sound'
<1> DEFINE r == tool[t]
<1> DEFINE p == r.next + 1
<1> DEFINE k == Len(r.parts) + 1
<1> DEFINE pc == IF k = Parts THEN "flags" ELSE "part"
<1> DEFINE e == r.events \/ trace.version > 0
<1> DEFINE c == Part(r.run, k, trace.version)
<1> DEFINE x == [r EXCEPT !.pc = pc, !.next = p, !.parts = Append(@, p),
                          !.events = e]
<1>1. /\ r.pc = "part" /\ Visibly(t, x) /\ Store(t, p, c)
      /\ UNCHANGED << clock, trace, overlap, reused, torn, racy >>
  BY DEF WritePart
<1>2. r.pc \in Writing  BY <1>1 DEF Writing
<1>3. /\ r \in ToolState /\ r.parts \in Seq(Nat) /\ p \in Nat \ {0}
      /\ e \in BOOLEAN /\ pc \in {"flags", "part"} /\ r.run \in Run
      /\ trace.version \in Nat
  BY <1>2, WriterTypes DEF ToolState
<1>4. k \in 1 .. Parts
  <2>1. Len(r.parts) < Parts  BY <1>1 DEF Inv, Proper
  <2> QED  BY <1>3, <2>1, BoundsAssumption
<1>5. c \in Cell  BY <1>3, <1>4, PartIsCell
<1>6. c.kind = "part" /\ c.version = trace.version  BY DEF Part
<1> HIDE DEF p, c, k, pc, e
<1>7. Append(r.parts, p) \in Seq(Nat)  BY <1>3
<1>8. /\ x \in ToolState /\ x.pc = pc /\ x.inode = r.inode
      /\ x.built = r.built /\ x.disturbed = r.disturbed /\ x.version = r.version
  BY <1>3, <1>7 DEF ToolState, Indexing, Writing
<1>9. tool'[t] = x  BY <1>1, <1>8, VisiblyMoves DEF Inv, TypeOK
<1> HIDE DEF x
<1>10. ASSUME Trusts(r) PROVE Trusts(tool[t])'
  <2>1. r.built  BY <1>2, <1>10 DEF Trusts, TrustsMark
  <2> QED  BY <1>3, <1>8, <1>9, <2>1, WriterTrusts
<1>11. x.pc \in Writing /\ r.pc # "roots" /\ ~Complete(c)
  BY <1>1, <1>3, <1>6, <1>8 DEF Writing, Complete
<1> QED  BY <1>1, <1>2, <1>3, <1>5, <1>6, <1>8, <1>10, <1>11, StoreSound

\* A store of an undisturbed run changes its cell, as seen after the step.
LEMMA StoredCell ==
    ASSUME Inv, NEW t \in Tool, tool[t].pc \in Writing,
           NEW p \in Nat \ {0}, NEW c \in Cell, Store(t, p, c)
    PROVE  /\ p \in 1 .. Len(file[tool[t].inode].cells)
           /\ file'[tool[t].inode].cells[p] = c
<1>1. Becomes(tool[t].inode, [file[tool[t].inode].cells EXCEPT ![p] = c])
  BY StoreChange
<1>2. /\ tool[t].inode \in Run /\ file[tool[t].inode].cells \in Seq(Cell)
      /\ file \in [Run -> [cells : Seq(Cell), mtime : Nat]]
  BY WriterTypes DEF Inv, TypeOK
<1>3. p \in 1 .. Len(file[tool[t].inode].cells)  BY <1>2 DEF Store
<1>4. file'[tool[t].inode].cells = [file[tool[t].inode].cells EXCEPT ![p] = c]
  BY <1>1, <1>2 DEF Becomes
<1> QED  BY <1>2, <1>3, <1>4

\* The flags of an undisturbed run go to the first cell ...
LEMMA StoreFlagsSound ==
    ASSUME Inv, OwnIndex, Kept, Sound, NEW t \in Tool, StoreFlags(t)
    PROVE  Sound'
<1> DEFINE r == tool[t]
<1> DEFINE p == r.header
<1> DEFINE c == Header(TRUE, HeaderAt(file[r.inode].cells, p).roots)
<1> DEFINE x == [r EXCEPT !.pc = "roots"]
<1>1. /\ r.pc = "flags" /\ Visibly(t, x) /\ Store(t, p, c)
      /\ UNCHANGED << clock, trace, overlap, reused, torn, racy >>
  BY DEF StoreFlags
<1>2. r.pc \in Writing /\ r.pc # "header"  BY <1>1 DEF Writing
<1>3. /\ r \in ToolState /\ p \in Nat \ {0} /\ file[r.inode].cells \in Seq(Cell)
  BY <1>2, WriterTypes DEF Inv, Proper
<1>4. HeaderAt(file[r.inode].cells, p).roots \in Seq(Nat)
  BY <1>3, HeaderAtType
<1>5. c \in Cell /\ c.kind = "header" /\ c.complete
  <2>1. c \in Cell  BY <1>4, HeaderIsCell
  <2> QED  BY <2>1 DEF Header
<1>6. /\ x \in ToolState /\ x.pc = "roots" /\ x.inode = r.inode /\ x.header = p
      /\ x.built = r.built /\ x.disturbed = r.disturbed /\ x.version = r.version
  BY <1>3 DEF ToolState, Indexing, Writing
<1>7. tool'[t] = x  BY <1>1, <1>6, VisiblyMoves DEF Inv, TypeOK
<1> HIDE DEF x, c
<1>8. ASSUME ~x.disturbed, Trusts(r) PROVE Trusts(tool[t])'
  <2>1. r.built  BY <1>2, <1>8 DEF Trusts, TrustsMark
  <2>2. p = 1
    BY <1>2, <1>6, <1>8, <2>1 DEF OwnIndex, Own, Undisturbed
  <2>3. file'[tool'[t].inode].cells[1] = c
    BY <1>1, <1>2, <1>3, <1>5, <1>6, <1>7, <2>2, StoredCell
  <2>4. TrustsMark(tool[t])'  BY <1>5, <1>6, <1>7, <2>1, <2>3 DEF TrustsMark
  <2> QED  BY <1>6, <1>7, <2>4
           DEF Trusts, TrustsStamps, TrustsFound, TrustsName, TrustsOpened
<1>9. x.pc \in Writing /\ c.kind # "part" /\ r.pc # "roots"
  BY <1>1, <1>5, <1>6 DEF Writing
<1> HIDE DEF p
<1> QED  BY <1>1, <1>2, <1>3, <1>5, <1>6, <1>8, <1>9, StoreSound

\* ... and so do the roots, which make a marked file whole.
LEMMA StoreRootsSound ==
    ASSUME Inv, OwnIndex, Kept, Sound, NEW t \in Tool, StoreRoots(t)
    PROVE  Sound'
<1> DEFINE r == tool[t]
<1> DEFINE cells == file[r.inode].cells
<1> DEFINE p == r.header
<1> DEFINE c == Header(HeaderAt(cells, p).complete, r.parts)
<1> DEFINE new == [cells EXCEPT ![p] = c]
<1> DEFINE x == [r EXCEPT !.pc = "close"]
<1>1. /\ r.pc = "roots" /\ Visibly(t, x) /\ Store(t, p, c)
      /\ UNCHANGED << clock, trace, overlap, reused, torn, racy >>
  BY DEF StoreRoots
<1>2. r.pc \in Writing /\ r.pc # "header"  BY <1>1 DEF Writing
<1>3. /\ r \in ToolState /\ p \in Nat \ {0} /\ cells \in Seq(Cell)
      /\ r.parts \in Seq(Nat) /\ r.run \in Run /\ r.next \in Nat /\ r.size \in Nat
      /\ Alone(t) => Knows(r, cells)
  BY <1>2, WriterTypes DEF Inv, Proper
<1>4. HeaderAt(cells, p).complete \in BOOLEAN  BY <1>3, HeaderAtType
<1>5. c \in Cell /\ c.kind = "header" /\ c.roots = r.parts
      /\ c.complete = HeaderAt(cells, p).complete
  <2>1. c \in Cell  BY <1>3, <1>4, HeaderIsCell
  <2> QED  BY <2>1 DEF Header
<1>6. /\ x \in ToolState /\ x.pc = "close" /\ x.inode = r.inode
      /\ x.built = r.built /\ x.disturbed = r.disturbed /\ x.version = r.version
  BY <1>3 DEF ToolState, Indexing, Writing
<1>7. tool'[t] = x  BY <1>1, <1>6, VisiblyMoves DEF Inv, TypeOK
<1>8. p \in 1 .. Len(cells)  BY <1>1, <1>2, <1>3, <1>5, StoredCell
<1>9. ASSUME Alone(t) PROVE cells[p].kind = "header" /\ MadeBy(r.run, cells, r.parts)
  BY <1>2, <1>3, <1>9 DEF Knows
<1> HIDE DEF x, c, cells
<1>10. ASSUME ~x.disturbed, Trusts(r) PROVE Trusts(tool[t])'
  <2>1. r.built /\ cells[1].complete
    BY <1>1, <1>2, <1>10 DEF Trusts, TrustsMark, cells
  <2>2. p = 1 /\ Alone(t)
    BY <1>2, <1>6, <1>10, <2>1 DEF OwnIndex, Own, Undisturbed, Alone
  <2>3. c.complete
    <3>1. p <= Len(cells) /\ cells[p].kind = "header"  BY <1>3, <1>8, <1>9, <2>2
    <3>2. HeaderAt(cells, p) = cells[p]  BY <3>1 DEF HeaderAt
    <3> QED  BY <1>5, <2>1, <2>2, <3>2
  <2>4. file'[tool'[t].inode].cells[1] = c
    BY <1>1, <1>2, <1>3, <1>5, <1>6, <1>7, <2>2, StoredCell
  <2>5. TrustsMark(tool[t])'  BY <1>6, <1>7, <2>1, <2>3, <2>4 DEF TrustsMark
  <2> QED  BY <1>6, <1>7, <2>5
           DEF Trusts, TrustsStamps, TrustsFound, TrustsName, TrustsOpened
<1>11. ASSUME Alone(t), p = 1, Complete(c) PROVE Whole(new)
  <2>1. /\ new \in Seq(Cell) /\ Len(new) = Len(cells)
        /\ \A q \in 1 .. Len(cells) : new[q] = IF q = p THEN c ELSE cells[q]
    BY <1>3, <1>5, <1>8, CellsStored
  <2> HIDE DEF new
  <2>2. \A k \in 1 .. Len(r.parts) :
           r.parts[k] <= Len(new) /\ new[r.parts[k]] = cells[r.parts[k]]
    BY <1>9, <1>11, <2>1 DEF MadeBy
  <2>3. MadeBy(r.run, new, r.parts)  BY <1>3, <1>9, <1>11, <2>1, <2>2, MadeStays
  <2>4. Len(r.parts) = Parts  BY <1>1 DEF Inv, Proper
  <2>5. new # << >> /\ new[1] = c  BY <1>8, <1>11, <2>1
  <2>6. Leads(new, new[1].roots)  BY <1>3, <1>5, <2>3, <2>4, <2>5 DEF Leads
  <2> QED  BY <1>5, <1>11, <2>5, <2>6 DEF Whole, Complete
<1>12. x.pc \in Writing /\ c.kind # "part"  BY <1>5, <1>6 DEF Writing
<1> HIDE DEF p
<1>13. Alone(t) /\ p = 1 /\ Complete(c) =>
          Whole([file[tool[t].inode].cells EXCEPT ![p] = c])
  BY <1>11 DEF cells
<1>14. r.pc = "roots" => r.header = p  BY DEF p
<1> QED  BY <1>1, <1>2, <1>3, <1>5, <1>6, <1>10, <1>12, <1>13, <1>14, StoreSound

\* The run that has built the index goes on to open it: it is marked, and all
\* of its parts are as new as the trace.
LEMMA CloseSound ==
    ASSUME Inv, OwnIndex, Kept, Sound, NEW t \in Tool, Close(t)
    PROVE  Sound'
<1> DEFINE r == tool[t]
<1> DEFINE i == r.inode
<1> DEFINE cells == file[i].cells
<1> DEFINE n == r.next
<1> DEFINE new == Truncated(cells, n)
<1> DEFINE x == [r EXCEPT !.pc = "open"]
<1>1. /\ r.pc = "close" /\ Visibly(t, x)
      /\ UNCHANGED << clock, trace, name, overlap, reused, torn, racy >>
      /\ file' = [file EXCEPT ![i] = [cells |-> new, mtime |-> clock]]
  BY DEF Close
<1>2. r.pc \in Writing /\ r.pc # "header"  BY <1>1 DEF Writing
<1>3. /\ r \in ToolState /\ n \in Nat /\ cells \in Seq(Cell) /\ i \in Run
      /\ r.size \in Nat /\ r.version \in Nat /\ trace.version \in Nat
      /\ file \in [Run -> [cells : Seq(Cell), mtime : Nat]]
      /\ Alone(t) => Knows(r, cells)
  BY <1>2, WriterTypes DEF Inv, TypeOK, ToolState
<1>4. /\ x \in ToolState /\ x.pc = "open" /\ x.inode = i
      /\ x.built = r.built /\ x.disturbed = r.disturbed /\ x.version = r.version
  BY <1>3 DEF ToolState
<1>5. tool'[t] = x  BY <1>1, <1>4, VisiblyMoves DEF Inv, TypeOK
<1> HIDE DEF x, cells
<1>6. /\ new \in Seq(Cell) /\ Len(new) = n
      /\ \A p \in 1 .. n : new[p] = IF p <= Len(cells) THEN cells[p] ELSE Zero
  BY <1>3, CellsTruncated
<1>7. /\ Marked(new) => Marked(cells)
      /\ \A p \in 1 .. Len(new) :
            new[p].kind = "part" => p <= Len(cells) /\ new[p] = cells[p]
  BY <1>3, TruncatedMark
<1> HIDE DEF new
<1>8. file'[i].cells = new  BY <1>1, <1>3
<1>9. ASSUME ~x.disturbed, Trusts(r) PROVE Trusts(tool[t])'
  <2>1. r.built /\ cells[1].complete
    BY <1>1, <1>2, <1>9 DEF Trusts, TrustsMark, cells
  <2>2. r.header = 1 /\ name = i /\ Alone(t)
    BY <1>2, <1>4, <1>9, <2>1 DEF OwnIndex, Own, Undisturbed, Alone
  <2>3. 1 <= n /\ n <= Len(cells) /\ cells[1].kind = "header"
    BY <1>2, <1>3, <2>2 DEF Knows
  <2>4. Marked(new)
    <3>1. new # << >> /\ new[1] = cells[1]  BY <1>3, <1>6, <2>3
    <3> QED  BY <2>1, <2>3, <3>1 DEF Marked, Complete
  <2>5. ASSUME i \notin reused \cup racy PROVE NoneBefore(new, r.version)
    <3>1. t \in WritersOf(i)  BY <1>2 DEF WritersOf
    <3>2. NoneBefore(cells, trace.version)
      BY <1>3, <2>5, <3>1 DEF Sound, OldOrUpToDate, cells
    <3>3. r.version <= trace.version  BY DEF Sound, Dated
    <3> SUFFICES ASSUME NEW p \in 1 .. Len(new), new[p].kind = "part"
                 PROVE  new[p].version >= r.version
      BY DEF NoneBefore
    <3>4. p \in 1 .. Len(cells) /\ new[p] = cells[p]  BY <1>3, <1>6, <1>7
    <3>5. cells[p] \in Cell  BY <1>3, <3>4
    <3>6. cells[p].version \in Nat  BY <3>4, <3>5 DEF Cell
    <3>7. cells[p].version >= trace.version  BY <3>2, <3>4 DEF NoneBefore
    <3> QED  BY <1>3, <3>3, <3>4, <3>6, <3>7
  <2>6. /\ name' \in Run /\ name' # None /\ file'[name'].cells = new
        /\ tool'[t].version = r.version /\ reused' = reused /\ racy' = racy
        /\ name' = i
    BY <1>1, <1>3, <1>4, <1>5, <1>8, <2>2 DEF Run, None
  <2>7. Fresh(name, tool[t].version)'  BY <2>5, <2>6 DEF Fresh, NoneBefore
  <2>8. Marked(file[name].cells)'  BY <2>4, <2>6 DEF Marked, Complete
  <2>9. TrustsName(tool[t])'  BY <2>6, <2>7, <2>8 DEF TrustsName
  <2> QED  BY <1>4, <1>5, <2>9
           DEF Trusts, TrustsStamps, TrustsFound, TrustsMark, TrustsOpened, Writing
<1>10. r.pc # "roots"  BY <1>1
<1> QED  BY <1>1, <1>2, <1>4, <1>6, <1>7, <1>9, <1>10, WriterSound DEF cells

-----------------------------------------------------------------------------
(* The theorem.                                                            *)

LEMMA NextSound ==
    ASSUME Inv, Inv', Kept, OwnIndex, Sound, [Next]_vars
    PROVE  Sound'
<1>0. TypeOK  BY DEF Inv
<1>1. CASE UNCHANGED vars  BY <1>0, <1>1, WorldSound
<1>2. ASSUME NEW t \in Tool,
             \/ \E mode \in {"auto", "force", "never"} : Start(t, mode)
             \/ StatIndex(t) \/ CheckHeader(t)
             \/ Remove(t) \/ Create(t) \/ Grow(t) \/ InitHeader(t)
             \/ WritePart(t) \/ ParseError(t) \/ NoEvents(t)
             \/ StoreFlags(t) \/ StoreRoots(t) \/ Close(t)
             \/ Open(t) \/ Quit(t) \/ Kill(t)
      PROVE  Sound'
  <2>1. CASE \E mode \in {"auto", "force", "never"} : Start(t, mode)
    BY <2>1, <1>0, StartSound
  <2>2. CASE StatIndex(t)  BY <2>2, <1>0, StatIndexSound
  <2>3. CASE CheckHeader(t)  BY <2>3, <1>0, CheckHeaderSound
  <2>4. CASE Remove(t)
    <3> DEFINE x == [tool[t] EXCEPT !.pc = "create"]
    <3>1. /\ tool[t].pc = "remove" /\ Visibly(t, x)
          /\ UNCHANGED << clock, trace, file, overlap, reused, torn, racy >>
      BY <2>4 DEF Remove
    <3>2. tool[t] \in ToolState  BY <1>0 DEF TypeOK
    <3>3. /\ x \in ToolState /\ x.pc = "create" /\ x.version = tool[t].version
          /\ x.disturbed = tool[t].disturbed
      BY <3>2 DEF ToolState, Indexing
    <3>4. x.version <= trace.version /\ tool[t].pc \notin Idle \cup {"roots"}
      BY <3>1, <3>3 DEF Sound, Dated, Idle
    <3> HIDE DEF x
    <3> QED  BY <3>1, <3>3, <3>4, <1>0, UnlinkSound
  <2>5. CASE Create(t)  BY <2>5, CreateSound
  <2>6. CASE Grow(t)  BY <2>6, GrowSound
  <2>7. CASE InitHeader(t)  BY <2>7, InitHeaderSound
  <2>8. CASE WritePart(t)  BY <2>8, WritePartSound
  <2>9. CASE ParseError(t)
    <3>1. /\ tool[t].pc = "part" /\ Visibly(t, NoRun)
          /\ UNCHANGED << clock, trace, file, overlap, reused, torn, racy >>
      BY <2>9 DEF ParseError
    <3>2. NoRun \in ToolState /\ NoRun.pc \in Idle /\ NoRun.version = 0
      BY NoRunType DEF NoRun
    <3>3. NoRun.version <= trace.version /\ tool[t].pc \notin Idle \cup {"roots"}
      BY <1>0, <3>1, <3>2 DEF TypeOK, Idle
    <3> QED  BY <3>1, <3>2, <3>3, <1>0, UnlinkSound
  <2>10. CASE StoreFlags(t)  BY <2>10, StoreFlagsSound
  <2>11. CASE StoreRoots(t)  BY <2>11, StoreRootsSound
  <2>12. CASE Close(t)  BY <2>12, CloseSound
  <2>13. CASE Open(t)  BY <2>13, <1>0, OpenSound
  <2>14. CASE NoEvents(t) \/ Quit(t) \/ Kill(t)
    <3>1. /\ End(t) /\ UNCHANGED << clock, trace, name, file, overlap, reused, racy >>
          /\ torn \subseteq torn' /\ (tool[t].pc = "roots" => tool[t].inode \in torn')
      BY <2>14 DEF NoEvents, Quit, Kill
    <3> QED  BY <3>1, <1>0, EndSound
  <2> QED
    BY <1>2, <2>1, <2>2, <2>3, <2>4, <2>5, <2>6, <2>7, <2>8, <2>9, <2>10,
       <2>11, <2>12, <2>13, <2>14
<1>3. CASE WriteTrace \/ Tick  BY <1>3, <1>0, WorldSound
<1> QED  BY <1>1, <1>2, <1>3 DEF Next

\* At the start there is no file and no run.
LEMMA SoundInit == Init => Sound
<1> SUFFICES ASSUME Init PROVE Sound
  OBVIOUS
<1>1. \A t \in Tool : tool[t].pc = "idle" /\ tool[t].version = 0
  BY DEF Init, NoRun
<1>2. \A i \in Run : file[i].cells = << >> /\ file[i].mtime = 0  BY DEF Init
<1>3. MarkedIsWhole  BY <1>2 DEF MarkedIsWhole, Marked
<1>4. OldOrUpToDate  BY <1>2 DEF OldOrUpToDate, NoneBefore
<1>5. Dated  BY <1>1, <1>2 DEF Dated, Init
<1>6. SharedIsReused  BY DEF SharedIsReused, Init
<1>7. Untroubled  BY <1>1 DEF Untroubled, Idle
<1> QED  BY <1>3, <1>4, <1>5, <1>6, <1>7 DEF Sound

\* What an undisturbed reader trusts its file for is what the property says.
LEMMA SoundOpened == Inv /\ Sound => OpenedSound
<1> SUFFICES ASSUME Inv, Sound PROVE OpenedSound
  OBVIOUS
<1>1. ASSUME NEW t \in Tool, tool[t].pc = "reading", tool[t].checked,
             ~tool[t].disturbed
      PROVE  TrustsOpened(tool[t])
  BY <1>1 DEF Sound, Untroubled, Trusts, Idle
<1>2. OpenedWhole  BY <1>1 DEF OpenedWhole, TrustsOpened
<1>3. NoOlderThanTrace
  <2> SUFFICES ASSUME NEW t \in Tool, tool[t].pc = "reading", tool[t].checked,
                      ~tool[t].disturbed,
                      tool[t].inode \notin torn \cup reused \cup racy,
                      NEW k \in 1 .. Parts
               PROVE  file[tool[t].inode].cells[tool[t].roots[k]].version
                         >= tool[t].version
    BY DEF NoOlderThanTrace
  <2> DEFINE cells == file[tool[t].inode].cells
  <2>1. tool[t].inode \notin torn \cup overlap  BY DEF Sound, SharedIsReused
  <2>2. Whole(cells) /\ tool[t].roots = cells[1].roots
    BY <1>1, <2>1 DEF TrustsOpened
  <2>3. NoneBefore(cells, tool[t].version)  BY <1>1 DEF TrustsOpened, Fresh
  <2> HIDE DEF cells
  <2>4. /\ tool[t].roots[k] \in 1 .. Len(cells)
        /\ cells[tool[t].roots[k]].kind = "part"
    BY <2>2 DEF Whole, Leads, MadeBy
  <2>5. cells[tool[t].roots[k]].version >= tool[t].version
    BY <2>3, <2>4 DEF NoneBefore
  <2> QED  BY <2>5 DEF cells
<1> QED  BY <1>2, <1>3 DEF OpenedSound

\* The index that a tool opens is whole and made from the trace as it was at
\* the start of the tool, or from a later one: updateIndexIfNeeded,
\* open_index_file, finalise_index and the constructor of IndexReader.  The
\* exceptions are those that OpenedWhole and NoOlderThanTrace name.
THEOREM OpenedIsSound == Spec => []OpenedSound
<1>1. Init => Inv /\ OwnIndex /\ Sound
  <2>1. ASSUME Init PROVE OwnIndex
    BY <2>1 DEF Init, OwnIndex, Own, NoRun
  <2> QED  BY <2>1, InvInit, SoundInit
<1>2. Inv /\ OwnIndex /\ Sound /\ [Next]_vars => Inv' /\ OwnIndex' /\ Sound'
  BY NextInv, NextOwn, NextSound
<1>3. Inv /\ Sound => OpenedSound  BY SoundOpened
<1> QED  BY <1>1, <1>2, <1>3, PTL DEF Spec
=============================================================================
