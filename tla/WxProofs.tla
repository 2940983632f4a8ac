------------------------------- MODULE WxProofs -------------------------------
(***************************************************************************)
(* Theorems about WxUI, for every browser core, all sessions and any       *)
(* number of windows and views:                                            *)
(*                                                                         *)
(*   WindowsStayRegistered    the registries and links of the windows      *)
(*   ViewsAlwaysFollow        views show their window's position           *)
(*   SelectionsKeepAnchor     selections hold the place they began at      *)
(*                                                                         *)
(* The core's operators are constants, so nothing is known of where a      *)
(* position goes: what is proved is what the UI makes of it.               *)
(***************************************************************************)
EXTENDS WxUI, WellFoundedInduction, TLAPS

-----------------------------------------------------------------------------
(* Least and greatest numbers. *)

LEMMA MinIs ==
  ASSUME NEW S \in SUBSET Nat, S # {}
  PROVE  Min(S) \in S /\ \A x \in S : Min(S) <= x
<1> DEFINE less == {r \in Nat \X Nat : r[1] < r[2]}
<1>1. IsWellFoundedOn(less, Nat)
  BY NatLessThanWellFounded DEF OpToRel
<1>2. PICK m \in S : \A y \in S : ~(<<y, m>> \in less)
  BY <1>1, WFMin
<1>3. ASSUME NEW y \in S PROVE m <= y
  <2>1. m \in Nat /\ y \in Nat
    OBVIOUS
  <2>2. <<y, m>> \in Nat \X Nat /\ <<y, m>>[1] = y /\ <<y, m>>[2] = m
    BY <2>1
  <2>3. y < m => <<y, m>> \in less
    BY <2>2
  <2> QED  BY <1>2, <2>1, <2>3
<1> QED  BY <1>3 DEF Min

(* Numbers with an upper bound have a greatest. *)
LEMMA MaxIs ==
  ASSUME NEW n \in Nat, NEW S \in SUBSET (0 .. n), S # {}
  PROVE  Max(S) \in S /\ \A x \in S : x <= Max(S)
<1> DEFINE T == {n - x : x \in S}
<1>1. T \in SUBSET Nat /\ T # {}
  <2>1. \A x \in S : x \in Int /\ 0 <= x /\ x <= n
    OBVIOUS
  <2> QED  BY <2>1
<1>2. Min(T) \in T /\ \A y \in T : Min(T) <= y
  BY <1>1, MinIs
<1>3. PICK m \in S : Min(T) = n - m
  BY <1>2
<1>4. ASSUME NEW x \in S PROVE x <= m
  <2>1. n - m <= n - x
    BY <1>2, <1>3
  <2>2. x \in Int /\ m \in Int
    OBVIOUS
  <2> QED  BY <2>1, <2>2
<1> QED  BY <1>4 DEF Max

-----------------------------------------------------------------------------
(* Sequences as functions. *)

IsSeq(s) == \E S : s \in Seq(S)

LEMMA SeqFacts ==
  ASSUME NEW s, IsSeq(s)
  PROVE  /\ Len(s) \in Nat /\ DOMAIN s = 1 .. Len(s)
         /\ s = [k \in DOMAIN s |-> s[k]]
         /\ (Len(s) = 0 <=> s = <<>>)
  BY DEF IsSeq

LEMMA FunctionSeq ==
  ASSUME NEW n \in Nat, NEW s, s = [k \in 1 .. n |-> s[k]]
  PROVE  IsSeq(s) /\ Len(s) = n /\ DOMAIN s = 1 .. n
<1>1. PICK S : S = {s[k] : k \in 1 .. n}
  OBVIOUS
<1>2. \A k \in 1 .. n : s[k] \in S
  BY <1>1
<1>3. s \in [1 .. n -> S]
  BY <1>2
<1>4. s \in Seq(S)
  BY <1>3
<1> QED  BY <1>3, <1>4 DEF IsSeq

LEMMA AppendFacts ==
  ASSUME NEW s, IsSeq(s), NEW w
  PROVE  /\ IsSeq(Append(s, w)) /\ Len(Append(s, w)) = Len(s) + 1
         /\ DOMAIN Append(s, w) = 1 .. (Len(s) + 1)
         /\ Append(s, w)[Len(s) + 1] = w
         /\ \A k \in DOMAIN s : Append(s, w)[k] = s[k]
<1>1. PICK S : s \in Seq(S)
  BY DEF IsSeq
<1>2. s \in Seq(S \cup {w}) /\ w \in S \cup {w}
  BY <1>1
<1>3. Append(s, w) \in Seq(S \cup {w})
  BY <1>2
<1> QED  BY <1>2, <1>3 DEF IsSeq

LEMMA SubSeqFacts ==
  ASSUME NEW s, IsSeq(s), NEW m \in 0 .. Len(s)
  PROVE  /\ IsSeq(SubSeq(s, 1, m)) /\ Len(SubSeq(s, 1, m)) = m
         /\ DOMAIN SubSeq(s, 1, m) = 1 .. m
         /\ \A k \in 1 .. m : SubSeq(s, 1, m)[k] = s[k]
<1>1. Len(s) \in Nat /\ m \in Nat /\ m <= Len(s)
  BY SeqFacts
<1>2. SubSeq(s, 1, m) = [k \in 1 .. m |-> s[k]]
  BY <1>1
<1> QED  BY <1>1, <1>2, FunctionSeq

-----------------------------------------------------------------------------
(* Registries: what is given out and taken back. *)

Registry(reg) ==
  /\ reg = [slots |-> reg.slots, free |-> reg.free]
  /\ IsSeq(reg.slots)
  /\ \A k \in DOMAIN reg.slots : k \notin Open(reg) => reg.slots[k] = NoWindow
  /\ RegistryExact(reg)

LEMMA OpenIs ==
  ASSUME NEW reg
  PROVE  /\ Open(reg) \subseteq DOMAIN reg.slots
         /\ \A k \in DOMAIN reg.slots : k \in Open(reg) <=> reg.slots[k].kind # "none"
         /\ NoWindow.kind = "none"
  BY DEF Open, NoWindow

(* Windows that change do not concern their registry. *)
LEMMA RegistryKept ==
  ASSUME NEW reg, Registry(reg), NEW slots,
         slots = [k \in DOMAIN reg.slots |-> slots[k]],
         \A k \in Open(reg) : slots[k].kind # "none",
         \A k \in DOMAIN reg.slots \ Open(reg) : slots[k] = reg.slots[k]
  PROVE  LET new == [slots |-> slots, free |-> reg.free]
         IN Registry(new) /\ Open(new) = Open(reg)
<1> DEFINE new == [slots |-> slots, free |-> reg.free]
<1>1. new.slots = slots /\ new.free = reg.free
  OBVIOUS
<1>2. Len(reg.slots) \in Nat /\ DOMAIN reg.slots = 1 .. Len(reg.slots)
      /\ (Len(reg.slots) = 0 <=> reg.slots = <<>>)
  BY SeqFacts DEF Registry
<1>3. IsSeq(slots) /\ Len(slots) = Len(reg.slots) /\ DOMAIN slots = DOMAIN reg.slots
  BY <1>2, FunctionSeq
<1>4. Open(new) = Open(reg)
  <2>1. ASSUME NEW k \in DOMAIN reg.slots
        PROVE  k \in Open(new) <=> k \in Open(reg)
    BY <1>1, <1>3, OpenIs DEF Registry
  <2> QED  BY <1>1, <1>3, <2>1, OpenIs
<1>5. ASSUME slots # <<>>
      PROVE  slots[Len(slots)] # NoWindow
  <2>1. Len(slots) # 0 /\ reg.slots # <<>>
    BY <1>2, <1>3, <1>5, SeqFacts
  <2>2. Len(slots) \in DOMAIN reg.slots /\ reg.slots[Len(slots)] # NoWindow
    BY <1>2, <1>3, <2>1 DEF Registry, RegistryExact
  <2>3. Len(slots) \in Open(reg)
    BY <2>2 DEF Registry
  <2> QED  BY <2>3, OpenIs
<1> HIDE DEF new
<1>6. new = [slots |-> new.slots, free |-> new.free]
  BY <1>1 DEF new
<1>7. Registry(new)
  BY <1>1, <1>3, <1>4, <1>5, <1>6 DEF Registry, RegistryExact
<1> QED  BY <1>4, <1>7 DEF new

LEMMA SlotsKept ==
  ASSUME NEW reg, Registry(reg), NEW new, NEW slots,
         new = [slots |-> slots, free |-> reg.free],
         slots = [k \in DOMAIN reg.slots |-> slots[k]],
         \A k \in Open(reg) : slots[k].kind # "none",
         \A k \in DOMAIN reg.slots \ Open(reg) : slots[k] = reg.slots[k]
  PROVE  Registry(new) /\ Open(new) = Open(reg)
  BY RegistryKept

(* A window gets the least free index, or a new one. *)
LEMMA AllocatedFacts ==
  ASSUME NEW reg, Registry(reg), NEW w, w.kind # "none"
  PROVE  LET new == Allocated(reg, w)
         IN /\ Registry(new)
            /\ \E i \in Nat \ {0} :
                 /\ i \notin Open(reg) /\ Open(new) = Open(reg) \cup {i}
                 /\ new.slots[i] = w
                 /\ \A k \in Open(reg) : new.slots[k] = reg.slots[k]
<1> DEFINE new == Allocated(reg, w)
           n == Len(reg.slots)
<1>1. n \in Nat /\ DOMAIN reg.slots = 1 .. n /\ (n = 0 <=> reg.slots = <<>>)
      /\ IsSeq(reg.slots)
  BY SeqFacts DEF Registry
<1>2. reg.free = DOMAIN reg.slots \ Open(reg) /\ Open(reg) \subseteq DOMAIN reg.slots
  BY OpenIs DEF Registry, RegistryExact
<1>3. w # NoWindow /\ NoWindow.kind = "none"
  BY OpenIs
<1>4. CASE reg.free = {}
  <2>1. new = [reg EXCEPT !.slots = Append(@, w)]
    BY <1>4 DEF Allocated
  <2>2. new = [slots |-> Append(reg.slots, w), free |-> reg.free]
    BY <2>1 DEF Registry
  <2> DEFINE s == Append(reg.slots, w)
  <2>3. /\ IsSeq(s) /\ Len(s) = n + 1 /\ DOMAIN s = 1 .. (n + 1)
        /\ s[n + 1] = w /\ \A k \in 1 .. n : s[k] = reg.slots[k]
    BY <1>1, AppendFacts
  <2>4. new.slots = s /\ new.free = {}
    BY <1>4, <2>2
  <2> HIDE DEF s, new
  <2>5. Open(reg) = 1 .. n
    BY <1>1, <1>2, <1>4
  <2>6. Open(new) = 1 .. (n + 1)
    <3>1. ASSUME NEW k \in 1 .. (n + 1)
          PROVE  s[k].kind # "none"
      <4>1. CASE k = n + 1
        BY <2>3, <4>1
      <4>2. CASE k # n + 1
        <5>1. k \in 1 .. n
          BY <1>1, <4>2
        <5>2. s[k] = reg.slots[k] /\ k \in Open(reg)
          BY <2>3, <2>5, <5>1
        <5> QED  BY <5>2, <1>1, <5>1, OpenIs
      <4> QED  BY <4>1, <4>2
    <3> QED  BY <2>3, <2>4, <3>1, OpenIs
  <2>7. new = [slots |-> new.slots, free |-> new.free]
    BY <1>4, <2>2, <2>4 DEF s
  <2>8. Registry(new)
    BY <1>3, <2>3, <2>4, <2>6, <2>7 DEF Registry, RegistryExact
  <2>9. n + 1 \in Nat \ {0} /\ n + 1 \notin Open(reg)
        /\ Open(new) = Open(reg) \cup {n + 1}
    BY <1>1, <2>5, <2>6
  <2> QED  BY <2>3, <2>4, <2>5, <2>8, <2>9 DEF new
<1>5. CASE reg.free # {}
  <2> DEFINE i == Min(reg.free)
             s == [reg.slots EXCEPT ![i] = w]
  <2>1. i \in reg.free
    BY <1>1, <1>2, <1>5, MinIs
  <2>2. i \in 1 .. n /\ i \notin Open(reg)
    BY <1>1, <1>2, <2>1
  <2> HIDE DEF i
  <2>3. new = [slots |-> s, free |-> reg.free \ {i}]
    BY <1>5 DEF Allocated, i
  <2>4. s = [k \in 1 .. n |-> IF k = i THEN w ELSE reg.slots[k]]
    <3>1. reg.slots = [k \in DOMAIN reg.slots |-> reg.slots[k]]
      BY SeqFacts DEF Registry
    <3> QED  BY <1>1, <3>1
  <2> HIDE DEF s
  <2>5. IsSeq(s) /\ Len(s) = n /\ DOMAIN s = 1 .. n
    <3>1. s = [k \in 1 .. n |-> s[k]]
      BY <2>4
    <3> QED  BY <1>1, <3>1, FunctionSeq
  <2>6. s[i] = w /\ \A k \in 1 .. n : k # i => s[k] = reg.slots[k]
    BY <2>2, <2>4
  <2>7. new.slots = s /\ new.free = reg.free \ {i}
        /\ new = [slots |-> new.slots, free |-> new.free]
    BY <2>3
  <2> HIDE DEF new
  <2>8. Open(new) = Open(reg) \cup {i}
    <3>1. ASSUME NEW k \in 1 .. n
          PROVE  k \in Open(new) <=> k \in Open(reg) \cup {i}
      BY <1>1, <2>5, <2>6, <2>7, OpenIs
    <3> QED  BY <1>1, <1>2, <2>2, <2>5, <2>7, <3>1, OpenIs
  <2>9. \A k \in 1 .. n : k \notin Open(new) => s[k] = NoWindow
    BY <1>1, <2>6, <2>8 DEF Registry
  <2>10. ASSUME s # <<>>
         PROVE  s[n] # NoWindow
    <3>1. n # 0
      BY <2>5, <2>10, SeqFacts
    <3>2. reg.slots[n] # NoWindow
      BY <1>1, <3>1 DEF Registry, RegistryExact
    <3> QED  BY <1>1, <1>3, <2>6, <3>1, <3>2
  <2>11. new.free = DOMAIN s \ Open(new)
    BY <1>1, <1>2, <2>2, <2>5, <2>7, <2>8
  <2>12. Registry(new)
    BY <2>5, <2>7, <2>9, <2>10, <2>11 DEF Registry, RegistryExact
  <2>13. \A k \in Open(reg) : new.slots[k] = reg.slots[k]
    BY <1>1, <1>2, <2>2, <2>6, <2>7
  <2>14. i \in Nat \ {0} /\ new.slots[i] = w
    BY <2>2, <2>6, <2>7
  <2> QED  BY <2>2, <2>8, <2>12, <2>13, <2>14 DEF new
<1> QED  BY <1>4, <1>5

(* Closed windows leave empty slots, and the last slots are cut off. *)
LEMMA FreedFacts ==
  ASSUME NEW reg, Registry(reg), NEW gone \in SUBSET Open(reg)
  PROVE  LET new == Freed(reg, gone)
         IN /\ Registry(new) /\ Open(new) = Open(reg) \ gone
            /\ \A k \in Open(new) : new.slots[k] = reg.slots[k]
            /\ Open(new) = {} => new.slots = <<>>
<1> DEFINE new == Freed(reg, gone)
           n == Len(reg.slots)
           e == Emptied(reg, gone)
           K == {k \in DOMAIN e : e[k].kind # "none"}
           m == Max(K \cup {0})
           s == SubSeq(e, 1, m)
<1>1. n \in Nat /\ DOMAIN reg.slots = 1 .. n
  BY SeqFacts DEF Registry
<1>2. reg.free = DOMAIN reg.slots \ Open(reg) /\ Open(reg) \subseteq DOMAIN reg.slots
  BY OpenIs DEF Registry, RegistryExact
<1>3. e = [k \in 1 .. n |-> IF k \in gone THEN NoWindow ELSE reg.slots[k]]
  BY <1>1 DEF Emptied
<1>4. new = [slots |-> s, free |-> (reg.free \cup gone) \cap DOMAIN s]
  BY DEF Freed, FreeIn, Trimmed
<1> HIDE DEF e, new
<1>5. IsSeq(e) /\ Len(e) = n /\ DOMAIN e = 1 .. n
  <2>1. e = [k \in 1 .. n |-> e[k]]
    BY <1>3
  <2> QED  BY <1>1, <2>1, FunctionSeq
<1>6. K = Open(reg) \ gone
  <2>1. ASSUME NEW k \in 1 .. n
        PROVE  e[k].kind # "none" <=> k \in Open(reg) \ gone
    BY <1>1, <1>3, OpenIs
  <2> QED  BY <1>1, <1>2, <1>5, <2>1
<1>7. K \subseteq 1 .. n
  BY <1>5
<1> HIDE DEF K
<1>8. m \in K \cup {0} /\ \A k \in K : k <= m
  <2>1. K \cup {0} \in SUBSET (0 .. n) /\ K \cup {0} # {}
    BY <1>1, <1>7
  <2> QED  BY <1>1, <2>1, MaxIs
<1> HIDE DEF m
<1>9. m \in 0 .. n
  BY <1>1, <1>7, <1>8
<1>10. /\ IsSeq(s) /\ Len(s) = m /\ DOMAIN s = 1 .. m
       /\ \A k \in 1 .. m : s[k] = e[k]
  BY <1>5, <1>9, SubSeqFacts
<1> HIDE DEF s
<1>11. K \subseteq 1 .. m
  BY <1>7, <1>8, <1>9
<1>12. new.slots = s /\ new.free = (reg.free \cup gone) \cap DOMAIN s
       /\ new = [slots |-> new.slots, free |-> new.free]
  BY <1>4
<1>13. Open(new) = K
  <2>1. ASSUME NEW k \in 1 .. m
        PROVE  k \in Open(new) <=> k \in K
    <3>1. k \in 1 .. n
      BY <1>1, <1>9
    <3>2. k \in K <=> e[k].kind # "none"
      BY <1>5, <3>1 DEF K
    <3> QED  BY <1>10, <1>12, <3>2, OpenIs
  <2> QED  BY <1>10, <1>11, <1>12, <2>1, OpenIs
<1>14. ASSUME NEW k \in DOMAIN s, k \notin Open(new)
       PROVE  s[k] = NoWindow
  <2>1. k \in 1 .. n /\ s[k] = e[k] /\ k \notin K
    BY <1>1, <1>9, <1>10, <1>13, <1>14
  <2>2. k \in gone \/ k \notin Open(reg)
    BY <1>6, <2>1
  <2> QED  BY <1>1, <1>3, <2>1, <2>2 DEF Registry
<1>15. new.free = DOMAIN s \ Open(new)
  BY <1>1, <1>2, <1>6, <1>9, <1>10, <1>12, <1>13
<1>16. ASSUME s # <<>>
       PROVE  s[m] # NoWindow
  <2>1. m # 0
    BY <1>10, <1>16, SeqFacts
  <2>2. m \in K /\ m \in 1 .. m
    BY <1>8, <1>9, <2>1
  <2>3. s[m].kind # "none"
    BY <1>10, <2>2 DEF K
  <2> QED  BY <2>3, OpenIs
<1>17. Registry(new)
  BY <1>10, <1>12, <1>14, <1>15, <1>16 DEF Registry, RegistryExact
<1>18. ASSUME NEW k \in Open(new)
       PROVE  new.slots[k] = reg.slots[k]
  BY <1>3, <1>6, <1>7, <1>10, <1>11, <1>12, <1>13
<1>19. Open(new) = {} => new.slots = <<>>
  BY <1>8, <1>10, <1>12, <1>13, SeqFacts
<1> QED  BY <1>6, <1>13, <1>17, <1>18, <1>19 DEF new

-----------------------------------------------------------------------------
(* Windows, and what changes in them. *)

TraceLike(w) ==
  w \in [kind : {"trace"}, id : {w.id}, vu : {w.vu}, wintop : {w.wintop},
         drawn : {w.drawn}, prompt : {w.prompt}, sel : {w.sel}, row : {w.row}]

ViewLike(w) ==
  /\ w \in [kind : {w.kind}, tw : {w.tw}, list : {w.list}, menu : {w.menu},
            line : {w.line}, diff : {w.diff}, since : {w.since}, sel : {w.sel},
            start : {w.start}, known : {w.known}, follows : {w.follows}]
  /\ w.kind \in RegisterKinds \cup {"memory"}

SameLinks(w, new) ==
  new.kind = w.kind /\ new.tw = w.tw /\ new.list = w.list /\ new.menu = w.menu

LEMMA Kinds ==
  ASSUME NEW w
  PROVE  /\ TraceLike(w) => w.kind = "trace" /\ w.kind # "none"
         /\ ViewLike(w) => w.kind # "none" /\ w # NoWindow
  BY DEF TraceLike, ViewLike, RegisterKinds, NoWindow

LEMMA ShownFacts ==
  ASSUME NEW w, ViewLike(w), NEW line
  PROVE  LET new == Shown(w, line)
         IN /\ ViewLike(new) /\ SameLinks(w, new) /\ new.sel = w.sel
            /\ new.line = line /\ new.follows = w.follows /\ new.known = w.known
            /\ new.start = w.start
  BY DEF Shown, ViewLike, SameLinks

LEMMA StartedFacts ==
  ASSUME NEW w, ViewLike(w), NEW expr, NEW at
  PROVE  LET new == Started(w, expr, at)
         IN /\ ViewLike(new) /\ SameLinks(w, new) /\ new.sel = w.sel
            /\ new.line = w.line /\ new.follows = expr.variable
            /\ new.known = (at # {})
            /\ expr.variable /\ at # {} => new.start \in at
<1> PICK start : start = IF at = {} THEN w.start
                         ELSE Start(CHOOSE a \in at : TRUE, expr)
  OBVIOUS
<1> PICK follows : follows = expr.variable
  OBVIOUS
<1> PICK known : known = (at # {})
  OBVIOUS
<1>1. Started(w, expr, at)
        = [w EXCEPT !.follows = follows, !.known = known, !.start = start]
  BY Zenon DEF Started
<1>2. ASSUME expr.variable, at # {}
      PROVE  start \in at
  BY <1>2 DEF Start
<1> QED  BY <1>1, <1>2 DEF ViewLike, SameLinks

(* A view that is told of a position is in step with it. *)
LEMMA UpdatedFacts ==
  ASSUME NEW w, ViewLike(w), NEW v
  PROVE  LET new == Updated(w, v.log.first, evaluations(v, stack_pointer))
         IN ViewLike(new) /\ SameLinks(w, new) /\ new.sel = w.sel /\ InStep(new, v)
<1> DEFINE new == Updated(w, v.log.first, evaluations(v, stack_pointer))
<1> PICK x : x = Shown(w, v.log.first)
  OBVIOUS
<1>1. ViewLike(x) /\ SameLinks(w, x) /\ x.sel = w.sel /\ x.line = v.log.first
  BY ShownFacts
<1>2. CASE IsMemory(x) /\ x.follows
  <2>1. new = Started(x, stack_pointer, evaluations(v, stack_pointer))
    BY <1>2 DEF Updated, Recomputed
  <2>2. /\ ViewLike(new) /\ SameLinks(x, new) /\ new.sel = x.sel
        /\ new.line = x.line /\ new.known = (evaluations(v, stack_pointer) # {})
        /\ new.follows = stack_pointer.variable
        /\ stack_pointer.variable /\ evaluations(v, stack_pointer) # {}
             => new.start \in evaluations(v, stack_pointer)
    BY <1>1, <2>1, StartedFacts
  <2> HIDE DEF new
  <2> QED  BY <1>1, <2>2 DEF SameLinks, InStep, new
<1>3. CASE ~(IsMemory(x) /\ x.follows)
  <2>1. new = x
    BY <1>3 DEF Updated, Recomputed
  <2> HIDE DEF new
  <2> QED  BY <1>1, <1>3, <2>1 DEF InStep, new
<1> QED  BY <1>2, <1>3

-----------------------------------------------------------------------------
(* The inductive invariant: with what WindowsRegistered says of registries *)
(* and links, what kind of windows there are.                              *)
TracesOK ==
  /\ Registry(traces)
  /\ \A i \in Open(traces) : TraceLike(At(i)) /\ At(i).id \in Ids
  /\ \A i, k \in Open(traces) : At(i).id = At(k).id => i = k

ViewsOK ==
  /\ Registry(views)
  /\ \A j \in Open(views) : ViewLike(View(j))

(* A view is linked to an open window, whose index its menu shows. *)
LinkOK(w) ==
  w.list # 0 => \E i \in Open(traces) :
                  At(i).id = w.list /\ w.tw = w.list /\ w.menu = i

LinksOK ==
  /\ \A j \in Open(views) : LinkOK(View(j))
  /\ Open(traces) = {} => Open(views) = {}

Registered == session \in Sessions /\ TracesOK /\ ViewsOK /\ LinksOK

LEMMA WindowFacts ==
  ASSUME Registered
  PROVE  /\ \A i \in Open(traces) :
              /\ i \in DOMAIN traces.slots /\ i \in Nat \ {0}
              /\ TraceLike(At(i)) /\ At(i).id \in Ids /\ At(i).id # 0
         /\ \A j \in Open(views) : j \in DOMAIN views.slots /\ ViewLike(View(j))
         /\ \A j \in DOMAIN views.slots : j \notin Open(views) => View(j) = NoWindow
<1>1. DOMAIN traces.slots = 1 .. Len(traces.slots)
  BY SeqFacts DEF Registered, TracesOK, Registry
<1>2. Open(traces) \subseteq DOMAIN traces.slots
      /\ Open(views) \subseteq DOMAIN views.slots
  BY OpenIs
<1> QED  BY <1>1, <1>2, WindowsAssumption
         DEF Registered, TracesOK, ViewsOK, Registry, View

(* In a registry of trace windows at distinct addresses, each address has  *)
(* the index of its window.                                                *)
LEMMA IndexOfIn ==
  ASSUME NEW reg, Registry(reg), NEW i \in Open(reg), reg.slots[i].kind = "trace",
         \A k \in Open(reg) : reg.slots[k].id = reg.slots[i].id => k = i
  PROVE  IndexOf(reg.slots[i].id, reg.slots) = i
<1> DEFINE S == {k \in DOMAIN reg.slots :
                   reg.slots[k].kind = "trace" /\ reg.slots[k].id = reg.slots[i].id}
<1>1. DOMAIN reg.slots = 1 .. Len(reg.slots) /\ Len(reg.slots) \in Nat
  BY SeqFacts DEF Registry
<1>2. i \in S
  BY OpenIs
<1>3. ASSUME NEW k \in S PROVE k = i
  <2>1. k \in Open(reg)
    BY OpenIs
  <2> QED  BY <2>1
<1>4. S = {i}
  BY <1>2, <1>3
<1>5. Max(S \cup {0}) = i
  <2>1. i \in 1 .. Len(reg.slots)
    BY <1>1, <1>2
  <2>2. S \cup {0} \in SUBSET (0 .. Len(reg.slots)) /\ S \cup {0} # {}
    BY <1>1, <1>4, <2>1
  <2> HIDE DEF S
  <2> PICK m : m = Max(S \cup {0})
    OBVIOUS
  <2>3. m \in {i, 0} /\ i <= m
    BY <1>1, <1>4, <2>2, MaxIs
  <2> QED  BY <1>1, <2>1, <2>3
<1> QED  BY <1>5 DEF IndexOf

LEMMA IndexOfIs ==
  ASSUME TracesOK, NEW i \in Open(traces)
  PROVE  IndexOf(At(i).id, traces.slots) = i
  BY IndexOfIn, Kinds DEF TracesOK, At

-----------------------------------------------------------------------------
(* What the views hear of a position. *)

LinksKept(ws, id) ==
  /\ ws = [j \in DOMAIN views.slots |-> ws[j]]
  /\ \A j \in DOMAIN views.slots :
       IF Linked(View(j), id)
       THEN ViewLike(ws[j]) /\ SameLinks(View(j), ws[j]) /\ ws[j].sel = View(j).sel
       ELSE ws[j] = View(j)

Informed(ws, id, v) ==
  /\ LinksKept(ws, id)
  /\ \A j \in DOMAIN views.slots : Linked(View(j), id) => InStep(ws[j], v)

LEMMA AlreadyKept ==
  ASSUME Registered, NEW id
  PROVE  LinksKept(views.slots, id)
<1>1. views.slots = [j \in DOMAIN views.slots |-> views.slots[j]]
  BY SeqFacts DEF Registered, ViewsOK, Registry
<1> QED  BY <1>1, WindowFacts DEF LinksKept, Linked, View, SameLinks

(* Who was linked still is. *)
LEMMA LinkedStill ==
  ASSUME NEW ws, NEW id, LinksKept(ws, id), NEW j \in DOMAIN views.slots
  PROVE  Linked(ws[j], id) <=> Linked(View(j), id)
  BY Kinds DEF LinksKept, Linked, SameLinks

LEMMA ToldInforms ==
  ASSUME NEW ws, NEW id, LinksKept(ws, id), NEW v
  PROVE  Informed(Told(ws, id, v), id, v)
<1> DEFINE new == Told(ws, id, v)
<1>1. DOMAIN ws = DOMAIN views.slots
  BY DEF LinksKept
<1>2. ASSUME NEW j \in DOMAIN views.slots
      PROVE  IF Linked(View(j), id)
             THEN /\ ViewLike(new[j]) /\ SameLinks(View(j), new[j])
                  /\ new[j].sel = View(j).sel /\ InStep(new[j], v)
             ELSE new[j] = View(j)
  <2>1. CASE Linked(View(j), id)
    <3>1. Linked(ws[j], id) /\ ViewLike(ws[j]) /\ SameLinks(View(j), ws[j])
          /\ ws[j].sel = View(j).sel
      BY <2>1, LinkedStill DEF LinksKept
    <3>2. new[j] = Updated(ws[j], v.log.first, evaluations(v, stack_pointer))
      BY <1>1, <3>1 DEF Told
    <3>3. /\ ViewLike(new[j]) /\ SameLinks(ws[j], new[j]) /\ new[j].sel = ws[j].sel
          /\ InStep(new[j], v)
      BY <3>1, <3>2, UpdatedFacts
    <3> HIDE DEF new
    <3> QED  BY <2>1, <3>1, <3>3 DEF SameLinks
  <2>2. CASE ~Linked(View(j), id)
    BY <1>1, <2>2, LinkedStill DEF Told, LinksKept
  <2> QED  BY <2>1, <2>2
<1>3. new = [j \in DOMAIN views.slots |-> new[j]]
  BY <1>1 DEF Told
<1> HIDE DEF new
<1> QED  BY <1>2, <1>3 DEF Informed, LinksKept, new

LEMMA AgainstInforms ==
  ASSUME NEW ws, NEW id, NEW v, Informed(ws, id, v), NEW line1, NEW line2
  PROVE  Informed(Against(ws, id, line1, line2), id, v)
<1> DEFINE new == Against(ws, id, line1, line2)
<1>1. LinksKept(ws, id) /\ DOMAIN ws = DOMAIN views.slots
  BY DEF Informed, LinksKept
<1>2. ASSUME NEW j \in DOMAIN views.slots
      PROVE  IF Linked(View(j), id)
             THEN /\ ViewLike(new[j]) /\ SameLinks(View(j), new[j])
                  /\ new[j].sel = View(j).sel /\ InStep(new[j], v)
             ELSE new[j] = View(j)
  <2>1. CASE Linked(View(j), id)
    <3> PICK w : w = ws[j]
      OBVIOUS
    <3> PICK later : later = Max({line1, line2})
      OBVIOUS
    <3> PICK since : since = Min({line1, line2}) + 1
      OBVIOUS
    <3>1. Linked(w, id) /\ ViewLike(w) /\ SameLinks(View(j), w)
          /\ w.sel = View(j).sel /\ InStep(w, v)
      BY <1>1, <2>1, LinkedStill DEF LinksKept, Informed
    <3>2. new[j] = [w EXCEPT !.diff = later, !.since = since]
      BY <1>1, <3>1, Zenon DEF Against
    <3> PICK x : x = [w EXCEPT !.diff = later, !.since = since]
      OBVIOUS
    <3>3. /\ ViewLike(x) /\ SameLinks(w, x) /\ x.sel = w.sel
          /\ x.line = w.line /\ x.follows = w.follows /\ x.known = w.known
          /\ x.start = w.start
      BY <3>1 DEF ViewLike, SameLinks
    <3>4. new[j] = x
      BY <3>2
    <3>5. InStep(x, v)
      BY <3>1, <3>3 DEF InStep, IsMemory, SameLinks
    <3> HIDE DEF new
    <3> QED  BY <2>1, <3>1, <3>3, <3>4, <3>5 DEF SameLinks
  <2>2. CASE ~Linked(View(j), id)
    BY <1>1, <2>2, LinkedStill DEF Against, LinksKept
  <2> QED  BY <2>1, <2>2
<1>3. new = [j \in DOMAIN views.slots |-> new[j]]
  BY <1>1 DEF Against
<1> HIDE DEF new
<1> QED  BY <1>2, <1>3 DEF Informed, LinksKept, new

-----------------------------------------------------------------------------
(* What the actions do.  An action on a trace window leaves all the others *)
(* as they are; of its selection, only text that is drawn matters.         *)

Places == Int \X Int \X (0 .. MaxChar)

SelStep(s, new) ==
  \/ new = s \/ new = Released(s)
  \/ \E drawn : \E p \in Places, clicks \in 1 .. 3, shift \in BOOLEAN :
       \/ new = Pressed(FALSE, drawn, s, p, clicks, shift)
       \/ new = Dragged(FALSE, drawn, s, p)

TraceStep(i) ==
  /\ traces' = [slots |-> traces'.slots, free |-> traces.free]
  /\ traces'.slots = [traces.slots EXCEPT ![i] = traces'.slots[i]]
  /\ TraceLike(traces'.slots[i]) /\ traces'.slots[i].id = At(i).id
  /\ DrawnPlacesOK => SelStep(At(i).sel, traces'.slots[i].sel)
  /\ session' = session

(* The position changes, and the views hear of it. *)
Goes(i) ==
  /\ TraceStep(i)
  /\ views' = [slots |-> views'.slots, free |-> views.free]
  /\ LinksKept(views'.slots, At(i).id)
  /\ Informed(views'.slots, At(i).id, traces'.slots[i].vu) \/ MenuUnfold(i)

(* The position does not change. *)
Stays(i) == TraceStep(i) /\ views' = views /\ traces'.slots[i].vu = At(i).vu

LEMMA TraceChanged ==
  ASSUME Registered, NEW i \in Open(traces), NEW x, TraceLike(x), x.id = At(i).id,
         traces' = [slots |-> [traces.slots EXCEPT ![i] = x], free |-> traces.free],
         session' = session, DrawnPlacesOK => SelStep(At(i).sel, x.sel)
  PROVE  TraceStep(i) /\ traces'.slots[i] = x
<1> PICK slots : slots = [traces.slots EXCEPT ![i] = x]
  OBVIOUS
<1>1. i \in DOMAIN traces.slots
  BY WindowFacts
<1>2. slots[i] = x
  BY <1>1
<1>3. traces'.slots = slots /\ traces' = [slots |-> slots, free |-> traces.free]
  OBVIOUS
<1>4. traces'.slots[i] = x
  BY <1>2, <1>3
<1>5. traces' = [slots |-> traces'.slots, free |-> traces.free]
  BY <1>3
<1>6. traces'.slots = [traces.slots EXCEPT ![i] = traces'.slots[i]]
  BY <1>3, <1>4
<1>7. /\ TraceLike(traces'.slots[i]) /\ traces'.slots[i].id = At(i).id
      /\ DrawnPlacesOK => SelStep(At(i).sel, traces'.slots[i].sel)
  BY <1>4
<1>8. TraceStep(i)
  BY <1>5, <1>6, <1>7, Zenon DEF TraceStep
<1> QED  BY <1>4, <1>8

LEMMA ShowFacts ==
  ASSUME Registered, NEW i \in Open(traces), NEW v, NEW top, NEW ws,
         Show(i, v, top, ws)
  PROVE  /\ TraceStep(i) /\ traces'.slots[i].vu = v
         /\ views' = [slots |-> ws, free |-> views.free]
<1> PICK s : s = traces.slots
  OBVIOUS
<1> PICK free : free = traces.free
  OBVIOUS
<1> PICK w : w = s[i]
  OBVIOUS
<1>1. traces = [slots |-> s, free |-> free] /\ i \in DOMAIN s /\ w = At(i)
  BY WindowFacts DEF Registered, TracesOK, Registry, At
<1>2. w \in [kind : {"trace"}, id : {w.id}, vu : {w.vu}, wintop : {w.wintop},
             drawn : {w.drawn}, prompt : {w.prompt}, sel : {w.sel}, row : {w.row}]
  BY <1>1, WindowFacts DEF TraceLike
<1> PICK x : x = [w EXCEPT !.vu = v, !.wintop = top]
  OBVIOUS
<1>3. traces' = [traces EXCEPT !.slots[i].vu = v, !.slots[i].wintop = top]
  BY DEF Show
<1>4. traces' = [slots |-> [s EXCEPT ![i] = x], free |-> free]
  BY <1>1, <1>3
<1>5. TraceLike(x) /\ x.id = w.id /\ x.sel = w.sel /\ x.vu = v
  BY <1>2 DEF TraceLike
<1>6. TraceStep(i) /\ traces'.slots[i] = x
  <2>1. SelStep(At(i).sel, x.sel) /\ x.id = At(i).id
    BY <1>1, <1>5, Zenon DEF SelStep
  <2>2. traces' = [slots |-> [traces.slots EXCEPT ![i] = x], free |-> traces.free]
    BY <1>4
  <2>3. session' = session
    BY DEF Show
  <2>4. TraceLike(x)
    BY <1>5
  <2> QED  BY <2>1, <2>2, <2>3, <2>4, TraceChanged
<1>7. views = [slots |-> views.slots, free |-> views.free]
      /\ views' = [views EXCEPT !.slots = ws]
  BY DEF Registered, ViewsOK, Registry, Show
<1>8. views' = [slots |-> ws, free |-> views.free]
  BY <1>7
<1> QED  BY <1>5, <1>6, <1>8

LEMMA ShowGoes ==
  ASSUME Registered, NEW i \in Open(traces), NEW v, NEW top, NEW ws,
         Show(i, v, top, ws), Informed(ws, At(i).id, v)
  PROVE  Goes(i)
<1>1. /\ TraceStep(i) /\ traces'.slots[i].vu = v
      /\ views' = [slots |-> ws, free |-> views.free]
  BY ShowFacts
<1>2. views'.slots = ws
  BY <1>1
<1>3. Informed(views'.slots, At(i).id, traces'.slots[i].vu)
  BY <1>1, <1>2
<1> QED  BY <1>1, <1>2, <1>3 DEF Goes, Informed

LEMMA SettleGoes ==
  ASSUME Registered, NEW i \in Open(traces), NEW v, NEW top, Settle(i, v, top)
  PROVE  Goes(i)
<1>1. Informed(Told(views.slots, At(i).id, v), At(i).id, v)
  BY AlreadyKept, ToldInforms
<1> QED  BY <1>1, ShowGoes DEF Settle

LEMMA JumpGoes ==
  ASSUME Registered, NEW i \in Open(traces), NEW node, Jump(i, node)
  PROVE  Goes(i)
  BY SettleGoes DEF Jump, JumpTo, Arrive

LEMMA StepGoes ==
  ASSUME Registered, NEW i \in Open(traces), NEW node, Step(i, node)
  PROVE  Goes(i)
<1> DEFINE v == goto_visible_node(ix, At(i).vu, node)
           ws == Told(views.slots, At(i).id, v)
           line == At(i).vu.log.first
<1>1. Informed(ws, At(i).id, v)
  BY AlreadyKept, ToldInforms
<1>2. Informed(Against(ws, At(i).id, v.log.first, line), At(i).id, v)
  BY <1>1, AgainstInforms
<1> QED  BY <1>2, ShowGoes DEF Step, StepTo

LEMMA PageGoes ==
  ASSUME Registered, NEW i \in Open(traces), NEW node, NEW end,
         PageTo(i, node, end)
  PROVE  Goes(i)
  BY SettleGoes DEF PageTo, JumpTo, Arrive

LEMMA FoldGoes ==
  ASSUME Registered, NEW i \in Open(traces), NEW range, NEW max,
         Fold(i, range, max)
  PROVE  Goes(i)
  BY SettleGoes DEF Fold, FoldedIn

LEMMA RefoldedId ==
  ASSUME NEW w, TraceLike(w), NEW range, NEW max
  PROVE  Refolded(w, range, max).id = w.id
<1> PICK folds : folds = set_fold_state(ix, w.vu.folds, range.first, range.last,
                                        <<0, max>>)
  OBVIOUS
<1> PICK v : v = BothNew([w.vu EXCEPT !.folds = folds])
  OBVIOUS
<1> PICK top : top = TopKept(w, folds)
  OBVIOUS
<1>1. Refolded(w, range, max) = [w EXCEPT !.vu = v, !.wintop = top]
  BY Zenon DEF Refolded, WithFolds
<1> QED  BY <1>1 DEF TraceLike

LEMMA UnfoldGoes ==
  ASSUME Registered, NEW i \in Open(traces), NEW range, NEW max, NEW how,
         Unfold(i, range, max, how), how = "menu" => MenuUnfold(i)
  PROVE  Goes(i)
<1> PICK w : w = Refolded(At(i), range, max)
  OBVIOUS
<1> PICK v : v = goto_node(ix, w.vu, At(i).vu.vis)
  OBVIOUS
<1> DEFINE once == Told(views.slots, At(i).id, w.vu)
           twice == Told(once, At(i).id, v)
           ws == IF how = "menu" THEN once ELSE twice
           top == IF how = "key" THEN InView(v, w.wintop) ELSE w.wintop
<1>0. w.id = At(i).id
  BY WindowFacts, RefoldedId
<1>1. Show(i, v, top, ws)
  BY <1>0 DEF Unfold, UnfoldedIn, UnfoldedTo, ToldTwice
<1>2. LinksKept(once, At(i).id)
  BY AlreadyKept, ToldInforms DEF Informed
<1>3. Informed(twice, At(i).id, v)
  BY <1>2, ToldInforms
<1>4. CASE how = "menu"
  <2> HIDE DEF once, twice, top
  <2>1. /\ TraceStep(i)
        /\ views' = [slots |-> once, free |-> views.free]
    BY <1>1, <1>4, ShowFacts
  <2>2. views'.slots = once
    BY <2>1
  <2> QED  BY <1>2, <1>4, <2>1, <2>2 DEF Goes
<1>5. CASE how # "menu"
  BY <1>1, <1>3, <1>5, ShowGoes
<1> QED  BY <1>4, <1>5

-----------------------------------------------------------------------------
(* Actions that leave the position of their window where it is. *)

(* The window with one field changed. *)
LEMMA RegistryOf ==
  ASSUME Registered, NEW i \in Open(traces)
  PROVE  /\ traces = [slots |-> traces.slots, free |-> traces.free]
         /\ i \in DOMAIN traces.slots /\ At(i) = traces.slots[i]
         /\ At(i) \in [kind : {"trace"}, id : {At(i).id}, vu : {At(i).vu},
                       wintop : {At(i).wintop}, drawn : {At(i).drawn},
                       prompt : {At(i).prompt}, sel : {At(i).sel},
                       row : {At(i).row}]
  BY WindowFacts DEF Registered, TracesOK, Registry, At, TraceLike

LEMMA TraceSame ==
  ASSUME Registered, NEW i \in Open(traces), UNCHANGED <<session, traces>>
  PROVE  TraceStep(i) /\ traces'.slots[i].vu = At(i).vu
<1>1. traces' = [slots |-> [traces.slots EXCEPT ![i] = At(i)],
                 free |-> traces.free]
  <2>1. traces.slots = [k \in DOMAIN traces.slots |-> traces.slots[k]]
    BY SeqFacts DEF Registered, TracesOK, Registry
  <2>2. traces.slots = [traces.slots EXCEPT ![i] = At(i)]
    BY <2>1, RegistryOf
  <2> QED  BY <2>2, RegistryOf
<1>2. TraceLike(At(i)) /\ SelStep(At(i).sel, At(i).sel)
  BY WindowFacts DEF SelStep
<1> QED  BY <1>1, <1>2, TraceChanged

LEMMA PaintStays ==
  ASSUME Registered, NEW i \in Open(traces), Paint(i)
  PROVE  Stays(i)
<1> PICK s : s = traces.slots
  OBVIOUS
<1> PICK w : w = At(i)
  OBVIOUS
<1> PICK drawn : drawn = [folds |-> At(i).vu.folds, top |-> At(i).wintop]
  OBVIOUS
<1> PICK x : x = [w EXCEPT !.drawn = drawn]
  OBVIOUS
<1>1. traces' = [traces EXCEPT !.slots[i].drawn = drawn] /\ session' = session
      /\ views' = views
  BY DEF Paint
<1>2. traces' = [slots |-> [traces.slots EXCEPT ![i] = x], free |-> traces.free]
  BY <1>1, RegistryOf
<1>3. TraceLike(x) /\ x.id = At(i).id /\ x.vu = w.vu /\ x.sel = w.sel
  BY RegistryOf DEF TraceLike
<1>4. SelStep(At(i).sel, x.sel)
  BY <1>3, Zenon DEF SelStep
<1>5. session' = session /\ TraceLike(x) /\ x.id = At(i).id
  BY <1>1, <1>3
<1>6. TraceStep(i) /\ traces'.slots[i] = x
  BY <1>2, <1>4, <1>5, TraceChanged
<1> QED  BY <1>1, <1>3, <1>6 DEF Stays

(* Scroll and Recentre. *)
LEMMA TopStays ==
  ASSUME Registered, NEW i \in Open(traces), NEW top,
         traces' = [traces EXCEPT !.slots[i].wintop = top],
         UNCHANGED <<session, views>>
  PROVE  Stays(i)
<1> PICK w : w = At(i)
  OBVIOUS
<1> PICK x : x = [w EXCEPT !.wintop = top]
  OBVIOUS
<1>2. traces' = [slots |-> [traces.slots EXCEPT ![i] = x], free |-> traces.free]
  BY RegistryOf
<1>3. TraceLike(x) /\ x.id = At(i).id /\ x.vu = w.vu /\ x.sel = w.sel
  BY RegistryOf DEF TraceLike
<1>4. SelStep(At(i).sel, x.sel)
  BY <1>3, Zenon DEF SelStep
<1>5. session' = session /\ TraceLike(x) /\ x.id = At(i).id
  BY <1>3
<1>6. TraceStep(i) /\ traces'.slots[i] = x
  BY <1>2, <1>4, <1>5, TraceChanged
<1> QED  BY <1>3, <1>6 DEF Stays

(* NewMemory and MemPromptEnded. *)
LEMMA PromptStep ==
  ASSUME Registered, NEW i \in Open(traces), NEW prompt,
         traces' = [traces EXCEPT !.slots[i].prompt = prompt],
         UNCHANGED session
  PROVE  TraceStep(i) /\ traces'.slots[i].vu = At(i).vu
<1> PICK w : w = At(i)
  OBVIOUS
<1> PICK x : x = [w EXCEPT !.prompt = prompt]
  OBVIOUS
<1>2. traces' = [slots |-> [traces.slots EXCEPT ![i] = x], free |-> traces.free]
  BY RegistryOf
<1>3. TraceLike(x) /\ x.id = At(i).id /\ x.vu = w.vu /\ x.sel = w.sel
  BY RegistryOf DEF TraceLike
<1>4. SelStep(At(i).sel, x.sel)
  BY <1>3, Zenon DEF SelStep
<1>5. session' = session /\ TraceLike(x) /\ x.id = At(i).id
  BY <1>3
<1>6. TraceStep(i) /\ traces'.slots[i] = x
  BY <1>2, <1>4, <1>5, TraceChanged
<1> QED  BY <1>3, <1>6

(* What the mouse points at in a trace window. *)
LEMMA PlaceDrawn ==
  ASSUME Registered, DrawnPlacesOK, NEW i \in Open(traces),
         NEW place \in PlacesDrawn(At(i).drawn), NEW ch \in session.chars
  PROVE  Position(place, ch) \in Places
<1>1. place \in Int \X Int
  BY DEF DrawnPlacesOK
<1>2. ch \in 0 .. MaxChar
  BY SessionsAssumption DEF Registered
<1> QED  BY <1>1, <1>2 DEF Position, Places

LEMMA PressStays ==
  ASSUME Registered, NEW i \in Open(traces), Press(i)
  PROVE  Stays(i)
<1>1. PICK row \in RowsDrawn(At(i).drawn), ch \in session.chars,
           clicks \in session.clicks, shift \in BOOLEAN :
           PressAt(i, row, Position(PlaceAt(LineDrawn(At(i).drawn, row)), ch),
                   clicks, shift)
  BY DEF Press
<1> PICK p : p = Position(PlaceAt(LineDrawn(At(i).drawn, row)), ch)
  OBVIOUS
<1> PICK sel : sel = Pressed(FALSE, PlacesDrawn(At(i).drawn), At(i).sel, p, clicks,
                             shift)
  OBVIOUS
<1> PICK w : w = At(i)
  OBVIOUS
<1> PICK x : x = [w EXCEPT !.sel = sel, !.row = row]
  OBVIOUS
<1>2. /\ traces' = [traces EXCEPT !.slots[i].sel = sel, !.slots[i].row = row]
      /\ session' = session /\ views' = views
  BY <1>1 DEF PressAt, At
<1>3. traces' = [slots |-> [traces.slots EXCEPT ![i] = x], free |-> traces.free]
  BY <1>2, RegistryOf
<1>4. TraceLike(x) /\ x.id = At(i).id /\ x.vu = w.vu /\ x.sel = sel
  BY RegistryOf DEF TraceLike
<1>5. ASSUME DrawnPlacesOK
      PROVE  SelStep(At(i).sel, x.sel)
  <2>1. PlaceAt(LineDrawn(At(i).drawn, row)) \in PlacesDrawn(At(i).drawn)
    BY DEF PlacesDrawn
  <2>2. p \in Places
    BY <1>5, <2>1, PlaceDrawn
  <2>3. clicks \in 1 .. 3
    BY SessionsAssumption DEF Registered
  <2> QED  BY <1>4, <2>2, <2>3, Zenon DEF SelStep
<1>6. session' = session /\ TraceLike(x) /\ x.id = At(i).id
  BY <1>2, <1>4
<1>7. TraceStep(i) /\ traces'.slots[i] = x
  BY <1>3, <1>5, <1>6, TraceChanged
<1> QED  BY <1>2, <1>4, <1>7 DEF Stays

LEMMA DragStays ==
  ASSUME Registered, NEW i \in Open(traces), Drag(i)
  PROVE  Stays(i)
<1>1. PICK place \in PlacesDrawn(At(i).drawn), ch \in session.chars :
           DragTo(i, Position(place, ch))
  BY DEF Drag
<1> PICK p : p = Position(place, ch)
  OBVIOUS
<1> PICK sel : sel = Dragged(FALSE, PlacesDrawn(At(i).drawn), At(i).sel, p)
  OBVIOUS
<1> PICK w : w = At(i)
  OBVIOUS
<1> PICK x : x = [w EXCEPT !.sel = sel]
  OBVIOUS
<1>2. /\ traces' = [traces EXCEPT !.slots[i].sel = sel]
      /\ session' = session /\ views' = views
  BY <1>1 DEF DragTo, At
<1>3. traces' = [slots |-> [traces.slots EXCEPT ![i] = x], free |-> traces.free]
  BY <1>2, RegistryOf
<1>4. TraceLike(x) /\ x.id = At(i).id /\ x.vu = w.vu /\ x.sel = sel
  BY RegistryOf DEF TraceLike
<1>5. ASSUME DrawnPlacesOK
      PROVE  SelStep(At(i).sel, x.sel)
  <2>1. p \in Places
    BY <1>5, PlaceDrawn
  <2>2. 1 \in 1 .. 3 /\ TRUE \in BOOLEAN
    OBVIOUS
  <2> QED  BY <1>4, <2>1, <2>2, Zenon DEF SelStep
<1>6. session' = session /\ TraceLike(x) /\ x.id = At(i).id
  BY <1>2, <1>4
<1>7. TraceStep(i) /\ traces'.slots[i] = x
  BY <1>3, <1>5, <1>6, TraceChanged
<1> QED  BY <1>2, <1>4, <1>7 DEF Stays

LEMMA RaisedFacts ==
  ASSUME Registered, NEW i \in Open(traces), NEW v, NEW ws, Raised(i, v, ws)
  PROVE  /\ TraceStep(i) /\ traces'.slots[i].vu = v
         /\ views' = [slots |-> ws, free |-> views.free]
<1> PICK w : w = At(i)
  OBVIOUS
<1> PICK sel : sel = Released(At(i).sel)
  OBVIOUS
<1> PICK x : x = [w EXCEPT !.sel = sel, !.vu = v]
  OBVIOUS
<1>1. traces' = [traces EXCEPT !.slots[i].sel = sel, !.slots[i].vu = v]
  BY DEF Raised, At
<1>2. traces' = [slots |-> [traces.slots EXCEPT ![i] = x], free |-> traces.free]
  BY <1>1, RegistryOf
<1>3. TraceLike(x) /\ x.id = At(i).id /\ x.vu = v /\ x.sel = sel
  BY RegistryOf DEF TraceLike
<1>4. SelStep(At(i).sel, x.sel)
  BY <1>3, Zenon DEF SelStep
<1>5. session' = session /\ TraceLike(x) /\ x.id = At(i).id
  BY <1>3 DEF Raised
<1>6. TraceStep(i) /\ traces'.slots[i] = x
  BY <1>2, <1>4, <1>5, TraceChanged
<1>7. views = [slots |-> views.slots, free |-> views.free]
      /\ views' = [views EXCEPT !.slots = ws]
  BY DEF Registered, ViewsOK, Registry, Raised
<1>8. views' = [slots |-> ws, free |-> views.free]
  BY <1>7
<1> QED  BY <1>3, <1>6, <1>8

LEMMA ReleaseMoves ==
  ASSUME Registered, NEW i \in Open(traces), Release(i)
  PROVE  Goes(i) \/ Stays(i)
<1>1. ASSUME Raised(i, At(i).vu, views.slots)
      PROVE  Stays(i)
  <2>1. /\ TraceStep(i) /\ traces'.slots[i].vu = At(i).vu
        /\ views' = [slots |-> views.slots, free |-> views.free]
    BY <1>1, RaisedFacts
  <2>2. views = [slots |-> views.slots, free |-> views.free]
    BY DEF Registered, ViewsOK, Registry
  <2> QED  BY <2>1, <2>2 DEF Stays
<1>2. ASSUME NEW v, ReleaseAt(i, v)
      PROVE  Goes(i)
  <2> DEFINE ws == Told(views.slots, At(i).id, v)
  <2>1. /\ TraceStep(i) /\ traces'.slots[i].vu = v
        /\ views' = [slots |-> ws, free |-> views.free]
    BY <1>2, RaisedFacts DEF ReleaseAt
  <2>2. Informed(ws, At(i).id, v)
    BY AlreadyKept, ToldInforms
  <2> HIDE DEF ws
  <2>3. views'.slots = ws
    BY <2>1
  <2>4. LinksKept(views'.slots, At(i).id)
        /\ Informed(views'.slots, At(i).id, traces'.slots[i].vu)
    BY <2>1, <2>2, <2>3 DEF Informed
  <2> QED  BY <2>1, <2>3, <2>4 DEF Goes
<1> QED  BY <1>1, <1>2 DEF Release, ClickRow

-----------------------------------------------------------------------------
(* Actions that open a view: it is linked to the window that opens it, and *)
(* in step with it.                                                        *)

Adds(i) ==
  /\ TraceStep(i) /\ traces'.slots[i].vu = At(i).vu
  /\ \E w : /\ ViewLike(w) /\ w.list = At(i).id /\ w.tw = At(i).id /\ w.menu = i
            /\ w.sel = NoSelection /\ InStep(w, At(i).vu)
            /\ views' = Allocated(views, w)

(* The entry that a menu shows is all that changes. *)
LEMMA MenuFacts ==
  ASSUME NEW w, ViewLike(w), NEW menu
  PROVE  LET new == [w EXCEPT !.menu = menu]
         IN /\ ViewLike(new) /\ new.kind = w.kind /\ new.tw = w.tw
            /\ new.list = w.list /\ new.menu = menu /\ new.sel = w.sel
            /\ \A v : InStep(w, v) => InStep(new, v)
<1> PICK new : new = [w EXCEPT !.menu = menu]
  OBVIOUS
<1>1. /\ ViewLike(new) /\ new.kind = w.kind /\ new.tw = w.tw
      /\ new.list = w.list /\ new.menu = menu /\ new.sel = w.sel
      /\ new.line = w.line /\ new.follows = w.follows /\ new.known = w.known
      /\ new.start = w.start
  BY DEF ViewLike
<1>2. \A v : InStep(w, v) => InStep(new, v)
  BY <1>1 DEF InStep, IsMemory
<1> QED  BY <1>1, <1>2

LEMMA AddedFacts ==
  ASSUME NEW i, NEW w, ViewLike(w)
  PROVE  LET new == AddedTo(i, w)
         IN /\ ViewLike(new) /\ new.kind = w.kind /\ new.tw = w.tw
            /\ new.list = w.list /\ new.menu = i /\ new.sel = w.sel
            /\ InStep(new, At(i).vu)
<1> DEFINE v == At(i).vu
<1> PICK x : x = Updated(w, v.log.first, evaluations(v, stack_pointer))
  OBVIOUS
<1>1. ViewLike(x) /\ SameLinks(w, x) /\ x.sel = w.sel /\ InStep(x, v)
  BY UpdatedFacts
<1>2. AddedTo(i, w) = [x EXCEPT !.menu = i]
  BY DEF AddedTo
<1> HIDE DEF v
<1>3. LET new == AddedTo(i, w)
      IN /\ ViewLike(new) /\ new.kind = x.kind /\ new.tw = x.tw
         /\ new.list = x.list /\ new.menu = i /\ new.sel = x.sel
         /\ InStep(new, v)
  BY <1>1, <1>2, MenuFacts
<1> QED  BY <1>1, <1>3 DEF SameLinks, v

LEMMA SubsidiaryFacts ==
  ASSUME NEW kind \in RegisterKinds \cup {"memory"}, NEW id
  PROVE  LET w == SubsidiaryView(kind, id)
         IN ViewLike(w) /\ w.kind = kind /\ w.tw = id /\ w.list = id
            /\ w.sel = NoSelection
<1> PICK sel : sel = NoSelection
  OBVIOUS
<1> PICK w : w = [kind |-> kind, tw |-> id, list |-> id, menu |-> 0, line |-> 0,
                  diff |-> 0, since |-> 0, sel |-> sel, start |-> 0,
                  known |-> FALSE, follows |-> FALSE]
  OBVIOUS
<1>1. SubsidiaryView(kind, id) = w
  BY DEF SubsidiaryView
<1>2. ViewLike(w) /\ w.kind = kind /\ w.tw = id /\ w.list = id /\ w.sel = sel
  BY DEF ViewLike
<1> QED  BY <1>1, <1>2

LEMMA MemoryFacts ==
  ASSUME NEW id, NEW expr, NEW at
  PROVE  LET w == MemoryWindow(id, expr, at)
         IN ViewLike(w) /\ w.tw = id /\ w.list = id /\ w.sel = NoSelection
<1> PICK w : w = SubsidiaryView("memory", id)
  OBVIOUS
<1>1. ViewLike(w) /\ w.tw = id /\ w.list = id /\ w.sel = NoSelection
  BY SubsidiaryFacts
<1>2. LET new == Started(w, expr, at)
      IN ViewLike(new) /\ SameLinks(w, new) /\ new.sel = w.sel
  BY <1>1, StartedFacts
<1> QED  BY <1>1, <1>2 DEF MemoryWindow, SameLinks

LEMMA AddsView ==
  ASSUME Registered, NEW i \in Open(traces), NEW w, ViewLike(w),
         w.tw = At(i).id, w.list = At(i).id, w.sel = NoSelection,
         AddSubview(i, w), TraceStep(i), traces'.slots[i].vu = At(i).vu
  PROVE  Adds(i)
<1> PICK x : x = AddedTo(i, w)
  OBVIOUS
<1>1. /\ ViewLike(x) /\ x.list = At(i).id /\ x.tw = At(i).id /\ x.menu = i
      /\ x.sel = NoSelection /\ InStep(x, At(i).vu)
  BY AddedFacts
<1>2. views' = Allocated(views, x)
  BY DEF AddSubview
<1> QED  BY <1>1, <1>2 DEF Adds

LEMMA AddsMemory ==
  ASSUME Registered, NEW i \in Open(traces), NEW expr, AddMemory(i, expr),
         TraceStep(i), traces'.slots[i].vu = At(i).vu
  PROVE  Adds(i)
<1> PICK w : w = MemoryWindow(At(i).id, expr, evaluations(At(i).vu, expr))
  OBVIOUS
<1>1. ViewLike(w) /\ w.tw = At(i).id /\ w.list = At(i).id /\ w.sel = NoSelection
  BY MemoryFacts
<1>2. AddSubview(i, w)
  BY DEF AddMemory
<1> QED  BY <1>1, <1>2, AddsView

LEMMA NewRegistersAdds ==
  ASSUME Registered, NEW i \in Open(traces), NewRegisters(i)
  PROVE  Adds(i)
<1>1. PICK kind \in RegisterKinds : AddSubview(i, SubsidiaryView(kind, At(i).id))
  BY DEF NewRegisters
<1> PICK w : w = SubsidiaryView(kind, At(i).id)
  OBVIOUS
<1>2. ViewLike(w) /\ w.tw = At(i).id /\ w.list = At(i).id /\ w.sel = NoSelection
  BY SubsidiaryFacts
<1>3. TraceStep(i) /\ traces'.slots[i].vu = At(i).vu
  BY TraceSame DEF NewRegisters
<1> QED  BY <1>1, <1>2, <1>3, AddsView

LEMMA NewStackAdds ==
  ASSUME Registered, NEW i \in Open(traces), NewStack(i)
  PROVE  Adds(i)
<1>1. TraceStep(i) /\ traces'.slots[i].vu = At(i).vu
  BY TraceSame DEF NewStack
<1> QED  BY <1>1, AddsMemory DEF NewStack

LEMMA MemPromptMoves ==
  ASSUME Registered, NEW i \in Open(traces), MemPromptEnded(i)
  PROVE  Stays(i) \/ Adds(i)
<1>1. TraceStep(i) /\ traces'.slots[i].vu = At(i).vu
  BY PromptStep DEF MemPromptEnded
<1>2. CASE UNCHANGED views
  BY <1>1, <1>2 DEF Stays
<1>3. ASSUME NEW expr, AddMemory(i, expr)
      PROVE  Adds(i)
  BY <1>1, <1>3, AddsMemory
<1> QED  BY <1>2, <1>3 DEF MemPromptEnded

LEMMA MemoryHereAdds ==
  ASSUME Registered, NEW i \in Open(traces), NEW node, MemoryHere(i, node)
  PROVE  Adds(i)
<1>1. TraceStep(i) /\ traces'.slots[i].vu = At(i).vu
  BY TraceSame DEF MemoryHere
<1>2. PICK expr : AddMemory(i, expr)
  BY DEF MemoryHere
<1> QED  BY <1>1, <1>2, AddsMemory

-----------------------------------------------------------------------------
(* Every event in a trace window is one of these, or closes it. *)

LEMMA PhyslineGoes ==
  ASSUME Registered, NEW i \in Open(traces), NEW line, GotoPhysline(i, line)
  PROVE  Goes(i)
  BY JumpGoes DEF GotoPhysline

LEMMA KeysGo ==
  ASSUME Registered, NEW i \in Open(traces),
         \/ Home(i) \/ End(i) \/ LineEdit(i) \/ TimeEdit(i) \/ PCEdit(i)
         \/ \E dir \in {-1, 1} : PCNextPrev(i, dir) \/ ExcNextPrev(i, dir)
         \/ Down(i) \/ Up(i) \/ PageDown(i) \/ PageUp(i)
  PROVE  Goes(i)
<1>1. CASE Home(i)
  BY <1>1, JumpGoes DEF Home
<1>2. CASE End(i)
  BY <1>2, JumpGoes DEF End
<1>3. CASE LineEdit(i)
  BY <1>3, PhyslineGoes DEF LineEdit
<1>4. CASE TimeEdit(i)
  BY <1>4, JumpGoes DEF TimeEdit
<1>5. CASE PCEdit(i)
  BY <1>5, JumpGoes DEF PCEdit
<1>6. ASSUME NEW dir, PCNextPrev(i, dir)
      PROVE  Goes(i)
  BY <1>6, JumpGoes DEF PCNextPrev
<1>7. ASSUME NEW dir, ExcNextPrev(i, dir)
      PROVE  Goes(i)
  BY <1>7, JumpGoes DEF ExcNextPrev
<1>8. CASE Down(i)
  BY <1>8, StepGoes DEF Down
<1>9. CASE Up(i)
  BY <1>9, StepGoes DEF Up
<1>10. CASE PageDown(i)
  BY <1>10, PageGoes DEF PageDown
<1>11. CASE PageUp(i)
  BY <1>11, PageGoes DEF PageUp
<1> QED  BY <1>1, <1>2, <1>3, <1>4, <1>5, <1>6, <1>7, <1>8, <1>9, <1>10, <1>11

LEMMA FoldKeysGo ==
  ASSUME Registered, NEW i \in Open(traces), Left(i) \/ Right(i) \/ FoldAll(i)
  PROVE  Goes(i)
<1>1. CASE Left(i)
  <2>1. ASSUME NEW range, LeftIn(i, range)
        PROVE  Goes(i)
    BY <2>1, SettleGoes DEF LeftIn, LeftTo, FoldedInView, Arrive
  <2> QED  BY <1>1, <2>1 DEF Left
<1>2. CASE Right(i)
  <2>1. ASSUME NEW range, RightIn(i, range)
        PROVE  Goes(i)
    BY <2>1, UnfoldGoes DEF RightIn
  <2> QED  BY <1>2, <2>1 DEF Right
<1>3. CASE FoldAll(i)
  BY <1>3, FoldGoes DEF FoldAll
<1> QED  BY <1>1, <1>2, <1>3

LEMMA ClickBoxGoes ==
  ASSUME Registered, NEW i \in Open(traces), ClickBox(i)
  PROVE  Goes(i)
<1>1. PICK d, node : ClickBoxOf(i, d, node)
  BY DEF ClickBox, ClickBoxAt
<1>2. ASSUME NEW range, FoldBox(i, range)
      PROVE  Goes(i)
  BY <1>2, FoldGoes DEF FoldBox
<1>3. ASSUME NEW range, UnfoldBox(i, range)
      PROVE  Goes(i)
  BY <1>3, UnfoldGoes DEF UnfoldBox
<1> QED  BY <1>1, <1>2, <1>3 DEF ClickBoxOf

LEMMA MenuUnfoldGoes ==
  ASSUME Registered, NEW i \in Open(traces), MenuUnfold(i)
  PROVE  Goes(i)
<1>1. ASSUME NEW range, UnfoldFromMenu(i, range)
      PROVE  Goes(i)
  <2>1. PICK max : Unfold(i, range, max, "menu")
    BY <1>1 DEF UnfoldFromMenu
  <2> QED  BY <2>1, UnfoldGoes
<1> QED  BY <1>1 DEF MenuUnfold, MenuUnfoldOn

LEMMA ContextMenuMoves ==
  ASSUME Registered, NEW i \in Open(traces), ContextMenu(i)
  PROVE  Goes(i) \/ Adds(i)
<1>1. ASSUME NEW range, FoldFromMenu(i, range)
      PROVE  Goes(i)
  BY <1>1, FoldGoes DEF FoldFromMenu
<1>2. ASSUME NEW node, NEW prev, PreviousWrite(i, node, prev)
      PROVE  Goes(i)
  BY <1>2, PhyslineGoes DEF PreviousWrite
<1> QED  BY <1>1, <1>2, MemoryHereAdds DEF ContextMenu, MenuFoldOn

LEMMA TraceMoves ==
  ASSUME Registered, NEW i \in Open(traces), OnTraceWindow(i)
  PROVE  Goes(i) \/ Stays(i) \/ Adds(i) \/ CloseTrace(i)
<1>1. CASE Scroll(i)
  BY <1>1, TopStays DEF Scroll
<1>2. CASE Recentre(i)
  BY <1>2, TopStays DEF Recentre
<1>3. CASE NewMemory(i)
  BY <1>3, PromptStep DEF NewMemory, Stays
<1> QED  BY <1>1, <1>2, <1>3, KeysGo, FoldKeysGo, ClickBoxGoes, MenuUnfoldGoes,
            ContextMenuMoves, PaintStays, PressStays, DragStays, ReleaseMoves,
            NewRegistersAdds, NewStackAdds, MemPromptMoves
         DEF OnTraceWindow

-----------------------------------------------------------------------------
(* Events in a view: it becomes another, which is linked to an open window *)
(* or to none, and in step if it is linked to another one or was in step,  *)
(* unless it is scrolled.                                                  *)

Rewrites(j) ==
  \E w : /\ Become(j, w) /\ ViewLike(w) /\ w.kind = View(j).kind /\ LinkOK(w)
         /\ ~IsMemory(View(j)) => SelStep(View(j).sel, w.sel)
         /\ \A i \in Open(traces) :
              w.list = At(i).id =>
                \/ InStep(w, At(i).vu)
                \/ /\ View(j).list = w.list
                   /\ ScrollMemory(j) \/ ~InStep(View(j), At(i).vu)

(* A view whose links stay the same, and whether it is in step. *)
LEMMA RewriteSame ==
  ASSUME Registered, NEW j \in Open(views), NEW w, Become(j, w), ViewLike(w),
         SameLinks(View(j), w),
         ~IsMemory(View(j)) => SelStep(View(j).sel, w.sel),
         \A i \in Open(traces) :
           w.list = At(i).id /\ InStep(View(j), At(i).vu)
             => InStep(w, At(i).vu) \/ ScrollMemory(j)
  PROVE  Rewrites(j)
<1>1. LinkOK(w)
  BY DEF Registered, LinksOK, LinkOK, SameLinks
<1>2. w.kind = View(j).kind /\ View(j).list = w.list
  BY DEF SameLinks
<1> QED  BY <1>1, <1>2 DEF Rewrites

LEMMA SelectRewrites ==
  ASSUME Registered, NEW j \in Open(views), NEW s, Select(j, s),
         ~IsMemory(View(j)) => SelStep(View(j).sel, s)
  PROVE  Rewrites(j)
<1> PICK v : v = View(j)
  OBVIOUS
<1> PICK w : w = [v EXCEPT !.sel = s]
  OBVIOUS
<1>1. ViewLike(v)
  BY WindowFacts
<1>2. /\ ViewLike(w) /\ SameLinks(v, w) /\ w.sel = s
      /\ w.line = v.line /\ w.follows = v.follows /\ w.known = v.known
      /\ w.start = v.start
  BY <1>1 DEF ViewLike, SameLinks
<1>3. \A x : InStep(v, x) => InStep(w, x)
  BY <1>2 DEF InStep, IsMemory, SameLinks
<1>4. Become(j, w)
  BY DEF Select
<1>5. SameLinks(View(j), w) /\ \A x : InStep(View(j), x) => InStep(w, x)
  BY <1>2, <1>3
<1>6. ~IsMemory(View(j)) => SelStep(View(j).sel, w.sel)
  BY <1>2
<1> QED  BY <1>2, <1>4, <1>5, <1>6, RewriteSame

LEMMA RegisterPlace ==
  ASSUME Registered, NEW place \in RegisterPlaces, NEW ch \in session.chars
  PROVE  Position(place, ch) \in Places
<1>1. PICK r \in 0 .. NRegs - 1 : place = <<r \div RegRows, r % RegRows>>
  BY DEF RegisterPlaces
<1>2. r \div RegRows \in Int /\ r % RegRows \in Int
  BY WindowsAssumption
<1>3. ch \in 0 .. MaxChar
  BY SessionsAssumption DEF Registered
<1> QED  BY <1>1, <1>2, <1>3 DEF Position, Places

LEMMA SelectInViewRewrites ==
  ASSUME Registered, NEW j \in Open(views), SelectInView(j)
  PROVE  Rewrites(j)
<1> PICK v : v = View(j)
  OBVIOUS
<1>1. PICK p \in PositionsOf(v) :
        \/ \E clicks \in session.clicks, shift \in BOOLEAN :
             Select(j, Pressed(IsMemory(v), PlacesOf(v), v.sel, p, clicks, shift))
        \/ Select(j, Dragged(IsMemory(v), PlacesOf(v), v.sel, p))
  BY DEF SelectInView
<1>2. ASSUME ~IsMemory(v)
      PROVE  IsMemory(v) = FALSE /\ p \in Places
  <2>1. PlacesOf(v) = RegisterPlaces
    BY <1>2 DEF PlacesOf
  <2>2. PICK place \in RegisterPlaces, ch \in session.chars : p = Position(place, ch)
    BY <1>1, <2>1 DEF PositionsOf
  <2>3. p \in Places
    BY <2>2, RegisterPlace
  <2> QED  BY <1>2, <2>3 DEF IsMemory
<1>3. ASSUME NEW clicks \in session.clicks, NEW shift \in BOOLEAN,
             Select(j, Pressed(IsMemory(v), PlacesOf(v), v.sel, p, clicks, shift))
      PROVE  Rewrites(j)
  <2> PICK s : s = Pressed(IsMemory(v), PlacesOf(v), v.sel, p, clicks, shift)
    OBVIOUS
  <2>1. clicks \in 1 .. 3
    BY SessionsAssumption DEF Registered
  <2>2. ASSUME ~IsMemory(v)
        PROVE  SelStep(v.sel, s)
    <3>1. s = Pressed(FALSE, PlacesOf(v), v.sel, p, clicks, shift)
      BY <1>2, <2>2
    <3> QED  BY <1>2, <2>1, <2>2, <3>1, Zenon DEF SelStep
  <2> QED  BY <1>3, <2>2, SelectRewrites
<1>4. ASSUME Select(j, Dragged(IsMemory(v), PlacesOf(v), v.sel, p))
      PROVE  Rewrites(j)
  <2> PICK s : s = Dragged(IsMemory(v), PlacesOf(v), v.sel, p)
    OBVIOUS
  <2>1. 1 \in 1 .. 3 /\ TRUE \in BOOLEAN
    OBVIOUS
  <2>2. ASSUME ~IsMemory(v)
        PROVE  SelStep(v.sel, s)
    <3>1. s = Dragged(FALSE, PlacesOf(v), v.sel, p)
      BY <1>2, <2>2
    <3> QED  BY <1>2, <2>1, <2>2, <3>1, Zenon DEF SelStep
  <2> QED  BY <1>4, <2>2, SelectRewrites
<1> QED  BY <1>1, <1>3, <1>4

LEMMA ReleaseInViewRewrites ==
  ASSUME Registered, NEW j \in Open(views), ReleaseInView(j)
  PROVE  Rewrites(j)
<1>1. SelStep(View(j).sel, Released(View(j).sel))
  BY Zenon DEF SelStep
<1> QED  BY <1>1, SelectRewrites DEF ReleaseInView

LEMMA ScrollRewrites ==
  ASSUME Registered, NEW j \in Open(views), ScrollMemory(j)
  PROVE  Rewrites(j)
<1> PICK v : v = View(j)
  OBVIOUS
<1>1. PICK lines : Become(j, Scrolled(v, lines))
  BY DEF ScrollMemory
<1> PICK start : start = address_of(v.start + lines * BytesPerLine)
  OBVIOUS
<1> PICK w : w = [v EXCEPT !.start = start]
  OBVIOUS
<1>2. Become(j, w)
  BY <1>1 DEF Scrolled
<1>3. ViewLike(v)
  BY WindowFacts
<1>4. ViewLike(w) /\ SameLinks(v, w) /\ w.sel = v.sel
  BY <1>3 DEF ViewLike, SameLinks
<1>5. SelStep(v.sel, w.sel)
  BY <1>4, Zenon DEF SelStep
<1> QED  BY <1>2, <1>4, <1>5, RewriteSame

LEMMA RelinkRewrites ==
  ASSUME Registered, NEW j \in Open(views), Relink(j)
  PROVE  Rewrites(j)
<1> PICK v : v = View(j)
  OBVIOUS
<1>0. ViewLike(v)
  BY WindowFacts
<1>1. ASSUME NEW i \in Open(traces), LinkTo(j, i)
      PROVE  Rewrites(j)
  <2> PICK id : id = At(i).id
    OBVIOUS
  <2>x. PICK x : x = [v EXCEPT !.tw = id, !.list = id]
    OBVIOUS
  <2>1. /\ ViewLike(x) /\ x.kind = v.kind /\ x.tw = id /\ x.list = id
        /\ x.sel = v.sel
    BY <1>0, <2>x DEF ViewLike
  <2>w. PICK w : w = AddedTo(i, x)
    OBVIOUS
  <2>2. /\ ViewLike(w) /\ w.kind = v.kind /\ w.tw = id /\ w.list = id
        /\ w.menu = i /\ w.sel = v.sel /\ InStep(w, At(i).vu)
    BY <2>1, <2>w, AddedFacts
  <2>3. Become(j, w)
    BY <1>1, <2>x, <2>w DEF LinkTo
  <2>4. LinkOK(w)
    BY <2>2 DEF LinkOK
  <2>5. SelStep(v.sel, w.sel)
    BY <2>2, Zenon DEF SelStep
  <2>6. ASSUME NEW k \in Open(traces), w.list = At(k).id
        PROVE  InStep(w, At(k).vu)
    <3>1. k = i
      BY <2>2, <2>6 DEF Registered, TracesOK
    <3> QED  BY <2>2, <3>1
  <2> QED  BY <2>2, <2>3, <2>4, <2>5, <2>6 DEF Rewrites
<1>2. ASSUME Become(j, [v EXCEPT !.list = 0, !.menu = 0])
      PROVE  Rewrites(j)
  <2> PICK w : w = [v EXCEPT !.list = 0, !.menu = 0]
    OBVIOUS
  <2>1. ViewLike(w) /\ w.kind = v.kind /\ w.list = 0 /\ w.sel = v.sel
    BY <1>0 DEF ViewLike
  <2>2. LinkOK(w) /\ SelStep(v.sel, w.sel)
    BY <2>1, Zenon DEF LinkOK, SelStep
  <2>3. \A i \in Open(traces) : w.list # At(i).id
    BY <2>1, WindowFacts
  <2> QED  BY <1>2, <2>1, <2>2, <2>3 DEF Rewrites
<1> QED  BY <1>1, <1>2 DEF Relink

LEMMA FixLineRewrites ==
  ASSUME Registered, NEW j \in Open(views), FixLine(j)
  PROVE  Rewrites(j)
<1> PICK v : v = View(j)
  OBVIOUS
<1>1. PICK node : FixedAt(j, node)
  BY DEF FixLine
<1>x. PICK x : x = [v EXCEPT !.tw = 0, !.list = 0, !.menu = 0]
  OBVIOUS
<1> PICK y : y = Shown(x, node.first)
  OBVIOUS
<1> PICK w : w = Updated(x, node.first, {})
  OBVIOUS
<1>2. ViewLike(x) /\ x.kind = v.kind /\ x.list = 0 /\ x.sel = v.sel
  <2>1. ViewLike(v)
    BY WindowFacts
  <2> QED  BY <1>x, <2>1 DEF ViewLike
<1>3. ViewLike(y) /\ SameLinks(x, y) /\ y.sel = x.sel
  BY <1>2, ShownFacts
<1>4. w = y \/ w = Started(y, stack_pointer, {})
  BY Zenon DEF Updated, Recomputed
<1>5. ViewLike(w) /\ SameLinks(y, w) /\ w.sel = y.sel
  BY <1>3, <1>4, StartedFacts DEF SameLinks
<1>6. w.kind = v.kind /\ w.list = 0 /\ w.sel = v.sel
  BY <1>2, <1>3, <1>5 DEF SameLinks
<1>7. Become(j, w)
  BY <1>1, <1>x DEF FixedAt
<1>8. LinkOK(w) /\ SelStep(v.sel, w.sel)
  BY <1>6, Zenon DEF LinkOK, SelStep
<1>9. \A i \in Open(traces) : w.list # At(i).id
  BY <1>6, WindowFacts
<1> QED  BY <1>5, <1>6, <1>7, <1>8, <1>9 DEF Rewrites

(* An address typed in is evaluated for the window that the view is linked *)
(* to, if it is.                                                           *)
LEMMA AddrEditRewrites ==
  ASSUME Registered, NEW j \in Open(views), AddrEdit(j)
  PROVE  Rewrites(j)
<1> PICK v : v = View(j)
  OBVIOUS
<1>0. ViewLike(v) /\ IsMemory(v)
  BY WindowFacts DEF AddrEdit
<1>1. ASSUME NEW expr \in session.addresses,
             Become(j, Started(v, expr, EvaluatedFor(v, expr)))
      PROVE  Rewrites(j)
  <2> PICK at : at = EvaluatedFor(v, expr)
    OBVIOUS
  <2> PICK w : w = Started(v, expr, at)
    OBVIOUS
  <2>1. /\ ViewLike(w) /\ SameLinks(v, w) /\ w.sel = v.sel
        /\ w.line = v.line /\ w.follows = expr.variable /\ w.known = (at # {})
        /\ expr.variable /\ at # {} => w.start \in at
    BY <1>0, StartedFacts
  <2>2. ASSUME NEW i \in Open(traces), w.list = At(i).id, InStep(v, At(i).vu)
        PROVE  InStep(w, At(i).vu)
    <3>1. v.list = At(i).id /\ v.list # 0
      BY <2>1, <2>2, WindowFacts DEF SameLinks
    <3>2. v.tw = At(i).id /\ v.tw # 0
      BY <3>1 DEF Registered, LinksOK, LinkOK
    <3>3. IndexOf(v.tw, traces.slots) = i
      BY <3>2, IndexOfIs DEF Registered
    <3>4. at = evaluations(At(i).vu, expr)
      BY <3>2, <3>3 DEF EvaluatedFor
    <3>5. expr.variable => expr = stack_pointer
      BY SessionsAssumption DEF Registered
    <3>6. ASSUME w.follows
          PROVE  /\ w.known = (evaluations(At(i).vu, stack_pointer) # {})
                 /\ evaluations(At(i).vu, stack_pointer) # {}
                      => w.start \in evaluations(At(i).vu, stack_pointer)
      BY <2>1, <3>4, <3>5, <3>6
    <3>7. w.line = At(i).vu.log.first
      BY <2>1, <2>2 DEF InStep
    <3> QED  BY <3>6, <3>7 DEF InStep
  <2>3. SelStep(v.sel, w.sel)
    BY <2>1, Zenon DEF SelStep
  <2> QED  BY <1>1, <2>1, <2>2, <2>3, RewriteSame
<1>2. ASSUME Become(j, [v EXCEPT !.follows = FALSE])
      PROVE  Rewrites(j)
  <2> PICK w : w = [v EXCEPT !.follows = FALSE]
    OBVIOUS
  <2>1. /\ ViewLike(w) /\ SameLinks(v, w) /\ w.sel = v.sel
        /\ w.line = v.line /\ w.follows = FALSE
    BY <1>0 DEF ViewLike, SameLinks
  <2>2. \A x : InStep(v, x) => InStep(w, x)
    BY <2>1 DEF InStep
  <2>3. SelStep(v.sel, w.sel)
    BY <2>1, Zenon DEF SelStep
  <2> QED  BY <1>2, <2>1, <2>2, <2>3, RewriteSame
<1> QED  BY <1>1, <1>2 DEF AddrEdit

(* Provenance goes to the last write in the window that tw points to. *)
LEMMA IndexOfOpen ==
  ASSUME TracesOK, NEW id, IndexOf(id, traces.slots) # 0
  PROVE  IndexOf(id, traces.slots) \in Open(traces)
         /\ At(IndexOf(id, traces.slots)).id = id
<1> DEFINE S == {k \in DOMAIN traces.slots :
                   traces.slots[k].kind = "trace" /\ traces.slots[k].id = id}
<1>1. DOMAIN traces.slots = 1 .. Len(traces.slots) /\ Len(traces.slots) \in Nat
  BY SeqFacts DEF TracesOK, Registry
<1>2. S \cup {0} \in SUBSET (0 .. Len(traces.slots)) /\ S \cup {0} # {}
  BY <1>1
<1>3. Max(S \cup {0}) \in S \cup {0}
  BY <1>1, <1>2, MaxIs
<1>4. IndexOf(id, traces.slots) \in S
  BY <1>3 DEF IndexOf
<1> QED  BY <1>4, OpenIs DEF At

LEMMA ProvenanceGoes ==
  ASSUME Registered, NEW j \in Open(views), Provenance(j)
  PROVE  \E i \in Open(traces) : Goes(i)
<1> PICK i : i = IndexOf(View(j).tw, traces.slots)
  OBVIOUS
<1>1. i \in Open(traces)
  BY IndexOfOpen DEF Provenance, Usable, Registered
<1>2. PICK line : GotoPhysline(i, line)
  BY DEF Provenance
<1> QED  BY <1>1, <1>2, PhyslineGoes

LEMMA ViewMoves ==
  ASSUME Registered, NEW j \in Open(views), OnView(j)
  PROVE  Rewrites(j) \/ (\E i \in Open(traces) : Goes(i)) \/ CloseView(j)
  BY RelinkRewrites, FixLineRewrites, ScrollRewrites, AddrEditRewrites,
     SelectInViewRewrites, ReleaseInViewRewrites, ProvenanceGoes DEF OnView

-----------------------------------------------------------------------------
(* What is claimed of every step.                                          *)

Followed ==
  \A i \in Open(traces'), j \in Open(views') :
    views'.slots[j].list = traces'.slots[i].id =>
      \/ InStep(views'.slots[j], traces'.slots[i].vu)
      \/ /\ Following(i, j)
         /\ \/ MenuUnfold(i) \/ ScrollMemory(j)
            \/ /\ traces'.slots[i].vu = At(i).vu
               /\ ~InStep(View(j), At(i).vu)

SelectionsStep ==
  /\ \A i \in Open(traces') :
       \/ traces'.slots[i].sel = NoSelection
       \/ /\ i \in Open(traces)
          /\ DrawnPlacesOK => SelStep(At(i).sel, traces'.slots[i].sel)
  /\ \A j \in Open(views') :
       \/ IsMemory(views'.slots[j]) \/ views'.slots[j].sel = NoSelection
       \/ /\ j \in Open(views) /\ ~IsMemory(View(j))
          /\ SelStep(View(j).sel, views'.slots[j].sel)

Kept == Registered' /\ Followed /\ SelectionsStep

(* The same claims, of the parts of a next state. *)
LinkOKIn(w, reg) ==
  w.list # 0 => \E i \in Open(reg) :
                  reg.slots[i].id = w.list /\ w.tw = w.list /\ w.menu = i

TracesOKIn(reg) ==
  /\ Registry(reg)
  /\ \A i \in Open(reg) : TraceLike(reg.slots[i]) /\ reg.slots[i].id \in Ids
  /\ \A i, k \in Open(reg) : reg.slots[i].id = reg.slots[k].id => i = k

ViewsOKIn(reg, vs) ==
  /\ Registry(vs)
  /\ \A j \in Open(vs) : ViewLike(vs.slots[j]) /\ LinkOKIn(vs.slots[j], reg)
  /\ Open(reg) = {} => Open(vs) = {}

LEMMA InParts ==
  Registered <=> /\ session \in Sessions /\ TracesOKIn(traces)
                 /\ ViewsOKIn(traces, views)
<1>1. \A w : LinkOK(w) <=> LinkOKIn(w, traces)
  BY DEF LinkOK, LinkOKIn, At
<1>2. TracesOK <=> TracesOKIn(traces)
  BY DEF TracesOK, TracesOKIn, At
<1>3. ViewsOK /\ LinksOK <=> ViewsOKIn(traces, views)
  BY <1>1 DEF ViewsOK, LinksOK, ViewsOKIn, View
<1> QED  BY <1>2, <1>3 DEF Registered

LEMMA KeptInParts ==
  ASSUME session' \in Sessions, TracesOKIn(traces'), ViewsOKIn(traces', views'),
         Followed, SelectionsStep
  PROVE  Kept
<1>1. \A w : LinkOK(w)' <=> LinkOKIn(w, traces')
  BY DEF LinkOK, LinkOKIn, At
<1>2. TracesOK'
  BY DEF TracesOK, TracesOKIn, At
<1>3. ASSUME NEW j \in Open(views')
      PROVE  ViewLike(View(j))' /\ LinkOK(View(j))'
  <2> PICK w : w = views'.slots[j]
    OBVIOUS
  <2>1. ViewLike(w) /\ LinkOKIn(w, traces')
    BY DEF ViewsOKIn
  <2>2. View(j)' = w
    BY DEF View
  <2> QED  BY <2>1, <2>2 DEF LinkOK, LinkOKIn, At
<1>4. ViewsOK' /\ LinksOK'
  BY <1>3 DEF ViewsOK, LinksOK, ViewsOKIn
<1> QED  BY <1>2, <1>4 DEF Registered, Kept

-----------------------------------------------------------------------------
(* A step of one trace window. *)

LEMMA TraceStepKeeps ==
  ASSUME Registered, NEW i \in Open(traces), TraceStep(i), NEW T, T = traces'
  PROVE  /\ session' \in Sessions /\ TracesOKIn(T) /\ Open(T) = Open(traces)
         /\ T.slots[i].id = At(i).id
         /\ \A k \in Open(traces) : k # i => T.slots[k] = At(k)
         /\ DrawnPlacesOK => SelStep(At(i).sel, T.slots[i].sel)
<1> PICK s : s = T.slots
  OBVIOUS
<1> PICK x : x = s[i]
  OBVIOUS
<1>1. TraceLike(x) /\ x.id = At(i).id
  BY DEF TraceStep
<1>2. s = [traces.slots EXCEPT ![i] = x] /\ T = [slots |-> s, free |-> traces.free]
  BY DEF TraceStep
<1>3. Registry(traces) /\ traces.slots = [k \in DOMAIN traces.slots |-> traces.slots[k]]
      /\ Open(traces) \subseteq DOMAIN traces.slots
  BY SeqFacts, OpenIs DEF Registered, TracesOK, Registry
<1>4. /\ s = [k \in DOMAIN traces.slots |-> s[k]]
      /\ \A k \in DOMAIN traces.slots : k # i => s[k] = traces.slots[k]
  BY <1>2, <1>3
<1>5. ASSUME NEW k \in Open(traces)
      PROVE  s[k].kind # "none"
  <2>1. CASE k = i
    BY <1>1, <2>1, Kinds
  <2>2. CASE k # i
    <3>1. s[k] = At(k)
      BY <1>3, <1>4, <2>2 DEF At
    <3> QED  BY <3>1, WindowFacts, Kinds
  <2> QED  BY <2>1, <2>2
<1>6. Registry(T) /\ Open(T) = Open(traces)
  BY <1>2, <1>3, <1>4, <1>5, RegistryKept
<1>7. \A k \in Open(traces) : k # i => T.slots[k] = At(k)
  BY <1>3, <1>4 DEF At
<1>8. TracesOKIn(T)
  BY <1>1, <1>6, <1>7 DEF TracesOKIn, Registered, TracesOK
<1>9. session' \in Sessions
  BY DEF TraceStep, Registered
<1>10. DrawnPlacesOK => SelStep(At(i).sel, T.slots[i].sel)
  BY Zenon DEF TraceStep
<1> QED  BY <1>1, <1>6, <1>7, <1>8, <1>9, <1>10

(* Selections of trace windows, when only one window changes. *)
LEMMA TraceSelections ==
  ASSUME Registered, NEW i \in Open(traces), TraceStep(i),
         NEW k \in Open(traces')
  PROVE  k \in Open(traces)
         /\ (DrawnPlacesOK => SelStep(At(k).sel, traces'.slots[k].sel))
<1> PICK T : T = traces'
  OBVIOUS
<1>1. /\ Open(T) = Open(traces)
      /\ \A m \in Open(traces) : m # i => T.slots[m] = At(m)
      /\ DrawnPlacesOK => SelStep(At(i).sel, T.slots[i].sel)
  BY TraceStepKeeps
<1>2. CASE k = i
  BY <1>1, <1>2
<1>3. CASE k # i
  <2>1. T.slots[k].sel = At(k).sel
    BY <1>1, <1>3
  <2> QED  BY <1>1, <2>1, Zenon DEF SelStep
<1> QED  BY <1>2, <1>3

(* Links to windows that stay open. *)
LEMMA LinkStays ==
  ASSUME NEW T, NEW w, LinkOKIn(w, traces),
         \A k \in Open(traces) : At(k).id = w.list =>
                                   k \in Open(T) /\ T.slots[k].id = At(k).id
  PROVE  LinkOKIn(w, T)
  BY DEF LinkOKIn, At

LEMMA GoesKeeps ==
  ASSUME Registered, NEW i \in Open(traces), Goes(i)
  PROVE  Kept
<1> PICK T : T = traces'
  OBVIOUS
<1> PICK V : V = views'
  OBVIOUS
<1> PICK ws : ws = V.slots
  OBVIOUS
<1> PICK id : id = At(i).id
  OBVIOUS
<1>1. /\ session' \in Sessions /\ TracesOKIn(T) /\ Open(T) = Open(traces)
      /\ T.slots[i].id = id
      /\ \A k \in Open(traces) : k # i => T.slots[k] = At(k)
      /\ DrawnPlacesOK => SelStep(At(i).sel, T.slots[i].sel)
  BY TraceStepKeeps DEF Goes
<1>2. V = [slots |-> ws, free |-> views.free] /\ LinksKept(ws, id)
      /\ (Informed(ws, id, T.slots[i].vu) \/ MenuUnfold(i))
  BY DEF Goes
<1>3. \A j \in DOMAIN views.slots : ~Linked(View(j), id) => ws[j] = View(j)
  BY <1>2 DEF LinksKept
<1>4. \A j \in DOMAIN views.slots :
        Linked(View(j), id) => ViewLike(ws[j]) /\ SameLinks(View(j), ws[j])
                               /\ ws[j].sel = View(j).sel
  BY <1>2 DEF LinksKept
<1>5. ASSUME NEW j \in Open(views)
      PROVE  /\ j \in DOMAIN views.slots /\ View(j) # NoWindow
             /\ ViewLike(ws[j]) /\ SameLinks(View(j), ws[j])
             /\ ws[j].sel = View(j).sel
  <2>1. j \in DOMAIN views.slots /\ ViewLike(View(j)) /\ View(j) # NoWindow
    BY WindowFacts, Kinds
  <2> QED  BY <1>3, <1>4, <2>1 DEF SameLinks
<1>6. Registry(views)
  BY DEF Registered, ViewsOK
<1>7. Registry(V) /\ Open(V) = Open(views)
  <2>1. ws = [j \in DOMAIN views.slots |-> ws[j]]
    BY <1>2 DEF LinksKept
  <2>2. \A j \in Open(views) : ws[j].kind # "none"
    BY <1>5, Kinds
  <2>3. ASSUME NEW j \in DOMAIN views.slots \ Open(views)
        PROVE  ws[j] = views.slots[j]
    BY <1>3, WindowFacts DEF Linked, View
  <2> QED  BY <1>2, <1>6, <2>1, <2>2, <2>3, RegistryKept
<1>8. ASSUME NEW j \in Open(views)
      PROVE  LinkOKIn(ws[j], T)
  <2>1. LinkOKIn(View(j), traces)
    BY InParts DEF ViewsOKIn, View
  <2>2. LinkOKIn(View(j), T)
    BY <1>1, <2>1, LinkStays
  <2> QED  BY <1>5, <2>2 DEF LinkOKIn, SameLinks
<1>9. ViewsOKIn(T, V)
  <2>1. Open(T) = {} => Open(V) = {}
    BY <1>1, <1>7
  <2> QED  BY <1>5, <1>7, <1>8, <2>1 DEF ViewsOKIn
<1>10. ASSUME NEW k \in Open(traces), NEW j \in Open(views),
              ws[j].list = T.slots[k].id
       PROVE  \/ InStep(ws[j], T.slots[k].vu)
              \/ /\ Following(k, j)
                 /\ \/ MenuUnfold(k)
                    \/ T.slots[k].vu = At(k).vu /\ ~InStep(View(j), At(k).vu)
  <2>1. View(j).list = ws[j].list
    BY <1>5 DEF SameLinks
  <2>2. CASE k = i
    <3>1. Linked(View(j), id) /\ Following(k, j)
      BY <1>1, <1>5, <1>10, <2>1, <2>2 DEF Linked, Following
    <3> QED  BY <1>2, <1>5, <2>2, <3>1 DEF Informed
  <2>3. CASE k # i
    <3>1. T.slots[k] = At(k) /\ At(k).id # id
      BY <1>1, <2>3 DEF Registered, TracesOK
    <3>2. ~Linked(View(j), id) /\ Following(k, j)
      BY <1>10, <2>1, <3>1 DEF Linked, Following
    <3>3. ws[j] = View(j)
      BY <1>3, <1>5, <3>2
    <3> QED  BY <3>1, <3>2, <3>3
  <2> QED  BY <2>2, <2>3
<1>x. Followed
  BY <1>1, <1>2, <1>7, <1>10 DEF Followed
<1>11. SelectionsStep
  <2>1. \A k \in Open(T) :
          k \in Open(traces) /\ (DrawnPlacesOK => SelStep(At(k).sel, T.slots[k].sel))
    BY TraceSelections DEF Goes
  <2>2. ASSUME NEW j \in Open(V)
        PROVE  \/ IsMemory(ws[j])
               \/ j \in Open(views) /\ ~IsMemory(View(j)) /\ SelStep(View(j).sel, ws[j].sel)
    <3>1. SelStep(View(j).sel, ws[j].sel)
      BY <1>5, <1>7, Zenon DEF SelStep
    <3> QED  BY <1>5, <1>7, <3>1 DEF IsMemory, SameLinks
  <2> QED  BY <2>1, <2>2 DEF SelectionsStep
<1> QED  BY <1>1, <1>9, <1>x, <1>11, KeptInParts

(* Windows keep their addresses and positions. *)
LEMMA PositionsStay ==
  ASSUME Registered, NEW i \in Open(traces), TraceStep(i),
         traces'.slots[i].vu = At(i).vu, NEW T, T = traces'
  PROVE  /\ session' \in Sessions /\ TracesOKIn(T) /\ Open(T) = Open(traces)
         /\ \A k \in Open(traces) : T.slots[k].id = At(k).id
                                    /\ T.slots[k].vu = At(k).vu
<1>1. /\ session' \in Sessions /\ TracesOKIn(T) /\ Open(T) = Open(traces)
      /\ T.slots[i].id = At(i).id
      /\ \A k \in Open(traces) : k # i => T.slots[k] = At(k)
  BY TraceStepKeeps
<1>2. ASSUME NEW k \in Open(traces)
      PROVE  T.slots[k].id = At(k).id /\ T.slots[k].vu = At(k).vu
  <2>1. CASE k = i
    BY <1>1, <2>1
  <2>2. CASE k # i
    BY <1>1, <2>2
  <2> QED  BY <2>1, <2>2
<1> QED  BY <1>1, <1>2

LEMMA StaysKeeps ==
  ASSUME Registered, NEW i \in Open(traces), Stays(i)
  PROVE  Kept
<1> PICK T : T = traces'
  OBVIOUS
<1>1. /\ session' \in Sessions /\ TracesOKIn(T) /\ Open(T) = Open(traces)
      /\ \A k \in Open(traces) : T.slots[k].id = At(k).id
                                 /\ T.slots[k].vu = At(k).vu
  BY PositionsStay DEF Stays
<1>2. views' = views
  BY DEF Stays
<1>3. ASSUME NEW j \in Open(views)
      PROVE  ViewLike(View(j)) /\ LinkOKIn(View(j), T)
  <2>1. ViewLike(View(j)) /\ LinkOKIn(View(j), traces)
    BY InParts DEF ViewsOKIn, View
  <2> QED  BY <1>1, <2>1, LinkStays
<1>4. ViewsOKIn(T, views)
  BY <1>1, <1>3, InParts DEF ViewsOKIn, View
<1>5. Followed
  BY <1>1, <1>2 DEF Followed, Following, View
<1>6. SelectionsStep
  <2>1. \A k \in Open(T) :
          k \in Open(traces) /\ (DrawnPlacesOK => SelStep(At(k).sel, T.slots[k].sel))
    BY TraceSelections DEF Stays
  <2>2. ASSUME NEW j \in Open(views)
        PROVE  SelStep(View(j).sel, View(j).sel)
    BY Zenon DEF SelStep
  <2> QED  BY <1>2, <2>1, <2>2 DEF SelectionsStep, View
<1> QED  BY <1>1, <1>2, <1>4, <1>5, <1>6, KeptInParts

(* A new view, with the others as they were. *)
LEMMA ViewAdded ==
  ASSUME NEW vs, Registry(vs), NEW T, NEW w, ViewLike(w), LinkOKIn(w, T),
         \A j \in Open(vs) : ViewLike(vs.slots[j]) /\ LinkOKIn(vs.slots[j], T),
         Open(T) # {}
  PROVE  LET new == Allocated(vs, w)
         IN /\ ViewsOKIn(T, new)
            /\ \E j : /\ Open(new) = Open(vs) \cup {j} /\ j \notin Open(vs)
                      /\ new.slots[j] = w
                      /\ \A k \in Open(vs) : new.slots[k] = vs.slots[k]
<1>0. w.kind # "none"
  BY Kinds
<1> PICK new : new = Allocated(vs, w)
  OBVIOUS
<1>1. Registry(new)
  BY <1>0, AllocatedFacts
<1>2. PICK j : /\ j \notin Open(vs) /\ Open(new) = Open(vs) \cup {j}
               /\ new.slots[j] = w
               /\ \A k \in Open(vs) : new.slots[k] = vs.slots[k]
  BY <1>0, AllocatedFacts
<1>3. ASSUME NEW k \in Open(new)
      PROVE  ViewLike(new.slots[k]) /\ LinkOKIn(new.slots[k], T)
  <2>1. CASE k = j
    BY <1>2, <2>1
  <2>2. CASE k # j
    BY <1>2, <2>2
  <2> QED  BY <2>1, <2>2
<1>4. ViewsOKIn(T, new)
  BY <1>1, <1>3 DEF ViewsOKIn
<1> QED  BY <1>2, <1>4

LEMMA AddsKeeps ==
  ASSUME Registered, NEW i \in Open(traces), Adds(i)
  PROVE  Kept
<1> PICK T : T = traces'
  OBVIOUS
<1> PICK V : V = views'
  OBVIOUS
<1>1. /\ session' \in Sessions /\ TracesOKIn(T) /\ Open(T) = Open(traces)
      /\ \A k \in Open(traces) : T.slots[k].id = At(k).id
                                 /\ T.slots[k].vu = At(k).vu
  BY PositionsStay DEF Adds
<1>2. PICK w : /\ ViewLike(w) /\ w.list = At(i).id /\ w.tw = At(i).id /\ w.menu = i
               /\ w.sel = NoSelection /\ InStep(w, At(i).vu)
               /\ V = Allocated(views, w)
  BY DEF Adds
<1>3. ASSUME NEW j \in Open(views)
      PROVE  ViewLike(views.slots[j]) /\ LinkOKIn(views.slots[j], T)
  <2>1. ViewLike(View(j)) /\ LinkOKIn(View(j), traces)
    BY InParts DEF ViewsOKIn, View
  <2>2. LinkOKIn(View(j), T)
    BY <1>1, <2>1, LinkStays
  <2> QED  BY <2>1, <2>2 DEF View
<1>4. LinkOKIn(w, T)
  BY <1>1, <1>2 DEF LinkOKIn
<1>5. Registry(views)
  BY DEF Registered, ViewsOK
<1>6. /\ ViewsOKIn(T, V)
      /\ \E j : /\ Open(V) = Open(views) \cup {j} /\ j \notin Open(views)
                /\ V.slots[j] = w
                /\ \A k \in Open(views) : V.slots[k] = views.slots[k]
  BY <1>1, <1>2, <1>3, <1>4, <1>5, ViewAdded
<1>7. PICK j : /\ Open(V) = Open(views) \cup {j} /\ j \notin Open(views)
               /\ V.slots[j] = w
               /\ \A k \in Open(views) : V.slots[k] = views.slots[k]
  BY <1>6
<1>8. ASSUME NEW k \in Open(traces), NEW m \in Open(V),
             V.slots[m].list = T.slots[k].id
      PROVE  \/ InStep(V.slots[m], T.slots[k].vu)
             \/ /\ Following(k, m) /\ T.slots[k].vu = At(k).vu
                /\ ~InStep(View(m), At(k).vu)
  <2>1. CASE m = j
    <3>1. k = i
      BY <1>1, <1>2, <1>7, <1>8, <2>1 DEF Registered, TracesOK
    <3> QED  BY <1>1, <1>2, <1>7, <2>1, <3>1
  <2>2. CASE m # j
    <3>1. m \in Open(views) /\ V.slots[m] = View(m)
      BY <1>7, <2>2 DEF View
    <3>2. Following(k, m) /\ T.slots[k].vu = At(k).vu
      BY <1>1, <1>8, <3>1 DEF Following
    <3> QED  BY <3>1, <3>2
  <2> QED  BY <2>1, <2>2
<1>f. Followed
  BY <1>1, <1>8 DEF Followed
<1>9. SelectionsStep
  <2>1. \A k \in Open(T) :
          k \in Open(traces) /\ (DrawnPlacesOK => SelStep(At(k).sel, T.slots[k].sel))
    BY TraceSelections DEF Adds
  <2>2. ASSUME NEW m \in Open(V)
        PROVE  \/ V.slots[m].sel = NoSelection \/ IsMemory(V.slots[m])
               \/ m \in Open(views) /\ ~IsMemory(View(m))
                  /\ SelStep(View(m).sel, V.slots[m].sel)
    <3>1. CASE m = j
      BY <1>2, <1>7, <3>1
    <3>2. CASE m # j
      <4>1. m \in Open(views) /\ V.slots[m] = View(m)
        BY <1>7, <3>2 DEF View
      <4>2. SelStep(View(m).sel, V.slots[m].sel)
        BY <4>1, Zenon DEF SelStep
      <4> QED  BY <4>1, <4>2
    <3> QED  BY <3>1, <3>2
  <2> QED  BY <2>1, <2>2 DEF SelectionsStep
<1> QED  BY <1>1, <1>6, <1>f, <1>9, KeptInParts

-----------------------------------------------------------------------------
(* Steps of views, and windows that open and close. *)

(* Selections of views that keep them, those that are open still. *)
LEMMA SelectionSame ==
  ASSUME NEW s
  PROVE  SelStep(s, s)
  BY Zenon DEF SelStep

LEMMA RewritesKeeps ==
  ASSUME Registered, NEW j \in Open(views), Rewrites(j)
  PROVE  Kept
<1> PICK V : V = views'
  OBVIOUS
<1>1. PICK w : /\ Become(j, w) /\ ViewLike(w) /\ w.kind = View(j).kind /\ LinkOK(w)
               /\ ~IsMemory(View(j)) => SelStep(View(j).sel, w.sel)
               /\ \A i \in Open(traces) :
                    w.list = At(i).id =>
                      \/ InStep(w, At(i).vu)
                      \/ /\ View(j).list = w.list
                         /\ ScrollMemory(j) \/ ~InStep(View(j), At(i).vu)
  BY DEF Rewrites
<1>w. PICK ws : ws = [views.slots EXCEPT ![j] = w]
  OBVIOUS
<1>2. session' = session /\ traces' = traces
      /\ views' = [views EXCEPT !.slots[j] = w]
  BY <1>1 DEF Become
<1>3. /\ Registry(views) /\ j \in DOMAIN views.slots
      /\ views.slots = [k \in DOMAIN views.slots |-> views.slots[k]]
      /\ views = [slots |-> views.slots, free |-> views.free]
  BY SeqFacts, WindowFacts DEF Registered, ViewsOK, Registry
<1>4. V = [slots |-> ws, free |-> views.free]
  BY <1>w, <1>2, <1>3
<1>5. /\ ws = [k \in DOMAIN views.slots |-> ws[k]]
      /\ ws[j] = w /\ \A k \in DOMAIN views.slots : k # j => ws[k] = views.slots[k]
  BY <1>w, <1>3
<1>6. \A k \in Open(views) : ws[k].kind # "none"
  <2>1. w.kind # "none"
    BY <1>1, Kinds
  <2> QED  BY <1>5, <2>1, OpenIs
<1>7. Registry(V) /\ Open(V) = Open(views)
  <2>1. \A k \in DOMAIN views.slots \ Open(views) : ws[k] = views.slots[k]
    BY <1>5
  <2>2. ws = [k \in DOMAIN views.slots |-> ws[k]]
    BY <1>5
  <2>3. Registry(views)
    BY <1>3
  <2> QED  BY <1>4, <1>6, <2>1, <2>2, <2>3, RegistryKept
<1>8. ViewsOKIn(traces, V)
  <2>1. ASSUME NEW k \in Open(views)
        PROVE  ViewLike(ws[k]) /\ LinkOKIn(ws[k], traces)
    <3>1. CASE k = j
      <4>1. LinkOKIn(w, traces)
        BY <1>1 DEF LinkOK, LinkOKIn, At
      <4> QED  BY <1>1, <1>5, <3>1, <4>1
    <3>2. CASE k # j
      <4>1. ws[k] = views.slots[k]
        BY <1>5, <3>2, OpenIs
      <4>2. ViewLike(views.slots[k]) /\ LinkOKIn(views.slots[k], traces)
        BY InParts DEF ViewsOKIn
      <4> QED  BY <4>1, <4>2
    <3> QED  BY <3>1, <3>2
  <2>2. Open(traces) = {} => Open(V) = {}
    BY <1>7, InParts DEF ViewsOKIn
  <2> QED  BY <1>4, <1>7, <2>1, <2>2 DEF ViewsOKIn
<1>9. ASSUME NEW k \in Open(traces), NEW m \in Open(views), ws[m].list = At(k).id
      PROVE  \/ InStep(ws[m], At(k).vu)
             \/ /\ Following(k, m)
                /\ ScrollMemory(m) \/ ~InStep(View(m), At(k).vu)
  <2>1. CASE m = j
    <3>1. w.list = At(k).id
      BY <1>5, <1>9, <2>1
    <3>2. \/ InStep(w, At(k).vu)
          \/ View(j).list = w.list /\ (ScrollMemory(j) \/ ~InStep(View(j), At(k).vu))
      BY <1>1, <3>1
    <3> QED  BY <1>5, <2>1, <3>1, <3>2 DEF Following
  <2>2. CASE m # j
    <3>1. ws[m] = View(m)
      BY <1>5, <2>2, OpenIs DEF View
    <3> QED  BY <1>9, <3>1 DEF Following
  <2> QED  BY <2>1, <2>2
<1>f. Followed
  <2>1. ASSUME NEW k \in Open(traces'), NEW m \in Open(V),
               V.slots[m].list = traces'.slots[k].id
        PROVE  \/ InStep(V.slots[m], traces'.slots[k].vu)
               \/ /\ Following(k, m)
                  /\ \/ ScrollMemory(m)
                     \/ traces'.slots[k].vu = At(k).vu /\ ~InStep(View(m), At(k).vu)
    <3>1. k \in Open(traces) /\ traces'.slots[k] = At(k)
      BY <1>2 DEF At
    <3>2. m \in Open(views) /\ V.slots[m] = ws[m]
      BY <1>4, <1>7
    <3> QED  BY <1>9, <2>1, <3>1, <3>2
  <2> QED  BY <2>1 DEF Followed
<1>10. SelectionsStep
  <2>1. ASSUME NEW k \in Open(traces)
        PROVE  SelStep(At(k).sel, At(k).sel)
    BY SelectionSame
  <2>2. ASSUME NEW m \in Open(V)
        PROVE  \/ IsMemory(V.slots[m])
               \/ m \in Open(views) /\ ~IsMemory(View(m))
                  /\ SelStep(View(m).sel, V.slots[m].sel)
    <3>1. CASE m = j
      <4>1. V.slots[m] = w
        BY <1>4, <1>5, <3>1
      <4> QED  BY <1>1, <3>1, <4>1 DEF IsMemory
    <3>2. CASE m # j
      <4>1. m \in Open(views) /\ m \in DOMAIN views.slots
        BY <1>7, WindowFacts
      <4>2. V.slots[m] = View(m)
        BY <1>4, <1>5, <3>2, <4>1 DEF View
      <4> QED  BY <4>1, <4>2, SelectionSame
    <3> QED  BY <3>1, <3>2
  <2> QED  BY <1>2, <2>1, <2>2 DEF SelectionsStep, At
<1>11. session' \in Sessions /\ TracesOKIn(traces)
  BY <1>2, InParts
<1> QED  BY <1>2, <1>8, <1>f, <1>10, <1>11, KeptInParts

LEMMA CloseViewKeeps ==
  ASSUME Registered, NEW j \in Open(views), CloseView(j)
  PROVE  Kept
<1> PICK V : V = views'
  OBVIOUS
<1>1. session' = session /\ traces' = traces /\ V = Freed(views, {j})
  BY DEF CloseView
<1>2. Registry(views)
  BY DEF Registered, ViewsOK
<1>3. /\ Registry(V) /\ Open(V) = Open(views) \ {j}
      /\ \A k \in Open(V) : V.slots[k] = views.slots[k]
  BY <1>1, <1>2, FreedFacts
<1>4. session' \in Sessions /\ TracesOKIn(traces) /\ ViewsOKIn(traces, views)
  BY <1>1, InParts
<1>5. ViewsOKIn(traces, V)
  BY <1>3, <1>4 DEF ViewsOKIn
<1>6. Followed
  BY <1>1, <1>3 DEF Followed, Following, At, View
<1>7. SelectionsStep
  BY <1>1, <1>3, SelectionSame DEF SelectionsStep, At, View
<1> QED  BY <1>1, <1>4, <1>5, <1>6, <1>7, KeptInParts

(* The menus of all views are rewritten when trace windows come and go.    *)
Linkable(w, reg) ==
  w.list # 0 => w.tw = w.list /\ \E i \in Open(reg) : reg.slots[i].id = w.list

MenuSet(w, x, reg) ==
  /\ ViewLike(x) /\ LinkOKIn(x, reg) /\ x.kind = w.kind
  /\ x.list = w.list /\ x.sel = w.sel
  /\ \A v : InStep(w, v) => InStep(x, v)

LEMMA MenusFacts ==
  ASSUME NEW vs, Registry(vs), \A j \in Open(vs) : ViewLike(vs.slots[j]),
         NEW T, TracesOKIn(T), NEW new,
         new = [slots |-> WithMenus(vs.slots, T.slots), free |-> vs.free],
         \A j \in Open(vs) : Linkable(vs.slots[j], T)
  PROVE  /\ Registry(new) /\ Open(new) = Open(vs)
         /\ \A j \in Open(vs) : MenuSet(vs.slots[j], new.slots[j], T)
<1>w. PICK ws : ws = WithMenus(vs.slots, T.slots)
  OBVIOUS
<1>1. new = [slots |-> ws, free |-> vs.free] /\ new.slots = ws
  BY <1>w
<1>2. ws = [j \in DOMAIN vs.slots |-> WithMenu(vs.slots[j], T.slots)]
  BY <1>w DEF WithMenus
<1>3. ASSUME NEW j \in DOMAIN vs.slots, j \notin Open(vs)
      PROVE  ws[j] = vs.slots[j]
  BY <1>2, <1>3 DEF Registry, WithMenu
<1>4. ASSUME NEW j \in Open(vs)
      PROVE  MenuSet(vs.slots[j], ws[j], T) /\ ws[j].kind # "none"
  <2>w. PICK w : w = vs.slots[j]
    OBVIOUS
  <2>x. PICK x : x = ws[j]
    OBVIOUS
  <2>1. ViewLike(w) /\ w # NoWindow
    BY <2>w, Kinds
  <2>2. x = [w EXCEPT !.menu = IndexOf(w.tw, T.slots)]
    BY <1>2, <2>w, <2>x, <2>1, OpenIs DEF WithMenu
  <2>3. /\ ViewLike(x) /\ x.kind = w.kind /\ x.tw = w.tw /\ x.list = w.list
        /\ x.menu = IndexOf(w.tw, T.slots) /\ x.sel = w.sel
        /\ \A v : InStep(w, v) => InStep(x, v)
    BY <2>1, <2>2, MenuFacts
  <2>4. ASSUME x.list # 0
        PROVE  \E i \in Open(T) : T.slots[i].id = x.list /\ x.tw = x.list /\ x.menu = i
    <3>1. PICK i \in Open(T) : T.slots[i].id = w.list /\ w.tw = w.list
      BY <2>w, <2>3, <2>4 DEF Linkable
    <3>2. IndexOf(T.slots[i].id, T.slots) = i
      BY IndexOfIn, Kinds DEF TracesOKIn
    <3> QED  BY <2>3, <3>1, <3>2
  <2>5. LinkOKIn(x, T)
    BY <2>4 DEF LinkOKIn
  <2>6. MenuSet(w, x, T) /\ x.kind # "none"
    BY <2>3, <2>5, Kinds DEF MenuSet
  <2> QED  BY <2>w, <2>x, <2>6
<1>5. \A j \in Open(vs) : ws[j].kind # "none"
  BY <1>4
<1>6. ws = [j \in DOMAIN vs.slots |-> ws[j]]
  BY <1>2
<1>7. Registry(new) /\ Open(new) = Open(vs)
  <2>1. \A j \in DOMAIN vs.slots \ Open(vs) : ws[j] = vs.slots[j]
    BY <1>3
  <2>2. new = [slots |-> ws, free |-> vs.free]
    BY <1>1
  <2>3. Registry(vs)
    OBVIOUS
  <2> QED  BY <1>5, <1>6, <2>1, <2>2, <2>3, SlotsKept
<1> QED  BY <1>1, <1>4, <1>7

LEMMA NoWindowsFacts == Registry(NoWindows) /\ Open(NoWindows) = {}
<1>1. IsSeq(<<>>) /\ DOMAIN <<>> = {}
  BY DEF IsSeq
<1>2. NoWindows = [slots |-> <<>>, free |-> {}]
  BY DEF NoWindows
<1>3. NoWindows.slots = <<>> /\ NoWindows.free = {}
  BY <1>2
<1>4. Open(NoWindows) = {}
  BY <1>1, <1>3 DEF Open
<1> QED  BY <1>1, <1>2, <1>3, <1>4 DEF Registry, RegistryExact

LEMMA CloseTraceKeeps ==
  ASSUME Registered, NEW i \in Open(traces), CloseTrace(i)
  PROVE  Kept
<1> PICK T : T = traces'
  OBVIOUS
<1> PICK V : V = views'
  OBVIOUS
<1>r. PICK rest : rest = Freed(views, ViewsOf(i))
  OBVIOUS
<1>1. /\ session' = session /\ T = Freed(traces, {i})
      /\ V = IF T.slots = <<>> THEN NoWindows
             ELSE [rest EXCEPT !.slots = WithMenus(@, T.slots)]
  BY <1>r DEF CloseTrace, ClosedWith
<1>2. Registry(traces) /\ Registry(views)
  BY DEF Registered, TracesOK, ViewsOK
<1>3. /\ Registry(T) /\ Open(T) = Open(traces) \ {i}
      /\ \A k \in Open(T) : T.slots[k] = At(k)
      /\ Open(T) = {} => T.slots = <<>>
  <2>1. {i} \in SUBSET Open(traces)
    OBVIOUS
  <2>2. /\ Registry(T) /\ Open(T) = Open(traces) \ {i}
        /\ \A k \in Open(T) : T.slots[k] = traces.slots[k]
        /\ Open(T) = {} => T.slots = <<>>
    BY <1>1, <1>2, <2>1, FreedFacts
  <2> QED  BY <2>2 DEF At
<1>4. /\ Registry(rest) /\ Open(rest) = Open(views) \ ViewsOf(i)
      /\ \A j \in Open(rest) : rest.slots[j] = View(j)
  <2>1. ViewsOf(i) \in SUBSET Open(views)
    BY DEF ViewsOf
  <2>2. /\ Registry(rest) /\ Open(rest) = Open(views) \ ViewsOf(i)
        /\ \A j \in Open(rest) : rest.slots[j] = views.slots[j]
    BY <1>r, <1>2, <2>1, FreedFacts
  <2> QED  BY <2>2 DEF View
<1>5. session' \in Sessions /\ TracesOKIn(T)
  <2>1. session \in Sessions /\ TracesOKIn(traces)
    BY InParts
  <2>2. \A k \in Open(T) : k \in Open(traces) /\ T.slots[k] = traces.slots[k]
    BY <1>3 DEF At
  <2> QED  BY <1>1, <1>3, <2>1, <2>2 DEF TracesOKIn
<1>6. ASSUME NEW j \in Open(rest)
      PROVE  /\ j \in Open(views) /\ ViewLike(rest.slots[j])
             /\ Linkable(rest.slots[j], T)
  <2>1. j \in Open(views) /\ View(j).list # At(i).id /\ rest.slots[j] = View(j)
    BY <1>4 DEF ViewsOf
  <2>2. ViewLike(View(j)) /\ LinkOKIn(View(j), traces)
    BY <2>1, InParts DEF ViewsOKIn, View
  <2>3. ASSUME View(j).list # 0
        PROVE  /\ View(j).tw = View(j).list
               /\ \E k \in Open(T) : T.slots[k].id = View(j).list
    <3>1. PICK k \in Open(traces) : At(k).id = View(j).list /\ View(j).tw = View(j).list
      BY <2>2, <2>3 DEF LinkOKIn, At
    <3>2. k \in Open(T) /\ T.slots[k] = At(k)
      BY <1>3, <2>1, <3>1
    <3> QED  BY <3>1, <3>2
  <2> QED  BY <2>1, <2>2, <2>3 DEF Linkable
<1>7. CASE T.slots = <<>>
  <2>1. V = NoWindows
    BY <1>1, <1>7
  <2>2. ViewsOKIn(T, V) /\ Open(V) = {}
    BY <2>1, NoWindowsFacts DEF ViewsOKIn
  <2>3. Followed
    BY <2>2 DEF Followed
  <2>4. SelectionsStep
    BY <1>3, <2>2, SelectionSame DEF SelectionsStep
  <2> QED  BY <1>5, <2>2, <2>3, <2>4, KeptInParts
<1>8. CASE T.slots # <<>>
  <2>1. V = [slots |-> WithMenus(rest.slots, T.slots), free |-> rest.free]
    <3>1. rest = [slots |-> rest.slots, free |-> rest.free]
      BY <1>4 DEF Registry
    <3> QED  BY <1>1, <1>8, <3>1
  <2>2. /\ Registry(V) /\ Open(V) = Open(rest)
        /\ \A j \in Open(rest) : MenuSet(rest.slots[j], V.slots[j], T)
    <3>1. Registry(rest) /\ TracesOKIn(T)
      BY <1>4, <1>5
    <3> QED  BY <1>6, <2>1, <3>1, MenusFacts
  <2>3. ASSUME NEW j \in Open(V)
        PROVE  /\ j \in Open(views) /\ ViewLike(V.slots[j]) /\ LinkOKIn(V.slots[j], T)
               /\ V.slots[j].kind = View(j).kind /\ V.slots[j].list = View(j).list
               /\ V.slots[j].sel = View(j).sel
               /\ \A v : InStep(View(j), v) => InStep(V.slots[j], v)
    BY <1>4, <1>6, <2>2 DEF MenuSet
  <2>4. ViewsOKIn(T, V)
    BY <1>3, <1>8, <2>2, <2>3 DEF ViewsOKIn
  <2>5. Followed
    <3>1. ASSUME NEW k \in Open(T), NEW j \in Open(V), V.slots[j].list = T.slots[k].id
          PROVE  \/ InStep(V.slots[j], T.slots[k].vu)
                 \/ /\ Following(k, j) /\ T.slots[k].vu = At(k).vu
                    /\ ~InStep(View(j), At(k).vu)
      BY <1>3, <2>3, <3>1 DEF Following
    <3> QED  BY <3>1 DEF Followed
  <2>6. SelectionsStep
    <3>1. ASSUME NEW j \in Open(V)
          PROVE  \/ IsMemory(V.slots[j])
                 \/ j \in Open(views) /\ ~IsMemory(View(j))
                    /\ SelStep(View(j).sel, V.slots[j].sel)
      BY <2>3, SelectionSame DEF IsMemory
    <3> QED  BY <1>3, <3>1, SelectionSame DEF SelectionsStep
  <2> QED  BY <1>5, <2>4, <2>5, <2>6, KeptInParts
<1> QED  BY <1>7, <1>8

LEMMA TraceWindowFacts ==
  ASSUME NEW id
  PROVE  LET w == TraceWindow(id)
         IN TraceLike(w) /\ w.id = id /\ w.sel = NoSelection
<1>v. PICK v : v = Opening(new_view(ix))
  OBVIOUS
<1>d. PICK drawn : drawn = NotDrawn
  OBVIOUS
<1>s. PICK sel : sel = NoSelection
  OBVIOUS
<1>w. PICK w : w = [kind |-> "trace", id |-> id, vu |-> v, wintop |-> 0,
                    drawn |-> drawn, prompt |-> FALSE, sel |-> sel, row |-> 0]
  OBVIOUS
<1>1. TraceLike(w) /\ w.id = id /\ w.sel = sel
  BY <1>w DEF TraceLike
<1>2. TraceWindow(id) = w
  BY <1>v, <1>d, <1>s, <1>w DEF TraceWindow
<1> QED  BY <1>s, <1>1, <1>2

(* The core registers that a trace window opens with. *)
Core(id, v, i) ==
  [Updated(SubsidiaryView("core", id), v.log.first, {}) EXCEPT !.menu = i]

LEMMA CoreFacts ==
  ASSUME NEW id, NEW v, NEW i
  PROVE  LET w == Core(id, v, i)
         IN /\ ViewLike(w) /\ w.tw = id /\ w.list = id /\ w.menu = i
            /\ w.sel = NoSelection /\ InStep(w, v)
<1>x. PICK x : x = SubsidiaryView("core", id)
  OBVIOUS
<1>1. ViewLike(x) /\ x.kind = "core" /\ x.tw = id /\ x.list = id
      /\ x.sel = NoSelection
  BY <1>x, SubsidiaryFacts DEF RegisterKinds
<1>y. PICK y : y = Shown(x, v.log.first)
  OBVIOUS
<1>2. ViewLike(y) /\ SameLinks(x, y) /\ y.sel = x.sel /\ y.line = v.log.first
  BY <1>1, <1>y, ShownFacts
<1>3. y.kind = "core" /\ y.tw = id /\ y.list = id /\ y.sel = NoSelection
  BY <1>1, <1>2 DEF SameLinks
<1>4. ~IsMemory(y) /\ InStep(y, v)
  BY <1>2, <1>3 DEF IsMemory, InStep
<1>5. Updated(x, v.log.first, {}) = y
  BY <1>y, <1>4 DEF Updated, Recomputed
<1>6. LET w == [y EXCEPT !.menu = i]
      IN /\ ViewLike(w) /\ w.tw = id /\ w.list = id /\ w.menu = i
         /\ w.sel = NoSelection /\ InStep(w, v)
  BY <1>2, <1>3, <1>4, MenuFacts
<1> QED  BY <1>x, <1>5, <1>6 DEF Core

LEMMA NewTraceKeeps ==
  ASSUME Registered, NewTrace
  PROVE  Kept
<1> PICK T : T = traces'
  OBVIOUS
<1> PICK V : V = views'
  OBVIOUS
<1>1. PICK id \in Ids \ {At(i).id : i \in Open(traces)} :
        OpenedIn(id, Allocated(traces, TraceWindow(id)))
  BY DEF NewTrace
<1>o. PICK others : others = [views EXCEPT !.slots = WithMenus(@, T.slots)]
  OBVIOUS
<1>2. T = Allocated(traces, TraceWindow(id))
  BY <1>1 DEF OpenedIn
<1>n. PICK n : n = IndexOf(id, T.slots)
  OBVIOUS
<1>w. PICK w : w = [Updated(SubsidiaryView("core", id), T.slots[n].vu.log.first, {})
                      EXCEPT !.menu = n]
  OBVIOUS
<1>3. V = Allocated(others, w)
  BY <1>1, <1>2, <1>o, <1>n, <1>w DEF OpenedIn
<1>t. PICK t : t = TraceWindow(id)
  OBVIOUS
<1>4. TraceLike(t) /\ t.id = id /\ t.sel = NoSelection /\ t.kind # "none"
  BY <1>t, TraceWindowFacts, Kinds
<1>5. Registry(traces) /\ Registry(views) /\ TracesOKIn(traces) /\ ViewsOKIn(traces, views)
  BY InParts DEF Registered, TracesOK, ViewsOK
<1>6. Registry(T)
  BY <1>2, <1>t, <1>4, <1>5, AllocatedFacts
<1>7. PICK i : /\ i \notin Open(traces) /\ Open(T) = Open(traces) \cup {i}
               /\ T.slots[i] = t
               /\ \A k \in Open(traces) : T.slots[k] = traces.slots[k]
  BY <1>2, <1>t, <1>4, <1>5, AllocatedFacts
<1>8. ASSUME NEW k \in Open(traces)
      PROVE  k # i /\ T.slots[k] = At(k) /\ At(k).id # id
  BY <1>1, <1>7 DEF At
<1>9. TracesOKIn(T)
  <2>1. ASSUME NEW k \in Open(T)
        PROVE  TraceLike(T.slots[k]) /\ T.slots[k].id \in Ids
    <3>1. CASE k = i
      BY <1>1, <1>4, <1>7, <3>1
    <3>2. CASE k # i
      BY <1>5, <1>7, <3>2 DEF TracesOKIn
    <3> QED  BY <3>1, <3>2
  <2>2. ASSUME NEW k \in Open(T), NEW m \in Open(T), T.slots[k].id = T.slots[m].id
        PROVE  k = m
    <3>1. CASE k = i \/ m = i
      BY <1>4, <1>7, <1>8, <2>2, <3>1
    <3>2. CASE k # i /\ m # i
      BY <1>5, <1>7, <2>2, <3>2 DEF TracesOKIn
    <3> QED  BY <3>1, <3>2
  <2> QED  BY <1>6, <2>1, <2>2 DEF TracesOKIn
<1>10. n = i
  <2>1. T.slots[i].kind = "trace" /\ i \in Open(T)
    BY <1>4, <1>7, Kinds
  <2>2. \A k \in Open(T) : T.slots[k].id = T.slots[i].id => k = i
    BY <1>4, <1>7, <1>8
  <2>3. IndexOf(T.slots[i].id, T.slots) = i
    BY <1>6, <2>1, <2>2, IndexOfIn
  <2> QED  BY <1>n, <1>4, <1>7, <2>3
<1>11. /\ ViewLike(w) /\ w.tw = id /\ w.list = id /\ w.menu = i
       /\ w.sel = NoSelection /\ InStep(w, t.vu)
  <2>1. w = Core(id, t.vu, i)
    BY <1>w, <1>7, <1>10 DEF Core
  <2> QED  BY <2>1, CoreFacts
<1>12. LinkOKIn(w, T)
  BY <1>4, <1>7, <1>11 DEF LinkOKIn
<1>13. ASSUME NEW j \in Open(views)
       PROVE  /\ ViewLike(views.slots[j]) /\ Linkable(views.slots[j], T)
              /\ views.slots[j].list # id
  <2>1. ViewLike(View(j)) /\ LinkOKIn(View(j), traces)
    BY <1>5 DEF ViewsOKIn, View
  <2>2. ASSUME View(j).list # 0
        PROVE  /\ View(j).tw = View(j).list /\ View(j).list # id
               /\ \E k \in Open(T) : T.slots[k].id = View(j).list
    <3>1. PICK k \in Open(traces) : At(k).id = View(j).list /\ View(j).tw = View(j).list
      BY <2>1, <2>2 DEF LinkOKIn, At
    <3>2. k \in Open(T) /\ T.slots[k] = At(k) /\ At(k).id # id
      BY <1>7, <1>8
    <3> QED  BY <3>1, <3>2
  <2>3. id # 0
    BY <1>1, WindowsAssumption
  <2> QED  BY <2>1, <2>2, <2>3 DEF Linkable, View
<1>14. /\ Registry(others) /\ Open(others) = Open(views)
       /\ \A j \in Open(views) : MenuSet(views.slots[j], others.slots[j], T)
  <2>1. others = [slots |-> WithMenus(views.slots, T.slots), free |-> views.free]
    <3>1. views = [slots |-> views.slots, free |-> views.free]
      BY <1>5 DEF Registry
    <3> QED  BY <1>o, <3>1
  <2>2. \A j \in Open(views) : ViewLike(views.slots[j]) /\ Linkable(views.slots[j], T)
    BY <1>13
  <2> QED  BY <1>5, <1>9, <2>1, <2>2, MenusFacts
<1>15. /\ ViewsOKIn(T, V)
       /\ \E j : /\ Open(V) = Open(others) \cup {j} /\ j \notin Open(others)
                 /\ V.slots[j] = w
                 /\ \A k \in Open(others) : V.slots[k] = others.slots[k]
  <2>1. Open(T) # {}
    BY <1>7
  <2>2. \A j \in Open(others) :
          ViewLike(others.slots[j]) /\ LinkOKIn(others.slots[j], T)
    BY <1>14 DEF MenuSet
  <2> QED  BY <1>3, <1>11, <1>12, <1>14, <2>1, <2>2, ViewAdded
<1>16. PICK j : /\ Open(V) = Open(views) \cup {j} /\ j \notin Open(views)
                /\ V.slots[j] = w
                /\ \A k \in Open(views) : V.slots[k] = others.slots[k]
  BY <1>14, <1>15
<1>17. ASSUME NEW k \in Open(T), NEW m \in Open(V), V.slots[m].list = T.slots[k].id
       PROVE  \/ InStep(V.slots[m], T.slots[k].vu)
              \/ /\ Following(k, m) /\ T.slots[k].vu = At(k).vu
                 /\ ~InStep(View(m), At(k).vu)
  <2>1. CASE m = j
    <3>1. k = i
      BY <1>7, <1>8, <1>11, <1>16, <1>17, <2>1
    <3> QED  BY <1>7, <1>11, <1>16, <2>1, <3>1
  <2>2. CASE m # j
    <3>1. m \in Open(views) /\ MenuSet(View(m), V.slots[m], T)
      BY <1>14, <1>16, <2>2 DEF View
    <3>2. View(m).list = T.slots[k].id
      BY <1>17, <3>1 DEF MenuSet
    <3>3. k # i
      BY <1>4, <1>7, <1>13, <3>1, <3>2 DEF View
    <3>4. k \in Open(traces) /\ T.slots[k] = At(k)
      BY <1>7, <1>8, <3>3
    <3> QED  BY <3>1, <3>2, <3>4 DEF MenuSet, Following
  <2> QED  BY <2>1, <2>2
<1>f. Followed
  BY <1>17 DEF Followed
<1>18. SelectionsStep
  <2>1. ASSUME NEW k \in Open(T)
        PROVE  \/ T.slots[k].sel = NoSelection
               \/ k \in Open(traces) /\ SelStep(At(k).sel, T.slots[k].sel)
    <3>1. CASE k = i
      BY <1>4, <1>7, <3>1
    <3>2. CASE k # i
      BY <1>7, <1>8, <3>2, SelectionSame
    <3> QED  BY <3>1, <3>2
  <2>2. ASSUME NEW m \in Open(V)
        PROVE  \/ V.slots[m].sel = NoSelection \/ IsMemory(V.slots[m])
               \/ m \in Open(views) /\ ~IsMemory(View(m))
                  /\ SelStep(View(m).sel, V.slots[m].sel)
    <3>1. CASE m = j
      BY <1>11, <1>16, <3>1
    <3>2. CASE m # j
      <4>1. m \in Open(views) /\ MenuSet(views.slots[m], V.slots[m], T)
        BY <1>14, <1>16, <3>2
      <4>2. V.slots[m].kind = View(m).kind /\ V.slots[m].sel = View(m).sel
        BY <4>1 DEF MenuSet, View
      <4> QED  BY <4>1, <4>2, SelectionSame DEF IsMemory
    <3> QED  BY <3>1, <3>2
  <2> QED  BY <2>1, <2>2 DEF SelectionsStep
<1>19. session' \in Sessions
  BY DEF NewTrace, Registered
<1> QED  BY <1>9, <1>15, <1>f, <1>18, <1>19, KeptInParts

-----------------------------------------------------------------------------
(* The theorems about registries and about who follows whom. *)

LEMMA InitRegistered ==
  ASSUME Init
  PROVE  Registered
<1>1. Min(Ids) \in Ids
  BY MinIs, WindowsAssumption
<1>id. PICK id : id = Min(Ids)
  OBVIOUS
<1>t. PICK t : t = TraceWindow(id)
  OBVIOUS
<1>2. traces = Allocated(NoWindows, t)
  BY <1>id, <1>t DEF Init, FirstWindow
<1>3. TraceLike(t) /\ t.id = id /\ t.kind # "none"
  BY <1>t, TraceWindowFacts, Kinds
<1>4. Registry(traces)
  BY <1>2, <1>3, NoWindowsFacts, AllocatedFacts
<1>5. PICK i : Open(traces) = {i} /\ traces.slots[i] = t
  BY <1>2, <1>3, NoWindowsFacts, AllocatedFacts
<1>6. TracesOKIn(traces)
  BY <1>id, <1>1, <1>3, <1>4, <1>5 DEF TracesOKIn
<1>7. i = 1
  <2>1. NoWindows.free = {} /\ NoWindows.slots = <<>>
    BY DEF NoWindows
  <2>2. traces.slots = Append(<<>>, t)
    BY <1>2, <2>1 DEF Allocated, NoWindows
  <2>3. DOMAIN traces.slots = {1}
    BY <2>2
  <2> QED  BY <1>5, <2>3, OpenIs
<1>w. PICK w : w = [Updated(SubsidiaryView("core", id), t.vu.log.first, {})
                      EXCEPT !.menu = 1]
  OBVIOUS
<1>8. ViewLike(w) /\ w.tw = id /\ w.list = id /\ w.menu = 1
  <2>1. w = Core(id, t.vu, 1)
    BY <1>w DEF Core
  <2> QED  BY <2>1, CoreFacts
<1>9. views = Allocated(NoWindows, w)
  BY <1>id, <1>w, <1>5, <1>7 DEF Init, FirstView
<1>10. LinkOKIn(w, traces)
  BY <1>3, <1>5, <1>7, <1>8 DEF LinkOKIn
<1>11. ViewsOKIn(traces, views)
  BY <1>5, <1>8, <1>9, <1>10, NoWindowsFacts, ViewAdded
<1> QED  BY <1>6, <1>11, InParts DEF Init

LEMMA NextKeeps ==
  ASSUME Registered, [Next]_vars
  PROVE  Kept
<1>1. CASE UNCHANGED vars
  <2>1. traces' = traces /\ views' = views /\ session' = session
    BY <1>1 DEF vars
  <2>2. session' \in Sessions /\ TracesOKIn(traces) /\ ViewsOKIn(traces, views)
    BY <2>1, InParts
  <2>3. SelectionsStep
    BY <2>1, SelectionSame DEF SelectionsStep, At, View
  <2>4. Followed
    BY <2>1 DEF Followed, Following, At, View
  <2> QED  BY <2>1, <2>2, <2>3, <2>4, KeptInParts
<1>2. ASSUME NEW i \in Open(traces), OnTraceWindow(i)
      PROVE  Kept
  BY <1>2, TraceMoves, GoesKeeps, StaysKeeps, AddsKeeps, CloseTraceKeeps
<1>3. ASSUME NEW j \in Open(views), OnView(j)
      PROVE  Kept
  BY <1>3, ViewMoves, GoesKeeps, RewritesKeeps, CloseViewKeeps
<1> QED  BY <1>1, <1>2, <1>3, NewTraceKeeps DEF Next

LEMMA RegisteredHolds == Spec => []Registered
<1>1. Init => Registered
  BY InitRegistered
<1>2. Registered /\ [Next]_vars => Registered'
  BY NextKeeps DEF Kept
<1> QED  BY <1>1, <1>2, PTL DEF Spec

LEMMA RegisteredSuffices ==
  ASSUME Registered
  PROVE  WindowsRegistered
<1>1. RegistryExact(traces) /\ RegistryExact(views)
  BY DEF Registered, TracesOK, ViewsOK, Registry
<1>2. ASSUME NEW j \in Open(views), View(j).list # 0
      PROVE  /\ View(j).tw = View(j).list
             /\ View(j).menu = IndexOf(View(j).list, traces.slots)
             /\ View(j).menu # 0
  <2>1. PICK i \in Open(traces) :
          At(i).id = View(j).list /\ View(j).tw = View(j).list /\ View(j).menu = i
    BY <1>2 DEF Registered, LinksOK, LinkOK
  <2>2. IndexOf(At(i).id, traces.slots) = i /\ i # 0
    BY IndexOfIs, WindowFacts DEF Registered
  <2> QED  BY <2>1, <2>2
<1> QED  BY <1>1, <1>2 DEF WindowsRegistered, Registered, TracesOK, LinksOK

(* The registries of trace windows and of views are exact in every state:  *)
(* an index is free just where its slot is empty, the last slot is taken,  *)
(* no two trace windows are at one address, and every view in the list of  *)
(* a trace window points to it and says so in its menu (wx.cpp, TraceWindow *)
(* and SubsidiaryView).                                                    *)
THEOREM WindowsStayRegistered == Spec => []WindowsRegistered
<1>1. Registered => WindowsRegistered
  BY RegisteredSuffices
<1> QED  BY <1>1, RegisteredHolds, PTL

(* After every step each view is in step with the trace window in whose    *)
(* list it is, in line, and in address if it follows the stack pointer:    *)
(* when it joins the list, when the window moves or its folds change, and  *)
(* when it was in step before; but for unfolding from the window's context *)
(* menu and scrolling the view (update_location, update_subviews,          *)
(* add_subview).                                                           *)
THEOREM ViewsAlwaysFollow == Spec => ViewsFollow
<1>1. ASSUME Followed, NEW i \in Open(traces)', NEW j \in Open(views)',
             View(j).list' = At(i).id'
      PROVE  InStep(View(j), At(i).vu)' \/ LeftBehind(i, j)
  BY <1>1 DEF Followed, LeftBehind, At, View
<1>2. Registered /\ [Next]_vars =>
        [\A i \in Open(traces)', j \in Open(views)' :
           View(j).list' = At(i).id' =>
             InStep(View(j), At(i).vu)' \/ LeftBehind(i, j)]_vars
  BY <1>1, NextKeeps DEF Kept
<1> QED  BY <1>2, RegisteredHolds, PTL DEF Spec, ViewsFollow

-----------------------------------------------------------------------------
(* Positions are compared number by number. *)

Before(p, q) ==
  \/ p[1] < q[1]
  \/ p[1] = q[1] /\ p[2] < q[2]
  \/ p[1] = q[1] /\ p[2] = q[2] /\ p[3] < q[3]

LEMMA PlaceFacts ==
  ASSUME NEW p \in Places
  PROVE  /\ p[1] \in Int /\ p[2] \in Int /\ p[3] \in Int
         /\ 0 <= p[3] /\ p[3] <= MaxChar
         /\ \A ch \in 0 .. MaxChar :
              LET q == WithChar(p, ch)
              IN q \in Places /\ q[1] = p[1] /\ q[2] = p[2] /\ q[3] = ch
  BY WordsAssumption DEF Places, WithChar

LEMMA SignIs ==
  ASSUME NEW d, d[1] \in Int, d[2] \in Int, d[3] \in Int
  PROVE  \/ d[1] # 0 /\ SignOf(d) = d[1]
         \/ d[1] = 0 /\ d[2] # 0 /\ SignOf(d) = d[2]
         \/ d[1] = 0 /\ d[2] = 0 /\ SignOf(d) = d[3]
<1> DEFINE S == {k \in 1 .. 3 : d[k] # 0} \cup {3}
<1>1. S \in SUBSET Nat /\ S # {}
  OBVIOUS
<1>2. Min(S) \in S /\ \A k \in S : Min(S) <= k
  BY <1>1, MinIs
<1>3. PICK m : m = Min(S)
  OBVIOUS
<1>4. SignOf(d) = d[m]
  BY <1>3 DEF SignOf
<1>5. m \in {1, 2, 3} /\ (m # 3 => d[m] # 0)
  BY <1>2, <1>3
<1>6. (d[1] # 0 => m <= 1) /\ (d[2] # 0 => m <= 2)
  BY <1>2, <1>3
<1> QED  BY <1>4, <1>5, <1>6

LEMMA PrecedesIs ==
  ASSUME NEW p \in Places, NEW q \in Places
  PROVE  /\ Precedes(p, q) <=> Before(p, q)
         /\ SignOf(Distance(p, q)) <= 0 <=> ~Before(q, p)
         /\ SignOf(Distance(p, q)) > 0 <=> Before(q, p)
<1>d. PICK d : d = Distance(p, q)
  OBVIOUS
<1>1. d[1] = p[1] - q[1] /\ d[2] = p[2] - q[2] /\ d[3] = p[3] - q[3]
  BY <1>d DEF Distance
<1>p. /\ p[1] \in Int /\ p[2] \in Int /\ p[3] \in Int
      /\ q[1] \in Int /\ q[2] \in Int /\ q[3] \in Int
  BY PlaceFacts
<1>2. d[1] \in Int /\ d[2] \in Int /\ d[3] \in Int
  BY <1>1, <1>p
<1>3. \/ d[1] # 0 /\ SignOf(d) = d[1]
      \/ d[1] = 0 /\ d[2] # 0 /\ SignOf(d) = d[2]
      \/ d[1] = 0 /\ d[2] = 0 /\ SignOf(d) = d[3]
  BY <1>2, SignIs
<1>4. Precedes(p, q) <=> SignOf(d) < 0
  BY <1>d DEF Precedes, Compare
<1>5. /\ SignOf(d) < 0 <=> Before(p, q)
      /\ SignOf(d) <= 0 <=> ~Before(q, p)
      /\ SignOf(d) > 0 <=> Before(q, p)
  <2>1. PICK d1, d2, d3 : d1 = d[1] /\ d2 = d[2] /\ d3 = d[3]
    OBVIOUS
  <2>2. PICK p1, p2, p3 : p1 = p[1] /\ p2 = p[2] /\ p3 = p[3]
    OBVIOUS
  <2>3. PICK q1, q2, q3 : q1 = q[1] /\ q2 = q[2] /\ q3 = q[3]
    OBVIOUS
  <2>4. PICK sign : sign = SignOf(d)
    OBVIOUS
  <2>5. /\ d1 = p1 - q1 /\ d2 = p2 - q2 /\ d3 = p3 - q3
        /\ p1 \in Int /\ p2 \in Int /\ p3 \in Int
        /\ q1 \in Int /\ q2 \in Int /\ q3 \in Int
    BY <1>1, <1>p, <2>1, <2>2, <2>3
  <2>6. \/ d1 # 0 /\ sign = d1
        \/ d1 = 0 /\ d2 # 0 /\ sign = d2
        \/ d1 = 0 /\ d2 = 0 /\ sign = d3
    BY <1>3, <2>1, <2>4
  <2>7. /\ Before(p, q) <=> \/ p1 < q1
                            \/ p1 = q1 /\ p2 < q2
                            \/ p1 = q1 /\ p2 = q2 /\ p3 < q3
        /\ Before(q, p) <=> \/ q1 < p1
                            \/ q1 = p1 /\ q2 < p2
                            \/ q1 = p1 /\ q2 = p2 /\ q3 < p3
    BY <2>2, <2>3 DEF Before
  <2>8. /\ sign < 0 <=> Before(p, q)
        /\ sign <= 0 <=> ~Before(q, p)
        /\ sign > 0 <=> Before(q, p)
    BY <2>5, <2>6, <2>7
  <2> QED  BY <2>4, <2>8
<1> QED  BY <1>d, <1>4, <1>5

(* Positions are in a total order. *)
LEMMA BeforeOrder ==
  ASSUME NEW a \in Places, NEW b \in Places, NEW c \in Places
  PROVE  /\ Before(a, b) => ~Before(b, a)
         /\ ~Before(b, a) /\ ~Before(c, b) => ~Before(c, a)
<1>a. PICK a1, a2, a3 : a1 = a[1] /\ a2 = a[2] /\ a3 = a[3]
  OBVIOUS
<1>b. PICK b1, b2, b3 : b1 = b[1] /\ b2 = b[2] /\ b3 = b[3]
  OBVIOUS
<1>c. PICK c1, c2, c3 : c1 = c[1] /\ c2 = c[2] /\ c3 = c[3]
  OBVIOUS
<1>1. /\ a1 \in Int /\ a2 \in Int /\ a3 \in Int
      /\ b1 \in Int /\ b2 \in Int /\ b3 \in Int
      /\ c1 \in Int /\ c2 \in Int /\ c3 \in Int
  BY <1>a, <1>b, <1>c, PlaceFacts
<1>2. /\ Before(a, b) <=> \/ a1 < b1
                          \/ a1 = b1 /\ a2 < b2
                          \/ a1 = b1 /\ a2 = b2 /\ a3 < b3
      /\ Before(b, a) <=> \/ b1 < a1
                          \/ b1 = a1 /\ b2 < a2
                          \/ b1 = a1 /\ b2 = a2 /\ b3 < a3
      /\ Before(c, b) <=> \/ c1 < b1
                          \/ c1 = b1 /\ c2 < b2
                          \/ c1 = b1 /\ c2 = b2 /\ c3 < b3
      /\ Before(c, a) <=> \/ c1 < a1
                          \/ c1 = a1 /\ c2 < a2
                          \/ c1 = a1 /\ c2 = a2 /\ c3 < a3
  BY <1>a, <1>b, <1>c DEF Before
<1> QED  BY <1>1, <1>2

-----------------------------------------------------------------------------
(* Widening to words and lines never loses what was pointed at. *)

LEMMA FirstCharIs ==
  ASSUME NEW drawn, NEW grain, NEW p \in Places
  PROVE  FirstChar(drawn, grain, p) \in 0 .. MaxChar
         /\ FirstChar(drawn, grain, p) <= p[3]
<1>1. CASE grain = "line"
  BY <1>1, PlaceFacts, WordsAssumption DEF FirstChar
<1>2. CASE grain # "line"
  <2> DEFINE S == {CharOf(p)} \cup {w[1] : w \in WordsAt(drawn, p)}
  <2>1. p[3] \in S /\ S \subseteq 0 .. MaxChar
    <3>1. \A w \in WordsAt(drawn, p) : w[1] \in 0 .. MaxChar
      BY WordsAssumption DEF WordsAt
    <3>2. CharOf(p) = p[3] /\ p[3] \in 0 .. MaxChar
      BY PlaceFacts, WordsAssumption DEF CharOf
    <3> QED  BY <3>1, <3>2
  <2>2. FirstChar(drawn, grain, p) = Min(S)
    BY <1>2 DEF FirstChar
  <2> HIDE DEF S
  <2>3. S \in SUBSET Nat /\ S # {}
    BY <2>1, WordsAssumption
  <2>4. Min(S) \in S /\ \A x \in S : Min(S) <= x
    BY <2>3, MinIs
  <2> QED  BY <2>1, <2>2, <2>4
<1> QED  BY <1>1, <1>2

LEMMA LastCharIs ==
  ASSUME NEW drawn, NEW grain, NEW p \in Places
  PROVE  LastChar(drawn, grain, p) \in 0 .. MaxChar
         /\ p[3] <= LastChar(drawn, grain, p)
<1> DEFINE W == IF grain = "line" THEN WordsOfLine(drawn, p) ELSE WordsAt(drawn, p)
           S == {CharOf(p)} \cup {w[2] : w \in W}
<1>1. p[3] \in S /\ S \in SUBSET (0 .. MaxChar) /\ S # {}
  <2>1. \A w \in W : w[2] \in 0 .. MaxChar
    BY WordsAssumption DEF WordsAt, WordsOfLine
  <2>2. CharOf(p) = p[3] /\ p[3] \in 0 .. MaxChar
    BY PlaceFacts, WordsAssumption DEF CharOf
  <2> QED  BY <2>1, <2>2
<1>2. LastChar(drawn, grain, p) = Max(S)
  BY DEF LastChar
<1> HIDE DEF S
<1>3. Max(S) \in S /\ \A x \in S : x <= Max(S)
  BY <1>1, WordsAssumption, MaxIs
<1> QED  BY <1>1, <1>2, <1>3

(* The ends are in the order of the positions given, and hold them.        *)
Holding(ends, p, q) ==
  /\ ends[1] \in Places /\ ends[2] \in Places
  /\ IF Before(q, p)
     THEN /\ ~Before(q, ends[2]) /\ ~Before(ends[1], p) /\ Before(ends[2], ends[1])
     ELSE /\ ~Before(p, ends[1]) /\ ~Before(ends[2], q) /\ ~Before(ends[2], ends[1])

LEMMA WidenedFacts ==
  ASSUME NEW drawn, NEW grain, NEW p \in Places, NEW q \in Places
  PROVE  Holding(Widened(drawn, grain, p, q), p, q)
<1> DEFINE Low(a) == WithChar(a, FirstChar(drawn, grain, a))
           High(a) == WithChar(a, LastChar(drawn, grain, a))
<1>e. PICK ends : ends = Widened(drawn, grain, p, q)
  OBVIOUS
<1>1. ASSUME NEW a \in Places
      PROVE  /\ Low(a) \in Places /\ Low(a)[1] = a[1] /\ Low(a)[2] = a[2]
             /\ Low(a)[3] <= a[3]
             /\ High(a) \in Places /\ High(a)[1] = a[1] /\ High(a)[2] = a[2]
             /\ a[3] <= High(a)[3]
  <2>1. FirstChar(drawn, grain, a) \in 0 .. MaxChar
        /\ FirstChar(drawn, grain, a) <= a[3]
    BY FirstCharIs
  <2>2. LastChar(drawn, grain, a) \in 0 .. MaxChar
        /\ a[3] <= LastChar(drawn, grain, a)
    BY LastCharIs
  <2> QED  BY <2>1, <2>2, PlaceFacts
<1>2. Precedes(q, p) <=> Before(q, p)
  BY PrecedesIs
<1>p. /\ p[1] \in Int /\ p[2] \in Int /\ p[3] \in Int
      /\ q[1] \in Int /\ q[2] \in Int /\ q[3] \in Int
  BY PlaceFacts
<1>3. ASSUME grain = "character"
      PROVE  Holding(ends, p, q)
  <2>1. ends = <<p, q>>
    BY <1>e, <1>3 DEF Widened
  <2>2. ends[1] = p /\ ends[2] = q
    BY <2>1
  <2> QED  BY <1>p, <2>2 DEF Before, Holding
<1>4. ASSUME grain # "character" /\ Before(q, p)
      PROVE  Holding(ends, p, q)
  <2>1. ends = <<High(p), Low(q)>>
    BY <1>e, <1>2, <1>4 DEF Widened
  <2>2. ends[1] = High(p) /\ ends[2] = Low(q)
    BY <2>1
  <2> HIDE DEF Low, High
  <2>3. ends[1] \in Places /\ ends[2] \in Places
    BY <1>1, <2>2
  <2>4. /\ ends[2][1] = q[1] /\ ends[2][2] = q[2] /\ ends[2][3] <= q[3]
        /\ ends[1][1] = p[1] /\ ends[1][2] = p[2] /\ p[3] <= ends[1][3]
    BY <1>1, <2>2
  <2>5. PICK e, f : e = ends[1][3] /\ f = ends[2][3]
    OBVIOUS
  <2>6. e \in Int /\ f \in Int
    BY <2>3, <2>5, PlaceFacts
  <2>7. /\ ~Before(q, ends[2]) /\ ~Before(ends[1], p) /\ Before(ends[2], ends[1])
    BY <1>p, <1>4, <2>4, <2>5, <2>6 DEF Before
  <2> QED  BY <1>4, <2>3, <2>7 DEF Holding
<1>5. ASSUME grain # "character" /\ ~Before(q, p)
      PROVE  Holding(ends, p, q)
  <2>1. ends = <<Low(p), High(q)>>
    BY <1>e, <1>2, <1>5 DEF Widened
  <2>2. ends[1] = Low(p) /\ ends[2] = High(q)
    BY <2>1
  <2> HIDE DEF Low, High
  <2>3. ends[1] \in Places /\ ends[2] \in Places
    BY <1>1, <2>2
  <2>4. /\ ends[1][1] = p[1] /\ ends[1][2] = p[2] /\ ends[1][3] <= p[3]
        /\ ends[2][1] = q[1] /\ ends[2][2] = q[2] /\ q[3] <= ends[2][3]
    BY <1>1, <2>2
  <2>5. PICK e, f : e = ends[1][3] /\ f = ends[2][3]
    OBVIOUS
  <2>6. e \in Int /\ f \in Int
    BY <2>3, <2>5, PlaceFacts
  <2>7. /\ ~Before(p, ends[1]) /\ ~Before(ends[2], q) /\ ~Before(ends[2], ends[1])
    BY <1>p, <1>5, <2>4, <2>5, <2>6 DEF Before
  <2> QED  BY <1>5, <2>3, <2>7 DEF Holding
<1>6. Holding(ends, p, q)
  BY <1>3, <1>4, <1>5
<1> QED  BY <1>e, <1>6

-----------------------------------------------------------------------------
(* Selections hold the place they were begun at. *)

SelectionTyped(s) ==
  s \in [state : {"none", "down", "dragging", "selected"},
         grain : {"character", "word", "line"},
         anchor : Places, start : Places, end : Places]

SelectionOK(s) == SelectionTyped(s) /\ HoldsAnchor(s)

LEMMA TypedFacts ==
  ASSUME NEW s, SelectionTyped(s)
  PROVE  /\ s.anchor \in Places /\ s.start \in Places /\ s.end \in Places
         /\ s.grain \in {"character", "word", "line"}
         /\ HoldsAnchor(s) <=>
              (HasEnds(s) => ~Before(s.anchor, s.start) /\ ~Before(s.end, s.anchor))
<1>1. /\ s.anchor \in Places /\ s.start \in Places /\ s.end \in Places
      /\ s.grain \in {"character", "word", "line"}
  BY DEF SelectionTyped
<1>2. /\ Precedes(s.anchor, s.start) <=> Before(s.anchor, s.start)
      /\ Precedes(s.end, s.anchor) <=> Before(s.end, s.anchor)
  BY <1>1, PrecedesIs
<1> QED  BY <1>1, <1>2 DEF HoldsAnchor

LEMMA NoSelectionOK == SelectionOK(NoSelection)
<1>1. Unknown \in Places
  BY WordsAssumption DEF Unknown, Places
<1>2. SelectionTyped(NoSelection) /\ ~HasEnds(NoSelection)
  BY <1>1 DEF NoSelection, SelectionTyped, HasEnds
<1> QED  BY <1>2 DEF SelectionOK, HoldsAnchor

LEMMA BetweenOK ==
  ASSUME NEW s, SelectionTyped(s), NEW q \in Places, NEW ends,
         Holding(ends, s.anchor, q)
  PROVE  SelectionOK(Between(s, ends))
<1>a. PICK a : a = ends[1]
  OBVIOUS
<1>b. PICK b : b = ends[2]
  OBVIOUS
<1>p. PICK p : p = s.anchor
  OBVIOUS
<1>1. a \in Places /\ b \in Places /\ p \in Places
  BY <1>a, <1>b, <1>p, TypedFacts DEF Holding
<1>2. IF Before(q, p)
      THEN ~Before(q, b) /\ ~Before(a, p) /\ Before(b, a)
      ELSE ~Before(p, a) /\ ~Before(b, q) /\ ~Before(b, a)
  BY <1>a, <1>b, <1>p DEF Holding
<1>3. Precedes(b, a) <=> Before(b, a)
  BY <1>1, PrecedesIs
<1>4. CASE Before(q, p)
  <2>x. PICK x : x = [s EXCEPT !.state = "dragging", !.start = b, !.end = a]
    OBVIOUS
  <2>1. Between(s, ends) = x
    BY <1>a, <1>b, <1>2, <1>3, <1>4, <2>x DEF Between
  <2>2. SelectionTyped(x) /\ x.anchor = p /\ x.start = b /\ x.end = a
    BY <1>p, <1>1, <2>x DEF SelectionTyped
  <2>3. ~Before(p, b) /\ ~Before(a, p)
    BY <1>1, <1>2, <1>4, BeforeOrder
  <2> QED  BY <2>1, <2>2, <2>3, TypedFacts DEF SelectionOK
<1>5. CASE ~Before(q, p)
  <2>x. PICK x : x = [s EXCEPT !.state = "dragging", !.start = a, !.end = b]
    OBVIOUS
  <2>1. Between(s, ends) = x
    BY <1>a, <1>b, <1>2, <1>3, <1>5, <2>x DEF Between
  <2>2. SelectionTyped(x) /\ x.anchor = p /\ x.start = a /\ x.end = b
    BY <1>p, <1>1, <2>x DEF SelectionTyped
  <2>3. ~Before(p, a) /\ ~Before(b, p)
    BY <1>1, <1>2, <1>5, BeforeOrder
  <2> QED  BY <2>1, <2>2, <2>3, TypedFacts DEF SelectionOK
<1> QED  BY <1>4, <1>5

LEMMA EndpointsFacts ==
  ASSUME NEW drawn, NEW grain, NEW p \in Places, NEW q \in Places
  PROVE  Holding(Endpoints(FALSE, drawn, grain, p, q), p, q)
  BY WidenedFacts DEF Endpoints

(* Shift moves the end of a selection that is nearer, and the other is     *)
(* what it is anchored at from then on.                                    *)
LEMMA ExtendedOK ==
  ASSUME NEW s, SelectionOK(s), s.state = "selected", NEW p \in Places, NEW drawn
  PROVE  SelectionOK(Extended(FALSE, drawn, s, p))
<1> DEFINE ds == Distance(p, s.start)
           de == Distance(s.end, p)
           atStart == SignOf(ds) <= 0 \/ (SignOf(de) > 0 /\ Precedes(ds, de))
           start == IF atStart THEN p ELSE s.start
           end == IF atStart THEN s.end ELSE p
           anchor == IF atStart THEN s.end ELSE s.start
           ends == Endpoints(FALSE, drawn, s.grain, start, end)
<1>1. /\ s.anchor \in Places /\ s.start \in Places /\ s.end \in Places
      /\ ~Before(s.anchor, s.start) /\ ~Before(s.end, s.anchor)
  BY TypedFacts DEF SelectionOK, HasEnds
<1>2. /\ SignOf(ds) <= 0 <=> ~Before(s.start, p)
      /\ SignOf(de) > 0 <=> Before(p, s.end)
  BY <1>1, PrecedesIs
<1>3. start \in Places /\ end \in Places /\ (anchor = start \/ anchor = end)
  BY <1>1
<1>4. ~Before(end, start)
  <2>1. CASE atStart
    <3>1. ~Before(s.start, p) \/ Before(p, s.end)
      BY <1>2, <2>1
    <3>2. start = p /\ end = s.end
      BY <2>1
    <3> HIDE DEF start, end
    <3>3. ~Before(s.end, p)
      BY <1>1, <3>1, BeforeOrder
    <3> QED  BY <3>2, <3>3
  <2>2. CASE ~atStart
    <3>1. Before(s.start, p)
      BY <1>2, <2>2
    <3>2. start = s.start /\ end = p
      BY <2>2
    <3> HIDE DEF start, end
    <3>3. ~Before(p, s.start)
      BY <1>1, <3>1, BeforeOrder
    <3> QED  BY <3>2, <3>3
  <2> QED  BY <2>1, <2>2
<1>x. PICK x : x = [s EXCEPT !.state = "dragging", !.anchor = anchor,
                             !.start = ends[1], !.end = ends[2]]
  OBVIOUS
<1>5. Extended(FALSE, drawn, s, p) = x
  BY <1>x DEF Extended
<1> HIDE DEF atStart, start, end, anchor
<1>6. Holding(ends, start, end)
  BY <1>3, EndpointsFacts
<1> HIDE DEF ends
<1>7. /\ ends[1] \in Places /\ ends[2] \in Places
      /\ ~Before(start, ends[1]) /\ ~Before(ends[2], end)
  BY <1>4, <1>6 DEF Holding
<1>8. /\ SelectionTyped(x) /\ x.anchor = anchor
      /\ x.start = ends[1] /\ x.end = ends[2]
  BY <1>3, <1>7, <1>x DEF SelectionTyped, SelectionOK
<1>9. ~Before(anchor, ends[1]) /\ ~Before(ends[2], anchor)
  BY <1>3, <1>4, <1>7, BeforeOrder
<1> QED  BY <1>5, <1>8, <1>9, TypedFacts DEF SelectionOK

LEMMA PressedOK ==
  ASSUME NEW s, SelectionOK(s), NEW p \in Places, NEW drawn,
         NEW clicks \in 1 .. 3, NEW shift \in BOOLEAN
  PROVE  SelectionOK(Pressed(FALSE, drawn, s, p, clicks, shift))
<1>1. CASE shift /\ s.state = "selected"
  BY <1>1, ExtendedOK DEF Pressed
<1>2. CASE ~(shift /\ s.state = "selected")
  <2>g. PICK grain : grain = Grains[clicks]
    OBVIOUS
  <2>x. PICK x : x = [s EXCEPT !.state = "down", !.grain = grain, !.anchor = p]
    OBVIOUS
  <2>1. grain \in {"character", "word", "line"}
    BY <2>g DEF Grains
  <2>2. SelectionTyped(x) /\ x.anchor = p /\ x.state = "down" /\ x.grain = grain
    BY <2>x, <2>1 DEF SelectionTyped, SelectionOK
  <2>3. SelectionOK(x)
    BY <2>2 DEF SelectionOK, HoldsAnchor, HasEnds
  <2>e. PICK ends : ends = Endpoints(FALSE, drawn, grain, p, p)
    OBVIOUS
  <2>4. SelectionOK(Between(x, ends))
    <3>1. Holding(ends, x.anchor, p)
      BY <2>e, <2>2, EndpointsFacts
    <3> QED  BY <2>2, <3>1, BetweenOK
  <2>5. Pressed(FALSE, drawn, s, p, clicks, shift)
          = IF clicks = 1 THEN x ELSE Between(x, ends)
    <3>1. Pressed(FALSE, drawn, s, p, clicks, shift)
            = Anchored(FALSE, drawn, s, p, clicks)
      BY <1>2 DEF Pressed
    <3> QED  BY <3>1, <2>g, <2>x, <2>e, <2>2 DEF Anchored
  <2> QED  BY <2>3, <2>4, <2>5
<1> QED  BY <1>1, <1>2

LEMMA DraggedOK ==
  ASSUME NEW s, SelectionOK(s), NEW p \in Places, NEW drawn
  PROVE  SelectionOK(Dragged(FALSE, drawn, s, p))
<1>1. SelectionTyped(s) /\ s.anchor \in Places
  BY TypedFacts DEF SelectionOK
<1>2. Holding(Endpoints(FALSE, drawn, s.grain, s.anchor, p), s.anchor, p)
  BY <1>1, EndpointsFacts
<1>3. SelectionOK(Between(s, Endpoints(FALSE, drawn, s.grain, s.anchor, p)))
  BY <1>1, <1>2, BetweenOK
<1> QED  BY <1>3 DEF Dragged

LEMMA ReleasedOK ==
  ASSUME NEW s, SelectionOK(s)
  PROVE  SelectionOK(Released(s))
<1>1. CASE s.state = "down"
  <2>x. PICK x : x = [s EXCEPT !.state = "none"]
    OBVIOUS
  <2>1. SelectionTyped(x) /\ ~HasEnds(x)
    BY <2>x DEF SelectionOK, SelectionTyped, HasEnds
  <2>2. Released(s) = x
    BY <1>1, <2>x DEF Released
  <2> QED  BY <2>1, <2>2 DEF SelectionOK, HoldsAnchor
<1>2. CASE s.state = "dragging"
  <2>x. PICK x : x = [s EXCEPT !.state = "selected"]
    OBVIOUS
  <2>1. SelectionTyped(x) /\ x.anchor = s.anchor /\ x.start = s.start /\ x.end = s.end
    BY <2>x DEF SelectionOK, SelectionTyped
  <2>2. Released(s) = x
    BY <1>2, <2>x DEF Released
  <2>3. HoldsAnchor(x)
    BY <1>2, <2>1 DEF SelectionOK, HoldsAnchor, HasEnds
  <2> QED  BY <2>1, <2>2, <2>3 DEF SelectionOK
<1>3. CASE s.state \notin {"down", "dragging"}
  BY <1>3 DEF Released
<1> QED  BY <1>1, <1>2, <1>3

LEMMA SelStepOK ==
  ASSUME NEW s, SelectionOK(s), NEW new, SelStep(s, new)
  PROVE  SelectionOK(new)
  BY PressedOK, DraggedOK, ReleasedOK DEF SelStep

-----------------------------------------------------------------------------
(* The theorem about selections. *)

SelectionsOK ==
  /\ \A i \in Open(traces) : SelectionOK(At(i).sel)
  /\ \A j \in Open(views) : ~IsMemory(View(j)) => SelectionOK(View(j).sel)

LEMMA InitSelections ==
  ASSUME Init
  PROVE  SelectionsOK
<1>id. PICK id : id = Min(Ids)
  OBVIOUS
<1>t. PICK t : t = TraceWindow(id)
  OBVIOUS
<1>1. TraceLike(t) /\ t.sel = NoSelection /\ t.kind # "none"
  BY <1>t, TraceWindowFacts, Kinds
<1>2. traces = Allocated(NoWindows, t)
  BY <1>id, <1>t DEF Init, FirstWindow
<1>3. \A i \in Open(traces) : At(i) = t
  BY <1>1, <1>2, NoWindowsFacts, AllocatedFacts DEF At
<1>v. PICK v : v = traces.slots[1].vu
  OBVIOUS
<1>w. PICK w : w = Core(id, v, 1)
  OBVIOUS
<1>4. ViewLike(w) /\ w.sel = NoSelection /\ w.kind # "none"
  BY <1>w, CoreFacts, Kinds
<1>5. views = Allocated(NoWindows, w)
  BY <1>id, <1>v, <1>w DEF Init, FirstView, Core
<1>6. \A j \in Open(views) : View(j) = w
  BY <1>4, <1>5, NoWindowsFacts, AllocatedFacts DEF View
<1> QED  BY <1>1, <1>3, <1>4, <1>6, NoSelectionOK DEF SelectionsOK

LEMMA NextSelections ==
  ASSUME Registered, DrawnPlacesOK, SelectionsOK, [Next]_vars
  PROVE  SelectionsOK'
<1>1. SelectionsStep
  BY NextKeeps DEF Kept
<1>2. ASSUME NEW i \in Open(traces')
      PROVE  SelectionOK(traces'.slots[i].sel)
  <2>s. PICK s : s = traces'.slots[i].sel
    OBVIOUS
  <2>1. s = NoSelection \/ (i \in Open(traces) /\ SelStep(At(i).sel, s))
    BY <1>1, <2>s DEF SelectionsStep
  <2>2. SelectionOK(s)
    BY <2>1, NoSelectionOK, SelStepOK DEF SelectionsOK
  <2> QED  BY <2>s, <2>2
<1>3. ASSUME NEW j \in Open(views'), ~IsMemory(views'.slots[j])
      PROVE  SelectionOK(views'.slots[j].sel)
  <2>s. PICK s : s = views'.slots[j].sel
    OBVIOUS
  <2>1. s = NoSelection
        \/ (j \in Open(views) /\ ~IsMemory(View(j)) /\ SelStep(View(j).sel, s))
    BY <1>1, <1>3, <2>s DEF SelectionsStep
  <2>2. SelectionOK(s)
    BY <2>1, NoSelectionOK, SelStepOK DEF SelectionsOK
  <2> QED  BY <2>s, <2>2
<1> QED  BY <1>2, <1>3 DEF SelectionsOK, View, At

(* As long as what is drawn in trace windows are lines of the trace, a     *)
(* selection in a trace window or in a register window holds the place it  *)
(* was begun at, however it was dragged and extended (left_down,           *)
(* mouse_move, rewrite_selection_endpoints).                               *)
THEOREM SelectionsKeepAnchor == Spec /\ []DrawnPlacesOK => []SelectionsHoldAnchor
<1>1. Init => SelectionsOK
  BY InitSelections
<1>2. Registered /\ DrawnPlacesOK /\ SelectionsOK /\ [Next]_vars => SelectionsOK'
  BY NextSelections
<1>3. SelectionsOK => SelectionsHoldAnchor
  BY DEF SelectionsOK, SelectionOK, SelectionsHoldAnchor
<1> QED  BY <1>1, <1>2, <1>3, RegisteredHolds, PTL DEF Spec
=============================================================================
