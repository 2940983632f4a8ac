------------------------------ MODULE MCCurses ------------------------------
(***************************************************************************)
(* Properties of CursesUI for TLC, and the sessions it runs.               *)
(***************************************************************************)
EXTENDS CursesUI, MCView

LOCAL INSTANCE SequencesExt
LOCAL INSTANCE FiniteSetsExt

Session(trace, heights, keys, lines, times, addresses) ==
  [index |-> Indexed(trace), heights |-> heights, keys |-> keys, lines |-> lines,
   times |-> times, addresses |-> addresses]

SomeSessions ==
  {Session(NestedCalls, {14}, {"Down", "l", "-", "[", "]", "+", "{", "}"}, {3},
           {}, {}),
   Session(Loop, {6}, {"Down", "Up", "Home", "End", "PageDown", "PageUp", "^L",
                       "-"}, {}, {}, {}),
   Session(Loop, {9}, {"n", "N", "e", "E", "p", "P", "t", "a", "-", "+",
                       "Return"}, {}, {10, 15}, {}),
   Session(Loop, {6, 8}, {"Down", "PageDown", "F1", "core", "double", "q"}, {},
           {}, {}),
   Session(Changes, {9}, {"Down", "Up", "Tab", "^L", "l", "<", ">", "Return"},
           {3, 9}, {}, {}),
   Session(FewChanges, {9}, {"Down", "m", "Tab", "d", "]", "["}, {2}, {},
           {Constant(1)}),
   Session(FewChanges, {9}, {"Down", "m", "Tab", "Return", "2", "F", "x"}, {},
           {}, {StackPointer}),
   Session(FewChanges, {9}, {"m", "Tab", "Up", "Down", "Left", "Right", "<",
                             ">"}, {}, {}, {Constant(1)})}

(* A call in a call, and '[' anywhere in it. *)
FoldingInside == {Session(NestedCalls, {14}, {"Down", "[", "]"}, {}, {}, {})}

-----------------------------------------------------------------------------
(* Types: lines are lines of the trace, every cursor is in its window, and *)
(* who asks for an argument is there to hear it.                           *)
Records == RecordsOf(ix)
Firsts == {r.first : r \in Records}

WindowOK(w) ==
  /\ {w.line, w.ext} \subseteq Firsts
  /\ w.diff \in Firsts \cup {0} /\ w.locked \in BOOLEAN
  /\ IF IsMemory(w)
     THEN /\ w.rows \in 1 .. MaxRows
          /\ {w.start, w.cursor} \subseteq 0 .. AddrSpan - 1
     ELSE /\ w.kind \in Kinds
          /\ w.shown \in 1 .. NRegs /\ w.sel \in 0 .. NRegs - 1
          /\ w.top \in 0 .. w.sel

TypeOK ==
  /\ session \in Sessions
  /\ height \in session.heights
  /\ {vu.vis, vu.log} \subseteq Records
  /\ scrtop \in 0 .. LastLine(ix) - 1
  /\ event \in 0 .. vu.vis.lines - 1 \cup {NoEvent}
  /\ centring \in {NoCentring, 0, 1, 2}
  /\ \A i \in DOMAIN subs : WindowOK(subs[i])
  /\ focus \in 0 .. Len(subs)
  /\ ask = NoAsk \/ ask.asker \in 0 .. Len(subs)
  /\ status \in {"main", "help", "quit"}

-----------------------------------------------------------------------------
(* What the folds should say, line by line. *)
Lines == LinesOf(ix)
DepthOf(line) == DepthAt(ix, line)
Visible(v) == VisibleLines(ix, v)

(* The regions tile the trace in a tree that is balanced and whose counts  *)
(* are exact, and they translate lines both ways as counting does, up to   *)
(* the end of the trace and no further (set_fold_state, RegionCmp, the     *)
(* searchers of browse.cpp and the range tree under them).                 *)
FoldsExact ==
  LET rs == RegionsOf(vu)
      visible == Visible(vu)
      all == Ascending(visible)
  IN /\ WellBuilt(vu.folds)
     /\ rs[1].lo = 1 /\ Last(rs).hi = LastLine(ix)
     /\ \A i \in 1 .. Len(rs) - 1 : rs[i].hi + 1 = rs[i + 1].lo
     /\ TotalVisibleLines(vu.folds) = Len(all)
     /\ \A line \in Lines \cup {LastLine(ix) + 1} :
          PhysicalToVisible(ix, vu.folds, line) = Cardinality({l \in visible : l < line})
     /\ \A i \in DOMAIN all :
          LET t == VisibleToPhysical(ix, vu.folds, i - 1)
          IN t.ok /\ t.line = all[i]

OnTheScreen ==
  LET hm1 == MainHeight(subs, height) - 1
      top == PhysicalToVisible(ix, vu.folds, vu.vis.first)
  IN status = "main" /\ hm1 >= 1 => scrtop <= top /\ top < scrtop + hm1

(* The line the position underlines is visible, and the record whose state *)
(* the windows show is that one or one hidden behind it; and the position  *)
(* is on the screen where there is any room for it (update_visible_node,   *)
(* update_logical_node, update_scrtop).                                    *)
PositionCoherent == Coherent(vu, Visible(vu)) /\ OnTheScreen

(* "keep unfolding until you reach that position": unfolding a hidden      *)
(* position again and again leaves it what it is, and uncovers it before   *)
(* it has been asked as often as calls are nested.                         *)
Nesting == {r.depth : r \in Records}

RECURSIVE UnfoldedTimes(_, _)
UnfoldedTimes(v, n) ==
  IF n = 0 \/ ~PositionHidden(ix, v) THEN v
  ELSE UnfoldedTimes(Unfolded(v), n - 1)

UnfoldingReaches ==
  LET v == UnfoldedTimes(vu, Cardinality(Nesting))
  IN v.log = vu.log /\ ~PositionHidden(ix, v)

(* The depth of the call around the position, or of the one that comes     *)
(* next on the screen, and its lines: those around that record that are    *)
(* not outside it.                                                         *)
Innermost(v) ==
  LET next == NextVisible(ix, v, v.vis)
  IN IF next.depth > v.vis.depth THEN next ELSE v.vis

CallAround(v) ==
  LET here == Innermost(v)
  IN {line \in Lines :
        \A l \in Min2(line, here.first) .. Max2(line, here.first) :
          DepthOf(l) >= here.depth}

(* The lines of that call that are of no call from inside it. *)
LinesOfItsOwn(v) == {line \in CallAround(v) : DepthOf(line) = Innermost(v).depth}

(* The lines hidden behind the position. *)
HiddenBehind(v) ==
  {line \in Lines : /\ line >= After(v.vis)
                    /\ Visible(v) \cap (After(v.vis) .. line) = {}}

Outermost == {line \in Lines : DepthOf(line) = 0}

(* What the fold keys do to the lines that show: '-' hides all of the call *)
(* around the position and nothing else, ']' uncovers all of it and        *)
(* nothing else, '+' uncovers something of what is hidden behind the       *)
(* position and nothing else, '{' and '}' hide and uncover all calls; and  *)
(* no other key folds (physline_range_for_containing_function,             *)
(* set_fold_state, physline_range_for_folded_function_after).  '[' is      *)
(* excepted: it does not do what it is said to, see the next property.     *)
FoldsTheCall ==
  [][LET old == Visible(vu)
         new == Visible(vu)'
         revealed == new \ old
     IN vu'.folds # vu.folds =>
          \/ Fold("-") /\ new = old \ CallAround(vu)
          \/ Fold("]") /\ new = old \cup CallAround(vu)
          \/ /\ Unfold /\ old \subseteq new
             /\ revealed # {} /\ revealed \subseteq HiddenBehind(vu)
          \/ FoldAll("{", 1) /\ new = Outermost
          \/ FoldAll("}", UintMax) /\ new = Lines
          \/ Fold("[")]_vars

(* '[' is to fold up the calls from inside the function and to leave that  *)
(* function itself unfolded: from a position inside it, what is seen of    *)
(* its own lines stays (the comment in process_key, the help text,         *)
(* doc/index.rst).                                                         *)
FunctionStaysUnfolded ==
  [][LET own == LinesOfItsOwn(vu)
     IN Fold("[") /\ vu.vis.first \in own =>
          own \cap Visible(vu) \subseteq Visible(vu)']_vars

-----------------------------------------------------------------------------
(* After every key but the pages, every window below has heard of the      *)
(* position, and shows it unless it is locked; a locked one goes on        *)
(* showing the record and the changes it shows until it is asked for       *)
(* others or unlocked (update_other_windows, set_memroot).                 *)
WindowsFollow ==
  [][/\ \A i \in DOMAIN subs' : ~subs'[i].locked => subs'[i].line = subs'[i].ext
     /\ (vu'.log # vu.log /\ ~PageDown /\ ~PageUp) =>
          \A i \in DOMAIN subs' : subs'[i].ext = vu'.log.first
     /\ \A i \in DOMAIN subs \cap DOMAIN subs' :
          Len(subs) = Len(subs') /\ ask.asker # i
            /\ subs[i].locked /\ subs'[i].locked =>
          /\ subs'[i].line = subs[i].line
          /\ subs'[i].diff = subs[i].diff]_vars

(* What a window highlights is what differs between the record it shows    *)
(* and the one it is compared with (setup_diff_lines, find_next_mod).      *)
DiffExact ==
  \A i \in DOMAIN subs :
    LET w == subs[i]
        before == MemAt(w.since - 1)
        after == MemAt(w.diff)
    IN w.diff # 0 =>
       /\ w.line \in {w.since - 1, w.diff}
       /\ \A reg \in 0 .. NRegs - 1 :
            Highlighted(w, reg) <=>
              GetByte(after, Registers, reg) # GetByte(before, Registers, reg)

=============================================================================
