-------------------------------- MODULE WxUI --------------------------------
(***************************************************************************)
(* The GUI browser (browser/wx.cpp): trace windows on one trace, and views *)
(* on registers and memory that each follow one of them or stand alone.    *)
(* Both kinds keep a registry from which an index is given to a window and *)
(* taken back.  Every action is the handling of one event.                 *)
(*                                                                         *)
(* A view points to a trace window in three ways: tw, the list of that     *)
(* window which it is in, and the entry its menu shows.  A window's id is  *)
(* its address, which another may be given once it is closed.  Titles,     *)
(* the clipboard and how things look are left out, and what no handler     *)
(* survives: an exception that leaves it, and the use of a tw whose window *)
(* is closed.                                                              *)
(***************************************************************************)
EXTENDS WxText

(* The browser core, a library to this UI: TraceView gives these operators *)
(* their meaning, and nothing here looks behind them.                      *)
CONSTANTS
  \* views: their folds and positions
  nil, new_view(_), update_visible(_, _), update_logical(_, _),
  goto_node(_, _, _), goto_visible_node(_, _, _), next_visible(_, _, _),
  prev_visible(_, _, _), node_at_visline(_, _, _), visible_to_physical(_, _, _),
  physical_to_visible(_, _, _), visible_lines(_), set_fold_state(_, _, _, _, _),
  \* where the goto functions go
  line_target(_, _), time_target(_, _), current_pcs(_, _), pc_target(_, _, _, _),
  exception_target(_, _, _),
  \* what can be folded and unfolded
  no_range, function_around(_, _, _), folded_after(_, _, _), fold_state(_, _, _),
  uint_max,
  \* records of the index
  no_record, node_at_line(_, _), buffer_limit(_, _), previous_node(_, _),
  last_line(_), line_after(_),
  \* registers and memory, and expressions for addresses
  reg_space, mem_space, last_touched(_, _, _, _), accesses(_), address_of(_),
  constant(_), stack_pointer, evaluations(_, _)

CONSTANTS
  Sessions,       \* indexes, and what the user can do and type
  Ids,            \* where trace windows are allocated; not 0
  Rows,           \* lines that a window has room for
  NRegs,          \* registers in a register window, by columns ...
  RegRows,        \* ... of so many rows
  BytesPerLine,   \* of a memory window
  MaxTraces       \* bound on the number of trace windows; of views: room

(* 0 stands for no trace window; what the user can type in for an address  *)
(* is a number or what the core calls the stack pointer.                   *)
ASSUME WindowsAssumption ==
  /\ Ids \subseteq Nat \ {0} /\ Ids # {}
  /\ NRegs \in Nat /\ RegRows \in Nat \ {0}

ASSUME SessionsAssumption ==
  \A s \in Sessions :
    /\ s.chars \subseteq 0 .. MaxChar /\ s.clicks \subseteq 1 .. 3
    /\ \A expr \in s.addresses : expr.variable => expr = stack_pointer

VARIABLES
  session,        \* one of Sessions; it never changes
  traces,         \* TraceWindow::all_trace_windows and its free indices
  views           \* SubsidiaryView::all_subviews and its free indices

vars == <<session, traces, views>>

ix == session.index
Can(what) == what \in session.can

-----------------------------------------------------------------------------
(* Registries. *)

NoWindow == [kind |-> "none"]
NoWindows == [slots |-> <<>>, free |-> {}]

Open(reg) == {i \in DOMAIN reg.slots : reg.slots[i].kind # "none"}

(* The lowest free index, or a new one. *)
Allocated(reg, w) ==
  IF reg.free = {}
  THEN [reg EXCEPT !.slots = Append(@, w)]
  ELSE LET i == Min(reg.free)
       IN [slots |-> [reg.slots EXCEPT ![i] = w], free |-> reg.free \ {i}]

Emptied(reg, gone) ==
  [i \in DOMAIN reg.slots |-> IF i \in gone THEN NoWindow ELSE reg.slots[i]]

Trimmed(slots) ==
  SubSeq(slots, 1, Max({i \in DOMAIN slots : slots[i].kind # "none"} \cup {0}))

(* Mutant of FreeIn: an index stays free when its slot is cut off.         *)
FreeInAndBeyond(reg, gone, slots) == reg.free \cup gone

FreeIn(reg, gone, slots) == (reg.free \cup gone) \cap DOMAIN slots

Freed(reg, gone) ==
  LET slots == Trimmed(Emptied(reg, gone))
  IN [slots |-> slots, free |-> FreeIn(reg, gone, slots)]

-----------------------------------------------------------------------------
(* Windows. *)

NotDrawn == [folds |-> nil, top |-> 0]

Opening(v) == goto_visible_node(ix, v, node_at_visline(ix, v, 1))

(* drawn is what the last paint showed, row where the button went down.    *)
TraceWindow(id) ==
  [kind |-> "trace", id |-> id, vu |-> Opening(new_view(ix)), wintop |-> 0,
   drawn |-> NotDrawn, prompt |-> FALSE, sel |-> NoSelection, row |-> 0]

(* The last three fields are of memory windows only. *)
SubsidiaryView(kind, id) ==
  [kind |-> kind, tw |-> id, list |-> id, menu |-> 0, line |-> 0, diff |-> 0,
   since |-> 0, sel |-> NoSelection, start |-> 0, known |-> FALSE,
   follows |-> FALSE]

RegisterKinds == {"core", "single", "double", "neon", "mve"}
IsMemory(w) == w.kind = "memory"

(* The index of an open trace window, or 0. *)
IndexOf(id, slots) ==
  Max({i \in DOMAIN slots : slots[i].kind = "trace" /\ slots[i].id = id} \cup {0})

(* update_trace_window_list, of all views. *)
WithMenu(w, slots) ==
  IF w = NoWindow THEN w ELSE [w EXCEPT !.menu = IndexOf(w.tw, slots)]

WithMenus(ws, slots) == [j \in DOMAIN ws |-> WithMenu(ws[j], slots)]

(* set_start_addr_expr and compute_start_addr, with what the expression    *)
(* evaluates to if it does.                                                *)
Start(a, expr) == IF expr.variable THEN a ELSE a - (a % BytesPerLine)

Started(w, expr, at) ==
  [w EXCEPT !.follows = expr.variable,
            !.known = at # {},
            !.start = IF at = {} THEN @
                      ELSE Start(CHOOSE a \in at : TRUE, expr)]

MemoryWindow(id, expr, at) ==
  Started(SubsidiaryView("memory", id), expr, at)

(* update_line, with what the stack pointer evaluates to. *)
Shown(w, line) == [w EXCEPT !.line = line, !.diff = 0, !.since = 0]

Recomputed(w, at) ==
  IF IsMemory(w) /\ w.follows THEN Started(w, stack_pointer, at) ELSE w

Updated(w, line, at) == Recomputed(Shown(w, line), at)

(* The views in the list of a trace window. *)
Linked(w, id) == w # NoWindow /\ w.list = id

(* update_subviews *)
Told(ws, id, v) ==
  [j \in DOMAIN ws |->
     IF Linked(ws[j], id)
     THEN Updated(ws[j], v.log.first, evaluations(v, stack_pointer))
     ELSE ws[j]]

(* tell_subviews_to_diff_against: the later tree, and where changes begin  *)
(* to count.                                                               *)
Against(ws, id, line1, line2) ==
  [j \in DOMAIN ws |->
     IF Linked(ws[j], id)
     THEN [ws[j] EXCEPT !.diff = Max({line1, line2}),
                        !.since = Min({line1, line2}) + 1]
     ELSE ws[j]]

-----------------------------------------------------------------------------
(* What a trace window shows. *)

At(i) == traces.slots[i]

(* keep_visnode_in_view, with a line below the node for the separator.     *)
Within(top, total) == Max({0, Min({top, total - Rows})})

TopFor(top, first, after) == Max({Min({top, first}), after - Rows + 1})

InView(v, top) ==
  Within(TopFor(top, physical_to_visible(ix, v.folds, v.vis.first),
                physical_to_visible(ix, v.folds, line_after(v.vis))),
         visible_lines(v.folds))

Centred(v) ==
  Within(physical_to_visible(ix, v.folds, line_after(v.vis)) - (Rows \div 2),
         visible_lines(v.folds))

Show(i, v, top, ws) ==
  /\ traces' = [traces EXCEPT !.slots[i].vu = v, !.slots[i].wintop = top]
  /\ views' = [views EXCEPT !.slots = ws]
  /\ UNCHANGED session

(* update_location *)
Settle(i, v, top) == Show(i, v, top, Told(views.slots, At(i).id, v))

Arrive(i, v) == Settle(i, v, InView(v, At(i).wintop))

(* The goto functions; where there is nothing to go to, nothing happens.   *)
JumpTo(i, node) == Arrive(i, update_logical(ix, goto_node(ix, At(i).vu, node)))

Jump(i, node) == node # no_record /\ JumpTo(i, node)

GotoPhysline(i, line) == line # 0 /\ Jump(i, line_target(ix, line))

-----------------------------------------------------------------------------
(* The keyboard and the toolbar of a trace window. *)

Home(i) == Can("Home") /\ Jump(i, buffer_limit(ix.tree, FALSE))
End(i) == Can("End") /\ Jump(i, buffer_limit(ix.tree, TRUE))

LineEdit(i) ==
  Can("line") /\ \E line \in session.lines : GotoPhysline(i, line)

TimeEdit(i) ==
  Can("time") /\ \E time \in session.times : Jump(i, time_target(ix, time))

PCEdit(i) ==
  Can("pc") /\ \E x \in ix.bypc : Jump(i, pc_target(ix, At(i).vu, x[1], 1))

PCNextPrev(i, dir) ==
  /\ Can("pc")
  /\ \E pc \in current_pcs(ix, At(i).vu) : Jump(i, pc_target(ix, At(i).vu, pc, dir))

ExcNextPrev(i, dir) ==
  Can("exception") /\ Jump(i, exception_target(ix, At(i).vu, dir))

(* WXK_DOWN and WXK_UP show what changed on the way. *)
StepTo(i, v, line) ==
  Show(i, v, InView(v, At(i).wintop),
       Against(Told(views.slots, At(i).id, v), At(i).id, v.log.first, line))

Step(i, node) ==
  /\ node # no_record
  /\ StepTo(i, goto_visible_node(ix, At(i).vu, node), At(i).vu.log.first)

Down(i) == Can("Down") /\ Step(i, next_visible(ix, At(i).vu, At(i).vu.vis))
Up(i) == Can("Up") /\ Step(i, prev_visible(ix, At(i).vu, At(i).vu.vis))

PageTo(i, node, end) ==
  IF node = no_record THEN JumpTo(i, buffer_limit(ix.tree, end))
  ELSE Arrive(i, goto_visible_node(ix, At(i).vu, node))

Paged(v, line, by) ==
  node_at_visline(ix, v, physical_to_visible(ix, v.folds, line) + by)

PageDown(i) ==
  /\ Can("PageDown")
  /\ PageTo(i, Paged(At(i).vu, line_after(At(i).vu.vis) - 1, Rows), TRUE)

PageUp(i) ==
  Can("PageUp") /\ PageTo(i, Paged(At(i).vu, At(i).vu.vis.first, -Rows), FALSE)

-----------------------------------------------------------------------------
(* Folding.  FoldChangeWrapper keeps the line at the top where it is, and  *)
(* then the position need not be a visible one any more.                   *)

(* Mutant of BothNew: the underlined node may now be hidden.               *)
BothNewLogical(v) == update_logical(ix, v)

BothNew(v) == update_logical(ix, update_visible(ix, v))

TopKept(w, folds) ==
  physical_to_visible(ix, folds,
                      visible_to_physical(ix, w.vu.folds, w.wintop).line)

WithFolds(w, folds) ==
  [w EXCEPT !.vu = BothNew([w.vu EXCEPT !.folds = folds]),
            !.wintop = TopKept(w, folds)]

Refolded(w, range, max) ==
  WithFolds(w, set_fold_state(ix, w.vu.folds, range.first, range.last,
                              <<0, max>>))

(* fold_ui_action *)
FoldedIn(i, w) == Settle(i, w.vu, w.wintop)

Fold(i, range, max) == range # no_range /\ FoldedIn(i, Refolded(At(i), range, max))

(* unfold_ui_action ends where it began, at the node underlined.  The menu *)
(* leaves it at that, where the views have heard of the place before; the  *)
(* key and the box update the location again.                              *)
ToldTwice(id, v1, v2) == Told(Told(views.slots, id, v1), id, v2)

(* Mutant of UnfoldedTo: the views only hear where the fold left it.       *)
UnfoldedToOnce(i, how, w, v) ==
  Show(i, v, IF how = "key" THEN InView(v, w.wintop) ELSE w.wintop,
       Told(views.slots, w.id, w.vu))

UnfoldedTo(i, how, w, v) ==
  Show(i, v, IF how = "key" THEN InView(v, w.wintop) ELSE w.wintop,
       IF how = "menu" THEN Told(views.slots, w.id, w.vu)
       ELSE ToldTwice(w.id, w.vu, v))

UnfoldedIn(i, how, w) == UnfoldedTo(i, how, w, goto_node(ix, w.vu, At(i).vu.vis))

Unfold(i, range, max, how) ==
  range # no_range /\ UnfoldedIn(i, how, Refolded(At(i), range, max))

(* WXK_LEFT folds where the call begins, and goes there from elsewhere.    *)
FoldedInView(i, w) == Settle(i, w.vu, InView(w.vu, w.wintop))

LeftTo(i, range, call) ==
  IF call = At(i).vu.vis
  THEN FoldedInView(i, Refolded(At(i), range, range.depth))
  ELSE Arrive(i, goto_node(ix, At(i).vu, call))

LeftIn(i, range) ==
  range # no_range /\ LeftTo(i, range, node_at_line(ix.tree, range.first - 1))

Left(i) == Can("Left") /\ LeftIn(i, function_around(ix, At(i).vu, At(i).vu.vis))

RightIn(i, range) == Unfold(i, range, range.depth, "key")

Right(i) ==
  Can("Right") /\ RightIn(i, folded_after(ix, At(i).vu, At(i).vu.vis))

(* fold_all_ui_action *)
WholeTrace == [first |-> 1, last |-> last_line(ix), depth |-> 0]

FoldAll(i) == Can("fold all") /\ \E max \in {1, uint_max} : Fold(i, WholeTrace, max)

-----------------------------------------------------------------------------
(* The mouse on a trace window.  What it points at is what was drawn last, *)
(* and later events may have come before the next paint.                   *)

(* paint_event and redraw_canvas *)
Paint(i) ==
  /\ Can("mouse")
  /\ traces' = [traces EXCEPT !.slots[i].drawn =
                  [folds |-> At(i).vu.folds, top |-> At(i).wintop]]
  /\ UNCHANGED <<session, views>>

RowsDrawn(d) ==
  {row \in 0 .. Rows - 1 : d.folds # nil /\ d.top + row < visible_lines(d.folds)}

LineDrawn(d, row) == visible_to_physical(ix, d.folds, d.top + row).line

PlaceOf(line, node) == <<node.first, line - node.first>>
PlaceAt(line) == PlaceOf(line, node_at_line(ix.tree, line))

PlacesDrawn(d) == {PlaceAt(LineDrawn(d, row)) : row \in RowsDrawn(d)}

(* find_xy *)
Position(place, ch) == <<place[1], place[2], ch>>

(* The boxes in front of calls hold the ranges they were drawn with, though*)
(* the folds may be others by now.                                         *)
FoldBox(i, range) == Fold(i, range, range.depth)
UnfoldBox(i, range) == Unfold(i, range, range.depth, "box")

ClickBoxOf(i, d, node) ==
  CASE fold_state(ix, d, node) = "unfolded" ->
         FoldBox(i, function_around(ix, d, node))
    [] fold_state(ix, d, node) = "folded" ->
         UnfoldBox(i, folded_after(ix, d, node))
    [] OTHER -> FALSE

ClickBoxAt(i, line) ==
  /\ node_at_line(ix.tree, line).first = line
  /\ ClickBoxOf(i, At(i).drawn, node_at_line(ix.tree, line))

ClickBox(i) ==
  /\ Can("boxes")
  /\ \E row \in RowsDrawn(At(i).drawn) : ClickBoxAt(i, LineDrawn(At(i).drawn, row))

(* left_down on text *)
PressAt(i, row, p, clicks, shift) ==
  /\ traces' = [traces EXCEPT
       !.slots[i].sel = Pressed(FALSE, PlacesDrawn(At(i).drawn), @, p, clicks, shift),
       !.slots[i].row = row]
  /\ UNCHANGED <<session, views>>

Press(i) ==
  /\ Can("text")
  /\ \E row \in RowsDrawn(At(i).drawn), ch \in session.chars,
       clicks \in session.clicks, shift \in BOOLEAN :
       PressAt(i, row, Position(PlaceAt(LineDrawn(At(i).drawn, row)), ch), clicks,
               shift)

DragTo(i, p) ==
  /\ traces' = [traces EXCEPT !.slots[i].sel =
                  Dragged(FALSE, PlacesDrawn(At(i).drawn), @, p)]
  /\ UNCHANGED <<session, views>>

Drag(i) ==
  /\ At(i).sel.state \in {"down", "dragging"}
  /\ \E place \in PlacesDrawn(At(i).drawn), ch \in session.chars :
       DragTo(i, Position(place, ch))

(* click: the upper half of a node is the one before. *)
ClickedOn(v, node, line, before) ==
  IF 2 * (line - node.first) < node.lines /\ before # no_record THEN before ELSE node

Clicked(v, line, node) ==
  goto_visible_node(ix, v, ClickedOn(v, node, line, prev_visible(ix, v, node)))

ClickAt(v, line) == Clicked(v, line, node_at_line(ix.tree, line))

Raised(i, v, ws) ==
  /\ traces' = [traces EXCEPT !.slots[i].sel = Released(@), !.slots[i].vu = v]
  /\ views' = [views EXCEPT !.slots = ws]
  /\ UNCHANGED session

ReleaseAt(i, v) == Raised(i, v, Told(views.slots, At(i).id, v))

(* left_up *)
ClickRow(i, at) ==
  at.ok /\ IF at.line > last_line(ix) THEN Raised(i, At(i).vu, views.slots)
           ELSE ReleaseAt(i, ClickAt(At(i).vu, at.line))

Release(i) ==
  /\ At(i).sel.state \in {"down", "dragging"}
  /\ IF At(i).sel.state = "down"
     THEN ClickRow(i, visible_to_physical(ix, At(i).vu.folds, At(i).wintop + At(i).row))
     ELSE Raised(i, At(i).vu, views.slots)

Scroll(i) ==
  /\ Can("scroll")
  /\ \E top \in 0 .. (visible_lines(At(i).vu.folds) - Rows) \cup {0} :
       traces' = [traces EXCEPT !.slots[i].wintop = top]
  /\ UNCHANGED <<session, views>>

Recentre(i) ==
  /\ Can("recentre")
  /\ traces' = [traces EXCEPT !.slots[i].wintop = Centred(At(i).vu)]
  /\ UNCHANGED <<session, views>>

-----------------------------------------------------------------------------
(* New windows. *)

(* add_subview *)
AddedTo(i, w) ==
  [Updated(w, At(i).vu.log.first, evaluations(At(i).vu, stack_pointer))
     EXCEPT !.menu = i]

RoomForViews == Cardinality(Open(views)) < session.room

AddSubview(i, w) == RoomForViews /\ views' = Allocated(views, AddedTo(i, w))

NewRegisters(i) ==
  /\ \E kind \in RegisterKinds \cap session.can :
       AddSubview(i, SubsidiaryView(kind, At(i).id))
  /\ UNCHANGED <<session, traces>>

AddMemory(i, expr) ==
  AddSubview(i, MemoryWindow(At(i).id, expr, evaluations(At(i).vu, expr)))

NewStack(i) == Can("stack") /\ AddMemory(i, stack_pointer) /\ UNCHANGED <<session, traces>>

(* The dialog is not modal: a window has one at a time. *)
NewMemory(i) ==
  /\ Can("memory") /\ ~At(i).prompt
  /\ traces' = [traces EXCEPT !.slots[i].prompt = TRUE]
  /\ UNCHANGED <<session, views>>

MemPromptEnded(i) ==
  /\ At(i).prompt
  /\ traces' = [traces EXCEPT !.slots[i].prompt = FALSE]
  /\ \/ UNCHANGED views
     \/ \E expr \in session.addresses : AddMemory(i, expr)
  /\ UNCHANGED session

(* The constructor of a trace window, which opens with the core registers. *)
OpenedIn(id, reg) ==
  /\ traces' = reg
  /\ LET i == IndexOf(id, reg.slots)
         v == reg.slots[i].vu
         w == Updated(SubsidiaryView("core", id), v.log.first, {})
         others == [views EXCEPT !.slots = WithMenus(@, reg.slots)]
     IN views' = Allocated(others, [w EXCEPT !.menu = i])

NewTrace ==
  /\ Can("new trace") /\ Open(traces) # {}
  /\ Cardinality(Open(traces)) < MaxTraces /\ RoomForViews
  /\ \E id \in Ids \ {At(i).id : i \in Open(traces)} :
       OpenedIn(id, Allocated(traces, TraceWindow(id)))
  /\ UNCHANGED session

-----------------------------------------------------------------------------
(* The context menu of a trace window, on a node that was drawn, though it *)
(* may be hidden by now.                                                   *)

FoldFromMenu(i, range) ==
  \E max \in {range.depth, range.depth + 1, uint_max} : Fold(i, range, max)

UnfoldFromMenu(i, range) ==
  \E max \in {range.depth, uint_max} : Unfold(i, range, max, "menu")

(* provenance_menuaction *)
PreviousWrite(i, node, prev) ==
  /\ prev # no_record
  /\ \E p \in accesses(node) :
       GotoPhysline(i, last_touched(prev.mem, p.space, p.lo, p.hi))

(* contextmem_menuaction *)
MemoryHere(i, node) ==
  /\ \E p \in accesses(node) :
       /\ p.space = mem_space
       /\ AddMemory(i, constant(Start(p.lo, constant(0)) - 8 * BytesPerLine))
  /\ UNCHANGED <<session, traces>>

NodesDrawn(i) ==
  {node_at_line(ix.tree, LineDrawn(At(i).drawn, row)) : row \in RowsDrawn(At(i).drawn)}

MenuFoldOn(i, node) == FoldFromMenu(i, function_around(ix, At(i).vu, node))
MenuUnfoldOn(i, node) == UnfoldFromMenu(i, folded_after(ix, At(i).vu, node))

MenuUnfold(i) ==
  Can("menu unfold") /\ \E node \in NodesDrawn(i) : MenuUnfoldOn(i, node)

ContextMenu(i) ==
  /\ Can("menu")
  /\ \E node \in NodesDrawn(i) :
       \/ MenuFoldOn(i, node)
       \/ PreviousWrite(i, node, previous_node(ix.tree, node))
       \/ MemoryHere(i, node)

-----------------------------------------------------------------------------
(* Views. *)

View(j) == views.slots[j]

Become(j, w) ==
  /\ views' = [views EXCEPT !.slots[j] = w]
  /\ UNCHANGED <<session, traces>>

(* linkcombo_changed.  The entry for no window leaves tw what it was.      *)
LinkTo(j, i) ==
  Become(j, AddedTo(i, [View(j) EXCEPT !.tw = At(i).id, !.list = At(i).id]))

Relink(j) ==
  /\ Can("link")
  /\ \/ \E i \in Open(traces) : LinkTo(j, i)
     \/ Become(j, [View(j) EXCEPT !.list = 0, !.menu = 0])

(* activate_lineedit *)
FixedAt(j, node) ==
  /\ node # no_record
  /\ Become(j, Updated([View(j) EXCEPT !.tw = 0, !.list = 0, !.menu = 0],
                       node.first, {}))

FixLine(j) ==
  Can("fix") /\ \E line \in session.lines : FixedAt(j, line_target(ix, line))

(* The keys and the wheel of a memory window. *)
Scrolled(w, lines) == [w EXCEPT !.start = address_of(@ + lines * BytesPerLine)]

ScrollMemory(j) ==
  /\ Can("scroll memory") /\ IsMemory(View(j))
  /\ \E lines \in {-Rows, -1, 1, Rows} : Become(j, Scrolled(View(j), lines))

(* tw is no window, or an open one. *)
Usable(w) == w.tw = 0 \/ IndexOf(w.tw, traces.slots) # 0

EvaluatedFor(w, expr) ==
  IF w.tw # 0 THEN evaluations(At(IndexOf(w.tw, traces.slots)).vu, expr)
  ELSE IF expr.variable THEN {} ELSE {address_of(expr.address)}

(* addredit_activated *)
AddrEdit(j) ==
  /\ Can("address") /\ IsMemory(View(j)) /\ Usable(View(j))
  /\ \/ \E expr \in session.addresses :
          Become(j, Started(View(j), expr, EvaluatedFor(View(j), expr)))
     \/ Become(j, [View(j) EXCEPT !.follows = FALSE])

(* The text of a view.                                                     *)
RegisterPlaces == {<<r \div RegRows, r % RegRows>> : r \in 0 .. NRegs - 1}

MemoryPlaces(w) ==
  {<<col, address_of(w.start + l * BytesPerLine)>> : col \in 0 .. 2, l \in 0 .. Rows - 1}

PlacesOf(w) == IF IsMemory(w) THEN MemoryPlaces(w) ELSE RegisterPlaces

PositionsOf(w) == {Position(place, ch) : place \in PlacesOf(w), ch \in session.chars}

Select(j, s) == Become(j, [View(j) EXCEPT !.sel = s])

SelectInView(j) ==
  /\ Can(IF IsMemory(View(j)) THEN "select bytes" ELSE "select registers")
  /\ \E p \in PositionsOf(View(j)) :
       \/ \E clicks \in session.clicks, shift \in BOOLEAN :
            Select(j, Pressed(IsMemory(View(j)), PlacesOf(View(j)), View(j).sel, p,
                              clicks, shift))
       \/ /\ View(j).sel.state \in {"down", "dragging"}
          /\ Select(j, Dragged(IsMemory(View(j)), PlacesOf(View(j)), View(j).sel, p))

ReleaseInView(j) ==
  View(j).sel.state \in {"down", "dragging"} /\ Select(j, Released(View(j).sel))

(* provenance_query takes the window that tw points to where the register  *)
(* or the region was last written.                                         *)
RegionsAsked(w) ==
  IF IsMemory(w)
  THEN UNION {RegionsUnder(w.sel, p) : p \in PositionsOf(w)}
  ELSE {<<r, 1>> : r \in 0 .. NRegs - 1}

SpaceOf(w) == IF IsMemory(w) THEN mem_space ELSE reg_space

LastWrite(w, region) ==
  last_touched(node_at_line(ix.tree, w.line).mem, SpaceOf(w), region[1],
              region[1] + region[2] - 1)

Provenance(j) ==
  /\ Can("provenance") /\ Usable(View(j)) /\ View(j).tw # 0
  /\ \E region \in RegionsAsked(View(j)) :
       GotoPhysline(IndexOf(View(j).tw, traces.slots), LastWrite(View(j), region))

CloseView(j) ==
  Can("close view") /\ views' = Freed(views, {j}) /\ UNCHANGED <<session, traces>>

(* ~TraceWindow takes its views with it, and the last one takes all.       *)
ViewsOf(i) == {j \in Open(views) : View(j).list = At(i).id}

ClosedWith(left, rest) ==
  /\ traces' = left
  /\ views' = IF left.slots = <<>> THEN NoWindows
              ELSE [rest EXCEPT !.slots = WithMenus(@, left.slots)]

CloseTrace(i) ==
  /\ Can("close trace")
  /\ ClosedWith(Freed(traces, {i}), Freed(views, ViewsOf(i)))
  /\ UNCHANGED session

-----------------------------------------------------------------------------
FirstWindow(id) == Allocated(NoWindows, TraceWindow(id))

FirstView(id, w) ==
  Allocated(NoWindows, [Updated(SubsidiaryView("core", id), w.vu.log.first, {})
                          EXCEPT !.menu = 1])

(* OnInit: make_trace_window.  Where the first window is makes no          *)
(* difference.                                                             *)
Init ==
  /\ session \in Sessions
  /\ traces = FirstWindow(Min(Ids))
  /\ views = FirstView(Min(Ids), traces.slots[1])

OnTraceWindow(i) ==
  \/ Home(i) \/ End(i) \/ LineEdit(i) \/ TimeEdit(i) \/ PCEdit(i)
  \/ \E dir \in {-1, 1} : PCNextPrev(i, dir) \/ ExcNextPrev(i, dir)
  \/ Down(i) \/ Up(i) \/ PageDown(i) \/ PageUp(i)
  \/ Left(i) \/ Right(i) \/ FoldAll(i)
  \/ Paint(i) \/ ClickBox(i) \/ Press(i) \/ Drag(i) \/ Release(i)
  \/ Scroll(i) \/ Recentre(i)
  \/ NewRegisters(i) \/ NewStack(i) \/ NewMemory(i) \/ MemPromptEnded(i)
  \/ MenuUnfold(i) \/ ContextMenu(i)
  \/ CloseTrace(i)

OnView(j) ==
  \/ Relink(j) \/ FixLine(j) \/ ScrollMemory(j) \/ AddrEdit(j)
  \/ SelectInView(j) \/ ReleaseInView(j) \/ Provenance(j) \/ CloseView(j)

Next ==
  \/ \E i \in Open(traces) : OnTraceWindow(i)
  \/ \E j \in Open(views) : OnView(j)
  \/ NewTrace

Spec == Init /\ [][Next]_vars

-----------------------------------------------------------------------------
RegistryExact(reg) ==
  /\ reg.free = DOMAIN reg.slots \ Open(reg)
  /\ reg.slots # <<>> => reg.slots[Len(reg.slots)] # NoWindow

(* An index is free just where its slot is empty, and the last slot never  *)
(* is; no two windows are at one address; a view in the list of a window   *)
(* points to that window and says so in its menu; and no view outlives the *)
(* last trace window (the registries of TraceWindow and SubsidiaryView).   *)
WindowsRegistered ==
  /\ RegistryExact(traces) /\ RegistryExact(views)
  /\ \A i, k \in Open(traces) : At(i).id = At(k).id => i = k
  /\ \A j \in Open(views) :
       LET w == View(j)
       IN w.list # 0 => /\ w.tw = w.list
                        /\ w.menu = IndexOf(w.list, traces.slots)
                        /\ w.menu # 0
  /\ Open(traces) = {} => Open(views) = {}

-----------------------------------------------------------------------------
(* A view in step with its window shows the state at the window's          *)
(* position and, if it follows the stack pointer, whether that is known    *)
(* there and where it points.                                              *)
InStep(w, v) ==
  LET at == evaluations(v, stack_pointer)
  IN /\ w.line = v.log.first
     /\ IsMemory(w) /\ w.follows =>
          /\ w.known = (at # {})
          /\ at # {} => w.start \in at

Following(i, j) ==
  i \in Open(traces) /\ j \in Open(views) /\ View(j).list = At(i).id

(* Why a view that was in the list of a window may not be in step with it: *)
(* it has been unfolded from the window's context menu, which moves the    *)
(* position after the views were told; it has been scrolled; or it was not *)
(* in step before, and the window has not moved since.                     *)
LeftBehind(i, j) ==
  /\ Following(i, j)
  /\ \/ MenuUnfold(i)
     \/ ScrollMemory(j)
     \/ At(i).vu' = At(i).vu /\ ~InStep(View(j), At(i).vu)

(* Every step leaves each view in step with the window whose list it is    *)
(* in: a view that joins the list, all the views in it when the window's   *)
(* position or folds change, and those that were in step before; with no   *)
(* other exceptions than LeftBehind names (update_location,                *)
(* update_subviews, add_subview, unfold_ui_action).                        *)
ViewsFollow ==
  [][\A i \in Open(traces)', j \in Open(views)' :
       View(j).list' = At(i).id' =>
         InStep(View(j), At(i).vu)' \/ LeftBehind(i, j)]_vars

(* What is drawn in a trace window are lines of the trace. *)
DrawnPlacesOK ==
  \A i \in Open(traces) : PlacesDrawn(At(i).drawn) \subseteq Int \X Int

(* A selection runs forwards and holds the place it was begun at, with any *)
(* grain, however it is dragged or extended (left_down, mouse_move,        *)
(* rewrite_selection_endpoints).  Memory windows are excepted: there an    *)
(* extension into another column may turn it round.                        *)
HoldsAnchor(s) ==
  HasEnds(s) => ~Precedes(s.anchor, s.start) /\ ~Precedes(s.end, s.anchor)

SelectionsHoldAnchor ==
  /\ \A i \in Open(traces) : HoldsAnchor(At(i).sel)
  /\ \A j \in Open(views) : ~IsMemory(View(j)) => HoldsAnchor(View(j).sel)
=============================================================================
