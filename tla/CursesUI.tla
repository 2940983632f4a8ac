------------------------------ MODULE CursesUI ------------------------------
(***************************************************************************)
(* The terminal browser (browser/curses.cpp): a screen with the trace      *)
(* buffer, below it windows on registers and memory, and a minibuffer for  *)
(* arguments.  Every action is a key; between two keys the screen is       *)
(* drawn, which changes nothing a key depends on but regs_per_line, and    *)
(* that is PerLine in every line but the last.                             *)
(*                                                                         *)
(* A window shows the state after a record, which its first line stands    *)
(* for; memroot and line always change together.  Syntax highlighting,     *)
(* symbolic branch targets and the interpretation of a register as an      *)
(* address only change how things look, and are left out.                  *)
(***************************************************************************)
EXTENDS TraceView, TLC

LOCAL INSTANCE SequencesExt
LOCAL INSTANCE FiniteSetsExt

CONSTANTS
  Sessions,       \* indexes, terminal heights, and the keys the user knows
  NRegs,          \* registers in a register window ...
  PerLine,        \* ... and how many fit a line
  BytesPerLine,   \* of a memory window
  MemoryRows,     \* desired_height of a new memory window, 4 in the code
  MaxRows,        \* bound on the height a memory window grows to
  MaxWindows      \* bound on the number of windows

VARIABLES
  session,        \* one of Sessions; it never changes
  height,         \* of the terminal
  vu,             \* TraceBuffer::vu
  scrtop,         \* visline_scrtop
  event,          \* selected_event
  centring,       \* ctrl_l_state, or NoCentring after another key
  subs,           \* win_subs, from the top
  focus,          \* win_selected: 0 is the trace buffer
  ask,            \* the minibuffer: what is asked and by which window
  status          \* "main", "help" or "quit"

vars == <<session, height, vu, scrtop, event, centring, subs, focus, ask,
          status>>

ix == session.index

NoEvent == UintMax
NoCentring == -1
NoAsk == [type |-> "none", asker |-> 0]

Unsigned(n) == n % (UintMax + 1)
CeilDiv(a, b) == (a + b - 1) \div b

(* The memory tree of the record a window shows. *)
MemAt(line) == NodeAtLine(ix.tree, line).mem

-----------------------------------------------------------------------------
(* Windows. *)

Kinds == {"core", "double", "single", "neon", "mve"}

Common(kind) == [kind |-> kind, line |-> 0, ext |-> 0, locked |-> FALSE,
                 diff |-> 0, since |-> 0]

RegisterWindow(kind) ==
  Common(kind) @@ [shown |-> NRegs, sel |-> 0, top |-> 0]

(* compute_cursor_addr *)
Followed(w, v, expr) ==
  LET at == Evaluations(v, expr)
      Moved(a) == [w EXCEPT !.known = TRUE, !.cursor = a,
                            !.start = a - (a % BytesPerLine)]
  IN IF at = {} THEN [w EXCEPT !.known = FALSE]
     ELSE Moved(CHOOSE a \in at : TRUE)

(* set_cursor_addr_expr: a constant expression is only followed once.      *)
MemoryWindow(v, expr) ==
  LET w == Common("memory") @@ [rows |-> MemoryRows, start |-> 0, cursor |-> 0,
                                known |-> FALSE, follows |-> expr.variable]
  IN Followed(w, v, expr)

IsMemory(w) == w.kind = "memory"

Unlocked(w) == [w EXCEPT !.line = w.ext, !.diff = 0, !.since = 0]

(* Mutant: a locked window hears too. *)
HeardLocked(w, line) == Unlocked([w EXCEPT !.ext = line])

(* set_memroot; a memory window recomputes its address locked or not.      *)
Heard(w, line) ==
  IF w.locked THEN [w EXCEPT !.ext = line] ELSE Unlocked([w EXCEPT !.ext = line])

Following(w, v) ==
  IF IsMemory(w) /\ w.follows THEN Followed(w, v, StackPointer) ELSE w

Told(v, w) == Following(Heard(w, v.log.first), v)

(* Mutant: the first change after the earlier record does not count.       *)
DiffedLate(w, line1, line2) ==
  LET later == NodeAtLine(ix.tree, Max2(line1, line2)).first
  IN IF line1 # line2 /\ later # 0
     THEN [w EXCEPT !.diff = later, !.since = Min2(line1, line2) + 2]
     ELSE [w EXCEPT !.diff = 0, !.since = 0]

(* setup_diff_lines: the later tree, and where changes begin to count.     *)
Diffed(w, line1, line2) ==
  LET later == NodeAtLine(ix.tree, Max2(line1, line2)).first
  IN IF line1 # line2 /\ later # 0
     THEN [w EXCEPT !.diff = later, !.since = Min2(line1, line2) + 1]
     ELSE [w EXCEPT !.diff = 0, !.since = 0]

DiffedIfNotLocked(w, line) == IF w.locked THEN w ELSE Diffed(w, line, w.line)

(* The windows' own goto functions. *)
ShownAt(w, node) ==
  IF node = NoRecord THEN w ELSE [w EXCEPT !.line = node.first, !.diff = 0, !.since = 0]

AllTold(v, ws) == [i \in DOMAIN ws |-> Told(v, ws[i])]

(* What format_reg highlights. *)
Highlighted(w, reg) ==
  LET Shown(mod) == w.diff # 0 /\ mod.found /\ mod.lo < reg + 1
  IN Shown(FindNextMod(MemAt(w.diff), Registers, reg, w.since, 1))

-----------------------------------------------------------------------------
(* The layout: get_height_for_width and resize_wins. *)

Wanted(w) == IF IsMemory(w) THEN w.rows + 1
             ELSE Max2(CeilDiv(w.shown, PerLine), 1) + 1

(* What is left for the windows after the i-th. *)
RoomAfter(ws, h, i) ==
  FoldLeft(LAMBDA room, w : room - Min2(Wanted(w), room), h - 1,
           SubSeq(ws, 1, i))

HeightOf(ws, h, i) == RoomAfter(ws, h, i - 1) - RoomAfter(ws, h, i)
MainHeight(ws, h) == RoomAfter(ws, h, Len(ws))

(* set_size of the windows below. *)
Resized(ws) ==
  [i \in DOMAIN ws |-> IF IsMemory(ws[i]) THEN ws[i]
                       ELSE [ws[i] EXCEPT !.top = 0]]

(* Mutant: the line below the last one counts as shown.                    *)
TopLineLow(hm1, top, bot, force, posn, posd) ==
  LET above == Unsigned(Unsigned(hm1 - (bot - top)) * posn) \div posd
  IN IF ~force /\ top >= scrtop /\ bot <= Unsigned(scrtop + hm1) + 1
     THEN scrtop
     ELSE top - Min2(above, top)

(* update_scrtop with hm1 lines to show, in unsigned arithmetic: hm1 is -1 *)
(* where the windows below leave nothing.                                  *)
TopLine(hm1, top, bot, force, posn, posd) ==
  LET above == Unsigned(Unsigned(hm1 - (bot - top)) * posn) \div posd
  IN IF ~force /\ top >= scrtop /\ bot <= Unsigned(scrtop + hm1)
     THEN scrtop
     ELSE top - Min2(above, top)

TopLineFor(lines, hm1, top, force, posn, posd) ==
  TopLine(hm1, top, top + Min2(Unsigned(hm1), lines), force, posn, posd)

ScrTop(v, ws, h, force, posn, posd) ==
  TopLineFor(v.vis.lines, MainHeight(ws, h) - 1,
             PhysicalToVisible(ix, v.folds, v.vis.first), force, posn, posd)

(* The end of most commands. *)
Show(v, posn, posd, ws) ==
  /\ vu' = v
  /\ scrtop' = ScrTop(v, ws, height, FALSE, posn, posd)
  /\ subs' = ws
  /\ event' = NoEvent

(* Mutant of ShowTo: nobody is told. *)
ShowToSilently(v, posn, posd) == Show(v, posn, posd, subs)

(* TraceBuffer's goto functions. *)
ShowTo(v, posn, posd) == Show(v, posn, posd, AllTold(v, subs))

Goto(node, posn, posd) ==
  IF node = NoRecord
  THEN UNCHANGED <<vu, scrtop, subs, event>>
  ELSE ShowTo(GotoNode(ix, vu, node), posn, posd)

GotoLimit(end) == Goto(BufferLimit(ix.tree, end), IF end THEN 1 ELSE 0, 1)
GotoPhysline(line) == Goto(LineTarget(ix, line), 1, 2)

(* resize_wins, and the trace buffer's set_size. *)
Relayout(ws, h) ==
  /\ subs' = Resized(ws)
  /\ scrtop' = ScrTop(vu, ws, h, FALSE, 1, 2)

-----------------------------------------------------------------------------
(* Keys of the trace buffer. *)

Idle == status = "main" /\ ask = NoAsk

MainKey(k) ==
  /\ Idle /\ focus = 0
  /\ k \in session.keys
  /\ UNCHANGED <<session, height, focus, status>>

NoPrompt == centring' = NoCentring /\ UNCHANGED ask

(* KEY_DOWN and KEY_UP show what changed on the way. *)
AllDiffed(ws, line) == [i \in DOMAIN ws |-> DiffedIfNotLocked(ws[i], line)]

ShowStep(v, posn) ==
  Show(v, posn, 1, AllDiffed(AllTold(v, subs), vu.log.first))

Step(k, node, posn) ==
  /\ MainKey(k) /\ NoPrompt
  /\ IF node = NoRecord
     THEN UNCHANGED <<vu, scrtop, subs, event>>
     ELSE ShowStep(GotoVisibleNode(ix, vu, node), posn)

Down == Step("Down", NextVisible(ix, vu, vu.vis), 1)
Up == Step("Up", PrevVisible(ix, vu, vu.vis), 0)

Home == MainKey("Home") /\ NoPrompt /\ GotoLimit(FALSE)
End == MainKey("End") /\ NoPrompt /\ GotoLimit(TRUE)

(* The pages do not tell the windows below. *)
Page(k, node, end) ==
  /\ MainKey(k) /\ NoPrompt
  /\ IF node = NoRecord
     THEN GotoLimit(end)
     ELSE Show(GotoVisibleNode(ix, vu, node), IF end THEN 0 ELSE 1, 1, subs)

PageDown ==
  Page("PageDown", NodeByVisline(ix, vu, scrtop + MainHeight(subs, height)),
       TRUE)
PageUp == Page("PageUp", NodeByVisline(ix, vu, scrtop - 1), FALSE)

(* 'a' cycles through the lines of the visible node. *)
SelectEvent ==
  /\ MainKey("a") /\ NoPrompt
  /\ LET next == Unsigned(event + 1)
     IN event' = IF next >= vu.vis.lines THEN NoEvent ELSE next
  /\ UNCHANGED <<vu, scrtop, subs>>

(* Return, on a line that reads or writes some range or none.              *)
ToLine(line) ==
  IF line = 0 THEN UNCHANGED <<vu, scrtop, subs, event>> ELSE GotoPhysline(line)

FollowEvent ==
  /\ MainKey("Return") /\ NoPrompt
  /\ LET prev == GetPreviousNode(ix.tree, vu.vis)
         ref == IF prev = NoRecord THEN vu.vis ELSE prev
     IN \E p \in AccessesOfLine(vu.vis, event) :
          ToLine(LastTouched(ref.mem, p.space, p.lo, p.hi))

(* '-', '[' and ']' on the function around the position.                   *)
FoldDepth(k, depth) ==
  CASE k = "]" -> UintMax
    [] k = "[" -> depth
    [] k = "-" -> depth - 1

Folded(v, first, last, max) ==
  [v EXCEPT !.folds = SetFoldState(ix, @, first, last, <<0, max>>)]

(* Mutant: the underlined node may now be hidden. *)
BothUpdatedLogical(v) == UpdateLogical(ix, v)

BothUpdated(v) == UpdateLogical(ix, UpdateVisible(ix, v))

FoldRange(k, range) ==
  IF range = NoRange
  THEN UNCHANGED <<vu, scrtop, subs, event>>
  ELSE ShowTo(BothUpdated(Folded(vu, range.first, range.last,
                                 FoldDepth(k, range.depth))), 1, 1)

Fold(k) ==
  MainKey(k) /\ NoPrompt /\ FoldRange(k, ContainingFunction(ix, vu, vu.vis))

(* '+': a hidden position stays what it is, or else the position comes to  *)
(* the start of the function that unfolds, which in the mutant it always   *)
(* does.                                                                   *)
UnfoldedToStart(wider, hidden) == UpdateLogical(ix, wider)

UnfoldedTo(wider, hidden) ==
  IF hidden THEN UpdateVisible(ix, wider) ELSE UpdateLogical(ix, wider)

UnfoldedRange(v, range) ==
  IF range = NoRange
  THEN v
  ELSE UnfoldedTo(Folded(v, range.first, range.last, range.depth),
                  PositionHidden(ix, v))

Unfolded(v) == UnfoldedRange(v, FoldedFunctionAfter(ix, v, v.vis))

Unfold ==
  /\ MainKey("+") /\ NoPrompt
  /\ IF FoldedFunctionAfter(ix, vu, vu.vis) = NoRange
     THEN UNCHANGED <<vu, scrtop, subs, event>>
     ELSE ShowTo(Unfolded(vu), 1, 1)

(* '{' and '}' on all of the trace. *)
FoldAll(k, max) ==
  /\ MainKey(k) /\ NoPrompt
  /\ ShowTo(BothUpdated(Folded(vu, 1, LastLine(ix), max)), 1, 2)

(* 'n', 'N', 'e' and 'E'. *)
ToPC(pc, dir) == Goto(PCTarget(ix, vu, pc, dir), 1, 2)

SamePC(k, dir) ==
  /\ MainKey(k) /\ NoPrompt
  /\ IF CurrentPCs(ix, vu) = {}
     THEN UNCHANGED <<vu, scrtop, subs, event>>
     ELSE \E pc \in CurrentPCs(ix, vu) : ToPC(pc, dir)

ToException(k, dir) ==
  MainKey(k) /\ NoPrompt /\ Goto(ExceptionTarget(ix, vu, dir), 1, 2)

(* ^L: to the middle, then to the top, the bottom and the middle again.    *)
Centre ==
  /\ MainKey("^L")
  /\ centring' = IF centring = NoCentring THEN 1 ELSE (centring + 2) % 3
  /\ scrtop' = ScrTop(vu, subs, height, TRUE, centring', 2)
  /\ UNCHANGED <<vu, event, subs, ask>>

(* add_subwin, and the news that every window is told then. *)
AddSubwin(w) ==
  LET ws == Append(subs, w)
  IN /\ Len(subs) < MaxWindows
     /\ subs' = AllTold(vu, Resized(ws))
     /\ scrtop' = ScrTop(vu, ws, height, FALSE, 1, 2)

(* 'r', 'D', 'S', 'V', 'M': set_crdisp and its like.                       *)
ToggleWindow(kind) ==
  LET open == {i \in DOMAIN subs : subs[i].kind = kind}
      without == SelectSeq(subs, LAMBDA w : w.kind # kind)
  IN /\ MainKey(kind) /\ NoPrompt
     /\ IF open # {}
        THEN Relayout(without, height)
        ELSE AddSubwin(RegisterWindow(kind))
     /\ UNCHANGED <<vu, event>>

(* Prompts, of the trace buffer and of the windows.                        *)
MainAsks(type) ==
  /\ MainKey(type)
  /\ ask' = [type |-> type, asker |-> 0]
  /\ centring' = NoCentring
  /\ UNCHANGED <<vu, scrtop, event, subs>>

-----------------------------------------------------------------------------
(* Keys of the windows below. *)

SubKey(k) ==
  /\ Idle /\ focus # 0
  /\ k \in session.keys
  /\ UNCHANGED <<session, height, centring, status>>

Become(w) ==
  /\ subs' = [subs EXCEPT ![focus] = w]
  /\ UNCHANGED <<vu, scrtop, event, focus, ask>>

Enlarged(w) ==
  /\ Relayout([subs EXCEPT ![focus] = w], height)
  /\ UNCHANGED <<vu, event, focus, ask>>

Here == subs[focus]
OnRegisters == focus # 0 /\ ~IsMemory(subs[focus])
OnMemory == focus # 0 /\ IsMemory(subs[focus])

(* reg_to_line, which draw() computes. *)
RegToLine(sel) == sel \div PerLine

(* keep_cursor_in_view *)
Selecting(w, sel) ==
  LET line == RegToLine(sel)
      rows == HeightOf(subs, height, focus) - 2
  IN [w EXCEPT !.sel = sel, !.top = Max2(Min2(@, line), line - rows)]

MoveRegister(k, sel) == SubKey(k) /\ OnRegisters /\ Become(Selecting(Here, sel))

RegisterCursor ==
  \/ OnRegisters /\ MoveRegister("Right", (Here.sel + 1) % NRegs)
  \/ OnRegisters /\ MoveRegister("Left", (Here.sel + NRegs - 1) % NRegs)
  \/ OnRegisters /\ MoveRegister("Up", Max0(Here.sel - PerLine))
  \/ OnRegisters /\ MoveRegister("Down", Min2(Here.sel + PerLine, NRegs - 1))

(* '<' and '>': by as many registers as change the number of lines.        *)
ShrinkRegisters ==
  /\ SubKey("<") /\ OnRegisters
  /\ LET lines == CeilDiv(Here.shown, PerLine)
         fewer == {n \in 1 .. Here.shown - 1 : CeilDiv(n, PerLine) < lines}
     IN Enlarged([Here EXCEPT !.shown = IF fewer = {} THEN 1 ELSE Max(fewer)])

GrowRegisters ==
  /\ SubKey(">") /\ OnRegisters
  /\ LET lines == CeilDiv(Here.shown, PerLine)
         more == {n \in Here.shown + 1 .. NRegs : CeilDiv(n, PerLine) > lines}
     IN Enlarged([Here EXCEPT !.shown = IF more = {} THEN NRegs ELSE Min(more)])

(* ^L in any of the windows. *)
ToggleLock ==
  /\ SubKey("^L")
  /\ LET w == [Here EXCEPT !.locked = ~@]
     IN Become(IF w.locked THEN w ELSE Unlocked(w))

SubAsks(type) ==
  /\ SubKey(type)
  /\ type = "d" => OnMemory
  /\ ask' = [type |-> type, asker |-> focus]
  /\ UNCHANGED <<vu, scrtop, event, subs, focus>>

(* Return in a register window, Return and the digits in a memory window:  *)
(* to where the register or the aligned word was touched last.             *)
ToLastWrite(k, space, lo, hi) ==
  /\ SubKey(k)
  /\ ToLine(LastTouched(MemAt(Here.line), space, lo, hi))
  /\ UNCHANGED <<focus, ask>>

RegisterProvenance ==
  OnRegisters /\ ToLastWrite("Return", Registers, Here.sel, Here.sel)

MemoryProvenance(k, size) ==
  /\ OnMemory
  /\ LET lo == Here.cursor - (Here.cursor % size)
     IN ToLastWrite(k, Memory, lo, lo + size - 1)

(* ensure_cursor_on_screen *)
OnScreen(w, cursor) ==
  LET line == cursor - (cursor % BytesPerLine)
      span == Address(BytesPerLine * (HeightOf(subs, height, focus) - 2))
      start == Min2(w.start, line)
  IN [w EXCEPT !.cursor = cursor, !.start = Max2(start, line - Min2(line, span))]

MoveAddress(k, by) ==
  SubKey(k) /\ OnMemory /\ Become(OnScreen(Here, Address(Here.cursor + by)))

AddressCursor ==
  \/ MoveAddress("Up", -BytesPerLine) \/ MoveAddress("Down", BytesPerLine)
  \/ MoveAddress("Left", -1) \/ MoveAddress("Right", 1)

(* '[' and ']' *)
NextChange(k, sign) ==
  /\ SubKey(k) /\ OnMemory
  /\ LET next == Here.cursor + sign
         At(mod) == IF sign > 0 THEN Max2(mod.lo, next) ELSE Min2(mod.hi, next)
         Reached(mod) == IF Here.diff # 0 /\ mod.found
                         THEN OnScreen(Here, Address(At(mod))) ELSE Here
     IN Become(Reached(FindNextMod(MemAt(Here.diff), Memory, Address(next),
                                   Here.since, sign)))

ShrinkMemory ==
  /\ SubKey("<") /\ OnMemory
  /\ IF Here.rows = 1 THEN Become(Here)
     ELSE Enlarged(OnScreen([Here EXCEPT !.rows = @ - 1], Here.cursor))

GrowMemory ==
  /\ SubKey(">") /\ OnMemory
  /\ Here.rows < MaxRows
  /\ Enlarged([Here EXCEPT !.rows = @ + 1])

StopFollowing ==
  SubKey("F") /\ OnMemory /\ Become([Here EXCEPT !.follows = FALSE])

(* remove_mdisp, where the selected window is the one removed.             *)
RemoveSubwin(i) == Relayout(RemoveAt(subs, i), height)

(* Mutant of CloseMemory: the window is gone and selected.                 *)
CloseMemoryStay ==
  /\ SubKey("x") /\ OnMemory
  /\ RemoveSubwin(focus)
  /\ UNCHANGED <<vu, event, ask, focus>>

CloseMemory ==
  /\ SubKey("x") /\ OnMemory
  /\ RemoveSubwin(focus)
  /\ focus' = 0
  /\ UNCHANGED <<vu, event, ask>>

-----------------------------------------------------------------------------
(* The screen: the minibuffer, the selection and the rest.                 *)

Answered == UNCHANGED <<session, height, centring, focus, status>>

(* The trace buffer's minibuf_reply. *)
MainReply ==
  /\ status = "main" /\ ask # NoAsk /\ ask.asker = 0
  /\ Answered
  /\ ask' = NoAsk
  /\ \/ /\ ask.type = "t"
        /\ \E time \in session.times : Goto(TimeTarget(ix, time), 1, 2)
     \/ /\ ask.type = "l"
        /\ \E line \in session.lines : GotoPhysline(line)
     \/ /\ ask.type \in {"p", "P"}
        /\ \E x \in ix.bypc : ToPC(x[1], IF ask.type = "p" THEN 1 ELSE -1)
     \/ /\ ask.type = "m"
        /\ \E a \in session.addresses : AddSubwin(MemoryWindow(vu, a))
        /\ UNCHANGED <<vu, event>>

(* The windows' minibuf_reply locks them, wherever the answer leads.       *)
SubReply ==
  /\ status = "main" /\ ask.asker # 0
  /\ Answered
  /\ ask' = NoAsk
  /\ LET w == subs[ask.asker]
         Becomes(x) == subs' = [subs EXCEPT ![ask.asker] = x]
     IN \/ /\ ask.type = "l"
           /\ \E line \in session.lines :
                Becomes([ShownAt(w, LineTarget(ix, line))
                           EXCEPT !.locked = TRUE])
        \/ /\ ask.type = "t"
           /\ \E time \in session.times :
                Becomes([ShownAt(w, TimeTarget(ix, time))
                           EXCEPT !.locked = TRUE])
        \/ /\ ask.type = "d"
           /\ \E line \in session.lines : Becomes(Diffed(w, line, w.line))
  /\ UNCHANGED <<vu, scrtop, event>>

(* Escape, and what the answer's parser refuses. *)
Cancel ==
  /\ status = "main" /\ ask # NoAsk
  /\ ask' = NoAsk
  /\ Answered
  /\ UNCHANGED <<vu, scrtop, event, subs>>

Tab ==
  /\ Idle /\ "Tab" \in session.keys
  /\ focus' = (focus + 1) % (Len(subs) + 1)
  /\ UNCHANGED <<session, height, vu, scrtop, event, centring, subs, ask,
                 status>>

(* F1 opens the help window over a prompt too; the next key that does not  *)
(* scroll it closes it.                                                    *)
Help ==
  /\ status = "main" /\ "F1" \in session.keys
  /\ status' = "help"
  /\ Relayout(subs, height)
  /\ UNCHANGED <<session, height, vu, event, centring, focus, ask>>

CloseHelp ==
  /\ status = "help"
  /\ status' = "main"
  /\ UNCHANGED <<session, height, vu, scrtop, event, centring, subs,
                 focus, ask>>

Resize ==
  /\ status # "quit"
  /\ \E h \in session.heights \ {height} :
       height' = h /\ Relayout(subs, h)
  /\ UNCHANGED <<session, vu, event, centring, focus, ask, status>>

Quit ==
  /\ Idle /\ "q" \in session.keys
  /\ status' = "quit"
  /\ UNCHANGED <<session, height, vu, scrtop, event, centring, subs, focus,
                 ask>>

-----------------------------------------------------------------------------
(* run_browser: the trace buffer opens with the core registers at line 1.  *)
Init ==
  /\ session \in Sessions
  /\ height \in session.heights
  /\ vu = GotoNode(ix, NewView(ix), LineTarget(ix, 1))
  /\ subs = <<Told(vu, RegisterWindow("core"))>>
  /\ scrtop = 0
  /\ event = NoEvent
  /\ centring = NoCentring
  /\ focus = 0
  /\ ask = NoAsk
  /\ status = "main"

MainKeys ==
  \/ Down \/ Up \/ Home \/ End \/ PageDown \/ PageUp
  \/ SelectEvent \/ FollowEvent
  \/ \E k \in {"-", "[", "]"} : Fold(k)
  \/ Unfold
  \/ FoldAll("{", 1) \/ FoldAll("}", UintMax)
  \/ SamePC("n", 1) \/ SamePC("N", -1)
  \/ ToException("e", 1) \/ ToException("E", -1)
  \/ Centre
  \/ \E kind \in Kinds : ToggleWindow(kind)
  \/ \E type \in {"t", "l", "p", "P", "m"} : MainAsks(type)

SubKeys ==
  \/ RegisterCursor \/ ShrinkRegisters \/ GrowRegisters \/ RegisterProvenance
  \/ AddressCursor \/ ShrinkMemory \/ GrowMemory \/ StopFollowing
  \/ NextChange("]", 1) \/ NextChange("[", -1)
  \/ \E k \in {<<"Return", 1>>, <<"2", 2>>} : MemoryProvenance(k[1], k[2])
  \/ CloseMemory
  \/ ToggleLock
  \/ \E type \in {"l", "t", "d"} : SubAsks(type)

Next ==
  \/ MainKeys \/ SubKeys
  \/ MainReply \/ SubReply \/ Cancel
  \/ Tab \/ Help \/ CloseHelp \/ Resize \/ Quit

Spec == Init /\ [][Next]_vars
=============================================================================
