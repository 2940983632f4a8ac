-------------------------------- MODULE MCWx --------------------------------
(***************************************************************************)
(* Properties of WxUI for TLC, and the sessions it runs.                   *)
(***************************************************************************)
EXTENDS WxUI, MCView

Session(trace, can, room, lines, times, addresses, chars, clicks) ==
  [index |-> Indexed(trace), can |-> can, room |-> room, lines |-> lines,
   times |-> times, addresses |-> addresses, chars |-> chars, clicks |-> clicks]

SomeSessions ==
  {Session(NestedCalls, {"Left", "Right", "Down", "Up", "line"}, 1, {3}, {}, {},
           {}, {}),
   Session(NestedCalls, {"mouse", "boxes"}, 1, {}, {}, {}, {}, {}),
   Session(CallInCall, {"mouse", "boxes", "fold all", "Down"}, 1, {}, {}, {}, {},
           {}),
   Session(CallInCall, {"mouse", "menu unfold", "fold all"}, 1, {}, {}, {}, {}, {}),
   Session(CallInCall, {"mouse", "menu"}, 1, {}, {}, {}, {}, {}),
   Session(CallWithAccess, {"mouse", "menu", "menu unfold"}, 2, {}, {}, {}, {}, {}),
   Session(OneCall, {"mouse", "text", "End", "fold all"}, 1, {}, {}, {}, {0},
           {1}),
   Session(Loop, {"Home", "End", "PageUp", "PageDown", "pc", "exception", "time",
                  "recentre", "single", "scroll"}, 2, {}, {10, 15}, {}, {}, {}),
   Session(FewChanges, {"mouse", "text", "End"}, 1, {}, {}, {}, {0, 3}, {2}),
   Session(FewChanges, {"End", "new trace", "close trace", "close view", "link",
                        "fix"}, 2, {2}, {}, {}, {}, {}),
   Session(FewChanges, {"Down", "stack", "address", "link", "scroll memory"}, 2,
           {}, {}, {Constant(1), StackPointer}, {0}, {}),
   Session(FewChanges, {"memory", "provenance", "select bytes"}, 2, {}, {},
           {Constant(1)}, {2}, {1, 2}),
   Session(Loop, {"select registers"}, 1, {}, {}, {}, {0, 2, 4}, {1, 2, 3})}

SomeWords == {<<0, 1>>, <<3, 4>>}

-----------------------------------------------------------------------------
(* Types: positions are records of the trace, a view shows a line of it.   *)
TraceOK(w, records) ==
  /\ w.id \in Ids
  /\ {w.vu.vis, w.vu.log} \subseteq records
  /\ w.prompt \in BOOLEAN /\ w.row \in 0 .. Rows - 1

ViewOK(w, lines) ==
  /\ w.kind \in RegisterKinds \cup {"memory"}
  /\ {w.tw, w.list} \subseteq Ids \cup {0}
  /\ w.menu \in 0 .. MaxTraces
  /\ w.line \in lines /\ w.diff \in lines \cup {0}
  /\ IsMemory(w) => w.start \in 0 .. AddrSpan - 1

TypeOK ==
  LET records == RecordsOf(ix)
  IN /\ \A i \in Open(traces) : TraceOK(At(i), records)
     /\ \A j \in Open(views) : ViewOK(View(j), {r.first : r \in records})
     /\ DrawnPlacesOK

-----------------------------------------------------------------------------
(* Folds. *)

(* A line shows with all the lines of its call and of the calls around it: *)
(* with every line from which no shallower one keeps it apart.             *)
WholeCalls(visible) ==
  LET depth == [l \in LinesOf(ix) |-> DepthAt(ix, l)]
  IN \A line \in visible, l \in LinesOf(ix) :
       \/ l \in visible
       \/ \E k \in (line .. l) \cup (l .. line) : depth[k] < depth[l]

(* A window that shows its trace right: its folds translate lines both     *)
(* ways as counting the visible ones does, the underlined line is visible, *)
(* the logical node is it or hidden behind it, and the first line in the   *)
(* window is not beyond the end of what is visible.                        *)
ShownRight(w) ==
  LET visible == VisibleLines(ix, w.vu)
      Before(line) == Cardinality({l \in visible : l < line})
  IN /\ WholeCalls(visible)
     /\ \A line \in visible : VisibleToPhysical(ix, w.vu.folds, Before(line)) =
                                [ok |-> TRUE, line |-> line]
     /\ \A line \in LinesOf(ix) :
          PhysicalToVisible(ix, w.vu.folds, line) = Before(line)
     /\ Coherent(w.vu, visible)
     /\ w.wintop \in 0 .. TotalVisibleLines(w.vu.folds)

HiddenNow(i, node) == node.first \notin VisibleLines(ix, At(i).vu)

(* A click on a box that was painted before the folds changed, or folding  *)
(* or unfolding from the menu of a node that was painted and is hidden by  *)
(* now: what it folds is what was there when it was painted.               *)
LateClick(i) ==
  \/ At(i).drawn.folds # At(i).vu.folds /\ ClickBox(i)
  \/ \E node \in NodesDrawn(i) :
       HiddenNow(i, node) /\ (MenuFoldOn(i, node) \/ MenuUnfoldOn(i, node))

(* A window opens showing its trace right, and is left so by every key,    *)
(* click, fold and move; only a late click may leave a call shown without  *)
(* the one around it, and then the lines and the position may be wrong     *)
(* (FoldChangeWrapper, update_location, fold_ui_action, unfold_ui_action). *)
PositionsCoherent ==
  /\ \A i \in Open(traces) : ShownRight(At(i))
  /\ [][\A i \in Open(traces)' :
           \/ i \in Open(traces) /\ UNCHANGED <<At(i).vu, At(i).wintop>>
           \/ ShownRight(At(i)')
           \/ i \in Open(traces) /\ (LateClick(i) \/ ~ShownRight(At(i)))]_vars
=============================================================================
