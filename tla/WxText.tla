-------------------------------- MODULE WxText --------------------------------
(***************************************************************************)
(* Selecting text in a window of the GUI browser (TextViewWindow in        *)
(* browser/wx.cpp).                                                        *)
(*                                                                         *)
(* A position is a tuple in the order its window compares positions by:    *)
(* record, line of it and character in a trace window, column, row and     *)
(* character in the others.  Text is drawn in words, which are the same in *)
(* every line; what a window has drawn is a set of lines, and a position   *)
(* without its character is a line.                                        *)
(***************************************************************************)
EXTENDS Integers, Sequences, FiniteSets, FiniteSetsExt

CONSTANTS
  Words,          \* first and last character of each word of a line
  MaxChar         \* UINT_MAX, as a character's index

ASSUME WordsAssumption ==
  MaxChar \in Nat /\ Words \subseteq (0 .. MaxChar) \X (0 .. MaxChar)

Unknown == <<0, 0, 0>>

(* logpos_dist and PosDistance *)
Distance(p, q) == [i \in 1 .. 3 |-> p[i] - q[i]]

SignOf(d) == LET i == Min({k \in 1 .. 3 : d[k] # 0} \cup {3}) IN d[i]

Compare(p, q) == SignOf(Distance(p, q))
Precedes(p, q) == Compare(p, q) < 0

LineOf(p) == <<p[1], p[2]>>
CharOf(p) == p[3]
WithChar(p, ch) == <<p[1], p[2], ch>>

(* find_min_char_index_word, find_max_char_index_word and                  *)
(* find_max_char_index_line: only what is drawn is known.                  *)
WordsAt(drawn, p) ==
  {w \in Words : LineOf(p) \in drawn /\ w[1] <= CharOf(p) /\ CharOf(p) <= w[2]}

WordsOfLine(drawn, p) == {w \in Words : LineOf(p) \in drawn}

FirstChar(drawn, grain, p) ==
  IF grain = "line" THEN 0
  ELSE Min({CharOf(p)} \cup {w[1] : w \in WordsAt(drawn, p)})

LastChar(drawn, grain, p) ==
  Max({CharOf(p)} \cup
      {w[2] : w \in IF grain = "line" THEN WordsOfLine(drawn, p)
                    ELSE WordsAt(drawn, p)})

(* TextViewWindow::rewrite_selection_endpoints, which returns both.        *)
Widened(drawn, grain, p, q) ==
  LET Low(a) == WithChar(a, FirstChar(drawn, grain, a))
      High(a) == WithChar(a, LastChar(drawn, grain, a))
  IN CASE grain = "character" -> <<p, q>>
       [] grain # "character" /\ Precedes(q, p) -> <<High(p), Low(q)>>
       [] OTHER -> <<Low(p), High(q)>>

(* MemoryWindow::rewrite_selection_endpoints: one address, or bytes in     *)
(* the column of the anchor.                                               *)
CharsPerByte(col) == IF col = 1 THEN 3 ELSE 1

OneAddress(grain, anchor, cursor) ==
  LET ch == CASE cursor[2] < anchor[2] -> 0
              [] cursor[2] > anchor[2] -> MaxChar
              [] cursor[2] = anchor[2] /\ cursor[1] # 0 -> MaxChar
              [] OTHER -> CharOf(cursor)
  IN CASE grain = "character" -> <<anchor, WithChar(anchor, ch)>>
       [] grain # "character" /\ ch < CharOf(anchor) ->
            <<WithChar(anchor, MaxChar), WithChar(anchor, 0)>>
       [] OTHER -> <<WithChar(anchor, 0), WithChar(anchor, MaxChar)>>

SameColumn(anchor, cursor) ==
  LET byte == IF cursor[1] = 0 THEN 0
              ELSE CharOf(cursor) \div CharsPerByte(cursor[1])
      moved == <<anchor[1], cursor[2], byte * CharsPerByte(anchor[1])>>
      second == anchor[1] = 1 /\ Precedes(anchor, moved)
  IN WithChar(moved, CharOf(moved) + IF second THEN 1 ELSE 0)

WidenedInMemory(grain, anchor, cursor) ==
  CASE anchor[1] = 0 -> OneAddress(grain, anchor, cursor)
    [] anchor[1] # 0 /\ cursor[1] # anchor[1] ->
         <<anchor, SameColumn(anchor, cursor)>>
    [] OTHER -> <<anchor, cursor>>

Endpoints(memory, drawn, grain, anchor, cursor) ==
  IF memory THEN WidenedInMemory(grain, anchor, cursor)
  ELSE Widened(drawn, grain, anchor, cursor)

-----------------------------------------------------------------------------
(* The selection of a window. *)

NoSelection ==
  [state |-> "none", grain |-> "character",
   anchor |-> Unknown, start |-> Unknown, end |-> Unknown]

HasEnds(s) == s.state \in {"dragging", "selected"}

(* Mutant of Between: the ends are taken as they come.                         *)
BetweenUnsorted(s, ends) ==
  [s EXCEPT !.state = "dragging", !.start = ends[1], !.end = ends[2]]

(* What is selected from the anchor to the cursor, in order.               *)
Between(s, ends) ==
  IF Precedes(ends[2], ends[1])
  THEN [s EXCEPT !.state = "dragging", !.start = ends[2], !.end = ends[1]]
  ELSE [s EXCEPT !.state = "dragging", !.start = ends[1], !.end = ends[2]]

Grains == <<"character", "word", "line">>

(* left_down on text: shift moves the nearer end of a selection ...        *)
Extended(memory, drawn, s, p) ==
  LET ds == Distance(p, s.start)
      de == Distance(s.end, p)
      atStart == SignOf(ds) <= 0 \/ (SignOf(de) > 0 /\ Precedes(ds, de))
      start == IF atStart THEN p ELSE s.start
      end == IF atStart THEN s.end ELSE p
      ends == Endpoints(memory, drawn, s.grain, start, end)
  IN [s EXCEPT !.state = "dragging",
               !.anchor = IF atStart THEN s.end ELSE s.start,
               !.start = ends[1], !.end = ends[2]]

(* ... and otherwise a click drops an anchor, several select a word or a   *)
(* line at once.                                                           *)
Anchored(memory, drawn, s, p, clicks) ==
  LET at == [s EXCEPT !.state = "down", !.grain = Grains[clicks],
                      !.anchor = p]
  IN IF clicks = 1 THEN at
     ELSE Between(at, Endpoints(memory, drawn, at.grain, p, p))

Pressed(memory, drawn, s, p, clicks, shift) ==
  IF shift /\ s.state = "selected" THEN Extended(memory, drawn, s, p)
  ELSE Anchored(memory, drawn, s, p, clicks)

(* mouse_move with the button held *)
Dragged(memory, drawn, s, p) ==
  IF s.state = "dragging" \/ (s.state = "down" /\ p # s.anchor)
  THEN Between(s, Endpoints(memory, drawn, s.grain, s.anchor, p))
  ELSE s

(* left_up *)
Released(s) ==
  CASE s.state = "down" -> [s EXCEPT !.state = "none"]
    [] s.state = "dragging" -> [s EXCEPT !.state = "selected"]
    [] OTHER -> s

-----------------------------------------------------------------------------
(* get_region_under_pos: the first address and the size of what the mouse  *)
(* is over in a memory window, or none.                                    *)
AddressAt(p) == p[2] + CharOf(p) \div CharsPerByte(p[1])

SelectedRegion(s) ==
  <<AddressAt(s.start), AddressAt(s.end) - AddressAt(s.start) + 1>>

LowBit(a) == Max({b \in {1, 2, 4, 8} : a % b = 0})

(* Between two hex bytes: the aligned word whose middle this is.           *)
WordAcross(a) ==
  {<<a - (a % (2 * b)), 2 * b>> : b \in {LowBit(a)} \cap {1, 2, 4}}

RegionsUnder(s, p) ==
  CASE /\ s.state = "selected" /\ s.start[1] # 0 /\ s.end[1] # 0
       /\ ~Precedes(p, s.start) /\ ~Precedes(s.end, p) -> {SelectedRegion(s)}
    [] p[1] = 1 /\ CharOf(p) % 3 = 2 -> WordAcross(AddressAt(p) + 1)
    [] p[1] = 0 -> {}
    [] OTHER -> {<<AddressAt(p), 1>>}
=============================================================================
