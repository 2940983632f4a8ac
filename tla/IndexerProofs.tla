--------------------------- MODULE IndexerProofs ---------------------------
(***************************************************************************)
(* Theorems about Indexer for every kind of trace and every threshold: the *)
(* records of an index tile its trace, in the order of their lines and     *)
(* times; every call that is matched has both its ends in found_callrets,  *)
(* at lines that start a record; the call depth of a record is the number  *)
(* of matched calls around it; and a call is only matched with a return    *)
(* that finds its frame still there.                                       *)
(*                                                                         *)
(* All but the last are proved by one inductive invariant, IInv of         *)
(* Indexer; the last needs FramesOK with it.  A handler changes the        *)
(* records only through GotEventCommon, so what it does to them is proved  *)
(* once, for Handles; the handlers themselves add what they do to the      *)
(* calls.                                                                  *)
(***************************************************************************)
EXTENDS Indexer, FiniteSetTheorems, TLAPS

USE ConstantsAssumption

-----------------------------------------------------------------------------
LEMMA LineFacts ==
  ASSUME NEW l \in Line
  PROVE  /\ l.bytes \in Nat \ {0} /\ l.events \in Seq(Event)
         /\ l.events # <<>> => l.bytes > 1
         /\ \A i \in DOMAIN l.events :
              /\ l.events[i].time = l.events[1].time
              /\ l.events[i].kind = "insn" => Len(l.events) = 1
  BY DEF Line

LEMMA EventFacts ==
  ASSUME NEW e \in Event
  PROVE  e.time \in Nat
  BY DEF Event, InsnEvent, RegEvent, OtherEvent

LEMMA InsnFacts ==
  ASSUME NEW e \in Event, e.kind = "insn"
  PROVE  /\ e.pc \in Nat /\ e.width \in Nat
         /\ e.iset \in {"ARM", "THUMB", "A64"} /\ StateOf(e.iset) \in States
  BY DEF Event, InsnEvent, RegEvent, OtherEvent, StateOf, States

LEMMA RegFacts ==
  ASSUME NEW e \in Event, e.kind = "reg"
  PROVE  e.cell \in Cells /\ e.value \in (0 .. ULLONG_MAX) \cup {Unknown}
  BY DEF Event, InsnEvent, RegEvent, OtherEvent

LEMMA MemoryFacts ==
  ASSUME NEW m \in Memory, NEW s \in States
  PROVE  /\ m.cell[SpOf(s)] \in (0 .. ULLONG_MAX) \cup {Unknown}
         /\ m.cell[LrOf(s)] \in (0 .. ULLONG_MAX) \cup {Unknown}
         /\ [m EXCEPT !.iflags = s] \in Memory
<1>1. SpOf(s) \in Cells /\ LrOf(s) \in Cells
  BY DEF SpOf, LrOf, Cells
<1> QED
  BY <1>1 DEF Memory

LEMMA MemoryWrite ==
  ASSUME NEW m \in Memory, NEW c \in Cells,
         NEW v \in (0 .. ULLONG_MAX) \cup {Unknown}
  PROVE  [m EXCEPT !.cell[c] = v] \in Memory
  BY DEF Memory

(* What is left of a line after its first event. *)
LEMMA TailFacts ==
  ASSUME NEW s \in Seq(Event), s # <<>>
  PROVE  /\ Head(s) = s[1] /\ s[1] \in Event /\ Tail(s) \in Seq(Event)
         /\ Len(s) > 0 /\ Len(s) \in Nat /\ Len(Tail(s)) = Len(s) - 1
         /\ \A i \in DOMAIN Tail(s) : Tail(s)[i] = s[i + 1] /\ i + 1 \in DOMAIN s
  OBVIOUS

-----------------------------------------------------------------------------
(***************************************************************************)
(* The records.                                                            *)
(***************************************************************************)
(* Emitting the open record, with the line after it and the byte after it. *)
LEMMA OpenRecordFacts ==
  ASSUME RecordTypes, EventTypes, NEW pos \in Nat, NEW next_line \in Nat
  PROVE  /\ OpenRecord(pos, next_line) \in Record
         /\ OpenRecord(pos, next_line).time = current_time
         /\ OpenRecord(pos, next_line).pos = oldpos
         /\ OpenRecord(pos, next_line).len = pos - oldpos
         /\ OpenRecord(pos, next_line).line = prev_lineno
         /\ OpenRecord(pos, next_line).lines = next_line - prev_lineno
  BY DEF OpenRecord, Record, RecordTypes, EventTypes, NoTime

LEMMA AppendFacts ==
  ASSUME NEW S, NEW s \in Seq(S), NEW r \in S
  PROVE  /\ Append(s, r) \in Seq(S) /\ Append(s, r) # <<>>
         /\ DOMAIN Append(s, r) = 1 .. (Len(s) + 1)
         /\ Len(Append(s, r)) = Len(s) + 1 /\ Len(s) \in Nat
         /\ DOMAIN s = 1 .. Len(s)
         /\ Append(s, r)[Len(s) + 1] = r
         /\ \A i \in DOMAIN s : Append(s, r)[i] = s[i]
  OBVIOUS

(* The sequence with the open record at its end is as good as before, and  *)
(* its last record ends at pos and before next_line.                       *)
LEMMA EmitOK ==
  ASSUME TypeOK, SeqOK, RecordsTile, PositionOK, Reading, seen_any_event,
         NEW pos \in Nat, NEW next_line \in Nat,
         pos > oldpos, next_line > prev_lineno,
         NEW s, s = EmitRecord(pos, next_line)
  PROVE  /\ s \in Seq(Record) /\ s # <<>>
         /\ Sorted(s) /\ Tiles(s, pos, next_line)
         /\ \A i \in DOMAIN s : s[i].time <= current_time /\ s[i].line <= prev_lineno
         /\ FirstLines(s) = FirstLines(seqtree) \cup {prev_lineno}
<1> DEFINE r == OpenRecord(pos, next_line)
<1>0. s = Append(seqtree, r)
  BY DEF EmitRecord, HasRecord, TypeOK, RecordTypes
<1>1. /\ r \in Record /\ r.time = current_time /\ r.pos = oldpos
      /\ r.len = pos - oldpos /\ r.line = prev_lineno
      /\ r.lines = next_line - prev_lineno
  BY OpenRecordFacts DEF TypeOK
<1>2. /\ seqtree \in Seq(Record) /\ prev_lineno \in Nat /\ oldpos \in Nat
      /\ current_time \in Int
  BY DEF TypeOK, RecordTypes, NoTime
<1> HIDE DEF r
<1>3. /\ s \in Seq(Record) /\ s # <<>> /\ DOMAIN s = 1 .. (Len(seqtree) + 1)
      /\ Len(s) = Len(seqtree) + 1 /\ Len(seqtree) \in Nat
      /\ DOMAIN seqtree = 1 .. Len(seqtree) /\ s[Len(seqtree) + 1] = r
      /\ \A i \in DOMAIN seqtree : s[i] = seqtree[i]
  BY <1>0, <1>1, <1>2, AppendFacts
<1>4. \A i \in DOMAIN seqtree : /\ seqtree[i].line < prev_lineno
                                /\ seqtree[i].time <= current_time
  BY DEF SeqOK
<1>t. Tiles(seqtree, oldpos, prev_lineno)
  BY DEF RecordsTile, Reading
<1>5. ASSUME NEW i \in DOMAIN s, NEW j \in DOMAIN s, i < j
      PROVE  s[i].line < s[j].line /\ s[i].time <= s[j].time
  <2>1. i \in DOMAIN seqtree /\ s[i] = seqtree[i]
    BY <1>3, <1>5
  <2>2. CASE j \in DOMAIN seqtree
    BY <2>1, <2>2, <1>3, <1>5 DEF SeqOK, Sorted
  <2>3. CASE j \notin DOMAIN seqtree
    <3>1. s[j] = r
      BY <2>3, <1>3
    <3> QED
      BY <3>1, <2>1, <1>1, <1>4
  <2> QED
    BY <2>2, <2>3
<1>6. ASSUME NEW i \in DOMAIN s
      PROVE  s[i].time <= current_time /\ s[i].line <= prev_lineno
  <2>1. CASE i \in DOMAIN seqtree
    <3>1. s[i] = seqtree[i] /\ s[i] \in Record
      BY <2>1, <1>3
    <3>2. seqtree[i].line < prev_lineno /\ seqtree[i].time <= current_time
      BY <2>1, <1>4
    <3>3. s[i].line \in Nat
      BY <3>1 DEF Record
    <3> QED
      BY <3>1, <3>2, <3>3, <1>2
  <2>2. CASE i \notin DOMAIN seqtree
    <3>1. s[i] = r
      BY <2>2, <1>3
    <3> QED
      BY <3>1, <1>1, <1>2
  <2> QED
    BY <2>1, <2>2
<1>7. ASSUME NEW i \in DOMAIN s
      PROVE  /\ s[i].len > 0 /\ s[i].lines > 0
             /\ s[i].pos + s[i].len = IF i < Len(s) THEN s[i + 1].pos ELSE pos
             /\ s[i].line + s[i].lines
                  = IF i < Len(s) THEN s[i + 1].line ELSE next_line
  <2>1. CASE i < Len(seqtree)
    <3>1. i \in DOMAIN seqtree /\ i + 1 \in DOMAIN seqtree
      BY <1>3, <2>1
    <3>2. s[i] = seqtree[i] /\ s[i + 1] = seqtree[i + 1] /\ i < Len(s)
      BY <3>1, <1>3
    <3> QED
      BY <3>1, <3>2, <2>1, <1>t DEF Tiles
  <2>2. CASE i = Len(seqtree)
    <3>1. i \in DOMAIN seqtree /\ s[i] = seqtree[i] /\ s[i + 1] = r /\ i < Len(s)
      BY <1>3, <2>2
    <3> QED
      BY <3>1, <2>2, <1>1, <1>t DEF Tiles
  <2>3. CASE i = Len(seqtree) + 1
    <3>1. s[i] = r /\ ~(i < Len(s))
      BY <1>3, <2>3
    <3> QED
      BY <3>1, <1>1, <1>2
  <2> QED
    BY <2>1, <2>2, <2>3, <1>3
<1>8. s[1].line = 1
  <2>1. CASE seqtree = <<>>
    <3>1. s[1] = r
      BY <2>1, <1>3
    <3> QED
      BY <3>1, <2>1, <1>1 DEF PositionOK
  <2>2. CASE seqtree # <<>>
    <3>1. 1 \in DOMAIN seqtree
      BY <2>2, <1>2, <1>3
    <3> QED
      BY <3>1, <2>2, <1>3, <1>t DEF Tiles
  <2> QED
    BY <2>1, <2>2
<1>9. FirstLines(s) = FirstLines(seqtree) \cup {prev_lineno}
  BY <1>1, <1>3 DEF FirstLines
<1> QED
  BY <1>3, <1>5, <1>6, <1>7, <1>8, <1>9 DEF Sorted, Tiles

(* The first event of a line starts a record or belongs to the open one;   *)
(* the others of the line follow it.                                       *)
LEMMA EventTimeFacts ==
  ASSUME RecordTypes, NEW ev \in Event
  PROVE  /\ EventTime(ev) \in Nat /\ ev.time <= EventTime(ev)
         /\ current_time <= EventTime(ev)
         /\ current_time = NoTime => StartsRecord(ev)
  BY EventFacts DEF RecordTypes, EventTime, StartsRecord, NoTime

(* A handler that starts a record is at the first event of its line. *)
LEMMA StartsFresh ==
  ASSUME TypeOK, RecordsOK, phase = "line", todo # <<>>,
         StartsRecord(Head(todo))
  PROVE  seen_any_event => lineno > prev_lineno /\ linepos > oldpos
<1>1. Head(todo) = todo[1] /\ todo[1] \in Event
  BY TailFacts DEF TypeOK, ReadTypes
<1>2. seen_any_event => current_time # NoTime
  BY DEF RecordsOK, PositionOK, Reading
<1>3. todo[1].time \in Nat /\ current_time \in Int
  BY <1>1, EventFacts DEF TypeOK, RecordTypes, NoTime
<1>4. ASSUME seen_any_event, todo[1].time <= current_time,
             todo[1].kind # "insn"
      PROVE  FALSE
  BY <1>1, <1>2, <1>3, <1>4 DEF StartsRecord, EventTime
<1> QED
  BY <1>4 DEF RecordsOK, LineOK

(* What a handler that starts a record leaves in the sequence. *)
LEMMA StartedOK ==
  ASSUME TypeOK, RecordsOK, phase = "line", todo # <<>>,
         StartsRecord(Head(todo)), NEW s, s = EmitRecord(linepos, lineno)
  PROVE  /\ s \in Seq(Record) /\ Sorted(s) /\ Tiles(s, linepos, lineno)
         /\ \A i \in DOMAIN s : s[i].time <= current_time /\ s[i].line < lineno
         /\ s = <<>> => lineno = 1
         /\ FirstLines(s) = FirstLines(seqtree)
                           \cup (IF seen_any_event THEN {prev_lineno} ELSE {})
<1>1. /\ lineno \in Nat /\ linepos \in Nat /\ prev_lineno \in Nat
      /\ oldpos \in Nat /\ seen_any_event \in BOOLEAN
  BY DEF TypeOK, ReadTypes, RecordTypes
<1>2. CASE seen_any_event
  <2>1. lineno > prev_lineno /\ linepos > oldpos
    BY <1>2, StartsFresh
  <2>2. Reading
    BY DEF Reading
  <2>3. /\ s \in Seq(Record) /\ s # <<>> /\ Sorted(s)
        /\ Tiles(s, linepos, lineno)
        /\ \A i \in DOMAIN s : s[i].time <= current_time /\ s[i].line <= prev_lineno
        /\ FirstLines(s) = FirstLines(seqtree) \cup {prev_lineno}
    <3>1. SeqOK /\ RecordsTile /\ PositionOK
      BY DEF RecordsOK
    <3> QED
      BY <1>1, <1>2, <2>1, <2>2, <3>1, EmitOK
  <2>4. ASSUME NEW i \in DOMAIN s PROVE s[i].line < lineno
    <3>1. s[i] \in Record
      BY <2>3
    <3>2. s[i].line \in Nat
      BY <3>1 DEF Record
    <3>3. s[i].line <= prev_lineno
      BY <2>3
    <3> QED
      BY <1>1, <2>1, <3>2, <3>3
  <2> QED
    BY <1>2, <2>3, <2>4
<1>3. CASE ~seen_any_event
  <2>1. s = <<>> /\ seqtree = <<>> /\ lineno = 1
    BY <1>3 DEF EmitRecord, HasRecord, RecordsOK, PositionOK, Reading
  <2> QED
    BY <1>3, <2>1 DEF Sorted, Tiles, FirstLines
<1> QED
  BY <1>1, <1>2, <1>3

LEMMA HandlesTypes ==
  ASSUME TypeOK, RecordsOK, NEW k, Handles(k)
  PROVE  ReadTypes' /\ RecordTypes'
<1>1. /\ Head(todo) \in Event /\ Tail(todo) \in Seq(Event) /\ phase = "line"
      /\ todo # <<>>
  BY TailFacts DEF Handles, TypeOK, ReadTypes
<1>2. ReadTypes'
  BY <1>1 DEF Handles, TypeOK, ReadTypes
<1>3. EventTime(Head(todo)) \in Nat
  BY <1>1, EventTimeFacts DEF TypeOK
<1>4. seqtree' \in Seq(Record)
  <2>1. CASE StartsRecord(Head(todo))
    BY <1>1, <2>1, StartedOK DEF Handles, GotEventCommon
  <2>2. CASE ~StartsRecord(Head(todo))
    BY <2>2 DEF Handles, GotEventCommon, TypeOK, RecordTypes
  <2> QED
    BY <2>1, <2>2
<1>5. seen_any_event' \in BOOLEAN /\ seen_instruction' \in BOOLEAN
  BY DEF Handles, GotEventCommon
<1>6. /\ lineno_offset' \in Int /\ prev_lineno' \in Nat \ {0} /\ oldpos' \in Nat
      /\ current_time' \in Nat /\ last_mem' \in Memory
  BY <1>3 DEF Handles, GotEventCommon, TypeOK, ReadTypes, RecordTypes, EventTypes
<1> QED
  BY <1>2, <1>4, <1>5, <1>6 DEF RecordTypes

LEMMA HandlesLineOK ==
  ASSUME TypeOK, RecordsOK, NEW k, Handles(k)
  PROVE  LineOK' /\ seen_any_event' /\ current_time' \in Nat
<1>1. /\ todo \in Seq(Event) /\ todo # <<>> /\ phase = "line" /\ phase' = phase
      /\ todo' = Tail(todo) /\ trace' = trace /\ eof' = eof
      /\ current_time' = EventTime(Head(todo))
      /\ seen_any_event' = (seen_any_event \/ StartsRecord(Head(todo)))
  BY DEF Handles, GotEventCommon, TypeOK, ReadTypes
<1>2. /\ Head(todo) = todo[1] /\ todo[1] \in Event /\ Len(todo') = Len(todo) - 1
      /\ Len(todo) \in Nat
      /\ \A i \in DOMAIN todo' : todo'[i] = todo[i + 1] /\ i + 1 \in DOMAIN todo
  BY <1>1, TailFacts
<1>3. current_time' \in Nat /\ todo[1].time <= current_time'
  BY <1>1, <1>2, EventTimeFacts DEF TypeOK
<1>4. seen_any_event'
  <2>1. ~seen_any_event => current_time = NoTime
    BY <1>1 DEF RecordsOK, PositionOK, Reading
  <2> QED
    BY <2>1, <1>1, <1>2, EventTimeFacts DEF TypeOK
<1>5. \A i \in DOMAIN todo : /\ todo[i].time = todo[1].time
                             /\ todo[i].kind = "insn" => Len(todo) = 1
  BY <1>1 DEF RecordsOK, LineOK
<1>6. ASSUME NEW i \in DOMAIN todo'
      PROVE  todo'[i].time = todo[1].time /\ todo'[i].kind # "insn"
  <2>1. Len(todo') > 0
    BY <1>1, <1>6
  <2> QED
    BY <1>2, <1>5, <1>6, <2>1
<1>7. todo' # <<>> => 1 \in DOMAIN todo'
  BY <1>1, TailFacts
<1> QED
  BY <1>1, <1>3, <1>4, <1>6, <1>7 DEF RecordsOK, LineOK

LEMMA HandlesRecordsOK ==
  ASSUME TypeOK, RecordsOK, NEW k, Handles(k)
  PROVE  RecordsOK'
<1>1. /\ phase = "line" /\ phase' = phase /\ todo # <<>> /\ Reading /\ Reading'
      /\ linepos' = linepos /\ lineno' = lineno /\ GotEventCommon(Head(todo))
      /\ Head(todo) \in Event
  BY TailFacts DEF Handles, TypeOK, ReadTypes, Reading
<1>2. /\ LineOK' /\ seen_any_event' /\ current_time' \in Nat
      /\ ReadTypes' /\ RecordTypes'
  BY HandlesLineOK, HandlesTypes
<1>3. /\ current_time \in Int /\ current_time <= current_time'
      /\ prev_lineno \in Nat /\ prev_lineno <= lineno /\ lineno \in Nat
      /\ oldpos \in Nat /\ linepos \in Nat /\ oldpos <= linepos
  BY <1>1, EventTimeFacts
  DEF GotEventCommon, TypeOK, ReadTypes, RecordTypes, NoTime, RecordsOK, PositionOK
<1>4. CASE StartsRecord(Head(todo))
  <2>1. /\ seqtree' = EmitRecord(linepos, lineno)
        /\ oldpos' = linepos /\ prev_lineno' = lineno
    BY <1>1, <1>4 DEF GotEventCommon
  <2>2. /\ seqtree' \in Seq(Record) /\ Sorted(seqtree')
        /\ Tiles(seqtree', linepos, lineno)
        /\ \A i \in DOMAIN seqtree' : seqtree'[i].time <= current_time
                                      /\ seqtree'[i].line < lineno
        /\ seqtree' = <<>> => lineno = 1
    BY <1>1, <1>4, <2>1, StartedOK
  <2>3. ASSUME NEW i \in DOMAIN seqtree'
        PROVE  seqtree'[i].time <= current_time'
    <3>1. seqtree'[i] \in Record
      BY <2>2
    <3>2. seqtree'[i].time \in Int
      BY <3>1 DEF Record, NoTime
    <3>3. seqtree'[i].time <= current_time
      BY <2>2
    <3> QED
      BY <3>2, <3>3, <1>2, <1>3
  <2>4. SeqOK'
    BY <2>1, <2>2, <2>3 DEF SeqOK
  <2>5. RecordsTile'
    BY <1>1, <2>1, <2>2 DEF RecordsTile
  <2>6. PositionOK'
    BY <1>1, <1>2, <1>3, <2>1, <2>2 DEF PositionOK, Reading, NoTime
  <2> QED
    BY <1>2, <2>4, <2>5, <2>6 DEF RecordsOK
<1>5. CASE ~StartsRecord(Head(todo))
  <2>1. /\ seqtree' = seqtree /\ oldpos' = oldpos /\ prev_lineno' = prev_lineno
        /\ current_time' = current_time /\ seen_any_event
    BY <1>1, <1>2, <1>5 DEF GotEventCommon, StartsRecord
  <2>2. SeqOK'
    BY <1>1, <2>1 DEF RecordsOK, SeqOK, Sorted, Reading
  <2>3. RecordsTile'
    BY <1>1, <2>1 DEF RecordsOK, RecordsTile
  <2>4. PositionOK'
    BY <1>1, <1>2, <1>3, <2>1 DEF RecordsOK, PositionOK, Reading, NoTime
  <2> QED
    BY <1>2, <2>2, <2>3, <2>4 DEF RecordsOK
<1> QED
  BY <1>4, <1>5

(* A mark stays at the beginning of a record, and an instruction that      *)
(* comes to a record finds no mark in it.                                  *)
LEMMA HandlesMarks ==
  ASSUME TypeOK, RecordsOK, CallsOK, NEW k, Handles(k)
  PROVE  /\ RecordLines \subseteq RecordLines' /\ prev_lineno' \in RecordLines'
         /\ \A at \in Marks :
              /\ at <= prev_lineno'
              /\ at = prev_lineno' => seen_instruction' /\ k # "insn"
<1>1. /\ phase = "line" /\ phase' = phase /\ todo # <<>> /\ Reading /\ Reading'
      /\ GotEventCommon(Head(todo)) /\ Head(todo) \in Event
      /\ Head(todo).kind = k
  BY TailFacts DEF Handles, TypeOK, ReadTypes, Reading
<1>2. seen_any_event'
  BY HandlesLineOK
<1>3. prev_lineno \in Nat /\ lineno \in Nat /\ seen_any_event \in BOOLEAN
  BY DEF TypeOK, ReadTypes, RecordTypes
<1>4. \A at \in Marks :
        /\ at \in Nat /\ at <= prev_lineno /\ (at = prev_lineno => seen_instruction)
        /\ at \in RecordLines
  <2>1. Marks \subseteq Nat
    BY DEF Marks, TypeOK, CallTypes, PendingCall, MatchedCall
  <2> QED
    BY <1>1, <2>1 DEF CallsOK, MarksOK
<1>5. RecordLines = FirstLines(seqtree)
                    \cup (IF seen_any_event THEN {prev_lineno} ELSE {})
  BY <1>1 DEF RecordLines
<1>6. RecordLines' = FirstLines(seqtree') \cup {prev_lineno'}
  BY <1>1, <1>2 DEF RecordLines
<1>7. CASE StartsRecord(Head(todo))
  <2>1. seqtree' = EmitRecord(linepos, lineno) /\ prev_lineno' = lineno
    BY <1>1, <1>7 DEF GotEventCommon
  <2>2. FirstLines(seqtree') = RecordLines
    BY <1>1, <1>5, <1>7, <2>1, StartedOK
  <2>3. ASSUME NEW at \in Marks PROVE at < lineno
    <3>1. seen_any_event
      <4>1. ~seen_any_event => seqtree = <<>>
        BY <1>1 DEF RecordsOK, PositionOK
      <4>2. at \in RecordLines
        BY <1>4
      <4> QED
        BY <4>1, <4>2, <1>5 DEF FirstLines
    <3> QED
      BY <1>1, <1>3, <1>4, <1>7, <3>1, StartsFresh
  <2> QED
    BY <1>3, <1>4, <1>6, <2>1, <2>2, <2>3
<1>8. CASE ~StartsRecord(Head(todo))
  <2>1. /\ seqtree' = seqtree /\ prev_lineno' = prev_lineno /\ seen_any_event
        /\ EventTime(Head(todo)) = current_time
        /\ ~(seen_instruction /\ k = "insn")
    BY <1>1, <1>2, <1>8 DEF GotEventCommon, StartsRecord
  <2>2. seen_instruction => seen_instruction'
    BY <1>1, <2>1 DEF GotEventCommon
  <2> QED
    BY <1>4, <1>5, <1>6, <2>1, <2>2
<1> QED
  BY <1>7, <1>8
-----------------------------------------------------------------------------
(***************************************************************************)
(* The calls.                                                              *)
(***************************************************************************)
(* As long as the trace is read, nothing is counted yet. *)
LEMMA WalkUnstarted ==
  ASSUME CallTypes', visited' = 0, passed' = {}, curr_depth' = 0,
         IsFiniteSet(matched'), seqtree' \in Seq(Record)
  PROVE  WalkOK'
<1>1. LastVisited' = 0
  BY DEF LastVisited
<1>2. OpenCalls(0)' = {}
  BY DEF OpenCalls, CallTypes, MatchedCall
<1>3. passed' = {c \in found_callrets' : c.line <= 0}
  BY DEF CallTypes, CallReturn
<1>4. curr_depth' = Cardinality(OpenCalls(0)')
  BY <1>2, FS_EmptySet
<1>5. visited' <= Len(seqtree') /\ DepthIsOpenCalls'
  BY DEF DepthIsOpenCalls
<1> QED
  BY <1>1, <1>3, <1>4, <1>5 DEF WalkOK, OpenCalls

LEMMA ReadingWalk ==
  ASSUME CallTypes, WalkOK, Reading
  PROVE  visited = 0 /\ passed = {} /\ curr_depth = 0
<1>1. visited = 0 /\ LastVisited = 0
  BY DEF WalkOK, LastVisited
<1>2. OpenCalls(0) = {}
  BY DEF OpenCalls, CallTypes, MatchedCall
<1>3. passed = {c \in found_callrets : c.line <= 0}
  BY <1>1 DEF WalkOK
<1>4. passed = {}
  BY <1>3 DEF CallTypes, CallReturn
<1>5. curr_depth = Cardinality({})
  BY <1>1, <1>2 DEF WalkOK
<1> QED
  BY <1>1, <1>4, <1>5, FS_EmptySet

(* A handler that finds no call and no return: calls may only be dropped. *)
LEMMA HandlesCallsKept ==
  ASSUME TypeOK, RecordsOK, CallsOK, NEW k, Handles(k),
         pending_calls' \subseteq pending_calls,
         found_callrets' = found_callrets, matched' = matched
  PROVE  CallsOK'
<1>1. Marks' \subseteq Marks /\ Reading' /\ phase # "failed"
  BY DEF Marks, Handles, Reading
<1>2. /\ RecordLines \subseteq RecordLines'
      /\ \A at \in Marks : /\ at <= prev_lineno'
                           /\ at = prev_lineno' => seen_instruction'
  BY HandlesMarks
<1>3. CallsPaired'
  BY DEF CallsOK, CallsPaired
<1>4. MarksOK'
  BY <1>1, <1>2 DEF CallsOK, MarksOK
<1> QED
  BY <1>3, <1>4 DEF CallsOK

(* A call goes to the line of its instruction, where no mark is. *)
LEMMA HandlesCall ==
  ASSUME TypeOK, RecordsOK, CallsOK, Handles("insn"),
         NEW sp, NEW lr,
         pending_calls' = InsertPending(pending_calls,
                            [sp |-> sp, pc |-> lr, call_line |-> prev_lineno']),
         found_callrets' = found_callrets, matched' = matched
  PROVE  CallsOK'
<1>1. /\ RecordLines \subseteq RecordLines' /\ prev_lineno' \in RecordLines'
      /\ \A at \in Marks : at <= prev_lineno' /\ at # prev_lineno'
  BY HandlesMarks
<1>2. seen_instruction' /\ Reading' /\ phase # "failed" /\ phase' # "failed"
  BY DEF Handles, GotEventCommon, Reading
<1>3. CallsPaired'
  BY DEF CallsOK, CallsPaired
<1> DEFINE c == [sp |-> sp, pc |-> lr, call_line |-> prev_lineno']
<1>4. pending_calls' \subseteq pending_calls \cup {c}
  BY DEF InsertPending
<1>5. c.call_line = prev_lineno'
  OBVIOUS
<1> HIDE DEF c
<1>6. Marks' \subseteq Marks \cup {prev_lineno'}
  BY <1>4, <1>5 DEF Marks
<1>7. \A p \in pending_calls : p.call_line # prev_lineno'
  BY <1>1 DEF Marks
<1>8. \A m \in matched : m.call # prev_lineno' /\ m.ret # prev_lineno'
  BY <1>1 DEF Marks
<1>9. prev_lineno' \in Int
  BY HandlesTypes DEF RecordTypes
<1>10. \A p, q \in pending_calls' : p # q => p.call_line # q.call_line
  BY <1>4, <1>5, <1>7 DEF CallsOK, MarksOK
<1>11. \A p \in pending_calls', m \in matched' :
         p.call_line # m.call /\ p.call_line # m.ret
  BY <1>4, <1>5, <1>8 DEF CallsOK, MarksOK
<1>12. Marks' \subseteq RecordLines'
  BY <1>1, <1>2, <1>6 DEF CallsOK, MarksOK
<1>13. \A at \in Marks' : at <= prev_lineno'
  BY <1>1, <1>6, <1>9
<1>14. MarksOK'
  BY <1>2, <1>10, <1>11, <1>12, <1>13 DEF MarksOK
<1> QED
  BY <1>3, <1>14 DEF CallsOK

(* A return is matched with a pending call: neither of the two lines has   *)
(* an entry in found_callrets, so none of the two is lost.                 *)
LEMMA HandlesReturn ==
  ASSUME TypeOK, RecordsOK, CallsOK, Handles("insn"),
         NEW p \in pending_calls,
         found_callrets' =
           InsertCallReturn(InsertCallReturn(found_callrets, p.call_line, 1),
                            prev_lineno', -1),
         NEW n, n.call = p.call_line, n.ret = prev_lineno',
         matched' = matched \cup {n},
         pending_calls' = pending_calls \ {p}
  PROVE  CallsOK'
<1>1. /\ RecordLines \subseteq RecordLines' /\ prev_lineno' \in RecordLines'
      /\ \A at \in Marks : at <= prev_lineno' /\ at # prev_lineno'
  BY HandlesMarks
<1>2. seen_instruction' /\ Reading' /\ phase # "failed" /\ phase' # "failed"
  BY DEF Handles, GotEventCommon, Reading
<1>3. /\ prev_lineno' \in Int /\ p.call_line \in Marks /\ p.call_line \in Int
      /\ p.call_line <= prev_lineno' /\ p.call_line # prev_lineno'
  BY <1>1, HandlesTypes DEF RecordTypes, Marks, TypeOK, CallTypes, PendingCall
<1>4. Ends(n) = {[line |-> p.call_line, direction |-> 1],
                 [line |-> prev_lineno', direction |-> -1]}
  BY DEF Ends
<1>5. \A c \in found_callrets : c.line \in Marks /\ c.line # p.call_line
  <2> SUFFICES ASSUME NEW c \in found_callrets
               PROVE  c.line \in Marks /\ c.line # p.call_line
    OBVIOUS
  <2>1. PICK m \in matched : c \in Ends(m)
    BY DEF CallsOK, CallsPaired
  <2>2. c.line = m.call \/ c.line = m.ret
    BY <2>1 DEF Ends
  <2> QED
    BY <2>2 DEF Marks, CallsOK, MarksOK
<1>6. found_callrets' = found_callrets \cup Ends(n)
  <2> DEFINE one == found_callrets \cup {[line |-> p.call_line, direction |-> 1]}
  <2>1. InsertCallReturn(found_callrets, p.call_line, 1) = one
    BY <1>5 DEF InsertCallReturn
  <2>2. \A c \in one : c.line # prev_lineno'
    BY <1>1, <1>3, <1>5
  <2>3. InsertCallReturn(one, prev_lineno', -1)
          = one \cup {[line |-> prev_lineno', direction |-> -1]}
    BY <2>2 DEF InsertCallReturn
  <2> QED
    BY <1>4, <2>1, <2>3
<1>7. UNION {Ends(m) : m \in matched'}
        = (UNION {Ends(m) : m \in matched}) \cup Ends(n)
  OBVIOUS
<1>8. found_callrets' = UNION {Ends(m) : m \in matched'}
  BY <1>6, <1>7 DEF CallsOK, CallsPaired
<1>9. \A m \in matched' : m.call < m.ret
  BY <1>3 DEF CallsOK, CallsPaired
<1>10. \A m \in matched : {m.call, m.ret} \cap {n.call, n.ret} = {}
  <2> SUFFICES ASSUME NEW m \in matched
               PROVE  {m.call, m.ret} \cap {n.call, n.ret} = {}
    OBVIOUS
  <2>1. m.call \in Marks /\ m.ret \in Marks
    BY DEF Marks
  <2>2. m.call # prev_lineno' /\ m.ret # prev_lineno'
    BY <1>1, <2>1
  <2>3. p.call_line # m.call /\ p.call_line # m.ret
    BY DEF CallsOK, MarksOK
  <2> QED
    BY <2>2, <2>3
<1>11. \A m, o \in matched' :
         m # o => {m.call, m.ret} \cap {o.call, o.ret} = {}
  <2> SUFFICES ASSUME NEW m \in matched', NEW o \in matched', m # o
               PROVE  {m.call, m.ret} \cap {o.call, o.ret} = {}
    OBVIOUS
  <2>1. CASE m \in matched /\ o \in matched
    BY <2>1 DEF CallsOK, CallsPaired
  <2>2. CASE m = n /\ o \in matched
    BY <1>10, <2>2
  <2>3. CASE m \in matched /\ o = n
    BY <1>10, <2>3
  <2> QED
    BY <2>1, <2>2, <2>3
<1>12. CallsPaired'
  BY <1>8, <1>9, <1>11 DEF CallsPaired, Ends
<1>13. Marks' \subseteq Marks \cup {prev_lineno'}
  BY <1>3 DEF Marks
<1>14. Marks' \subseteq RecordLines'
  BY <1>1, <1>2, <1>13 DEF CallsOK, MarksOK
<1>15. \A at \in Marks' : at <= prev_lineno'
  BY <1>1, <1>3, <1>13
<1>16. \A q, r \in pending_calls' : q # r => q.call_line # r.call_line
  BY DEF CallsOK, MarksOK
<1>17. \A q \in pending_calls', m \in matched' :
         q.call_line # m.call /\ q.call_line # m.ret
  <2> SUFFICES ASSUME NEW q \in pending_calls', NEW m \in matched'
               PROVE  q.call_line # m.call /\ q.call_line # m.ret
    OBVIOUS
  <2>1. q \in pending_calls /\ q # p /\ q.call_line \in Marks
    BY DEF Marks
  <2>2. CASE m \in matched
    BY <2>1, <2>2 DEF CallsOK, MarksOK
  <2>3. CASE m = n
    <3>1. q.call_line # p.call_line
      BY <2>1 DEF CallsOK, MarksOK
    <3>2. q.call_line # prev_lineno'
      BY <1>1, <2>1
    <3> QED
      BY <2>3, <3>1, <3>2
  <2> QED
    BY <2>2, <2>3
<1>18. MarksOK'
  BY <1>2, <1>14, <1>15, <1>16, <1>17 DEF MarksOK
<1> QED
  BY <1>12, <1>18 DEF CallsOK
-----------------------------------------------------------------------------
(***************************************************************************)
(* The types of what a handler changes besides the records.                *)
(***************************************************************************)
LEMMA EmitPCTypes ==
  ASSUME TypeOK, NEW pos
  PROVE  EmitPC(pos) \subseteq [pc : Nat, line : Nat]
<1>1. curr_pc \in Nat /\ prev_lineno \in Nat /\ bypctree \subseteq [pc : Nat, line : Nat]
  BY DEF TypeOK, RecordTypes, EventTypes
<1>2. 2 * (curr_pc \div 2) \in Nat
  BY <1>1
<1> QED
  BY <1>1, <1>2 DEF EmitPC

LEMMA HandlesByPC ==
  ASSUME TypeOK, NEW ev
  PROVE  /\ ByPCThen(ev) \subseteq [pc : Nat, line : Nat]
         /\ PCThen(ev) \in Nat /\ ExceptionThen(ev) \in BOOLEAN
  BY EmitPCTypes
  DEF ByPCThen, PCThen, ExceptionThen, TypeOK, EventTypes, KNOWN_INVALID_PC

(* The four outcomes of update_pc() leave calls of the right types. *)
LEMMA UpdatePCTypes ==
  ASSUME TypeOK, last_mem' \in Memory, curr_iflags' \in States,
         prev_lineno' \in Nat \ {0},
         NEW pc \in Nat, NEW next \in Nat,
         NEW iset, StateOf(iset) \in States,
         NEW insns \in 0 .. LRWriteThreshold, UpdatePC(pc, next, iset, insns)
  PROVE  /\ insns_since_lr_update' \in 0 .. LRWriteThreshold
         /\ curr_pc' \in Nat /\ expected_next_pc' \in Nat
         /\ expected_next_lr' \in Nat
         /\ pending_calls' \subseteq PendingCall
         /\ found_callrets' \subseteq CallReturn /\ matched' \subseteq MatchedCall
<1> DEFINE sp == SpThen(StateOf(iset))
           lr == last_mem'.cell[LrOf(StateOf(iset))]
<1>1. /\ pending_calls \subseteq PendingCall
      /\ found_callrets \subseteq CallReturn /\ matched \subseteq MatchedCall
      /\ insns_since_lr_update \in 0 .. LRWriteThreshold
  BY DEF TypeOK, CallTypes, EventTypes
<1>2. sp \in 0 .. ULLONG_MAX /\ lr \in (0 .. ULLONG_MAX) \cup {Unknown}
  <2>1. /\ last_mem'.cell[SpOf(StateOf(iset))] \in (0 .. ULLONG_MAX) \cup {Unknown}
        /\ last_mem'.cell[LrOf(StateOf(iset))] \in (0 .. ULLONG_MAX) \cup {Unknown}
    BY MemoryFacts
  <2>2. ULLONG_MAX \in 0 .. ULLONG_MAX
    OBVIOUS
  <2> QED
    BY <2>1, <2>2 DEF SpThen
<1>3. LRWriteThreshold \in 0 .. LRWriteThreshold
  OBVIOUS
<1>4. curr_pc' \in Nat /\ expected_next_pc' \in Nat /\ expected_next_lr' \in Nat
  <2>1. 2 * (next \div 2) + 1 \in Nat
    OBVIOUS
  <2> QED
    BY <2>1 DEF UpdatePC
<1>5. \/ StraightOn(pc, insns) \/ Return(pc, sp) \/ Call(pc, sp, lr, insns)
      \/ Jump(pc, sp, lr, insns)
  BY DEF UpdatePC
<1> HIDE DEF sp, lr
<1>6. CASE StraightOn(pc, insns) \/ Jump(pc, sp, lr, insns)
  BY <1>1, <1>3, <1>4, <1>6 DEF StraightOn, Jump
<1>7. CASE Call(pc, sp, lr, insns)
  <2>1. lr \in Nat
    BY <1>2, <1>7 DEF Call, LooksLikeCall
  <2>2. [sp |-> sp, pc |-> lr, call_line |-> prev_lineno'] \in PendingCall
    BY <2>1, <1>2 DEF PendingCall
  <2> QED
    BY <2>2, <1>1, <1>3, <1>4, <1>7 DEF Call, InsertPending
<1>8. CASE Return(pc, sp)
  <2>1. PICK p \in ReturnedCalls(sp, pc) :
          /\ found_callrets' =
               InsertCallReturn(InsertCallReturn(found_callrets, p.call_line, 1),
                                prev_lineno', -1)
          /\ matched' = matched \cup {[call |-> p.call_line, ret |-> prev_lineno',
                                       sp |-> p.sp, state |-> curr_iflags']}
          /\ pending_calls' = pending_calls \ {p}
          /\ insns_since_lr_update' = LRWriteThreshold
    BY <1>8 DEF Return
  <2>2. p \in PendingCall
    BY <1>1 DEF ReturnedCalls
  <2>3. p.call_line \in Nat \ {0} /\ p.sp \in 0 .. ULLONG_MAX
    BY <2>2 DEF PendingCall
  <2>4. [call |-> p.call_line, ret |-> prev_lineno', sp |-> p.sp,
         state |-> curr_iflags'] \in MatchedCall
    BY <2>3 DEF MatchedCall
  <2>5. \A S : S \subseteq CallReturn =>
          /\ InsertCallReturn(S, p.call_line, 1) \subseteq CallReturn
          /\ InsertCallReturn(S, prev_lineno', -1) \subseteq CallReturn
    BY <2>3 DEF InsertCallReturn, CallReturn
  <2> QED
    BY <2>1, <2>4, <2>5, <1>1, <1>3, <1>4
<1> QED
  BY <1>5, <1>6, <1>7, <1>8
-----------------------------------------------------------------------------
(***************************************************************************)
(* The inductive invariant.                                                *)
(***************************************************************************)
LEMMA InitIInv == Init => IInv
<1> SUFFICES ASSUME Init PROVE IInv
  OBVIOUS
<1>0. Traces[family].iflags \subseteq States
      /\ Traces[family].insns \subseteq 0 .. LRWriteThreshold
  BY TracesAssumption DEF Init, TraceKind
<1>1. mem \in Memory
  BY DEF Init, Memory
<1>2. TypeOK
  <2>0. \A S : <<>> \in Seq(S)
    OBVIOUS
  <2>1. ReadTypes
    <3>1. trace \in Seq(Line) /\ todo \in Seq(Event)
      BY <2>0 DEF Init
    <3>2. lineno \in Nat \ {0} /\ true_lineno \in Nat /\ linepos \in Nat
      BY DEF Init
    <3> QED
      BY <3>1, <3>2 DEF Init, ReadTypes
  <2>2. RecordTypes
    <3>1. last_mem \in Memory /\ seqtree \in Seq(Record)
      BY <1>1, <2>0 DEF Init
    <3>2. lineno_offset \in Int /\ prev_lineno \in Nat \ {0} /\ oldpos \in Nat
      BY DEF Init
    <3> QED
      BY <3>1, <3>2 DEF Init, RecordTypes
  <2>3. EventTypes
    BY <1>0, <1>1 DEF Init, EventTypes, KNOWN_INVALID_PC
  <2>4. CallTypes
    BY DEF Init, CallTypes
  <2> QED
    BY <2>1, <2>2, <2>3, <2>4 DEF TypeOK
<1>3. RecordsOK
  BY DEF Init, RecordsOK, LineOK, PositionOK, SeqOK, Sorted, RecordsTile, Tiles,
         Reading
<1>4. CallsOK
  <2>1. Marks = {}
    BY DEF Init, Marks
  <2>2. MarksOK
    BY <2>1 DEF Init, MarksOK
  <2>3. CallsPaired
    BY DEF Init, CallsPaired
  <2> QED
    BY <2>2, <2>3 DEF CallsOK
<1>5. WalkOK
  <2>1. OpenCalls(LastVisited) = {} /\ DepthIsOpenCalls
    BY DEF Init, OpenCalls, DepthIsOpenCalls
  <2> QED
    BY <2>1, FS_EmptySet DEF Init, WalkOK
<1> QED
  BY <1>2, <1>3, <1>4, <1>5 DEF IInv

(* A handler of one event, from what it does to the calls. *)
LEMMA HandlesIInv ==
  ASSUME IInv, NEW k, Handles(k), CallsOK', EventTypes',
         pending_calls' \subseteq PendingCall,
         found_callrets' \subseteq CallReturn,
         matched' \subseteq MatchedCall, IsFiniteSet(matched')
  PROVE  IInv'
<1>1. TypeOK /\ RecordsOK /\ WalkOK /\ Reading /\ CallTypes
  BY DEF IInv, Handles, Reading, TypeOK
<1>2. ReadTypes' /\ RecordTypes' /\ RecordsOK'
  BY <1>1, HandlesTypes, HandlesRecordsOK
<1>3. visited = 0 /\ passed = {} /\ curr_depth = 0
  BY <1>1, ReadingWalk
<1>4. visited' = 0 /\ passed' = {} /\ curr_depth' = 0
  BY <1>3 DEF Handles, walkVars
<1>5. CallTypes'
  BY <1>4 DEF CallTypes
<1>6. WalkOK'
  BY <1>2, <1>4, <1>5, WalkUnstarted DEF RecordTypes
<1> QED
  BY <1>2, <1>5, <1>6 DEF IInv, TypeOK

(* A handler that leaves the calls as they are, or drops some. *)
LEMMA HandlesKept ==
  ASSUME IInv, NEW k, Handles(k), EventTypes',
         pending_calls' \subseteq pending_calls,
         found_callrets' = found_callrets, matched' = matched
  PROVE  IInv'
<1>1. TypeOK /\ RecordsOK /\ CallsOK /\ IsFiniteSet(matched)
  BY DEF IInv, WalkOK
<1>2. CallsOK'
  BY <1>1, HandlesCallsKept
<1> QED
  BY <1>1, <1>2, HandlesIInv DEF TypeOK, CallTypes

LEMMA InstructionIInv ==
  ASSUME IInv, GotInstruction
  PROVE  IInv'
<1> DEFINE ev == Head(todo)
           insns == IF insns_since_lr_update < LRWriteThreshold
                    THEN insns_since_lr_update + 1 ELSE insns_since_lr_update
           pc == Adjusted(ev)
           next == Adjusted(ev) + ev.width
           sp == SpThen(StateOf(ev.iset))
           lr == last_mem'.cell[LrOf(StateOf(ev.iset))]
<1>1. /\ Handles("insn") /\ UpdateIflags(StateOf(ev.iset))
      /\ UpdatePC(pc, next, ev.iset, insns)
      /\ bypctree' = ByPCThen(ev) /\ seen_exception' = ExceptionThen(ev)
  BY DEF GotInstruction
<1>2. TypeOK /\ RecordsOK /\ CallsOK /\ IsFiniteSet(matched)
  BY DEF IInv, WalkOK
<1>3. ev \in Event /\ ev.kind = "insn"
  BY <1>1, <1>2, TailFacts DEF Handles, TypeOK, ReadTypes
<1>4. /\ ev.pc \in Nat /\ ev.width \in Nat /\ StateOf(ev.iset) \in States
  BY <1>3, InsnFacts
<1>5. pc \in Nat /\ next \in Nat
  <2>1. 2 * (ev.pc \div 2) + 1 \in Nat
    BY <1>4
  <2> QED
    BY <1>4, <2>1 DEF Adjusted
<1>6. insns \in 0 .. LRWriteThreshold
  BY <1>2 DEF TypeOK, EventTypes
<1>7. last_mem' \in Memory /\ prev_lineno' \in Nat \ {0}
  BY <1>1, <1>2, HandlesTypes DEF RecordTypes
<1>8. curr_iflags' \in States /\ mem' \in Memory
  BY <1>1, <1>2, <1>4 DEF UpdateIflags, TypeOK, EventTypes, Memory
<1>9. /\ bypctree' \subseteq [pc : Nat, line : Nat] /\ seen_exception' \in BOOLEAN
  BY <1>1, <1>2, HandlesByPC
<1> HIDE DEF ev, insns, pc, next
<1>10. /\ insns_since_lr_update' \in 0 .. LRWriteThreshold
       /\ curr_pc' \in Nat /\ expected_next_pc' \in Nat
       /\ expected_next_lr' \in Nat
       /\ pending_calls' \subseteq PendingCall
       /\ found_callrets' \subseteq CallReturn /\ matched' \subseteq MatchedCall
  BY <1>1, <1>2, <1>4, <1>5, <1>6, <1>7, <1>8, UpdatePCTypes
<1>11. EventTypes'
  BY <1>8, <1>9, <1>10 DEF EventTypes
<1>12. CallsOK' /\ IsFiniteSet(matched')
  <2>1. \/ StraightOn(pc, insns) \/ Return(pc, sp) \/ Call(pc, sp, lr, insns)
        \/ Jump(pc, sp, lr, insns)
    BY <1>1 DEF UpdatePC
  <2> HIDE DEF sp, lr
  <2>2. CASE StraightOn(pc, insns) \/ Jump(pc, sp, lr, insns)
    BY <1>1, <1>2, <2>2, HandlesCallsKept DEF StraightOn, Jump
  <2>3. CASE Call(pc, sp, lr, insns)
    BY <1>1, <1>2, <2>3, HandlesCall DEF Call
  <2>4. CASE Return(pc, sp)
    <3>1. PICK p \in pending_calls :
            /\ found_callrets' =
                 InsertCallReturn(InsertCallReturn(found_callrets, p.call_line, 1),
                                  prev_lineno', -1)
            /\ matched' = matched \cup {[call |-> p.call_line, ret |-> prev_lineno',
                                         sp |-> p.sp, state |-> curr_iflags']}
            /\ pending_calls' = pending_calls \ {p}
      BY <2>4 DEF Return, ReturnedCalls
    <3> DEFINE n == [call |-> p.call_line, ret |-> prev_lineno', sp |-> p.sp,
                     state |-> curr_iflags']
    <3>2. n.call = p.call_line /\ n.ret = prev_lineno' /\ matched' = matched \cup {n}
      BY <3>1
    <3> HIDE DEF n
    <3>3. CallsOK'
      BY <1>1, <1>2, <3>1, <3>2, HandlesReturn
    <3>4. IsFiniteSet(matched')
      BY <1>2, <3>2, FS_AddElement
    <3> QED
      BY <3>3, <3>4
  <2> QED
    BY <2>1, <2>2, <2>3, <2>4
<1> QED
  BY <1>1, <1>10, <1>11, <1>12, HandlesIInv

LEMMA RegisterIInv ==
  ASSUME IInv, GotRegister
  PROVE  IInv'
<1> DEFINE ev == Head(todo)
<1>1. /\ Handles("reg") /\ mem' = [mem EXCEPT !.cell[ev.cell] = ev.value]
      /\ bypctree' = ByPCThen(ev) /\ curr_pc' = PCThen(ev)
      /\ seen_exception' = ExceptionThen(ev)
      /\ UNCHANGED <<expected_next_pc, expected_next_lr, found_callrets, matched,
                     curr_iflags>>
  BY DEF GotRegister, heurVars
<1>2. insns_since_lr_update' \in {0, insns_since_lr_update}
  BY DEF GotRegister
<1>3. pending_calls' \subseteq pending_calls
  BY DEF GotRegister, UpdateSp
<1>4. TypeOK
  BY DEF IInv
<1>5. ev \in Event /\ ev.kind = "reg"
  BY <1>1, <1>4, TailFacts DEF Handles, TypeOK, ReadTypes
<1>6. mem \in Memory /\ insns_since_lr_update' \in 0 .. LRWriteThreshold
  BY <1>2, <1>4 DEF TypeOK, EventTypes
<1>7. mem' \in Memory
  BY <1>1, <1>5, <1>6, RegFacts, MemoryWrite
<1>8. /\ bypctree' \subseteq [pc : Nat, line : Nat] /\ curr_pc' \in Nat
      /\ seen_exception' \in BOOLEAN
  BY <1>1, <1>4, HandlesByPC
<1>9. EventTypes'
  BY <1>1, <1>4, <1>6, <1>7, <1>8 DEF TypeOK, EventTypes
<1> QED
  BY <1>1, <1>3, <1>9, HandlesKept

LEMMA ExceptionIInv ==
  ASSUME IInv, GotException
  PROVE  IInv'
<1> DEFINE ev == Head(todo)
<1>1. /\ Handles("exception") /\ curr_pc' = PCThen(ev) /\ seen_exception'
      /\ bypctree' \subseteq
           ByPCThen(ev) \cup {[pc |-> CPU_EXCEPTION_PC, line |-> prev_lineno']}
      /\ UNCHANGED <<expected_next_pc, expected_next_lr, found_callrets, matched,
                     curr_iflags, mem, insns_since_lr_update, pending_calls>>
  BY DEF GotException, heurVars
<1>2. TypeOK /\ RecordsOK
  BY DEF IInv
<1>3. prev_lineno' \in Nat
  BY <1>1, <1>2, HandlesTypes DEF RecordTypes
<1>4. [pc |-> CPU_EXCEPTION_PC, line |-> prev_lineno'] \in [pc : Nat, line : Nat]
  BY <1>3 DEF CPU_EXCEPTION_PC
<1>5. ByPCThen(ev) \subseteq [pc : Nat, line : Nat] /\ PCThen(ev) \in Nat
  BY <1>2, HandlesByPC
<1>s. seen_exception' = TRUE
  BY DEF GotException
<1>6. EventTypes'
  BY <1>1, <1>2, <1>4, <1>5, <1>s DEF TypeOK, EventTypes
<1> QED
  BY <1>1, <1>6, HandlesKept

LEMMA TextIInv ==
  ASSUME IInv, GotText
  PROVE  IInv'
<1> DEFINE ev == Head(todo)
<1>1. /\ Handles("text") /\ curr_pc' = PCThen(ev) /\ bypctree' = ByPCThen(ev)
      /\ seen_exception' = ExceptionThen(ev)
      /\ UNCHANGED <<expected_next_pc, expected_next_lr, found_callrets, matched,
                     curr_iflags, mem, insns_since_lr_update, pending_calls>>
  BY DEF GotText, heurVars
<1>2. TypeOK
  BY DEF IInv
<1>3. EventTypes'
  BY <1>1, <1>2, HandlesByPC DEF TypeOK, EventTypes
<1> QED
  BY <1>1, <1>3, HandlesKept

(* The steps that handle no event and leave the records and calls alone. *)
LEMMA CallsStill ==
  ASSUME CallsOK, RecordLines' = RecordLines, phase # "failed",
         Reading' => Reading,
         UNCHANGED <<prev_lineno, seen_instruction, pending_calls,
                     found_callrets, matched>>
  PROVE  CallsOK'
<1>1. Marks' = Marks
  BY DEF Marks
<1>2. CallsPaired'
  BY DEF CallsOK, CallsPaired
<1>3. MarksOK'
  BY <1>1 DEF CallsOK, MarksOK
<1> QED
  BY <1>2, <1>3 DEF CallsOK

LEMMA WalkStill ==
  ASSUME WalkOK, CallTypes, Reading' => Reading,
         FirstLines(seqtree') = FirstLines(seqtree),
         visited <= Len(seqtree'),
         \A i \in 1 .. visited : /\ seqtree'[i].line = seqtree[i].line
                                 /\ seqtree'[i].depth = seqtree[i].depth,
         UNCHANGED <<matched, found_callrets, visited, curr_depth, passed>>
  PROVE  WalkOK'
<1>1. visited \in Nat
  BY DEF CallTypes
<1>2. LastVisited' = LastVisited
  BY <1>1 DEF LastVisited
<1>3. DepthIsOpenCalls'
  BY DEF WalkOK, DepthIsOpenCalls, OpenCalls
<1> QED
  BY <1>2, <1>3 DEF WalkOK, OpenCalls

LEMMA CountLineFacts ==
  ASSUME TypeOK, CountLine
  PROVE  /\ lineno' \in Nat \ {0} /\ true_lineno' \in Nat
         /\ seen_any_event => lineno' = lineno + 1
         /\ ~seen_any_event => lineno' = lineno
  BY DEF TypeOK, ReadTypes, RecordTypes, CountLine

(* What a line read from the file is like. *)
LEMMA TraceLine ==
  ASSUME TypeOK, Len(trace) < Len(Traces[family].lines),
         NEW line \in Traces[family].lines[Len(trace) + 1]
  PROVE  line \in Line
<1>1. /\ family \in DOMAIN Traces /\ Len(trace) \in Nat
      /\ Traces[family].lines \in Seq(SUBSET Line)
  BY TracesAssumption DEF TypeOK, ReadTypes, TraceKind
<1>2. Traces[family].lines[Len(trace) + 1] \in SUBSET Line
  BY <1>1
<1> QED
  BY <1>2

LEMMA ReadLineIInv ==
  ASSUME IInv, ReadLine
  PROVE  IInv'
<1>1. TypeOK /\ RecordsOK /\ CallsOK /\ WalkOK /\ CallTypes
  BY DEF IInv, TypeOK
<1>2. /\ phase = "read" /\ phase' = "line" /\ ~eof /\ CountLine
      /\ Len(trace) < Len(Traces[family].lines)
      /\ UNCHANGED <<family, linepos, recordVars, heurVars, insnVars, sharedVars,
                     walkVars>>
  BY DEF ReadLine
<1>3. PICK line \in Traces[family].lines[Len(trace) + 1],
           last \in Traces[family].last :
        /\ trace' = Append(trace, line) /\ todo' = line.events
        /\ last => line.bytes > 1
        /\ eof' = last
  BY DEF ReadLine
<1>4. line \in Line /\ last \in BOOLEAN
  BY <1>1, <1>2, TraceLine, TracesAssumption DEF TypeOK, ReadTypes, TraceKind
<1>5. /\ line.events \in Seq(Event)
      /\ \A i \in DOMAIN line.events :
           /\ line.events[i].time = line.events[1].time
           /\ line.events[i].kind = "insn" => Len(line.events) = 1
  BY <1>4, LineFacts
<1>6. /\ trace \in Seq(Line) /\ trace' \in Seq(Line) /\ trace' # <<>>
      /\ trace'[Len(trace')] = line
  BY <1>1, <1>3, <1>4, AppendFacts DEF TypeOK, ReadTypes
<1>7. /\ lineno' \in Nat \ {0} /\ true_lineno' \in Nat
      /\ seen_any_event => lineno' = lineno + 1
      /\ ~seen_any_event => lineno' = lineno
  BY <1>1, <1>2, CountLineFacts
<1>8. ReadTypes'
  BY <1>1, <1>2, <1>3, <1>4, <1>5, <1>6, <1>7 DEF TypeOK, ReadTypes
<1>9. TypeOK'
  <2>1. RecordTypes'
    BY <1>1, <1>2 DEF TypeOK, RecordTypes, recordVars
  <2>2. EventTypes'
    BY <1>1, <1>2
    DEF TypeOK, EventTypes, sharedVars, insnVars, heurVars
  <2>3. CallTypes'
    BY <1>1, <1>2 DEF TypeOK, CallTypes, sharedVars, heurVars, walkVars
  <2> QED
    BY <1>8, <2>1, <2>2, <2>3 DEF TypeOK
<1>10. /\ Reading /\ Reading' /\ seqtree' = seqtree /\ oldpos' = oldpos
       /\ prev_lineno' = prev_lineno /\ current_time' = current_time
       /\ seen_any_event' = seen_any_event /\ linepos' = linepos
       /\ seen_instruction' = seen_instruction
  BY <1>2 DEF Reading, recordVars
<1>11. /\ prev_lineno \in Nat /\ lineno \in Nat /\ oldpos \in Nat /\ linepos \in Nat
       /\ prev_lineno <= lineno /\ (seen_any_event => linepos > oldpos)
  BY <1>1, <1>2, <1>10
  DEF TypeOK, ReadTypes, RecordTypes, RecordsOK, PositionOK
<1>12. LineOK'
  <2>1. todo' # <<>> =>
          (seen_any_event' => lineno' > prev_lineno' /\ linepos' > oldpos')
    BY <1>7, <1>10, <1>11
  <2> QED
    BY <1>3, <1>5, <1>6, <2>1 DEF LineOK
<1>13. PositionOK'
  BY <1>1, <1>2, <1>7, <1>10, <1>11 DEF RecordsOK, PositionOK
<1>14. SeqOK' /\ RecordsTile'
  BY <1>1, <1>2, <1>10 DEF RecordsOK, SeqOK, Sorted, RecordsTile
<1>15. CallsOK'
  BY <1>1, <1>2, <1>10, CallsStill DEF RecordLines, sharedVars, heurVars
<1>16. WalkOK'
  BY <1>1, <1>2, <1>10, WalkStill DEF WalkOK, heurVars, walkVars
<1> QED
  BY <1>9, <1>12, <1>13, <1>14, <1>15, <1>16 DEF IInv, RecordsOK

LEMMA EndLineIInv ==
  ASSUME IInv, EndLine
  PROVE  IInv'
<1>1. TypeOK /\ RecordsOK /\ CallsOK /\ WalkOK /\ CallTypes
  BY DEF IInv, TypeOK
<1>2. /\ phase = "line" /\ phase' = "read" /\ todo = <<>>
      /\ linepos' = linepos + trace[Len(trace)].bytes
      /\ UNCHANGED <<family, trace, todo, eof, lineno, true_lineno, recordVars,
                     heurVars, insnVars, sharedVars, walkVars>>
  BY DEF EndLine
<1>3. trace # <<>> /\ (eof => trace[Len(trace)].bytes > 1)
  BY <1>1, <1>2 DEF RecordsOK, LineOK
<1>4. trace[Len(trace)] \in Line
  BY <1>1, <1>3 DEF TypeOK, ReadTypes
<1>5. trace[Len(trace)].bytes \in Nat \ {0}
  BY <1>4, LineFacts
<1>6. linepos' \in Nat /\ linepos \in Nat /\ linepos' > linepos
  BY <1>1, <1>2, <1>5 DEF TypeOK, ReadTypes
<1>7. TypeOK'
  <2>1. ReadTypes'
    BY <1>1, <1>2, <1>6 DEF TypeOK, ReadTypes
  <2>2. RecordTypes'
    BY <1>1, <1>2 DEF TypeOK, RecordTypes, recordVars
  <2>3. EventTypes'
    BY <1>1, <1>2
    DEF TypeOK, EventTypes, sharedVars, insnVars, heurVars
  <2>4. CallTypes'
    BY <1>1, <1>2 DEF TypeOK, CallTypes, sharedVars, heurVars, walkVars
  <2> QED
    BY <2>1, <2>2, <2>3, <2>4 DEF TypeOK
<1>8. /\ Reading /\ Reading' /\ seqtree' = seqtree /\ oldpos' = oldpos
      /\ prev_lineno' = prev_lineno /\ current_time' = current_time
      /\ seen_any_event' = seen_any_event
      /\ seen_instruction' = seen_instruction
  BY <1>2 DEF Reading, recordVars
<1>9. PositionOK'
  <2>1. PositionOK /\ oldpos \in Nat
    BY <1>1 DEF RecordsOK, TypeOK, RecordTypes
  <2>2. oldpos <= linepos
    BY <1>8, <2>1 DEF PositionOK
  <2>3. eof => linepos' >= linepos + 2
    BY <1>2, <1>3, <1>5, <1>6
  <2>4. oldpos' <= linepos' /\ linepos' > oldpos' /\ (eof' => linepos' >= oldpos' + 2)
    BY <1>2, <1>6, <1>8, <2>1, <2>2, <2>3
  <2> QED
    BY <1>2, <1>8, <2>1, <2>4 DEF PositionOK
<1>10. LineOK' /\ SeqOK' /\ RecordsTile'
  BY <1>1, <1>2, <1>8 DEF RecordsOK, LineOK, SeqOK, Sorted, RecordsTile
<1>11. CallsOK'
  BY <1>1, <1>2, <1>8, CallsStill DEF RecordLines, sharedVars, heurVars
<1>12. WalkOK'
  BY <1>1, <1>2, <1>8, WalkStill DEF WalkOK, heurVars, walkVars
<1> QED
  BY <1>7, <1>9, <1>10, <1>11, <1>12 DEF IInv, RecordsOK

LEMMA ParseErrorIInv ==
  ASSUME IInv, ParseError
  PROVE  IInv'
<1>1. TypeOK /\ RecordsOK /\ CallsOK /\ WalkOK /\ CallTypes
  BY DEF IInv, TypeOK
<1>2. /\ phase = "read" /\ phase' = "failed" /\ CountLine
      /\ UNCHANGED <<family, trace, todo, eof, linepos, recordVars, heurVars,
                     insnVars, sharedVars, walkVars>>
  BY DEF ParseError
<1>3. lineno' \in Nat \ {0} /\ true_lineno' \in Nat
  BY <1>1, <1>2, CountLineFacts
<1>4. TypeOK'
  <2>1. ReadTypes'
    BY <1>1, <1>2, <1>3 DEF TypeOK, ReadTypes
  <2>2. RecordTypes'
    BY <1>1, <1>2 DEF TypeOK, RecordTypes, recordVars
  <2>3. EventTypes'
    BY <1>1, <1>2
    DEF TypeOK, EventTypes, sharedVars, insnVars, heurVars
  <2>4. CallTypes'
    BY <1>1, <1>2 DEF TypeOK, CallTypes, sharedVars, heurVars, walkVars
  <2> QED
    BY <2>1, <2>2, <2>3, <2>4 DEF TypeOK
<1>5. seqtree' = seqtree /\ current_time' = current_time /\ ~Reading'
  BY <1>2 DEF recordVars, Reading
<1>6. LineOK' /\ PositionOK' /\ SeqOK' /\ RecordsTile'
  BY <1>1, <1>2, <1>5
  DEF RecordsOK, LineOK, PositionOK, SeqOK, Sorted, RecordsTile
<1>7. CallsOK'
  <2>1. CallsPaired'
    BY <1>1, <1>2 DEF CallsOK, CallsPaired, heurVars
  <2>2. MarksOK'
    BY <1>1, <1>2, <1>5 DEF CallsOK, MarksOK, heurVars, sharedVars
  <2> QED
    BY <2>1, <2>2 DEF CallsOK
<1>8. WalkOK'
  BY <1>1, <1>2, <1>5, WalkStill DEF WalkOK, heurVars, walkVars
<1> QED
  BY <1>4, <1>6, <1>7, <1>8 DEF IInv, RecordsOK

(* The end of the file, from either of its two causes. *)
LEMMA FinishIInv ==
  ASSUME IInv, NEW pos \in Nat, Finish(pos), seen_any_event => pos > oldpos
  PROVE  IInv'
<1>1. TypeOK /\ RecordsOK /\ CallsOK /\ WalkOK /\ CallTypes
  BY DEF IInv, TypeOK
<1>2. /\ phase = "read" /\ phase' = "tree" /\ CountLine /\ linepos' = pos
      /\ seqtree' = EmitRecord(pos, lineno') /\ bypctree' = EmitPC(pos)
      /\ last_mem' = mem
      /\ lineno_offset' = IF seen_any_event THEN lineno_offset
                          ELSE true_lineno' - lineno'
      /\ UNCHANGED <<family, trace, todo, eof, prev_lineno, oldpos, current_time,
                     seen_any_event, seen_instruction, seen_exception, heurVars,
                     insnVars, mem, insns_since_lr_update, pending_calls,
                     walkVars>>
  BY DEF Finish
<1>3. /\ lineno' \in Nat \ {0} /\ true_lineno' \in Nat
      /\ seen_any_event => lineno' = lineno + 1
  BY <1>1, <1>2, CountLineFacts
<1>4. /\ SeqOK /\ RecordsTile /\ PositionOK /\ Reading /\ ~Reading'
      /\ prev_lineno \in Nat /\ lineno \in Nat /\ prev_lineno <= lineno
  BY <1>1, <1>2
  DEF RecordsOK, PositionOK, Reading, TypeOK, ReadTypes, RecordTypes
<1>5. /\ seqtree' \in Seq(Record) /\ Sorted(seqtree')
      /\ Tiles(seqtree', pos, lineno')
      /\ \A i \in DOMAIN seqtree' : seqtree'[i].time <= current_time
      /\ FirstLines(seqtree') = RecordLines
  <2>1. CASE seen_any_event
    <3>1. lineno' > prev_lineno
      BY <1>3, <1>4, <2>1
    <3>2. lineno' \in Nat
      BY <1>3
    <3>3. /\ seqtree' \in Seq(Record) /\ Sorted(seqtree')
          /\ Tiles(seqtree', pos, lineno')
          /\ \A i \in DOMAIN seqtree' : seqtree'[i].time <= current_time
          /\ FirstLines(seqtree') = FirstLines(seqtree) \cup {prev_lineno}
      BY <1>1, <1>2, <1>4, <2>1, <3>1, <3>2, EmitOK
    <3> QED
      BY <3>3, <2>1, <1>4 DEF RecordLines
  <2>2. CASE ~seen_any_event
    <3>1. seqtree' = seqtree /\ seqtree = <<>>
      BY <1>2, <1>4, <2>2 DEF EmitRecord, HasRecord, PositionOK
    <3> QED
      BY <3>1, <2>2, <1>1 DEF Sorted, Tiles, RecordLines, TypeOK, RecordTypes
  <2> QED
    BY <2>1, <2>2
<1>6. TypeOK'
  <2>1. ReadTypes'
    BY <1>1, <1>2, <1>3 DEF TypeOK, ReadTypes
  <2>2. RecordTypes'
    BY <1>1, <1>2, <1>3, <1>5 DEF TypeOK, RecordTypes, EventTypes
  <2>3. EventTypes'
    <3>1. bypctree' \subseteq [pc : Nat, line : Nat]
      BY <1>1, <1>2, EmitPCTypes
    <3> QED
      BY <1>1, <1>2, <3>1 DEF TypeOK, EventTypes, insnVars, heurVars
  <2>4. CallTypes'
    BY <1>1, <1>2 DEF TypeOK, CallTypes, heurVars, walkVars
  <2> QED
    BY <2>1, <2>2, <2>3, <2>4 DEF TypeOK
<1>7. LineOK' /\ PositionOK' /\ SeqOK' /\ RecordsTile'
  BY <1>2, <1>4, <1>5 DEF LineOK, PositionOK, SeqOK, RecordsTile
<1>8. CallsOK'
  <2>1. RecordLines' = RecordLines
    BY <1>4, <1>5 DEF RecordLines
  <2> QED
    BY <2>1, <1>1, <1>2, <1>4, CallsStill DEF heurVars
<1>9. WalkOK'
  <2>1. visited = 0 /\ passed = {} /\ curr_depth = 0
    BY <1>1, <1>4, ReadingWalk
  <2>2. visited' = 0 /\ passed' = {} /\ curr_depth' = 0 /\ matched' = matched
    BY <2>1, <1>2 DEF walkVars, heurVars
  <2>3. CallTypes' /\ IsFiniteSet(matched')
    BY <1>1, <1>6, <2>2 DEF TypeOK, WalkOK
  <2> QED
    BY <1>5, <2>2, <2>3, WalkUnstarted
<1> QED
  BY <1>6, <1>7, <1>8, <1>9 DEF IInv, RecordsOK

LEMMA ReadEofIInv ==
  ASSUME IInv, ReadEof
  PROVE  IInv'
<1>1. /\ eof /\ phase = "read" /\ PositionOK /\ linepos \in Nat /\ oldpos \in Nat
      /\ Finish(linepos - 1)
  BY DEF ReadEof, Finish, IInv, RecordsOK, TypeOK, ReadTypes, RecordTypes
<1>2. linepos >= oldpos + 2
  BY <1>1 DEF PositionOK, Reading
<1>3. linepos - 1 \in Nat /\ linepos - 1 > oldpos
  BY <1>1, <1>2
<1> QED
  BY <1>1, <1>3, FinishIInv

LEMMA ReadEndIInv ==
  ASSUME IInv, ReadEnd
  PROVE  IInv'
<1>1. /\ phase = "read" /\ PositionOK /\ linepos \in Nat /\ Finish(linepos)
  BY DEF ReadEnd, Finish, IInv, RecordsOK, TypeOK, ReadTypes
<1>2. seen_any_event => linepos > oldpos
  BY <1>1 DEF PositionOK, Reading
<1> QED
  BY <1>1, <1>2, FinishIInv

LEMMA FinaliseIInv ==
  ASSUME IInv, FinaliseIndex
  PROVE  IInv'
<1>1. TypeOK /\ RecordsOK /\ CallsOK /\ WalkOK /\ CallTypes
  BY DEF IInv, TypeOK
<1>2. /\ phase = "tree" /\ phase' \in {"complete", "failed"}
      /\ UNCHANGED <<family, trace, todo, eof, lineno, true_lineno, linepos,
                     recordVars, heurVars, insnVars, sharedVars, walkVars>>
  BY DEF FinaliseIndex
<1>3. TypeOK'
  <2>1. ReadTypes'
    BY <1>1, <1>2 DEF TypeOK, ReadTypes
  <2>2. RecordTypes'
    BY <1>1, <1>2 DEF TypeOK, RecordTypes, recordVars
  <2>3. EventTypes'
    BY <1>1, <1>2
    DEF TypeOK, EventTypes, sharedVars, insnVars, heurVars
  <2>4. CallTypes'
    BY <1>1, <1>2 DEF TypeOK, CallTypes, sharedVars, heurVars, walkVars
  <2> QED
    BY <2>1, <2>2, <2>3, <2>4 DEF TypeOK
<1>4. /\ seqtree' = seqtree /\ current_time' = current_time
      /\ ~Reading' /\ ~Reading /\ phase # "failed"
  BY <1>2 DEF recordVars, Reading
<1>5. LineOK' /\ PositionOK' /\ SeqOK' /\ RecordsTile'
  BY <1>1, <1>2, <1>4
  DEF RecordsOK, LineOK, PositionOK, SeqOK, Sorted, RecordsTile
<1>6. CallsOK'
  BY <1>1, <1>2, <1>4, CallsStill DEF RecordLines, recordVars, heurVars, sharedVars
<1>7. WalkOK'
  BY <1>1, <1>2, <1>4, WalkStill DEF WalkOK, heurVars, walkVars
<1> QED
  BY <1>3, <1>5, <1>6, <1>7 DEF IInv, RecordsOK

-----------------------------------------------------------------------------
(***************************************************************************)
(* CallDepthCountingTreeWalker.                                            *)
(***************************************************************************)
LEMMA MatchedFacts ==
  ASSUME CallTypes, CallsPaired, NEW m \in matched
  PROVE  /\ m.call \in Nat /\ m.ret \in Nat /\ m.call < m.ret
         /\ [line |-> m.call, direction |-> 1] \in found_callrets
         /\ [line |-> m.ret, direction |-> -1] \in found_callrets
<1>1. Ends(m) \subseteq found_callrets
  BY DEF CallsPaired
<1> QED
  BY <1>1 DEF CallTypes, MatchedCall, CallsPaired, Ends

(* From one record to the next, M lines on, a call ends or begins only     *)
(* with an entry for the next record, and at most one.                     *)
LEMMA OpenStep ==
  ASSUME CallTypes, CallsPaired, IsFiniteSet(matched),
         NEW L \in Nat, NEW M \in Nat, L < M,
         \A c \in found_callrets : c.line <= L \/ c.line >= M
  PROVE  /\ (\A c \in found_callrets : c.line # M) => OpenCalls(M) = OpenCalls(L)
         /\ \A c, d \in found_callrets : c.line = M /\ d.line = M => c = d
         /\ \A c \in found_callrets :
              c.line = M =>
                Cardinality(OpenCalls(M)) = Cardinality(OpenCalls(L)) + c.direction
<1>1. \A m \in matched :
        /\ m.call \in Nat /\ m.ret \in Nat /\ m.call < m.ret
        /\ m.call <= L \/ m.call >= M
        /\ m.ret <= L \/ m.ret >= M
  <2> SUFFICES ASSUME NEW m \in matched
               PROVE  /\ m.call \in Nat /\ m.ret \in Nat /\ m.call < m.ret
                      /\ m.call <= L \/ m.call >= M
                      /\ m.ret <= L \/ m.ret >= M
    OBVIOUS
  <2> DEFINE c == [line |-> m.call, direction |-> 1]
             r == [line |-> m.ret, direction |-> -1]
  <2>1. c \in found_callrets /\ r \in found_callrets
    BY MatchedFacts
  <2>2. c.line = m.call /\ r.line = m.ret
    OBVIOUS
  <2> HIDE DEF c, r
  <2>3. (c.line <= L \/ c.line >= M) /\ (r.line <= L \/ r.line >= M)
    BY <2>1
  <2> QED
    BY <2>2, <2>3, MatchedFacts
<1>2. ASSUME \A m \in matched : m.call # M /\ m.ret # M
      PROVE  OpenCalls(M) = OpenCalls(L)
  BY <1>1, <1>2 DEF OpenCalls
<1>3. ASSUME NEW c \in found_callrets, c.line = M
      PROVE  \E m \in matched :
               \/ m.call = M /\ c = [line |-> m.call, direction |-> 1]
               \/ m.ret = M /\ c = [line |-> m.ret, direction |-> -1]
  <2>1. PICK m \in matched : c \in Ends(m)
    BY DEF CallsPaired
  <2> QED
    BY <2>1, <1>3 DEF Ends
<1>4. \A m, n \in matched :
        m # n => /\ ~(m.call = M /\ n.call = M) /\ ~(m.call = M /\ n.ret = M)
                 /\ ~(m.ret = M /\ n.ret = M)
  BY DEF CallsPaired
<1>5. ASSUME NEW c \in found_callrets, NEW d \in found_callrets,
             c.line = M, d.line = M
      PROVE  c = d
  <2>1. PICK m \in matched :
          \/ m.call = M /\ c = [line |-> m.call, direction |-> 1]
          \/ m.ret = M /\ c = [line |-> m.ret, direction |-> -1]
    BY <1>3, <1>5
  <2>2. PICK n \in matched :
          \/ n.call = M /\ d = [line |-> n.call, direction |-> 1]
          \/ n.ret = M /\ d = [line |-> n.ret, direction |-> -1]
    BY <1>3, <1>5
  <2>3. m = n
    BY <1>4, <2>1, <2>2
  <2> QED
    BY <1>1, <2>1, <2>2, <2>3
<1>6. \A S : S \subseteq matched => IsFiniteSet(S)
  BY FS_Subset
<1>7. ASSUME NEW c \in found_callrets, c.line = M
      PROVE  Cardinality(OpenCalls(M)) = Cardinality(OpenCalls(L)) + c.direction
  <2>1. PICK m \in matched :
          \/ m.call = M /\ c = [line |-> m.call, direction |-> 1]
          \/ m.ret = M /\ c = [line |-> m.ret, direction |-> -1]
    BY <1>3, <1>7
  <2>2. \A n \in matched : n # m => n.call # M /\ n.ret # M
    BY <1>4, <2>1
  <2>3. \A n \in matched : n # m => (n \in OpenCalls(M) <=> n \in OpenCalls(L))
    BY <1>1, <2>2 DEF OpenCalls
  <2>4. IsFiniteSet(OpenCalls(L)) /\ IsFiniteSet(OpenCalls(M))
    BY <1>6 DEF OpenCalls
  <2>5. Cardinality(OpenCalls(L)) \in Int /\ Cardinality(OpenCalls(M)) \in Int
    BY <2>4, FS_CardinalityType
  <2>6. OpenCalls(L) \subseteq matched /\ OpenCalls(M) \subseteq matched
    BY DEF OpenCalls
  <2>7. CASE m.call = M /\ c = [line |-> m.call, direction |-> 1]
    <3>1. m \in OpenCalls(M) /\ m \notin OpenCalls(L)
      BY <1>1, <2>7 DEF OpenCalls
    <3>2. OpenCalls(M) = OpenCalls(L) \cup {m}
      BY <2>3, <2>6, <3>1
    <3>3. Cardinality(OpenCalls(M)) = Cardinality(OpenCalls(L)) + 1
      BY <2>4, <3>1, <3>2, FS_AddElement
    <3> QED
      BY <2>7, <3>3
  <2>8. CASE m.ret = M /\ c = [line |-> m.ret, direction |-> -1]
    <3>1. m \notin OpenCalls(M) /\ m \in OpenCalls(L)
      BY <1>1, <2>8 DEF OpenCalls
    <3>2. OpenCalls(L) = OpenCalls(M) \cup {m}
      BY <2>3, <2>6, <3>1
    <3>3. Cardinality(OpenCalls(L)) = Cardinality(OpenCalls(M)) + 1
      BY <2>4, <3>1, <3>2, FS_AddElement
    <3>4. c.direction = -1
      BY <2>8
    <3> QED
      BY <2>5, <3>3, <3>4
  <2> QED
    BY <2>1, <2>7, <2>8
<1>8. ASSUME \A c \in found_callrets : c.line # M
      PROVE  \A m \in matched : m.call # M /\ m.ret # M
  <2> SUFFICES ASSUME NEW m \in matched
               PROVE  m.call # M /\ m.ret # M
    OBVIOUS
  <2> DEFINE c == [line |-> m.call, direction |-> 1]
             r == [line |-> m.ret, direction |-> -1]
  <2>1. c \in found_callrets /\ r \in found_callrets
    BY MatchedFacts
  <2>2. c.line = m.call /\ r.line = m.ret
    OBVIOUS
  <2> HIDE DEF c, r
  <2> QED
    BY <1>8, <2>1, <2>2
<1> QED
  BY <1>2, <1>5, <1>7, <1>8

(* The iterator is at the first entry beyond the last record visited, and  *)
(* takes it if it is for this record.                                      *)
LEMMA NextCallretIs ==
  ASSUME CallTypes, NEW L \in Nat, NEW M \in Nat, L < M,
         passed = {c \in found_callrets : c.line <= L},
         \A c \in found_callrets : c.line <= L \/ c.line >= M
  PROVE  /\ NextCallret(found_callrets \ passed, M) = {c \in found_callrets : c.line = M}
         /\ passed \cup NextCallret(found_callrets \ passed, M)
              = {c \in found_callrets : c.line <= M}
<1>1. \A c \in found_callrets : c.line \in Nat
  BY DEF CallTypes, CallReturn
<1> QED
  BY <1>1 DEF NextCallret

LEMMA VisitIInv ==
  ASSUME IInv, VisitRecord
  PROVE  IInv'
<1>1. /\ TypeOK /\ RecordsOK /\ CallsOK /\ WalkOK /\ CallTypes /\ CallsPaired
      /\ IsFiniteSet(matched) /\ MarksOK
  BY DEF IInv, TypeOK, CallsOK, WalkOK
<1> DEFINE next == visited + 1
           M == seqtree[next].line
           at == NextCallret(found_callrets \ passed, M)
<1>2. /\ phase = "tree" /\ visited < Len(seqtree) /\ visited' = next
      /\ passed' = passed \cup NextCallret(found_callrets \ passed, seqtree[visited'].line)
      /\ curr_depth' = IF at = {} THEN curr_depth
                       ELSE curr_depth + (CHOOSE c \in at : TRUE).direction
      /\ seqtree' = [seqtree EXCEPT ![visited'].depth = curr_depth']
      /\ UNCHANGED <<family, readVars, lineno_offset, prev_lineno, oldpos,
                     current_time, seen_any_event, seen_instruction, last_mem,
                     heurVars, insnVars, sharedVars>>
  BY DEF VisitRecord
<1>3. passed' = passed \cup at
  BY <1>2
<1>4. /\ seqtree \in Seq(Record) /\ visited \in Nat /\ Len(seqtree) \in Nat
      /\ next \in DOMAIN seqtree /\ DOMAIN seqtree = 1 .. Len(seqtree)
      /\ phase' = phase /\ ~Reading /\ ~Reading'
  BY <1>1, <1>2 DEF TypeOK, RecordTypes, CallTypes, Reading, readVars
<1>5. \A i \in DOMAIN seqtree : seqtree[i] \in Record
  BY <1>4
<1>6. \A i \in DOMAIN seqtree : seqtree[i].line \in Nat /\ seqtree[i].line > 0
  BY <1>5 DEF Record
<1> HIDE DEF next, M, at
<1>7. next = visited + 1 /\ M = seqtree[next].line /\ M \in Nat
  BY <1>4, <1>6 DEF next, M
<1>8. /\ LastVisited \in Nat /\ LastVisited < M
      /\ \A i \in DOMAIN seqtree : seqtree[i].line <= LastVisited \/ seqtree[i].line >= M
  <2>1. \A i, j \in DOMAIN seqtree : i < j => seqtree[i].line < seqtree[j].line
    BY <1>1 DEF RecordsOK, SeqOK, Sorted
  <2>2. CASE visited = 0
    <3>1. \A i \in DOMAIN seqtree : i = next \/ next < i
      BY <1>4, <1>7, <2>2
    <3>2. \A i \in DOMAIN seqtree : seqtree[i].line >= M
      BY <1>4, <1>6, <1>7, <2>1, <3>1
    <3> QED
      BY <1>4, <1>6, <1>7, <2>2, <3>2 DEF LastVisited
  <2>3. CASE visited # 0
    <3>1. visited \in DOMAIN seqtree /\ LastVisited = seqtree[visited].line
      BY <1>2, <1>4, <2>3 DEF LastVisited
    <3>2. \A i \in DOMAIN seqtree : i < visited \/ i = visited \/ i = next \/ next < i
      BY <1>4, <1>7
    <3>3. \A i \in DOMAIN seqtree :
            seqtree[i].line <= LastVisited \/ seqtree[i].line >= M
      BY <1>4, <1>6, <1>7, <2>1, <3>1, <3>2
    <3>4. visited < next
      BY <1>4, <1>7
    <3>5. LastVisited < M /\ LastVisited \in Nat
      BY <1>4, <1>6, <1>7, <2>1, <3>1, <3>4
    <3> QED
      BY <3>3, <3>5
  <2> QED
    BY <2>2, <2>3
<1>9. \A c \in found_callrets : c.line <= LastVisited \/ c.line >= M
  <2> SUFFICES ASSUME NEW c \in found_callrets
               PROVE  c.line <= LastVisited \/ c.line >= M
    OBVIOUS
  <2>1. PICK m \in matched : c \in Ends(m)
    BY <1>1 DEF CallsPaired
  <2>2. c.line = m.call \/ c.line = m.ret
    BY <2>1 DEF Ends
  <2>3. c.line \in Marks
    BY <2>2 DEF Marks
  <2>4. c.line \in FirstLines(seqtree)
    BY <1>1, <1>2, <1>4, <2>3 DEF MarksOK, RecordLines
  <2> QED
    BY <1>8, <2>4 DEF FirstLines
<1>10. /\ at = {c \in found_callrets : c.line = M}
       /\ passed' = {c \in found_callrets : c.line <= M}
  <2>1. passed = {c \in found_callrets : c.line <= LastVisited}
    BY <1>1 DEF WalkOK
  <2> QED
    BY <1>1, <1>3, <1>7, <1>8, <1>9, <2>1, NextCallretIs DEF at
<1>11. /\ (\A c \in found_callrets : c.line # M)
            => OpenCalls(M) = OpenCalls(LastVisited)
       /\ \A c \in found_callrets :
            c.line = M => Cardinality(OpenCalls(M))
                            = Cardinality(OpenCalls(LastVisited)) + c.direction
  BY <1>1, <1>7, <1>8, <1>9, OpenStep
<1>12. curr_depth' = Cardinality(OpenCalls(M))
  <2>1. curr_depth = Cardinality(OpenCalls(LastVisited))
    BY <1>1 DEF WalkOK
  <2>2. CASE at = {}
    BY <1>2, <1>10, <1>11, <2>1, <2>2
  <2>3. CASE at # {}
    <3>1. (CHOOSE c \in at : TRUE) \in at
      BY <2>3
    <3> QED
      BY <1>2, <1>10, <1>11, <2>1, <2>3, <3>1
  <2> QED
    BY <2>2, <2>3
<1>13. curr_depth' \in Int
  <2>1. IsFiniteSet(OpenCalls(M))
    BY <1>1, FS_Subset DEF OpenCalls
  <2> QED
    BY <1>12, <2>1, FS_CardinalityType
<1>14. seqtree' = [seqtree EXCEPT ![next].depth = curr_depth']
  BY <1>2
<1>15. [seqtree[next] EXCEPT !.depth = curr_depth'] \in Record
  BY <1>4, <1>5, <1>13 DEF Record
<1>16. /\ seqtree' \in Seq(Record) /\ Len(seqtree') = Len(seqtree)
       /\ DOMAIN seqtree' = DOMAIN seqtree
       /\ \A i \in DOMAIN seqtree : i # next => seqtree'[i] = seqtree[i]
       /\ seqtree'[next] = [seqtree[next] EXCEPT !.depth = curr_depth']
  BY <1>4, <1>14, <1>15
<1>17. \A i \in DOMAIN seqtree :
         /\ seqtree'[i].line = seqtree[i].line /\ seqtree'[i].time = seqtree[i].time
         /\ seqtree'[i].pos = seqtree[i].pos /\ seqtree'[i].len = seqtree[i].len
         /\ seqtree'[i].lines = seqtree[i].lines
         /\ i # next => seqtree'[i].depth = seqtree[i].depth
  BY <1>4, <1>5, <1>16 DEF Record
<1>18. seqtree'[next].depth = curr_depth'
  BY <1>4, <1>5, <1>16 DEF Record
<1>19. FirstLines(seqtree') = FirstLines(seqtree)
  BY <1>16, <1>17 DEF FirstLines
<1>20. TypeOK'
  <2>1. ReadTypes'
    BY <1>1, <1>2 DEF TypeOK, ReadTypes, readVars
  <2>2. RecordTypes'
    BY <1>1, <1>2, <1>16 DEF TypeOK, RecordTypes
  <2>3. EventTypes'
    BY <1>1, <1>2
    DEF TypeOK, EventTypes, sharedVars, insnVars, heurVars
  <2>4. CallTypes'
    <3>1. passed' \subseteq CallReturn
      BY <1>1, <1>10 DEF CallTypes
    <3>2. visited' \in Nat
      BY <1>2, <1>4, <1>7
    <3> QED
      BY <1>1, <1>2, <1>13, <3>1, <3>2 DEF CallTypes, sharedVars, heurVars
  <2> QED
    BY <2>1, <2>2, <2>3, <2>4 DEF TypeOK
<1>21. LineOK' /\ PositionOK'
  BY <1>2, <1>4 DEF LineOK, PositionOK
<1>22. SeqOK'
  <2>1. Sorted(seqtree')
    BY <1>1, <1>16, <1>17 DEF RecordsOK, SeqOK, Sorted
  <2> QED
    BY <1>1, <1>2, <1>4, <1>16, <1>17, <2>1 DEF RecordsOK, SeqOK
<1>23. RecordsTile'
  <2>1. Tiles(seqtree, linepos, lineno)
    BY <1>1, <1>2, <1>4 DEF RecordsOK, RecordsTile
  <2>2. seqtree' # <<>> => 1 \in DOMAIN seqtree /\ seqtree # <<>>
    BY <1>4, <1>16
  <2>3. ASSUME NEW i \in DOMAIN seqtree', i < Len(seqtree')
        PROVE  i + 1 \in DOMAIN seqtree
    BY <1>4, <1>16, <2>3
  <2>4. ASSUME NEW i \in DOMAIN seqtree'
        PROVE  /\ seqtree'[i].len > 0 /\ seqtree'[i].lines > 0
               /\ seqtree'[i].pos + seqtree'[i].len
                    = IF i < Len(seqtree') THEN seqtree'[i + 1].pos ELSE linepos
               /\ seqtree'[i].line + seqtree'[i].lines
                    = IF i < Len(seqtree') THEN seqtree'[i + 1].line ELSE lineno
    <3>1. /\ seqtree[i].len > 0 /\ seqtree[i].lines > 0
          /\ seqtree[i].pos + seqtree[i].len
               = IF i < Len(seqtree) THEN seqtree[i + 1].pos ELSE linepos
          /\ seqtree[i].line + seqtree[i].lines
               = IF i < Len(seqtree) THEN seqtree[i + 1].line ELSE lineno
      BY <1>16, <2>1, <2>4 DEF Tiles
    <3>2. i \in DOMAIN seqtree
      BY <1>16, <2>4
    <3>3. CASE i < Len(seqtree')
      BY <1>16, <1>17, <2>3, <3>1, <3>2, <3>3
    <3>4. CASE ~(i < Len(seqtree'))
      BY <1>16, <1>17, <3>1, <3>2, <3>4
    <3> QED
      BY <3>3, <3>4
  <2>5. Tiles(seqtree', linepos, lineno)
    <3>1. seqtree' # <<>> => seqtree'[1].line = 1
      BY <1>17, <2>1, <2>2 DEF Tiles
    <3> QED
      BY <2>4, <3>1 DEF Tiles
  <2> QED
    BY <1>2, <1>4, <2>5 DEF RecordsTile, readVars
<1>24. CallsOK'
  BY <1>1, <1>2, <1>4, <1>19, CallsStill DEF RecordLines, sharedVars, heurVars
<1>25. WalkOK'
  <2>1. matched' = matched /\ found_callrets' = found_callrets
    BY <1>2 DEF heurVars
  <2>2. LastVisited' = M
    BY <1>2, <1>4, <1>7, <1>17 DEF LastVisited
  <2>3. DepthIsOpenCalls'
    <3> SUFFICES ASSUME NEW k \in 1 .. visited'
                 PROVE  seqtree'[k].depth
                          = Cardinality({m \in matched : m.call <= seqtree'[k].line
                                                        /\ seqtree'[k].line < m.ret})
      BY <2>1 DEF DepthIsOpenCalls, OpenCalls
    <3>1. k \in DOMAIN seqtree /\ (k = next \/ k \in 1 .. visited)
      BY <1>2, <1>4, <1>7
    <3>2. CASE k = next
      BY <1>7, <1>12, <1>17, <1>18, <3>1, <3>2 DEF OpenCalls
    <3>3. CASE k # next
      <4>1. seqtree[k].depth = Cardinality(OpenCalls(seqtree[k].line))
        BY <1>1, <3>1, <3>3 DEF WalkOK, DepthIsOpenCalls
      <4> QED
        BY <1>17, <3>1, <3>3, <4>1 DEF OpenCalls
    <3> QED
      BY <3>2, <3>3
  <2>4. visited' <= Len(seqtree')
    BY <1>2, <1>4, <1>7, <1>16
  <2>5. curr_depth' = Cardinality(OpenCalls(LastVisited)')
    BY <1>12, <2>1, <2>2 DEF OpenCalls
  <2> QED
    BY <1>1, <1>4, <1>10, <2>1, <2>2, <2>3, <2>4, <2>5 DEF WalkOK
<1> QED
  BY <1>20, <1>21, <1>22, <1>23, <1>24, <1>25 DEF IInv, RecordsOK

LEMMA StutterIInv ==
  ASSUME IInv, UNCHANGED vars
  PROVE  IInv'
<1>1. UNCHANGED <<family, readVars, recordVars, heurVars, insnVars, sharedVars,
                  walkVars>>
  BY DEF vars
<1> USE <1>1 DEF readVars, recordVars, heurVars, insnVars, sharedVars, walkVars
<1>2. TypeOK'
  BY DEF IInv, TypeOK, ReadTypes, RecordTypes, EventTypes, CallTypes
<1>3. RecordsOK'
  BY DEF IInv, RecordsOK, LineOK, PositionOK, SeqOK, Sorted, RecordsTile, Reading
<1>4. CallsOK'
  <2>1. Marks' = Marks /\ RecordLines' = RecordLines
    BY DEF Marks, RecordLines, Reading
  <2>2. CallsPaired'
    BY DEF IInv, CallsOK, CallsPaired
  <2>3. MarksOK'
    BY <2>1 DEF IInv, CallsOK, MarksOK, Reading
  <2> QED
    BY <2>2, <2>3 DEF CallsOK
<1>5. WalkOK'
  BY WalkStill DEF IInv, TypeOK, WalkOK, Reading
<1> QED
  BY <1>2, <1>3, <1>4, <1>5 DEF IInv

LEMMA NextIInv == IInv /\ [Next]_vars => IInv'
<1> SUFFICES ASSUME IInv, [Next]_vars PROVE IInv'
  OBVIOUS
<1>1. CASE ReadLine BY <1>1, ReadLineIInv
<1>2. CASE EndLine BY <1>2, EndLineIInv
<1>3. CASE ReadEof BY <1>3, ReadEofIInv
<1>4. CASE ReadEnd BY <1>4, ReadEndIInv
<1>5. CASE ParseError BY <1>5, ParseErrorIInv
<1>6. CASE GotInstruction BY <1>6, InstructionIInv
<1>7. CASE GotRegister BY <1>7, RegisterIInv
<1>8. CASE GotException BY <1>8, ExceptionIInv
<1>9. CASE GotText BY <1>9, TextIInv
<1>10. CASE VisitRecord BY <1>10, VisitIInv
<1>11. CASE FinaliseIndex BY <1>11, FinaliseIInv
<1>12. CASE Stopped \/ UNCHANGED vars BY <1>12, StutterIInv DEF Stopped
<1> QED
  BY <1>1, <1>2, <1>3, <1>4, <1>5, <1>6, <1>7, <1>8, <1>9, <1>10, <1>11, <1>12
  DEF Next

-----------------------------------------------------------------------------
(* The inductive invariant holds in every state of every indexing run. *)
THEOREM Inductive == Spec => []IInv
<1>1. Init => IInv
  BY InitIInv
<1>2. IInv /\ [Next]_vars => IInv'
  BY NextIInv
<1> QED
  BY <1>1, <1>2, PTL DEF Spec

(* Every variable of the indexer keeps its type.  That depends on the      *)
(* heuristics: only a known stack pointer and link register become a       *)
(* pending call.                                                           *)
THEOREM TypeCorrect == Spec => []TypeOK
<1>1. IInv => TypeOK
  BY DEF IInv
<1> QED
  BY <1>1, Inductive, PTL

(* The records got_event_common() emits tile the trace file, in bytes and  *)
(* in lines, for every way events fall into lines and the file can end.    *)
THEOREM RecordsTileTrace == Spec => []RecordsTile
<1>1. IInv => RecordsTile
  BY DEF IInv, RecordsOK
<1> QED
  BY <1>1, Inductive, PTL

(* Whatever times the trace gives its events, the records are in the order *)
(* of time, as find_record_at_time()'s search needs.                       *)
THEOREM RecordsInTimeOrder == Spec => []TimesRise
<1>1. IInv => TimesRise
  <2> SUFFICES ASSUME IInv, NEW i \in 2 .. Len(seqtree)
               PROVE  seqtree[i - 1].time <= seqtree[i].time
    BY DEF TimesRise
  <2>1. i \in DOMAIN seqtree /\ i - 1 \in DOMAIN seqtree /\ i - 1 < i
    BY DEF IInv, TypeOK, RecordTypes
  <2> QED
    BY <2>1 DEF IInv, RecordsOK, SeqOK, Sorted
<1> QED
  BY <1>1, Inductive, PTL

(* No entry of found_callrets is lost to another for the same line, so     *)
(* update_pc()'s matched calls are all in it with both their ends.         *)
THEOREM CallsArePaired == Spec => []CallsPaired
<1>1. IInv => CallsPaired
  BY DEF IInv, CallsOK
<1> QED
  BY <1>1, Inductive, PTL

(* Every entry of found_callrets is for a line at which a record starts,   *)
(* so build_call_tree()'s iterator never waits for a record in vain.       *)
THEOREM CallretsAreAtRecords == Spec => []CallretsAtRecords
<1>1. IInv => CallretsAtRecords
  <2> SUFFICES ASSUME IInv, phase # "failed", NEW c \in found_callrets
               PROVE  c.line \in RecordLines
    BY DEF CallretsAtRecords
  <2>1. PICK m \in matched : c \in Ends(m)
    BY DEF IInv, CallsOK, CallsPaired
  <2>2. c.line \in Marks
    BY <2>1 DEF Ends, Marks
  <2> QED
    BY <2>2 DEF IInv, CallsOK, MarksOK
<1> QED
  BY <1>1, Inductive, PTL

(* The call depth build_call_tree() gives a record is the number of calls  *)
(* it is inside of, and so never negative.                                 *)
THEOREM DepthCountsOpenCalls == Spec => []DepthIsOpenCalls
<1>1. IInv => DepthIsOpenCalls
  BY DEF IInv, WalkOK
<1> QED
  BY <1>1, Inductive, PTL

-----------------------------------------------------------------------------
(***************************************************************************)
(* Calls and their frames: a return is only matched with a call whose      *)
(* frame was still there, MatchesKeepFrames.                               *)
(*                                                                         *)
(* The heuristic compares stack pointers read from last_mem, and drops a   *)
(* pending call when it sees the stack pointer above the call's, a record  *)
(* late.  FramesOK says what a pending call still knows of the records     *)
(* since it was made, and where the stack pointers of a matched call and   *)
(* of its return were read.                                                *)
(***************************************************************************)
(* The stack pointer update_pc() takes from a memory tree. *)
SpIn(memory, state) ==
  IF memory.cell[SpOf(state)] = Unknown THEN ULLONG_MAX
  ELSE memory.cell[SpOf(state)]

NoMemory == [cell |-> [c \in Cells |-> Unknown], iflags |-> Unknown]

(* The memory tree as it was when record k began. *)
MemBefore(s, k) == IF k = 1 THEN NoMemory ELSE s[k - 1].mem

(* A stack pointer was the one at the beginning of the record of a line,   *)
(* in one execution state; and the record's instruction was in one.        *)
ReadAt(at, sp, state) ==
  /\ \A k \in DOMAIN seqtree :
       seqtree[k].line = at => sp = SpIn(MemBefore(seqtree, k), state)
  /\ Reading /\ prev_lineno = at => sp = SpIn(last_mem, state)

ExecutedIn(at, state) ==
  /\ \A k \in DOMAIN seqtree : seqtree[k].line = at => seqtree[k].mem.iflags = state
  /\ Reading /\ prev_lineno = at => mem.iflags = state

CallRead(at, sp, state) == ExecutedIn(at, state) => ReadAt(at, sp, state)

CallSpsRead ==
  \A state \in States :
    /\ \A p \in pending_calls : CallRead(p.call_line, p.sp, state)
    /\ \A m \in matched : CallRead(m.call, m.sp, state)

ReturnSpsRead == \A m \in matched : ReadAt(m.ret, m.sp, m.state)

(* Since a pending call was made, no record but the last left the stack    *)
(* pointer above the call's, while the execution state stayed the same;    *)
(* and the open record that changes it has noticed where the last left it. *)
Since(p) == {k \in DOMAIN seqtree : p.call_line <= seqtree[k].line}

Framed(p, state) ==
  (\A k \in Since(p) : seqtree[k].mem.iflags = state) =>
    \A k \in Since(p) :
      LET sp == seqtree[k].mem.cell[SpOf(state)]
      IN sp = Unknown \/ sp <= p.sp \/ sp = last_mem.cell[SpOf(state)]

Noticed(p, state) ==
  LET last == last_mem.cell[SpOf(state)]
  IN (/\ last_mem.iflags = state /\ mem.iflags = state
      /\ mem.cell[SpOf(state)] # last)
     => last = Unknown \/ last <= p.sp

PendingFramed ==
  \A p \in pending_calls, state \in States : Framed(p, state) /\ Noticed(p, state)

(* The memory tree, and what was in it when the open record began. *)
OpenMemory ==
  /\ last_mem = MemBefore(seqtree, Len(seqtree) + 1)
  /\ \A c \in Cells : mem.cell[c] = Unknown => last_mem.cell[c] = Unknown
  /\ mem.iflags # Unknown => mem.iflags = curr_iflags
  /\ ~seen_instruction => mem.iflags = last_mem.iflags
  /\ ~seen_any_event => mem = NoMemory
  /\ pending_calls # {} => RecordCalls

(* A register that is known once stays known. *)
KnownStays ==
  \A i, j \in DOMAIN seqtree, c \in Cells :
    i < j /\ seqtree[j].mem.cell[c] = Unknown => seqtree[i].mem.cell[c] = Unknown

(* Only the open record has a mark that is not in the tree yet. *)
Behind(at) ==
  at = prev_lineno \/ (at < prev_lineno /\ at \in FirstLines(seqtree))

MarksBehind == \A at \in Marks : Behind(at)

(* FramesNeverPopped, of one call. *)
FrameKept(m) ==
  (\A k \in Inside(m) : seqtree[k].mem.iflags = m.state) =>
    \A k \in Inside(m) :
      LET sp == seqtree[k].mem.cell[SpOf(m.state)]
      IN sp = Unknown \/ sp <= m.sp

MatchesOK ==
  /\ KnownStays /\ MarksBehind /\ CallSpsRead /\ ReturnSpsRead
  /\ FramesNeverPopped

FramesOK == MatchesOK /\ (Reading => OpenMemory /\ PendingFramed)

-----------------------------------------------------------------------------
(***************************************************************************)
(* What a step that makes or closes no call does to the calls there are.   *)
(***************************************************************************)
Carried ==
  /\ KnownStays'
  /\ \A at \in Marks : Behind(at)'
  /\ \A at \in Marks, sp \in 0 .. ULLONG_MAX, state \in States :
       /\ ReadAt(at, sp, state) => ReadAt(at, sp, state)'
       /\ CallRead(at, sp, state) => CallRead(at, sp, state)'
  /\ \A m \in matched : FrameKept(m)'

LEMMA CellFacts ==
  ASSUME NEW s \in States
  PROVE  SpOf(s) \in Cells /\ s # Unknown
  BY DEF SpOf, Cells, States

LEMMA RecordFacts ==
  ASSUME TypeOK, NEW k \in DOMAIN seqtree
  PROVE  /\ k \in 1 .. Len(seqtree) /\ Len(seqtree) \in Nat
         /\ seqtree[k].line \in Nat /\ seqtree[k].mem \in Memory
<1>1. seqtree \in Seq(Record)
  BY DEF TypeOK, RecordTypes
<1>2. seqtree[k] \in Record /\ k \in 1 .. Len(seqtree) /\ Len(seqtree) \in Nat
  BY <1>1
<1> QED
  BY <1>2 DEF Record

LEMMA MarkFacts ==
  ASSUME TypeOK
  PROVE  /\ Marks \subseteq Nat
         /\ \A p \in pending_calls : p.call_line \in Marks /\ p.sp \in 0 .. ULLONG_MAX
         /\ \A m \in matched : /\ m.call \in Marks /\ m.ret \in Marks
                               /\ m.sp \in 0 .. ULLONG_MAX /\ m.state \in States
  BY DEF Marks, TypeOK, CallTypes, PendingCall, MatchedCall

(* The records are the same, and so are the open record and what was there *)
(* when it began, as long as the trace is read.                            *)
LEMMA SameRecords ==
  ASSUME TypeOK, SeqOK, MatchesOK,
         DOMAIN seqtree' = DOMAIN seqtree,
         \A k \in DOMAIN seqtree : /\ seqtree'[k].line = seqtree[k].line
                                   /\ seqtree'[k].mem = seqtree[k].mem,
         prev_lineno' = prev_lineno,
         Reading' => /\ Reading /\ last_mem' = last_mem
                     /\ mem'.iflags = mem.iflags \/ prev_lineno \notin Marks
  PROVE  Carried
<1>1. KnownStays'
  BY DEF MatchesOK, KnownStays
<1>2. FirstLines(seqtree') = FirstLines(seqtree)
  BY DEF FirstLines
<1>3. \A at \in Marks : Behind(at)'
  BY <1>2 DEF MatchesOK, MarksBehind, Behind
<1>4. \A k \in DOMAIN seqtree : MemBefore(seqtree', k) = MemBefore(seqtree, k)
  <2> SUFFICES ASSUME NEW k \in DOMAIN seqtree
               PROVE  MemBefore(seqtree', k) = MemBefore(seqtree, k)
    OBVIOUS
  <2>1. k = 1 \/ k - 1 \in DOMAIN seqtree
    BY RecordFacts DEF TypeOK, RecordTypes
  <2> QED
    BY <2>1 DEF MemBefore
<1>5. ASSUME NEW at, NEW sp, NEW state, ReadAt(at, sp, state)
      PROVE  ReadAt(at, sp, state)'
  BY <1>4, <1>5 DEF ReadAt
<1>6. ASSUME NEW at \in Marks, NEW sp, NEW state, CallRead(at, sp, state),
             ExecutedIn(at, state)'
      PROVE  ReadAt(at, sp, state)'
  <2>1. CASE Reading /\ ~Reading' /\ prev_lineno = at
    <3>1. \A k \in DOMAIN seqtree : seqtree[k].line # at
      BY <2>1, RecordFacts DEF SeqOK, TypeOK, RecordTypes
    <3> QED
      BY <2>1, <3>1 DEF ReadAt
  <2>2. CASE ~(Reading /\ ~Reading' /\ prev_lineno = at)
    <3>1. ExecutedIn(at, state)
      BY <1>6, <2>2 DEF ExecutedIn
    <3> QED
      BY <1>5, <1>6, <3>1 DEF CallRead
  <2> QED
    BY <2>1, <2>2
<1>7. \A m \in matched : FrameKept(m)'
  BY DEF MatchesOK, FramesNeverPopped, FrameKept, Inside
<1> QED
  BY <1>1, <1>3, <1>5, <1>6, <1>7 DEF Carried, CallRead

(* The open record becomes the last one; either the next begins at a later *)
(* line or the trace has been read.                                        *)
LEMMA GrownRecords ==
  ASSUME TypeOK, SeqOK, MarksOK, Reading, FramesOK,
         NEW r \in Record, r.line = prev_lineno, r.mem = mem,
         seqtree' = Append(seqtree, r),
         prev_lineno' \in Nat, Reading' => prev_lineno' > prev_lineno,
         prev_lineno' = prev_lineno \/ prev_lineno' > prev_lineno
  PROVE  /\ Carried
         /\ mem = MemBefore(seqtree', Len(seqtree') + 1)
<1> DEFINE n == Len(seqtree) + 1
<1>1. /\ n \in Nat /\ Len(seqtree) \in Nat /\ Len(seqtree') = n
      /\ DOMAIN seqtree = 1 .. Len(seqtree) /\ DOMAIN seqtree' = 1 .. n
      /\ seqtree'[n] = r /\ \A k \in DOMAIN seqtree : seqtree'[k] = seqtree[k]
  BY AppendFacts DEF TypeOK, RecordTypes
<1>2. /\ n \in DOMAIN seqtree'
      /\ \A k \in DOMAIN seqtree' : k # n => k \in DOMAIN seqtree
      /\ \A k \in DOMAIN seqtree : k \in DOMAIN seqtree' /\ k < n /\ k # n
  BY <1>1
<1>3. /\ prev_lineno \in Nat
      /\ \A k \in DOMAIN seqtree : seqtree[k].line < prev_lineno
      /\ \A at \in Marks : at \in Nat /\ at <= prev_lineno
      /\ last_mem = MemBefore(seqtree, n)
      /\ \A c \in Cells : mem.cell[c] = Unknown => last_mem.cell[c] = Unknown
  BY MarkFacts DEF TypeOK, RecordTypes, SeqOK, MarksOK, FramesOK, OpenMemory
<1>4. \A k \in DOMAIN seqtree : MemBefore(seqtree', k) = MemBefore(seqtree, k)
  <2> SUFFICES ASSUME NEW k \in DOMAIN seqtree
               PROVE  MemBefore(seqtree', k) = MemBefore(seqtree, k)
    OBVIOUS
  <2>1. k = 1 \/ k - 1 \in DOMAIN seqtree
    BY <1>1
  <2> QED
    BY <1>1, <2>1 DEF MemBefore
<1>5. last_mem = MemBefore(seqtree', n)
  <2>1. n = 1 \/ n - 1 \in DOMAIN seqtree
    BY <1>1
  <2> QED
    BY <1>1, <1>3, <2>1 DEF MemBefore
<1>6. mem = MemBefore(seqtree', n + 1)
  <2>1. n + 1 # 1 /\ (n + 1) - 1 = n
    BY <1>1
  <2> QED
    BY <1>1, <2>1 DEF MemBefore
<1>k. ASSUME NEW i \in DOMAIN seqtree, NEW c \in Cells, last_mem.cell[c] = Unknown
      PROVE  seqtree[i].mem.cell[c] = Unknown
  <2>1. n # 1 /\ n - 1 \in DOMAIN seqtree /\ i <= n - 1
    BY <1>1, <1>k
  <2>2. last_mem = seqtree[n - 1].mem
    BY <1>3, <2>1 DEF MemBefore
  <2>3. i = n - 1 \/ i < n - 1
    BY <1>1, <2>1
  <2> QED
    BY <1>k, <2>1, <2>2, <2>3 DEF FramesOK, MatchesOK, KnownStays
<1> HIDE DEF n
<1>7. KnownStays'
  <2> SUFFICES ASSUME NEW i \in DOMAIN seqtree', NEW j \in DOMAIN seqtree',
                      NEW c \in Cells, i < j, seqtree'[j].mem.cell[c] = Unknown
               PROVE  seqtree'[i].mem.cell[c] = Unknown
    BY DEF KnownStays
  <2>1. i \in DOMAIN seqtree /\ seqtree'[i] = seqtree[i]
    BY <1>1
  <2>2. CASE j = n
    BY <1>1, <1>3, <1>k, <2>1, <2>2
  <2>3. CASE j # n
    BY <1>1, <1>2, <2>1, <2>3 DEF FramesOK, MatchesOK, KnownStays
  <2> QED
    BY <2>2, <2>3
<1>8. \A at \in Marks : Behind(at)'
  <2>1. \A at \in FirstLines(seqtree) : at \in FirstLines(seqtree')
    BY <1>1, <1>2 DEF FirstLines
  <2>2. prev_lineno \in FirstLines(seqtree')
    BY <1>1, <1>2 DEF FirstLines
  <2> SUFFICES ASSUME NEW at \in Marks PROVE Behind(at)'
    OBVIOUS
  <2>3. at = prev_lineno \/ (at < prev_lineno /\ at \in FirstLines(seqtree))
    BY DEF FramesOK, MatchesOK, MarksBehind, Behind
  <2> QED
    BY <1>3, <2>1, <2>2, <2>3 DEF Behind
<1>9. \A at \in Marks : ~(Reading' /\ prev_lineno' = at)
  BY <1>3
<1>10. ASSUME NEW at \in Marks, NEW sp, NEW state, ReadAt(at, sp, state)
       PROVE  ReadAt(at, sp, state)'
  <2>1. ASSUME NEW k \in DOMAIN seqtree', seqtree'[k].line = at
        PROVE  sp = SpIn(MemBefore(seqtree', k), state)
    <3>1. CASE k = n
      BY <1>1, <1>5, <1>10, <2>1, <3>1 DEF ReadAt
    <3>2. CASE k # n
      BY <1>1, <1>2, <1>4, <1>10, <2>1, <3>2 DEF ReadAt
    <3> QED
      BY <3>1, <3>2
  <2> QED
    BY <1>9, <2>1 DEF ReadAt
<1>11. ASSUME NEW at \in Marks, NEW state, ExecutedIn(at, state)'
       PROVE  ExecutedIn(at, state)
  BY <1>1, <1>2, <1>11 DEF ExecutedIn
<1>12. ASSUME NEW m \in matched
       PROVE  FrameKept(m)'
  <2>1. Inside(m)' = Inside(m)
    <3>1. m.ret <= prev_lineno /\ m.ret \in Nat
      BY <1>3, MarkFacts
    <3>2. ~(seqtree'[n].line < m.ret)
      BY <1>1, <1>3, <3>1
    <3> QED
      BY <1>1, <1>2, <3>2 DEF Inside
  <2>2. \A k \in Inside(m) : seqtree'[k] = seqtree[k]
    BY <1>1 DEF Inside
  <2> QED
    BY <2>1, <2>2 DEF FrameKept, FramesOK, MatchesOK, FramesNeverPopped
<1> QED
  BY <1>1, <1>6, <1>7, <1>8, <1>10, <1>11, <1>12 DEF Carried, CallRead

(* The open record becomes the last one, and the next begins in its        *)
(* memory: a pending call keeps its frame.                                 *)
LEMMA GrownFramed ==
  ASSUME TypeOK, SeqOK, MarksOK, Reading, FramesOK,
         NEW r \in Record, r.line = prev_lineno, r.mem = mem,
         seqtree' = Append(seqtree, r), last_mem' = mem,
         NEW p \in pending_calls, NEW state \in States
  PROVE  Framed(p, state)'
<1> DEFINE n == Len(seqtree) + 1
           reg == SpOf(state)
<1>1. /\ n \in Nat /\ DOMAIN seqtree = 1 .. n - 1 /\ DOMAIN seqtree' = 1 .. n
      /\ seqtree'[n] = r /\ \A k \in DOMAIN seqtree : seqtree'[k] = seqtree[k]
  BY AppendFacts DEF TypeOK, RecordTypes
<1>2. /\ p.call_line \in Nat /\ p.call_line <= prev_lineno
      /\ last_mem = MemBefore(seqtree, n)
      /\ Framed(p, state) /\ Noticed(p, state)
  BY MarkFacts DEF MarksOK, FramesOK, OpenMemory, PendingFramed
<1> HIDE DEF n
<1> SUFFICES ASSUME \A k \in Since(p)' : seqtree'[k].mem.iflags = state,
                    NEW k \in Since(p)'
             PROVE  LET sp == seqtree'[k].mem.cell[reg]
                    IN sp = Unknown \/ sp <= p.sp \/ sp = mem.cell[reg]
  BY DEF Framed
<1>3. n \in Since(p)' /\ mem.iflags = state
  BY <1>1, <1>2 DEF Since
<1>4. CASE k = n
  BY <1>1, <1>4
<1>5. CASE k # n
  <2>1. k \in DOMAIN seqtree /\ seqtree'[k] = seqtree[k] /\ k \in Since(p)
    BY <1>1, <1>5 DEF Since
  <2>2. \A i \in Since(p) : seqtree[i].mem.iflags = state
    BY <1>1 DEF Since
  <2>3. LET sp == seqtree[k].mem.cell[reg]
        IN sp = Unknown \/ sp <= p.sp \/ sp = last_mem.cell[reg]
    BY <1>2, <2>1, <2>2 DEF Framed
  <2>4. n - 1 \in DOMAIN seqtree /\ k <= n - 1 /\ n # 1 /\ k \in Nat /\ n - 1 \in Nat
    BY <1>1, <2>1
  <2>5. n - 1 \in Since(p)
    <3>1. seqtree[k].line <= seqtree[n - 1].line
      BY <2>1, <2>4, RecordFacts DEF SeqOK, Sorted
    <3>2. p.call_line <= seqtree[k].line
      BY <2>1 DEF Since
    <3>3. seqtree[k].line \in Nat /\ seqtree[n - 1].line \in Nat
      BY <2>1, <2>4, RecordFacts
    <3> QED
      BY <1>2, <2>4, <3>1, <3>2, <3>3 DEF Since
  <2>6. last_mem.iflags = state
    BY <1>2, <2>2, <2>4, <2>5 DEF MemBefore
  <2>7. \/ mem.cell[reg] = last_mem.cell[reg] \/ last_mem.cell[reg] = Unknown
        \/ last_mem.cell[reg] <= p.sp
    BY <1>2, <1>3, <2>6 DEF Noticed
  <2> QED
    BY <2>1, <2>3, <2>7
<1> QED
  BY <1>4, <1>5

(* A handler carries the calls along with the records. *)
LEMMA HandlesFrames ==
  ASSUME IInv, FramesOK, NEW k, Handles(k),
         k = "insn" \/ mem'.iflags = mem.iflags
  PROVE  /\ Carried /\ Reading /\ Reading'
         /\ last_mem' = MemBefore(seqtree', Len(seqtree') + 1)
         /\ \A c \in Cells : mem.cell[c] = Unknown => last_mem'.cell[c] = Unknown
         /\ \A p \in pending_calls, state \in States : Framed(p, state)'
<1>1. /\ TypeOK /\ SeqOK /\ MarksOK /\ RecordsOK /\ CallsOK
  BY DEF IInv, RecordsOK, CallsOK
<1>2. /\ phase = "line" /\ Reading /\ Reading' /\ todo # <<>>
      /\ GotEventCommon(Head(todo)) /\ Head(todo).kind = k
      /\ linepos' = linepos /\ lineno' = lineno
  BY DEF Handles, Reading
<1>3. /\ OpenMemory /\ MatchesOK /\ PendingFramed
  BY <1>2 DEF FramesOK
<1>4. \A at \in Marks : at = prev_lineno' => k # "insn"
  BY <1>1, HandlesMarks
<1>5. CASE StartsRecord(Head(todo)) /\ seen_any_event
  <2>1. /\ seqtree' = EmitRecord(linepos, lineno) /\ last_mem' = mem
        /\ prev_lineno' = lineno
    BY <1>2, <1>5 DEF GotEventCommon
  <2>2. lineno > prev_lineno /\ linepos > oldpos
    BY <1>1, <1>2, <1>5, StartsFresh
  <2> DEFINE r == OpenRecord(linepos, lineno)
  <2>3. seqtree' = Append(seqtree, r)
    BY <1>1, <1>5, <2>1, <2>2 DEF EmitRecord, HasRecord, TypeOK, ReadTypes, RecordTypes
  <2>4. r \in Record /\ r.line = prev_lineno /\ r.mem = mem /\ lineno \in Nat
    <3>1. linepos \in Nat /\ lineno \in Nat
      BY <1>1 DEF TypeOK, ReadTypes
    <3> QED
      BY <1>1, <3>1, OpenRecordFacts DEF TypeOK, OpenRecord
  <2> HIDE DEF r
  <2>5. Carried /\ mem = MemBefore(seqtree', Len(seqtree') + 1)
    BY <1>1, <1>2, <2>1, <2>2, <2>3, <2>4, GrownRecords
  <2>6. \A p \in pending_calls, state \in States : Framed(p, state)'
    BY <1>1, <1>2, <2>1, <2>3, <2>4, GrownFramed
  <2> QED
    BY <1>2, <2>1, <2>5, <2>6
<1>6. CASE StartsRecord(Head(todo)) /\ ~seen_any_event
  <2>1. /\ seqtree' = <<>> /\ seqtree = <<>> /\ last_mem' = mem /\ mem = NoMemory
    BY <1>1, <1>2, <1>3, <1>6
    DEF GotEventCommon, EmitRecord, HasRecord, RecordsOK, PositionOK, OpenMemory
  <2>2. Marks = {}
    <3>1. RecordLines = {}
      BY <1>6, <2>1 DEF RecordLines, FirstLines
    <3> QED
      BY <1>1, <1>2, <3>1 DEF MarksOK, Reading
  <2>3. pending_calls = {} /\ matched = {}
    BY <2>2 DEF Marks
  <2>4. Carried
    BY <2>1, <2>2, <2>3 DEF Carried, KnownStays
  <2>5. last_mem' = MemBefore(seqtree', Len(seqtree') + 1)
    BY <2>1 DEF MemBefore
  <2> QED
    BY <1>2, <2>1, <2>3, <2>4, <2>5
<1>7. CASE ~StartsRecord(Head(todo))
  <2>1. seqtree' = seqtree /\ last_mem' = last_mem /\ prev_lineno' = prev_lineno
    BY <1>2, <1>7 DEF GotEventCommon
  <2>2. mem'.iflags = mem.iflags \/ prev_lineno \notin Marks
    BY <1>4, <2>1
  <2>3. Carried
    BY <1>1, <1>2, <1>3, <2>1, <2>2, SameRecords
  <2>4. \A p \in pending_calls, state \in States : Framed(p, state)'
    BY <1>3, <2>1 DEF PendingFramed, Framed, Since
  <2> QED
    BY <1>2, <1>3, <2>1, <2>3, <2>4 DEF OpenMemory
<1> QED
  BY <1>5, <1>6, <1>7

-----------------------------------------------------------------------------
(***************************************************************************)
(* The handlers.                                                           *)
(***************************************************************************)
(* No call is made or closed: what is left of the calls is as it was. *)
LEMMA CarriedMatches ==
  ASSUME TypeOK, MatchesOK, Carried,
         pending_calls' \subseteq pending_calls, matched' = matched
  PROVE  MatchesOK'
<1>1. MarksBehind'
  <2>1. Marks' \subseteq Marks
    BY DEF Marks
  <2> QED
    BY <2>1 DEF Carried, MarksBehind
<1>2. CallSpsRead' /\ ReturnSpsRead'
  BY MarkFacts DEF Carried, MatchesOK, CallSpsRead, ReturnSpsRead
<1>3. FramesNeverPopped'
  BY DEF Carried, FrameKept, FramesNeverPopped
<1> QED
  BY <1>1, <1>2, <1>3 DEF Carried, MatchesOK

(* The open record noticed the stack pointer of the last, or has left it   *)
(* alone.                                                                  *)
LEMMA NoticedStill ==
  ASSUME FramesOK, Reading, NEW p \in pending_calls, NEW state \in States,
         NEW k, Handles(k),
         mem'.cell[SpOf(state)] = mem.cell[SpOf(state)],
         k = "insn" \/ mem'.iflags = mem.iflags
  PROVE  Noticed(p, state)'
<1>1. GotEventCommon(Head(todo)) /\ Head(todo).kind = k
  BY DEF Handles
<1>2. CASE StartsRecord(Head(todo))
  BY <1>1, <1>2 DEF GotEventCommon, Noticed
<1>3. CASE ~StartsRecord(Head(todo))
  <2>1. last_mem' = last_mem /\ ~(seen_instruction /\ k = "insn")
    BY <1>1, <1>3 DEF GotEventCommon, StartsRecord
  <2>2. k = "insn" => mem.iflags = last_mem.iflags
    BY <2>1 DEF FramesOK, OpenMemory
  <2>3. Noticed(p, state)
    BY DEF FramesOK, PendingFramed
  <2> QED
    BY <2>1, <2>2, <2>3 DEF Noticed
<1> QED
  BY <1>2, <1>3

(* An event that leaves the memory tree alone. *)
LEMMA QuietFrames ==
  ASSUME IInv, FramesOK, NEW k, Handles(k),
         UNCHANGED <<mem, curr_iflags, pending_calls, matched>>
  PROVE  FramesOK'
<1>1. /\ Carried /\ Reading /\ Reading'
      /\ last_mem' = MemBefore(seqtree', Len(seqtree') + 1)
      /\ \A c \in Cells : mem.cell[c] = Unknown => last_mem'.cell[c] = Unknown
      /\ \A p \in pending_calls, state \in States : Framed(p, state)'
  BY HandlesFrames
<1>2. MatchesOK'
  BY <1>1, CarriedMatches DEF IInv, FramesOK
<1>3. PendingFramed'
  BY <1>1, NoticedStill DEF PendingFramed
<1>4. OpenMemory'
  <2>1. OpenMemory /\ GotEventCommon(Head(todo))
    BY <1>1 DEF FramesOK, Handles
  <2>2. ~seen_instruction' => mem'.iflags = last_mem'.iflags
    BY <2>1 DEF OpenMemory, GotEventCommon, StartsRecord
  <2>3. ~seen_any_event' => mem' = NoMemory
    BY <2>1 DEF OpenMemory, GotEventCommon
  <2> QED
    BY <1>1, <2>1, <2>2, <2>3 DEF OpenMemory
<1> QED
  BY <1>2, <1>3, <1>4 DEF FramesOK

LEMMA RegisterFrames ==
  ASSUME IInv, FramesOK, GotRegister
  PROVE  FramesOK'
<1> DEFINE ev == Head(todo)
           last == last_mem'.cell[SpOf(curr_iflags)]
<1>1. /\ Handles("reg") /\ mem' = [mem EXCEPT !.cell[ev.cell] = ev.value]
      /\ ev.value = Unknown => mem.cell[ev.cell] = Unknown
      /\ pending_calls' = IF ev.cell = SpOf(curr_iflags) /\ last # Unknown
                          THEN UpdateSp(pending_calls, last) ELSE pending_calls
      /\ curr_iflags' = curr_iflags /\ matched' = matched
  BY DEF GotRegister, heurVars
<1>2. TypeOK /\ mem \in Memory /\ ev \in Event /\ ev.kind = "reg"
  <2>1. TypeOK
    BY DEF IInv
  <2> QED
    BY <1>1, <2>1, TailFacts DEF Handles, TypeOK, ReadTypes, EventTypes
<1>3. /\ mem'.iflags = mem.iflags
      /\ \A c \in Cells : mem'.cell[c] = IF c = ev.cell THEN ev.value ELSE mem.cell[c]
  BY <1>1, <1>2 DEF Memory
<1>4. /\ Carried /\ Reading /\ Reading'
      /\ last_mem' = MemBefore(seqtree', Len(seqtree') + 1)
      /\ \A c \in Cells : mem.cell[c] = Unknown => last_mem'.cell[c] = Unknown
      /\ \A p \in pending_calls, state \in States : Framed(p, state)'
  BY <1>1, <1>3, HandlesFrames
<1>5. pending_calls' \subseteq pending_calls
  BY <1>1 DEF UpdateSp
<1>6. MatchesOK'
  BY <1>1, <1>2, <1>4, <1>5, CarriedMatches DEF FramesOK
<1>7. OpenMemory /\ GotEventCommon(ev) /\ ev.kind # "insn" /\ seen_any_event'
  BY <1>1, <1>2, <1>4, HandlesLineOK DEF FramesOK, Handles, IInv
<1>8. ASSUME NEW p \in pending_calls', NEW state \in States
      PROVE  Noticed(p, state)'
  <2>1. p \in pending_calls /\ SpOf(state) \in Cells
    BY <1>5, CellFacts
  <2>2. CASE ev.cell # SpOf(state)
    BY <1>1, <1>3, <1>4, <2>1, <2>2, NoticedStill
  <2>3. CASE ev.cell = SpOf(state)
    <3> SUFFICES ASSUME mem'.iflags = state, last_mem'.cell[SpOf(state)] # Unknown
                 PROVE  last_mem'.cell[SpOf(state)] <= p.sp
      BY DEF Noticed
    <3>1. curr_iflags = state
      BY <1>3, <1>7, CellFacts DEF OpenMemory
    <3>2. p \in UpdateSp(pending_calls, last) /\ RecordCalls
      BY <1>1, <1>7, <2>1, <2>3, <3>1 DEF OpenMemory
    <3>3. p.sp >= last
      BY <3>2 DEF UpdateSp
    <3>4. last \in Nat /\ p.sp \in Nat
      <4>1. last_mem' \in Memory
        BY <1>1, HandlesTypes DEF IInv, RecordTypes
      <4>2. last \in 0 .. ULLONG_MAX
        BY <3>1, <4>1, MemoryFacts
      <4> QED
        BY <1>2, <2>1, <4>2, MarkFacts
    <3> QED
      BY <3>1, <3>3, <3>4
  <2> QED
    BY <2>2, <2>3
<1>9. PendingFramed'
  BY <1>4, <1>5, <1>8 DEF PendingFramed
<1>10. OpenMemory'
  <2>1. \A c \in Cells : mem'.cell[c] = Unknown => last_mem'.cell[c] = Unknown
    BY <1>1, <1>3, <1>4
  <2>2. ~seen_instruction' => mem'.iflags = last_mem'.iflags
    BY <1>3, <1>7 DEF OpenMemory, GotEventCommon, StartsRecord
  <2> QED
    BY <1>1, <1>3, <1>4, <1>5, <1>7, <2>1, <2>2 DEF OpenMemory
<1> QED
  BY <1>6, <1>9, <1>10 DEF FramesOK

(* No record has the line of the open one yet, so a stack pointer taken    *)
(* from last_mem is the one it began with.                                 *)
LEMMA ReadNow ==
  ASSUME SeqOK', TypeOK', Reading', NEW state \in States
  PROVE  /\ \A k \in DOMAIN seqtree' : seqtree'[k].line < prev_lineno'
         /\ \A at, sp : at = prev_lineno' /\ sp = SpThen(state)
                        => ReadAt(at, sp, state)'
<1>1. \A k \in DOMAIN seqtree' : seqtree'[k].line < prev_lineno'
  BY DEF SeqOK
<1>2. prev_lineno' \in Nat /\ \A k \in DOMAIN seqtree' : seqtree'[k].line # prev_lineno'
  <2>1. prev_lineno' \in Nat /\ seqtree' \in Seq(Record)
    BY DEF TypeOK, RecordTypes
  <2>2. \A k \in DOMAIN seqtree' : seqtree'[k] \in Record
    BY <2>1
  <2>3. \A k \in DOMAIN seqtree' : seqtree'[k].line \in Nat
    BY <2>2 DEF Record
  <2> QED
    BY <1>1, <2>1, <2>3
<1>3. SpThen(state) = SpIn(last_mem', state)
  BY DEF SpThen, SpIn
<1> QED
  BY <1>1, <1>2, <1>3 DEF ReadAt

(* A new call: its stack pointer is the one its instruction found, and     *)
(* there are no records since.                                             *)
LEMMA CallFrames ==
  ASSUME TypeOK, TypeOK', SeqOK', MatchesOK, Carried, Reading',
         NEW state \in States, mem'.iflags = state,
         NEW c, c.sp = SpThen(state), c.call_line = prev_lineno',
         pending_calls' \subseteq pending_calls \cup {c}, matched' = matched
  PROVE  /\ MatchesOK'
         /\ \A s \in States : Framed(c, s)' /\ Noticed(c, s)'
<1>1. /\ \A k \in DOMAIN seqtree' : seqtree'[k].line < prev_lineno'
      /\ \A at, sp : at = prev_lineno' /\ sp = SpThen(state)
                     => ReadAt(at, sp, state)'
  BY ReadNow
<1>2. MarksBehind'
  <2>1. Marks' \subseteq Marks \cup {prev_lineno'}
    BY DEF Marks
  <2>2. \A at : at = prev_lineno' => Behind(at)'
    BY DEF Behind
  <2> QED
    BY <2>1, <2>2 DEF Carried, MarksBehind
<1>3. ReturnSpsRead'
  BY MarkFacts DEF Carried, MatchesOK, ReturnSpsRead
<1>4. ASSUME NEW s \in States PROVE CallRead(c.call_line, c.sp, s)'
  <2>1. ExecutedIn(c.call_line, s)' => s = state
    BY DEF ExecutedIn
  <2> QED
    BY <1>1, <2>1 DEF CallRead
<1>5. CallSpsRead'
  <2>1. \A p \in pending_calls, s \in States : CallRead(p.call_line, p.sp, s)'
    BY MarkFacts DEF Carried, MatchesOK, CallSpsRead
  <2>2. \A m \in matched, s \in States : CallRead(m.call, m.sp, s)'
    BY MarkFacts DEF Carried, MatchesOK, CallSpsRead
  <2> QED
    BY <1>4, <2>1, <2>2 DEF CallSpsRead
<1>6. FramesNeverPopped'
  BY DEF Carried, FrameKept, FramesNeverPopped
<1>7. ASSUME NEW s \in States PROVE Framed(c, s)'
  <2>1. Since(c)' = {}
    <3>1. prev_lineno' \in Nat /\ seqtree' \in Seq(Record)
      BY DEF TypeOK, RecordTypes
    <3>2. \A k \in DOMAIN seqtree' : seqtree'[k] \in Record
      BY <3>1
    <3>3. \A k \in DOMAIN seqtree' : seqtree'[k].line \in Nat
      BY <3>2 DEF Record
    <3> QED
      BY <1>1, <3>1, <3>3 DEF Since
  <2> QED
    BY <2>1 DEF Framed
<1>8. ASSUME NEW s \in States PROVE Noticed(c, s)'
  <2>1. last_mem' \in Memory
    BY DEF TypeOK, RecordTypes
  <2>2. last_mem'.cell[SpOf(s)] \in Nat \cup {Unknown}
    BY <2>1, CellFacts DEF Memory
  <2> QED
    BY <2>2 DEF Noticed, SpThen
<1> QED
  BY <1>2, <1>3, <1>5, <1>6, <1>7, <1>8 DEF Carried, MatchesOK

(* A return: the call was pending until now, and the stack pointer is what *)
(* it was then.                                                            *)
LEMMA ReturnFrames ==
  ASSUME TypeOK, TypeOK', SeqOK', MatchesOK, Carried, Reading',
         NEW state \in States, NEW p \in pending_calls, p.sp = SpThen(state),
         Framed(p, state)',
         NEW n, n.call = p.call_line, n.ret = prev_lineno', n.sp = p.sp,
         n.state = state,
         pending_calls' = pending_calls \ {p}, matched' = matched \cup {n}
  PROVE  MatchesOK'
<1>1. /\ \A k \in DOMAIN seqtree' : seqtree'[k].line < prev_lineno'
      /\ \A at, sp : at = prev_lineno' /\ sp = SpThen(state)
                     => ReadAt(at, sp, state)'
  BY ReadNow
<1>2. MarksBehind'
  <2>1. Marks' \subseteq Marks \cup {prev_lineno'}
    BY DEF Marks
  <2>2. \A at : at = prev_lineno' => Behind(at)'
    BY DEF Behind
  <2> QED
    BY <2>1, <2>2 DEF Carried, MarksBehind
<1>3. ReturnSpsRead'
  <2>1. \A m \in matched : ReadAt(m.ret, m.sp, m.state)'
    BY MarkFacts DEF Carried, MatchesOK, ReturnSpsRead
  <2>2. ReadAt(n.ret, n.sp, n.state)'
    BY <1>1
  <2> QED
    BY <2>1, <2>2 DEF ReturnSpsRead
<1>4. CallSpsRead'
  <2>1. \A q \in pending_calls, s \in States : CallRead(q.call_line, q.sp, s)'
    BY MarkFacts DEF Carried, MatchesOK, CallSpsRead
  <2>2. \A m \in matched, s \in States : CallRead(m.call, m.sp, s)'
    BY MarkFacts DEF Carried, MatchesOK, CallSpsRead
  <2> QED
    BY <2>1, <2>2 DEF CallSpsRead
<1>5. FrameKept(n)'
  <2>1. Inside(n)' = Since(p)'
    BY <1>1 DEF Inside, Since
  <2>2. SUFFICES ASSUME \A k \in Since(p)' : seqtree'[k].mem.iflags = state,
                        NEW k \in Since(p)'
                 PROVE  LET sp == seqtree'[k].mem.cell[SpOf(state)]
                        IN sp = Unknown \/ sp <= p.sp
    BY <2>1 DEF FrameKept
  <2>3. LET sp == seqtree'[k].mem.cell[SpOf(state)]
        IN sp = Unknown \/ sp <= p.sp \/ sp = last_mem'.cell[SpOf(state)]
    BY <2>2 DEF Framed
  <2>4. \/ last_mem'.cell[SpOf(state)] = Unknown
        \/ last_mem'.cell[SpOf(state)] = p.sp /\ p.sp \in Nat
    BY MarkFacts DEF SpThen
  <2> QED
    BY <2>3, <2>4
<1>6. FramesNeverPopped'
  BY <1>5 DEF Carried, FrameKept, FramesNeverPopped
<1> QED
  BY <1>2, <1>3, <1>4, <1>6 DEF Carried, MatchesOK

LEMMA InstructionFrames ==
  ASSUME IInv, IInv', FramesOK, GotInstruction
  PROVE  FramesOK'
<1> DEFINE ev == Head(todo)
           state == StateOf(ev.iset)
           insns == IF insns_since_lr_update < LRWriteThreshold
                    THEN insns_since_lr_update + 1 ELSE insns_since_lr_update
           pc == Adjusted(ev)
           next == Adjusted(ev) + ev.width
           sp == SpThen(state)
           lr == last_mem'.cell[LrOf(state)]
<1>1. /\ Handles("insn") /\ UpdateIflags(state) /\ UpdatePC(pc, next, ev.iset, insns)
  BY DEF GotInstruction
<1>2. /\ TypeOK /\ TypeOK' /\ SeqOK' /\ mem \in Memory
      /\ ev \in Event /\ ev.kind = "insn"
  <2>1. TypeOK /\ TypeOK' /\ SeqOK'
    BY DEF IInv, RecordsOK
  <2> QED
    BY <1>1, <2>1, TailFacts DEF Handles, TypeOK, ReadTypes, EventTypes
<1>3. state \in States
  BY <1>2, InsnFacts
<1>4. /\ Carried /\ Reading /\ Reading'
      /\ last_mem' = MemBefore(seqtree', Len(seqtree') + 1)
      /\ \A c \in Cells : mem.cell[c] = Unknown => last_mem'.cell[c] = Unknown
      /\ \A p \in pending_calls, s \in States : Framed(p, s)'
  BY <1>1, HandlesFrames
<1>5. OpenMemory /\ MatchesOK /\ GotEventCommon(ev)
  BY <1>1, <1>4 DEF FramesOK, Handles
<1>6. last_mem'.iflags = mem.iflags
  BY <1>2, <1>5 DEF GotEventCommon, StartsRecord, OpenMemory
<1>7. /\ mem'.iflags = state /\ mem'.cell = mem.cell /\ curr_iflags' = state
  BY <1>1, <1>2, <1>6 DEF UpdateIflags, Memory
<1>8. seen_instruction' /\ seen_any_event'
  BY <1>1, <1>2, <1>5, HandlesLineOK DEF GotEventCommon, IInv
<1>9. \A p \in pending_calls, s \in States : Noticed(p, s)'
  BY <1>1, <1>4, <1>7, NoticedStill
<1>10. OpenMemory' \/ ~(pending_calls' # {} => RecordCalls)
  BY <1>4, <1>7, <1>8 DEF OpenMemory
<1>11. pending_calls # {} => RecordCalls
  BY <1>5 DEF OpenMemory
<1> HIDE DEF ev, insns, pc, next
<1>12. \/ StraightOn(pc, insns) \/ Return(pc, sp) \/ Call(pc, sp, lr, insns)
       \/ Jump(pc, sp, lr, insns)
  BY <1>1 DEF UpdatePC
<1> HIDE DEF state, sp, lr
<1>13. CASE StraightOn(pc, insns) \/ Jump(pc, sp, lr, insns)
  <2>1. pending_calls' = pending_calls /\ matched' = matched
    BY <1>13 DEF StraightOn, Jump
  <2>2. MatchesOK'
    BY <1>2, <1>4, <1>5, <2>1, CarriedMatches
  <2> QED
    BY <1>4, <1>9, <1>10, <1>11, <2>1, <2>2 DEF FramesOK, PendingFramed
<1>14. CASE Call(pc, sp, lr, insns)
  <2> DEFINE c == [sp |-> sp, pc |-> lr, call_line |-> prev_lineno']
  <2>1. /\ pending_calls' \subseteq pending_calls \cup {c} /\ matched' = matched
        /\ RecordCalls
    BY <1>14 DEF Call, InsertPending, Transfers
  <2>2. c.sp = SpThen(state) /\ c.call_line = prev_lineno'
    BY DEF sp
  <2> HIDE DEF c
  <2>3. \A x : x = c => x.sp = SpThen(state) /\ x.call_line = prev_lineno'
    BY <2>2
  <2>4. PICK x : x = c
    OBVIOUS
  <2>5. /\ MatchesOK' /\ \A s \in States : Framed(x, s)' /\ Noticed(x, s)'
    BY <1>2, <1>3, <1>4, <1>5, <1>7, <2>1, <2>3, <2>4, CallFrames
  <2>6. PendingFramed'
    BY <1>4, <1>9, <2>1, <2>4, <2>5 DEF PendingFramed
  <2> QED
    BY <1>10, <2>1, <2>5, <2>6 DEF FramesOK
<1>15. CASE Return(pc, sp)
  <2>1. PICK p \in pending_calls :
          /\ p.sp = sp
          /\ matched' = matched \cup {[call |-> p.call_line, ret |-> prev_lineno',
                                       sp |-> p.sp, state |-> curr_iflags']}
          /\ pending_calls' = pending_calls \ {p}
    BY <1>15 DEF Return, ReturnedCalls
  <2>2. PICK n : n = [call |-> p.call_line, ret |-> prev_lineno',
                      sp |-> p.sp, state |-> curr_iflags']
    OBVIOUS
  <2>3. /\ n.call = p.call_line /\ n.ret = prev_lineno' /\ n.sp = p.sp
        /\ n.state = state /\ matched' = matched \cup {n} /\ p.sp = SpThen(state)
    BY <1>7, <2>1, <2>2 DEF sp
  <2>4. PICK s \in States : s = state
    BY <1>3
  <2>5. Framed(p, s)'
    BY <1>4
  <2>6. MatchesOK'
    BY <1>2, <1>4, <1>5, <2>1, <2>3, <2>4, <2>5, ReturnFrames
  <2>7. PendingFramed'
    BY <1>4, <1>9, <2>1 DEF PendingFramed
  <2> QED
    BY <1>10, <1>11, <2>1, <2>6, <2>7 DEF FramesOK
<1> QED
  BY <1>12, <1>13, <1>14, <1>15

-----------------------------------------------------------------------------
(***************************************************************************)
(* The other steps.                                                        *)
(***************************************************************************)
(* Nothing the calls depend on changes, or the trace is not read any more. *)
LEMMA StillFrames ==
  ASSUME IInv, FramesOK,
         DOMAIN seqtree' = DOMAIN seqtree,
         \A k \in DOMAIN seqtree : /\ seqtree'[k].line = seqtree[k].line
                                   /\ seqtree'[k].mem = seqtree[k].mem,
         UNCHANGED <<prev_lineno, pending_calls, matched>>,
         Reading' => /\ Reading
                     /\ UNCHANGED <<seqtree, last_mem, mem, curr_iflags,
                                    seen_instruction, seen_any_event>>
  PROVE  FramesOK'
<1>1. TypeOK /\ SeqOK /\ MatchesOK
  BY DEF IInv, RecordsOK, FramesOK
<1>2. Carried
  BY <1>1, SameRecords
<1>3. MatchesOK'
  BY <1>1, <1>2, CarriedMatches
<1>4. Reading' => OpenMemory'
  BY DEF FramesOK, OpenMemory
<1>5. Reading' => PendingFramed'
  BY DEF FramesOK, PendingFramed, Framed, Noticed, Since
<1> QED
  BY <1>3, <1>4, <1>5 DEF FramesOK

LEMMA FinishFrames ==
  ASSUME IInv, FramesOK, NEW pos \in Nat, Finish(pos)
  PROVE  FramesOK'
<1>1. TypeOK /\ SeqOK /\ MarksOK /\ MatchesOK
  BY DEF IInv, RecordsOK, CallsOK, FramesOK
<1>2. /\ Reading /\ ~Reading' /\ seqtree' = EmitRecord(pos, lineno')
      /\ UNCHANGED <<prev_lineno, pending_calls, matched>>
  BY DEF Finish, Reading, heurVars
<1>3. CASE HasRecord(pos)
  <2> DEFINE r == OpenRecord(pos, lineno')
  <2>1. seqtree' = Append(seqtree, r)
    BY <1>2, <1>3 DEF EmitRecord
  <2>2. r \in Record /\ r.line = prev_lineno /\ r.mem = mem
    <3>1. lineno' \in Nat
      BY <1>1, CountLineFacts DEF Finish
    <3> QED
      BY <1>1, <3>1, OpenRecordFacts DEF TypeOK, OpenRecord
  <2> HIDE DEF r
  <2>3. Carried
    BY <1>1, <1>2, <2>1, <2>2, GrownRecords DEF TypeOK, RecordTypes
  <2>4. MatchesOK'
    BY <1>1, <1>2, <2>3, CarriedMatches
  <2> QED
    BY <1>2, <2>4 DEF FramesOK
<1>4. CASE ~HasRecord(pos)
  BY <1>2, <1>4, StillFrames DEF EmitRecord
<1> QED
  BY <1>3, <1>4

LEMMA VisitFrames ==
  ASSUME IInv, FramesOK, VisitRecord
  PROVE  FramesOK'
<1>1. TypeOK /\ seqtree \in Seq(Record) /\ visited' \in DOMAIN seqtree
  BY DEF IInv, TypeOK, RecordTypes, CallTypes, VisitRecord
<1>2. /\ seqtree' = [seqtree EXCEPT ![visited'].depth = curr_depth']
      /\ ~Reading'
      /\ UNCHANGED <<prev_lineno, pending_calls, matched>>
  BY DEF VisitRecord, readVars, heurVars, sharedVars, Reading
<1>3. DOMAIN seqtree' = DOMAIN seqtree
  BY <1>2
<1>4. ASSUME NEW k \in DOMAIN seqtree
      PROVE  seqtree'[k].line = seqtree[k].line /\ seqtree'[k].mem = seqtree[k].mem
  <2>1. seqtree[k] \in Record
    BY <1>1
  <2>2. CASE k = visited'
    <3>1. seqtree'[k] = [seqtree[k] EXCEPT !.depth = curr_depth']
      BY <1>2, <2>2
    <3> QED
      BY <2>1, <3>1 DEF Record
  <2>3. CASE k # visited'
    BY <1>2, <2>3
  <2> QED
    BY <2>2, <2>3
<1> QED
  BY <1>2, <1>3, <1>4, StillFrames

LEMMA InitFrames == Init => FramesOK
<1> SUFFICES ASSUME Init PROVE FramesOK
  OBVIOUS
<1>1. Marks = {} /\ mem = NoMemory /\ last_mem = NoMemory /\ seqtree = <<>>
  BY DEF Init, Marks, NoMemory
<1>2. MatchesOK
  BY <1>1 DEF Init, MatchesOK, KnownStays, MarksBehind, CallSpsRead,
              ReturnSpsRead, FramesNeverPopped
<1>3. OpenMemory
  <2>1. last_mem = MemBefore(seqtree, Len(seqtree) + 1)
    BY <1>1 DEF MemBefore
  <2>2. mem.iflags = Unknown /\ mem.iflags = last_mem.iflags
    BY <1>1 DEF NoMemory
  <2> QED
    BY <1>1, <2>1, <2>2 DEF Init, OpenMemory
<1>4. PendingFramed
  BY DEF Init, PendingFramed
<1> QED
  BY <1>2, <1>3, <1>4 DEF FramesOK

LEMMA NextFrames == IInv /\ IInv' /\ FramesOK /\ [Next]_vars => FramesOK'
<1> SUFFICES ASSUME IInv, IInv', FramesOK, [Next]_vars PROVE FramesOK'
  OBVIOUS
<1>1. CASE ReadLine
  BY <1>1, StillFrames
  DEF ReadLine, recordVars, heurVars, insnVars, sharedVars, Reading
<1>2. CASE EndLine
  BY <1>2, StillFrames
  DEF EndLine, recordVars, heurVars, insnVars, sharedVars, Reading
<1>3. CASE ReadEof
  <2>1. linepos - 1 \in Nat
    <3>1. linepos \in Nat /\ oldpos \in Nat
      BY DEF IInv, TypeOK, ReadTypes, RecordTypes
    <3>2. linepos >= oldpos + 2
      BY <1>3 DEF IInv, RecordsOK, PositionOK, ReadEof, Finish, Reading
    <3> QED
      BY <3>1, <3>2
  <2> QED
    BY <1>3, <2>1, FinishFrames DEF ReadEof
<1>4. CASE ReadEnd
  BY <1>4, FinishFrames DEF ReadEnd, IInv, TypeOK, ReadTypes
<1>5. CASE ParseError
  BY <1>5, StillFrames
  DEF ParseError, recordVars, heurVars, insnVars, sharedVars, Reading
<1>6. CASE GotInstruction
  BY <1>6, InstructionFrames
<1>7. CASE GotRegister
  BY <1>7, RegisterFrames
<1>8. CASE GotException
  BY <1>8, QuietFrames DEF GotException, heurVars
<1>9. CASE GotText
  BY <1>9, QuietFrames DEF GotText, heurVars
<1>10. CASE VisitRecord
  BY <1>10, VisitFrames
<1>11. CASE FinaliseIndex
  BY <1>11, StillFrames
  DEF FinaliseIndex, recordVars, heurVars, insnVars, sharedVars, Reading
<1>12. CASE Stopped \/ UNCHANGED vars
  BY <1>12, StillFrames
  DEF Stopped, vars, readVars, recordVars, heurVars, insnVars, sharedVars, Reading
<1> QED
  BY <1>1, <1>2, <1>3, <1>4, <1>5, <1>6, <1>7, <1>8, <1>9, <1>10, <1>11, <1>12
  DEF Next

-----------------------------------------------------------------------------
(***************************************************************************)
(* The theorem.                                                            *)
(***************************************************************************)
(* The record a matched call was made in, where another that is matched    *)
(* returns later.                                                          *)
LEMMA MarkRecord ==
  ASSUME TypeOK, MatchesOK, NEW at \in Marks, NEW b \in Marks, at < b
  PROVE  \E k \in DOMAIN seqtree : seqtree[k].line = at
<1>1. at \in Nat /\ b \in Nat /\ prev_lineno \in Nat
  BY MarkFacts DEF TypeOK, RecordTypes
<1>2. Behind(at) /\ Behind(b)
  BY DEF MatchesOK, MarksBehind
<1>3. at # prev_lineno
  BY <1>1, <1>2 DEF Behind
<1> QED
  BY <1>2, <1>3 DEF Behind, FirstLines

LEMMA LineOrder ==
  ASSUME TypeOK, SeqOK, NEW i \in DOMAIN seqtree, NEW j \in DOMAIN seqtree
  PROVE  /\ seqtree[i].line < seqtree[j].line => i < j
         /\ i <= j => seqtree[i].line <= seqtree[j].line
<1>1. /\ i \in Nat /\ j \in Nat
      /\ seqtree[i].line \in Nat /\ seqtree[j].line \in Nat
  BY RecordFacts
<1>2. /\ i < j => seqtree[i].line < seqtree[j].line
      /\ j < i => seqtree[j].line < seqtree[i].line
  BY DEF SeqOK, Sorted
<1> QED
  BY <1>1, <1>2

(* The outer call's frame still stood when the inner one was made, and the *)
(* inner one's when the outer one returned: neither stack pointer is above *)
(* the other.                                                              *)
LEMMA CrossingShares ==
  ASSUME TypeOK, SeqOK, MatchesOK
  PROVE  CrossingCallsShareSp
<1> SUFFICES ASSUME NEW m \in matched, NEW n \in matched,
                    m.call < n.call, n.call < m.ret, m.ret < n.ret,
                    n.state = m.state,
                    \A k \in Inside(m) \cup Inside(n) :
                      seqtree[k].mem.iflags = m.state
             PROVE  m.sp = n.sp
  BY DEF CrossingCallsShareSp
<1> DEFINE S == m.state
           cell(k) == seqtree[k].mem.cell[SpOf(S)]
<1>1. /\ m.call \in Marks /\ m.ret \in Marks /\ n.call \in Marks /\ n.ret \in Marks
      /\ m.call \in Nat /\ m.ret \in Nat /\ n.call \in Nat /\ n.ret \in Nat
      /\ m.sp \in 0 .. ULLONG_MAX /\ n.sp \in 0 .. ULLONG_MAX /\ S \in States
      /\ SpOf(S) \in Cells
  <2>1. m.state \in States /\ m.call \in Marks
    BY MarkFacts
  <2> QED
    BY <2>1, MarkFacts, CellFacts
<1>2. PICK a \in DOMAIN seqtree : seqtree[a].line = m.call
  BY <1>1, MarkRecord
<1>3. PICK b \in DOMAIN seqtree : seqtree[b].line = n.call
  BY <1>1, MarkRecord
<1>4. PICK c \in DOMAIN seqtree : seqtree[c].line = m.ret
  BY <1>1, MarkRecord
<1>5. /\ a \in Nat /\ b \in Nat /\ c \in Nat /\ Len(seqtree) \in Nat
      /\ DOMAIN seqtree = 1 .. Len(seqtree)
  BY RecordFacts DEF TypeOK, RecordTypes
<1>6. a < b /\ b < c
  BY <1>2, <1>3, <1>4, LineOrder
<1>7. /\ b - 1 \in DOMAIN seqtree /\ c - 1 \in DOMAIN seqtree
      /\ a <= b - 1 /\ b - 1 < b /\ b <= c - 1 /\ c - 1 < c /\ b # 1 /\ c # 1
  BY <1>5, <1>6
<1>8. a \in Inside(m) /\ b \in Inside(n) /\ b - 1 \in Inside(m) /\ c - 1 \in Inside(n)
  <2>1. /\ seqtree[a].line <= seqtree[b - 1].line
        /\ seqtree[b - 1].line < seqtree[b].line
        /\ seqtree[b].line <= seqtree[c - 1].line
        /\ seqtree[c - 1].line < seqtree[c].line
    BY <1>7, LineOrder DEF SeqOK, Sorted
  <2>2. seqtree[b - 1].line \in Nat /\ seqtree[c - 1].line \in Nat
    BY <1>7, RecordFacts
  <2> QED
    BY <1>1, <1>2, <1>3, <1>4, <1>7, <2>1, <2>2 DEF Inside
<1> HIDE DEF S
<1>9. /\ m.sp = SpIn(MemBefore(seqtree, a), S)
      /\ n.sp = SpIn(MemBefore(seqtree, b), S)
      /\ m.sp = SpIn(MemBefore(seqtree, c), S)
  <2>1. CallRead(m.call, m.sp, S) /\ CallRead(n.call, n.sp, S)
    BY <1>1 DEF MatchesOK, CallSpsRead
  <2>2. \A at \in {m.call, n.call} : at < prev_lineno
    <3>1. Behind(m.ret) /\ Behind(n.ret)
      BY <1>1 DEF MatchesOK, MarksBehind
    <3>2. prev_lineno \in Nat
      BY DEF TypeOK, RecordTypes
    <3> QED
      BY <1>1, <3>1, <3>2 DEF Behind
  <2>3. ExecutedIn(m.call, S)
    <3>1. \A k \in DOMAIN seqtree : seqtree[k].line = m.call => k \in Inside(m)
      BY <1>1 DEF Inside
    <3> QED
      BY <1>1, <2>2, <3>1 DEF ExecutedIn, S
  <2>4. ExecutedIn(n.call, S)
    <3>1. \A k \in DOMAIN seqtree : seqtree[k].line = n.call => k \in Inside(n)
      BY <1>1 DEF Inside
    <3> QED
      BY <1>1, <2>2, <3>1 DEF ExecutedIn, S
  <2>5. ReadAt(m.ret, m.sp, S)
    BY DEF MatchesOK, ReturnSpsRead, S
  <2> QED
    BY <1>2, <1>3, <1>4, <2>1, <2>3, <2>4, <2>5 DEF CallRead, ReadAt
<1>10. /\ n.sp = IF cell(b - 1) = Unknown THEN ULLONG_MAX ELSE cell(b - 1)
       /\ m.sp = IF cell(c - 1) = Unknown THEN ULLONG_MAX ELSE cell(c - 1)
  BY <1>7, <1>9 DEF MemBefore, SpIn
<1>11. /\ cell(b - 1) = Unknown \/ cell(b - 1) <= m.sp
       /\ cell(c - 1) = Unknown \/ cell(c - 1) <= n.sp
  <2>1. FrameKept(m) /\ FrameKept(n)
    BY DEF MatchesOK, FramesNeverPopped, FrameKept
  <2> QED
    BY <1>8, <2>1 DEF FrameKept, S
<1>12. cell(c - 1) = Unknown => cell(b - 1) = Unknown
  BY <1>1, <1>5, <1>7 DEF MatchesOK, KnownStays
<1>13. cell(b - 1) = Unknown => m.sp = ULLONG_MAX
  <2> SUFFICES ASSUME cell(b - 1) = Unknown
               PROVE  MemBefore(seqtree, a).cell[SpOf(S)] = Unknown
    BY <1>9 DEF SpIn
  <2>1. CASE a = 1
    BY <1>1, <2>1 DEF MemBefore, NoMemory
  <2>2. CASE a # 1
    <3>1. a - 1 \in DOMAIN seqtree /\ a - 1 < b - 1
      BY <1>5, <1>7, <2>2
    <3>2. seqtree[a - 1].mem.cell[SpOf(S)] = Unknown
      BY <1>1, <1>7, <3>1 DEF MatchesOK, KnownStays
    <3> QED
      BY <2>2, <3>2 DEF MemBefore
  <2> QED
    BY <2>1, <2>2
<1> HIDE DEF cell
<1>14. CASE cell(b - 1) = Unknown
  BY <1>10, <1>13, <1>14
<1>15. CASE cell(b - 1) # Unknown
  BY <1>1, <1>10, <1>11, <1>12, <1>15
<1> QED
  BY <1>14, <1>15

(* What MatchesOK says of the calls holds in every state. *)
LEMMA FramesInductive == Spec => []FramesOK
<1>1. Init => FramesOK
  BY InitFrames
<1>2. IInv /\ IInv' /\ FramesOK /\ [Next]_vars => FramesOK'
  BY NextFrames
<1> QED
  BY <1>1, <1>2, Inductive, PTL DEF Spec

(* A return is only matched with a call whose frame still stands, and two  *)
(* matched calls that cross have one stack pointer, as far as one          *)
(* execution state can tell: update_sp() and update_pc() of lib/index.cpp  *)
(* with their late view of the stack pointer, for every trace.             *)
THEOREM MatchedFramesKept == Spec => []MatchesKeepFrames
<1>1. IInv /\ FramesOK => MatchesKeepFrames
  BY CrossingShares DEF IInv, RecordsOK, FramesOK, MatchesKeepFrames, MatchesOK
<1> QED
  BY <1>1, Inductive, FramesInductive, PTL
=============================================================================
