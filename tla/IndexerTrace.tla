---------------------------- MODULE IndexerTrace ----------------------------
(***************************************************************************)
(* The index says of a trace what its lines say, for every trace:          *)
(* IndexDescribesTrace of MCIndexer.                                       *)
(*                                                                         *)
(* What the indexer knows when it has handled some events depends on those *)
(* events only.  They are written here as a log, a function from places in *)
(* the trace to events.  A handler adds one place to the log, later than   *)
(* all before; what a record says of the log up to its last line stays     *)
(* true, and the open record is as good as those that are written.         *)
(***************************************************************************)
EXTENDS MCIndexer, IndexerProofs

-----------------------------------------------------------------------------
(***************************************************************************)
(* The log.                                                                *)
(***************************************************************************)
(* A part of the last line's events may be left to handle. *)
Handled(i) == IF i = Len(trace) THEN Len(trace[i].events) - Len(todo)
              ELSE Len(trace[i].events)
Log == [p \in {q \in Places(DOMAIN trace) : q[2] <= Handled(q[1])} |-> At(p)]

(* The place of the next event. *)
Here == <<Len(trace), Handled(Len(trace)) + 1>>

(* The events of a log in the lines from a on and before b. *)
Within(log, a, b, kind) ==
  {p \in DOMAIN log : a <= p[1] /\ p[1] < b /\ log[p].kind = kind}

Latest(p, places) ==
  \A q \in places : q[1] < p[1] \/ (q[1] = p[1] /\ q[2] <= p[2])

(***************************************************************************)
(* What is right of a record r that begins at line at of the trace.        *)
(***************************************************************************)
TimeRight(log, r, at) ==
  /\ \A p \in DOMAIN log : p[1] < at + r.lines => log[p].time <= r.time
  /\ \E p \in DOMAIN log : p[1] <= at /\ log[p].time = r.time

PCRight(log, r, at) ==
  LET insns == Within(log, at, at + r.lines, "insn")
  IN \/ insns = {} /\ r.pc = KNOWN_INVALID_PC
     \/ \E p \in insns : insns = {p} /\ r.pc = Adjusted(log[p])

Writes(log, b, cell) == {p \in Within(log, 1, b, "reg") : log[p].cell = cell}

MemRight(log, memory, b) ==
  /\ \A cell \in Cells :
       \/ Writes(log, b, cell) = {} /\ memory.cell[cell] = Unknown
       \/ \E p \in Writes(log, b, cell) :
            /\ Latest(p, Writes(log, b, cell))
            /\ memory.cell[cell] = log[p].value
  /\ LET insns == Within(log, 1, b, "insn")
     IN \/ insns = {} /\ memory.iflags = Unknown
        \/ \E p \in insns : /\ Latest(p, insns)
                            /\ memory.iflags = StateOf(log[p].iset)

RecordRight(log, r, off) ==
  /\ TimeRight(log, r, r.line + off) /\ PCRight(log, r, r.line + off)
  /\ MemRight(log, r.mem, r.line + off + r.lines)

(* Why r was begun, after a record prev. *)
SplitRight(log, prev, r, off) ==
  prev.time = r.time =>
    /\ \E p \in DOMAIN log : p[1] = r.line + off /\ log[p].kind = "insn"
    /\ Within(log, prev.line + off, prev.line + off + prev.lines, "insn") # {}

(* The entries of the by-PC tree for some records. *)
Visits(s) ==
  {Visit(r) : r \in {q \in {s[k] : k \in DOMAIN s} : q.pc # KNOWN_INVALID_PC}}
Exceptions(log, s, off) ==
  {ExceptionAt(r) :
     r \in {q \in {s[k] : k \in DOMAIN s} :
              Within(log, q.line + off, q.line + off + q.lines, "exception")
                # {}}}

-----------------------------------------------------------------------------
(***************************************************************************)
(* The invariant.                                                          *)
(***************************************************************************)
(* The open record, as it would be if the trace ended with this line. *)
Open == OpenRecord(linepos, lineno + 1)
HasOpen == Reading /\ seen_any_event

(* What is left of a line is the end of it.  If a part of the line has     *)
(* been handled, the rest goes to the same record.                         *)
TodoOK ==
  IF phase = "line"
  THEN LET events == trace[Len(trace)].events
       IN /\ trace # <<>> /\ Len(todo) <= Len(events)
          /\ \A i \in DOMAIN todo :
               todo[i] = events[Len(events) - Len(todo) + i]
          /\ Len(todo) < Len(events) =>
               \A i \in DOMAIN todo : todo[i].kind # "insn"
                                      /\ todo[i].time <= current_time
  ELSE phase # "failed" => todo = <<>>

(* Lines are counted from the first that has an event. *)
NumberingOK ==
  /\ Reading => /\ true_lineno = Len(trace)
                /\ seen_any_event => lineno + lineno_offset = Len(trace)
  /\ phase \in {"tree", "complete"} /\ seen_any_event =>
       lineno + lineno_offset = Len(trace) + 1
  /\ ~seen_any_event => seqtree = <<>> /\ DOMAIN Log = {}
  /\ seen_any_event => /\ lineno_offset \in Nat
                       /\ <<lineno_offset + 1, 1>> \in DOMAIN Log
                       /\ \A p \in DOMAIN Log : lineno_offset < p[1]

(* Where lines and records begin. *)
BytesOK ==
  /\ phase = "line" => linepos = SizeOf(trace, Len(trace) - 1)
  /\ phase = "read" => linepos = SizeOf(trace, Len(trace))
  /\ phase \in {"tree", "complete"} =>
       linepos = SizeOf(trace, Len(trace)) - (IF eof THEN 1 ELSE 0)
  /\ HasOpen => oldpos = SizeOf(trace, prev_lineno + lineno_offset - 1)
  /\ seen_any_event =>
       \A k \in DOMAIN seqtree :
         seqtree[k].pos = SizeOf(trace, seqtree[k].line + lineno_offset - 1)

ClosedOK ==
  /\ \A k \in DOMAIN seqtree : RecordRight(Log, seqtree[k], lineno_offset)
  /\ \A k \in 2 .. Len(seqtree) :
       SplitRight(Log, seqtree[k - 1], seqtree[k], lineno_offset)

OpenOK ==
  LET at == prev_lineno + lineno_offset
      end == Len(trace) + 1
  IN HasOpen =>
       /\ RecordRight(Log, Open, lineno_offset)
       /\ seqtree # <<>> =>
            SplitRight(Log, seqtree[Len(seqtree)], Open, lineno_offset)
       /\ seen_instruction <=> Within(Log, at, end, "insn") # {}
       /\ seen_exception <=> Within(Log, at, end, "exception") # {}

(* The execution state is as it was when the record began, until its       *)
(* instruction.                                                            *)
StateOK ==
  /\ Reading /\ ~seen_any_event =>
       mem = NoMemory /\ ~seen_exception /\ curr_pc = KNOWN_INVALID_PC
  /\ Reading /\ ~seen_instruction => mem.iflags = last_mem.iflags

ByPCOK ==
  phase # "failed" =>
    bypctree = Visits(seqtree) \cup Exceptions(Log, seqtree, lineno_offset)
               \cup (IF HasOpen /\ seen_exception THEN {ExceptionAt(Open)}
                     ELSE {})

TraceOK ==
  /\ TodoOK /\ NumberingOK
  /\ phase # "failed" => BytesOK /\ ClosedOK /\ OpenOK /\ StateOK /\ ByPCOK
  /\ Complete => seqtree # <<>>

-----------------------------------------------------------------------------
(***************************************************************************)
(* Sizes.                                                                  *)
(***************************************************************************)
LEMMA LeastOf ==
  ASSUME NEW bad \in SUBSET Nat, bad # {}
  PROVE  \E n \in bad : \A k \in bad : n <= k
<1> DEFINE less == OpToRel(<, Nat)
<1>1. IsWellFoundedOn(less, Nat)
  BY NatLessThanWellFounded
<1>2. \A k, n \in Nat : <<k, n>> \in less <=> k < n
  BY DEF OpToRel
<1> HIDE DEF less
<1>3. PICK n \in bad : \A k \in bad : ~(<<k, n>> \in less)
  BY <1>1, WFMin
<1>4. \A k \in bad : n <= k
  <2> SUFFICES ASSUME NEW k \in bad PROVE n <= k
    OBVIOUS
  <2>1. n \in Nat /\ k \in Nat /\ ~(k < n)
    BY <1>2, <1>3
  <2> QED  BY <2>1
<1> QED  BY <1>4

Sums(s, n) ==
  {f \in [0 .. n -> Nat] :
     f[0] = 0 /\ \A k \in 1 .. n : f[k] = f[k - 1] + s[k].bytes}

(* The function that adds up the lines exists: one line after the other. *)
LEMMA SumsExist ==
  ASSUME NEW s \in Seq(Line), NEW n \in 0 .. Len(s)
  PROVE  Sums(s, n) # {}
<1> DEFINE bad == {m \in 0 .. Len(s) : Sums(s, m) = {}}
<1> SUFFICES ASSUME bad # {} PROVE FALSE
  OBVIOUS
<1>1. PICK m \in bad : \A k \in bad : m <= k
  <2>1. bad \in SUBSET Nat
    OBVIOUS
  <2> HIDE DEF bad
  <2> QED  BY <2>1, LeastOf
<1>2. m # 0
  <2>1. [k \in 0 .. 0 |-> 0] \in Sums(s, 0)
    BY DEF Sums
  <2> QED  BY <1>1, <2>1
<1>3. m \in 1 .. Len(s) /\ m - 1 \in 0 .. Len(s) /\ m - 1 \notin bad
  BY <1>1, <1>2
<1>4. PICK f \in Sums(s, m - 1) : TRUE
  BY <1>3
<1>5. s[m].bytes \in Nat
  BY <1>3, LineFacts
<1> DEFINE g == [k \in 0 .. m |-> IF k = m THEN f[m - 1] + s[m].bytes
                                 ELSE f[k]]
<1>6. /\ f \in [0 .. m - 1 -> Nat] /\ f[0] = 0
      /\ \A k \in 1 .. m - 1 : f[k] = f[k - 1] + s[k].bytes
  BY <1>4 DEF Sums
<1>7. g \in [0 .. m -> Nat] /\ g[0] = 0
  BY <1>3, <1>5, <1>6
<1>8. ASSUME NEW k \in 1 .. m PROVE g[k] = g[k - 1] + s[k].bytes
  <2>1. CASE k = m
    BY <1>3, <2>1
  <2>2. CASE k # m
    <3>1. k \in 1 .. m - 1 /\ k - 1 \in 0 .. m - 1 /\ k - 1 # m
      BY <1>3, <2>2
    <3> QED  BY <1>3, <1>6, <2>2, <3>1
  <2> QED  BY <2>1, <2>2
<1> HIDE DEF g
<1>9. g \in Sums(s, m)
  BY <1>7, <1>8 DEF Sums
<1> QED  BY <1>1, <1>9

LEMMA SizeFacts ==
  ASSUME NEW s \in Seq(Line)
  PROVE  /\ SizeOf(s, 0) = 0
         /\ \A n \in 0 .. Len(s) : SizeOf(s, n) \in Nat
         /\ \A n \in 1 .. Len(s) : SizeOf(s, n) = SizeOf(s, n - 1) + s[n].bytes
<1> DEFINE def(f) == [k \in 0 .. Len(s) |->
                        IF k = 0 THEN 0 ELSE f[k - 1] + s[k].bytes]
           up == CHOOSE f : f = def(f)
<1>1. Len(s) \in Nat
  OBVIOUS
<1>2. PICK f \in Sums(s, Len(s)) : TRUE
  <2>1. Len(s) \in 0 .. Len(s)
    BY <1>1
  <2> QED  BY <2>1, SumsExist
<1>3. /\ f \in [0 .. Len(s) -> Nat] /\ f[0] = 0
      /\ \A k \in 1 .. Len(s) : f[k] = f[k - 1] + s[k].bytes
  BY <1>2 DEF Sums
<1>4. f = def(f)
  <2>1. \A k \in 0 .. Len(s) : f[k] = def(f)[k]
    BY <1>1, <1>3
  <2> QED  BY <1>3, <2>1
<1>5. up = def(up)
  BY <1>4
<1>6. \A n : SizeOf(s, n) = up[n]
  BY DEF SizeOf
<1> HIDE DEF up
<1>7. /\ up[0] = 0
      /\ \A k \in 1 .. Len(s) : up[k] = up[k - 1] + s[k].bytes
  BY <1>1, <1>5
<1>8. \A n \in 0 .. Len(s) : up[n] \in Nat
  <2> DEFINE bad == {m \in 0 .. Len(s) : up[m] \notin Nat}
  <2> SUFFICES ASSUME bad # {} PROVE FALSE
    OBVIOUS
  <2>1. PICK m \in bad : \A k \in bad : m <= k
    <3>1. bad \in SUBSET Nat
      OBVIOUS
    <3> HIDE DEF bad
    <3> QED  BY <3>1, LeastOf
  <2>2. m \in 1 .. Len(s) /\ m - 1 \in 0 .. Len(s) /\ m - 1 \notin bad
    BY <1>1, <1>7, <2>1
  <2>3. s[m].bytes \in Nat
    BY <2>2, LineFacts
  <2> QED  BY <1>7, <2>1, <2>2, <2>3
<1> QED  BY <1>6, <1>7, <1>8

(* A new line at the end changes no size of those before. *)
LEMMA SizeStays ==
  ASSUME NEW s \in Seq(Line), NEW line \in Line, NEW n \in 0 .. Len(s)
  PROVE  SizeOf(Append(s, line), n) = SizeOf(s, n)
<1> DEFINE t == Append(s, line)
           bad == {m \in 0 .. Len(s) : SizeOf(t, m) # SizeOf(s, m)}
<1> SUFFICES ASSUME bad # {} PROVE FALSE
  OBVIOUS
<1>1. /\ t \in Seq(Line) /\ Len(t) = Len(s) + 1 /\ Len(s) \in Nat
      /\ \A i \in 1 .. Len(s) : t[i] = s[i]
  BY AppendFacts
<1> HIDE DEF t
<1>2. PICK m \in bad : \A k \in bad : m <= k
  <2>1. bad \in SUBSET Nat
    OBVIOUS
  <2> HIDE DEF bad
  <2> QED  BY <2>1, LeastOf
<1>3. m # 0
  BY <1>1, <1>2, SizeFacts
<1>4. m \in 1 .. Len(s) /\ m - 1 \in 0 .. Len(s) /\ m - 1 \notin bad
  BY <1>1, <1>2, <1>3
<1>5. SizeOf(t, m) = SizeOf(t, m - 1) + t[m].bytes
  <2>1. m \in 1 .. Len(t)
    BY <1>1, <1>4
  <2> HIDE DEF bad
  <2> QED  BY <1>1, <2>1, SizeFacts
<1>6. SizeOf(s, m) = SizeOf(s, m - 1) + s[m].bytes
  BY <1>4, SizeFacts
<1> QED  BY <1>1, <1>2, <1>4, <1>5, <1>6

-----------------------------------------------------------------------------
(***************************************************************************)
(* The log.                                                                *)
(***************************************************************************)
Place == (Nat \ {0}) \X (Nat \ {0})
IsLog(log) ==
  DOMAIN log \in SUBSET Place /\ \A p \in DOMAIN log : log[p] \in Event

LogFacts ==
  /\ \A p : p \in DOMAIN Log <=>
             /\ p = <<p[1], p[2]>> /\ p[1] \in DOMAIN trace
             /\ p[2] \in DOMAIN trace[p[1]].events
             /\ p[2] <= Handled(p[1])
  /\ \A p \in DOMAIN Log : Log[p] = trace[p[1]].events[p[2]]
  /\ Log = [p \in DOMAIN Log |-> Log[p]]

LEMMA LogDomain == LogFacts
<1>1. \A p : p \in Places(DOMAIN trace) <=>
              /\ p = <<p[1], p[2]>> /\ p[1] \in DOMAIN trace
              /\ p[2] \in DOMAIN trace[p[1]].events
  BY DEF Places
<1> QED  BY <1>1 DEF LogFacts, Log, At

LogTypeOK == IsLog(Log)

LEMMA LogTyped == TypeOK => LogTypeOK
<1> SUFFICES ASSUME TypeOK PROVE IsLog(Log)
  BY DEF LogTypeOK
<1>1. trace \in Seq(Line)
  BY DEF TypeOK, ReadTypes
<1>2. ASSUME NEW i \in DOMAIN trace
      PROVE  i \in Nat \ {0} /\ trace[i].events \in Seq(Event)
  <2>1. trace[i] \in Line
    BY <1>1
  <2> QED  BY <1>1, <2>1, LineFacts
<1>3. ASSUME NEW p \in DOMAIN Log PROVE p \in Place /\ Log[p] \in Event
  <2>1. /\ p = <<p[1], p[2]>> /\ p[1] \in DOMAIN trace
        /\ p[2] \in DOMAIN trace[p[1]].events
        /\ Log[p] = trace[p[1]].events[p[2]]
    BY LogDomain DEF LogFacts
  <2>2. p[1] \in Nat \ {0} /\ trace[p[1]].events \in Seq(Event)
    BY <1>2, <2>1
  <2>3. p[2] \in Nat \ {0} /\ trace[p[1]].events[p[2]] \in Event
    BY <2>1, <2>2
  <2> QED  BY <2>1, <2>2, <2>3 DEF Place
<1> QED  BY <1>3 DEF IsLog

LEMMA LogStill ==
  ASSUME UNCHANGED <<trace, todo>>
  PROVE  Log' = Log
BY DEF Log, Places, At, Handled

(* A line that is read adds nothing yet. *)
LEMMA LogReads ==
  ASSUME TypeOK, todo = <<>>, NEW line \in Line,
         trace' = Append(trace, line), todo' = line.events
  PROVE  Log' = Log
<1>1. /\ trace \in Seq(Line) /\ Len(trace) \in Nat
      /\ DOMAIN trace = 1 .. Len(trace)
      /\ Len(trace') = Len(trace) + 1 /\ trace'[Len(trace')] = line
      /\ DOMAIN trace' = DOMAIN trace \cup {Len(trace) + 1}
      /\ \A i \in DOMAIN trace : trace'[i] = trace[i] /\ trace[i] \in Line
  BY AppendFacts DEF TypeOK, ReadTypes
<1>2. line.events \in Seq(Event)
  BY LineFacts
<1>3. ASSUME NEW i \in DOMAIN trace
      PROVE  /\ trace[i].events \in Seq(Event)
             /\ Handled(i) = Len(trace[i].events)
             /\ Handled(i)' = Len(trace[i].events)
  <2>1. trace[i].events \in Seq(Event)
    BY <1>1, LineFacts
  <2>2. i # Len(trace')
    BY <1>1
  <2>3. Handled(i)' = Len(trace[i].events)
    BY <1>1, <2>2 DEF Handled
  <2>4. Handled(i) = Len(trace[i].events)
    BY <2>1 DEF Handled
  <2> QED  BY <2>1, <2>3, <2>4
<1>4. ASSUME NEW i, i = Len(trace) + 1 PROVE Handled(i)' = 0
  BY <1>1, <1>2, <1>4 DEF Handled
<1>5. LogFacts /\ LogFacts'
  BY LogDomain, PTL
<1> USE DEF LogFacts
<1>6. ASSUME NEW p PROVE p \in DOMAIN Log' <=> p \in DOMAIN Log
  <2>1. CASE p[1] \in DOMAIN trace
    BY <1>1, <1>3, <1>5, <2>1
  <2>2. CASE p[1] = Len(trace) + 1
    <3>1. p \notin DOMAIN Log
      BY <1>1, <1>5, <2>2
    <3>2. ASSUME p \in DOMAIN Log' PROVE FALSE
      <4>1. p[2] \in DOMAIN line.events /\ p[2] <= 0
        BY <1>1, <1>4, <1>5, <2>2, <3>2
      <4> QED  BY <1>2, <4>1
    <3> QED  BY <3>1, <3>2
  <2>3. CASE p[1] \notin DOMAIN trace /\ p[1] # Len(trace) + 1
    BY <1>1, <1>5, <2>3
  <2> QED  BY <2>1, <2>2, <2>3
<1>7. DOMAIN Log' = DOMAIN Log
  BY <1>6
<1>8. ASSUME NEW p \in DOMAIN Log PROVE Log'[p] = Log[p]
  <2>1. p[1] \in DOMAIN trace /\ Log[p] = trace[p[1]].events[p[2]]
    BY <1>5
  <2> QED  BY <1>1, <1>5, <1>7, <2>1
<1> QED  BY <1>5, <1>7, <1>8

(* One more event, after all in the log. *)
Grown(log, new, here, ev) ==
  /\ IsLog(log) /\ IsLog(new)
  /\ DOMAIN new = DOMAIN log \cup {here} /\ new[here] = ev
  /\ \A p \in DOMAIN log :
       /\ new[p] = log[p]
       /\ p[1] < here[1] \/ (p[1] = here[1] /\ p[2] < here[2])

LEMMA LogGrows ==
  ASSUME TypeOK, TypeOK', TodoOK, NEW k, Handles(k)
  PROVE  /\ Grown(Log, Log', Here, Head(todo)) /\ Here[1] = Len(trace)
         /\ Here[2] = Len(trace[Len(trace)].events) - Len(todo) + 1
<1> DEFINE events == trace[Len(trace)].events
<1>1. /\ phase = "line" /\ todo # <<>> /\ todo' = Tail(todo) /\ trace' = trace
  BY DEF Handles
<1>2. /\ trace \in Seq(Line) /\ todo \in Seq(Event) /\ trace # <<>>
      /\ Len(todo) <= Len(events)
      /\ \A i \in DOMAIN todo : todo[i] = events[Len(events) - Len(todo) + i]
  BY <1>1 DEF TypeOK, ReadTypes, TodoOK
<1>3. Len(trace) \in DOMAIN trace /\ events \in Seq(Event)
  <2>1. Len(trace) \in DOMAIN trace
    BY <1>2
  <2>2. trace[Len(trace)] \in Line
    BY <1>2, <2>1
  <2> QED  BY <2>1, <2>2, LineFacts
<1>4. /\ Len(todo) \in Nat \ {0} /\ Len(todo') = Len(todo) - 1
      /\ Head(todo) = todo[1] /\ 1 \in DOMAIN todo
  BY <1>1, <1>2, TailFacts
<1> DEFINE n == Len(events) - Len(todo) + 1
<1>5. /\ Here = <<Len(trace), n>> /\ n \in DOMAIN events
      /\ events[n] = Head(todo)
  BY <1>2, <1>3, <1>4 DEF Here, Handled
<1>6. \A i : i # Len(trace) => Handled(i)' = Handled(i)
  BY <1>1 DEF Handled
<1>7. Handled(Len(trace)) = n - 1 /\ Handled(Len(trace))' = n
  BY <1>1, <1>3, <1>4 DEF Handled
<1>8. LogFacts /\ LogFacts'
  BY LogDomain, PTL
<1>9. IsLog(Log) /\ IsLog(Log')
  <2>1. LogTypeOK /\ LogTypeOK'
    BY LogTyped, PTL
  <2> QED  BY <2>1 DEF LogTypeOK
<1> HIDE DEF events, n
<1>10. ASSUME NEW p PROVE p \in DOMAIN Log' <=> p \in DOMAIN Log \/ p = Here
  <2>1. CASE p[1] = Len(trace)
    <3>1. \A i \in DOMAIN events : i <= n <=> i <= n - 1 \/ i = n
      BY <1>3, <1>5
    <3>2. Handled(p[1]) = n - 1 /\ Handled(p[1])' = n
      BY <1>1, <1>7, <2>1
    <3>3. trace[p[1]].events = events
      BY <2>1 DEF events
    <3> QED  BY <1>1, <1>3, <1>5, <1>8, <2>1, <3>1, <3>2, <3>3 DEF LogFacts
  <2>2. CASE p[1] # Len(trace)
    BY <1>1, <1>5, <1>6, <1>8, <2>2 DEF LogFacts
  <2> QED  BY <2>1, <2>2
<1>11. DOMAIN Log' = DOMAIN Log \cup {Here} /\ Log'[Here] = Head(todo)
  <2>1. DOMAIN Log' = DOMAIN Log \cup {Here}
    BY <1>10
  <2>2. Log'[Here] = trace[Here[1]].events[Here[2]]
    BY <1>1, <1>8, <2>1 DEF LogFacts
  <2> QED  BY <1>5, <2>1, <2>2 DEF events
<1>12. ASSUME NEW p \in DOMAIN Log
       PROVE  /\ Log'[p] = Log[p]
              /\ p[1] < Here[1] \/ (p[1] = Here[1] /\ p[2] < Here[2])
  <2>1. Log'[p] = Log[p]
    BY <1>1, <1>8, <1>11 DEF LogFacts
  <2>2. p[1] \in DOMAIN trace /\ p[2] \in Nat /\ p[2] <= Handled(p[1])
    BY <1>8, <1>9 DEF LogFacts, IsLog, Place
  <2>3. CASE p[1] = Len(trace)
    <3>1. p[2] <= n - 1 /\ n \in Nat
      BY <1>3, <1>5, <1>7, <2>2, <2>3
    <3> QED  BY <1>5, <2>1, <2>2, <2>3, <3>1
  <2>4. CASE p[1] # Len(trace)
    <3>1. p[1] < Len(trace)
      BY <1>2, <2>2, <2>4
    <3> QED  BY <1>5, <2>1, <3>1
  <2> QED  BY <2>3, <2>4
<1> QED  BY <1>5, <1>9, <1>11, <1>12 DEF Grown, n, events

-----------------------------------------------------------------------------
(***************************************************************************)
(* What stays right of a record, and what a handler makes right.           *)
(***************************************************************************)
LEMMA WithinGrown ==
  ASSUME NEW log, NEW new, NEW here, NEW ev, Grown(log, new, here, ev),
         NEW a, NEW b, NEW kind
  PROVE  Within(new, a, b, kind) =
           Within(log, a, b, kind)
           \cup {p \in {here} : a <= p[1] /\ p[1] < b /\ ev.kind = kind}
BY DEF Grown, Within

LEMMA WithinBefore ==
  ASSUME NEW log, NEW new, NEW here, NEW ev, Grown(log, new, here, ev),
         NEW a, NEW b \in Int, b <= here[1], NEW kind
  PROVE  Within(new, a, b, kind) = Within(log, a, b, kind)
<1>1. here[1] \in Int
  BY DEF Grown, IsLog, Place
<1>2. ~(here[1] < b)
  BY <1>1
<1>3. {p \in {here} : a <= p[1] /\ p[1] < b /\ ev.kind = kind} = {}
  BY <1>2
<1> QED  BY <1>3, WithinGrown

LEMMA WithinAll ==
  ASSUME NEW log, NEW b, NEW c,
         \A p \in DOMAIN log : p[1] < b /\ p[1] < c,
         NEW a, NEW kind
  PROVE  Within(log, a, b, kind) = Within(log, a, c, kind)
BY DEF Within

LEMMA MemBeforeGrown ==
  ASSUME NEW log, NEW new, NEW here, NEW ev, Grown(log, new, here, ev),
         NEW b \in Int, b <= here[1], NEW m, MemRight(log, m, b)
  PROVE  MemRight(new, m, b)
<1>1. /\ Within(new, 1, b, "insn") = Within(log, 1, b, "insn")
      /\ Within(new, 1, b, "reg") = Within(log, 1, b, "reg")
  BY WithinBefore
<1>2. \A p \in DOMAIN log : new[p] = log[p]
  BY DEF Grown
<1>3. \A cell : Writes(new, b, cell) = Writes(log, b, cell)
  BY <1>1, <1>2 DEF Writes, Within
<1>4. \A kind : \A p \in Within(log, 1, b, kind) : new[p] = log[p]
  BY <1>2 DEF Within
<1>5. \A cell : \A p \in Writes(log, b, cell) : new[p] = log[p]
  BY <1>2 DEF Within, Writes
<1> QED  BY <1>1, <1>3, <1>4, <1>5 DEF MemRight

LEMMA RecordStays ==
  ASSUME NEW log, NEW new, NEW here, NEW ev, Grown(log, new, here, ev),
         NEW r, r.line \in Int, r.lines \in Int, NEW off \in Int,
         r.line + off + r.lines <= here[1], RecordRight(log, r, off)
  PROVE  RecordRight(new, r, off)
<1> DEFINE at == r.line + off
           end == r.line + off + r.lines
<1>1. at \in Int /\ end \in Int /\ at + r.lines = end /\ here[1] \in Int
  BY DEF Grown, IsLog, Place
<1>2. \A p \in DOMAIN log : new[p] = log[p]
  BY DEF Grown
<1>3. TimeRight(log, r, at) /\ PCRight(log, r, at) /\ MemRight(log, r.mem, end)
  BY DEF RecordRight
<1> HIDE DEF at, end
<1>4. end <= here[1]
  BY DEF end
<1>5. TimeRight(new, r, at)
  <2>1. \A p \in DOMAIN new : p[1] < end => p \in DOMAIN log
    BY <1>1, <1>4 DEF Grown
  <2> QED  BY <1>1, <1>2, <1>3, <2>1 DEF TimeRight, Grown
<1>6. PCRight(new, r, at)
  <2>1. Within(new, at, end, "insn") = Within(log, at, end, "insn")
    BY <1>1, <1>4, WithinBefore
  <2>2. \A p \in Within(log, at, end, "insn") : new[p] = log[p]
    BY <1>2 DEF Within
  <2> QED  BY <1>1, <1>3, <2>1, <2>2 DEF PCRight
<1>7. MemRight(new, r.mem, end)
  BY <1>1, <1>3, <1>4, MemBeforeGrown
<1> QED  BY <1>5, <1>6, <1>7 DEF RecordRight, at, end

LEMMA SplitStays ==
  ASSUME NEW log, NEW new, NEW here, NEW ev, Grown(log, new, here, ev),
         NEW prev, NEW r, prev.line \in Int, prev.lines \in Int, NEW off \in Int,
         prev.line + off + prev.lines <= here[1], SplitRight(log, prev, r, off)
  PROVE  SplitRight(new, prev, r, off)
<1>1. Within(new, prev.line + off, prev.line + off + prev.lines, "insn")
        = Within(log, prev.line + off, prev.line + off + prev.lines, "insn")
  BY WithinBefore
<1>2. \A p \in DOMAIN log : p \in DOMAIN new /\ new[p] = log[p]
  BY DEF Grown
<1> QED  BY <1>1, <1>2 DEF SplitRight

(* A record may be given more or fewer lines in which nothing has been     *)
(* handled.                                                                *)
Alike(r, s) ==
  r.line = s.line /\ r.time = s.time /\ r.pc = s.pc /\ r.mem = s.mem

LEMMA RecordAlike ==
  ASSUME NEW log, NEW r, NEW s, NEW off, Alike(r, s), RecordRight(log, r, off),
         r.line \in Int, r.lines \in Int, s.lines \in Int, off \in Int,
         \/ r.lines = s.lines
         \/ \A p \in DOMAIN log : p[1] < r.line + off + r.lines
                                  /\ p[1] < r.line + off + s.lines
  PROVE  RecordRight(log, s, off)
<1> DEFINE at == r.line + off
           b == r.line + off + r.lines
           c == r.line + off + s.lines
<1>1. at + r.lines = b /\ at + s.lines = c
  OBVIOUS
<1>2. TimeRight(log, r, at) /\ PCRight(log, r, at) /\ MemRight(log, r.mem, b)
  BY DEF RecordRight
<1>3. /\ r.lines = s.lines => b = c
      /\ r.lines # s.lines => \A p \in DOMAIN log : p[1] < b /\ p[1] < c
  OBVIOUS
<1>4. s.line + off = at
  BY DEF Alike
<1> HIDE DEF at, b, c
<1>5. \A a, kind : Within(log, a, b, kind) = Within(log, a, c, kind)
  BY <1>3, WithinAll
<1>6. \A cell : Writes(log, b, cell) = Writes(log, c, cell)
  BY <1>5 DEF Writes
<1>7. MemRight(log, s.mem, c)
  BY <1>2, <1>5, <1>6 DEF MemRight, Alike
<1>8. PCRight(log, s, at)
  BY <1>1, <1>2, <1>5 DEF PCRight, Alike
<1>9. TimeRight(log, s, at)
  BY <1>1, <1>2, <1>3 DEF TimeRight, Alike
<1> QED  BY <1>1, <1>4, <1>7, <1>8, <1>9 DEF RecordRight, b, c, at

(* What an event does to the memory tree. *)
MemStep(ev, before, after) ==
  /\ after.cell = IF ev.kind = "reg"
                  THEN [before.cell EXCEPT ![ev.cell] = ev.value]
                  ELSE before.cell
  /\ after.iflags = IF ev.kind = "insn" THEN StateOf(ev.iset)
                    ELSE before.iflags

LEMMA LatestIs ==
  ASSUME NEW log, NEW new, NEW here, NEW ev, Grown(log, new, here, ev),
         NEW places, places \in SUBSET DOMAIN log
  PROVE  Latest(here, places \cup {here})
<1>1. here[1] \in Int /\ here[2] \in Int
  BY DEF Grown, IsLog, Place
<1>2. \A p \in places : p[1] < here[1]
                         \/ (p[1] = here[1] /\ p[2] < here[2] /\ p[2] \in Int)
  BY DEF Grown, IsLog, Place
<1> QED  BY <1>1, <1>2 DEF Latest

LEMMA MemGrown ==
  ASSUME NEW log, NEW new, NEW here, NEW ev, Grown(log, new, here, ev),
         NEW b, here[1] < b, NEW m \in Memory, NEW n,
         MemRight(log, m, b), MemStep(ev, m, n)
  PROVE  MemRight(new, n, b)
<1>1. \A p \in DOMAIN log : new[p] = log[p]
  BY DEF Grown
<1>2. 1 <= here[1] /\ here[1] < b /\ new[here] = ev
  BY DEF Grown, IsLog, Place
<1>3. \A kind : Within(new, 1, b, kind) =
                  Within(log, 1, b, kind) \cup {p \in {here} : ev.kind = kind}
  BY <1>2, WithinGrown
<1>4. \A kind : Within(log, 1, b, kind) \in SUBSET DOMAIN log
  BY DEF Within
<1>5. ASSUME NEW cell \in Cells
      PROVE  \/ Writes(new, b, cell) = {} /\ n.cell[cell] = Unknown
             \/ \E p \in Writes(new, b, cell) :
                  /\ Latest(p, Writes(new, b, cell))
                  /\ n.cell[cell] = new[p].value
  <2>1. m.cell \in [Cells -> (0 .. ULLONG_MAX) \cup {Unknown}]
    BY DEF Memory
  <2>2. Writes(log, b, cell) \in SUBSET DOMAIN log
    BY DEF Writes, Within
  <2>3. CASE ev.kind = "reg" /\ ev.cell = cell
    <3>1. Writes(new, b, cell) = Writes(log, b, cell) \cup {here}
      BY <1>1, <1>2, <1>3, <1>4, <2>3 DEF Writes
    <3>2. n.cell[cell] = ev.value
      BY <2>1, <2>3 DEF MemStep
    <3> QED  BY <1>2, <2>2, <3>1, <3>2, LatestIs
  <2>4. CASE ~(ev.kind = "reg" /\ ev.cell = cell)
    <3>1. Writes(new, b, cell) = Writes(log, b, cell)
      BY <1>1, <1>2, <1>3, <1>4, <2>4 DEF Writes
    <3>2. n.cell[cell] = m.cell[cell]
      BY <2>1, <2>4 DEF MemStep
    <3> QED  BY <1>1, <2>2, <3>1, <3>2 DEF MemRight
  <2> QED  BY <2>3, <2>4
<1>6. LET insns == Within(new, 1, b, "insn")
      IN \/ insns = {} /\ n.iflags = Unknown
         \/ \E p \in insns : Latest(p, insns) /\ n.iflags = StateOf(new[p].iset)
  <2>1. CASE ev.kind = "insn"
    <3>1. Within(new, 1, b, "insn") = Within(log, 1, b, "insn") \cup {here}
      BY <1>3, <2>1
    <3> QED  BY <1>2, <1>4, <2>1, <3>1, LatestIs DEF MemStep
  <2>2. CASE ev.kind # "insn"
    <3>1. Within(new, 1, b, "insn") = Within(log, 1, b, "insn")
      BY <1>3, <2>2
    <3> QED  BY <1>1, <1>4, <2>2, <3>1 DEF MemStep, MemRight
  <2> QED  BY <2>1, <2>2
<1> QED  BY <1>5, <1>6 DEF MemRight

-----------------------------------------------------------------------------
(***************************************************************************)
(* The handlers.                                                           *)
(***************************************************************************)
LEMMA RecordEnds ==
  ASSUME TypeOK, SeqOK, RecordsTile, Reading, NEW k \in DOMAIN seqtree
  PROVE  /\ seqtree[k] \in Record
         /\ seqtree[k].line \in Int /\ seqtree[k].lines \in Int
         /\ seqtree[k].line + seqtree[k].lines <= prev_lineno
<1>1. seqtree \in Seq(Record) /\ prev_lineno \in Int
  BY DEF TypeOK, RecordTypes
<1>2. seqtree[k] \in Record /\ k \in 1 .. Len(seqtree) /\ Len(seqtree) \in Nat
  BY <1>1
<1>3. seqtree[k].line \in Int /\ seqtree[k].lines \in Int
  BY <1>2 DEF Record
<1>4. seqtree[k].line + seqtree[k].lines
        = IF k < Len(seqtree) THEN seqtree[k + 1].line ELSE prev_lineno
  BY DEF RecordsTile, Reading, Tiles
<1>5. k < Len(seqtree) => seqtree[k + 1].line < prev_lineno
  <2>1. k < Len(seqtree) => k + 1 \in DOMAIN seqtree
    BY <1>1, <1>2
  <2> QED  BY <2>1 DEF SeqOK
<1>6. k < Len(seqtree) => seqtree[k + 1].line \in Int
  <2>1. k < Len(seqtree) => seqtree[k + 1] \in Record
    BY <1>1, <1>2
  <2> QED  BY <2>1 DEF Record
<1> QED  BY <1>1, <1>2, <1>3, <1>4, <1>5, <1>6

(* What is handled is in the lines read so far. *)
LEMMA LogWithin ==
  ASSUME TypeOK, NEW p \in DOMAIN Log
  PROVE  /\ p[1] \in Nat \ {0} /\ p[1] <= Len(trace) /\ Len(trace) \in Nat
         /\ p[2] \in Nat \ {0} /\ Log[p] \in Event
         /\ p[2] <= Handled(p[1])
<1>1. LogFacts /\ IsLog(Log) /\ trace \in Seq(Line)
  BY LogDomain, LogTyped DEF LogTypeOK, TypeOK, ReadTypes
<1>2. p \in Place /\ p[1] \in DOMAIN trace /\ p[2] <= Handled(p[1])
      /\ Log[p] \in Event
  BY <1>1 DEF LogFacts, IsLog
<1> QED  BY <1>1, <1>2 DEF Place

(* A record is started by the first event of a line. *)
LEMMA FirstOfLine ==
  ASSUME TypeOK, TodoOK, phase = "line", todo # <<>>,
         StartsRecord(Head(todo))
  PROVE  /\ Len(todo) = Len(trace[Len(trace)].events)
         /\ \A p \in DOMAIN Log : p[1] < Len(trace)
<1> DEFINE events == trace[Len(trace)].events
<1>1. /\ trace \in Seq(Line) /\ trace # <<>> /\ todo \in Seq(Event)
      /\ Len(todo) <= Len(events)
      /\ Len(todo) < Len(events) =>
           \A i \in DOMAIN todo : todo[i].kind # "insn"
                                  /\ todo[i].time <= current_time
      /\ current_time \in Nat \cup {NoTime}
  BY DEF TypeOK, ReadTypes, RecordTypes, TodoOK
<1>2. Head(todo) = todo[1] /\ 1 \in DOMAIN todo /\ Len(todo) \in Nat
  BY <1>1, TailFacts
<1>3. events \in Seq(Event) /\ Len(events) \in Nat
  <2>1. trace[Len(trace)] \in Line
    BY <1>1
  <2>2. events \in Seq(Event)
    BY <2>1, LineFacts
  <2> QED  BY <2>2
<1>4. todo[1].time \in Nat
  <2>1. todo[1] \in Event
    BY <1>1, <1>2
  <2> QED  BY <2>1, EventFacts
<1>5. ~(Len(todo) < Len(events))
  <2> SUFFICES ASSUME Len(todo) < Len(events) PROVE FALSE
    OBVIOUS
  <2>1. todo[1].kind # "insn" /\ todo[1].time <= current_time
    BY <1>1, <1>2
  <2>2. current_time # NoTime
    BY <1>4, <2>1 DEF NoTime
  <2>3. EventTime(todo[1]) = current_time
    BY <1>1, <1>4, <2>1, <2>2 DEF EventTime
  <2> QED  BY <1>2, <2>1, <2>3 DEF StartsRecord
<1>6. Len(todo) = Len(events)
  BY <1>1, <1>2, <1>3, <1>5
<1>7. ASSUME NEW p \in DOMAIN Log PROVE p[1] < Len(trace)
  <2>1. /\ p[1] \in Nat \ {0} /\ p[1] <= Len(trace) /\ Len(trace) \in Nat
        /\ p[2] \in Nat \ {0} /\ p[2] <= Handled(p[1])
    BY LogWithin
  <2>2. ASSUME p[1] = Len(trace) PROVE FALSE
    <3>1. Handled(p[1]) = Len(events) - Len(todo)
      BY <2>2 DEF Handled
    <3> QED  BY <1>2, <1>6, <2>1, <3>1
  <2> QED  BY <2>1, <2>2
<1> QED  BY <1>6, <1>7

HandlerFacts ==
  LET ev == Head(todo)
  IN /\ Grown(Log, Log', Here, ev) /\ Here[1] = Len(trace)
     /\ Here[2] = Len(trace[Len(trace)].events) - Len(todo) + 1
     /\ Len(trace) \in Nat /\ trace' = trace /\ ev \in Event
     /\ phase = "line" /\ phase' = "line" /\ Reading /\ Reading' /\ todo # <<>>
     /\ lineno' = lineno /\ linepos' = linepos /\ eof' = eof
     /\ true_lineno' = true_lineno
     /\ GotEventCommon(ev) /\ seen_any_event' /\ lineno_offset' \in Int
     /\ lineno \in Int /\ prev_lineno \in Int /\ prev_lineno <= lineno
     /\ prev_lineno' \in Int /\ prev_lineno' <= lineno
     /\ lineno + lineno_offset' = Len(trace)
     /\ seen_any_event => lineno_offset' = lineno_offset
     /\ ~seen_any_event => /\ DOMAIN Log = {} /\ seqtree = <<>>
                           /\ StartsRecord(ev) /\ Len(trace) = lineno_offset' + 1
     /\ StartsRecord(ev) => /\ Len(todo) = Len(trace[Len(trace)].events)
                            /\ \A p \in DOMAIN Log : p[1] < Len(trace)
     /\ \A p \in DOMAIN Log : p[1] \in Int /\ p[1] <= Len(trace)
                             /\ Log[p] \in Event

LEMMA HandlerIs ==
  ASSUME IInv, IInv', TodoOK, NumberingOK, NEW k, Handles(k)
  PROVE  HandlerFacts
<1> DEFINE ev == Head(todo)
<1>1. /\ TypeOK /\ TypeOK' /\ RecordsOK /\ PositionOK
  BY DEF IInv, RecordsOK
<1>2. /\ Grown(Log, Log', Here, ev) /\ Here[1] = Len(trace)
      /\ Here[2] = Len(trace[Len(trace)].events) - Len(todo) + 1
  BY <1>1, LogGrows
<1>3. /\ phase = "line" /\ phase' = "line" /\ Reading /\ Reading'
      /\ todo # <<>> /\ trace' = trace /\ lineno' = lineno
      /\ linepos' = linepos /\ eof' = eof /\ true_lineno' = true_lineno
      /\ GotEventCommon(ev)
  BY DEF Handles, Reading
<1>4. /\ Len(trace) \in Nat /\ lineno \in Int /\ prev_lineno \in Int
      /\ lineno_offset' \in Int /\ lineno_offset \in Int
      /\ true_lineno \in Int /\ prev_lineno' \in Int
      /\ seen_any_event \in BOOLEAN
  BY <1>1 DEF TypeOK, ReadTypes, RecordTypes
<1>5. ev \in Event
  BY <1>1, <1>3, TailFacts DEF TypeOK, ReadTypes
<1>6. seen_any_event' /\ prev_lineno <= lineno
  BY <1>1, <1>3, HandlesLineOK DEF PositionOK
<1>7. seen_any_event => /\ lineno_offset' = lineno_offset
                        /\ lineno + lineno_offset' = Len(trace)
  BY <1>3 DEF GotEventCommon, NumberingOK
<1>8. ~seen_any_event =>
        /\ DOMAIN Log = {} /\ seqtree = <<>> /\ StartsRecord(ev)
        /\ Len(trace) = lineno_offset' + 1 /\ lineno + lineno_offset' = Len(trace)
  <2> SUFFICES ASSUME ~seen_any_event
               PROVE  /\ DOMAIN Log = {} /\ seqtree = <<>> /\ StartsRecord(ev)
                      /\ Len(trace) = lineno_offset' + 1
                      /\ lineno + lineno_offset' = Len(trace)
    OBVIOUS
  <2>1. lineno = 1 /\ current_time = NoTime
    BY <1>1, <1>3, <1>4 DEF PositionOK
  <2>2. true_lineno = Len(trace) /\ DOMAIN Log = {} /\ seqtree = <<>>
    BY <1>3 DEF NumberingOK
  <2>3. lineno_offset' = true_lineno - lineno
    BY <1>3 DEF GotEventCommon
  <2>4. StartsRecord(ev)
    BY <1>1, <1>5, <2>1, EventTimeFacts DEF TypeOK
  <2> QED  BY <1>4, <2>1, <2>2, <2>3, <2>4
<1>9. StartsRecord(ev) => /\ Len(todo) = Len(trace[Len(trace)].events)
                          /\ \A p \in DOMAIN Log : p[1] < Len(trace)
  BY <1>1, <1>3, FirstOfLine
<1>10. \A p \in DOMAIN Log : p[1] \in Int /\ p[1] <= Len(trace) /\ Log[p] \in Event
  BY <1>1, LogWithin
<1>11. prev_lineno' <= lineno
  BY <1>3, <1>4, <1>6 DEF GotEventCommon
<1> QED  BY <1>2, <1>3, <1>4, <1>5, <1>6, <1>7, <1>8, <1>9, <1>10, <1>11
         DEF HandlerFacts

LEMMA HandlesTodo ==
  ASSUME IInv, TodoOK, HandlerFacts, NEW k, Handles(k)
  PROVE  TodoOK'
<1> DEFINE events == trace[Len(trace)].events
<1>1. /\ trace' = trace /\ phase = "line" /\ phase' = "line" /\ todo # <<>>
      /\ todo' = Tail(todo) /\ trace \in Seq(Line) /\ todo \in Seq(Event)
      /\ current_time' = EventTime(Head(todo)) /\ RecordTypes
  BY DEF HandlerFacts, Handles, IInv, TypeOK, ReadTypes, GotEventCommon
<1>2. /\ trace # <<>> /\ Len(todo) <= Len(events)
      /\ \A i \in DOMAIN todo : todo[i] = events[Len(events) - Len(todo) + i]
  BY <1>1 DEF TodoOK
<1>3. /\ events \in Seq(Event)
      /\ \A i \in DOMAIN events :
           /\ events[i].time = events[1].time
           /\ events[i].kind = "insn" => Len(events) = 1
  <2>1. trace[Len(trace)] \in Line
    BY <1>1, <1>2
  <2> QED  BY <2>1, LineFacts
<1>4. /\ Len(todo) \in Nat \ {0} /\ Len(todo') = Len(todo) - 1
      /\ Head(todo) = todo[1] /\ 1 \in DOMAIN todo /\ todo[1] \in Event
      /\ \A i \in DOMAIN todo' : todo'[i] = todo[i + 1] /\ i + 1 \in DOMAIN todo
                                 /\ i \in Nat \ {0} /\ i <= Len(todo')
  <2>1. todo' \in Seq(Event)
    BY <1>1, TailFacts
  <2> QED  BY <1>1, <2>1, TailFacts
<1>5. Len(events) \in Nat
  BY <1>3
<1> HIDE DEF events
<1>6. ASSUME NEW i \in DOMAIN todo
      PROVE  /\ Len(events) - Len(todo) + i \in DOMAIN events
             /\ todo[i].time = events[1].time
             /\ todo[i].kind = "insn" => Len(events) = 1
  <2>1. i \in 1 .. Len(todo)
    BY <1>1
  <2>2. Len(events) - Len(todo) + i \in 1 .. Len(events)
    BY <1>2, <1>4, <1>5, <2>1
  <2> DEFINE j == Len(events) - Len(todo) + i
  <2>3. j \in DOMAIN events
    BY <1>3, <2>2
  <2>4. todo[i] = events[j]
    BY <1>2
  <2> HIDE DEF j
  <2>5. events[j].time = events[1].time /\ (events[j].kind = "insn" => Len(events) = 1)
    BY <1>3, <2>3, Zenon
  <2> QED  BY <2>3, <2>4, <2>5 DEF j
<1>7. ASSUME NEW i \in DOMAIN todo'
      PROVE  /\ todo'[i] = events[Len(events) - Len(todo') + i]
             /\ todo'[i].kind # "insn" /\ todo'[i].time <= current_time'
  <2>1. todo'[i] = todo[i + 1] /\ i + 1 \in DOMAIN todo /\ i \in Nat \ {0}
        /\ i <= Len(todo')
    BY <1>4
  <2>2. todo'[i] = events[Len(events) - Len(todo) + (i + 1)]
    BY <1>2, <2>1
  <2>3. Len(events) - Len(todo) + (i + 1) = Len(events) - Len(todo') + i
    BY <1>4, <1>5, <2>1
  <2>4. Len(events) # 1
    BY <1>2, <1>4, <1>5, <2>1
  <2>5. todo'[i].time = Head(todo).time
    BY <1>4, <1>6, <2>1
  <2>6. Head(todo).time <= current_time'
    BY <1>1, <1>4, EventTimeFacts
  <2> QED  BY <1>6, <2>1, <2>2, <2>3, <2>4, <2>5, <2>6
<1>8. Len(todo') <= Len(events)
  BY <1>2, <1>4, <1>5
<1> QED  BY <1>1, <1>2, <1>7, <1>8 DEF TodoOK, events

LEMMA HandlesNumbering ==
  ASSUME TypeOK, NumberingOK, HandlerFacts
  PROVE  NumberingOK'
<1>1. /\ Reading' /\ phase' = "line" /\ seen_any_event' /\ trace' = trace
      /\ true_lineno' = Len(trace') /\ lineno' + lineno_offset' = Len(trace')
  BY DEF HandlerFacts, NumberingOK
<1>2. lineno_offset' \in Nat /\ <<lineno_offset' + 1, 1>> \in DOMAIN Log'
      /\ \A p \in DOMAIN Log' : lineno_offset' < p[1]
  <2>1. CASE seen_any_event
    <3>1. /\ lineno_offset \in Nat /\ <<lineno_offset + 1, 1>> \in DOMAIN Log
          /\ \A p \in DOMAIN Log : lineno_offset < p[1]
          /\ lineno_offset' = lineno_offset
      BY <2>1 DEF NumberingOK, HandlerFacts
    <3>2. DOMAIN Log' = DOMAIN Log \cup {Here} /\ Here[1] = Len(trace)
      BY DEF HandlerFacts, Grown
    <3>3. <<lineno_offset + 1, 1>>[1] <= Len(trace)
      BY <3>1 DEF HandlerFacts
    <3>4. lineno_offset < Len(trace)
      BY <3>1, <3>3 DEF HandlerFacts
    <3> QED  BY <3>1, <3>2, <3>4
  <2>2. CASE ~seen_any_event
    <3>1. /\ DOMAIN Log' = {Here} /\ Len(trace) = lineno_offset' + 1
          /\ Here[1] = Len(trace) /\ Len(trace) \in Nat /\ lineno_offset' \in Int
          /\ Len(todo) = Len(trace[Len(trace)].events)
      BY <2>2 DEF HandlerFacts, Grown
    <3>2. Here \in Place /\ Here[2] = Len(todo) - Len(todo) + 1
      BY <3>1 DEF HandlerFacts, Grown, IsLog
    <3>3. Here = <<lineno_offset' + 1, 1>>
      <4>1. Len(todo) \in Int
        BY DEF TypeOK, ReadTypes
      <4>2. Here = <<Here[1], Here[2]>>
        BY DEF Here
      <4>3. Here[2] = 1
        BY <3>2, <4>1
      <4>4. Here[1] = lineno_offset' + 1
        BY <3>1
      <4> QED  BY <4>2, <4>3, <4>4, Zenon
    <3>4. lineno_offset' \in Nat
      BY <3>1, <3>2 DEF Place
    <3>5. \A p \in DOMAIN Log' : lineno_offset' < p[1]
      <4>1. \A n \in Nat : n < n + 1
        OBVIOUS
      <4>2. lineno_offset' < Here[1]
        BY <3>1, <3>4, <4>1, Zenon
      <4> QED  BY <3>1, <4>2, Zenon
    <3>6. <<lineno_offset' + 1, 1>> \in DOMAIN Log'
      BY <3>1, <3>3, Zenon
    <3> QED  BY <3>4, <3>5, <3>6
  <2> QED  BY <2>1, <2>2
<1> QED  BY <1>1, <1>2 DEF NumberingOK

(* What the open record becomes when it is written. *)
LEMMA Emitted ==
  ASSUME IInv, HandlerFacts, StartsRecord(Head(todo)), seen_any_event
  PROVE  /\ seqtree' = Append(seqtree, OpenRecord(linepos, lineno))
         /\ OpenRecord(linepos, lineno) \in Record
         /\ Alike(Open, OpenRecord(linepos, lineno))
         /\ OpenRecord(linepos, lineno).pos = oldpos
         /\ OpenRecord(linepos, lineno).line = prev_lineno
         /\ OpenRecord(linepos, lineno).lines = lineno - prev_lineno
<1>1. /\ seqtree' = EmitRecord(linepos, lineno) /\ TypeOK /\ RecordsOK
      /\ phase = "line" /\ todo # <<>>
  BY DEF HandlerFacts, GotEventCommon, IInv
<1>2. linepos \in Nat /\ lineno \in Nat /\ oldpos \in Nat
  BY <1>1 DEF TypeOK, ReadTypes, RecordTypes
<1>3. linepos > oldpos
  BY <1>1, StartsFresh
<1>4. seqtree' = Append(seqtree, OpenRecord(linepos, lineno))
  BY <1>1, <1>2, <1>3 DEF EmitRecord, HasRecord
<1>5. OpenRecord(linepos, lineno) \in Record
  BY <1>1, <1>2, OpenRecordFacts DEF TypeOK
<1>6. Alike(Open, OpenRecord(linepos, lineno))
  BY DEF Alike, Open, OpenRecord
<1> QED  BY <1>4, <1>5, <1>6 DEF OpenRecord

OpenIs ==
  /\ Open.time = current_time /\ Open.pc = curr_pc /\ Open.mem = mem
  /\ Open.line = prev_lineno /\ Open.lines = (lineno + 1) - prev_lineno

LEMMA OpenFields == OpenIs
BY DEF OpenIs, Open, OpenRecord

LEMMA HandlesClosed ==
  ASSUME IInv, NumberingOK, ClosedOK, OpenOK, HandlerFacts
  PROVE  ClosedOK'
<1> DEFINE ev == Head(todo)
           off == lineno_offset'
<1>1. /\ Grown(Log, Log', Here, ev) /\ Here[1] = Len(trace) /\ off \in Int
      /\ Len(trace) \in Int /\ lineno \in Int /\ prev_lineno \in Int
      /\ prev_lineno <= lineno /\ lineno + off = Len(trace) /\ Reading
      /\ seen_any_event => off = lineno_offset
  <2>1. /\ Grown(Log, Log', Here, ev) /\ Here[1] = Len(trace) /\ off \in Int
        /\ Len(trace) \in Nat /\ lineno \in Int /\ prev_lineno \in Int
    BY DEF HandlerFacts
  <2>0. Len(trace) \in Int
    BY <2>1
  <2>2. prev_lineno <= lineno /\ lineno + off = Len(trace) /\ Reading
    BY DEF HandlerFacts
  <2>3. seen_any_event => off = lineno_offset
    BY DEF HandlerFacts
  <2> QED  BY <2>0, <2>1, <2>2, <2>3, Zenon
<1>0. /\ ~seen_any_event => StartsRecord(ev) /\ seqtree = <<>>
      /\ StartsRecord(ev) => \A p \in DOMAIN Log : p[1] < Len(trace)
      /\ \A p \in DOMAIN Log : p[1] \in Int
  BY DEF HandlerFacts
<1>2. /\ TypeOK /\ SeqOK /\ RecordsTile /\ seqtree \in Seq(Record)
      /\ Len(seqtree) \in Nat
  BY DEF IInv, RecordsOK, TypeOK, RecordTypes
<1> HIDE DEF ev, off
<1>3. ASSUME NEW k \in DOMAIN seqtree
      PROVE  /\ seqtree[k].line \in Int /\ seqtree[k].lines \in Int
             /\ seqtree[k].line + off + seqtree[k].lines <= Here[1]
             /\ off = lineno_offset /\ RecordRight(Log', seqtree[k], off)
  <2>1. /\ seqtree[k].line \in Int /\ seqtree[k].lines \in Int
        /\ seqtree[k].line + seqtree[k].lines <= prev_lineno
    BY <1>1, <1>2, RecordEnds
  <2>2. seqtree[k].line + off + seqtree[k].lines <= Here[1]
    BY <1>1, <2>1
  <2>3. off = lineno_offset
    BY <1>0, <1>1
  <2>4. RecordRight(Log, seqtree[k], off)
    BY <2>3 DEF ClosedOK
  <2> QED  BY <1>1, <2>1, <2>2, <2>3, <2>4, RecordStays
<1>4. ASSUME NEW k \in 2 .. Len(seqtree)
      PROVE  SplitRight(Log', seqtree[k - 1], seqtree[k], off)
  <2>1. k - 1 \in DOMAIN seqtree
    BY <1>2
  <2>2. SplitRight(Log, seqtree[k - 1], seqtree[k], off)
    BY <1>3, <2>1 DEF ClosedOK
  <2> QED  BY <1>1, <1>3, <2>1, <2>2, SplitStays
<1>5. CASE ~StartsRecord(ev)
  <2>1. seqtree' = seqtree
    BY <1>5 DEF HandlerFacts, GotEventCommon, ev
  <2> QED  BY <1>3, <1>4, <2>1 DEF ClosedOK, off
<1>6. CASE StartsRecord(ev) /\ ~seen_any_event
  <2>1. seqtree' = <<>>
    BY <1>0, <1>6 DEF HandlerFacts, GotEventCommon, ev, EmitRecord, HasRecord
  <2> QED  BY <2>1 DEF ClosedOK
<1>7. CASE StartsRecord(ev) /\ seen_any_event
  <2> DEFINE r == OpenRecord(linepos, lineno)
  <2>1. /\ seqtree' = Append(seqtree, r) /\ r \in Record /\ Alike(Open, r)
        /\ r.line = prev_lineno /\ r.lines = lineno - prev_lineno
    BY <1>7, Emitted DEF ev
  <2> HIDE DEF r
  <2>2. /\ DOMAIN seqtree' = 1 .. (Len(seqtree) + 1)
        /\ DOMAIN seqtree = 1 .. Len(seqtree)
        /\ Len(seqtree') = Len(seqtree) + 1
        /\ seqtree'[Len(seqtree) + 1] = r
        /\ \A i \in DOMAIN seqtree : seqtree'[i] = seqtree[i]
    BY <1>2, <2>1, AppendFacts
  <2>3. HasOpen /\ off = lineno_offset
    BY <1>1, <1>7 DEF HasOpen
  <2>4. /\ RecordRight(Log, Open, off)
        /\ seqtree # <<>> => SplitRight(Log, seqtree[Len(seqtree)], Open, off)
    BY <2>3 DEF OpenOK
  <2>5. /\ r.line + off + r.lines = Here[1] /\ Open.line = prev_lineno
        /\ Open.lines = (lineno + 1) - prev_lineno
        /\ Open.line + off + Open.lines = Here[1] + 1
    BY <1>1, <2>1, OpenFields DEF OpenIs
  <2>6. RecordRight(Log, r, off)
    <3>1. \A p \in DOMAIN Log : p[1] < Here[1] /\ p[1] < Here[1] + 1
      BY <1>0, <1>1, <1>7
    <3>2. Open.line + off + r.lines = Here[1]
      BY <2>1, <2>5
    <3>3. Open.line \in Int /\ Open.lines \in Int /\ r.lines \in Int
      BY <1>1, <2>1, <2>5
    <3>4. \A p \in DOMAIN Log : p[1] < Open.line + off + Open.lines
                               /\ p[1] < Open.line + off + r.lines
      BY <2>5, <3>1, <3>2
    <3> QED  BY <1>1, <2>1, <2>4, <3>3, <3>4, RecordAlike
  <2>7. RecordRight(Log', r, off)
    BY <1>1, <2>1, <2>5, <2>6, RecordStays
  <2>8. ASSUME seqtree # <<>>
        PROVE  SplitRight(Log', seqtree[Len(seqtree)], r, off)
    <3>1. Len(seqtree) \in DOMAIN seqtree
      BY <1>2, <2>8
    <3>2. SplitRight(Log, seqtree[Len(seqtree)], r, off)
      BY <2>1, <2>4, <2>8 DEF SplitRight, Alike
    <3> QED  BY <1>1, <1>3, <3>1, <3>2, SplitStays
  <2>9. ASSUME NEW k \in DOMAIN seqtree' PROVE RecordRight(Log', seqtree'[k], off)
    BY <1>3, <2>2, <2>7
  <2>10. ASSUME NEW k \in 2 .. Len(seqtree')
         PROVE  SplitRight(Log', seqtree'[k - 1], seqtree'[k], off)
    <3>1. CASE k = Len(seqtree) + 1
      <4>1. seqtree # <<>> /\ k - 1 = Len(seqtree) /\ k - 1 \in DOMAIN seqtree
        BY <1>2, <2>2, <3>1
      <4> QED  BY <2>2, <2>8, <3>1, <4>1
    <3>2. CASE k # Len(seqtree) + 1
      <4>1. k \in 2 .. Len(seqtree) /\ k - 1 \in DOMAIN seqtree
            /\ k \in DOMAIN seqtree
        BY <1>2, <2>2, <3>2
      <4> QED  BY <1>4, <2>2, <4>1
    <3> QED  BY <3>1, <3>2
  <2> QED  BY <2>9, <2>10 DEF ClosedOK, off
<1> QED  BY <1>5, <1>6, <1>7

LEMMA HandlesBytes ==
  ASSUME IInv, BytesOK, HandlerFacts
  PROVE  BytesOK'
<1>1. /\ trace' = trace /\ phase = "line" /\ phase' = "line" /\ linepos' = linepos
      /\ lineno + lineno_offset' = Len(trace) /\ Reading
      /\ seen_any_event => lineno_offset' = lineno_offset
      /\ GotEventCommon(Head(todo)) /\ Len(trace) \in Nat /\ lineno_offset' \in Int
      /\ lineno \in Int
  BY DEF HandlerFacts
<1>2. ~seen_any_event => StartsRecord(Head(todo)) /\ seqtree = <<>>
  BY DEF HandlerFacts
<1>3. seqtree \in Seq(Record) /\ seen_any_event \in BOOLEAN
  BY DEF IInv, TypeOK, RecordTypes
<1>4. linepos = SizeOf(trace, Len(trace) - 1)
  BY <1>1 DEF BytesOK
<1>5. seen_any_event =>
        /\ oldpos = SizeOf(trace, prev_lineno + lineno_offset' - 1)
        /\ \A k \in DOMAIN seqtree :
             seqtree[k].pos = SizeOf(trace, seqtree[k].line + lineno_offset' - 1)
  BY <1>1 DEF BytesOK, HasOpen
<1>6. oldpos' = SizeOf(trace, prev_lineno' + lineno_offset' - 1)
  <2>1. CASE StartsRecord(Head(todo))
    <3>1. oldpos' = linepos /\ prev_lineno' = lineno
      BY <1>1, <2>1 DEF GotEventCommon
    <3>2. lineno + lineno_offset' - 1 = Len(trace) - 1
      <4>1. \A a, b, c \in Int : a + b = c => a + b - 1 = c - 1
        OBVIOUS
      <4>2. Len(trace) \in Int
        BY <1>1
      <4> QED  BY <1>1, <4>1, <4>2, Zenon
    <3> QED  BY <1>4, <3>1, <3>2, Zenon
  <2>2. CASE ~StartsRecord(Head(todo))
    <3>1. oldpos' = oldpos /\ prev_lineno' = prev_lineno /\ seen_any_event
      BY <1>1, <1>2, <1>3, <2>2 DEF GotEventCommon
    <3> QED  BY <1>5, <3>1
  <2> QED  BY <2>1, <2>2
<1>7. \A k \in DOMAIN seqtree' :
        seqtree'[k].pos = SizeOf(trace, seqtree'[k].line + lineno_offset' - 1)
  <2>1. CASE StartsRecord(Head(todo)) /\ seen_any_event
    <3> DEFINE r == OpenRecord(linepos, lineno)
    <3>1. /\ seqtree' = Append(seqtree, r) /\ r \in Record
          /\ r.pos = oldpos /\ r.line = prev_lineno
      BY <2>1, Emitted
    <3> HIDE DEF r
    <3>2. r.pos = SizeOf(trace, r.line + lineno_offset' - 1)
      BY <1>5, <2>1, <3>1
    <3>3. /\ DOMAIN seqtree' = 1 .. (Len(seqtree) + 1) /\ Len(seqtree) \in Nat
          /\ DOMAIN seqtree = 1 .. Len(seqtree)
          /\ seqtree'[Len(seqtree) + 1] = r
          /\ \A i \in DOMAIN seqtree : seqtree'[i] = seqtree[i]
      BY <1>3, <3>1, AppendFacts
    <3>4. ASSUME NEW k \in DOMAIN seqtree'
          PROVE  k = Len(seqtree) + 1 \/ k \in DOMAIN seqtree
      BY <3>3
    <3> QED  BY <1>5, <2>1, <3>2, <3>3, <3>4
  <2>2. CASE ~seen_any_event
    <3>1. seqtree' = <<>>
      BY <1>1, <1>2, <2>2 DEF GotEventCommon, EmitRecord, HasRecord
    <3> QED  BY <3>1
  <2>3. CASE ~StartsRecord(Head(todo))
    <3>1. seqtree' = seqtree /\ seen_any_event
      BY <1>1, <1>2, <1>3, <2>3 DEF GotEventCommon
    <3> QED  BY <1>5, <3>1
  <2> QED  BY <1>3, <2>1, <2>2, <2>3
<1> QED  BY <1>1, <1>4, <1>6, <1>7 DEF BytesOK, HasOpen

(* The events of the open record, after one more. *)
OpenWithin(ev, kind) ==
  (IF StartsRecord(ev) THEN {}
   ELSE Within(Log, prev_lineno + lineno_offset, Len(trace) + 1, kind))
  \cup {p \in {Here} : ev.kind = kind}

LEMMA HandlesWithin ==
  ASSUME HandlerFacts, NEW kind
  PROVE  Within(Log', prev_lineno' + lineno_offset', Len(trace) + 1, kind)
           = OpenWithin(Head(todo), kind)
<1> DEFINE ev == Head(todo)
           at == prev_lineno' + lineno_offset'
           end == Len(trace) + 1
<1>1. Grown(Log, Log', Here, ev) /\ Here[1] = Len(trace) /\ Len(trace) \in Nat
  BY DEF HandlerFacts
<1>2. /\ lineno + lineno_offset' = Len(trace) /\ prev_lineno' <= lineno
      /\ lineno \in Int /\ prev_lineno' \in Int /\ lineno_offset' \in Int
  BY DEF HandlerFacts
<1>3. at <= Here[1] /\ Here[1] < end
  BY <1>1, <1>2
<1>4. Within(Log', at, end, kind)
        = Within(Log, at, end, kind) \cup {p \in {Here} : ev.kind = kind}
  <2>1. {p \in {Here} : at <= p[1] /\ p[1] < end /\ ev.kind = kind}
          = {p \in {Here} : ev.kind = kind}
    BY <1>3
  <2> HIDE DEF at, end
  <2> QED  BY <1>1, <2>1, WithinGrown
<1>5. CASE StartsRecord(ev)
  <2>1. \A p \in DOMAIN Log : p[1] < Len(trace) /\ p[1] \in Int
    BY <1>5 DEF HandlerFacts
  <2>2. at = Len(trace)
    BY <1>2, <1>5 DEF HandlerFacts, GotEventCommon
  <2>3. Within(Log, at, end, kind) = {}
    BY <1>1, <2>1, <2>2 DEF Within
  <2> QED  BY <1>4, <1>5, <2>3 DEF OpenWithin
<1>6. CASE ~StartsRecord(ev)
  <2>1. prev_lineno' = prev_lineno /\ lineno_offset' = lineno_offset
    BY <1>6 DEF HandlerFacts, GotEventCommon
  <2> QED  BY <1>4, <1>6, <2>1 DEF OpenWithin
<1> QED  BY <1>5, <1>6

(* A handler whose event does what its kind says to the open record. *)
OpenMoves(ev) ==
  /\ curr_pc' = IF ev.kind = "insn" THEN Adjusted(ev) ELSE PCThen(ev)
  /\ MemStep(ev, mem, mem')
  /\ seen_exception' <=> (ev.kind = "exception" \/ ExceptionThen(ev))
  /\ bypctree' = ByPCThen(ev)
                 \cup (IF ev.kind = "exception"
                       THEN {[pc |-> CPU_EXCEPTION_PC, line |-> prev_lineno']}
                       ELSE {})

(* What is right of the open record before the event. *)
BeforeFacts ==
  LET ev == Head(todo)
      end == Len(trace) + 1
      at == prev_lineno + lineno_offset
  IN /\ end \in Int /\ Here[1] < end /\ Here[1] \in Int /\ ev.time \in Nat
     /\ MemRight(Log, mem, end) /\ mem \in Memory
     /\ \A p \in DOMAIN Log : Log[p].time <= current_time /\ p[1] < end
     /\ current_time \in Int /\ current_time' = EventTime(ev)
     /\ current_time <= current_time' /\ ev.time <= current_time'
     /\ current_time' = ev.time \/ (seen_any_event /\ current_time' = current_time)
     /\ seen_any_event =>
          /\ \E p \in DOMAIN Log : p[1] <= at /\ Log[p].time = current_time
          /\ \/ Within(Log, at, end, "insn") = {} /\ curr_pc = KNOWN_INVALID_PC
             \/ \E p \in Within(Log, at, end, "insn") :
                  /\ Within(Log, at, end, "insn") = {p}
                  /\ curr_pc = Adjusted(Log[p])
          /\ seen_instruction <=> Within(Log, at, end, "insn") # {}
          /\ seen_exception <=> Within(Log, at, end, "exception") # {}
     /\ ~seen_any_event => ~seen_instruction /\ ~seen_exception

LEMMA BeforeIs ==
  ASSUME IInv, OpenOK, StateOK, NumberingOK, HandlerFacts
  PROVE  BeforeFacts
<1> DEFINE ev == Head(todo)
           end == Len(trace) + 1
           at == prev_lineno + lineno_offset
<1>1. /\ Grown(Log, Log', Here, ev) /\ Here[1] = Len(trace) /\ Len(trace) \in Nat
      /\ ev \in Event /\ Reading /\ prev_lineno \in Int /\ prev_lineno <= lineno
      /\ lineno \in Int /\ GotEventCommon(ev)
  BY DEF HandlerFacts
<1>2. /\ \A p \in DOMAIN Log : p[1] \in Int /\ p[1] <= Len(trace)
      /\ ~seen_any_event => DOMAIN Log = {}
      /\ seen_any_event => lineno + lineno_offset = Len(trace)
  <2>1. seen_any_event => lineno + lineno_offset = Len(trace)
    BY DEF HandlerFacts
  <2> QED  BY <2>1 DEF HandlerFacts
<1>3. /\ TypeOK /\ RecordTypes /\ EventTypes /\ PositionOK /\ mem \in Memory
      /\ lineno_offset \in Int /\ seen_any_event \in BOOLEAN
      /\ current_time \in Nat \cup {NoTime}
  BY DEF IInv, RecordsOK, TypeOK, RecordTypes, EventTypes
<1>4. end \in Int /\ Here[1] < end /\ Here[1] \in Int /\ ev.time \in Nat
  BY <1>1, EventFacts
<1>5. current_time \in Int /\ current_time' = EventTime(ev)
      /\ current_time <= current_time' /\ ev.time <= current_time'
  <2>1. current_time' = EventTime(ev)
    BY <1>1 DEF GotEventCommon
  <2> QED  BY <1>1, <1>3, <2>1, EventTimeFacts DEF NoTime
<1>6. \A p \in DOMAIN Log : p[1] < end
  BY <1>1, <1>2
<1>7. CASE seen_any_event
  <2>1. HasOpen /\ RecordRight(Log, Open, lineno_offset)
    BY <1>1, <1>7 DEF HasOpen, OpenOK
  <2>2. /\ seen_instruction <=> Within(Log, at, end, "insn") # {}
        /\ seen_exception <=> Within(Log, at, end, "exception") # {}
    BY <2>1 DEF OpenOK
  <2>3. /\ Open.line + lineno_offset = at /\ at + Open.lines = end
        /\ Open.time = current_time /\ Open.pc = curr_pc /\ Open.mem = mem
    BY <1>1, <1>2, <1>3, <1>7, OpenFields DEF OpenIs
  <2>4. /\ TimeRight(Log, Open, at) /\ PCRight(Log, Open, at)
        /\ MemRight(Log, mem, end)
    BY <2>1, <2>3 DEF RecordRight
  <2>5. current_time' = ev.time \/ current_time' = current_time
    BY <1>5 DEF EventTime
  <2> HIDE DEF at, end
  <2>6. /\ \A p \in DOMAIN Log : Log[p].time <= current_time
        /\ \E p \in DOMAIN Log : p[1] <= at /\ Log[p].time = current_time
    BY <1>6, <2>3, <2>4 DEF TimeRight
  <2>7. \/ Within(Log, at, end, "insn") = {} /\ curr_pc = KNOWN_INVALID_PC
        \/ \E p \in Within(Log, at, end, "insn") :
             /\ Within(Log, at, end, "insn") = {p}
             /\ curr_pc = Adjusted(Log[p])
    BY <2>3, <2>4 DEF PCRight
  <2> QED  BY <1>3, <1>4, <1>5, <1>6, <1>7, <2>2, <2>4, <2>5, <2>6, <2>7
           DEF BeforeFacts, at, end
<1>8. CASE ~seen_any_event
  <2>1. DOMAIN Log = {} /\ mem = NoMemory /\ ~seen_exception /\ ~seen_instruction
        /\ current_time = NoTime
    BY <1>1, <1>2, <1>3, <1>8 DEF StateOK, PositionOK
  <2>2. current_time' = ev.time
    BY <1>5, <2>1 DEF EventTime
  <2>3. MemRight(Log, mem, end)
    BY <2>1 DEF MemRight, NoMemory, Writes, Within
  <2> QED  BY <1>3, <1>4, <1>5, <1>6, <1>8, <2>1, <2>2, <2>3 DEF BeforeFacts
<1> QED  BY <1>3, <1>7, <1>8

LEMMA HandlesRecord ==
  ASSUME IInv, HandlerFacts, BeforeFacts, OpenMoves(Head(todo))
  PROVE  RecordRight(Log', Open', lineno_offset')
<1> DEFINE ev == Head(todo)
           at == prev_lineno' + lineno_offset'
           end == Len(trace) + 1
           o == Open'
<1>1. /\ Grown(Log, Log', Here, ev) /\ Here[1] = Len(trace) /\ Len(trace) \in Nat
      /\ prev_lineno' \in Int /\ prev_lineno' <= lineno /\ lineno \in Int
      /\ lineno' = lineno /\ lineno_offset' \in Int /\ GotEventCommon(ev)
      /\ ~seen_any_event => StartsRecord(ev)
  BY DEF HandlerFacts
<1>2. lineno + lineno_offset' = Len(trace)
  BY DEF HandlerFacts
<1>3. /\ o.time = current_time' /\ o.pc = curr_pc' /\ o.mem = mem'
      /\ o.line = prev_lineno' /\ o.lines = (lineno' + 1) - prev_lineno'
  <2>1. OpenIs'
    BY OpenFields, PTL
  <2> QED  BY <2>1 DEF OpenIs
<1>4. /\ o.line + lineno_offset' = at /\ at + o.lines = end
      /\ at <= Here[1] /\ Here[1] < end /\ Here[1] \in Int
  <2>1. \A l, p, f, n \in Int :
          l + f = n => /\ p + f + ((l + 1) - p) = n + 1 /\ n < n + 1
                       /\ p <= l => p + f <= n
    OBVIOUS
  <2>2. Len(trace) \in Int
    BY <1>1
  <2>3. /\ at + ((lineno + 1) - prev_lineno') = end /\ Len(trace) < end
        /\ at <= Len(trace)
    BY <1>1, <1>2, <2>1, <2>2, Zenon
  <2>4. o.line + lineno_offset' = at /\ at + o.lines = end
    BY <1>1, <1>3, <2>3, Zenon
  <2> HIDE DEF at, end, o
  <2> QED  BY <1>1, <2>2, <2>3, <2>4, Zenon
<1>5. /\ StartsRecord(ev) => at = Len(trace)
      /\ ~StartsRecord(ev) => at = prev_lineno + lineno_offset
  BY <1>1, <1>2 DEF GotEventCommon, HandlerFacts
<1>6. /\ \A kind : Within(Log', at, end, kind) = OpenWithin(ev, kind)
      /\ Log'[Here] = ev /\ DOMAIN Log' = DOMAIN Log \cup {Here}
      /\ \A p \in DOMAIN Log : Log'[p] = Log[p]
  BY <1>1, HandlesWithin DEF Grown
<1>7. \A p \in DOMAIN Log : p[1] <= Here[1] /\ p[1] \in Int
  BY <1>1 DEF HandlerFacts
<1> HIDE DEF at, end, o
<1>8. TimeRight(Log', o, at)
  <2>1. \A p \in DOMAIN Log' : Log'[p].time <= current_time'
    <3>1. \A p \in DOMAIN Log : Log[p].time \in Nat
      BY EventFacts DEF HandlerFacts
    <3>2. \A p \in DOMAIN Log : Log[p].time <= current_time'
      BY <3>1 DEF BeforeFacts
    <3>3. ev.time <= current_time'
      BY DEF BeforeFacts
    <3> QED  BY <1>6, <3>2, <3>3
  <2>2. \E p \in DOMAIN Log' : p[1] <= at /\ Log'[p].time = current_time'
    <3>1. CASE current_time' = ev.time /\ StartsRecord(ev)
      BY <1>1, <1>5, <1>6, <3>1
    <3>2. CASE seen_any_event /\ current_time' = current_time
      <4>1. PICK p \in DOMAIN Log :
              p[1] <= prev_lineno + lineno_offset /\ Log[p].time = current_time
        BY <3>2 DEF BeforeFacts
      <4>2. p[1] <= at
        <5>1. CASE StartsRecord(ev)
          BY <1>1, <1>5, <1>7, <5>1
        <5>2. CASE ~StartsRecord(ev)
          BY <1>5, <4>1, <5>2
        <5> QED  BY <5>1, <5>2
      <4> QED  BY <1>6, <3>2, <4>1, <4>2
    <3>3. ~StartsRecord(ev) => seen_any_event /\ current_time' = current_time
      <4>1. current_time' = EventTime(ev)
        BY DEF BeforeFacts
      <4> QED  BY <1>1, <4>1 DEF StartsRecord
    <3> QED  BY <3>1, <3>2, <3>3 DEF BeforeFacts
  <2> QED  BY <1>3, <2>1, <2>2 DEF TimeRight
<1>9. PCRight(Log', o, at)
  <2> DEFINE insns == Within(Log', at, end, "insn")
             before == Within(Log, prev_lineno + lineno_offset, end, "insn")
  <2>1. insns = (IF StartsRecord(ev) THEN {} ELSE before)
                \cup {p \in {Here} : ev.kind = "insn"}
    BY <1>6 DEF OpenWithin, end
  <2>2. curr_pc' = IF ev.kind = "insn" THEN Adjusted(ev) ELSE PCThen(ev)
    BY DEF OpenMoves
  <2>3. before \in SUBSET DOMAIN Log
    BY DEF Within
  <2>4. ~StartsRecord(ev) =>
          /\ seen_any_event /\ (seen_instruction <=> before # {})
          /\ \/ before = {} /\ curr_pc = KNOWN_INVALID_PC
             \/ \E p \in before : before = {p} /\ curr_pc = Adjusted(Log[p])
    BY <1>1 DEF BeforeFacts, end
  <2> HIDE DEF insns, before
  <2>5. \/ insns = {} /\ curr_pc' = KNOWN_INVALID_PC
        \/ \E p \in insns : insns = {p} /\ curr_pc' = Adjusted(Log'[p])
    <3>1. CASE ev.kind = "insn"
      <4>1. ~StartsRecord(ev) => before = {}
        BY <2>4, <3>1 DEF StartsRecord
      <4>2. insns = {Here}
        BY <2>1, <3>1, <4>1
      <4> QED  BY <1>6, <2>2, <3>1, <4>2
    <3>2. CASE ev.kind # "insn" /\ StartsRecord(ev)
      BY <2>1, <2>2, <3>2 DEF PCThen
    <3>3. CASE ev.kind # "insn" /\ ~StartsRecord(ev)
      <4>1. insns = before /\ curr_pc' = curr_pc
        BY <2>1, <2>2, <3>3 DEF PCThen
      <4> QED  BY <1>6, <2>3, <2>4, <3>3, <4>1
    <3> QED  BY <3>1, <3>2, <3>3
  <2> QED  BY <1>3, <1>4, <2>5 DEF PCRight, insns
<1>10. MemRight(Log', o.mem, end)
  <2>1. MemRight(Log, mem, end) /\ mem \in Memory
    BY DEF BeforeFacts, end
  <2>2. MemStep(ev, mem, mem')
    BY DEF OpenMoves
  <2> QED  BY <1>1, <1>3, <1>4, <2>1, <2>2, MemGrown
<1> QED  BY <1>4, <1>8, <1>9, <1>10 DEF RecordRight, o

LEMMA HandlesSplit ==
  ASSUME IInv, OpenOK, HandlerFacts, BeforeFacts, seqtree' # <<>>
  PROVE  SplitRight(Log', seqtree'[Len(seqtree')], Open', lineno_offset')
<1> DEFINE ev == Head(todo)
           off == lineno_offset'
           o == Open'
<1>1. /\ Grown(Log, Log', Here, ev) /\ Here[1] = Len(trace) /\ Len(trace) \in Int
      /\ lineno \in Int /\ off \in Int /\ GotEventCommon(ev) /\ Reading
      /\ prev_lineno \in Int /\ lineno + off = Len(trace)
      /\ prev_lineno <= lineno
  <2>1. /\ Len(trace) \in Nat /\ Grown(Log, Log', Here, ev)
        /\ Here[1] = Len(trace) /\ GotEventCommon(ev) /\ lineno \in Int
        /\ off \in Int /\ prev_lineno \in Int
    BY DEF HandlerFacts
  <2>2. Len(trace) \in Int
    BY <2>1
  <2>3. prev_lineno <= lineno /\ lineno + off = Len(trace) /\ Reading
    BY DEF HandlerFacts
  <2> QED  BY <2>1, <2>2, <2>3, Zenon
<1>2. /\ ~seen_any_event => StartsRecord(ev) /\ seqtree = <<>>
      /\ seen_any_event => lineno_offset = off
      /\ StartsRecord(ev) => \A p \in DOMAIN Log : p[1] < Len(trace)
  BY DEF HandlerFacts
<1>3. o.time = current_time' /\ o.line = prev_lineno'
  <2>1. OpenIs'
    BY OpenFields, PTL
  <2> QED  BY <2>1 DEF OpenIs
<1>4. TypeOK /\ SeqOK /\ RecordsTile /\ seqtree \in Seq(Record)
      /\ seen_any_event \in BOOLEAN
  BY DEF IInv, RecordsOK, TypeOK, RecordTypes
<1> HIDE DEF off, o
<1>5. CASE ~StartsRecord(ev)
  <2>1. /\ seqtree' = seqtree /\ prev_lineno' = prev_lineno /\ HasOpen
        /\ current_time' = current_time /\ lineno_offset = off
    BY <1>1, <1>2, <1>4, <1>5 DEF GotEventCommon, HasOpen, StartsRecord
  <2> DEFINE prev == seqtree[Len(seqtree)]
  <2>2. SplitRight(Log, prev, Open, off)
    BY <2>1 DEF OpenOK
  <2>3. SplitRight(Log, prev, o, off)
    BY <1>3, <2>1, <2>2, OpenFields DEF SplitRight, OpenIs
  <2>4. Len(seqtree) \in DOMAIN seqtree
    BY <1>4, <2>1
  <2>5. /\ prev.line \in Int /\ prev.lines \in Int
        /\ prev.line + prev.lines <= prev_lineno
    BY <1>1, <1>4, <2>4, RecordEnds
  <2> HIDE DEF prev
  <2>6. prev.line + off + prev.lines <= Here[1]
    BY <1>1, <2>5
  <2>7. SplitRight(Log', prev, o, off)
    BY <1>1, <2>3, <2>5, <2>6, SplitStays
  <2> QED  BY <2>1, <2>7 DEF prev, o, off
<1>6. CASE StartsRecord(ev) /\ ~seen_any_event
  <2>1. seqtree' = <<>>
    BY <1>1, <1>2, <1>6 DEF GotEventCommon, EmitRecord, HasRecord
  <2> QED  BY <2>1
<1>7. CASE StartsRecord(ev) /\ seen_any_event
  <2> DEFINE r == OpenRecord(linepos, lineno)
  <2>1. /\ seqtree' = Append(seqtree, r) /\ r \in Record /\ Alike(Open, r)
        /\ r.line = prev_lineno /\ r.lines = lineno - prev_lineno
    BY <1>7, Emitted
  <2> HIDE DEF r
  <2>2. seqtree'[Len(seqtree')] = r
    BY <1>4, <2>1, AppendFacts
  <2>3. r.time = current_time /\ prev_lineno' = lineno
    BY <1>1, <1>7, <2>1, OpenFields DEF Alike, OpenIs, GotEventCommon
  <2>4. /\ o.line + off = Len(trace) /\ r.line + off + r.lines = Len(trace)
        /\ r.line + off = prev_lineno + lineno_offset
    BY <1>1, <1>2, <1>3, <1>7, <2>1, <2>3
  <2>5. ASSUME r.time = o.time
        PROVE  /\ \E p \in DOMAIN Log' : p[1] = o.line + off
                                         /\ Log'[p].kind = "insn"
               /\ Within(Log', r.line + off, r.line + off + r.lines, "insn") # {}
    <3>1. seen_instruction /\ ev.kind = "insn"
      <4>1. EventTime(ev) = current_time
        BY <1>1, <1>3, <2>3, <2>5 DEF GotEventCommon
      <4> QED  BY <1>7, <4>1 DEF StartsRecord
    <3>2. Here \in DOMAIN Log' /\ Log'[Here] = ev
      BY <1>1 DEF Grown
    <3>3. PICK p \in Within(Log, prev_lineno + lineno_offset, Len(trace) + 1,
                            "insn") : TRUE
      BY <1>7, <3>1 DEF BeforeFacts
    <3>4. /\ p \in DOMAIN Log' /\ Log'[p] = Log[p] /\ Log[p].kind = "insn"
          /\ r.line + off <= p[1] /\ p[1] < Len(trace)
      BY <1>1, <1>2, <1>7, <2>4, <3>3 DEF Within, Grown
    <3>5. p \in Within(Log', r.line + off, r.line + off + r.lines, "insn")
      BY <2>4, <3>4 DEF Within
    <3> QED  BY <1>1, <2>4, <3>1, <3>2, <3>5
  <2> QED  BY <2>2, <2>5 DEF SplitRight, o, off
<1> QED  BY <1>5, <1>6, <1>7

LEMMA HandlesOpen ==
  ASSUME IInv, OpenOK, HandlerFacts, BeforeFacts, OpenMoves(Head(todo))
  PROVE  OpenOK'
<1> DEFINE ev == Head(todo)
           at == prev_lineno + lineno_offset
           end == Len(trace) + 1
<1>1. trace' = trace /\ GotEventCommon(ev) /\ (~seen_any_event => StartsRecord(ev))
  BY DEF HandlerFacts
<1>2. \A kind : Within(Log', prev_lineno' + lineno_offset', end, kind)
                  = OpenWithin(ev, kind)
  BY HandlesWithin
<1>3. \A kind : {p \in {Here} : ev.kind = kind} # {} <=> ev.kind = kind
  OBVIOUS
<1>4. seen_instruction' <=> OpenWithin(ev, "insn") # {}
  <2>1. seen_instruction' <=>
          ev.kind = "insn" \/ (seen_instruction /\ EventTime(ev) = current_time)
    BY <1>1 DEF GotEventCommon
  <2>2. ev.kind # "insn" => (StartsRecord(ev) <=> EventTime(ev) # current_time)
    BY DEF StartsRecord
  <2>3. ~StartsRecord(ev) => (seen_instruction <=> Within(Log, at, end, "insn") # {})
    BY <1>1 DEF BeforeFacts
  <2> QED  BY <1>3, <2>1, <2>2, <2>3 DEF OpenWithin
<1>5. seen_exception' <=> OpenWithin(ev, "exception") # {}
  <2>1. seen_exception' <=>
          ev.kind = "exception" \/ (seen_exception /\ ~StartsRecord(ev))
    BY DEF OpenMoves, ExceptionThen
  <2>2. ~StartsRecord(ev) =>
          (seen_exception <=> Within(Log, at, end, "exception") # {})
    BY <1>1 DEF BeforeFacts
  <2> QED  BY <1>3, <2>1, <2>2 DEF OpenWithin
<1>6. RecordRight(Log', Open', lineno_offset')
  BY HandlesRecord
<1>7. seqtree' # <<>> =>
        SplitRight(Log', seqtree'[Len(seqtree')], Open', lineno_offset')
  BY HandlesSplit
<1> QED  BY <1>1, <1>2, <1>4, <1>5, <1>6, <1>7 DEF OpenOK

LEMMA HandlesState ==
  ASSUME StateOK, HandlerFacts, OpenMoves(Head(todo))
  PROVE  StateOK'
<1> DEFINE ev == Head(todo)
<1>1. /\ seen_any_event' /\ GotEventCommon(ev) /\ Reading /\ MemStep(ev, mem, mem')
  BY DEF HandlerFacts, OpenMoves
<1>2. ASSUME ~seen_instruction' PROVE mem'.iflags = last_mem'.iflags
  <2>1. /\ ev.kind # "insn" /\ mem'.iflags = mem.iflags
        /\ EventTime(ev) = current_time => ~seen_instruction
    BY <1>1, <1>2 DEF GotEventCommon, MemStep
  <2>2. CASE StartsRecord(ev)
    BY <1>1, <2>1, <2>2 DEF GotEventCommon
  <2>3. CASE ~StartsRecord(ev)
    <3>1. last_mem' = last_mem /\ ~seen_instruction
      BY <1>1, <2>1, <2>3 DEF GotEventCommon, StartsRecord
    <3> QED  BY <1>1, <2>1, <3>1 DEF StateOK
  <2> QED  BY <2>2, <2>3
<1> QED  BY <1>1, <1>2 DEF StateOK

-----------------------------------------------------------------------------
(***************************************************************************)
(* The by-PC tree.                                                         *)
(***************************************************************************)
(* The entries for one record. *)
VisitOf(r) == IF r.pc # KNOWN_INVALID_PC THEN {Visit(r)} ELSE {}
ExceptionOf(log, r, off) ==
  IF Within(log, r.line + off, r.line + off + r.lines, "exception") # {}
  THEN {ExceptionAt(r)} ELSE {}

(* One record more, r, at the end. *)
LEMMA VisitsAppend ==
  ASSUME NEW s \in Seq(Record), NEW r \in Record
  PROVE  Visits(Append(s, r)) = Visits(s) \cup VisitOf(r)
<1> DEFINE t == Append(s, r)
<1>1. {t[k] : k \in DOMAIN t} = {s[k] : k \in DOMAIN s} \cup {r}
  <2>1. /\ DOMAIN t = 1 .. (Len(s) + 1) /\ DOMAIN s = 1 .. Len(s)
        /\ Len(s) \in Nat /\ t[Len(s) + 1] = r
        /\ \A i \in DOMAIN s : t[i] = s[i]
    BY AppendFacts
  <2> HIDE DEF t
  <2>2. DOMAIN t = DOMAIN s \cup {Len(s) + 1}
    BY <2>1
  <2> QED  BY <2>1, <2>2
<1> HIDE DEF t
<1> QED  BY <1>1 DEF Visits, VisitOf, t

LEMMA ExceptionsAppend ==
  ASSUME NEW log, NEW s \in Seq(Record), NEW r \in Record, NEW off
  PROVE  Exceptions(log, Append(s, r), off)
           = Exceptions(log, s, off) \cup ExceptionOf(log, r, off)
<1> DEFINE t == Append(s, r)
<1>1. {t[k] : k \in DOMAIN t} = {s[k] : k \in DOMAIN s} \cup {r}
  <2>1. /\ DOMAIN t = 1 .. (Len(s) + 1) /\ DOMAIN s = 1 .. Len(s)
        /\ Len(s) \in Nat /\ t[Len(s) + 1] = r
        /\ \A i \in DOMAIN s : t[i] = s[i]
    BY AppendFacts
  <2> HIDE DEF t
  <2>2. DOMAIN t = DOMAIN s \cup {Len(s) + 1}
    BY <2>1
  <2> QED  BY <2>1, <2>2
<1> HIDE DEF t
<1> QED  BY <1>1 DEF Exceptions, ExceptionOf, t

(* The records that are written have their exceptions already. *)
LEMMA ExceptionsStay ==
  ASSUME IInv, HandlerFacts
  PROVE  Exceptions(Log', seqtree, lineno_offset')
           = Exceptions(Log, seqtree, lineno_offset)
<1> DEFINE off == lineno_offset'
<1>1. /\ Grown(Log, Log', Here, Head(todo)) /\ Here[1] = Len(trace)
      /\ off \in Int /\ lineno \in Int /\ prev_lineno \in Int /\ Reading
  BY DEF HandlerFacts
<1>2. prev_lineno <= lineno /\ lineno + off = Len(trace)
  BY DEF HandlerFacts
<1>3. TypeOK /\ SeqOK /\ RecordsTile
  BY DEF IInv, RecordsOK
<1>4. seqtree = <<>> \/ off = lineno_offset
  BY DEF HandlerFacts
<1>5. Len(trace) \in Int
  BY DEF HandlerFacts
<1> HIDE DEF off
<1>6. ASSUME NEW q \in {seqtree[k] : k \in DOMAIN seqtree}
      PROVE  Within(Log', q.line + off, q.line + off + q.lines, "exception")
               = Within(Log, q.line + off, q.line + off + q.lines, "exception")
  <2>1. /\ q.line \in Int /\ q.lines \in Int
        /\ q.line + q.lines <= prev_lineno
    BY <1>1, <1>3, RecordEnds
  <2>2. q.line + off + q.lines \in Int /\ q.line + off + q.lines <= Here[1]
    BY <1>1, <1>2, <1>5, <2>1
  <2> QED  BY <1>1, <2>2, WithinBefore
<1>7. Exceptions(Log', seqtree, off) = Exceptions(Log, seqtree, off)
  BY <1>6 DEF Exceptions
<1>8. seqtree = <<>> => Exceptions(Log, seqtree, off)
                          = Exceptions(Log, seqtree, lineno_offset)
  BY DEF Exceptions
<1> QED  BY <1>4, <1>7, <1>8 DEF off

(* What writing the open record tells the by-PC tree, and its exceptions. *)
LEMMA EmittedByPC ==
  ASSUME IInv, HandlerFacts, BeforeFacts, StartsRecord(Head(todo)), seen_any_event
  PROVE  /\ EmitPC(linepos) = bypctree
              \cup (IF curr_pc # KNOWN_INVALID_PC THEN {Visit(Open)} ELSE {})
         /\ Visits(seqtree') = Visits(seqtree)
              \cup (IF curr_pc # KNOWN_INVALID_PC THEN {Visit(Open)} ELSE {})
         /\ Exceptions(Log', seqtree', lineno_offset')
              = Exceptions(Log', seqtree, lineno_offset')
                \cup (IF seen_exception THEN {ExceptionAt(Open)} ELSE {})
<1> DEFINE r == OpenRecord(linepos, lineno)
           off == lineno_offset'
<1>1. /\ seqtree' = Append(seqtree, r) /\ r \in Record /\ Alike(Open, r)
      /\ r.line = prev_lineno /\ r.lines = lineno - prev_lineno
  BY Emitted
<1>2. Open.pc = curr_pc /\ Open.line = prev_lineno
  BY OpenFields DEF OpenIs
<1>3. r.pc = curr_pc /\ Visit(r) = Visit(Open) /\ ExceptionAt(r) = ExceptionAt(Open)
  BY <1>1, <1>2 DEF Alike, Visit, ExceptionAt
<1>4. seqtree \in Seq(Record) /\ TypeOK /\ RecordsOK
  BY DEF IInv, TypeOK, RecordTypes
<1>5. EmitPC(linepos) = bypctree
        \cup (IF curr_pc # KNOWN_INVALID_PC THEN {Visit(Open)} ELSE {})
  <2>1. linepos > oldpos /\ linepos \in Nat /\ oldpos \in Nat
    <3>1. phase = "line" /\ todo # <<>>
      BY DEF HandlerFacts
    <3> QED  BY <1>4, <3>1, StartsFresh DEF TypeOK, ReadTypes, RecordTypes
  <2>2. HasRecord(linepos)
    BY <2>1 DEF HasRecord
  <2> QED  BY <1>2, <2>2 DEF EmitPC, Visit
<1>6. VisitOf(r) = IF curr_pc # KNOWN_INVALID_PC THEN {Visit(Open)} ELSE {}
  BY <1>3 DEF VisitOf
<1>7. Within(Log', r.line + off, r.line + off + r.lines, "exception") # {}
        <=> seen_exception
  <2>1. /\ Grown(Log, Log', Here, Head(todo)) /\ Here[1] = Len(trace)
        /\ off \in Int /\ lineno \in Int /\ prev_lineno \in Int
        /\ off = lineno_offset
    BY DEF HandlerFacts
  <2>2. lineno + off = Len(trace) /\ Len(trace) \in Nat
    BY DEF HandlerFacts
  <2>3. \A p \in DOMAIN Log : p[1] < Len(trace) /\ p[1] \in Int
    BY DEF HandlerFacts
  <2>4. r.line + off = prev_lineno + lineno_offset /\ r.line + off + r.lines = Len(trace)
    BY <1>1, <2>1, <2>2
  <2> DEFINE at == prev_lineno + lineno_offset
  <2>5. Within(Log', at, Len(trace), "exception") = Within(Log, at, Len(trace), "exception")
    BY <2>1, <2>2, WithinBefore
  <2>6. Within(Log, at, Len(trace), "exception")
          = Within(Log, at, Len(trace) + 1, "exception")
    BY <2>2, <2>3, WithinAll
  <2> QED  BY <2>4, <2>5, <2>6 DEF BeforeFacts
<1> HIDE DEF r, off
<1>8. ExceptionOf(Log', r, off)
        = IF seen_exception THEN {ExceptionAt(Open)} ELSE {}
  BY <1>3, <1>7 DEF ExceptionOf
<1>9. Visits(seqtree') = Visits(seqtree)
        \cup (IF curr_pc # KNOWN_INVALID_PC THEN {Visit(Open)} ELSE {})
  BY <1>1, <1>4, <1>6, VisitsAppend
<1>10. Exceptions(Log', seqtree', off) = Exceptions(Log', seqtree, off)
         \cup (IF seen_exception THEN {ExceptionAt(Open)} ELSE {})
  BY <1>1, <1>4, <1>8, ExceptionsAppend
<1> QED  BY <1>5, <1>9, <1>10 DEF off

LEMMA HandlesTrees ==
  ASSUME IInv, ByPCOK, HandlerFacts, BeforeFacts, OpenMoves(Head(todo))
  PROVE  ByPCOK'
<1> DEFINE ev == Head(todo)
           entry == {[pc |-> CPU_EXCEPTION_PC, line |-> prev_lineno']}
           after == IF seen_exception' THEN entry ELSE {}
<1>1. /\ phase = "line" /\ phase' = "line" /\ Reading /\ Reading'
      /\ seen_any_event' /\ GotEventCommon(ev)
      /\ ~seen_any_event => StartsRecord(ev) /\ seqtree = <<>>
  BY DEF HandlerFacts
<1>2. ExceptionAt(Open)' = [pc |-> CPU_EXCEPTION_PC, line |-> prev_lineno']
  <2>1. OpenIs'
    BY OpenFields, PTL
  <2> QED  BY <2>1 DEF OpenIs, ExceptionAt
<1>3. ExceptionAt(Open) = [pc |-> CPU_EXCEPTION_PC, line |-> prev_lineno]
  BY OpenFields DEF OpenIs, ExceptionAt
<1>4. bypctree = Visits(seqtree) \cup Exceptions(Log, seqtree, lineno_offset)
        \cup (IF seen_any_event /\ seen_exception THEN {ExceptionAt(Open)} ELSE {})
  BY <1>1 DEF ByPCOK, HasOpen
<1>5. /\ bypctree' = ByPCThen(ev) \cup (IF ev.kind = "exception" THEN entry ELSE {})
      /\ seen_exception' <=> \/ ev.kind = "exception"
                             \/ seen_exception /\ ~StartsRecord(ev)
  BY DEF OpenMoves, ExceptionThen
<1>6. Exceptions(Log', seqtree, lineno_offset') = Exceptions(Log, seqtree, lineno_offset)
  BY ExceptionsStay
<1> SUFFICES bypctree' = Visits(seqtree') \cup Exceptions(Log', seqtree', lineno_offset')
                         \cup after
  BY <1>1, <1>2 DEF ByPCOK, HasOpen
<1>7. CASE ~StartsRecord(ev)
  <2>1. /\ seqtree' = seqtree /\ prev_lineno' = prev_lineno
        /\ ByPCThen(ev) = bypctree /\ seen_any_event
    BY <1>1, <1>7 DEF GotEventCommon, ByPCThen
  <2>2. seen_exception' <=> (ev.kind = "exception" \/ seen_exception)
    BY <1>5, <1>7
  <2>3. entry = {ExceptionAt(Open)}
    BY <1>3, <2>1
  <2> HIDE DEF entry
  <2> QED  BY <1>4, <1>5, <1>6, <2>1, <2>2, <2>3
<1>8. CASE StartsRecord(ev)
  <2>1. ByPCThen(ev) = EmitPC(linepos) /\ after = (IF ev.kind = "exception" THEN entry ELSE {})
    BY <1>5, <1>8 DEF ByPCThen
  <2>2. CASE seen_any_event
    <3>1. /\ EmitPC(linepos) = bypctree
               \cup (IF curr_pc # KNOWN_INVALID_PC THEN {Visit(Open)} ELSE {})
          /\ Visits(seqtree') = Visits(seqtree)
               \cup (IF curr_pc # KNOWN_INVALID_PC THEN {Visit(Open)} ELSE {})
          /\ Exceptions(Log', seqtree', lineno_offset')
               = Exceptions(Log', seqtree, lineno_offset')
                 \cup (IF seen_exception THEN {ExceptionAt(Open)} ELSE {})
      BY <1>8, <2>2, EmittedByPC
    <3> HIDE DEF entry, after
    <3> QED  BY <1>4, <1>5, <1>6, <2>1, <2>2, <3>1
  <2>3. CASE ~seen_any_event
    <3>1. seqtree' = <<>> /\ EmitPC(linepos) = bypctree /\ seqtree = <<>>
      BY <1>1, <1>8, <2>3
      DEF GotEventCommon, EmitRecord, HasRecord, EmitPC
    <3> HIDE DEF entry, after
    <3> QED  BY <1>4, <1>5, <1>6, <2>1, <2>3, <3>1
  <2> QED  BY <2>2, <2>3
<1> QED  BY <1>7, <1>8

-----------------------------------------------------------------------------
(***************************************************************************)
(* Every step keeps the invariant: the handlers.                           *)
(***************************************************************************)
LEMMA HandlesTrace ==
  ASSUME IInv, IInv', TraceOK, NEW k, Handles(k), OpenMoves(Head(todo))
  PROVE  TraceOK'
<1>1. /\ phase = "line" /\ phase' = "line" /\ TypeOK
  BY DEF Handles, IInv
<1>2. TodoOK /\ NumberingOK /\ BytesOK /\ ClosedOK /\ OpenOK /\ StateOK /\ ByPCOK
  BY <1>1 DEF TraceOK
<1>3. HandlerFacts
  BY <1>2, HandlerIs
<1>4. BeforeFacts
  BY <1>2, <1>3, BeforeIs
<1>5. TodoOK' /\ NumberingOK'
  BY <1>1, <1>2, <1>3, HandlesTodo, HandlesNumbering
<1>6. BytesOK' /\ ClosedOK' /\ OpenOK' /\ StateOK' /\ ByPCOK'
  BY <1>2, <1>3, <1>4, HandlesBytes, HandlesClosed, HandlesOpen, HandlesState,
     HandlesTrees
<1> QED  BY <1>1, <1>5, <1>6 DEF TraceOK, Complete

LEMMA InstructionTrace ==
  ASSUME IInv, IInv', TraceOK, GotInstruction
  PROVE  TraceOK'
<1> DEFINE ev == Head(todo)
           state == StateOf(ev.iset)
<1>1. /\ Handles("insn") /\ UpdateIflags(state) /\ curr_pc' = Adjusted(ev)
      /\ bypctree' = ByPCThen(ev) /\ seen_exception' = ExceptionThen(ev)
  BY DEF GotInstruction, UpdatePC
<1>2. ev.kind = "insn" /\ GotEventCommon(ev) /\ phase = "line"
  BY <1>1 DEF Handles
<1>3. StateOK /\ mem \in Memory
  BY <1>2 DEF TraceOK, IInv, TypeOK, EventTypes
<1>4. last_mem'.iflags = mem.iflags
  <2>1. CASE StartsRecord(ev)
    BY <1>2, <2>1 DEF GotEventCommon
  <2>2. CASE ~StartsRecord(ev)
    <3>1. ~seen_instruction /\ last_mem' = last_mem
      BY <1>2, <2>2 DEF GotEventCommon, StartsRecord
    <3> QED  BY <1>2, <1>3, <3>1 DEF StateOK, Reading
  <2> QED  BY <2>1, <2>2
<1>5. mem' = [mem EXCEPT !.iflags = IF last_mem'.iflags = state
                                    THEN mem.iflags ELSE state]
  BY <1>1 DEF UpdateIflags
<1>6. mem'.cell = mem.cell /\ mem'.iflags = state
  <2> HIDE DEF state
  <2> QED  BY <1>3, <1>4, <1>5 DEF Memory
<1>7. MemStep(ev, mem, mem')
  BY <1>2, <1>6 DEF MemStep
<1>8. OpenMoves(ev)
  BY <1>1, <1>2, <1>7 DEF OpenMoves
<1> QED  BY <1>1, <1>8, HandlesTrace

LEMMA RegisterTrace ==
  ASSUME IInv, IInv', TraceOK, GotRegister
  PROVE  TraceOK'
<1> DEFINE ev == Head(todo)
<1>1. /\ Handles("reg") /\ mem' = [mem EXCEPT !.cell[ev.cell] = ev.value]
      /\ curr_pc' = PCThen(ev) /\ bypctree' = ByPCThen(ev)
      /\ seen_exception' = ExceptionThen(ev)
  BY DEF GotRegister
<1>2. ev.kind = "reg" /\ mem \in Memory
  BY <1>1 DEF Handles, IInv, TypeOK, EventTypes
<1> HIDE DEF ev
<1>3. MemStep(ev, mem, mem')
  BY <1>1, <1>2 DEF MemStep, Memory
<1>4. OpenMoves(ev)
  BY <1>1, <1>2, <1>3 DEF OpenMoves
<1> QED  BY <1>1, <1>4, HandlesTrace DEF ev

LEMMA ExceptionTrace ==
  ASSUME IInv, IInv', TraceOK, GotException
  PROVE  TraceOK'
<1> DEFINE ev == Head(todo)
           entry == {[pc |-> CPU_EXCEPTION_PC, line |-> prev_lineno']}
<1>1. /\ Handles("exception") /\ mem' = mem /\ curr_pc' = PCThen(ev)
      /\ seen_exception'
      /\ bypctree' = IF ExceptionThen(ev) THEN ByPCThen(ev)
                     ELSE ByPCThen(ev) \cup entry
  BY DEF GotException
<1>2. ev.kind = "exception" /\ phase = "line"
  BY <1>1 DEF Handles
<1>3. MemStep(ev, mem, mem')
  BY <1>1, <1>2 DEF MemStep
<1>4. ASSUME ExceptionThen(ev) PROVE entry \subseteq ByPCThen(ev)
  <2>1. ByPCOK /\ HandlerFacts
    BY <1>1, <1>2, HandlerIs DEF TraceOK
  <2>2. /\ ~StartsRecord(ev) /\ seen_exception /\ seen_any_event /\ Reading
        /\ prev_lineno' = prev_lineno /\ ByPCThen(ev) = bypctree
    BY <1>4, <2>1 DEF HandlerFacts, ExceptionThen, GotEventCommon, ByPCThen
  <2>3. ExceptionAt(Open) \in bypctree
    BY <1>2, <2>1, <2>2 DEF ByPCOK, HasOpen
  <2>4. ExceptionAt(Open) = [pc |-> CPU_EXCEPTION_PC, line |-> prev_lineno]
    BY OpenFields DEF OpenIs, ExceptionAt
  <2> QED  BY <2>2, <2>3, <2>4
<1>5. bypctree' = ByPCThen(ev) \cup entry
  BY <1>1, <1>4
<1>6. OpenMoves(ev)
  <2> HIDE DEF entry
  <2> QED  BY <1>1, <1>2, <1>3, <1>5 DEF OpenMoves, entry
<1> QED  BY <1>1, <1>6, HandlesTrace

LEMMA TextTrace ==
  ASSUME IInv, IInv', TraceOK, GotText
  PROVE  TraceOK'
<1> DEFINE ev == Head(todo)
<1>1. /\ Handles("text") /\ mem' = mem /\ curr_pc' = PCThen(ev)
      /\ seen_exception' = ExceptionThen(ev) /\ bypctree' = ByPCThen(ev)
  BY DEF GotText
<1>2. ev.kind = "text"
  BY <1>1 DEF Handles
<1>3. MemStep(ev, mem, mem')
  BY <1>1, <1>2 DEF MemStep
<1>4. OpenMoves(ev)
  BY <1>1, <1>2, <1>3 DEF OpenMoves
<1> QED  BY <1>1, <1>4, HandlesTrace

-----------------------------------------------------------------------------
(***************************************************************************)
(* The reader.                                                             *)
(***************************************************************************)
(* A line begun or ended makes the open record longer, and no more. *)
LEMMA ReaderKeeps ==
  ASSUME IInv, NumberingOK, ClosedOK, OpenOK, StateOK, ByPCOK,
         NumberingOK', Log' = Log, Reading, Reading', phase' # "failed",
         Len(trace) \in Nat, Len(trace') \in Nat, Len(trace) <= Len(trace'),
         lineno \in Int, lineno' \in Int,
         UNCHANGED <<recordVars, sharedVars, curr_pc>>
  PROVE  ClosedOK' /\ OpenOK' /\ StateOK' /\ ByPCOK'
<1>1. /\ UNCHANGED <<lineno_offset, prev_lineno, current_time, seen_any_event,
                     seen_instruction, seqtree, last_mem>>
      /\ UNCHANGED <<seen_exception, bypctree, mem, curr_pc>>
  BY DEF recordVars, sharedVars
<1>2. ClosedOK' /\ StateOK'
  BY <1>1 DEF ClosedOK, StateOK
<1>3. OpenIs /\ OpenIs'
  BY OpenFields, PTL
<1>4. Alike(Open, Open')
  BY <1>1, <1>3 DEF Alike, OpenIs
<1>5. ByPCOK'
  <2>1. ExceptionAt(Open)' = ExceptionAt(Open)
    BY <1>4 DEF Alike, ExceptionAt
  <2>2. phase # "failed"
    BY DEF Reading
  <2> QED  BY <1>1, <2>1, <2>2 DEF ByPCOK, HasOpen
<1>6. ASSUME seen_any_event
      PROVE  /\ RecordRight(Log, Open', lineno_offset)
             /\ seqtree # <<>> =>
                  SplitRight(Log, seqtree[Len(seqtree)], Open', lineno_offset)
             /\ \A kind :
                  Within(Log, prev_lineno + lineno_offset, Len(trace) + 1, kind) =
                  Within(Log, prev_lineno + lineno_offset, Len(trace') + 1, kind)
  <2>1. \A p \in DOMAIN Log : p[1] < Len(trace) + 1 /\ p[1] < Len(trace') + 1
    BY LogWithin DEF IInv
  <2>2. /\ lineno_offset \in Int /\ prev_lineno \in Int
        /\ lineno + lineno_offset = Len(trace)
        /\ lineno' + lineno_offset = Len(trace')
    BY <1>1, <1>6 DEF IInv, TypeOK, RecordTypes, NumberingOK
  <2>3. HasOpen
    BY <1>6 DEF HasOpen
  <2>4. /\ Open.line \in Int /\ Open.lines \in Int /\ Open'.lines \in Int
        /\ Open.line + lineno_offset + Open.lines = Len(trace) + 1
        /\ Open.line + lineno_offset + Open'.lines = Len(trace') + 1
    <3>1. Open'.lines = (lineno' + 1) - prev_lineno
      BY <1>1, <1>3 DEF OpenIs
    <3>2. \A l, p, f, n \in Int :
            l + f = n => /\ p + f + ((l + 1) - p) = n + 1
                         /\ (l + 1) - p \in Int
      OBVIOUS
    <3>3. Len(trace) \in Int /\ Len(trace') \in Int
      OBVIOUS
    <3>4. Open.line = prev_lineno /\ Open.lines = (lineno + 1) - prev_lineno
      BY <1>3 DEF OpenIs
    <3>5. /\ prev_lineno + lineno_offset + ((lineno + 1) - prev_lineno)
               = Len(trace) + 1
          /\ (lineno + 1) - prev_lineno \in Int
      BY <2>2, <3>2, <3>3, Zenon
    <3>6. /\ prev_lineno + lineno_offset + ((lineno' + 1) - prev_lineno)
               = Len(trace') + 1
          /\ (lineno' + 1) - prev_lineno \in Int
      BY <2>2, <3>2, <3>3, Zenon
    <3> QED  BY <2>2, <3>1, <3>4, <3>5, <3>6, Zenon
  <2>5. RecordRight(Log, Open', lineno_offset)
    <3>1. RecordRight(Log, Open, lineno_offset)
      BY <2>3 DEF OpenOK
    <3> QED  BY <1>4, <2>1, <2>2, <2>4, <3>1, RecordAlike
  <2>6. seqtree # <<>> =>
          SplitRight(Log, seqtree[Len(seqtree)], Open', lineno_offset)
    BY <1>4, <2>3 DEF OpenOK, SplitRight, Alike
  <2> QED  BY <2>1, <2>5, <2>6, WithinAll
<1>7. OpenOK'
  <2> SUFFICES ASSUME HasOpen' PROVE OpenOK'
    BY DEF OpenOK
  <2>1. HasOpen /\ seen_any_event
    BY <1>1 DEF HasOpen
  <2>2. /\ seen_instruction <=>
             Within(Log, prev_lineno + lineno_offset, Len(trace') + 1, "insn") # {}
        /\ seen_exception <=>
             Within(Log, prev_lineno + lineno_offset, Len(trace') + 1, "exception")
               # {}
    BY <1>6, <2>1 DEF OpenOK
  <2> QED  BY <1>1, <1>6, <2>1, <2>2 DEF OpenOK
<1> QED  BY <1>2, <1>5, <1>7

LEMMA ReadLineTrace ==
  ASSUME IInv, IInv', TraceOK, ReadLine
  PROVE  TraceOK'
<1>1. /\ phase = "read" /\ phase' = "line" /\ Reading /\ Reading' /\ CountLine
      /\ Len(trace) < Len(Traces[family].lines)
      /\ linepos' = linepos /\ UNCHANGED <<recordVars, sharedVars, curr_pc>>
  BY DEF ReadLine, Reading, insnVars
<1>2. PICK line \in Traces[family].lines[Len(trace) + 1] :
        trace' = Append(trace, line) /\ todo' = line.events
  BY DEF ReadLine
<1>3. /\ TypeOK /\ TypeOK' /\ RecordTypes /\ trace \in Seq(Line) /\ PositionOK
      /\ TodoOK /\ NumberingOK /\ BytesOK /\ ClosedOK /\ OpenOK /\ StateOK
      /\ ByPCOK /\ SeqOK
  BY <1>1 DEF IInv, RecordsOK, TypeOK, ReadTypes, TraceOK
<1>4. line \in Line /\ todo = <<>>
  BY <1>1, <1>3, TraceLine DEF TodoOK
<1>5. Log' = Log
  BY <1>2, <1>3, <1>4, LogReads
<1>6. /\ Len(trace') = Len(trace) + 1 /\ Len(trace) \in Nat /\ trace' # <<>>
      /\ trace'[Len(trace) + 1] = line
  BY <1>2, <1>3, <1>4, AppendFacts
<1>7. TodoOK'
  <2>1. line.events \in Seq(Event)
    BY <1>4, LineFacts
  <2>2. Len(todo') \in Nat /\ trace'[Len(trace')].events = todo'
    BY <1>2, <1>6, <2>1
  <2> QED  BY <1>1, <1>2, <1>6, <2>1, <2>2 DEF TodoOK
<1>8. NumberingOK'
  <2>1. /\ true_lineno' = true_lineno + 1 /\ true_lineno = Len(trace)
        /\ seen_any_event => lineno' = lineno + 1
        /\ seen_any_event => lineno + lineno_offset = Len(trace)
    BY <1>1, <1>3 DEF CountLine, NumberingOK
  <2>2. UNCHANGED <<seen_any_event, lineno_offset, seqtree>>
    BY <1>1 DEF recordVars
  <2>3. lineno \in Int /\ lineno_offset \in Int
    BY <1>3 DEF TypeOK, ReadTypes, RecordTypes
  <2>4. seen_any_event => lineno' + lineno_offset = Len(trace')
    BY <1>6, <2>1, <2>3
  <2> QED  BY <1>1, <1>3, <1>5, <1>6, <2>1, <2>2, <2>4 DEF NumberingOK
<1>9. ASSUME NEW n \in 0 .. Len(trace) PROVE SizeOf(trace', n) = SizeOf(trace, n)
  BY <1>2, <1>3, <1>4, SizeStays
<1>10. BytesOK'
  <2>1. linepos' = SizeOf(trace', Len(trace') - 1)
    <3>1. Len(trace) \in 0 .. Len(trace) /\ Len(trace') - 1 = Len(trace)
      BY <1>6
    <3>2. linepos = SizeOf(trace, Len(trace))
      BY <1>1, <1>3 DEF BytesOK
    <3> QED  BY <1>1, <1>9, <3>1, <3>2
  <2>2. UNCHANGED <<seen_any_event, lineno_offset, seqtree, oldpos, prev_lineno>>
    BY <1>1 DEF recordVars
  <2>3. ASSUME seen_any_event, NEW l \in Nat \ {0}, l <= prev_lineno
        PROVE  SizeOf(trace', l + lineno_offset - 1) = SizeOf(trace, l + lineno_offset - 1)
    <3>1. /\ lineno + lineno_offset = Len(trace) /\ prev_lineno <= lineno
          /\ lineno_offset \in Nat /\ lineno \in Nat /\ prev_lineno \in Nat
      BY <1>1, <1>3, <2>3 DEF NumberingOK, PositionOK, TypeOK, ReadTypes, RecordTypes
    <3>2. \A a, p, b, f, n \in Nat : a # 0 /\ a <= p /\ p <= b /\ b + f = n
                                      => a + f - 1 \in 0 .. n
      OBVIOUS
    <3>3. l + lineno_offset - 1 \in 0 .. Len(trace)
      BY <1>6, <2>3, <3>1, <3>2
    <3> QED  BY <1>9, <3>3
  <2>4. seen_any_event => oldpos = SizeOf(trace', prev_lineno + lineno_offset - 1)
    <3>1. prev_lineno \in Nat \ {0} /\ prev_lineno <= prev_lineno
      BY <1>3 DEF RecordTypes
    <3> QED  BY <1>1, <1>3, <2>3, <3>1 DEF BytesOK, HasOpen
  <2>5. ASSUME seen_any_event, NEW k \in DOMAIN seqtree
        PROVE  seqtree[k].pos = SizeOf(trace', seqtree[k].line + lineno_offset - 1)
    <3>1. seqtree[k].line \in Nat \ {0}
      <4>1. seqtree[k] \in Record
        BY <1>3 DEF RecordTypes
      <4> QED  BY <4>1 DEF Record
    <3>2. seqtree[k].line < prev_lineno /\ prev_lineno \in Nat
      BY <1>1, <1>3 DEF SeqOK, RecordTypes
    <3>3. seqtree[k].line <= prev_lineno
      BY <3>1, <3>2
    <3> QED  BY <1>3, <2>3, <2>5, <3>1, <3>3 DEF BytesOK
  <2> QED  BY <1>1, <2>1, <2>2, <2>4, <2>5 DEF BytesOK, HasOpen
<1>11. ClosedOK' /\ OpenOK' /\ StateOK' /\ ByPCOK'
  <2>1. lineno \in Int /\ lineno' \in Int
    BY <1>3 DEF TypeOK, ReadTypes
  <2> QED  BY <1>1, <1>3, <1>5, <1>6, <1>8, <2>1, ReaderKeeps
<1> QED  BY <1>1, <1>7, <1>8, <1>10, <1>11 DEF TraceOK, Complete

LEMMA EndLineTrace ==
  ASSUME IInv, IInv', TraceOK, EndLine
  PROVE  TraceOK'
<1>1. /\ phase = "line" /\ phase' = "read" /\ Reading /\ Reading' /\ todo = <<>>
      /\ linepos' = linepos + trace[Len(trace)].bytes
      /\ UNCHANGED <<trace, todo, lineno, true_lineno>>
      /\ UNCHANGED <<recordVars, sharedVars, curr_pc>>
  BY DEF EndLine, Reading, insnVars
<1>2. /\ TypeOK /\ trace \in Seq(Line) /\ TodoOK /\ NumberingOK /\ BytesOK
      /\ ClosedOK /\ OpenOK /\ StateOK /\ ByPCOK
  BY <1>1 DEF IInv, TypeOK, ReadTypes, TraceOK
<1>3. Log' = Log
  BY <1>1, LogStill
<1>4. UNCHANGED <<seen_any_event, lineno_offset, seqtree, oldpos, prev_lineno>>
  BY <1>1 DEF recordVars
<1>5. TodoOK' /\ NumberingOK'
  BY <1>1, <1>2, <1>3, <1>4 DEF TodoOK, NumberingOK
<1>6. BytesOK'
  <2>1. linepos' = SizeOf(trace, Len(trace))
    <3>1. linepos = SizeOf(trace, Len(trace) - 1)
      BY <1>1, <1>2 DEF BytesOK
    <3>2. Len(trace) \in 1 .. Len(trace)
      BY <1>1, <1>2 DEF TodoOK
    <3> QED  BY <1>1, <1>2, <3>1, <3>2, SizeFacts
  <2> QED  BY <1>1, <1>2, <1>4, <2>1 DEF BytesOK, HasOpen
<1>7. ClosedOK' /\ OpenOK' /\ StateOK' /\ ByPCOK'
  <2>1. lineno \in Int /\ lineno' \in Int /\ Len(trace) \in Nat /\ trace' = trace
    BY <1>1, <1>2 DEF TypeOK, ReadTypes
  <2> QED  BY <1>1, <1>2, <1>3, <1>5, <2>1, ReaderKeeps
<1> QED  BY <1>1, <1>5, <1>6, <1>7 DEF TraceOK, Complete

LEMMA ParseErrorTrace ==
  ASSUME TraceOK, ParseError
  PROVE  TraceOK'
<1>1. /\ phase' = "failed" /\ phase = "read" /\ UNCHANGED <<trace, todo, recordVars>>
  BY DEF ParseError
<1>2. Log' = Log
  BY <1>1, LogStill
<1>3. TodoOK' /\ NumberingOK'
  BY <1>1, <1>2 DEF TraceOK, TodoOK, NumberingOK, Reading, recordVars
<1> QED  BY <1>1, <1>3 DEF TraceOK, Complete

(* The end of the file writes the open record. *)
LEMMA FinishTrace ==
  ASSUME IInv, IInv', TraceOK, NEW pos \in Nat, Finish(pos),
         seen_any_event => pos > oldpos,
         pos = linepos - (IF eof THEN 1 ELSE 0)
  PROVE  TraceOK'
<1> DEFINE r == OpenRecord(pos, lineno')
           off == lineno_offset'
<1>1. /\ phase = "read" /\ phase' = "tree" /\ CountLine /\ linepos' = pos
      /\ seqtree' = EmitRecord(pos, lineno') /\ bypctree' = EmitPC(pos)
      /\ UNCHANGED <<trace, todo, eof, prev_lineno, current_time, seen_any_event,
                     seen_exception, mem, curr_pc>>
      /\ seen_any_event => lineno_offset' = lineno_offset
      /\ Reading /\ ~Reading'
  BY DEF Finish, Reading, insnVars
<1>2. /\ TypeOK /\ TypeOK' /\ RecordTypes /\ EventTypes /\ trace \in Seq(Line)
      /\ TodoOK /\ NumberingOK /\ BytesOK /\ ClosedOK /\ OpenOK /\ ByPCOK
      /\ seqtree \in Seq(Record) /\ Len(seqtree) \in Nat /\ oldpos \in Nat
  BY <1>1 DEF IInv, RecordsOK, TypeOK, ReadTypes, RecordTypes, TraceOK
<1>3. Log' = Log
  BY <1>1, LogStill
<1>4. /\ off \in Int /\ lineno \in Int /\ lineno' \in Nat /\ prev_lineno \in Int
      /\ Len(trace) \in Nat /\ seen_any_event \in BOOLEAN
      /\ seen_any_event => lineno' = lineno + 1
      /\ seen_any_event => lineno + off = Len(trace)
  <2>1. /\ off \in Int /\ lineno \in Int /\ prev_lineno \in Int
        /\ Len(trace) \in Nat /\ seen_any_event \in BOOLEAN
    BY <1>2 DEF TypeOK, ReadTypes, RecordTypes
  <2>2. lineno' \in Nat /\ (seen_any_event => lineno' = lineno + 1)
    BY <1>1, <1>2, CountLineFacts
  <2>3. seen_any_event => lineno + off = Len(trace)
    BY <1>1, <1>2, Zenon DEF NumberingOK
  <2> QED  BY <2>1, <2>2, <2>3
<1>5. TodoOK'
  BY <1>1, <1>2 DEF TodoOK
<1>6. ~seen_any_event => /\ seqtree' = <<>> /\ seqtree = <<>> /\ DOMAIN Log = {}
                         /\ bypctree' = bypctree
  BY <1>1, <1>2 DEF EmitRecord, EmitPC, HasRecord, NumberingOK
<1>7. seen_any_event =>
        /\ seqtree' = Append(seqtree, r) /\ r \in Record /\ Alike(Open, r)
        /\ r.pos = oldpos /\ r.line = prev_lineno
        /\ r.lines = (lineno + 1) - prev_lineno
        /\ bypctree' = bypctree \cup VisitOf(r)
  <2> SUFFICES ASSUME seen_any_event
               PROVE  /\ seqtree' = Append(seqtree, r) /\ r \in Record
                      /\ Alike(Open, r)
                      /\ r.pos = oldpos /\ r.line = prev_lineno
                      /\ r.lines = (lineno + 1) - prev_lineno
                      /\ bypctree' = bypctree \cup VisitOf(r)
    OBVIOUS
  <2>1. HasRecord(pos)
    BY <1>2 DEF HasRecord
  <2>2. /\ r \in Record /\ r.pos = oldpos /\ r.line = prev_lineno
        /\ r.lines = lineno' - prev_lineno
    BY <1>2, <1>4, OpenRecordFacts
  <2>3. Alike(Open, r) /\ r.pc = curr_pc
    BY DEF Alike, Open, OpenRecord
  <2>4. VisitOf(r) = IF curr_pc # KNOWN_INVALID_PC
                     THEN {[pc |-> 2 * (curr_pc \div 2), line |-> prev_lineno]}
                     ELSE {}
    <3> HIDE DEF r
    <3> QED  BY <2>2, <2>3 DEF VisitOf, Visit
  <2>5. bypctree' = bypctree \cup VisitOf(r)
    <3> HIDE DEF r
    <3> QED  BY <1>1, <2>1, <2>4 DEF EmitPC
  <2>6. seqtree' = Append(seqtree, r)
    BY <1>1, <2>1 DEF EmitRecord
  <2> QED  BY <1>4, <2>2, <2>3, <2>5, <2>6
<1> HIDE DEF r, off
<1>8. seen_any_event =>
        /\ DOMAIN seqtree' = 1 .. (Len(seqtree) + 1)
        /\ DOMAIN seqtree = 1 .. Len(seqtree)
        /\ Len(seqtree') = Len(seqtree) + 1
        /\ seqtree'[Len(seqtree) + 1] = r
        /\ \A i \in DOMAIN seqtree : seqtree'[i] = seqtree[i]
  BY <1>2, <1>7, AppendFacts
<1>9. NumberingOK'
  <2>1. seen_any_event => lineno' + off = Len(trace) + 1
    <3>1. \A l, f, n \in Int : l + f = n => (l + 1) + f = n + 1
      OBVIOUS
    <3>2. Len(trace) \in Int
      BY <1>4
    <3> SUFFICES ASSUME seen_any_event PROVE lineno' + off = Len(trace) + 1
      OBVIOUS
    <3>3. (lineno + 1) + off = Len(trace) + 1
      BY <1>4, <3>1, <3>2, Zenon
    <3> QED  BY <1>4, <3>3, Zenon
  <2> QED  BY <1>1, <1>2, <1>3, <1>6, <2>1 DEF NumberingOK, off
<1>10. ASSUME seen_any_event
       PROVE  /\ off = lineno_offset
              /\ RecordRight(Log, r, off)
              /\ seqtree # <<>> => SplitRight(Log, seqtree[Len(seqtree)], r, off)
              /\ ExceptionOf(Log, r, off)
                   = IF seen_exception THEN {ExceptionAt(Open)} ELSE {}
              /\ r.pos = SizeOf(trace, r.line + off - 1)
  <2>1. HasOpen /\ off = lineno_offset
    BY <1>1, <1>10 DEF HasOpen, off
  <2>2. OpenIs
    BY OpenFields
  <2>3. /\ Open.line \in Int /\ Open.lines \in Int /\ r.lines \in Int
        /\ r.lines = Open.lines /\ Open.line = r.line
    BY <1>4, <1>7, <1>10, <2>2 DEF OpenIs
  <2>4. RecordRight(Log, r, off)
    <3>1. RecordRight(Log, Open, off)
      BY <1>2, <2>1 DEF OpenOK
    <3> QED  BY <1>4, <1>7, <1>10, <2>3, <3>1, RecordAlike
  <2>5. seqtree # <<>> => SplitRight(Log, seqtree[Len(seqtree)], r, off)
    <3>1. seqtree # <<>> => SplitRight(Log, seqtree[Len(seqtree)], Open, off)
      BY <1>2, <2>1 DEF OpenOK
    <3> QED  BY <1>7, <1>10, <3>1 DEF SplitRight, Alike
  <2>6. r.line + off + r.lines = Len(trace) + 1
    <3> DEFINE n == Len(trace)
    <3>1. lineno \in Int /\ off \in Int /\ prev_lineno \in Int /\ n \in Int
      BY <1>4
    <3>2. lineno + off = n
      BY <1>4, <1>10
    <3> HIDE DEF n
    <3>3. prev_lineno + off + ((lineno + 1) - prev_lineno) = n + 1
      BY <3>1, <3>2
    <3>4. r.line = prev_lineno /\ r.lines = (lineno + 1) - prev_lineno
      BY <1>7, <1>10, Zenon
    <3> QED  BY <3>3, <3>4, Zenon DEF n
  <2>7. Within(Log, r.line + off, r.line + off + r.lines, "exception") # {}
          <=> seen_exception
    <3>1. r.line + off = prev_lineno + lineno_offset
      BY <1>7, <1>10, <2>1, Zenon
    <3>2. seen_exception <=>
            Within(Log, prev_lineno + lineno_offset, Len(trace) + 1, "exception") # {}
      BY <1>2, <2>1 DEF OpenOK
    <3> QED  BY <2>6, <3>1, <3>2, Zenon
  <2>8. ExceptionAt(r) = ExceptionAt(Open)
    BY <2>3 DEF ExceptionAt
  <2>9. r.pos = SizeOf(trace, r.line + off - 1)
    <3>1. oldpos = SizeOf(trace, prev_lineno + off - 1)
      BY <1>2, <2>1 DEF BytesOK
    <3> QED  BY <1>7, <1>10, <3>1, Zenon
  <2> QED  BY <2>1, <2>4, <2>5, <2>7, <2>8, <2>9 DEF ExceptionOf
<1>11. BytesOK'
  <2>1. linepos' = SizeOf(trace, Len(trace)) - (IF eof THEN 1 ELSE 0)
    <3>1. linepos = SizeOf(trace, Len(trace))
      BY <1>1, <1>2 DEF BytesOK
    <3> QED  BY <1>1, <3>1
  <2>2. ASSUME seen_any_event, NEW k \in DOMAIN seqtree'
        PROVE  seqtree'[k].pos = SizeOf(trace, seqtree'[k].line + off - 1)
    <3>1. k = Len(seqtree) + 1 \/ k \in DOMAIN seqtree
      BY <1>2, <1>8, <2>2
    <3>2. \A i \in DOMAIN seqtree :
            seqtree[i].pos = SizeOf(trace, seqtree[i].line + off - 1)
      BY <1>2, <1>10, <2>2 DEF BytesOK
    <3> QED  BY <1>8, <1>10, <2>2, <3>1, <3>2
  <2> QED  BY <1>1, <2>1, <2>2 DEF BytesOK, HasOpen, off
<1>12. ClosedOK'
  <2>1. CASE seen_any_event
    <3>1. off = lineno_offset
      BY <1>10, <2>1
    <3>2. ASSUME NEW k \in DOMAIN seqtree' PROVE RecordRight(Log, seqtree'[k], off)
      <4>1. k = Len(seqtree) + 1 \/ k \in DOMAIN seqtree
        BY <1>2, <1>8, <2>1
      <4> QED  BY <1>2, <1>8, <1>10, <2>1, <3>1, <4>1 DEF ClosedOK
    <3>3. ASSUME NEW k \in 2 .. Len(seqtree')
          PROVE  SplitRight(Log, seqtree'[k - 1], seqtree'[k], off)
      <4>1. CASE k = Len(seqtree) + 1
        <5>1. seqtree # <<>> /\ k - 1 = Len(seqtree) /\ k - 1 \in DOMAIN seqtree
          BY <1>2, <1>8, <2>1, <4>1
        <5> QED  BY <1>8, <1>10, <2>1, <4>1, <5>1
      <4>2. CASE k # Len(seqtree) + 1
        <5>1. k \in 2 .. Len(seqtree) /\ k - 1 \in DOMAIN seqtree
              /\ k \in DOMAIN seqtree
          BY <1>2, <1>8, <2>1, <4>2
        <5> QED  BY <1>2, <1>8, <2>1, <3>1, <5>1 DEF ClosedOK
      <4> QED  BY <4>1, <4>2
    <3> QED  BY <1>3, <3>2, <3>3 DEF ClosedOK, off
  <2>2. CASE ~seen_any_event
    BY <1>6, <2>2 DEF ClosedOK
  <2> QED  BY <1>4, <2>1, <2>2
<1>13. ByPCOK'
  <2>0. bypctree = Visits(seqtree) \cup Exceptions(Log, seqtree, lineno_offset)
          \cup (IF seen_any_event /\ seen_exception THEN {ExceptionAt(Open)} ELSE {})
    BY <1>1, <1>2 DEF ByPCOK, HasOpen
  <2> SUFFICES bypctree' = Visits(seqtree') \cup Exceptions(Log, seqtree', off)
    BY <1>1, <1>3 DEF ByPCOK, HasOpen, off
  <2>1. CASE seen_any_event
    <3>1. /\ Visits(seqtree') = Visits(seqtree) \cup VisitOf(r)
          /\ Exceptions(Log, seqtree', off)
               = Exceptions(Log, seqtree, off) \cup ExceptionOf(Log, r, off)
      <4>1. r \in Record /\ seqtree' = Append(seqtree, r)
        BY <1>7, <2>1
      <4>2. Visits(seqtree') = Visits(seqtree) \cup VisitOf(r)
        BY <1>2, <4>1, VisitsAppend
      <4>3. Exceptions(Log, seqtree', off)
              = Exceptions(Log, seqtree, off) \cup ExceptionOf(Log, r, off)
        BY <1>2, <4>1, ExceptionsAppend
      <4> QED  BY <4>2, <4>3
    <3>2. off = lineno_offset
      BY <1>10, <2>1
    <3> QED  BY <1>7, <1>10, <2>0, <2>1, <3>1, <3>2
  <2>2. CASE ~seen_any_event
    <3>1. /\ Visits(seqtree') = Visits(seqtree)
          /\ Exceptions(Log, seqtree', off) = Exceptions(Log, seqtree, lineno_offset)
      BY <1>6, <2>2 DEF Exceptions
    <3> QED  BY <1>6, <2>0, <2>2, <3>1
  <2> QED  BY <1>4, <2>1, <2>2
<1>14. OpenOK' /\ StateOK'
  BY <1>1 DEF OpenOK, StateOK, HasOpen
<1> QED  BY <1>1, <1>5, <1>9, <1>11, <1>12, <1>13, <1>14 DEF TraceOK, Complete

LEMMA ReadEofTrace ==
  ASSUME IInv, IInv', TraceOK, ReadEof
  PROVE  TraceOK'
<1>1. /\ eof /\ phase = "read" /\ PositionOK /\ linepos \in Nat /\ oldpos \in Nat
      /\ Finish(linepos - 1)
  BY DEF ReadEof, Finish, IInv, RecordsOK, TypeOK, ReadTypes, RecordTypes
<1>2. linepos >= oldpos + 2
  BY <1>1 DEF PositionOK, Reading
<1>3. linepos - 1 \in Nat /\ linepos - 1 > oldpos
  BY <1>1, <1>2
<1> QED  BY <1>1, <1>3, FinishTrace

LEMMA ReadEndTrace ==
  ASSUME IInv, IInv', TraceOK, ReadEnd
  PROVE  TraceOK'
<1>1. /\ phase = "read" /\ PositionOK /\ linepos \in Nat /\ Finish(linepos) /\ ~eof
  BY DEF ReadEnd, Finish, IInv, RecordsOK, TypeOK, ReadTypes
<1>2. seen_any_event => linepos > oldpos
  BY <1>1 DEF PositionOK, Reading
<1>3. linepos = linepos - (IF eof THEN 1 ELSE 0)
  BY <1>1
<1> QED  BY <1>1, <1>2, <1>3, FinishTrace

-----------------------------------------------------------------------------
(***************************************************************************)
(* The other steps.                                                        *)
(***************************************************************************)
LEMMA InitTrace == Init => TraceOK
<1> SUFFICES ASSUME Init PROVE TraceOK
  OBVIOUS
<1>1. /\ trace = <<>> /\ phase = "read" /\ todo = <<>> /\ seqtree = <<>>
      /\ seen_any_event = FALSE /\ true_lineno = 0 /\ linepos = 0
      /\ bypctree = {} /\ mem = NoMemory /\ last_mem = mem
      /\ seen_exception = FALSE /\ curr_pc = KNOWN_INVALID_PC
  BY DEF Init, NoMemory
<1>2. DOMAIN Log = {}
  <2>1. LogFacts
    BY LogDomain
  <2> QED  BY <1>1, <2>1 DEF LogFacts
<1>3. TodoOK /\ NumberingOK
  BY <1>1, <1>2 DEF TodoOK, NumberingOK
<1>4. BytesOK
  <2>1. SizeOf(trace, Len(trace)) = 0
    <3>1. <<>> \in Seq(Line) /\ Len(<<>>) = 0
      OBVIOUS
    <3> QED  BY <1>1, <3>1, SizeFacts
  <2> QED  BY <1>1, <2>1 DEF BytesOK, HasOpen
<1>5. ClosedOK /\ OpenOK /\ StateOK
  BY <1>1 DEF ClosedOK, OpenOK, HasOpen, StateOK
<1>6. ByPCOK
  <2>1. Visits(<<>>) = {} /\ Exceptions(Log, <<>>, lineno_offset) = {}
    BY DEF Visits, Exceptions
  <2> QED  BY <1>1, <2>1 DEF ByPCOK, HasOpen
<1> QED  BY <1>1, <1>3, <1>4, <1>5, <1>6 DEF TraceOK, Complete

(* A call depth changes nothing the trace has a say in. *)
LEMMA VisitTrace ==
  ASSUME IInv, TraceOK, VisitRecord
  PROVE  TraceOK'
<1>1. /\ phase = "tree" /\ phase' = "tree"
      /\ seqtree' = [seqtree EXCEPT ![visited'].depth = curr_depth']
      /\ UNCHANGED <<trace, todo, eof, lineno, true_lineno, linepos, lineno_offset,
                     seen_any_event, bypctree>>
  BY DEF VisitRecord, readVars, sharedVars
<1>2. /\ TodoOK /\ NumberingOK /\ BytesOK /\ ClosedOK /\ ByPCOK
      /\ seqtree \in Seq(Record) /\ TypeOK /\ lineno_offset \in Int
  BY <1>1 DEF TraceOK, IInv, TypeOK, RecordTypes
<1>3. Log' = Log
  BY <1>1, LogStill
<1>4. /\ DOMAIN seqtree' = DOMAIN seqtree /\ Len(seqtree') = Len(seqtree)
      /\ (seqtree' = <<>>) = (seqtree = <<>>)
  BY <1>1, <1>2
<1>5. ASSUME NEW k \in DOMAIN seqtree
      PROVE  /\ seqtree'[k].line = seqtree[k].line /\ seqtree'[k].time = seqtree[k].time
             /\ seqtree'[k].lines = seqtree[k].lines /\ seqtree'[k].pc = seqtree[k].pc
             /\ seqtree'[k].mem = seqtree[k].mem /\ seqtree'[k].pos = seqtree[k].pos
             /\ seqtree[k].line \in Int /\ seqtree[k].lines \in Int
  <2>1. seqtree[k] \in Record
    BY <1>2
  <2>2. seqtree'[k] = IF k = visited' THEN [seqtree[k] EXCEPT !.depth = curr_depth']
                      ELSE seqtree[k]
    BY <1>1
  <2> QED  BY <2>1, <2>2 DEF Record
<1>6. TodoOK' /\ NumberingOK'
  BY <1>1, <1>2, <1>3, <1>4 DEF TodoOK, NumberingOK, Reading
<1>7. BytesOK'
  BY <1>1, <1>2, <1>4, <1>5 DEF BytesOK, HasOpen, Reading
<1>8. ClosedOK'
  <2>1. ASSUME NEW k \in DOMAIN seqtree
        PROVE  RecordRight(Log, seqtree'[k], lineno_offset)
    <3>1. Alike(seqtree[k], seqtree'[k]) /\ seqtree[k].lines = seqtree'[k].lines
          /\ seqtree[k].line \in Int /\ seqtree[k].lines \in Int
      BY <1>5 DEF Alike
    <3>2. RecordRight(Log, seqtree[k], lineno_offset)
      BY <1>2 DEF ClosedOK
    <3> QED  BY <1>2, <3>1, <3>2, RecordAlike
  <2>2. ASSUME NEW k \in 2 .. Len(seqtree)
        PROVE  SplitRight(Log, seqtree'[k - 1], seqtree'[k], lineno_offset)
    <3>1. k \in DOMAIN seqtree /\ k - 1 \in DOMAIN seqtree
      BY <1>2
    <3>2. SplitRight(Log, seqtree[k - 1], seqtree[k], lineno_offset)
      BY <1>2 DEF ClosedOK
    <3> QED  BY <1>5, <3>1, <3>2 DEF SplitRight
  <2> QED  BY <1>1, <1>3, <1>4, <2>1, <2>2 DEF ClosedOK
<1>9. ByPCOK'
  <2>1. \A k \in DOMAIN seqtree : Visit(seqtree'[k]) = Visit(seqtree[k])
                                  /\ ExceptionAt(seqtree'[k]) = ExceptionAt(seqtree[k])
    BY <1>5 DEF Visit, ExceptionAt
  <2>2. Visits(seqtree') = Visits(seqtree)
    BY <1>4, <1>5, <2>1 DEF Visits
  <2>3. Exceptions(Log, seqtree', lineno_offset)
          = Exceptions(Log, seqtree, lineno_offset)
    <3> DEFINE In(q) == Within(Log, q.line + lineno_offset,
                               q.line + lineno_offset + q.lines, "exception") # {}
    <3>1. \A k \in DOMAIN seqtree : In(seqtree'[k]) <=> In(seqtree[k])
      BY <1>5
    <3> DEFINE E(s) == {ExceptionAt(r) :
                          r \in {q \in {s[k] : k \in DOMAIN s} : In(q)}}
    <3>2. /\ Exceptions(Log, seqtree, lineno_offset) = E(seqtree)
          /\ Exceptions(Log, seqtree', lineno_offset) = E(seqtree')
      BY DEF Exceptions
    <3> HIDE DEF In
    <3>3. E(seqtree') = E(seqtree)
      BY <1>4, <2>1, <3>1
    <3> HIDE DEF E
    <3> QED  BY <3>2, <3>3
  <2> QED  BY <1>1, <1>2, <1>3, <2>2, <2>3 DEF ByPCOK, HasOpen, Reading
<1>10. OpenOK' /\ StateOK'
  BY <1>1 DEF OpenOK, StateOK, HasOpen, Reading
<1> QED  BY <1>1, <1>6, <1>7, <1>8, <1>9, <1>10 DEF TraceOK, Complete

LEMMA FinaliseTrace ==
  ASSUME TraceOK, FinaliseIndex
  PROVE  TraceOK'
<1>1. /\ phase = "tree" /\ phase' \in {"complete", "failed"}
      /\ phase' = "complete" => seqtree # <<>>
      /\ UNCHANGED <<trace, todo, eof, lineno, linepos, lineno_offset,
                     seen_any_event, seqtree, bypctree>>
  BY DEF FinaliseIndex, recordVars, sharedVars
<1>2. Log' = Log
  BY <1>1, LogStill
<1>3. TodoOK' /\ NumberingOK'
  BY <1>1, <1>2 DEF TraceOK, TodoOK, NumberingOK, Reading
<1>4. BytesOK' /\ ClosedOK'
  BY <1>1, <1>2 DEF TraceOK, BytesOK, ClosedOK, HasOpen, Reading
<1>5. OpenOK' /\ StateOK'
  BY <1>1 DEF OpenOK, StateOK, HasOpen, Reading
<1>6. ByPCOK'
  BY <1>1, <1>2 DEF TraceOK, ByPCOK, HasOpen, Reading
<1> QED  BY <1>1, <1>3, <1>4, <1>5, <1>6 DEF TraceOK, Complete

LEMMA StutterTrace ==
  ASSUME TraceOK, UNCHANGED vars
  PROVE  TraceOK'
<1>1. /\ UNCHANGED <<trace, phase, todo, eof, lineno, true_lineno, linepos>>
      /\ UNCHANGED <<lineno_offset, prev_lineno, oldpos, current_time,
                     seen_any_event, seen_instruction, seqtree, last_mem>>
      /\ UNCHANGED <<seen_exception, bypctree, mem, curr_pc>>
  BY DEF vars, readVars, recordVars, sharedVars, insnVars
<1>2. Log' = Log /\ Open' = Open /\ HasOpen' = HasOpen /\ Reading' = Reading
  BY <1>1, LogStill DEF Open, OpenRecord, HasOpen, Reading
<1>3. TodoOK' = TodoOK /\ NumberingOK' = NumberingOK
  BY <1>1, <1>2 DEF TodoOK, NumberingOK
<1>4. BytesOK' = BytesOK /\ ClosedOK' = ClosedOK /\ StateOK' = StateOK
  BY <1>1, <1>2 DEF BytesOK, ClosedOK, StateOK
<1>5. OpenOK' = OpenOK
  BY <1>1, <1>2 DEF OpenOK
<1>6. ByPCOK' = ByPCOK
  <2>1. ExceptionAt(Open)' = ExceptionAt(Open)
    BY <1>2 DEF ExceptionAt
  <2> QED  BY <1>1, <1>2, <2>1 DEF ByPCOK
<1> QED  BY <1>1, <1>3, <1>4, <1>5, <1>6 DEF TraceOK, Complete

LEMMA NextTrace == IInv /\ IInv' /\ TraceOK /\ [Next]_vars => TraceOK'
<1> SUFFICES ASSUME IInv, IInv', TraceOK, [Next]_vars PROVE TraceOK'
  OBVIOUS
<1>1. CASE ReadLine        BY <1>1, ReadLineTrace
<1>2. CASE EndLine         BY <1>2, EndLineTrace
<1>3. CASE ReadEof         BY <1>3, ReadEofTrace
<1>4. CASE ReadEnd         BY <1>4, ReadEndTrace
<1>5. CASE ParseError      BY <1>5, ParseErrorTrace
<1>6. CASE GotInstruction  BY <1>6, InstructionTrace
<1>7. CASE GotRegister     BY <1>7, RegisterTrace
<1>8. CASE GotException    BY <1>8, ExceptionTrace
<1>9. CASE GotText         BY <1>9, TextTrace
<1>10. CASE VisitRecord    BY <1>10, VisitTrace
<1>11. CASE FinaliseIndex  BY <1>11, FinaliseTrace
<1>12. CASE Stopped \/ UNCHANGED vars  BY <1>12, StutterTrace DEF Stopped
<1> QED
  BY <1>1, <1>2, <1>3, <1>4, <1>5, <1>6, <1>7, <1>8, <1>9, <1>10, <1>11, <1>12
  DEF Next

(* The log and the records agree in every state that is reached. *)
THEOREM RecordsFollowLog == Spec => []TraceOK
<1>1. Init => TraceOK
  BY InitTrace
<1>2. IInv /\ IInv' /\ TraceOK /\ [Next]_vars => TraceOK'
  BY NextTrace
<1> QED
  BY <1>1, <1>2, Inductive, PTL DEF Spec

-----------------------------------------------------------------------------
(***************************************************************************)
(* A finished index.                                                       *)
(***************************************************************************)
Ended ==
  /\ trace \in Seq(Line) /\ Len(trace) \in Nat /\ seqtree \in Seq(Record)
  /\ seqtree # <<>> /\ lineno_offset \in Nat /\ seen_any_event
  /\ Tiles(seqtree, linepos, lineno) /\ Sorted(seqtree)
  /\ lineno \in Nat /\ lineno + lineno_offset = Len(trace) + 1
  /\ <<lineno_offset + 1, 1>> \in DOMAIN Log
  /\ \A p \in DOMAIN Log : lineno_offset < p[1]
  /\ BytesOK /\ ClosedOK /\ ByPCOK

(* Every event has been handled. *)
AllLogged ==
  /\ \A p : p \in DOMAIN Log <=>
             /\ p = <<p[1], p[2]>> /\ p[1] \in DOMAIN trace
             /\ p[2] \in DOMAIN trace[p[1]].events
  /\ \A p \in DOMAIN Log : /\ Log[p] = At(p) /\ p[1] \in Int /\ p[2] \in Int
                           /\ Log[p].time \in Nat
                           /\ 1 <= p[1] /\ p[1] <= Len(trace)

LEMMA CompleteIs ==
  ASSUME IInv, TraceOK, Complete
  PROVE  Ended /\ AllLogged
<1>1. /\ phase = "complete" /\ ~Reading /\ TypeOK
      /\ TodoOK /\ NumberingOK /\ BytesOK /\ ClosedOK /\ ByPCOK /\ seqtree # <<>>
  BY DEF Complete, Reading, TraceOK, IInv
<1>2. /\ trace \in Seq(Line) /\ Len(trace) \in Nat /\ seqtree \in Seq(Record)
      /\ lineno \in Nat /\ todo = <<>>
  BY <1>1 DEF TypeOK, ReadTypes, RecordTypes, TodoOK
<1>3. seen_any_event
  BY <1>1 DEF NumberingOK
<1>4. Tiles(seqtree, linepos, lineno) /\ Sorted(seqtree)
  BY <1>1 DEF IInv, RecordsOK, RecordsTile, SeqOK
<1>5. Ended
  BY <1>1, <1>2, <1>3, <1>4 DEF Ended, NumberingOK
<1>6. LogFacts /\ IsLog(Log)
  BY <1>1, LogDomain, LogTyped DEF LogTypeOK
<1>7. ASSUME NEW i \in DOMAIN trace
      PROVE  /\ Handled(i) = Len(trace[i].events)
             /\ trace[i].events \in Seq(Event)
  <2>1. trace[i] \in Line
    BY <1>2
  <2>2. trace[i].events \in Seq(Event)
    BY <2>1, LineFacts
  <2> QED  BY <1>2, <2>2 DEF Handled
<1>8. ASSUME NEW p PROVE p \in DOMAIN Log <=>
                         /\ p = <<p[1], p[2]>> /\ p[1] \in DOMAIN trace
                         /\ p[2] \in DOMAIN trace[p[1]].events
  <2>1. p[1] \in DOMAIN trace /\ p[2] \in DOMAIN trace[p[1]].events
          => p[2] <= Handled(p[1])
    BY <1>7
  <2> QED  BY <1>6, <2>1 DEF LogFacts
<1>9. ASSUME NEW p \in DOMAIN Log
      PROVE  /\ Log[p] = At(p) /\ p[1] \in Int /\ p[2] \in Int
             /\ Log[p].time \in Nat /\ 1 <= p[1] /\ p[1] <= Len(trace)
  <2>1. Log[p] = At(p) /\ Log[p] \in Event /\ p \in Place
    BY <1>6 DEF LogFacts, IsLog, At
  <2>2. p[1] \in 1 .. Len(trace)
    BY <1>2, <1>8
  <2> QED  BY <2>1, <2>2, EventFacts DEF Place
<1> QED  BY <1>5, <1>8, <1>9 DEF AllLogged

(* The lines of a record are lines of the trace. *)
LineRange(k) ==
  LET r == seqtree[k]
      at == r.line + lineno_offset
  IN /\ r \in Record /\ r.line \in Int /\ r.lines \in Int /\ r.time \in Int
     /\ at \in Int /\ at + r.lines \in Int
     /\ lineno_offset < at /\ 1 <= at /\ at < at + r.lines
     /\ at + r.lines <= Len(trace) + 1
     /\ k = Len(seqtree) => at + r.lines = Len(trace) + 1
     /\ k < Len(seqtree) =>
          at + r.lines = seqtree[k + 1].line + lineno_offset

LEMMA RecordLineRange ==
  ASSUME Ended, NEW k \in DOMAIN seqtree
  PROVE  LineRange(k)
<1> DEFINE r == seqtree[k]
           n == Len(trace)
<1>1. /\ lineno_offset \in Nat /\ lineno \in Nat /\ n \in Nat
      /\ lineno + lineno_offset = n + 1
      /\ seqtree \in Seq(Record) /\ Tiles(seqtree, linepos, lineno)
      /\ Sorted(seqtree)
  BY DEF Ended
<1>2. \A i \in DOMAIN seqtree :
        /\ seqtree[i] \in Record
        /\ seqtree[i].line \in Nat \ {0} /\ seqtree[i].lines \in Int
        /\ seqtree[i].time \in Int
  <2>1. \A i \in DOMAIN seqtree : seqtree[i] \in Record
    BY <1>1
  <2> QED  BY <2>1 DEF Record, NoTime
<1>3. /\ \A i \in DOMAIN seqtree :
           /\ seqtree[i].lines > 0
           /\ seqtree[i].line + seqtree[i].lines
                = IF i < Len(seqtree) THEN seqtree[i + 1].line ELSE lineno
  BY <1>1 DEF Tiles
<1>4. k \in 1 .. Len(seqtree) /\ Len(seqtree) \in Nat
      /\ DOMAIN seqtree = 1 .. Len(seqtree)
  BY <1>1
<1>5. Len(seqtree) \in DOMAIN seqtree
  BY <1>4
<1>6. \A i \in DOMAIN seqtree : seqtree[i].line < lineno
  <2> SUFFICES ASSUME NEW i \in DOMAIN seqtree PROVE seqtree[i].line < lineno
    OBVIOUS
  <2> DEFINE last == seqtree[Len(seqtree)].line
  <2>1. last + seqtree[Len(seqtree)].lines = lineno
        /\ seqtree[Len(seqtree)].lines > 0
    BY <1>3, <1>4, <1>5
  <2>2. last < lineno
    BY <1>1, <1>2, <1>5, <2>1
  <2>3. i = Len(seqtree) \/ i < Len(seqtree)
    BY <1>4
  <2>4. i < Len(seqtree) => seqtree[i].line < last
    BY <1>1, <1>5 DEF Sorted
  <2>5. last \in Int /\ seqtree[i].line \in Int
    BY <1>2, <1>5
  <2> HIDE DEF last
  <2> QED  BY <1>1, <2>2, <2>3, <2>4, <2>5 DEF last
<1>7. k < Len(seqtree) => k + 1 \in DOMAIN seqtree
  BY <1>4
<1>8. /\ r \in Record /\ r.line \in Nat \ {0} /\ r.lines \in Int /\ r.time \in Int
      /\ r.lines > 0
  BY <1>2, <1>3
<1>9. r.line + r.lines <= lineno
      /\ (k = Len(seqtree) => r.line + r.lines = lineno)
      /\ (k < Len(seqtree) => r.line + r.lines = seqtree[k + 1].line)
  <2>1. k < Len(seqtree) => seqtree[k + 1].line \in Nat
                            /\ seqtree[k + 1].line < lineno
    BY <1>2, <1>6, <1>7
  <2>2. r.line + r.lines = IF k < Len(seqtree) THEN seqtree[k + 1].line ELSE lineno
    BY <1>3
  <2> HIDE DEF r
  <2> QED  BY <1>1, <1>4, <2>1, <2>2
<1>10. \A f, l, m \in Int : l + f + m = (l + m) + f
  OBVIOUS
<1> HIDE DEF r, n
<1>11. /\ r.line + lineno_offset \in Int /\ r.line + lineno_offset + r.lines \in Int
       /\ lineno_offset < r.line + lineno_offset /\ 1 <= r.line + lineno_offset
       /\ r.line + lineno_offset < r.line + lineno_offset + r.lines
       /\ r.line + lineno_offset + r.lines <= n + 1
       /\ k = Len(seqtree) => r.line + lineno_offset + r.lines = n + 1
  BY <1>1, <1>8, <1>9
<1>12. k < Len(seqtree) =>
         r.line + lineno_offset + r.lines = seqtree[k + 1].line + lineno_offset
  <2> DEFINE next == seqtree[k + 1].line
  <2>1. k < Len(seqtree) => r.line + r.lines = next
    BY <1>9
  <2> HIDE DEF next
  <2>2. k < Len(seqtree) => r.line + lineno_offset + r.lines = next + lineno_offset
    BY <1>1, <1>8, <2>1
  <2> QED  BY <2>2 DEF next
<1> QED  BY <1>8, <1>11, <1>12 DEF LineRange, r, n

(* The places and events of some lines, in the log. *)
LEMMA PlacesIn ==
  ASSUME AllLogged, NEW lines, lines \subseteq DOMAIN trace
  PROVE  Places(lines) = {p \in DOMAIN Log : p[1] \in lines}
<1>1. \A p : p \in Places(lines) <=>
              /\ p = <<p[1], p[2]>> /\ p[1] \in lines
              /\ p[2] \in DOMAIN trace[p[1]].events
  BY DEF Places
<1>2. Places(lines) = {p \in DOMAIN Log : p[1] \in lines}
  BY <1>1 DEF AllLogged
<1> QED  BY <1>2

LEMMA OfKindIs ==
  ASSUME AllLogged, Len(trace) \in Nat, trace \in Seq(Line), NEW a \in Int, NEW b \in Int,
         b <= Len(trace) + 1, 1 <= a,
         NEW lines, lines = {i \in DOMAIN trace : a <= i /\ i < b}
  PROVE  \A kind : OfKind(lines, kind) = Within(Log, a, b, kind)
<1>1. \A p \in DOMAIN Log : p[1] \in DOMAIN trace
  BY DEF AllLogged
<1>2. \A kind : OfKind(lines, kind)
                 = {p \in DOMAIN Log : p[1] \in lines /\ Log[p].kind = kind}
  <2>1. lines \subseteq DOMAIN trace
    OBVIOUS
  <2>2. Places(lines) = {p \in DOMAIN Log : p[1] \in lines}
    BY <2>1, PlacesIn, Zenon
  <2>3. \A p \in DOMAIN Log : Log[p] = At(p)
    BY DEF AllLogged
  <2> QED  BY <2>2, <2>3 DEF OfKind
<1>3. \A p \in DOMAIN Log : p[1] \in lines <=> a <= p[1] /\ p[1] < b
  BY <1>1
<1> QED  BY <1>2, <1>3 DEF Within

LEMMA LinesOfKind ==
  ASSUME Ended, AllLogged, NEW k \in DOMAIN seqtree
  PROVE  LET r == seqtree[k]
             at == r.line + lineno_offset
         IN /\ \A kind : OfKind(LinesOf(r), kind) = Within(Log, at, at + r.lines, kind)
            /\ \A kind : OfKind(1 .. r.line + lineno_offset + r.lines - 1, kind)
                          = Within(Log, 1, at + r.lines, kind)
<1> DEFINE r == seqtree[k]
           at == r.line + lineno_offset
           end == at + r.lines
           n == Len(trace)
<1>1. /\ r.line \in Int /\ r.lines \in Int /\ at \in Int /\ end \in Int /\ 1 <= at
      /\ at < end /\ end <= n + 1 /\ lineno_offset \in Int /\ n \in Nat
      /\ trace \in Seq(Line)
  BY RecordLineRange DEF LineRange, Ended
<1>2. LinesOf(r) = {i \in DOMAIN trace : at <= i /\ i < end}
  BY DEF LinesOf
<1>3. r.line + lineno_offset + r.lines - 1 = end - 1
  BY <1>1
<1> HIDE DEF at, end, r
<1>4. \A kind : OfKind(LinesOf(r), kind) = Within(Log, at, end, kind)
  BY <1>1, <1>2, OfKindIs
<1>5. 1 .. end - 1 = {i \in DOMAIN trace : 1 <= i /\ i < end}
  <2>1. DOMAIN trace = 1 .. n
    BY <1>1
  <2> HIDE DEF n
  <2> QED  BY <1>1, <2>1
<1>6. \A kind : OfKind(1 .. end - 1, kind) = Within(Log, 1, end, kind)
  BY <1>1, <1>5, OfKindIs
<1>7. \A kind : OfKind(1 .. r.line + lineno_offset + r.lines - 1, kind)
                 = Within(Log, 1, end, kind)
  BY <1>3, <1>6
<1> QED  BY <1>4, <1>7 DEF r, at, end

LEMMA MaxIs ==
  ASSUME NEW S \in SUBSET Int, NEW m \in S, \A x \in S : x <= m
  PROVE  Max(S) = m
<1>1. \A y \in S : m >= y
  OBVIOUS
<1>2. Max(S) \in S /\ \A y \in S : Max(S) >= y
  BY <1>1 DEF Max
<1>3. Max(S) \in Int /\ m \in Int /\ Max(S) >= m /\ Max(S) <= m
  BY <1>2
<1> HIDE DEF Max
<1> QED  BY <1>3

LEMMA MinIs ==
  ASSUME NEW S \in SUBSET Int, NEW m \in S, \A x \in S : m <= x
  PROVE  Min(S) = m
<1>1. Min(S) \in S /\ \A y \in S : Min(S) <= y
  BY DEF Min
<1>2. Min(S) \in Int /\ m \in Int /\ Min(S) >= m /\ Min(S) <= m
  BY <1>1
<1> HIDE DEF Min
<1> QED  BY <1>2

LEMMA TimeDescribed ==
  ASSUME Ended, AllLogged, NEW k \in DOMAIN seqtree, NEW i \in LinesOf(seqtree[k])
  PROVE  seqtree[k].time = Max({At(p).time : p \in Places(1 .. i)})
<1> DEFINE r == seqtree[k]
           at == r.line + lineno_offset
           end == at + r.lines
           times == {At(p).time : p \in Places(1 .. i)}
<1>1. at \in Int /\ end \in Int /\ 1 <= at /\ r.time \in Int
  BY RecordLineRange DEF LineRange
<1>2. i \in DOMAIN trace /\ at <= i /\ i < end
  BY DEF LinesOf
<1>3. TimeRight(Log, r, at)
  BY DEF Ended, ClosedOK, RecordRight
<1>4. i \in 1 .. Len(trace) /\ DOMAIN trace = 1 .. Len(trace) /\ Len(trace) \in Nat
  BY <1>2 DEF Ended
<1>5. 1 .. i \subseteq DOMAIN trace
  BY <1>4
<1>6. Places(1 .. i) = {p \in DOMAIN Log : p[1] \in 1 .. i}
  BY <1>5, PlacesIn, Zenon
<1> HIDE DEF at, end, r
<1>7. \A p \in DOMAIN Log : Log[p] = At(p) /\ Log[p].time \in Nat /\ p[1] \in Int
                            /\ 1 <= p[1]
  BY DEF AllLogged
<1>8. times \in SUBSET Int
  BY <1>6, <1>7
<1>9. \A x \in times : x <= r.time
  <2>1. ASSUME NEW p \in Places(1 .. i) PROVE At(p).time <= r.time
    <3>1. p \in DOMAIN Log /\ p[1] <= i /\ At(p) = Log[p] /\ p[1] \in Int
      BY <1>4, <1>6, <1>7
    <3>2. p[1] < end
      BY <1>1, <1>2, <1>4, <3>1
    <3> QED  BY <1>3, <3>1, <3>2 DEF TimeRight, end
  <2> QED  BY <2>1
<1>10. r.time \in times
  <2>1. PICK p \in DOMAIN Log : p[1] <= at /\ Log[p].time = r.time
    BY <1>3 DEF TimeRight
  <2>2. p[1] \in 1 .. i
    BY <1>1, <1>2, <1>4, <1>7, <2>1
  <2> QED  BY <1>6, <1>7, <2>1, <2>2
<1> HIDE DEF times
<1>11. Max(times) = r.time
  BY <1>8, <1>9, <1>10, MaxIs
<1> QED  BY <1>11 DEF times, r

LEMMA RecordIsDescribed ==
  ASSUME Ended, AllLogged, NEW k \in DOMAIN seqtree
  PROVE  RecordDescribed(k)
<1> DEFINE r == seqtree[k]
           at == r.line + lineno_offset
           end == at + r.lines
           insns == Within(Log, at, end, "insn")
<1>1. r.pos = BytesBefore(r.line + lineno_offset)
  <2>1. r.pos = SizeOf(trace, r.line + lineno_offset - 1)
    BY DEF Ended, BytesOK
  <2>2. r.line \in Int /\ lineno_offset \in Int
    BY RecordLineRange DEF LineRange, Ended
  <2>3. r.line + lineno_offset - 1 = (r.line + lineno_offset) - 1
    <3> DEFINE l == r.line
    <3> HIDE DEF l
    <3>1. l \in Int
      BY <2>2 DEF l
    <3>2. l + lineno_offset - 1 = (l + lineno_offset) - 1
      BY <2>2, <3>1
    <3> QED  BY <3>2 DEF l
  <2> HIDE DEF r
  <2> QED  BY <2>1, <2>3, Zenon DEF BytesBefore
<1>2. \A i \in LinesOf(r) : r.time = Max({At(p).time : p \in Places(1 .. i)})
  BY TimeDescribed
<1>3. OfKind(LinesOf(r), "insn") = insns
  BY LinesOfKind
<1>4. PCRight(Log, r, at) /\ at \in Int
  BY RecordLineRange DEF Ended, ClosedOK, RecordRight, LineRange
<1>5. \A p \in DOMAIN Log : Log[p] = At(p)
  BY DEF AllLogged
<1>6. \/ insns = {} /\ r.pc = KNOWN_INVALID_PC
      \/ \E p \in insns : insns = {p} /\ r.pc = Adjusted(At(p))
  <2>1. insns \subseteq DOMAIN Log
    BY DEF Within
  <2> QED  BY <1>4, <1>5, <2>1 DEF PCRight
<1>7. ASSUME k > 1, seqtree[k - 1].time = r.time
      PROVE  /\ \E p \in insns : p[1] = at
             /\ OfKind(LinesOf(seqtree[k - 1]), "insn") # {}
  <2>1. k \in 2 .. Len(seqtree) /\ k - 1 \in DOMAIN seqtree
    BY <1>7 DEF Ended
  <2>2. SplitRight(Log, seqtree[k - 1], r, lineno_offset)
    BY <2>1 DEF Ended, ClosedOK
  <2>3. PICK p \in DOMAIN Log : p[1] = at /\ Log[p].kind = "insn"
    BY <1>7, <2>2 DEF SplitRight
  <2>4. p \in insns
    <3>1. at <= at /\ at < end
      BY <1>4, RecordLineRange DEF LineRange
    <3> HIDE DEF at, end
    <3> QED  BY <2>3, <3>1 DEF Within
  <2>5. OfKind(LinesOf(seqtree[k - 1]), "insn") # {}
    BY <1>7, <2>1, <2>2, LinesOfKind DEF SplitRight
  <2> QED  BY <2>3, <2>4, <2>5
<1> HIDE DEF insns
<1> QED  BY <1>1, <1>2, <1>3, <1>6, <1>7 DEF RecordDescribed

(* The records cover the lines from the first event on. *)
LEMMA LinesCovered ==
  ASSUME Ended, AllLogged
  PROVE  UNION {LinesOf(seqtree[k]) : k \in DOMAIN seqtree} = FirstEvent .. Len(trace)
<1> DEFINE off == lineno_offset
           n == Len(trace)
<1>1. /\ off \in Nat /\ n \in Nat /\ trace \in Seq(Line) /\ seqtree \in Seq(Record)
      /\ DOMAIN trace = 1 .. n /\ seqtree # <<>> /\ Len(seqtree) \in Nat
      /\ DOMAIN seqtree = 1 .. Len(seqtree)
  BY DEF Ended
<1>2. FirstEvent = off + 1
  <2> DEFINE S == {i \in DOMAIN trace : trace[i].events # <<>>}
  <2>1. off + 1 \in S
    <3>1. <<off + 1, 1>> \in DOMAIN Log
      BY DEF Ended
    <3>2. off + 1 \in DOMAIN trace /\ 1 \in DOMAIN trace[off + 1].events
      BY <3>1 DEF AllLogged
    <3> QED  BY <3>2
  <2>2. ASSUME NEW i \in S PROVE off + 1 <= i
    <3>1. trace[i].events \in Seq(Event)
      BY <1>1, LineFacts
    <3>2. 1 \in DOMAIN trace[i].events
      BY <3>1
    <3>3. <<i, 1>> \in DOMAIN Log
      BY <3>2 DEF AllLogged
    <3>4. off < i
      BY <3>3 DEF Ended
    <3>5. i \in Int
      BY <1>1
    <3> HIDE DEF S
    <3> QED  BY <1>1, <3>4, <3>5
  <2>3. S \in SUBSET Int
    BY <1>1
  <2> HIDE DEF S
  <2>4. Min(S) = off + 1
    BY <2>1, <2>2, <2>3, MinIs
  <2> QED  BY <2>4 DEF FirstEvent, S
<1>3. ASSUME NEW k \in DOMAIN seqtree, NEW i \in LinesOf(seqtree[k])
      PROVE  i \in off + 1 .. n
  <2>1. LineRange(k)
    BY RecordLineRange
  <2>2. i \in 1 .. n /\ seqtree[k].line + off <= i
    BY <1>1 DEF LinesOf
  <2>3. off < seqtree[k].line + off /\ seqtree[k].line + off \in Int
    BY <2>1 DEF LineRange
  <2> HIDE DEF n, off
  <2> QED  BY <1>1, <2>2, <2>3
<1>4. ASSUME NEW i \in off + 1 .. n
      PROVE  \E k \in DOMAIN seqtree : i \in LinesOf(seqtree[k])
  <2> DEFINE end(k) == seqtree[k].line + off + seqtree[k].lines
             beyond == {k \in DOMAIN seqtree : i < end(k)}
  <2>1. i \in Int /\ i <= n /\ off < i /\ i \in DOMAIN trace
    BY <1>1
  <2>2. Len(seqtree) \in beyond
    <3>1. Len(seqtree) \in DOMAIN seqtree
      BY <1>1
    <3>2. end(Len(seqtree)) = n + 1
      BY <3>1, RecordLineRange DEF LineRange
    <3> HIDE DEF end, n
    <3> QED  BY <1>1, <2>1, <3>1, <3>2
  <2>3. PICK k \in beyond : \A j \in beyond : k <= j
    <3>1. beyond \in SUBSET Nat
      BY <1>1
    <3> HIDE DEF beyond
    <3> QED  BY <2>2, <3>1, LeastOf
  <2>4. k \in DOMAIN seqtree /\ LineRange(k) /\ i < end(k)
    BY <2>3, RecordLineRange
  <2>5. seqtree[k].line + off <= i
    <3>1. CASE k = 1
      <4>1. seqtree[1].line = 1
        BY <1>1 DEF Ended, Tiles
      <4> QED  BY <1>1, <2>1, <3>1, <4>1
    <3>2. CASE k # 1
      <4>1. k - 1 \in DOMAIN seqtree /\ k - 1 < Len(seqtree) /\ (k - 1) + 1 = k
            /\ ~(k <= k - 1)
        BY <1>1, <2>4, <3>2
      <4>2. ~(i < end(k - 1))
        BY <2>3, <4>1
      <4>3. LineRange(k - 1)
        BY <4>1, RecordLineRange
      <4>4. end(k - 1) \in Int /\ end(k - 1) = seqtree[k].line + off
        BY <4>1, <4>3 DEF LineRange
      <4> HIDE DEF end
      <4> QED  BY <2>1, <4>2, <4>4
    <3> QED  BY <3>1, <3>2
  <2> QED  BY <2>1, <2>4, <2>5 DEF LinesOf
<1> QED  BY <1>2, <1>3, <1>4

LEMMA SizeDescribed ==
  ASSUME Ended, Complete
  PROVE  LET size == BytesBefore(Len(trace) + 1) - (IF eof THEN 1 ELSE 0)
             r == Last(seqtree)
         IN r.pos + r.len = size
<1>1. /\ seqtree \in Seq(Record) /\ seqtree # <<>> /\ Tiles(seqtree, linepos, lineno)
      /\ Len(trace) \in Nat /\ BytesOK
  BY DEF Ended
<1>2. Len(seqtree) \in DOMAIN seqtree /\ Last(seqtree) = seqtree[Len(seqtree)]
  BY <1>1 DEF Last
<1>3. Last(seqtree).pos + Last(seqtree).len = linepos
  BY <1>1, <1>2 DEF Tiles
<1>4. linepos = SizeOf(trace, Len(trace)) - (IF eof THEN 1 ELSE 0)
  BY <1>1 DEF BytesOK, Complete
<1>5. Len(trace) + 1 - 1 = Len(trace)
  BY <1>1
<1>6. BytesBefore(Len(trace) + 1) = SizeOf(trace, Len(trace))
  BY <1>5 DEF BytesBefore
<1> QED  BY <1>3, <1>4, <1>6

(* The latest place is the one LastOf finds. *)
LEMMA LastOfIs ==
  ASSUME NEW places, NEW p \in places, Latest(p, places),
         \A q \in places : q = <<q[1], q[2]>> /\ q[1] \in Int /\ q[2] \in Int
  PROVE  LastOf(places) = At(p)
<1> DEFINE latest == CHOOSE x \in places :
                       \A q \in places : q[1] < x[1] \/ (q[1] = x[1] /\ q[2] <= x[2])
<1>1. latest \in places /\ Latest(latest, places)
  BY DEF Latest
<1>2. LastOf(places) = At(latest)
  BY DEF LastOf
<1> HIDE DEF latest
<1>3. /\ p[1] < latest[1] \/ (p[1] = latest[1] /\ p[2] <= latest[2])
      /\ latest[1] < p[1] \/ (latest[1] = p[1] /\ latest[2] <= p[2])
  BY <1>1 DEF Latest
<1>4. latest[1] = p[1] /\ latest[2] = p[2]
  BY <1>1, <1>3
<1>5. latest = p
  BY <1>1, <1>4, Zenon
<1> QED  BY <1>2, <1>5

LEMMA MemoryIsDescribed ==
  ASSUME Ended, AllLogged, NEW k \in DOMAIN seqtree
  PROVE  MemoryDescribed(seqtree[k])
<1> DEFINE r == seqtree[k]
           end == r.line + lineno_offset + r.lines
           upTo == 1 .. r.line + lineno_offset + r.lines - 1
<1>1. MemRight(Log, r.mem, end)
  BY DEF Ended, ClosedOK, RecordRight
<1>2. \A kind : OfKind(upTo, kind) = Within(Log, 1, end, kind)
  BY LinesOfKind
<1> HIDE DEF r, end, upTo
<1>3. \A p \in DOMAIN Log : /\ Log[p] = At(p) /\ p = <<p[1], p[2]>>
                           /\ p[1] \in Int /\ p[2] \in Int
  BY DEF AllLogged
<1>4. \A kind : Within(Log, 1, end, kind) \subseteq DOMAIN Log
  BY DEF Within
<1>5. ASSUME NEW cell \in Cells
      PROVE  r.mem.cell[cell] = IF WritesIn(upTo, cell) = {} THEN Unknown
                                ELSE LastOf(WritesIn(upTo, cell)).value
  <2> DEFINE writes == Writes(Log, end, cell)
  <2>1. WritesIn(upTo, cell) = writes
    BY <1>2, <1>3, <1>4 DEF WritesIn, Writes
  <2>2. \A q \in writes : q = <<q[1], q[2]>> /\ q[1] \in Int /\ q[2] \in Int
                          /\ Log[q] = At(q)
    BY <1>3, <1>4 DEF Writes
  <2>3. \/ writes = {} /\ r.mem.cell[cell] = Unknown
        \/ \E p \in writes : Latest(p, writes) /\ r.mem.cell[cell] = Log[p].value
    BY <1>1 DEF MemRight
  <2> HIDE DEF writes
  <2>4. ASSUME NEW p \in writes, Latest(p, writes) PROVE LastOf(writes) = At(p)
    BY <2>2, <2>4, LastOfIs
  <2> QED  BY <2>1, <2>2, <2>3, <2>4
<1>6. r.mem.iflags = IF OfKind(upTo, "insn") = {} THEN Unknown
                     ELSE StateOf(LastOf(OfKind(upTo, "insn")).iset)
  <2> DEFINE insns == Within(Log, 1, end, "insn")
  <2>1. OfKind(upTo, "insn") = insns
    BY <1>2
  <2>2. \A q \in insns : q = <<q[1], q[2]>> /\ q[1] \in Int /\ q[2] \in Int
                         /\ Log[q] = At(q)
    BY <1>3, <1>4
  <2>3. \/ insns = {} /\ r.mem.iflags = Unknown
        \/ \E p \in insns : Latest(p, insns) /\ r.mem.iflags = StateOf(Log[p].iset)
    BY <1>1 DEF MemRight
  <2> HIDE DEF insns
  <2>4. ASSUME NEW p \in insns, Latest(p, insns) PROVE LastOf(insns) = At(p)
    BY <2>2, <2>4, LastOfIs
  <2> QED  BY <2>1, <2>2, <2>3, <2>4
<1> QED  BY <1>5, <1>6 DEF MemoryDescribed, upTo, r

LEMMA ByPCIsExact ==
  ASSUME Ended, AllLogged, Complete
  PROVE  ByPCExact
<1> DEFINE records == {seqtree[k] : k \in DOMAIN seqtree}
<1>1. bypctree = Visits(seqtree) \cup Exceptions(Log, seqtree, lineno_offset)
  BY DEF Ended, ByPCOK, Complete, HasOpen, Reading
<1>2. \A r \in records :
        OfKind(LinesOf(r), "exception")
          = Within(Log, r.line + lineno_offset, r.line + lineno_offset + r.lines,
                   "exception")
  BY LinesOfKind
<1>3. Exceptions(Log, seqtree, lineno_offset)
        = {ExceptionAt(r) :
             r \in {s \in records : OfKind(LinesOf(s), "exception") # {}}}
  BY <1>2 DEF Exceptions
<1>4. Visits(seqtree)
        = {Visit(r) : r \in {s \in records : s.pc # KNOWN_INVALID_PC}}
  BY DEF Visits
<1> HIDE DEF records
<1>5. bypctree = {Visit(r) : r \in {s \in records : s.pc # KNOWN_INVALID_PC}}
        \cup {ExceptionAt(r) :
                r \in {s \in records : OfKind(LinesOf(s), "exception") # {}}}
  BY <1>1, <1>3, <1>4
<1> QED  BY <1>5 DEF ByPCExact, records

(* A finished index says of its trace what the lines of the trace say, as  *)
(* lib/index.cpp writes it: each record covers whole lines, begins at the  *)
(* byte its first line begins at, and has their latest time and the pc of  *)
(* their one instruction; its memory tree holds what was written last; and *)
(* the by-PC tree lists each visit and each exception at its record.       *)
THEOREM IndexAgreesWithTrace == Spec => []IndexDescribesTrace
<1>1. ASSUME IInv, TraceOK PROVE IndexDescribesTrace
  <2> SUFFICES ASSUME Complete PROVE IndexDescribesTrace
    BY DEF IndexDescribesTrace, RecordsDescribeTrace, MemoryAsOfRecord, ByPCExact
  <2>1. Ended /\ AllLogged
    BY <1>1, CompleteIs
  <2>2. RecordsDescribeTrace
    BY <2>1, RecordIsDescribed, LinesCovered, SizeDescribed DEF RecordsDescribeTrace
  <2>3. MemoryAsOfRecord
    BY <2>1, MemoryIsDescribed DEF MemoryAsOfRecord
  <2>4. ByPCExact
    BY <2>1, ByPCIsExact
  <2> QED  BY <2>2, <2>3, <2>4 DEF IndexDescribesTrace
<1> QED
  BY <1>1, Inductive, RecordsFollowLog, PTL
=============================================================================
