------------------------------ MODULE Indexer ------------------------------
(***************************************************************************)
(* The indexer's pass over a trace file: class Index of lib/index.cpp.     *)
(*                                                                         *)
(* A trace is read line by line.  The parser turns a line into events; the *)
(* handler of each event updates registers, gathers lines into records of  *)
(* the sequential-order tree and guesses which jumps are function calls.   *)
(* Reading a line, handling one event and finishing a line are a step      *)
(* each.  The trees of the index are read here as the sets and sequences   *)
(* their owners use them for; AVLDisk models the trees.                    *)
(***************************************************************************)
EXTENDS Naturals, Integers, Sequences, FiniteSets

CONSTANTS
  Traces,            \* kinds of trace by name, see TraceKind
  RecordCalls,       \* IndexerParams::record_calls
  LRWriteThreshold,  \* BRANCH_LR_WRITE_THRESHOLD
  ULLONG_MAX,        \* the stack pointer nobody has written yet
  Unknown            \* the value of a register not all of whose bytes are known

NoTime == -1             \* current_time before the first event: -(Time)1
KNOWN_INVALID_PC == 2
CPU_EXCEPTION_PC == 6
LRSlack == 64            \* how far lr may be from the next instruction

(* The registers the heuristics look at.  Which two of the four are the    *)
(* stack pointer and the link register depends on the execution state.     *)
Cells == {"r13", "r14", "xsp", "x30"}
States == {"A32", "A64"}
SpOf(state) == IF state = "A64" THEN "xsp" ELSE "r13"
LrOf(state) == IF state = "A64" THEN "x30" ELSE "r14"
StateOf(iset) == IF iset = "A64" THEN "A64" ELSE "A32"

(* What the parser delivers.  A partial write leaves an unknown register   *)
(* unknown, which is the only way to write Unknown.                        *)
InsnEvent == [kind : {"insn"}, time : Nat, pc : Nat, width : Nat,
              iset : {"ARM", "THUMB", "A64"}]
RegEvent == [kind : {"reg"}, time : Nat, cell : Cells,
             value : (0 .. ULLONG_MAX) \cup {Unknown}]
OtherEvent == [kind : {"exception", "text"}, time : Nat]
Event == InsnEvent \cup RegEvent \cup OtherEvent

(* A line of the file: its length with its newline, and the events in it.  *)
(* They have one time, the line's, and an instruction is alone in its line.*)
Line == {l \in [bytes : Nat \ {0}, events : Seq(Event)] :
           /\ l.events # <<>> => l.bytes > 1
           /\ \A i \in DOMAIN l.events :
                /\ l.events[i].time = l.events[1].time
                /\ l.events[i].kind = "insn" => Len(l.events) = 1}

(* A kind of trace: what each of its lines may be, up to a length; whether *)
(* the last one may lack its newline; and what is in the members the       *)
(* constructor leaves alone.                                               *)
TraceKind(t) ==
  /\ t.lines \in Seq(SUBSET Line) /\ t.last \subseteq BOOLEAN
  /\ t.iflags \subseteq States /\ t.insns \subseteq 0 .. LRWriteThreshold

ASSUME ConstantsAssumption ==
  /\ RecordCalls \in BOOLEAN
  /\ LRWriteThreshold \in Nat
  /\ ULLONG_MAX \in Nat
  /\ Unknown \notin Int \cup States

ASSUME TracesAssumption ==
  \A name \in DOMAIN Traces : TraceKind(Traces[name])

VARIABLES
  family,       \* environment: the kind of trace this file is, in Traces
  trace,        \* history: the lines parsed so far
  phase,        \* what the indexer does next
  todo,         \* the events of the current line that are not handled yet
  eof,          \* the last line had no newline
  lineno, true_lineno, lineno_offset, prev_lineno, linepos, oldpos,
  current_time, seen_any_event, seen_instruction, seen_exception, curr_pc,
  seqtree,      \* the records, in the order of their first lines
  bypctree,
  mem, last_mem, \* the memory tree now, and when the last record began
  curr_iflags, insns_since_lr_update, expected_next_pc, expected_next_lr,
  pending_calls, found_callrets,
  matched,      \* history: the calls found_callrets was told of
  visited, curr_depth, passed  \* CallDepthCountingTreeWalker: records visited,
                               \* curr_depth, entries its iterator has passed

readVars == <<trace, phase, todo, eof, lineno, true_lineno, linepos>>
recordVars == <<lineno_offset, prev_lineno, oldpos, current_time,
                seen_any_event, seen_instruction, seqtree, last_mem>>
heurVars == <<expected_next_pc, expected_next_lr, found_callrets, matched>>
insnVars == <<curr_iflags, curr_pc>>
sharedVars == <<seen_exception, bypctree, mem, insns_since_lr_update,
                pending_calls>>
walkVars == <<visited, curr_depth, passed>>
vars == <<family, readVars, recordVars, heurVars, insnVars, sharedVars,
          walkVars>>

-----------------------------------------------------------------------------
(***************************************************************************)
(* Records.                                                                *)
(***************************************************************************)
Memory == [cell : [Cells -> (0 .. ULLONG_MAX) \cup {Unknown}],
           iflags : States \cup {Unknown}]
Record == [time : Nat \cup {NoTime}, pc : Nat, pos : Nat, len : Int,
           line : Nat \ {0}, lines : Int, mem : Memory, depth : Int]

(* The record of the lines from oldpos to pos, before the call depths; the *)
(* line after it is next_line.                                             *)
OpenRecord(pos, next_line) ==
  [time |-> current_time, pc |-> curr_pc, pos |-> oldpos,
   len |-> pos - oldpos, line |-> prev_lineno,
   lines |-> next_line - prev_lineno, mem |-> mem, depth |-> 0]

HasRecord(pos) == seen_any_event /\ pos # oldpos

EmitRecord(pos, next_line) ==
  IF HasRecord(pos) THEN Append(seqtree, OpenRecord(pos, next_line))
  ELSE seqtree

EmitPCNextLine(pos) ==   \* mutant: under the line after the record
  IF HasRecord(pos) /\ curr_pc # KNOWN_INVALID_PC
  THEN bypctree \cup {[pc |-> 2 * (curr_pc \div 2), line |-> lineno]}
  ELSE bypctree

(* The by-PC tree is told of the instruction with the low bit cleared. *)
EmitPC(pos) ==
  IF HasRecord(pos) /\ curr_pc # KNOWN_INVALID_PC
  THEN bypctree \cup {[pc |-> 2 * (curr_pc \div 2), line |-> prev_lineno]}
  ELSE bypctree

(* Time never runs backwards in the index, whatever the trace says. *)
EventTimeAsWritten(ev) == ev.time   \* mutant

EventTime(ev) ==
  IF current_time = NoTime \/ ev.time > current_time THEN ev.time
  ELSE current_time

StartsRecordAtTime(ev) == EventTime(ev) # current_time   \* mutant

StartsRecord(ev) ==
  \/ EventTime(ev) # current_time
  \/ seen_instruction /\ ev.kind = "insn"

(* got_event_common() for an event.  Its caller goes on with the by-PC     *)
(* tree, the pc and the exception flag, which it may have changed already. *)
GotEventCommon(ev) ==
  LET starts == StartsRecord(ev)
  IN /\ seqtree' = IF starts THEN EmitRecord(linepos, lineno) ELSE seqtree
     /\ last_mem' = IF starts THEN mem ELSE last_mem
     /\ current_time' = EventTime(ev)
     /\ seen_instruction' =
          (ev.kind = "insn"
           \/ (seen_instruction /\ EventTime(ev) = current_time))
     /\ oldpos' = IF starts THEN linepos ELSE oldpos
     /\ prev_lineno' = IF starts THEN lineno ELSE prev_lineno
     /\ lineno_offset' =
          IF seen_any_event THEN lineno_offset ELSE true_lineno - lineno
     /\ seen_any_event' = (seen_any_event \/ starts)

ByPCThen(ev) == IF StartsRecord(ev) THEN EmitPC(linepos) ELSE bypctree
PCThen(ev) == IF StartsRecord(ev) THEN KNOWN_INVALID_PC ELSE curr_pc
ExceptionThen(ev) == seen_exception /\ ~StartsRecord(ev)

-----------------------------------------------------------------------------
(***************************************************************************)
(* Function calls.  All registers are read from last_mem: as they were     *)
(* when the current record began.                                          *)
(***************************************************************************)
(* std::set::insert: of two calls with one key, or two entries for one     *)
(* line, the first stays.                                                  *)
InsertPending(calls, call) ==
  IF \E p \in calls : p.sp = call.sp /\ p.pc = call.pc THEN calls
  ELSE calls \cup {call}

InsertCallReturn(callrets, at, direction) ==
  IF \E c \in callrets : c.line = at THEN callrets
  ELSE callrets \cup {[line |-> at, direction |-> direction]}

(* update_sp(): frames below the stack pointer are gone. *)
UpdateSpNever(calls, sp) == calls   \* mutant

UpdateSp(calls, sp) == IF RecordCalls THEN {p \in calls : p.sp >= sp} ELSE calls

Adjusted(ev) == IF ev.iset = "THUMB" THEN 2 * (ev.pc \div 2) + 1 ELSE ev.pc

Abs(n) == IF n < 0 THEN -n ELSE n

(* The instruction is not the one after the last in memory. *)
Transfers(pc) ==
  /\ RecordCalls /\ expected_next_pc # KNOWN_INVALID_PC
  /\ pc \div 2 # expected_next_pc \div 2

SpThenUnset(state) == last_mem'.cell[SpOf(state)]   \* mutant

SpThen(state) ==
  IF last_mem'.cell[SpOf(state)] = Unknown THEN ULLONG_MAX
  ELSE last_mem'.cell[SpOf(state)]

ReturnedCallsAnySp(sp, pc) == {p \in pending_calls : p.pc = pc}   \* mutant

ReturnedCalls(sp, pc) == {p \in pending_calls : p.sp = sp /\ p.pc = pc}

LooksLikeCall(lr, insns) ==
  /\ expected_next_lr # KNOWN_INVALID_PC
  /\ lr # Unknown
  /\ insns < LRWriteThreshold
  /\ Abs(lr - expected_next_lr) < LRSlack

(* update_pc(), in its four outcomes. *)
StraightOn(pc, insns) ==
  /\ ~Transfers(pc)
  /\ insns_since_lr_update' = insns
  /\ UNCHANGED <<pending_calls, found_callrets, matched>>

ReturnKeepsCall(pc, sp) ==   \* mutant: the pending call is not erased
  \E p \in ReturnedCalls(sp, pc) :
    /\ Transfers(pc)
    /\ found_callrets' =
         InsertCallReturn(InsertCallReturn(found_callrets, p.call_line, 1),
                          prev_lineno', -1)
    /\ matched' = matched \cup {[call |-> p.call_line, ret |-> prev_lineno',
                                 sp |-> p.sp, state |-> curr_iflags']}
    /\ UNCHANGED pending_calls
    /\ insns_since_lr_update' = LRWriteThreshold

Return(pc, sp) ==
  \E p \in ReturnedCalls(sp, pc) :
    /\ Transfers(pc)
    /\ found_callrets' =
         InsertCallReturn(InsertCallReturn(found_callrets, p.call_line, 1),
                          prev_lineno', -1)
    /\ matched' = matched \cup {[call |-> p.call_line, ret |-> prev_lineno',
                                 sp |-> p.sp, state |-> curr_iflags']}
    /\ pending_calls' = pending_calls \ {p}
    /\ insns_since_lr_update' = LRWriteThreshold

CallAtLine(pc, sp, lr, insns) ==   \* mutant: the line before the callee's
  /\ Transfers(pc) /\ ReturnedCalls(sp, pc) = {} /\ LooksLikeCall(lr, insns)
  /\ pending_calls' =
       InsertPending(pending_calls,
                     [sp |-> sp, pc |-> lr, call_line |-> prev_lineno' - 1])
  /\ insns_since_lr_update' = LRWriteThreshold
  /\ UNCHANGED <<found_callrets, matched>>

Call(pc, sp, lr, insns) ==
  /\ Transfers(pc) /\ ReturnedCalls(sp, pc) = {} /\ LooksLikeCall(lr, insns)
  /\ pending_calls' =
       InsertPending(pending_calls,
                     [sp |-> sp, pc |-> lr, call_line |-> prev_lineno'])
  /\ insns_since_lr_update' = LRWriteThreshold
  /\ UNCHANGED <<found_callrets, matched>>

Jump(pc, sp, lr, insns) ==
  /\ Transfers(pc) /\ ReturnedCalls(sp, pc) = {} /\ ~LooksLikeCall(lr, insns)
  /\ insns_since_lr_update' = LRWriteThreshold
  /\ UNCHANGED <<pending_calls, found_callrets, matched>>

UpdatePC(pc, next, iset, insns) ==
  LET sp == SpThen(StateOf(iset))
      lr == last_mem'.cell[LrOf(StateOf(iset))]
  IN /\ \/ StraightOn(pc, insns)
        \/ Return(pc, sp)
        \/ Call(pc, sp, lr, insns)
        \/ Jump(pc, sp, lr, insns)
     /\ curr_pc' = pc
     /\ expected_next_pc' = next
     /\ expected_next_lr' =
          IF iset = "THUMB" THEN 2 * (next \div 2) + 1 ELSE next

(* update_iflags() writes the execution state to the memory tree only if   *)
(* last_mem holds another one.                                             *)
UpdateIflagsOnce(state) ==   \* mutant: only if none is there yet
  /\ curr_iflags' = state
  /\ mem' = [mem EXCEPT !.iflags = IF last_mem'.iflags # Unknown THEN @ ELSE state]

UpdateIflags(state) ==
  /\ curr_iflags' = state
  /\ mem' = [mem EXCEPT !.iflags = IF last_mem'.iflags = state THEN @ ELSE state]

-----------------------------------------------------------------------------
Init ==
  /\ family \in DOMAIN Traces
  /\ trace = <<>> /\ phase = "read" /\ todo = <<>> /\ eof = FALSE
  /\ lineno = 1 /\ true_lineno = 0 /\ lineno_offset = 0 /\ prev_lineno = 1
  /\ linepos = 0 /\ oldpos = 0
  /\ current_time = NoTime /\ seen_any_event = FALSE
  /\ seen_instruction = FALSE /\ seen_exception = FALSE
  /\ curr_pc = KNOWN_INVALID_PC
  /\ seqtree = <<>> /\ bypctree = {}
  /\ mem = [cell |-> [c \in Cells |-> Unknown], iflags |-> Unknown]
  /\ last_mem = mem
  /\ curr_iflags \in Traces[family].iflags /\ insns_since_lr_update \in Traces[family].insns
  /\ expected_next_pc = KNOWN_INVALID_PC /\ expected_next_lr = KNOWN_INVALID_PC
  /\ pending_calls = {} /\ found_callrets = {} /\ matched = {}
  /\ visited = 0 /\ curr_depth = 0 /\ passed = {}

(* read_one_trace_line(), up to the parser. *)
CountLineAlways ==   \* mutant: header lines too
  /\ true_lineno' = true_lineno + 1
  /\ lineno' = lineno + 1

CountLine ==
  /\ true_lineno' = true_lineno + 1
  /\ lineno' = IF seen_any_event THEN lineno + 1 ELSE lineno

ReadLine ==
  /\ phase = "read" /\ ~eof /\ Len(trace) < Len(Traces[family].lines)
  /\ CountLine
  /\ \E line \in Traces[family].lines[Len(trace) + 1],
        last \in Traces[family].last :
       /\ trace' = Append(trace, line)
       /\ todo' = line.events
       /\ last => line.bytes > 1
       /\ eof' = last
  /\ phase' = "line"
  /\ UNCHANGED <<family, linepos, recordVars, heurVars, insnVars, sharedVars,
                 walkVars>>

(* The end of a line the parser accepted. *)
EndLine ==
  /\ phase = "line" /\ todo = <<>>
  /\ phase' = "read"
  /\ linepos' = linepos + trace[Len(trace)].bytes
  /\ UNCHANGED <<family, trace, todo, eof, lineno, true_lineno, recordVars,
                 heurVars, insnVars, sharedVars, walkVars>>

Handles(k) ==
  /\ phase = "line" /\ todo # <<>> /\ Head(todo).kind = k
  /\ todo' = Tail(todo)
  /\ GotEventCommon(Head(todo))
  /\ UNCHANGED <<family, trace, phase, eof, lineno, true_lineno, linepos,
                 walkVars>>

GotInstruction ==
  /\ Handles("insn")
  /\ LET ev == Head(todo)
         insns == IF insns_since_lr_update < LRWriteThreshold
                  THEN insns_since_lr_update + 1 ELSE insns_since_lr_update
     IN /\ UpdateIflags(StateOf(ev.iset))
        /\ UpdatePC(Adjusted(ev), Adjusted(ev) + ev.width, ev.iset, insns)
        /\ bypctree' = ByPCThen(ev)
        /\ seen_exception' = ExceptionThen(ev)

GotRegister ==
  /\ Handles("reg")
  /\ LET ev == Head(todo)
         sp == last_mem'.cell[SpOf(curr_iflags)]
     IN /\ ev.value = Unknown => mem.cell[ev.cell] = Unknown
        /\ mem' = [mem EXCEPT !.cell[ev.cell] = ev.value]
        /\ pending_calls' =
             IF ev.cell = SpOf(curr_iflags) /\ sp # Unknown
             THEN UpdateSp(pending_calls, sp) ELSE pending_calls
        /\ insns_since_lr_update' =
             IF ev.cell = LrOf(curr_iflags) THEN 0 ELSE insns_since_lr_update
        /\ bypctree' = ByPCThen(ev)
        /\ curr_pc' = PCThen(ev)
        /\ seen_exception' = ExceptionThen(ev)
  /\ UNCHANGED <<heurVars, curr_iflags>>

GotException ==
  /\ Handles("exception")
  /\ LET ev == Head(todo)
     IN /\ bypctree' =
             IF ExceptionThen(ev) THEN ByPCThen(ev)
             ELSE ByPCThen(ev) \cup {[pc |-> CPU_EXCEPTION_PC,
                                      line |-> prev_lineno']}
        /\ curr_pc' = PCThen(ev)
  /\ seen_exception' = TRUE
  /\ UNCHANGED <<heurVars, curr_iflags, mem, insns_since_lr_update,
                 pending_calls>>

(* A text-only event, or one about memory, which the model leaves out. *)
GotText ==
  /\ Handles("text")
  /\ bypctree' = ByPCThen(Head(todo))
  /\ curr_pc' = PCThen(Head(todo))
  /\ seen_exception' = ExceptionThen(Head(todo))
  /\ UNCHANGED <<heurVars, curr_iflags, mem, insns_since_lr_update,
                 pending_calls>>

(* got_event_common(nullptr), at the end of the file: the open record ends *)
(* at pos, before the line that was counted and could not be read.         *)
Finish(pos) ==
  /\ phase = "read" /\ phase' = "tree"
  /\ CountLine
  /\ linepos' = pos
  /\ seqtree' = EmitRecord(pos, lineno')
  /\ bypctree' = EmitPC(pos)
  /\ last_mem' = mem
  /\ lineno_offset' = IF seen_any_event THEN lineno_offset
                      ELSE true_lineno' - lineno'
  /\ UNCHANGED <<family, trace, todo, eof, prev_lineno, oldpos, current_time,
                 seen_any_event, seen_instruction, seen_exception, heurVars,
                 insnVars, mem, insns_since_lr_update, pending_calls,
                 walkVars>>

(* The last line had no newline: its length was counted one too long. *)
ReadEof == eof /\ Finish(linepos - 1)

(* There is no line left, or only part of one that does not parse. *)
ReadEnd == ~eof /\ Finish(linepos)

(* A whole line that does not parse: the index is removed. *)
ParseError ==
  /\ phase = "read" /\ ~eof /\ Len(trace) < Len(Traces[family].lines)
  /\ CountLine
  /\ phase' = "failed"
  /\ UNCHANGED <<family, trace, todo, eof, linepos, recordVars, heurVars,
                 insnVars, sharedVars, walkVars>>

(* build_call_tree(): CallDepthCountingTreeWalker visits the records in     *)
(* order.  The entry its iterator is at counts if it is for this record.   *)
NextCallretAnywhere(ahead, at) ==   \* mutant: one entry at every record
  {c \in ahead : \A d \in ahead : c.line <= d.line}

NextCallret(ahead, at) ==
  {c \in ahead : c.line = at /\ \A d \in ahead : c.line <= d.line}

VisitRecord ==
  /\ phase = "tree" /\ RecordCalls /\ visited < Len(seqtree)
  /\ visited' = visited + 1
  /\ LET at == NextCallret(found_callrets \ passed, seqtree[visited'].line)
     IN /\ passed' = passed \cup at
        /\ curr_depth' = IF at = {} THEN curr_depth
                         ELSE curr_depth + (CHOOSE c \in at : TRUE).direction
  /\ seqtree' = [seqtree EXCEPT ![visited'].depth = curr_depth']
  /\ UNCHANGED <<family, readVars, lineno_offset, prev_lineno, oldpos,
                 current_time, seen_any_event, seen_instruction, last_mem,
                 heurVars, insnVars, sharedVars>>

(* finalise_index(): an index of nothing is an error. *)
FinaliseIndex ==
  /\ phase = "tree" /\ (RecordCalls => visited = Len(seqtree))
  /\ phase' = IF seqtree = <<>> THEN "failed" ELSE "complete"
  /\ UNCHANGED <<family, trace, todo, eof, lineno, true_lineno, linepos,
                 recordVars, heurVars, insnVars, sharedVars, walkVars>>

Stopped == phase \in {"complete", "failed"} /\ UNCHANGED vars

Next ==
  \/ ReadLine \/ EndLine \/ ReadEof \/ ReadEnd \/ ParseError
  \/ GotInstruction \/ GotRegister \/ GotException \/ GotText
  \/ VisitRecord \/ FinaliseIndex \/ Stopped

Spec == Init /\ [][Next]_vars

-----------------------------------------------------------------------------
(***************************************************************************)
(* Properties.                                                             *)
(***************************************************************************)
Reading == phase \in {"read", "line"}

ReadTypes ==
  /\ family \in DOMAIN Traces /\ trace \in Seq(Line)
  /\ phase \in {"read", "line", "tree", "complete", "failed"}
  /\ todo \in Seq(Event) /\ eof \in BOOLEAN
  /\ lineno \in Nat \ {0} /\ true_lineno \in Nat /\ linepos \in Nat

RecordTypes ==
  /\ lineno_offset \in Int /\ prev_lineno \in Nat \ {0} /\ oldpos \in Nat
  /\ current_time \in Nat \cup {NoTime}
  /\ seen_any_event \in BOOLEAN /\ seen_instruction \in BOOLEAN
  /\ seqtree \in Seq(Record) /\ last_mem \in Memory

EventTypes ==
  /\ seen_exception \in BOOLEAN /\ curr_pc \in Nat /\ mem \in Memory
  /\ bypctree \subseteq [pc : Nat, line : Nat]
  /\ curr_iflags \in States /\ insns_since_lr_update \in 0 .. LRWriteThreshold
  /\ expected_next_pc \in Nat /\ expected_next_lr \in Nat

PendingCall == [sp : 0 .. ULLONG_MAX, pc : Nat, call_line : Nat \ {0}]
CallReturn == [line : Nat \ {0}, direction : {1, -1}]
MatchedCall == [call : Nat \ {0}, ret : Nat \ {0}, sp : 0 .. ULLONG_MAX,
                state : States]

CallTypes ==
  /\ pending_calls \subseteq PendingCall /\ found_callrets \subseteq CallReturn
  /\ matched \subseteq MatchedCall
  /\ visited \in Nat /\ curr_depth \in Int /\ passed \subseteq CallReturn

TypeOK == ReadTypes /\ RecordTypes /\ EventTypes /\ CallTypes

(* The records cover the file from its first event on without gap or       *)
(* overlap, in bytes and in lines, whatever parts of lines the parser      *)
(* rejected at the end: each starts where the one before it ends, none is  *)
(* empty, and the last ends where the open one starts, or the file ends.   *)
Tiles(s, pos, line) ==
  /\ \A i \in DOMAIN s :
       /\ s[i].len > 0 /\ s[i].lines > 0
       /\ s[i].pos + s[i].len = IF i < Len(s) THEN s[i + 1].pos ELSE pos
       /\ s[i].line + s[i].lines = IF i < Len(s) THEN s[i + 1].line ELSE line
  /\ s # <<>> => s[1].line = 1

RecordsTile ==
  phase # "failed" => IF Reading THEN Tiles(seqtree, oldpos, prev_lineno)
                      ELSE Tiles(seqtree, linepos, lineno)

(* Time never runs backwards along the sequential-order tree. *)
TimesRise ==
  \A i \in 2 .. Len(seqtree) : seqtree[i - 1].time <= seqtree[i].time

(* What build_call_tree() relies on.  Every call that was matched with a   *)
(* return is in found_callrets with both its ends, although an entry for a *)
(* line that has one already would be lost without a word; no line is used *)
(* twice, and a call is before its return.                                 *)
Ends(m) == {[line |-> m.call, direction |-> 1],
            [line |-> m.ret, direction |-> -1]}

CallsPaired ==
  /\ found_callrets = UNION {Ends(m) : m \in matched}
  /\ \A m \in matched : m.call < m.ret
  /\ \A m, n \in matched :
       m # n => {m.call, m.ret} \cap {n.call, n.ret} = {}

(* CallDepthCountingTreeWalker's iterator waits for the record its entry   *)
(* names: an entry for a line that starts no record would stop it for      *)
(* good.                                                                   *)
FirstLines(s) == {s[i].line : i \in DOMAIN s}
RecordLines == FirstLines(seqtree)
               \cup (IF Reading /\ seen_any_event THEN {prev_lineno} ELSE {})

CallretsAtRecords ==
  phase # "failed" => \A c \in found_callrets : c.line \in RecordLines

(* A record's call depth is the number of matched calls it is inside of:   *)
(* never negative, and back where it was after each return.                *)
OpenCalls(at) == {m \in matched : m.call <= at /\ at < m.ret}

DepthIsOpenCalls ==
  \A k \in 1 .. visited :
    seqtree[k].depth = Cardinality(OpenCalls(seqtree[k].line))

(* A return is only matched with a call whose frame was still there: no    *)
(* record between the two left the stack pointer above the call's, as long *)
(* as the execution state stayed the same.  update_sp() is late by up to a *)
(* record, since it reads the stack pointer from last_mem.                 *)
Inside(m) == {k \in DOMAIN seqtree :
                m.call <= seqtree[k].line /\ seqtree[k].line < m.ret}

FramesNeverPopped ==
  \A m \in matched :
    (\A k \in Inside(m) : seqtree[k].mem.iflags = m.state) =>
      \A k \in Inside(m) :
        LET sp == seqtree[k].mem.cell[SpOf(m.state)]
        IN sp = Unknown \/ sp <= m.sp

(* Two calls that cross instead of nesting have the same stack pointer, if *)
(* they return in the same execution state.                                *)
CrossingCallsShareSp ==
  \A m, n \in matched :
    (/\ m.call < n.call /\ n.call < m.ret /\ m.ret < n.ret
     /\ n.state = m.state
     /\ \A k \in Inside(m) \cup Inside(n) : seqtree[k].mem.iflags = m.state)
    => m.sp = n.sp

(* What update_pc matches is a call and its return, as far as the stack    *)
(* pointer can tell.                                                       *)
MatchesKeepFrames == FramesNeverPopped /\ CrossingCallsShareSp

-----------------------------------------------------------------------------
(***************************************************************************)
(* The inductive invariant.                                                *)
(***************************************************************************)
(* Either no event of this line has been handled, and the line is beyond   *)
(* the beginning of the open record; or the open record has the line's     *)
(* time already, and no instruction is left in the line.                   *)
LineOK ==
  phase = "line" =>
    /\ trace # <<>> /\ (eof => trace[Len(trace)].bytes > 1)
    /\ \A i \in DOMAIN todo :
         /\ todo[i].time = todo[1].time
         /\ todo[i].kind = "insn" => Len(todo) = 1
    /\ todo # <<>> =>
         \/ seen_any_event => lineno > prev_lineno /\ linepos > oldpos
         \/ /\ seen_any_event /\ todo[1].time <= current_time
            /\ todo[1].kind # "insn"

(* Where the reader is, and where the open record began. *)
PositionOK ==
  Reading =>
    /\ seen_any_event <=> current_time # NoTime
    /\ ~seen_any_event => /\ seqtree = <<>> /\ ~seen_instruction
                          /\ oldpos = 0 /\ prev_lineno = 1 /\ lineno = 1
    /\ seen_any_event /\ seqtree = <<>> => prev_lineno = 1
    /\ oldpos <= linepos /\ prev_lineno <= lineno
    /\ phase = "read" => /\ seen_any_event => linepos > oldpos
                         /\ eof => linepos >= oldpos + 2

(* The records are in the order of their lines and times, all before the   *)
(* open one.                                                               *)
Sorted(s) ==
  \A i, j \in DOMAIN s : i < j => s[i].line < s[j].line /\ s[i].time <= s[j].time

SeqOK ==
  /\ Sorted(seqtree)
  /\ \A i \in DOMAIN seqtree :
       /\ seqtree[i].time <= current_time
       /\ Reading => seqtree[i].line < prev_lineno

(* The lines the call heuristic has put a mark on: each starts a record,   *)
(* and the open record can have one only if it has its instruction.        *)
Marks == {p.call_line : p \in pending_calls}
         \cup {m.call : m \in matched} \cup {m.ret : m \in matched}

MarksOK ==
  /\ phase # "failed" => Marks \subseteq RecordLines
  /\ Reading => \A at \in Marks :
                  at <= prev_lineno /\ (at = prev_lineno => seen_instruction)
  /\ \A p, q \in pending_calls : p # q => p.call_line # q.call_line
  /\ \A p \in pending_calls, m \in matched :
       p.call_line # m.call /\ p.call_line # m.ret

(* The walk over the records has counted the entries it has passed. *)
LastVisited == IF visited = 0 THEN 0 ELSE seqtree[visited].line

WalkOK ==
  /\ visited <= Len(seqtree) /\ (Reading => visited = 0)
  /\ passed = {c \in found_callrets : c.line <= LastVisited}
  /\ IsFiniteSet(matched)
  /\ curr_depth = Cardinality(OpenCalls(LastVisited))
  /\ DepthIsOpenCalls

RecordsOK == LineOK /\ PositionOK /\ SeqOK /\ RecordsTile
CallsOK == CallsPaired /\ MarksOK
IInv == TypeOK /\ RecordsOK /\ CallsOK /\ WalkOK
====
