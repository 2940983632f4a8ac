------------------------------ MODULE IndexFile ------------------------------
(***************************************************************************)
(* The life of an index file: several tools, started one after another or  *)
(* side by side, look for the index of one trace, build it if they think   *)
(* they must, and browse it, while a simulator writes the trace anew and   *)
(* any tool may be killed at any point.                                    *)
(*                                                                         *)
(* A file is a sequence of cells: one for the magic number and the header, *)
(* one for each part of the index proper.  A cell stands for a page or     *)
(* more, so that a store beyond the end of the file is a bus error: the    *)
(* action of that store is not enabled, and Kill is.  Every invocation of  *)
(* a tool is a run, with a number; a file is named by the run that created *)
(* it, as an inode outlives its name.  Clocks count whole seconds, like    *)
(* the time stamps the code compares.                                      *)
(***************************************************************************)
EXTENDS Integers, Sequences, FiniteSets

CONSTANTS
    Tool,        \* processes; each runs one tool after another
    Parts,       \* number of cells of a finished index after its header
    Slack,       \* cells that Arena::alloc asks for in advance
    MaxRun,      \* bound on invocations
    MaxClock,    \* bound on seconds
    MaxVersion   \* bound on the number of times the trace is written

ASSUME BoundsAssumption ==
    /\ Parts \in Nat \ {0} /\ Slack \in Nat
    /\ MaxRun \in Nat /\ MaxClock \in Nat /\ MaxVersion \in Nat

Run == 1 .. MaxRun
None == 0

VARIABLES
    clock,      \* the time of day in seconds
    trace,      \* the trace file: mtime, version (0: it holds no events yet)
    name,       \* the inode the index's file name leads to, or None
    file,       \* inode -> cells and mtime
    tool,       \* process -> what its current run is doing, and its arena
    runs,       \* number of runs started
    overlap,    \* history: inodes that two runs had open for writing at once
    reused,     \* history: inodes that some run opened without creating them
    torn,       \* history: inodes whose run died between flags and roots
    racy        \* history: inodes of traces written during the run, or in
                \*   the very second of the inode's time stamp

vars == << clock, trace, name, file, tool, runs, overlap, reused, torn, racy >>

-----------------------------------------------------------------------------
(* Cells.  A fresh cell is all zeros, which is no valid magic number.      *)

Zero == [kind |-> "zero"]
Header(complete, roots) ==
    [kind |-> "header", complete |-> complete, roots |-> roots]
PartOffByOne(r, k, v) ==   \* mutant
    [kind |-> "part", run |-> r, part |-> k + 1, version |-> v]
Part(r, k, v) == [kind |-> "part", run |-> r, part |-> k, version |-> v]

\* ftruncate(fd, n): cut the file, or extend it with zeros.
Truncated(cells, n) ==
    [i \in 1 .. n |-> IF i <= Len(cells) THEN cells[i] ELSE Zero]

\* The header a store of one of its fields finds in cell p.
HeaderAt(cells, p) ==
    IF p <= Len(cells) /\ cells[p].kind = "header" THEN cells[p]
    ELSE Header(FALSE, << >>)

Idle == {"idle", "aborted"}
Writing == {"header", "part", "flags", "roots", "close"}
Indexing == Writing \cup {"remove", "create"}

\* The tools that have inode i mapped for writing.
WritersOf(i) == {t \in Tool : tool[t].pc \in Writing /\ tool[t].inode = i}

\* A process that runs no tool.
NoRun ==
    [pc |-> "idle", run |-> 0, stamp |-> 0, inode |-> None, header |-> 0,
     next |-> 0, size |-> 0, parts |-> << >>, events |-> FALSE,
     roots |-> << >>, built |-> FALSE, checked |-> FALSE,
     version |-> 0, disturbed |-> FALSE]

Goto(t, label) == tool' = [tool EXCEPT ![t].pc = label]

\* The run of t ends, normally or with a message ...
End(t) == tool' = [tool EXCEPT ![t] = NoRun]

\* ... or dies at an assertion, which the process's user is left with.
Abort(t) ==
    tool' = [tool EXCEPT ![t] =
                [NoRun EXCEPT !.pc = "aborted", !.checked = tool[t].checked,
                              !.disturbed = tool[t].disturbed]]

\* Tool t goes on as r says, having changed something that the other runs
\* under way may see.
Visibly(t, r) ==
    tool' = [u \in Tool |->
                IF u = t THEN r
                ELSE [tool[u] EXCEPT !.disturbed = @ \/ tool[u].pc \notin Idle]]

-----------------------------------------------------------------------------
(* The check, and the decision to build an index.                          *)

\* A tool is started.  In automatic mode it notes the trace's time stamp.
Start(t, mode) ==
    /\ tool[t].pc \in Idle
    /\ runs < MaxRun
    /\ runs' = runs + 1
    /\ tool' = [tool EXCEPT ![t] =
           [NoRun EXCEPT
               !.pc = CASE mode = "auto" -> "stat"
                        [] mode = "force" -> "remove"
                        [] OTHER -> "open",
               !.run = runs + 1,
               !.stamp = IF mode = "auto" THEN trace.mtime ELSE 0,
               !.checked = mode # "never",
               !.version = IF mode = "never" THEN 0 ELSE trace.version,
               !.disturbed = \E u \in Tool \ {t} : tool[u].pc \in Indexing]]
    /\ UNCHANGED << clock, trace, name, file, overlap, reused, torn, racy >>

\* Missing, or older than the trace.
TooOldNever(i, stamp) == i = None   \* mutant
MissingOrTooOld(i, stamp) == i = None \/ file[i].mtime < stamp

StatIndex(t) ==
    /\ tool[t].pc = "stat"
    /\ tool' = [tool EXCEPT ![t] = [@ EXCEPT
           !.pc = IF MissingOrTooOld(name, tool[t].stamp)
                  THEN "remove" ELSE "check",
           !.stamp = 0]]
    /\ UNCHANGED << clock, trace, name, file, runs, overlap, reused, torn, racy >>

\* Magic number and FLAG_COMPLETE.
CompleteMagicOnly(cell) == cell.kind = "header"   \* mutant
Complete(cell) == cell.kind = "header" /\ cell.complete

\* check_index_header: the file may have gone since (a fatal error), or have
\* no bytes at all (the assertion in getptr).
CheckHeader(t) ==
    /\ tool[t].pc = "check"
    /\ IF name = None THEN End(t)
       ELSE IF file[name].cells = << >> THEN Abort(t)
       ELSE Goto(t, IF Complete(file[name].cells[1]) THEN "open" ELSE "remove")
    /\ UNCHANGED << clock, trace, name, file, runs, overlap, reused, torn, racy >>

-----------------------------------------------------------------------------
(* Building the index.                                                     *)

\* open_index_file: remove(), which nothing checks ...
NameKept == name   \* mutant
NameRemoved == None

Remove(t) ==
    /\ tool[t].pc = "remove"
    /\ name' = NameRemoved
    /\ Visibly(t, [tool[t] EXCEPT !.pc = "create"])
    /\ UNCHANGED << clock, trace, file, runs, overlap, reused, torn, racy >>

\* ... then open() with O_CREAT, and neither O_EXCL nor O_TRUNC: a file that
\* another run created meanwhile is opened as it is, and allocation starts
\* at its end.
FirstFreeZero(i) == 0   \* mutant
FirstFree(i) == Len(file[i].cells)

Create(t) ==
    LET i == IF name = None THEN tool[t].run ELSE name
        end == FirstFree(i)
    IN /\ tool[t].pc = "create"
       /\ name' = i
       /\ file' = IF name = None
                  THEN [file EXCEPT ![i] = [cells |-> << >>, mtime |-> clock]]
                  ELSE file
       /\ Visibly(t, [tool[t] EXCEPT !.pc = "header", !.inode = i,
                       !.next = end, !.size = end, !.built = TRUE])
       /\ overlap' = IF WritersOf(i) # {} THEN overlap \cup {i} ELSE overlap
       /\ reused' = IF name = None THEN reused ELSE reused \cup {i}
       /\ UNCHANGED << clock, trace, runs, torn, racy >>

\* Arena::alloc finds too little room and resizes the file.
Grow(t) ==
    LET i == tool[t].inode
        n == tool[t].next + 1 + Slack
    IN /\ tool[t].pc \in {"header", "part"}
       /\ tool[t].next = tool[t].size
       /\ file' = [file EXCEPT ![i] =
              [cells |-> Truncated(@.cells, n), mtime |-> clock]]
       /\ Visibly(t, [tool[t] EXCEPT !.size = n])
       /\ UNCHANGED << clock, trace, name, runs, overlap, reused, torn, racy >>

\* A store of cell p through the mapping; the system notes it as a
\* modification of the file now or has done so before.
Store(t, p, cell) ==
    LET i == tool[t].inode
    IN /\ p <= Len(file[i].cells)
       /\ \E m \in {file[i].mtime, clock} :
             file' = [file EXCEPT ![i] =
                         [cells |-> [@.cells EXCEPT ![p] = cell], mtime |-> m]]

\* The rest of open_index_file: the header is allocated, its flags are
\* cleared and the magic number is set.
InitHeader(t) ==
    /\ tool[t].pc = "header"
    /\ tool[t].next < tool[t].size
    /\ Store(t, tool[t].next + 1,
             Header(FALSE, HeaderAt(file[tool[t].inode].cells,
                                    tool[t].next + 1).roots))
    /\ Visibly(t, [tool[t] EXCEPT !.pc = "part", !.next = @ + 1,
                            !.header = tool[t].next + 1])
    /\ UNCHANGED << clock, trace, name, runs, overlap, reused, torn, racy >>

\* read_one_trace_line and build_call_tree: one more part of the index, made
\* from the trace as it is now.
WritePart(t) ==
    LET k == Len(tool[t].parts) + 1
        p == tool[t].next + 1
    IN /\ tool[t].pc = "part"
       /\ tool[t].next < tool[t].size
       /\ Store(t, p, Part(tool[t].run, k, trace.version))
       /\ Visibly(t, [tool[t] EXCEPT
              !.pc = IF k = Parts THEN "flags" ELSE "part", !.next = p,
              !.parts = Append(@, p), !.events = @ \/ trace.version > 0])
       /\ UNCHANGED << clock, trace, name, runs, overlap, reused, torn, racy >>

\* A line that is no Tarmac, and not the last one: the run removes what the
\* file name leads to, whoever made it, and gives up.
ParseError(t) ==
    /\ tool[t].pc = "part"
    /\ name' = None
    /\ Visibly(t, NoRun)
    /\ UNCHANGED << clock, trace, file, runs, overlap, reused, torn, racy >>

\* finalise_index gives up on a trace without events.  exit() runs no
\* destructor of a local variable, so the file stays as it is.
NoEvents(t) ==
    /\ tool[t].pc = "flags"
    /\ ~tool[t].events
    /\ End(t)
    /\ UNCHANGED << clock, trace, name, file, runs, overlap, reused, torn, racy >>

\* finalise_index stores the flags, FLAG_COMPLETE among them ...
StoreFlags(t) ==
    LET p == tool[t].header
    IN /\ tool[t].pc = "flags"
       /\ tool[t].events
       /\ Store(t, p, Header(TRUE, HeaderAt(file[tool[t].inode].cells, p).roots))
       /\ Visibly(t, [tool[t] EXCEPT !.pc = "roots"])
       /\ UNCHANGED << clock, trace, name, runs, overlap, reused, torn, racy >>

\* ... and then the roots of the trees.
StoreRoots(t) ==
    LET p == tool[t].header
    IN /\ tool[t].pc = "roots"
       /\ Store(t, p, Header(HeaderAt(file[tool[t].inode].cells, p).complete,
                             tool[t].parts))
       /\ Visibly(t, [tool[t] EXCEPT !.pc = "close"])
       /\ UNCHANGED << clock, trace, name, runs, overlap, reused, torn, racy >>

\* ~MMapFile cuts the file to what was allocated.
Close(t) ==
    /\ tool[t].pc = "close"
    /\ file' = [file EXCEPT ![tool[t].inode] =
           [cells |-> Truncated(@.cells, tool[t].next), mtime |-> clock]]
    /\ Visibly(t, [tool[t] EXCEPT !.pc = "open"])
    /\ UNCHANGED << clock, trace, name, runs, overlap, reused, torn, racy >>

-----------------------------------------------------------------------------
(* Using the index.                                                        *)

\* The constructor of IndexReader checks the magic number and nothing else.
Open(t) ==
    /\ tool[t].pc = "open"
    /\ IF name = None THEN End(t)
       ELSE IF file[name].cells = << >> THEN Abort(t)
       ELSE IF file[name].cells[1].kind # "header" THEN End(t)
       ELSE tool' = [tool EXCEPT ![t] =
                [@ EXCEPT !.pc = "reading", !.inode = name,
                          !.header = 0, !.next = 0, !.size = 0,
                          !.roots = file[name].cells[1].roots]]
    /\ UNCHANGED << clock, trace, name, file, runs, overlap, reused, torn, racy >>

\* The user is done with the tool (--only-index: before it opens the index).
Quit(t) ==
    /\ tool[t].pc \in {"open", "reading"}
    /\ End(t)
    /\ UNCHANGED << clock, trace, name, file, runs, overlap, reused, torn, racy >>

-----------------------------------------------------------------------------
(* The world around the tools.                                             *)

\* Any tool may be killed between any two steps.
Kill(t) ==
    /\ tool[t].pc \notin Idle
    /\ End(t)
    /\ torn' = IF tool[t].pc = "roots" THEN torn \cup {tool[t].inode} ELSE torn
    /\ UNCHANGED << clock, trace, name, file, runs, overlap, reused, racy >>

\* A simulator writes a new trace over the old one.
WriteTrace ==
    /\ trace.version < MaxVersion
    /\ trace' = [mtime |-> clock, version |-> trace.version + 1]
    /\ racy' = racy \cup
           {i \in Run : \/ WritersOf(i) # {}
                        \/ file[i].cells # << >> /\ file[i].mtime = clock}
    /\ UNCHANGED << clock, name, file, tool, runs, overlap, reused, torn >>

Tick ==
    /\ clock < MaxClock
    /\ clock' = clock + 1
    /\ UNCHANGED << trace, name, file, tool, runs, overlap, reused, torn, racy >>

Init ==
    /\ clock = 0
    /\ trace = [mtime |-> 0, version |-> 0]
    /\ name = None
    /\ file = [i \in Run |-> [cells |-> << >>, mtime |-> 0]]
    /\ tool = [t \in Tool |-> NoRun]
    /\ runs = 0
    /\ overlap = {} /\ reused = {} /\ torn = {} /\ racy = {}

Next ==
    \/ \E t \in Tool :
          \/ \E mode \in {"auto", "force", "never"} : Start(t, mode)
          \/ StatIndex(t) \/ CheckHeader(t)
          \/ Remove(t) \/ Create(t) \/ Grow(t) \/ InitHeader(t)
          \/ WritePart(t) \/ ParseError(t) \/ NoEvents(t)
          \/ StoreFlags(t) \/ StoreRoots(t) \/ Close(t)
          \/ Open(t) \/ Quit(t) \/ Kill(t)
    \/ WriteTrace
    \/ Tick

Spec == Init /\ [][Next]_vars

-----------------------------------------------------------------------------
(* What an index file is good for.                                         *)

\* All parts of one index, made by one run, are where the roots say.
MadeBy(r, cells, roots) ==
    \A k \in 1 .. Len(roots) :
        /\ roots[k] \in 1 .. Len(cells)
        /\ cells[roots[k]].kind = "part"
        /\ cells[roots[k]].run = r
        /\ cells[roots[k]].part = k

Leads(cells, roots) == Len(roots) = Parts /\ \E r \in Run : MadeBy(r, cells, roots)

\* A reader of these cells is told that the index is complete, and it is.
Whole(cells) ==
    /\ cells # << >>
    /\ cells[1].kind = "header"
    /\ cells[1].complete
    /\ Leads(cells, cells[1].roots)

Cell ==
    [kind : {"zero"}]
    \cup [kind : {"header"}, complete : BOOLEAN, roots : Seq(Nat)]
    \cup [kind : {"part"}, run : Run, part : 1 .. Parts, version : Nat]

ToolState ==
    [pc : Idle \cup Indexing \cup {"stat", "check", "open", "reading"},
     run : {0} \cup Run, stamp : Nat, inode : {None} \cup Run, header : Nat,
     next : Nat, size : Nat, parts : Seq(Nat), events : BOOLEAN,
     roots : Seq(Nat), built : BOOLEAN, checked : BOOLEAN, version : Nat,
     disturbed : BOOLEAN]

\* Types of all variables.
TypeOK ==
    /\ clock \in Nat
    /\ trace \in [mtime : Nat, version : Nat]
    /\ name \in {None} \cup Run
    /\ file \in [Run -> [cells : Seq(Cell), mtime : Nat]]
    /\ tool \in [Tool -> ToolState]
    /\ runs \in 0 .. MaxRun
    /\ overlap \subseteq Run /\ reused \subseteq Run
    /\ torn \subseteq Run /\ racy \subseteq Run

\* updateIndexIfNeeded and IndexReader: whatever earlier tools did or left
\* undone when they were killed, a tool that checked the index and was not
\* overtaken by another opens an index that is whole.  There are two
\* exceptions: the run that made the index died between the store of the
\* flags and the store of the roots, or two runs made it at the same time.
OpenedWhole ==
    \A t \in Tool :
        LET cells == file[tool[t].inode].cells
        IN ( /\ tool[t].pc = "reading"
             /\ tool[t].checked
             /\ ~tool[t].disturbed
             /\ tool[t].inode \notin torn \cup overlap )
           => Whole(cells) /\ tool[t].roots = cells[1].roots

\* open_index_file: a tool that built an index and was not overtaken goes on
\* to read what it has built, and not what was there before.
ReadsWhatItBuilt ==
    \A t \in Tool :
        ( /\ tool[t].pc = "reading"
          /\ tool[t].built
          /\ ~tool[t].disturbed )
        => /\ Len(tool[t].roots) = Parts
           /\ MadeBy(tool[t].run, file[tool[t].inode].cells, tool[t].roots)

\* A whole index, which tools may be reading, is never spoilt: an index is
\* built in a file of its own, or behind what another run has finished.
\* Only two runs that had one file open at the same time can spoil it.
StaysWhole ==
    [][ \A i \in Run :
          Whole(file[i].cells) /\ i \notin overlap' => Whole(file[i].cells)' ]_vars

\* updateIndexIfNeeded, the time stamps: a tool that checked the index reads
\* one made from the trace as it was when the tool was started, or from a
\* later one, unless the trace was written while the index was being made or
\* in the second of its time stamp, or another run wrote to the file as well.
NoOlderThanTrace ==
    \A t \in Tool :
        LET cells == file[tool[t].inode].cells
        IN ( /\ tool[t].pc = "reading"
             /\ tool[t].checked
             /\ ~tool[t].disturbed
             /\ tool[t].inode \notin torn \cup reused \cup racy )
           => \A k \in 1 .. Parts :
                 cells[tool[t].roots[k]].version >= tool[t].version

\* updateIndexIfNeeded: the index that a tool opens is whole and not older
\* than the trace, with the exceptions that the two parts name.
OpenedSound == OpenedWhole /\ NoOlderThanTrace

\* "Incomplete, // rebuild needed: previous generation did not finish"
\* (reporter.hh): a tool in automatic mode does not die of what an earlier
\* run left behind.
UnfinishedIsRebuilt ==
    \A t \in Tool : tool[t].pc = "aborted" => tool[t].disturbed \/ ~tool[t].checked
=============================================================================
