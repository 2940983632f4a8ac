# Tarmac Trace Utilities: TLA+ models

Tarmac Trace Utilities read the textual execution traces of Arm Fast Models
("Tarmac" traces), build a binary index next to a trace, and browse, query
and convert the trace through the index.  This directory holds TLA+ models of
the parts that carry the program's own logic, the TLC configurations that
check them on small instances, and proofs of their main properties that TLAPS
checks for every value of the constants.

Source lines below are relative to the repository: `index.cpp` is
`lib/index.cpp`, `disktree.hh` is `include/libtarmac/disktree.hh`, and so on.
Comments in the modules name the function a definition translates.

## 1. The system

```
 trace file --> TarmacLineParser --events--> Index (index.cpp)
                                               |  memtree   registers, memory, call depth arrays
                                               |  seqtree   the records, by line and by time
                                               |  bypctree  visits by address
                                               v
                                          AVLDisk trees in an Arena (MMapFile) = index file
                                               |
            IndexReader / IndexNavigator <-----+
               |            |           |
             browser    call tree,   vcd, indextool ...
           (TraceView)  profile
```

A tool runs in one thread, the graphical browser in one event loop; the only
concurrency is that of several tools that meet over one index file (section 6).
What makes the code hard is state that is shared, stale or written in place:

* several trees, old and new versions of them, share nodes in one arena, and
  an update may write a node only if nobody else can see it;
* the handlers of the indexer run in the middle of a record, and read and
  write counters that belong to the record before, the one being built, or the
  line just read;
* a read of memory in the trace may tell the index what memory contained
  long before, so trees "of the past" are filled in later (hindsight);
* the arena is a mapped file that may move whenever it grows;
* the browsers keep two positions, a tree of folds and windows that follow, and
  every key and click has to bring them in step again, in the right order;
* what a mouse click means is decided by what was painted last, which is not
  always what is there now.

### Components

| Component | State | Operations | What is hard | What makes it correct |
|---|---|---|---|---|
| **AVLDisk** (`disktree.hh`) | nodes in an arena, a refcount per node or a high-water mark, a free list | insert, remove, find*, succ, pred, walk, clone_tree, free_tree, commit | which nodes may be written in place in the middle of a recursive, rebalancing update; annotations above a changed child | each root is a set of its own; committed roots never change; balance, annotations, refcounts exact; nothing leaks, nothing in use is reused |
| **Index, the pass** (`index.cpp` 100-470, 888-1140) | line, byte and time counters; the open record; register values now and when the record began; pending and matched calls | read a line, handle each kind of event, end of file, parse error, build the call tree | counters of three different "nows"; a line with no event, several events or no newline; times that go back; calls guessed from SP and LR only | records tile the file and say what its lines say; times never fall; by-PC entries exact; depths are the numbers of calls around a record |
| **Index, memory tree** (`index.cpp` 472-737) | disjoint intervals of memory and register space, each known bytes or a pointer to a shared subtree of later knowledge | write, make unknown, read (hindsight) | splitting intervals; filling a gap of an old version from a later read; wraparound at the last address; pointers into a moving mapping | never two answers for a byte; what is known stays known; a read is visible in every older version in which the byte was the same |
| **CallDepthArrays, IndexNavigator** (`index.cpp` 739-886, 1165-1895) | per record, cumulated line counts by depth with links into the children's arrays | line translation by depth (`lrt_translate`), node_at_time, node_at_line, getmem, find_next_mod | sentinels, off-by-ones between levels; searches in annotated trees | equal to counting over the records |
| **Index file life cycle** (`index.cpp` 958-1195, `tarmacutil.cpp` 165-210, `platform/unix.cpp`) | file times, FLAG_COMPLETE, roots in the header | is-it-up-to-date check, remove and recreate, complete, open | a crash while indexing, two tools at once, a trace that grows, 1-second file times | an index taken for up to date and complete is one of this trace |
| **Arena, MMapFile** (`disktree.hh` 33-88, `misc.cpp`, `platform/*.cpp`) | mapping, size, next offset | alloc, grow and remap, truncate on close | a pointer taken before an alloc | offsets stay valid; nobody keeps a pointer over an alloc |
| **AVLMem** (`memtree.hh`) | an annotated tree on the C++ heap | insert, remove, search | removal by a range while the tree is rebalanced; annotations | balanced, sorted, annotations exact |
| **TraceView, fold states** (`browser/browse.cpp`) | a tree of regions with the depths each shows; the visible and the logical node | fold, unfold, go to a line, time, pc or exception, next and previous visible node | regions cut by later ones; two positions, each computed from the other through the folds | visible and physical lines translate as counting does; the visible node is visible and the logical one hidden behind it or the same |
| **CallTree, CallInfo, profiling** (`calltree.cpp`, `callinfo.cpp`, tools) | tree of calls with inclusive/exclusive counts | walk, visit by function | arrival at a depth that jumps | counts add up |
| **tarmac-vcd, tarmac-truncate** | writer's current time; loop detectors | step, change; feed a line | repetition thresholds | no change lost; cut only at loops |
| **TarmacLineParser, expr, registers, image/ELF, argparse, format, reporter, platform** | mostly none | text, symbols, options | text | mostly pure functions |
| **Terminal browser** (`browser/curses.cpp`) | trace buffer, first line on the screen, selected event, windows below (locked, compared, following an expression), focus, minibuffer, help | one key at a time | the order in which position, folds, screen and windows are brought in step; windows that are locked or closed while something refers to them | the keys fold what they say, the position stays on the screen, windows show and highlight what they should |
| **Graphical browser** (`browser/wx.cpp`) | registries of trace windows and views with their free indices; per window a TraceView, the scroll position, what was drawn, a selection; per view what it is linked to | keys, toolbar, menus, mouse, opening, linking and closing windows | registries with holes; views told of a position that changes again; clicks on what was drawn before | registries whole; views show their window's position; selections hold what was clicked |

## 2. Plan

Order, most important behaviour first.  "done" parts are described below.

1. **AVL trees** (done): `AVLHeap` (node store and helpers), `AVLDisk` (the
   operations, one action per recursion level), `AVLSearch` (read-only
   operations), `PersistentSets` (what the trees promise), `MCAVLDisk`;
   proofs in `AVLDiskProofs` and `AVLSetsProofs`.
2. **The indexing pass** (done): `Indexer`, `MCIndexer`, `IndexerProofs`,
   `IndexerTrace`.
3. **Memory tree with hindsight** (done but for the last sentence): `MemTree`,
   its abstraction `ByteMemory`, `MemQuery` (the queries), `MCMemTree` with the
   refinement, `MemTreeProofs`, `MemQueryProofs`.  To come: the semihosting
   rules, whose buffers of length 0 make intervals that `MemTree` leaves out,
   and `update_memtree_if_necessary`.
4. **Queries** (done): `AVLMem`, and on it `Navigator` (the merge of the
   CallDepthArrays, `lrt_translate`, node_at_time, node_at_line, find_next_mod
   with its search by annotation).
5. **Index file life cycle** (done): `IndexFile`, `MCIndexFile`,
   `IndexFileProofs`.
6. **The browsers** (done): `TraceView` (folds and positions); `CursesUI`, which
   extends it, and `WxUI` (with `WxText`, selections), which takes its operators
   as constants; `MCView` has what folds and positions mean and the traces,
   `MCCurses` and `MCWx` the sessions and the properties that need both;
   `WxProofs`.
7. To come: semihosting in `MemTree`, the call tree and the profile of it,
   truncate and VCD, as small state machines.
8. Further theorems.  Done: that `AVLDisk` implements `PersistentSets` in hwm
   mode and its searches answer the truth, that `MemTree` implements `ByteMemory`,
   `QueriesExact` of it, `OpenedSound` of index files, `MatchesKeepFrames` and
   `IndexDescribesTrace` of the indexing pass, and of the graphical browser the registries, who follows whom, and selections.
   To come: refcounting mode of AVLDisk (free nodes are never reachable), and the
   windows of the terminal browser, once `CursesUI` takes the browser core as
   constants too.

## 3. AVL trees

**Correspondence.**  A heap is a record of `node`, `refcount`, `next`, `free`,
`hwm`; offsets count nodes instead of bytes (all nodes of one tree have one
size) and 0 is null.  `Get`, `Put`, `Immutable`, `AllocNode`, `CloneNode`,
`Rewrite`, `RotateLeft/Right`, `FixLeftHeavy/RightHeavy` in `AVLHeap` are the
C++ helpers; each takes a heap and returns one, so a statement sequence reads
as a chain of LETs.  A payload is a number compared by order; an annotation is
the most general one the template could be given, the set of payloads it was
computed from, so a stale or wrong annotation is always visible.

In `AVLDisk` each level of the recursion of `insert_main`, `remove_main` and
`free_node` is one action on the way down and one on the way back.  The C++
stack is `stack` (and `todo` for `free_node`), `cur` and `must` are the
arguments of the level running, `ret` the node struct the level below
returned.  That lets the invariants speak about every heap in the middle of an
update.  `roots`, `kept`, `snaps` are the caller's knowledge: root offsets,
what it put in and took out, and the roots saved at each commit with what they
held.  `search` (const), `find*`, `succ`, `pred` and `visit` are pure
operators in `AVLSearch`.  `search` and the `walk` that writes annotations take
a callback, and are modelled with the callbacks they are given, in `Navigator`.

**Abstract specification.**  `PersistentSets`: each tree is a set, an update
changes one of them in one atomic step, saved trees never change.
`MCAVLDisk!ImplementsSets` is the refinement: a recursive update maps to
stutters and one atomic step; while tree t is being updated its old root stands
for `kept[t]`, all others are read from the heap itself.

**Runs** (module `MCAVLDisk`).

| run | instance | shows |
|---|---|---|
| `avl_hwm` | 1 tree, keys 1..4, 7 calls of insert/remove/commit, finders for each key and a range 2..3 (698,640 states) | the mode the index uses: committed nodes never change, saved trees keep their contents, all searches are right in live and in saved trees and `remove` reports the truth (`AnswersTrue`), refinement |
| `avl_shared` (module `MCAVLShared`) | refcounting, 2 trees, keys 1..4, 6 calls of every operation but `commit` (1,204,594 states) | as long as nothing has been removed, balance and exact annotations (`InsertionsBalance`) and bystanders untouched even half way through an update (`InsertionsUnseen`); unless trees have been both cloned and removed from, refcounts are the numbers of links and owners and the free list is exactly the unreachable nodes (`CountsExact`) |
| `avl_unbalanced` | 1 tree, insert and remove without commit | **violation** of `Balanced`, finding 1 |
| `avl_shared_remove` | refcounting with remove | **violation** of `BystandersUntouched`, finding 2 |

Four keys give trees of height 3, which single and double rotations on both
sides, removal of a node with two children whose successor is deeper, and
sharing of inner nodes all need; seven calls in hwm mode allow four insertions
with a commit and two removals among them.  `MaxUpdates` is the only bound of
the model.

**Proved** (`AVLDiskProofs`), for every key set, set of
trees, finders and number of updates:
`TypeCorrect`, `CommittedNodesFrozen` and `SavedTreesStayFrozen`.
The inductive invariant is `TypeOK /\ ModeOK /\ SavedTreesFrozen`.
`TypeOK` alone is not inductive as a bound on offsets: it carries `PathOK`,
which says that a level that will go on after its child returns has a node to
go on with.  `ModeOK` says what the mode never uses (no free list in hwm mode,
hence an allocation is never below the mark).  The proof rests on one notion
of what a helper may do to a heap (`Extends`: the result is a
well-formed heap with all the offsets there were and the same high-water mark,
in which whatever is below the mark is as it was); each helper is shown to
extend its heap once, and each action is a composition of helpers.

**Proved** (`AVLSetsProofs`), in hwm mode, for every key set, set of trees,
finders and number of updates: `ForestKept`, `AnswersAreTrue` (`AnswersTrue`) and
`TreesImplementSets` (`ImplementsSets`, the refinement).  An update takes its
tree apart on the way down and puts it together, rotated, on the way up, and
writes to some of the nodes in place: in the middle of it no root leads to the
tree the caller thinks of, and most nodes may be changed under somebody who
still has their offset.  So the invariant, `TreesOK`, is about pieces:

* a labelling gives nodes the payloads below them, and makes every labelled
  node the root of a search tree (`Labelled`);
* the pieces are what somebody goes on from (`Held`): the roots of the trees
  nobody is updating, the child each recursion level has not gone into, and what
  the innermost level works on (`Focus`);
* a node at or above the high-water mark, which may be written to, has one link
  or one holder (`LinkedOnce`, `HeldOnce`), so writing to it changes one piece;
  nodes below it may be shared by any number of saved trees;
* links go down (`Ranked`), so no update ever closes a cycle;
* `LevelsOK` and `OperationOK` say how the pieces make up what the caller had:
  what each level keeps is on its side of all that is inside it, and together
  they hold the set of the caller, plus or minus what the operation has done.

Two steps change a forest: `TakenApart` turns a node into its two children and a
key, `PutTogether` is its reverse; `Rewrite` is the one after the other, and a
rotation is two of each.  From the invariant follow the recursive readings: `FoldExists` constructs
by hand, along the ranks, the function that a recursive definition over a heap
names; `ContentsAre` says the contents are the label, `FindsOne`,
`FindsOutermost` and `FindsBeyond` that the searches return the element their
names promise; `ReadsWhatIsKept` makes of it that every tree reads as what its
owner put in, and `StepsRefine` that a step is a stutter or an atomic step of
`PersistentSets`.  The three theorems assume `~Refcounting` because in the
other mode they are not true: by finding 2 a removal may write to a node that is
shared.  Balance, annotations and refcounts are
model-checked only.

## 4. The indexing pass

**Correspondence.**  `Indexer` reads a trace line by line: `ReadLine` is
`read_one_trace_line` up to the parser, `GotInstruction`, `GotRegister`,
`GotException`, `GotText` handle one event of the line each
(`got_event_common` is `GotEventCommon`, which every handler conjoins, as every
handler calls it first), `EndLine` is the end of the line, `ReadEof`,
`ReadEnd`, `ParseError` are the ways the file ends, `VisitRecord` is
one step of `CallDepthCountingTreeWalker`, and `FinaliseIndex` the end.
Variables keep the names of the class's members: `lineno`, `true_lineno`,
`lineno_offset`, `prev_lineno`, `linepos`, `oldpos`, `current_time`,
`curr_pc`, `expected_next_pc`, ...  `update_pc` is `UpdatePC`, in its four
outcomes (straight on, return, call, any other jump).  `mem` and `last_mem` are
the contents of memroot and last_memroot as the heuristics read them.
`trace`, `matched` and `passed` are history.

A trace is chosen nondeterministically, line by line, from the set of lines its
`Traces` entry allows.  The environment assumption is what the parser
guarantees: all events of a line have one time, an instruction is alone in its
line, a line that fails to parse gives no event.

**Abstractions.**  Trees are the sets and sequences they stand for (that is
`AVLDisk`'s promise).  Memory is left out: memory events are text events here,
since they do to the counters what text does.  Of the register space the model
has the four cells the heuristics read; a partial write is a write of
`Unknown` to a cell that was unknown.  `curr_iflags` and
`insns_since_lr_update` are not initialised by the constructor, so their
first value is any.  Numbers do not wrap; `ULLONG_MAX` is a constant.
`RecordCalls` is `IndexerParams::record_calls`.  Semihosting's effects on
memory belong to the memory tree.

A Thumb instruction is entered in the by-PC tree with the low bit of its pc
cleared, so that one at address 6 has the number that stands for a CPU exception
(`misc.hh` 54-65 relies on the low bit to keep 6 free).  The model does so too,
and `ByPCExact` says which entries there are, not that the two can be told
apart.

**Runs** (module `MCIndexer`).

| run | instance | shows |
|---|---|---|
| `indexer` | four kinds of trace (2.4 million states): `EventLoop`, 5 lines of ARM and Thumb instructions, exceptions, text, register writes, empty lines and lines of two events, at rising, equal and falling times, with and without a last newline; `CallsAndReturns`, 8 lines of jumps between three addresses on two stack levels with LR writes; `ModeSwitches`, 4 lines that switch between AArch32 and AArch64 with any initial flags; `CrossingCalls`, 15 lines of two calls that cross and may return in either execution state.  A parse error or the end may come after each line. | type correctness and the invariants below |

The invariants: records tile the file in bytes and lines (`RecordsTile`), times
rise (`TimesRise`), and when the pass is complete the index describes the trace
(`IndexDescribesTrace`): every record says what its lines say
(`RecordsDescribeTrace`), its memory is that after its last event
(`MemoryAsOfRecord`), the by-PC tree has all visits and exceptions and no others
(`ByPCExact`).  Of calls: none is lost, none shares a line with another
(`CallsPaired`), each end is the first line of a record (`CallretsAtRecords`),
a record's depth is the number of matched calls around it (`DepthIsOpenCalls`),
and matches keep frames (`MatchesKeepFrames`): a call is never matched after
its frame was popped (`FramesNeverPopped`), and two calls that cross rather
than nest and return in the same execution state have equal stack pointers
(`CrossingCallsShareSp`).  These two are what the heuristic can promise: it can
match a return with the wrong call of the same SP and return address, but not
more.  The hypothesis about the execution state is needed: AArch32 and AArch64
have stack pointers of their own, and an inner call returned from in AArch32
says nothing about an outer one whose return reads the AArch64 stack pointer.
`CrossingCalls` is a trace where it matters: without the hypothesis TLC finds
two crossing calls whose stack pointers differ.  The same caution is in both
properties: they speak of calls during which the execution state stayed the
same, since `update_sp` only looks at the stack pointer of the current one.

`LRWriteThreshold` is 2 instead of 8: what matters is that the count reaches
it, is reset and stays there; three instructions after an LR write already do
all that.  Five lines are enough for a record of each shape followed by two
more and the end of the file; eight for two calls that nest or cross and their
returns.

**Proved** (`IndexerProofs`), for all traces of any length and any constants:
`TypeCorrect`, `RecordsTileTrace`, `RecordsInTimeOrder`, `CallsArePaired`,
`CallretsAreAtRecords`, `DepthCountsOpenCalls`.  The inductive invariant is
`IInv`.  The tiling needs `LineOK` (either no event of the current line was
handled and linepos and lineno are beyond the open record's beginning, or the
open record has the line's time already and cannot be cut again) and
`PositionOK`; the call properties need `MarksOK`: every line a pending or
matched call names starts a record, no two share one, and the open record can
carry a mark only if it has its instruction, which is why a second
instruction, and so a second mark, always starts a new record.
`DepthIsOpenCalls` needs `WalkOK`: the iterator has passed exactly the entries
up to the last visited record.

**Proved** (`IndexerProofs`), likewise: `MatchedFramesKept`, that is
`MatchesKeepFrames`.  The invariant is `FramesOK`.  Its difficulty is that
`update_sp` drops a pending call by the stack pointer in last_memroot, so it is
a record late: a call whose frame the open record has popped is still pending,
and so may be one whose frame the last record popped.  `Framed` says how
late at most: since a pending call was made, a stack pointer above the call's
is the one in last_memroot, hence the one that the next return or the next
comparison will see; and `Noticed` says that the open record, once it has
changed the stack pointer, has made that comparison.  `OpenMemory` ties
last_memroot to the last closed record.  `KnownStays`, that a register once
known stays known, rules out that the comparison is skipped for want of a value
in between.  For two calls that cross, `CallSpsRead` and `ReturnSpsRead` say
where each stack pointer was read: at the beginning of the record of
the call, and of the return.  Then `FramesNeverPopped` of each call, at the
record before the other one's call or return, gives the two inequalities
(`CrossingShares`).  TLC has checked `FramesOK` on the states of the run.

**Proved** (`IndexerTrace`), likewise: `IndexAgreesWithTrace`, that is
`IndexDescribesTrace`, whole: positions, times, pcs, memory and the by-PC tree.
The property is about the finished index; the argument is about `Log`, the
events handled so far by their places in the trace, to which each handler adds
one place later than all others (`LogGrows`).  The invariant is `TraceOK`, next
to `IInv`.  `ClosedOK` has what is true of a written record (`RecordRight`: time,
pc and memory are those of the log up to its last line; `SplitRight`: why it was
begun), and as the log only grows beyond that line it stays true
(`RecordStays`).  `OpenOK` says the same of the record that `emit_event_lines`
would write now: it is as good as those that are written, so that to write
it is no new argument (`RecordEnds`).  `TodoOK` is why a line is not cut in two:
once one of its events is handled, the rest has no later time and no
instruction.  `StateOK` ties the execution state to last_mem until the
record's instruction has passed, and `ByPCOK` counts the open record's exception,
which the code inserts before the record itself.  `BytesOK` compares linepos,
oldpos and the records' positions with `SizeOf`, the sum of the bytes of the
lines, a recursive function: that a function satisfying its equation exists is
shown by a least counterexample (`SumsExist`, from the well-foundedness of < on
the naturals), and all else needs only the equation (`SizeFacts`), and that
lines which are already read keep their sums (`SizeStays`).

**Fairness.**  The specifications of sections 3 and 4 are safety only: the pass
ends when the file does, and its loops are over finite data.

## 5. The memory tree

**What is promised** (`ByteMemory`).  Each record of the trace has a version of
all bytes of memory and registers.  A write changes bytes of the open version;
an unknown write makes them unknown.  A read *learns*: a byte that was read
and was unknown becomes known, in the open version and, with hindsight, in all
earlier versions back to the event that touched the byte last.  A read does not
end before all it read is known.  Nothing else changes a closed version.

**Correspondence.**  `MemTree` has the tree as a set of intervals
(`MemoryPayload`, at most one of them for a byte, which is
`OneAnswerPerByte`), one set per version: how versions share nodes is
`AVLDisk`'s concern.  What the versions do share are the sub-trees of unknown
intervals, which the code updates in place: `subtrees` is that part of the
arena, `bytes` the part with contents.  A byte is the event that gave it and
its address, so any confusion of offsets shows.  `mapping` counts the
allocations; each may move the arena, so a pointer is a pair of an offset and
the mapping it was taken in.

`Write` is `update_memtree`, `Forget` is `make_sub_memtree` as `got_event`
calls it, `NewRecord` the end of a record.  `DeleteFrom` is
`delete_from_memtree`'s loop: the intervals hit are disjoint, so to cut them one
after the other or all at once is the same.  `update_memtree_from_read` is a
step for each turn of its loops: `BeginRead`; `EndRead`, `SkipKnown`,
`EnterUnknown`, `LeaveUnknown` for the outer loop over the tree's intervals,
`FillGap`, `InsertGap`, `SkipFound` for the inner one over the sub-tree.
Addresses wrap after `AddrMax`, as `Addr` does after 2^64 - 1, in all the places
where the code adds 1.  `NextNode` has the special case of the outer loop.
`MemQuery` has the three query loops as recursive functions.

An event touches at least one byte and does not go past the last address (a
Tarmac line gives an address and bytes).  `event` in an interval is history.
Endianness is left out: a byte's value is its event and address.
`update_memtree_if_necessary` is `update_memtree` under a condition, which
`Indexer` models where it is used.

**Runs** (module `MCMemTree`).

| run | instance | shows |
|---|---|---|
| `mem_tree` | addresses 0..4, 4 events of 7 (`SomeAccesses`), 3 versions (77,882 states) | the tree implements `ByteMemory`; contents are in place however often an interval was cut; no version unlearns; `getmem`, `getmem_next` and `read_memtree_value` are exact for every version, space and range; every read of the run ends |
| `mem_tree_top` | reads and unknown writes that touch the last address | **violation** of `ReadsEnd`, finding 3 |

The seven accesses overlap on the left, on the right and in the middle, contain
each other, meet without overlap, and include the first and the last address.
Four of them are what it takes to make a byte unknown, cut the interval, read
part of it and read it again over the gap; three versions, to have a
version that learns, one in which the byte was touched since, and the open
one.  Reads of unknown memory at the last address are in a run of their own,
since they do not end; queries of `QueriesExact` stop short of the last
address for the same reason (their loops for sub-trees have the same gap).

**Fairness.**  `WF_vars(ReadStep)`: once `update_memtree_from_read` is called, one
thread runs its loops and nothing else until they are done.  Nothing is
assumed of events and records: a trace may end anywhere.

**Proved** (`MemTreeProofs`), for any address space, any set of events within
it and any number of them, those at the last address included: `TypeCorrect`,
`OneAnswer`, `ContentsStayInPlace`, `PointersStayFresh`, and the action property
`KnowledgeStays`.  The inductive invariant is `IInv`: `OneAnswerPerByte` and
`ContentsInPlace`, with `GapOK` for the moment between `FillGap` and
`InsertGap`: the bytes about to go into the sub-tree are in the arena and not
in the sub-tree yet.  The argument has three parts.  `Pieces` says what is left
of an interval when a range is cut out of a tree, and `ReplaceGood` and
`ReplaceInPlace` follow from it: the tree stays a partition, and its pieces keep
their contents.  `FoundFacts` says that what `find_leftmost` skips is a gap.  And
each step only adds to the arena and to sub-trees (`GrowStep`), so old versions
keep what they have and know.

**Proved** (`MemTreeProofs`, second part), for any address space and any events
but reads that touch the last address: `TreeImplementsByteMemory`, every step of the tree
is a step of `ByteMemory` or a stutter.  The state of the byte memory is, for
each version, what the interval that covers a byte says of it.  The steps of
the trace follow from `Pieces` (`WriteRefines`, `ForgetRefines`): a cut leaves all
other bytes as they were.  The crux is `InsertGap`, which stores into a
sub-tree that all versions share, cut as it may be into different intervals in
each: it must be `Learn` of exactly the gap's bytes, in exactly those versions in
which the byte was not touched since.  This needs one more invariant,
`LearnOK`.  `EventsApart`: two unknown intervals, of whatever versions, have the
same sub-tree if and only if the same event made them, so that the versions
which learn are those whose byte has that event.  `SearchOK`, `PartOK`,
`InsertOK`: what lies before the loops' current addresses is known already, so
that when the read returns it has told everything (`ReturnRefines`).  TLC has
checked `LearnOK` on the run.  The hypothesis `ReadsBelowTheTop` excludes what
finding 3 is about: for such a read the loop's addresses wrap and `SearchOK`
is false.

**Proved** (`MemQueryProofs`), for any address space and any events, those at the
last address included: `QueriesAlwaysExact`, for every range that stops short of
the last address.  The queries are recursive functions from an address to what
is found from there on.  Such a function is shown to exist (`RecursionUp`), and
what it computes is shown by induction from the last address down (`Downward`).
Both take the least element of a set of addresses (`WFMin`), so no operator is
handed to an induction theorem.  The inductive step for `getmem` (`GetMemIs`): what is
before the leftmost interval hit is not known, what is in it is as the byte
memory has it, and the rest of the range is the hypothesis.  `SubBytesIs` is the
same for a sub-tree, `GetMemNextIs` for the first stretch of known bytes.  One
more invariant is needed, `NoneEmpty`: no interval of any version or sub-tree is
empty.  Without it an empty interval within the range could be the leftmost one
hit; the query would take its line as that of the last record to touch a byte
there, and go on from before its own start.  `read_memtree_value` takes a
value from a set of known bytes, so it needs that each byte is known once
(`AllKnown`).

That reads end is liveness and model-checked only.

## 6. The index file

**Correspondence.**  `IndexFile` has any number of processes, each of which
runs one tool after another on the same trace: `Start` is the beginning of
`updateIndexIfNeeded` in one of its three modes (automatic, forced, never),
`StatIndex` and `CheckHeader` the rest of its check, `Remove`, `Create` and
`InitHeader` are `open_index_file`, `Grow` is `Arena::alloc` when the mapping
is full, `WritePart` is whatever the pass and `build_call_tree` append, `ParseError` and
`NoEvents` are the two ways the pass gives up, `StoreFlags`, `StoreRoots` are
`finalise_index`, `Close` is `~MMapFile`, `Open` is the constructor of
`IndexReader`.  Around the tools, `WriteTrace` is the simulator, `Tick` the
clock, `Kill` the end of a process at any point.

A file is a sequence of cells: the magic number and header are one, and each
part of the index is one.  An inode outlives its name, as on Unix: readers keep
the file they mapped when another run removes its name, and a run that
lost the race between `remove` and `open` gets the other run's file and starts
to allocate at its end.  `windows.cpp` is not modelled.  Time stamps are whole
seconds (`get_file_timestamp` returns `st_mtime`), and a store through the
mapping may or may not move the time stamp.

**The exceptions.**  Some promises fail in corners of which the code takes no
notice; the properties name these corners and hold everywhere else.  History
variables collect the files that are in one: `torn` (the run died between the
store of the flags and that of the roots), `overlap` (two runs had the file
open for writing at once: each then truncates what the other wrote), `reused` (a run
went on in a file that another one created), `racy` (the trace was written
while the index was being made, or in the very second of its time stamp, which the
comparison in seconds cannot see).  `disturbed` marks a run during which
another one changed a file or a name.

**Runs** (module `MCIndexFile`).

| run | instance | shows |
|---|---|---|
| `index_file` | 2 processes, 3 runs in all modes, 2 versions of the trace, 2 seconds (1.9 million states up to symmetry) | a checked index that is opened is sound (`OpenedSound`): whole (`OpenedWhole`) and not older than the trace (`NoOlderThanTrace`); a tool reads what it built (`ReadsWhatItBuilt`); nobody spoils a whole index (`StaysWhole`) |
| `index_file_empty` | 1 process, 2 runs | **violation** of `UnfinishedIsRebuilt`, finding 4 |

Three runs are what it takes for one to leave an unfinished or finished index
behind while two others meet over it; two versions of the trace for an index to
be older than the trace; two seconds for equal and different time stamps.  One
part suffices, since `Slack` makes the file longer than what is
allocated.  A system in which all tools have ended and all bounds are used
up stops, hence no deadlock check.  States that differ only in inodes which no name and no
process leads to any more are identified by a VIEW: no action and no property
looks at such an inode again, since inodes are never reused.

**Proved** (`IndexFileProofs`), for any number of processes, runs, seconds,
versions and parts: `TypeCorrect`, `NeverSpoilt` and `BuiltIsRead`.  The
inductive invariant `Inv` has two ideas.  `RunsFresh`: the number of a run
names no file until the run itself creates one.  `AloneKnows`: a run that
is alone with its file knows how long it is, that it is all zeros beyond what the
run has allocated, and where its header and parts are.  From it follows that its
stores and its final truncation touch only what it allocated itself
(`GrowKnows`, `HeaderKnows`, `PartKnows`, `StoreKnows`, and `...Whole` for whole
indexes).  `OpenedStep` is the crux: what `open` returns is a fresh file, or one
that goes into `overlap`, or one whose writers have all gone.  `OwnIndex` adds
that a run which nobody disturbs has the name lead to its own file with
its header in the first cell; a visible step of another run disturbs it
(`OthersVisible`), so only its own steps matter.

**Proved**, likewise: `OpenedIsSound`, that is `OpenedSound`.
An opened index was checked some steps before, by name, header, mark and time
stamp, and the files go on changing in between; the invariant `Sound` says what
each of these checks is worth.  `MarkedIsWhole`: a file outside the exceptions
whose mark says complete is whole, or its run is about to store the roots.
`OldOrUpToDate`: a file outside the exceptions has parts of the current
version of the trace only, or its writers have gone and its time stamp is older
than the trace's; `Dated` keeps all stamps and versions out of the future.
`Untroubled` follows one run through its checks: as long as no other run
changes a file or a name (it would set `disturbed`), it knows from each step on
what that step looked at, about the name it will open and the version the
trace had when it began, and no other run has a file open for writing.  The
theorem follows from the last part of it, `TrustsOpened`, at the state in which
the index is being read.

**Fairness.**  None is assumed: a tool may stop anywhere.

## 7. The index as the browsers read it

**Correspondence.**  `AVLMem` is the tree of `memtree.hh`: nobody shares its
nodes, so a tree is a value and `insert_main`, `remove_main` and the rotations
are functions on values.  Its payloads and annotations are those of its two
users in one record: a range of keys in a space, a line, a number of visible
lines.  The seqtree and the memory trees of a finished index are read through
`AVLDisk`'s read-only side, for which such a value stands as well.

`Navigator` has the finished index and what `IndexNavigator` asks of it.
`WithArrays` is the second walk of `build_call_tree`, children first: each node
gets the array of lines by depth below it, with links into its children's arrays
and a sentinel at the end (`MergedArray`, the two merges of
`CallDepthArrayTreeWalker`).  `LRTSearch` is `IndexLRTSearcher`: given a line
counted in one range of depths, it walks down and counts the lines in another
range of depths that it leaves behind.  `NodeAtLine`, `NodeAtTime`,
`GetNextNode`, `GetPreviousNode` and `BufferLimit` are the searches by
position, `ByPC`, `PCSucc` and `PCPred` those by address.
`FindNextMod` is the search of `RegMemChangesSearcher` for the next
change in a direction, in its two passes: down towards the address as long as
the `latest` annotations promise a change there, then again for the nearest
change beyond it.

**Abstractions.**  A record's time, pc and lines are data of the trace.
A record's memory is one tree of intervals, each with the first line of the
record that touched it last, which also stands for what the bytes hold:
`DiffExact` asks when, not what.  Registers are one byte wide.  How unknown
intervals share sub-trees is section 5's subject.

## 8. Folds, positions, and the terminal browser

**Correspondence.**  `TraceView` is `Browser::TraceView`.  `folds` is its tree of
regions, each with its lines and the range of depths that shows
(`FoldStatePayload`), annotated with numbers of physical and visible lines.
`SetFoldState` removes the regions a new one touches one by one, as the loop
does, puts back what is left of them on both sides with their visible lines
counted anew, and inserts the new one.  `vis` and `log` are
`curr_visible_node` and `curr_logical_node`; `UpdateVisible` and
`UpdateLogical` compute each from the other.  `ContainingFunction` and
`FoldedFunctionAfter` are the two `physline_range_for_...`.

`CursesUI` has an action for each key of the trace buffer, of register and
memory windows, of the minibuffer and of the screen.  `vu`, `scrtop`, `event`,
`centring` are `TraceBuffer`'s members, `subs` and `focus` the screen's windows
and the selected one, `ask` the minibuffer.  A window has the line it shows
(`line`), the line it was told of last (`ext`), whether it is locked, and what it
is compared with (`diff`, `since`); a memory window also its address and
whether it follows an expression.  The heights of windows are computed as
`resize_wins` does, `TopLine` with unsigned arithmetic as `update_scrtop` does.

**Runs.**  `curses` (module `MCCurses`; 29,637 states).  Eight sessions, each an
index with the keys that a user of it knows, so that each session exhausts what
its keys can do together:
nested calls with every fold key and a jump to a hidden line; paging, centring
and folding on a screen of six lines in a trace with records taller than it;
jumps by time, pc and exception, and events followed to what was touched last;
windows opened, the screen resized, help over them; register windows compared,
locked, resized; a memory window compared, one that follows the stack pointer,
one scrolled and resized.

| property | says |
|---|---|
| `FoldsExact` | the regions tile the trace in a balanced tree with exact annotations, and translate lines both ways as counting visible lines does |
| `PositionCoherent` | the underlined record is visible, the one whose state is shown is it or hidden behind it, and the position is on the screen where there is room |
| `UnfoldingReaches` | what the code's comment promises: a hidden position can be unfolded until it is reached, and stays what it is meanwhile |
| `FoldsTheCall` | `-` hides the whole call around the position and nothing else, `]` uncovers all of it and nothing else, `+` something of what is hidden behind the position and nothing else, `{` and `}` hide and uncover all calls; `[` is excepted (finding 5) |
| `WindowsFollow` | after every key but the pages all windows have heard of the position; a locked one goes on showing what it showed |
| `DiffExact` | a register is highlighted just when it changed between the record shown and the one compared with |

`FoldsExact` is where `Navigator`'s translation is checked against counting, for
every line and every fold tree that the keys can make; `FoldsTheCall` says what
folding means from the depths alone, with none of the code's translations.

`curses_inside` (module `MCCurses`) has `NestedCalls` with `Down`, `[` and `]`
only, and is a **violation** of `FunctionStaysUnfolded`, finding 5: after `[` the
lines of the function's own that were to be seen should still be.

**Bounds.**  Four to seven records: `NestedCalls` has a call in a call, a record
of two lines, and a call of one line, so regions are cut on the left, on the
right and in the middle, and the seqtree has height 3.  All traces end at
depth 0, since the index only counts calls that return.  `UintMax` is 50: what
matters of `UINT_MAX` is that it is beyond every depth and line and that
subtraction below 0 wraps.  `AddrSpan` is 8, with 2 bytes in a line of a
memory window; 3 registers, two to a line, make windows of one and two
lines.  A new memory window is one line high instead of four
(`MemoryRows`), at the least that `<` allows, and grows to two.

## 9. The graphical browser

**Correspondence.**  `WxUI` has the two registries (`traces`, `views`): slots and
the set of free indices, as `all_trace_windows` and `all_subviews` with theirs.
A window in them has its members; `id` is its address, which another window may
get once it is closed, and a view refers to a trace window in three ways
(`tw`, the list it is in, the entry of its menu).  `Paint` is `redraw_canvas`:
it records what was drawn, and clicks, drags, boxes and the nodes of the context
menu go by that, however much has changed since.  The rest are the handlers: keys, toolbar, menus and
mouse of trace windows (`OnTraceWindow`) and of views (`OnView`).
`Refolded` is `FoldChangeWrapper`, `Settle` is `update_location`, which tells the
views of the list (`Told`).  `WxText` has selections: a position is a tuple in
the order its window compares by, and `Endpoints` widens a selection to words
or lines that were drawn, in memory windows to bytes of one column.

The browser core is a library to this UI: `WxUI` declares its operators as
constants (`goto_node`, `set_fold_state`, `evaluations` ...), and `Wx.cfg` gives
them `TraceView`'s.  So TLC checks the UI with the core as it is, and what is
proved of the UI holds with any core.

**Run** `wx` (module `MCWx`; 29,981 states).  Thirteen sessions, as above: moves and
folds by key, by box, by menu and all at once; boxes and menus used late, on
what was painted before another fold; jumps; text selected by the
mouse with every grain; trace windows and views opened, linked, fixed and closed
in any order; a view that follows the stack pointer and is relinked and
scrolled; memory windows with provenance and selection; register windows.

| property | says |
|---|---|
| `WindowsRegistered` | an index is free just when its slot is empty, and the last slot never is; what a view's list and menu say agrees; no view outlives the last trace window |
| `ViewsFollow` | after each step every view in the list of a window shows the line of that window's position and, if it follows the stack pointer, the address where that then points: views that join, all of them when the position or the folds change, and those that were in step before; but for an unfold from the menu (below) and scrolling the view itself |
| `PositionsCoherent` | each window shows its trace right (`ShownRight`): a line shows with the whole of its call, lines translate both ways as counting does, the underlined record is visible and the logical one hidden behind it or the same, and the window does not begin beyond the end; only a late click (below) may leave a window otherwise |
| `SelectionsHoldAnchor` | a selection runs forwards and holds the place it was begun at |

At most two trace windows with three addresses, so that an address is reused
after a window closed while a view still names it; at most two views, windows
two lines high.

**Fairness.**  None in either browser: the user may stop at any time.  `q` and
closing all windows end them, hence no deadlock check.

**Observations.**  What the code does here is as modelled, and is not what one
might expect:

* Changed bytes of memory are never highlighted: `format_memory_split`
  (`browse.cpp` 1041) looks for changes only if the address is *not* known.  So
  `Highlighted` speaks of registers; `]` and `[` in memory windows do find the
  changes.
* The pages of the terminal browser move the position and do not tell the
  windows below, nor does an unfold from the graphical browser's context menu
  after it has gone back to the position (`wx.cpp` 2350).
* A fold box keeps the range it was drawn with (`wx.cpp` 2112-2128), and the
  context menu takes the node that was drawn (`wx.cpp` 2163), whatever the
  folds are by now.  A late click is one on a box painted before the folds
  changed, or folding or unfolding from the menu of a node that is hidden by
  now.  It can uncover a call inside one that stays folded: fold the inner
  call, let it be painted, fold the outer one and click the inner one's box,
  still on the screen.  What shows then is no longer whole calls, and a later
  unfold can make a region that begins with hidden lines, whose lines
  translate wrongly and on which the underlined line may land.
  `PositionsCoherent` has such clicks for its one exception (`LateClick`), and
  what comes after them until the window shows its trace right again; TLC
  executes them all.
* The menu entry for no window leaves `tw` what it was (`linkcombo_changed`),
  also after that window is closed; steps that would then use it are left out
  (`Usable`).
* Shift-click in another column can turn a memory window's selection round;
  `SelectionsHoldAnchor` excepts memory windows.

**Proved** of the graphical browser (`WxProofs`), for every browser core, any
sessions, and any number of addresses, windows, rows, registers and words:
`WindowsStayRegistered`, `ViewsAlwaysFollow` and `SelectionsKeepAnchor`, of the
properties of `wx` with those names.

The first two rest on one inductive invariant, `Registered`.  It has the two
registries (`Registry`: the slots are a sequence, what is not open is empty, the
free indices are the empty slots, the last slot is not one of them), the fields
of each window, that no two trace windows have one address, and `LinkOK`: a view
that is in a list is in that of an *open* trace window, and its menu shows that
window's index.  `WindowsRegistered` alone does not do as an invariant:
it does not say that what is not open is an empty slot, nor that a view's list
is that of an open window at an address no other has, and every allocation and
every new menu needs one or the other.  Links are also what makes
`ViewsFollow` true: a new trace window may be at an address where one was before,
and no view still is in the list of the old one only because closing it closes
those.  Allocation and release are shown correct once (`AllocatedFacts`,
`FreedFacts`); then every action is shown to be of one of a few kinds: it moves a
window and tells the views in its list (`Goes`), leaves the position where it is
(`Stays`), adds a view (`Adds`), rewrites or scrolls one view (`Rewrites`), or
opens or closes a window; and each kind keeps the invariant, the views in step, and
the selections but for what left_down, mouse_move and left_up do to one
(`Kept`).

`SelectionsKeepAnchor` has a hypothesis, `[]DrawnPlacesOK`: what is drawn are
lines of the trace.  That is the core's promise (a visible line has a physical
one, in a record); `wx` checks it as part of `TypeOK`.  The invariant is
`SelectionOK`, that a selection has positions in it and holds its anchor; the
argument is that positions are in a total order (`BeforeOrder`) and that
widening to words or lines never loses the positions it was given
(`WidenedFacts`), whichever of the two comes first.

Assumed of the constants: addresses of windows are not 0; characters and the
ends of words are between 0 and `MaxChar`; at most three clicks are counted; the
only expression that follows the program is the stack pointer.  TLC evaluates
these assumptions on `wx`.

The walks down a tree in `AVLMem`, `Navigator` and `TraceView` are RECURSIVE
operators, which the proof system does not take: there are no theorems about
folds and positions, nor about the terminal browser.

## 10. Findings

1. **remove leaves a tree unbalanced** (`avl_unbalanced`, `disktree.hh` 402 and
   422).  `remove_main` takes "the child's offset has not changed" for
   "nothing below has changed" and returns early.  A child that was written in
   place has the same offset and another height and annotation.
2. **remove writes to a node of another tree** (`avl_shared_remove`,
   `disktree.hh` 411).  In refcounting mode the sibling that a rebalancing
   rotation rewrites was not on the path of the removal; a double rotation
   brings the inner grandchild's count back to 1 and then writes it in place
   although another tree links to it.  In sessions longer than the run's six
   calls that node can end up in its own subtree: insert 6, 2, 8, 4, 1, clone
   the tree, remove 8 from the first and free it; the clone then reads
   1 2 1 2 4 6 6 8, and `remove(2)` on it recurses without end (the compiled
   code does the same).  This is why `CountsExact` speaks of sessions that do
   not both clone and remove.  The index never uses this mode, only `avltest`
   does.
3. **a read of unknown memory at the last address never ends** (`mem_tree_top`,
   `index.cpp` 618).  `update_memtree_from_read`'s outer loop has a "special
   case: address space wraparound!", its inner loop has none: a gap up to the
   last address looks as if it ended at address 0, is not filled, and the loop
   starts again from there.
4. **an empty index is not rebuilt** (`index_file_empty`, `index.cpp` 1148).
   A run that ends between `open(O_CREAT)` and the first `ftruncate`, be it
   because the disk is full, leaves a file of 0 bytes that is newer than the
   trace.  `reporter.hh` has a status for a previous run that "did not finish",
   which is to be rebuilt; but `check_index_header` fails an assertion before it
   can say so, in this and in every later run.
5. **`[` hides the function it is to leave unfolded** (`curses_inside`,
   `curses.cpp` 1007).  The comment (`curses.cpp` 988), the help text (895) and
   `doc/index.rst` (892) say that it folds the functions called from the current
   one and leaves that one itself visible.  It passes the function's own depth to
   `set_fold_state`, whose upper bound is exclusive, and so hides all of its
   lines, as `-` does.  The graphical browser passes `depth + 1` for the same
   command (`wx.cpp` 2327).

## 11. What is not modelled

* **Call tree and profiling tools, tarmac-truncate, tarmac-vcd**: sequential
  passes over a finished index or a trace.  They are next in the plan.
* **Semihosting and `update_memtree_if_necessary`**: the first is the only
  source of events of size 0 in the memory tree, the second a conditional write.
* **Text**: `parser.cpp` gives the events `Indexer` starts from; expressions are
  a number or the stack pointer; registers are tables of names and offsets; ELF
  decoding, number formatting, option parsing and messages are unit-test matter.
* **Of the browsers**: drawing, colours, syntax highlighting and symbolic
  branch targets, the text and the scrolling of the help window, editing in the
  minibuffer, the clipboard, configuration, mouseover, the click counter, the
  setup and progress dialogs, and what follows an exception that leaves a
  handler.
* **`windows.cpp`**, where an open file cannot be removed, and indexes in memory
  (`MemArena`).

Only model-checked are: liveness (`ReadsEnd`), which is beyond the proof
system; of AVLDisk what needs refcounting mode, the balance or the annotations
(`CountsExact`, `InsertionsBalance`, `InsertionsUnseen`), which needs induction
over data, possible only by hand as in `AVLSetsProofs`, `MemQueryProofs` and
`IndexerTrace`, and not done yet; and sections 7 and 8, with `PositionsCoherent` of section 9
(`FoldsExact`, `PositionCoherent`, `UnfoldingReaches`, `FoldsTheCall`, `WindowsFollow`,
`DiffExact`), whose modules reach RECURSIVE operators.
