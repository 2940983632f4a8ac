------------------------------ MODULE MemTree ------------------------------
(***************************************************************************)
(* The memory tree of the index (lib/index.cpp, index_ds.hh): what memory  *)
(* and registers contain after each record of the trace.                   *)
(*                                                                         *)
(* A tree is a set of disjoint intervals.  An interval is known bytes, or  *)
(* it leads to a sub-tree of the bytes that were learnt by later reads.    *)
(* Old versions of the tree, one for each record, share the sub-trees with *)
(* newer ones, and so learn with them.  AVLDisk models how versions share  *)
(* nodes; here each version is a set of its own.                           *)
(*                                                                         *)
(* A write and an unknown write are one step each.  A read works through   *)
(* the intervals one by one and allocates in the middle of it, so each     *)
(* turn of its loops is a step.                                            *)
(***************************************************************************)
EXTENDS Naturals, Integers, Sequences, FiniteSets

CONSTANTS
  AddrMax,       \* the last address: addresses wrap around after it
  Accesses,      \* the events: [op, type, addr, size]
  RecordMemory,  \* IndexerParams::record_memory
  MaxEvents,     \* bound: how many events are handled
  MaxRecords     \* bound: how many records are emitted

Addr == 0 .. AddrMax
Succ(a) == (a + 1) % (AddrMax + 1)
Hi(addr, size) == (addr + (size - 1)) % (AddrMax + 1)

Access == [op : {"write", "forget", "read"}, type : {"r", "m"},
           addr : Addr, size : Nat \ {0}]

(* Events touch at least one byte and do not go past the last address.     *)
(* Only memory is ever unknown or read.                                    *)
ASSUME AddrAssumption == AddrMax \in Nat
ASSUME AccessAssumption ==
  /\ Accesses \subseteq Access
  /\ \A x \in Accesses : /\ x.addr + (x.size - 1) <= AddrMax
                         /\ x.op # "write" => x.type = "m"
ASSUME ParamsAssumption ==
  RecordMemory \in BOOLEAN /\ MaxEvents \in Nat /\ MaxRecords \in Nat

VARIABLES
  bytes,      \* the arena, as far as it holds contents of memory ...
  subtrees,   \* ... and as far as it holds roots of sub-trees, with the trees
  mapping,    \* where the arena is mapped: another place after each alloc()
  memroot,    \* the tree
  saved,      \* the memory_root of each record
  events,     \* history: the number of events handled
  pc,         \* "idle", or where update_memtree_from_read() is
  access,     \* its arguments
  search,     \* its memp_search
  memp,       \* the interval it is at
  subroot,    \* its pointer to memp's sub-tree: where to, and into which mapping
  msp,        \* what is left of memp
  insert      \* msp_insert, and msp_found.hi

readVars == <<pc, access, search, memp, subroot, msp, insert>>
vars == <<bytes, subtrees, mapping, memroot, saved, events, readVars>>

prev_lineno == Len(saved) + 1

(* The byte that an event gave for an address. *)
Byte == [event : Nat, addr : Addr]
(* `event' is history: the event that made the interval, for all its parts.*)
MemoryPayload == [type : {"r", "m"}, lo : Addr, hi : Addr, raw : BOOLEAN,
                  contents : Nat, line : Nat, event : Nat]
MemorySubPayload == [lo : Addr, hi : Addr, contents : Nat]

Overlap(p, lo, hi) == ~(p.hi < lo) /\ ~(p.lo > hi)
Hits(tree, type, lo, hi) == {p \in tree : p.type = type /\ Overlap(p, lo, hi)}
SubHits(tree, lo, hi) == {p \in tree : Overlap(p, lo, hi)}

(* find_leftmost() *)
Leftmost(ps) == CHOOSE p \in ps : \A q \in ps : p.lo <= q.lo

Min2(a, b) == IF a <= b THEN a ELSE b
Max2(a, b) == IF a >= b THEN a ELSE b

-----------------------------------------------------------------------------
(***************************************************************************)
(* Writes.                                                                 *)
(***************************************************************************)
(* delete_from_memtree(): intervals that are partly overwritten leave      *)
(* pieces below and above.                                                 *)
Below(p, lo) == [p EXCEPT !.hi = lo - 1]
AboveSameContents(p, hi) == [p EXCEPT !.lo = hi + 1]   \* mutant
Above(p, hi) ==
  [p EXCEPT !.lo = hi + 1,
            !.contents = IF p.raw THEN @ + (hi + 1 - p.lo) ELSE @]

DeleteAllBelow(tree, type, lo, hi) ==   \* mutant: always a piece below
  LET old == Hits(tree, type, lo, hi)
  IN (tree \ old) \cup {Below(p, lo) : p \in old}
                  \cup {Above(p, hi) : p \in {q \in old : q.hi > hi}}

DeleteNoAbove(tree, type, lo, hi) ==   \* mutant: the piece above is lost
  LET old == Hits(tree, type, lo, hi)
  IN (tree \ old) \cup {Below(p, lo) : p \in {q \in old : q.lo < lo}}

DeleteFrom(tree, type, lo, hi) ==
  LET old == Hits(tree, type, lo, hi)
  IN (tree \ old) \cup {Below(p, lo) : p \in {q \in old : q.lo < lo}}
                  \cup {Above(p, hi) : p \in {q \in old : q.hi > hi}}

(* make_memtree_update(), make_sub_memtree(): a new interval. *)
Interval(type, lo, hi, raw, contents) ==
  [type |-> type, lo |-> lo, hi |-> hi, raw |-> raw, contents |-> contents,
   line |-> prev_lineno, event |-> events']

Replace(tree, new) ==
  DeleteFrom(tree, new.type, new.lo, new.hi) \cup {new}

(* What event n gives for the addresses from lo to hi.  It has data for    *)
(* those of access x; what it would read beyond is none of its (event 0).  *)
Data(n, x, lo, hi) ==
  [i \in 1 .. (hi - lo + 1) |->
     LET a == lo + (i - 1)
     IN [event |-> IF x.addr <= a /\ a < x.addr + x.size THEN n ELSE 0,
         addr |-> a]]

Recorded(type) == type = "m" => RecordMemory

NextEvent ==
  /\ pc = "idle" /\ events < MaxEvents
  /\ events' = events + 1

(* update_memtree() *)
Write(x) ==
  /\ x.op = "write" /\ Recorded(x.type) /\ NextEvent
  /\ bytes' = bytes \o Data(events', x, x.addr, Hi(x.addr, x.size))
  /\ memroot' = Replace(memroot, Interval(x.type, x.addr, Hi(x.addr, x.size),
                                          TRUE, Len(bytes) + 1))
  /\ mapping' = mapping + 1
  /\ UNCHANGED <<subtrees, saved, readVars>>

(* make_sub_memtree(), for a write of unknown data. *)
Forget(x) ==
  /\ x.op = "forget" /\ NextEvent
  /\ subtrees' = Append(subtrees, {})
  /\ memroot' = Replace(memroot, Interval("m", x.addr, Hi(x.addr, x.size),
                                          FALSE, Len(subtrees) + 1))
  /\ mapping' = mapping + 1
  /\ UNCHANGED <<bytes, saved, readVars>>

(* got_event_common(): a record ends, its tree is committed. *)
NewRecord ==
  /\ pc = "idle" /\ Len(saved) < MaxRecords
  /\ saved' = Append(saved, memroot)
  /\ UNCHANGED <<bytes, subtrees, mapping, memroot, events, readVars>>

-----------------------------------------------------------------------------
(***************************************************************************)
(* Reads: update_memtree_from_read().                                      *)
(***************************************************************************)
None == [lo |-> 0, hi |-> 0]
NoPayload == [type |-> "m", lo |-> 0, hi |-> 0, raw |-> TRUE, contents |-> 0,
              line |-> 0, event |-> 0]
NoAccess == [op |-> "read", type |-> "m", addr |-> 0, size |-> 1]
NoPointer == [offset |-> 0, mapping |-> 0]
NoInsert == [lo |-> 0, hi |-> 0, contents |-> 0, found |-> 0]

(* arena->getptr() of p's sub-tree, once more after an alloc().            *)
Pointer(p, where) == [offset |-> p.contents, mapping |-> where]
RefetchedNever(p) == subroot   \* mutant
Refetched(p) == Pointer(p, mapping')

BeginRead(x) ==
  /\ x.op = "read" /\ Recorded("m") /\ NextEvent
  /\ pc' = "node" /\ access' = x
  /\ search' = [lo |-> x.addr, hi |-> Hi(x.addr, x.size)]
  /\ UNCHANGED <<bytes, subtrees, mapping, memroot, saved,
                 memp, subroot, msp, insert>>

NodeHits == IF search.lo <= search.hi
            THEN Hits(memroot, "m", search.lo, search.hi) ELSE {}

Return ==
  /\ pc' = "idle" /\ access' = NoAccess /\ search' = None
  /\ memp' = NoPayload /\ subroot' = NoPointer /\ msp' = None
  /\ insert' = NoInsert

(* On to the interval after p, unless p ends at the last address. *)
NextNodeAnyway(p) ==   \* mutant: no special case
  /\ pc' = "node" /\ search' = [search EXCEPT !.lo = Succ(p.hi)]
  /\ memp' = NoPayload /\ subroot' = NoPointer /\ msp' = None
  /\ UNCHANGED <<access, insert>>

NextNode(p) ==
  IF Succ(p.hi) = 0 THEN Return
  ELSE /\ pc' = "node" /\ search' = [search EXCEPT !.lo = Succ(p.hi)]
       /\ memp' = NoPayload /\ subroot' = NoPointer /\ msp' = None
       /\ UNCHANGED <<access, insert>>

EndRead ==
  /\ pc = "node" /\ NodeHits = {}
  /\ Return
  /\ UNCHANGED <<bytes, subtrees, mapping, memroot, saved, events>>

(* What the tree knows already is left alone, even if it differs. *)
SkipKnown ==
  /\ pc = "node" /\ NodeHits # {} /\ Leftmost(NodeHits).raw
  /\ NextNode(Leftmost(NodeHits))
  /\ UNCHANGED <<bytes, subtrees, mapping, memroot, saved, events>>

(* What is asked for of p's bytes. *)
PartToTheEnd(p) == [lo |-> search.lo, hi |-> search.hi]   \* mutant
Part(p) == [lo |-> search.lo, hi |-> Min2(p.hi, search.hi)]

EnterUnknown ==
  /\ pc = "node" /\ NodeHits # {} /\ ~Leftmost(NodeHits).raw
  /\ pc' = "find" /\ memp' = Leftmost(NodeHits)
  /\ subroot' = Pointer(memp', mapping)
  /\ msp' = Part(memp')
  /\ UNCHANGED <<bytes, subtrees, mapping, memroot, saved, events, access,
                 search, insert>>

(* The next bytes of msp that are known, or the end of msp. *)
Found ==
  LET hits == SubHits(subtrees[subroot.offset], msp.lo, msp.hi)
  IN IF hits = {} THEN [lo |-> Succ(msp.hi), hi |-> msp.hi]
     ELSE [lo |-> Leftmost(hits).lo, hi |-> Leftmost(hits).hi]

(* Bytes are missing before that: the data is put into the arena, ... *)
FillGap ==
  /\ pc = "find" /\ msp.lo <= msp.hi /\ msp.lo < Found.lo
  /\ bytes' = bytes \o Data(events, access, msp.lo, Found.lo - 1)
  /\ insert' = [lo |-> msp.lo, hi |-> Found.lo - 1,
                contents |-> Len(bytes) + 1, found |-> Found.hi]
  /\ mapping' = mapping + 1
  /\ subroot' = Refetched(memp)
  /\ pc' = "insert"
  /\ UNCHANGED <<subtrees, memroot, saved, events, access, search, memp, msp>>

(* ... and then into the sub-tree, which allocates a node. *)
InsertedOnly(t, new) == {new}   \* mutant: into the tree as it was at first
Inserted(t, new) == t \cup {new}

InsertGap ==
  /\ pc = "insert"
  /\ subtrees' = [subtrees EXCEPT ![subroot.offset] =
                    Inserted(@, [lo |-> insert.lo, hi |-> insert.hi,
                                 contents |-> insert.contents])]
  /\ mapping' = mapping + 1
  /\ subroot' = Refetched(memp)
  /\ msp' = [msp EXCEPT !.lo = Succ(insert.found)]
  /\ insert' = NoInsert
  /\ pc' = "find"
  /\ UNCHANGED <<bytes, memroot, saved, events, access, search, memp>>

SkipFound ==
  /\ pc = "find" /\ msp.lo <= msp.hi /\ ~(msp.lo < Found.lo)
  /\ msp' = [msp EXCEPT !.lo = Succ(Found.hi)]
  /\ UNCHANGED <<bytes, subtrees, mapping, memroot, saved, events, pc, access,
                 search, memp, subroot, insert>>

LeaveUnknown ==
  /\ pc = "find" /\ msp.lo > msp.hi
  /\ NextNode(memp)
  /\ UNCHANGED <<bytes, subtrees, mapping, memroot, saved, events>>

-----------------------------------------------------------------------------
(* open_trace_file(): nothing is known about memory, from the first        *)
(* address to the last.  Of registers there is not even that.              *)
Init ==
  /\ bytes = <<>> /\ subtrees = <<{}>> /\ mapping = 0
  /\ memroot = {[type |-> "m", lo |-> 0, hi |-> Hi(0, 0), raw |-> FALSE,
                 contents |-> 1, line |-> 0, event |-> 0]}
  /\ saved = <<>> /\ events = 0
  /\ pc = "idle" /\ access = NoAccess /\ search = None /\ memp = NoPayload
  /\ subroot = NoPointer /\ msp = None /\ insert = NoInsert

ReadStep ==
  \/ EndRead \/ SkipKnown \/ EnterUnknown
  \/ FillGap \/ InsertGap \/ SkipFound \/ LeaveUnknown

(* The trace may end after any event. *)
TraceEnds == pc = "idle" /\ UNCHANGED vars

Next ==
  \/ \E x \in Accesses : Write(x) \/ Forget(x) \/ BeginRead(x)
  \/ ReadStep \/ NewRecord \/ TraceEnds

(* The loops of a read run on until they end. *)
Spec == Init /\ [][Next]_vars /\ WF_vars(ReadStep)

-----------------------------------------------------------------------------
(***************************************************************************)
(* Properties.                                                             *)
(***************************************************************************)
PC == {"idle", "node", "find", "insert"}
AddrRange == [lo : Addr, hi : Addr]

TypeOK ==
  /\ bytes \in Seq(Byte) /\ subtrees \in Seq(SUBSET MemorySubPayload)
  /\ mapping \in Nat /\ memroot \subseteq MemoryPayload
  /\ saved \in Seq(SUBSET MemoryPayload) /\ events \in Nat
  /\ pc \in PC /\ access \in Access /\ search \in AddrRange
  /\ memp \in MemoryPayload /\ subroot \in [offset : Nat, mapping : Nat]
  /\ msp \in AddrRange
  /\ insert \in [lo : Addr, hi : Addr, contents : Nat, found : Addr]

(* In every version a byte has one answer at most, and a byte of memory    *)
(* has one: the intervals are disjoint, and those of memory leave nothing  *)
(* out.  update_memtree_from_read() relies on the latter, it fills the     *)
(* sub-tree of the interval it finds from memp_search.lo on.               *)
Disjoint(ps) == \A p, q \in ps : p # q => p.hi < q.lo \/ q.hi < p.lo
InSpace(tree, type) == {p \in tree : p.type = type}

GoodTree(tree) ==
  /\ Disjoint(InSpace(tree, "m")) /\ Disjoint(InSpace(tree, "r"))
  /\ \A a \in Addr : \E p \in InSpace(tree, "m") : p.lo <= a /\ a <= p.hi

Versions == {memroot} \cup {saved[i] : i \in DOMAIN saved}

OneAnswerPerByte ==
  /\ \A tree \in Versions : GoodTree(tree)
  /\ \A i \in DOMAIN subtrees : Disjoint(subtrees[i])

(* However often an interval was cut, in whichever version, its contents   *)
(* are what its event gave for its addresses; and a sub-tree has for an    *)
(* address what some read gave for that address.                           *)
RightContents(p) ==
  \A a \in p.lo .. p.hi :
    /\ p.contents + (a - p.lo) \in DOMAIN bytes
    /\ bytes[p.contents + (a - p.lo)] = [event |-> p.event, addr |-> a]

RightSubContents(p) ==
  \A a \in p.lo .. p.hi :
    /\ p.contents + (a - p.lo) \in DOMAIN bytes
    /\ bytes[p.contents + (a - p.lo)].addr = a

InPlace(p) ==
  IF p.raw THEN RightContents(p) ELSE p.contents \in DOMAIN subtrees

ContentsInPlace ==
  /\ \A tree \in Versions : \A p \in tree : InPlace(p)
  /\ \A i \in DOMAIN subtrees : \A p \in subtrees[i] : RightSubContents(p)

(* "Take account of alloc() perhaps having re-mmapped the file": the       *)
(* pointer the loop reads the sub-tree's root through, and writes the new  *)
(* one through, is into the present mapping.                               *)
PointerFresh ==
  pc \in {"find", "insert"} =>
    subroot = [offset |-> memp.contents, mapping |-> mapping]

(* What is known of a byte in the version of some record never changes and *)
(* is never forgotten.                                                     *)
Knows(tree, type, a, b) ==
  \E p \in InSpace(tree, type) :
    /\ p.lo <= a /\ a <= p.hi
    /\ IF p.raw THEN b = bytes[p.contents + (a - p.lo)]
       ELSE \E s \in subtrees[p.contents] :
              /\ s.lo <= a /\ a <= s.hi
              /\ b = bytes[s.contents + (a - s.lo)]

VersionsOnlyLearn ==
  [][\A i \in DOMAIN saved, type \in {"r", "m"}, a \in Addr :
       \A b \in {bytes[k] : k \in DOMAIN bytes} :
         Knows(saved[i], type, a, b) => Knows(saved[i], type, a, b)']_vars

(* Every read ends. *)
ReadsEnd == pc # "idle" ~> pc = "idle"

-----------------------------------------------------------------------------
(***************************************************************************)
(* The inductive invariant.                                                *)
(***************************************************************************)
(* In the middle of a read: the pointer is good, and the bytes about to be *)
(* put into the sub-tree are in the arena and not yet in the sub-tree.     *)
GapOK ==
  /\ insert.lo <= insert.hi /\ RightSubContents(insert)
  /\ \A p \in subtrees[memp.contents] : ~Overlap(p, insert.lo, insert.hi)

ReadOK ==
  /\ PointerFresh
  /\ pc \in {"find", "insert"} => memp.contents \in DOMAIN subtrees
  /\ pc = "insert" => GapOK

IInv == TypeOK /\ OneAnswerPerByte /\ ContentsInPlace /\ ReadOK
=============================================================================
