----------------------------- MODULE MCMemTree -----------------------------
(***************************************************************************)
(* Properties of MemTree for TLC: the refinement of ByteMemory, and the    *)
(* queries; and the events TLC tries.                                      *)
(***************************************************************************)
EXTENDS MemQuery

CONSTANT Unknown
ASSUME UnknownAssumption == Unknown \notin Byte

Event(op, type, addr, size) ==
  [op |-> op, type |-> type, addr |-> addr, size |-> size]

(* Events that overlap each other on either side, contain each other and   *)
(* meet; at the first and up to the last address.                          *)
SomeAccesses ==
  {Event("write", "m", 1, 1), Event("write", "m", 1, 3),
   Event("write", "m", 3, 2), Event("forget", "m", 0, 2),
   Event("read", "m", 0, 4), Event("read", "m", 2, 2),
   Event("write", "r", 1, 2)}

ReadsAtTheTop == {Event("read", "m", 3, 2), Event("forget", "m", 4, 1)}

-----------------------------------------------------------------------------
(* A version, byte for byte: what is known of it, and which event and      *)
(* record touched it last.                                                 *)
Bytes == {"r", "m"} \X Addr
Covers(p, a) == p.lo <= a /\ a <= p.hi

ValueAt(p, a) ==
  LET subs == {s \in subtrees[p.contents] : Covers(s, a)}
      s == CHOOSE s \in subs : TRUE
  IN IF p.raw THEN bytes[p.contents + (a - p.lo)]
     ELSE IF subs = {} THEN Unknown ELSE bytes[s.contents + (a - s.lo)]

View(tree) ==
  [b \in Bytes |->
     LET ps == {p \in tree : p.type = b[1] /\ Covers(p, b[2])}
         p == CHOOSE p \in ps : TRUE
     IN IF ps = {} THEN [event |-> 0, line |-> 0, value |-> Unknown]
        ELSE [event |-> p.event, line |-> p.line, value |-> ValueAt(p, b[2])]]

BytesOf(x) == {<<x.type, a>> : a \in x.addr .. Hi(x.addr, x.size)}

(* The tree, with all its old versions, is a byte memory that learns from  *)
(* reads with hindsight, a gap at a time.                                  *)
Abstract == INSTANCE ByteMemory WITH
  Ranges <- {BytesOf(x) : x \in Accesses},
  versions <- Append([i \in DOMAIN saved |-> View(saved[i])], View(memroot)),
  reading <- IF pc = "idle" THEN {} ELSE BytesOf(access)

ImplementsByteMemory == Abstract!Spec

(* The queries, byte for byte, of every version and range.  (For unknown   *)
(* memory at the last address they share the loop that ReadsEnd of the     *)
(* run on reads at the top is about.)                                      *)
Ranges == {r \in Addr \X Addr : r[1] <= r[2] /\ r[2] < AddrMax}
KnownIn(view, type, r) ==
  {<<a, view[<<type, a>>].value>> :
     a \in {c \in r[1] .. r[2] : view[<<type, c>>].value # Unknown}}
Lines(view, type, r) == {view[<<type, a>>].line : a \in r[1] .. r[2]}

GetMemExact(tree, view, type, r) ==
  LET got == GetMem(tree, type, r[1], r[2])
      known == KnownIn(view, type, r)
      lines == Lines(view, type, r)
  IN /\ got.known = known
     /\ got.line \in lines /\ \A n \in lines : n <= got.line
     /\ ReadMemtreeValue(tree, type, r[1], r[2]) =
          IF Cardinality(known) = r[2] - r[1] + 1 THEN known ELSE {}

(* getmem_next() gives the first bytes that are known, in one piece, and   *)
(* the record that touched them.                                           *)
GetMemNextFirst(tree, view, type, r) ==
  LET got == GetMemNext(tree, type, r[1], r[2])
      known == KnownIn(view, type, r)
      addrs == {k[1] : k \in got.known}
  IN IF known = {} THEN got = NoStretch
     ELSE /\ got.known \subseteq known /\ got.known # {}
          /\ \A k \in known, a \in addrs : k[1] < a => k \in got.known
          /\ \A a \in addrs : view[<<type, a>>].line = got.line

QueriesExact ==
  pc = "idle" =>
    \A tree \in Versions :
      LET view == View(tree)
      IN \A type \in {"r", "m"}, r \in Ranges :
           /\ GetMemExact(tree, view, type, r)
           /\ GetMemNextFirst(tree, view, type, r)
=============================================================================
