---------------------------- MODULE ByteMemory ----------------------------
(***************************************************************************)
(* What the index's memory tree promises: the contents of every byte of    *)
(* memory and of the register space at each record of the trace.           *)
(*                                                                         *)
(* A byte is as the last write left it.  A read tells what a byte is whose *)
(* contents were unknown, and with hindsight what it was in every earlier  *)
(* version since the last time it was touched.  What is known of a version *)
(* is never unlearnt.                                                      *)
(***************************************************************************)
EXTENDS Naturals, Sequences

CONSTANTS
  Bytes,     \* the bytes there are: pairs of an address space and an address
  Ranges,    \* the sets of them that one event touches
  Unknown

VARIABLES
  versions,  \* the bytes as they are after each record, the last one open:
             \* their contents, the event and the record that touched them last
  events,    \* how many events there have been
  reading    \* the bytes the running read has data for

vars == <<versions, events, reading>>

Current == versions[Len(versions)]

(* The data of event n is told from any other by its number and place. *)
Given(n, b) == [event |-> n, addr |-> b[2]]

Init ==
  /\ versions = <<[b \in Bytes |-> [event |-> 0, line |-> 0, value |-> Unknown]]>>
  /\ events = 0
  /\ reading = {}

Touch(bs, value(_)) ==
  /\ reading = {}
  /\ events' = events + 1
  /\ versions' =
       [versions EXCEPT ![Len(versions)] =
          [b \in Bytes |->
             IF b \in bs
             THEN [event |-> events', line |-> Len(versions), value |-> value(b)]
             ELSE @[b]]]
  /\ UNCHANGED reading

Write(bs) == Touch(bs, LAMBDA b : Given(events', b))
Forget(bs) == Touch(bs, LAMBDA b : Unknown)

BeginRead(bs) ==
  /\ reading = {} /\ reading' = bs
  /\ events' = events + 1
  /\ UNCHANGED versions

(* Some of the bytes that were read become known, now and in the past. *)
Learn(bs) ==
  LET old == versions
      now == old[Len(old)]
  IN /\ bs \subseteq reading
     /\ versions' =
          [i \in DOMAIN old |->
             [b \in Bytes |->
                IF /\ b \in bs /\ old[i][b].event = now[b].event
                   /\ old[i][b].value = Unknown
                THEN [old[i][b] EXCEPT !.value = Given(events, b)]
                ELSE old[i][b]]]
     /\ UNCHANGED <<events, reading>>

(* A read has not ended before all it read is known. *)
EndRead ==
  /\ LET now == Current IN \A b \in reading : now[b].value # Unknown
  /\ reading' = {}
  /\ UNCHANGED <<versions, events>>

NewRecord ==
  /\ reading = {}
  /\ versions' = Append(versions, Current)
  /\ UNCHANGED <<events, reading>>

Next ==
  \/ \E bs \in Ranges : Write(bs) \/ Forget(bs) \/ BeginRead(bs)
  \/ \E bs \in SUBSET reading : Learn(bs)
  \/ EndRead \/ NewRecord

Spec == Init /\ [][Next]_vars
=============================================================================
