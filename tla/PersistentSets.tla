--------------------------- MODULE PersistentSets ---------------------------
(***************************************************************************)
(* What AVLDisk promises its callers, whichever way it shares nodes: each  *)
(* tree is a set of payloads of its own, an update of one tree changes no  *)
(* other, and the trees saved at a commit stay as they were for ever       *)
(* ("all tree roots existing before the commit remain valid forever",      *)
(* include/libtarmac/disktree.hh).                                         *)
(***************************************************************************)
EXTENDS Naturals, Sequences

CONSTANTS Trees, Keys

VARIABLES
  sets,   \* the payloads of each tree
  saved   \* all the trees as they were at each commit

vars == <<sets, saved>>

Init == sets = [t \in Trees |-> {}] /\ saved = <<>>

Insert(t, k) ==
  /\ k \notin sets[t]
  /\ sets' = [sets EXCEPT ![t] = @ \cup {k}]
  /\ UNCHANGED saved

Remove(t, k) ==
  /\ k \in sets[t]
  /\ sets' = [sets EXCEPT ![t] = @ \ {k}]
  /\ UNCHANGED saved

Clone(t, u) ==
  /\ sets[u] = {}
  /\ sets' = [sets EXCEPT ![u] = sets[t]]
  /\ UNCHANGED saved

Free(t) ==
  /\ sets' = [sets EXCEPT ![t] = {}]
  /\ UNCHANGED saved

Commit ==
  /\ saved' = Append(saved, sets)
  /\ UNCHANGED sets

Next ==
  \/ \E t \in Trees, k \in Keys : Insert(t, k) \/ Remove(t, k)
  \/ \E t, u \in Trees : Clone(t, u)
  \/ \E t \in Trees : Free(t)
  \/ Commit

Spec == Init /\ [][Next]_vars
=============================================================================
