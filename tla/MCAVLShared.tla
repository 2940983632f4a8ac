---------------------------- MODULE MCAVLShared ----------------------------
(***************************************************************************)
(* Trees that share nodes, for TLC: what holds of them as long as nothing  *)
(* has been removed (what removing breaks is a run of its own), and that   *)
(* their nodes' refcounts hold in every session that does not both clone   *)
(* trees and remove from them.                                             *)
(***************************************************************************)
EXTENDS MCAVLDisk

(* index_ds.hh: without remove() the trees stay balanced, and every node   *)
(* is annotated with what is in the subtree below it (insert_main).        *)
InsertionsBalance == ~updates.removes => Balanced /\ AnnotationsExact

(* disktree.hh: "a node with a refcount > 1 may not be modified by an      *)
(* operation on one of the trees using that node".  Without remove() no    *)
(* step of an insertion can be seen through another tree (rewrite).        *)
InsertionsUnseen == ~updates.removes => BystandersUntouched

(* After every operation a node's refcount is the number of links and      *)
(* owners that lead to it, and it is free, once, just when there are none: *)
(* nothing in use is handed out again and nothing is lost (free_node).     *)
(* Not once a tree may have been removed from while it shares nodes: a     *)
(* node that is then linked wrongly can end up below itself.               *)
CountsExact ==
  ~(updates.removes /\ updates.clones) => RefcountsExact /\ FreeListExact
=============================================================================
