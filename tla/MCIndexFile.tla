---------------------------- MODULE MCIndexFile ----------------------------
(***************************************************************************)
(* Instances of IndexFile for TLC.                                         *)
(***************************************************************************)
EXTENDS IndexFile, TLC

ToolSymmetry == Permutations(Tool)

\* An inode without a name and without a tool that has it mapped can never be
\* reached again, so states that differ in such inodes only are the same.
Live ==
    {i \in Run : \/ i = name
                 \/ \E t \in Tool : tool[t].pc \notin Idle /\ tool[t].inode = i}
LiveView ==
    << clock, trace, name, tool, runs, [i \in Live |-> file[i]],
       overlap \cap Live, reused \cap Live, torn \cap Live, racy \cap Live >>
=============================================================================
