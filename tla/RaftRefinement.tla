---------------------------- MODULE RaftRefinement ----------------------------
(***************************************************************************)
(* Raft implements ReplicatedLog: the committed sequence is the log of the *)
(* node that has committed most, up to its commitIndex.                    *)
(***************************************************************************)
EXTENDS Raft

CommittedLog ==
    LET m == CHOOSE m \in Node : \A n \in Node : commitIndex[n] <= commitIndex[m]
    IN  SubSeq(log[m].entries, 1, commitIndex[m])

RL == INSTANCE ReplicatedLog WITH committed <- CommittedLog

(***************************************************************************)
(* Every step of the nodes extends the one committed sequence, delivers    *)
(* its next entry on one node, or changes neither (advanceCommitIndex,     *)
(* HandleAppendEntries' commit update, applyCommitted), until the first    *)
(* compaction.                                                             *)
(***************************************************************************)
ImplementsReplicatedLog ==
    RL!Init /\ [][Uncompacted' => RL!Next]_<<CommittedLog, delivered>>

=============================================================================
