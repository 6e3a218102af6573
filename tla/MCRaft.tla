-------------------------------- MODULE MCRaft --------------------------------
(***************************************************************************)
(* Finite instances of Raft for TLC.                                       *)
(***************************************************************************)
EXTENDS RaftRefinement, TLC

(* The permutations of nodes that keep the sets the constants name.        *)
Symmetry ==
    {f \in Permutations(Node) :
        \A S \in {Electable, Appliers, SnapshotCallers} : {f[n] : n \in S} = S}

(***************************************************************************)
(* The part of the state that later steps and the safety properties read:  *)
(* leaderID, grants and elected are never read by a step, votes only by a  *)
(* candidate, nextIndex and matchIndex only by a leader.                   *)
(***************************************************************************)
LiveState ==
    <<state, currentTerm, votedFor, log, commitIndex, callVars, round,
      [n \in Node |-> IF state[n] = "Candidate" THEN votes[n] ELSE {}],
      [n \in Node |-> IF state[n] = "Leader" THEN <<nextIndex[n], matchIndex[n]>>
                      ELSE <<>>],
      applyVars>>

(***************************************************************************)
(* A follower that compacted may append entries it already has again, so   *)
(* that "entries[i].Index == snapIndex + 1 + i" (log.go) no longer holds;  *)
(* this stops the exploration once a log has outgrown every index.         *)
(***************************************************************************)
LogsBounded == \A n \in Node : Len(log[n].entries) <= MaxLog

=============================================================================
