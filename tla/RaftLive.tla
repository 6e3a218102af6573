------------------------------- MODULE RaftLive -------------------------------
(***************************************************************************)
(* Progress of the Raft nodes once elections have settled.                 *)
(*                                                                         *)
(* Fairness.  A running node's loops and handlers are goroutines that the  *)
(* Go scheduler keeps running: each of their steps is weakly fair.  A call *)
(* sent as a "request" is one that is answered within its timeout, so it   *)
(* is served even by a node outside Running; every other call to such a    *)
(* node is lost.  A link between running nodes that is tried again and     *)
(* again gets a call through again and again (strong fairness of the send  *)
(* that is answered).  An election timeout and a client's Propose are      *)
(* never forced to happen.                                                 *)
(***************************************************************************)
EXTENDS Raft

CONSTANT Running  \* the nodes that are neither stopped nor cut off

(* The send of replicateTo whose call is answered.                         *)
replicateToAnswered(n, p) ==
    /\ replicateTo(n, p)
    /\ \/ \E c \in appendCalls' \ appendCalls : c.phase = "request"
       \/ \E c \in snapCalls' \ snapCalls : c.phase = "request"

(* n runs the handler of a call, or takes the reply to a call of its own.  *)
Serves(n) ==
    \/ \E c \in voteCalls : c.dst = n /\ HandleRequestVote(c)
    \/ \E c \in voteCalls : c.src = n /\ RequestVoteReply(c)
    \/ \E c \in appendCalls : c.dst = n /\ HandleAppendEntries(c)
    \/ \E c \in appendCalls : c.src = n /\ AppendEntriesReply(c)
    \/ \E c \in snapCalls : c.dst = n /\ HandleInstallSnapshot(c)
    \/ \E c \in snapCalls : c.src = n /\ InstallSnapshotReply(c)

Applies(n) ==
    applyWake(n) \/ applySlice(n) \/ applyDeliver(n) \/ applyDone(n) \/ applyCompact(n)

MainLoop(n) == maybeSendHeartbeats(n) \/ \E p \in Node : replicateTo(n, p)

Fairness ==
    /\ \A n \in Node : WF_vars(Serves(n))
    /\ \A n \in Running \cap Appliers : WF_vars(Applies(n))
    /\ \A n \in Running \cap Electable :
         /\ WF_vars(MainLoop(n))
         /\ \A p \in Running \ {n} : SF_vars(replicateToAnswered(n, p))

LiveSpec == Spec /\ Fairness

(* A leader no other node can depose: there is no election beyond MaxTerm. *)
FinalLeader(n) == n \in Running /\ state[n] = "Leader" /\ currentTerm[n] = MaxTerm

(***************************************************************************)
(* Once a lasting leader has an entry of its own term at the end of its    *)
(* log, every running node commits the leader's whole log and delivers it: *)
(* the quorum counting, the commit index carried by heartbeats and the     *)
(* apply loop's signal together.                                           *)
(***************************************************************************)
CommitsReachAll ==
    (\E n \in Node : FinalLeader(n) /\ lastTerm(log[n]) = MaxTerm) ~>
        \E n \in Node : /\ FinalLeader(n)
                        /\ \A p \in Running :
                             /\ commitIndex[p] = lastIndex(log[n])
                             /\ p \in Appliers => lastApplied[p] = lastIndex(log[n])

=============================================================================
