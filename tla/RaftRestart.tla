----------------------------- MODULE RaftRestart -----------------------------
(***************************************************************************)
(* Raft with processes that crash and restart.  Node keeps currentTerm,    *)
(* votedFor and the log in memory only (node.go), so New starts over.      *)
(***************************************************************************)
EXTENDS Raft

CONSTANT MaxRestarts  \* bound: restarts in a behaviour

VARIABLE restarts

RestartInit == Init /\ restarts = 0

(* The caller of a live call is gone: a request becomes stray.             *)
Abandoned(calls, n) ==
    {c \in calls : c.src # n \/ c.phase = "stray"}
      \cup {[c EXCEPT !.phase = "stray"] :
              c \in {d \in calls : d.src = n /\ d.phase = "request"}}

Restart(n) ==
    /\ restarts < MaxRestarts
    /\ restarts' = restarts + 1
    /\ state' = [state EXCEPT ![n] = "Follower"]
    /\ currentTerm' = [currentTerm EXCEPT ![n] = 0]
    /\ votedFor' = [votedFor EXCEPT ![n] = Nil]
    /\ leaderID' = [leaderID EXCEPT ![n] = Nil]
    /\ log' = [log EXCEPT ![n] = newRaftLog]
    /\ commitIndex' = [commitIndex EXCEPT ![n] = 0]
    /\ lastApplied' = [lastApplied EXCEPT ![n] = 0]
    /\ nextIndex' = [nextIndex EXCEPT ![n] = [p \in Node |-> 1]]
    /\ matchIndex' = [matchIndex EXCEPT ![n] = [p \in Node |-> 0]]
    /\ votes' = [votes EXCEPT ![n] = {}]
    /\ round' = [round EXCEPT ![n] = {}]
    /\ voteCalls' = Abandoned(voteCalls, n)
    /\ appendCalls' = Abandoned(appendCalls, n)
    /\ snapCalls' = Abandoned(snapCalls, n)
    /\ applySig' = [applySig EXCEPT ![n] = FALSE]
    /\ apply' = [apply EXCEPT ![n] = Idle]
    /\ delivered' = [delivered EXCEPT ![n] = <<>>]
    /\ UNCHANGED <<grants, elected>>

RestartNext ==
    \/ Next /\ UNCHANGED restarts
    \/ \E n \in Node : Restart(n)

RestartSpec == RestartInit /\ [][RestartNext]_<<vars, restarts>>

(***************************************************************************)
(* "Raft guarantees only one leader can exist per term"                    *)
(* (docs/ARCHITECTURE.md, master failures), for masters that may restart.  *)
(***************************************************************************)
OneLeaderPerTerm ==
    \A m, n \in Node :
        /\ state[m] = "Leader" /\ state[n] = "Leader"
        /\ currentTerm[m] = currentTerm[n]
        => m = n

=============================================================================
