---------------------------- MODULE ReplicatedLog ----------------------------
(***************************************************************************)
(* What a group of Raft nodes promises the state machines that read their  *)
(* CommitCh: there is one sequence of committed entries, it is only ever   *)
(* extended, and every node delivers it in order from the beginning.       *)
(***************************************************************************)
EXTENDS SequencesExt

CONSTANT Node

VARIABLES
    committed,   \* the sequence of committed entries
    delivered    \* delivered[n]: the entries node n has sent on CommitCh

Init ==
    /\ committed = <<>>
    /\ delivered = [n \in Node |-> <<>>]

Commit ==
    /\ IsStrictPrefix(committed, committed')
    /\ UNCHANGED delivered

Deliver(n) ==
    /\ Len(delivered[n]) < Len(committed)
    /\ delivered' = [delivered EXCEPT ![n] = Append(@, committed[Len(@) + 1])]
    /\ UNCHANGED committed

Next == Commit \/ \E n \in Node : Deliver(n)

Spec == Init /\ [][Next]_<<committed, delivered>>

=============================================================================
