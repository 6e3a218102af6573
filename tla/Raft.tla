--------------------------------- MODULE Raft ---------------------------------
(***************************************************************************)
(* The consensus node of internal/raft: leader election, log replication,  *)
(* snapshots and the delivery of committed entries (node.go, election.go,  *)
(* replication.go, snapshot.go, log.go) over an RPC transport that may     *)
(* delay or lose any call.                                                 *)
(*                                                                         *)
(* Every handler and every critical section under Node.mu is one action.   *)
(* Timers are not modelled: an election timeout or a heartbeat tick may    *)
(* fire whenever the main loop is free to receive it.                      *)
(***************************************************************************)
EXTENDS RaftLog, FiniteSets

CONSTANTS
    Nil,               \* the empty node ID ""
    CompactThreshold,  \* log length that triggers compaction (10_000)
    SnapshotCallers,   \* nodes whose application calls TakeSnapshot
    Appliers,          \* bound: nodes whose apply loop is scheduled
    Electable,         \* bound: nodes whose election timer fires
    MaxTerm,           \* bound: no election is started beyond this term
    MaxLog,            \* bound: nothing is proposed beyond this index
    MaxCalls,          \* bound: calls in flight at any time
    MaxStray           \* bound: those among them whose caller gave up

ASSUME NodeAssumption == IsFiniteSet(Node) /\ Nil \notin Node

ASSUME BoundsAssumption ==
    /\ MaxTerm \in Nat /\ MaxLog \in Nat /\ MaxCalls \in Nat /\ MaxStray \in Nat
    /\ CompactThreshold \in Nat \ {0}
    /\ SnapshotCallers \subseteq Node /\ Appliers \subseteq Node /\ Electable \subseteq Node

VARIABLES
    state, currentTerm, votedFor, leaderID,
    log, commitIndex, lastApplied,
    nextIndex, matchIndex,
    votes,        \* peers (and self) counted in the election of currentTerm
    round,        \* peers whose replicateTo goroutine has not yet run
    voteCalls, appendCalls, snapCalls,  \* RPCs in flight
    applySig,     \* the one-slot channel that wakes the apply loop
    apply,        \* the apply loop: its control point and local variables
    delivered,    \* history: entries sent on each node's CommitCh
    grants,       \* history: <<voter, term, candidate>> of every vote cast
    elected       \* history: <<term, node>> of every election won

electionVars == <<state, currentTerm, votedFor, leaderID, votes, grants, elected>>
leaderVars   == <<nextIndex, matchIndex>>
applyVars    == <<lastApplied, applySig, apply, delivered>>
callVars     == <<voteCalls, appendCalls, snapCalls>>
vars == <<electionVars, leaderVars, applyVars, callVars,
          log, commitIndex, round>>

Peers(n) == Node \ {n}

(***************************************************************************)
(* The quorum of maybeStartElection and the one of advanceCommitIndex are  *)
(* computed differently and differ when the number of nodes is even.       *)
(***************************************************************************)
ElectionQuorum == Cardinality(Node) \div 2 + 1

CommitQuorum_RoundedDown == Cardinality(Node) \div 2

CommitQuorum == (Cardinality(Node) + 1) \div 2

-----------------------------------------------------------------------------
(***************************************************************************)
(* RPC calls.  A call is a "request" until its handler has run, then a     *)
(* "reply" until the caller consumes it.  A call whose caller gives up     *)
(* before it gets the reply (its context expires, the connection breaks)   *)
(* is "stray": its handler may still run, at any later time, and the reply *)
(* goes nowhere.  A call that never reaches its handler is lost.  Which of *)
(* these a call will be is chosen when it is sent: until the caller gives  *)
(* up nothing else depends on it, since a waiting caller only holds back   *)
(* its own main loop.  A transport never duplicates a call.                *)
(***************************************************************************)
Fate  == {"request", "stray", "lost"}
Phase == {"request", "stray", "reply"}

VoteReply   == [term: Nat, granted: BOOLEAN]
AppendReply == [term: Nat, success: BOOLEAN, conflictIndex: Nat, conflictTerm: Nat]
SnapReply   == [term: Nat]

VoteCall ==
    [src: Node, dst: Node, term: Nat, lastLogIndex: Nat, lastLogTerm: Nat,
     phase: Phase, reply: VoteReply]
AppendCall ==
    [src: Node, dst: Node, term: Nat, prevLogIndex: Nat, prevLogTerm: Nat,
     entries: Seq(Entry), leaderCommit: Nat, phase: Phase, reply: AppendReply]
SnapCall ==
    [src: Node, dst: Node, term: Nat, lastIncludedIndex: Nat,
     lastIncludedTerm: Nat, phase: Phase, reply: SnapReply]

NoVoteReply   == [term |-> 0, granted |-> FALSE]
NoAppendReply == [term |-> 0, success |-> FALSE, conflictIndex |-> 0, conflictTerm |-> 0]
NoSnapReply   == [term |-> 0]

Send(calls, new) == calls \cup {c \in new : c.phase # "lost"}

(* Bound: when too many calls are in flight, further ones are lost.        *)
CallsBounded ==
    LET calls == voteCalls \cup appendCalls \cup snapCalls
    IN  /\ Cardinality(calls) <= MaxCalls
        /\ Cardinality({c \in calls : c.phase = "stray"}) <= MaxStray

Deliverable(c) == c.phase \in {"request", "stray"}

(* What the set of calls becomes when c's handler returns r.               *)
Answer(calls, c, r) ==
    (calls \ {c}) \cup (IF c.phase = "request"
                        THEN {[c EXCEPT !.phase = "reply", !.reply = r]} ELSE {})

(***************************************************************************)
(* maybeSendHeartbeats runs in the main loop and waits for all its         *)
(* replicateTo goroutines; no other event of the loop is served meanwhile. *)
(***************************************************************************)
MainLoopIdle_NoWait(n) == TRUE

MainLoopIdle(n) ==
    /\ round[n] = {}
    /\ \A c \in appendCalls \cup snapCalls : c.src = n => c.phase = "stray"

-----------------------------------------------------------------------------
(***************************************************************************)
(* The apply loop waits for applySig ("idle"), has read lastApplied and    *)
(* commitIndex as lo and hi ("slice"), is sending buf on CommitCh          *)
(* ("deliver"), or is about to compact up to index lo of term hi           *)
(* ("compact").                                                            *)
(***************************************************************************)
ApplyLoop ==
    [pc: {"idle", "slice", "deliver", "compact"}, lo: Nat, hi: Nat, buf: Seq(Entry)]

At(pc, lo, hi, buf) == [pc |-> pc, lo |-> lo, hi |-> hi, buf |-> buf]

Idle == At("idle", 0, 0, <<>>)

Init ==
    /\ state = [n \in Node |-> "Follower"]
    /\ currentTerm = [n \in Node |-> 0]
    /\ votedFor = [n \in Node |-> Nil]
    /\ leaderID = [n \in Node |-> Nil]
    /\ log = [n \in Node |-> newRaftLog]
    /\ commitIndex = [n \in Node |-> 0]
    /\ lastApplied = [n \in Node |-> 0]
    /\ nextIndex = [n \in Node |-> [p \in Node |-> 1]]
    /\ matchIndex = [n \in Node |-> [p \in Node |-> 0]]
    /\ votes = [n \in Node |-> {}]
    /\ round = [n \in Node |-> {}]
    /\ voteCalls = {} /\ appendCalls = {} /\ snapCalls = {}
    /\ applySig = [n \in Node |-> FALSE]
    /\ apply = [n \in Node |-> Idle]
    /\ delivered = [n \in Node |-> <<>>]
    /\ grants = {} /\ elected = {}

-----------------------------------------------------------------------------
(* Elections (election.go).                                                *)

BecomeLeader(n) ==
    /\ state' = [state EXCEPT ![n] = "Leader"]
    /\ leaderID' = [leaderID EXCEPT ![n] = n]
    /\ nextIndex' = [nextIndex EXCEPT ![n] = [p \in Node |-> lastIndex(log[n]) + 1]]
    /\ matchIndex' = [matchIndex EXCEPT ![n] =
                        [p \in Node |-> IF p = n THEN lastIndex(log[n]) ELSE 0]]
    /\ elected' = elected \cup {<<currentTerm'[n], n>>}

(* A single node is its own quorum and wins in the same step.              *)
maybeStartElection(n) ==
    /\ MainLoopIdle(n)
    /\ state[n] # "Leader"
    /\ currentTerm[n] < MaxTerm
    /\ currentTerm' = [currentTerm EXCEPT ![n] = @ + 1]
    /\ votedFor' = [votedFor EXCEPT ![n] = n]
    /\ votes' = [votes EXCEPT ![n] = {n}]
    /\ grants' = grants \cup {<<n, currentTerm[n] + 1, n>>}
    /\ \E fate \in [Peers(n) -> Fate] :
         voteCalls' = Send(voteCalls,
           {[src |-> n, dst |-> p, term |-> currentTerm[n] + 1,
             lastLogIndex |-> lastIndex(log[n]), lastLogTerm |-> lastTerm(log[n]),
             phase |-> fate[p], reply |-> NoVoteReply] : p \in Peers(n)})
    /\ IF ElectionQuorum <= 1
       THEN BecomeLeader(n)
       ELSE /\ state' = [state EXCEPT ![n] = "Candidate"]
            /\ leaderID' = [leaderID EXCEPT ![n] = Nil]
            /\ UNCHANGED <<leaderVars, elected>>
    /\ UNCHANGED <<applyVars, appendCalls, snapCalls, log, commitIndex, round>>
    /\ CallsBounded'

logUpToDate_IndexOnly(l, candidateLastIndex, candidateLastTerm) ==
    candidateLastIndex >= lastIndex(l)

logUpToDate(l, candidateLastIndex, candidateLastTerm) ==
    \/ candidateLastTerm > lastTerm(l)
    \/ candidateLastTerm = lastTerm(l) /\ candidateLastIndex >= lastIndex(l)

alreadyVoted_Forgotten(voted, candidate) == FALSE

alreadyVoted(voted, candidate) == voted # Nil /\ voted # candidate

(* A newer term resets the vote before the vote is decided.                *)
HandleRequestVote(c) ==
    LET n == c.dst
        newer == c.term > currentTerm[n]
        term  == IF newer THEN c.term ELSE currentTerm[n]
        voted == IF newer THEN Nil ELSE votedFor[n]
        grant == /\ c.term >= currentTerm[n]
                 /\ ~alreadyVoted(voted, c.src)
                 /\ logUpToDate(log[n], c.lastLogIndex, c.lastLogTerm)
    IN  /\ Deliverable(c)
        /\ state' = [state EXCEPT ![n] = IF newer THEN "Follower" ELSE @]
        /\ currentTerm' = [currentTerm EXCEPT ![n] = term]
        /\ votedFor' = [votedFor EXCEPT ![n] = IF grant THEN c.src ELSE voted]
        /\ grants' = grants \cup (IF grant THEN {<<n, c.term, c.src>>} ELSE {})
        /\ voteCalls' = Answer(voteCalls, c, [term |-> term, granted |-> grant])
        /\ UNCHANGED <<leaderID, votes, elected, leaderVars, applyVars,
                       appendCalls, snapCalls, log, commitIndex, round>>

BecomeFollower(n, term) ==
    /\ state' = [state EXCEPT ![n] = "Follower"]
    /\ currentTerm' = [currentTerm EXCEPT ![n] = term]
    /\ votedFor' = [votedFor EXCEPT ![n] = Nil]

(* Each vote goroutine counts its own peer's answer, in a term still open. *)
RequestVoteReply(c) ==
    LET n == c.src
        counts == c.reply.granted /\ state[n] = "Candidate" /\ currentTerm[n] = c.term
        wins   == counts /\ Cardinality(votes[n] \cup {c.dst}) >= ElectionQuorum
    IN  /\ c.phase = "reply"
        /\ voteCalls' = voteCalls \ {c}
        /\ IF c.reply.term > currentTerm[n]
           THEN /\ BecomeFollower(n, c.reply.term)
                /\ UNCHANGED <<votes, leaderID, elected, leaderVars>>
           ELSE /\ votes' = [votes EXCEPT ![n] = IF counts THEN @ \cup {c.dst} ELSE @]
                /\ UNCHANGED <<currentTerm, votedFor>>
                /\ IF wins THEN BecomeLeader(n)
                   ELSE UNCHANGED <<state, leaderID, elected, leaderVars>>
        /\ UNCHANGED <<grants, applyVars, appendCalls, snapCalls, log, commitIndex, round>>

-----------------------------------------------------------------------------
(* Replication (replication.go, node.go).                                  *)

(***************************************************************************)
(* newCommit of advanceCommitIndex: the CommitQuorum-th largest match      *)
(* index.  The leader commits it if it is an advance and holds an entry of *)
(* the leader's own term.                                                  *)
(***************************************************************************)
IsNewCommit(m, k) ==
    /\ Cardinality({p \in Node : m[p] >= k}) >= CommitQuorum
    /\ Cardinality({p \in Node : m[p] > k}) < CommitQuorum

Committable_AnyTerm(n, l, m) ==
    {k \in {m[p] : p \in Node} : IsNewCommit(m, k) /\ k > commitIndex[n] /\ HasTerm(l, k)}

Committable(n, l, m) ==
    {k \in {m[p] : p \in Node} : /\ IsNewCommit(m, k) /\ k > commitIndex[n]
                                 /\ HasTerm(l, k) /\ Term(l, k) = currentTerm[n]}

(* The commit index of a leader with log l and match indexes m.            *)
advanceCommitIndex(n, l, m) ==
    LET found == Committable(n, l, m)
    IN  IF found = {} THEN commitIndex[n] ELSE CHOOSE k \in found : TRUE

SetCommitIndex_SignalOverwritten(n, k) ==
    /\ commitIndex' = [commitIndex EXCEPT ![n] = k]
    /\ applySig' = [applySig EXCEPT ![n] = k > commitIndex[n]]

(* Sets commitIndex and signals the apply loop if it advanced.             *)
SetCommitIndex(n, k) ==
    /\ commitIndex' = [commitIndex EXCEPT ![n] = k]
    /\ applySig' = [applySig EXCEPT ![n] = @ \/ k > commitIndex[n]]

Propose(n) ==
    LET i == lastIndex(log[n]) + 1
        e == [index |-> i, term |-> currentTerm[n], command |-> n]
        l == AppendAll(log[n], <<e>>)
        m == [matchIndex[n] EXCEPT ![n] = i]
    IN  /\ state[n] = "Leader"
        /\ i <= MaxLog
        /\ log' = [log EXCEPT ![n] = l]
        /\ matchIndex' = [matchIndex EXCEPT ![n] = m]
        /\ SetCommitIndex(n, advanceCommitIndex(n, l, m))
        /\ UNCHANGED <<electionVars, nextIndex, lastApplied, apply, delivered,
                       callVars, round>>

maybeSendHeartbeats(n) ==
    /\ MainLoopIdle(n)
    /\ state[n] = "Leader"
    /\ round' = [round EXCEPT ![n] = Peers(n)]
    /\ UNCHANGED <<electionVars, leaderVars, applyVars, callVars, log, commitIndex>>

(***************************************************************************)
(* One goroutine of the round sends to peer p: the whole log from          *)
(* nextIndex on, or a snapshot if the entry before it is compacted.  The   *)
(* second critical section of sendSnapshot is part of the step: it reads   *)
(* what replicateTo would have read had it run later.                      *)
(***************************************************************************)
replicateTo(n, p) ==
    LET l    == log[n]
        prev == nextIndex[n][p] - 1
        app(fate) ==
          [src |-> n, dst |-> p, term |-> currentTerm[n],
           prevLogIndex |-> prev, prevLogTerm |-> Term(l, prev),
           entries |-> Slice(l, prev + 1, lastIndex(l) + 1),
           leaderCommit |-> commitIndex[n], phase |-> fate, reply |-> NoAppendReply]
        snap(fate) ==
          [src |-> n, dst |-> p, term |-> currentTerm[n],
           lastIncludedIndex |-> l.snapIndex, lastIncludedTerm |-> l.snapTerm,
           phase |-> fate, reply |-> NoSnapReply]
    IN  /\ p \in round[n]
        /\ round' = [round EXCEPT ![n] = @ \ {p}]
        /\ IF state[n] # "Leader"
           THEN UNCHANGED <<appendCalls, snapCalls>>
           ELSE \E fate \in Fate :
                  IF HasTerm(l, prev)
                  THEN appendCalls' = Send(appendCalls, {app(fate)}) /\ UNCHANGED snapCalls
                  ELSE snapCalls' = Send(snapCalls, {snap(fate)}) /\ UNCHANGED appendCalls
        /\ UNCHANGED <<electionVars, leaderVars, applyVars, voteCalls, log, commitIndex>>
        /\ CallsBounded'

StepsDown_Always(n, term) == term >= currentTerm[n]

(***************************************************************************)
(* A candidate or a node of an older term becomes a follower of the        *)
(* sender, which also clears its vote, even in the same term.              *)
(***************************************************************************)
StepsDown(n, term) ==
    term > currentTerm[n] \/ (term = currentTerm[n] /\ state[n] # "Follower")

PrevMatches(l, prev, prevTerm) ==
    prev = 0 \/ (HasTerm(l, prev) /\ Term(l, prev) = prevTerm)

FollowerCommit_NotMonotone(n, leaderCommit, l) == Min({leaderCommit, lastIndex(l)})

(* The commit index of a follower with log l after an accepted call.       *)
FollowerCommit(n, leaderCommit, l) ==
    IF leaderCommit > commitIndex[n] THEN Min({leaderCommit, lastIndex(l)})
    ELSE commitIndex[n]

HandleAppendEntries(c) ==
    LET n == c.dst
        l == log[n]
        refused  == c.term < currentTerm[n]
        stepDown == StepsDown(n, c.term)
        accepted == ~refused /\ PrevMatches(l, c.prevLogIndex, c.prevLogTerm)
        hint == conflictHint(l, c.prevLogIndex, Term(l, c.prevLogIndex))
        new  == IF accepted THEN AppendNew(l, c.entries) ELSE l
        term == IF refused THEN currentTerm[n] ELSE c.term
    IN  /\ Deliverable(c)
        /\ state' = [state EXCEPT ![n] = IF stepDown THEN "Follower" ELSE @]
        /\ currentTerm' = [currentTerm EXCEPT ![n] = term]
        /\ votedFor' = [votedFor EXCEPT ![n] = IF stepDown THEN Nil ELSE @]
        /\ leaderID' = [leaderID EXCEPT ![n] = IF refused THEN @ ELSE c.src]
        /\ log' = [log EXCEPT ![n] = new]
        /\ commitIndex' = [commitIndex EXCEPT ![n] =
               IF accepted THEN FollowerCommit(n, c.leaderCommit, new) ELSE @]
        /\ applySig' = [applySig EXCEPT ![n] =
               @ \/ (accepted /\ c.leaderCommit > commitIndex[n])]
        /\ appendCalls' = Answer(appendCalls, c,
               [term |-> term, success |-> accepted,
                conflictIndex |-> IF refused \/ accepted THEN 0 ELSE hint.index,
                conflictTerm  |-> IF refused \/ accepted THEN 0 ELSE hint.term])
        /\ UNCHANGED <<votes, grants, elected, leaderVars, lastApplied, apply,
                       delivered, voteCalls, snapCalls, round>>

newMatch_WholeLog(c) == lastIndex(log[c.src])

(* The last index the peer is known to hold after accepting call c.        *)
newMatch(c) == c.prevLogIndex + Len(c.entries)

AppendEntriesReply(c) ==
    LET n == c.src
        p == c.dst
        r == c.reply
        current == state[n] = "Leader" /\ currentTerm[n] = c.term
        match == Max({matchIndex[n][p], newMatch(c)})
        m     == [matchIndex[n] EXCEPT ![p] = match]
        next  == IF r.success THEN match + 1
                 ELSE IF r.conflictTerm # 0
                 THEN BackUpTo(log[n], r.conflictIndex, r.conflictTerm)
                 ELSE IF r.conflictIndex > 0 THEN r.conflictIndex
                 ELSE Max({nextIndex[n][p] - 1, 1})
    IN  /\ c.phase = "reply"
        /\ appendCalls' = appendCalls \ {c}
        /\ IF r.term > currentTerm[n]
           THEN /\ BecomeFollower(n, r.term)
                /\ UNCHANGED <<leaderVars, commitIndex, applySig>>
           ELSE /\ nextIndex' = IF current THEN [nextIndex EXCEPT ![n][p] = next]
                                ELSE nextIndex
                /\ matchIndex' = IF current /\ r.success
                                 THEN [matchIndex EXCEPT ![n] = m] ELSE matchIndex
                /\ SetCommitIndex(n, IF current /\ r.success
                                     THEN advanceCommitIndex(n, log[n], m)
                                     ELSE commitIndex[n])
                /\ UNCHANGED <<state, currentTerm, votedFor>>
        /\ UNCHANGED <<leaderID, votes, grants, elected, lastApplied, apply,
                       delivered, voteCalls, snapCalls, log, round>>

-----------------------------------------------------------------------------
(* Snapshots (snapshot.go).                                                *)

TakeSnapshot(n) ==
    /\ n \in SnapshotCallers
    /\ HasTerm(log[n], lastApplied[n])
    /\ log' = [log EXCEPT ![n] = SetSnapshot(@, lastApplied[n], Term(@, lastApplied[n]))]
    /\ UNCHANGED <<electionVars, leaderVars, applyVars, callVars, commitIndex, round>>

(***************************************************************************)
(* The message carries no state-machine data.  A candidate of the same     *)
(* term stays a candidate; commitIndex moves without a signal.             *)
(***************************************************************************)
HandleInstallSnapshot(c) ==
    LET n == c.dst
        refused  == c.term < currentTerm[n]
        stepDown == c.term > currentTerm[n]
        installs == ~refused /\ c.lastIncludedIndex > log[n].snapIndex
        term == IF stepDown THEN c.term ELSE currentTerm[n]
        raise(k) == IF installs THEN Max({k, c.lastIncludedIndex}) ELSE k
    IN  /\ Deliverable(c)
        /\ state' = [state EXCEPT ![n] = IF stepDown THEN "Follower" ELSE @]
        /\ currentTerm' = [currentTerm EXCEPT ![n] = term]
        /\ votedFor' = [votedFor EXCEPT ![n] = IF stepDown THEN Nil ELSE @]
        /\ leaderID' = [leaderID EXCEPT ![n] = IF refused THEN @ ELSE c.src]
        /\ log' = [log EXCEPT ![n] =
               IF installs THEN SetSnapshot(@, c.lastIncludedIndex, c.lastIncludedTerm)
               ELSE @]
        /\ commitIndex' = [commitIndex EXCEPT ![n] = raise(@)]
        /\ lastApplied' = [lastApplied EXCEPT ![n] = raise(@)]
        /\ snapCalls' = Answer(snapCalls, c, [term |-> term])
        /\ UNCHANGED <<votes, grants, elected, leaderVars, applySig, apply,
                       delivered, voteCalls, appendCalls, round>>

(* Unlike replicateTo, the sender does not compare its term with the call's. *)
InstallSnapshotReply(c) ==
    LET n == c.src
        p == c.dst
        i == c.lastIncludedIndex
    IN  /\ c.phase = "reply"
        /\ snapCalls' = snapCalls \ {c}
        /\ IF c.reply.term > currentTerm[n]
           THEN BecomeFollower(n, c.reply.term) /\ UNCHANGED leaderVars
           ELSE /\ UNCHANGED <<state, currentTerm, votedFor>>
                /\ IF state[n] # "Leader" THEN UNCHANGED leaderVars
                   ELSE /\ matchIndex' = [matchIndex EXCEPT ![n][p] = Max({@, i})]
                        /\ nextIndex' = [nextIndex EXCEPT ![n][p] = i + 1]
        /\ UNCHANGED <<leaderID, votes, grants, elected, applyVars, voteCalls,
                       appendCalls, log, commitIndex, round>>

-----------------------------------------------------------------------------
(***************************************************************************)
(* The apply loop (applyLoop and applyCommitted of node.go).  It releases  *)
(* Node.mu between reading the indexes, slicing the log, sending each      *)
(* entry and compacting, so handlers run in between.                       *)
(***************************************************************************)
ApplyStep(n, a) ==
    /\ apply' = [apply EXCEPT ![n] = a]
    /\ UNCHANGED <<electionVars, leaderVars, callVars, commitIndex, round>>

applyWake(n) ==
    /\ apply[n].pc = "idle" /\ applySig[n]
    /\ applySig' = [applySig EXCEPT ![n] = FALSE]
    /\ ApplyStep(n, IF commitIndex[n] <= lastApplied[n] THEN Idle
                    ELSE At("slice", lastApplied[n], commitIndex[n], <<>>))
    /\ UNCHANGED <<lastApplied, delivered, log>>

applySlice(n) ==
    /\ apply[n].pc = "slice"
    /\ ApplyStep(n, At("deliver", 0, 0, Slice(log[n], apply[n].lo + 1, apply[n].hi + 1)))
    /\ UNCHANGED <<lastApplied, applySig, delivered, log>>

applyDeliver_NotRecorded(n) ==
    /\ apply[n].pc = "deliver" /\ apply[n].buf # <<>>
    /\ delivered' = [delivered EXCEPT ![n] = Append(@, Head(apply[n].buf))]
    /\ ApplyStep(n, At("deliver", 0, 0, Tail(apply[n].buf)))
    /\ UNCHANGED <<applySig, log, lastApplied>>

(* Sends the next entry of the slice and records it as applied.            *)
applyDeliver(n) ==
    /\ apply[n].pc = "deliver" /\ apply[n].buf # <<>>
    /\ delivered' = [delivered EXCEPT ![n] = Append(@, Head(apply[n].buf))]
    /\ lastApplied' = [lastApplied EXCEPT ![n] = Head(apply[n].buf).index]
    /\ ApplyStep(n, At("deliver", 0, 0, Tail(apply[n].buf)))
    /\ UNCHANGED <<applySig, log>>

CompactionPoint_EndOfLog(n) == lastIndex(log[n])

CompactionPoint(n) == lastApplied[n]

(* The slice is sent: compaction is due if the log is long enough.         *)
applyDone(n) ==
    LET last == CompactionPoint(n)
        due  == /\ Len(log[n].entries) >= CompactThreshold
                /\ HasTerm(log[n], last)
    IN  /\ apply[n].pc = "deliver" /\ apply[n].buf = <<>>
        /\ ApplyStep(n, IF due THEN At("compact", last, Term(log[n], last), <<>>) ELSE Idle)
        /\ UNCHANGED <<lastApplied, applySig, delivered, log>>

applyCompact(n) ==
    /\ apply[n].pc = "compact"
    /\ log' = [log EXCEPT ![n] = SetSnapshot(@, apply[n].lo, apply[n].hi)]
    /\ ApplyStep(n, Idle)
    /\ UNCHANGED <<lastApplied, applySig, delivered>>

-----------------------------------------------------------------------------
ElectionNext ==
    \/ \E n \in Electable : maybeStartElection(n)
    \/ \E c \in voteCalls : HandleRequestVote(c) \/ RequestVoteReply(c)

ReplicationNext ==
    \/ \E n \in Node : Propose(n) \/ maybeSendHeartbeats(n)
    \/ \E n, p \in Node : replicateTo(n, p)
    \/ \E c \in appendCalls : HandleAppendEntries(c) \/ AppendEntriesReply(c)

SnapshotNext ==
    \/ \E n \in Node : TakeSnapshot(n)
    \/ \E c \in snapCalls : HandleInstallSnapshot(c) \/ InstallSnapshotReply(c)

ApplyNext ==
    \E n \in Appliers : \/ applyWake(n) \/ applySlice(n) \/ applyDeliver(n)
                    \/ applyDone(n) \/ applyCompact(n)

Next ==
    \/ ElectionNext \/ ReplicationNext \/ SnapshotNext \/ ApplyNext

Spec == Init /\ [][Next]_vars

-----------------------------------------------------------------------------
(* Properties.                                                             *)

(***************************************************************************)
(* Every field has the type of its Go declaration.  nextIndex is never 0:  *)
(* replicateTo computes nextIdx - 1 on an unsigned integer.  That needs a  *)
(* hint with a ConflictTerm to have a ConflictIndex, which replicateTo     *)
(* takes unchecked.                                                        *)
(***************************************************************************)
TypeOK ==
    /\ state \in [Node -> {"Follower", "Candidate", "Leader"}]
    /\ currentTerm \in [Node -> Nat]
    /\ votedFor \in [Node -> Node \cup {Nil}]
    /\ leaderID \in [Node -> Node \cup {Nil}]
    /\ log \in [Node -> Log]
    /\ commitIndex \in [Node -> Nat] /\ lastApplied \in [Node -> Nat]
    /\ nextIndex \in [Node -> [Node -> Nat \ {0}]]
    /\ matchIndex \in [Node -> [Node -> Nat]]
    /\ votes \in [Node -> SUBSET Node] /\ round \in [Node -> SUBSET Node]
    /\ voteCalls \subseteq VoteCall /\ appendCalls \subseteq AppendCall
    /\ snapCalls \subseteq SnapCall
    /\ applySig \in [Node -> BOOLEAN] /\ apply \in [Node -> ApplyLoop]
    /\ delivered \in [Node -> Seq(Entry)]
    /\ grants \subseteq Node \X Nat \X Node /\ elected \subseteq Nat \X Node
    /\ \A c \in appendCalls : c.reply.conflictTerm # 0 => c.reply.conflictIndex # 0

(***************************************************************************)
(* At most one node ever wins the election of a term, although a candidate *)
(* that hears from a leader of its own term forgets its vote               *)
(* (HandleAppendEntries) and may vote again in that term.                  *)
(***************************************************************************)
ElectionSafety ==
    \A x, y \in elected : x[1] = y[1] => x = y

(***************************************************************************)
(* Why ElectionSafety holds, as an inductive invariant.  A vote for        *)
(* another node is never withdrawn within its term; only a candidate's     *)
(* vote for itself is (HandleAppendEntries), and then it never wins.       *)
(***************************************************************************)
VotesRecorded ==
    \A n \in Node :
        /\ state[n] # "Follower" => votedFor[n] = n
        /\ state[n] = "Candidate" =>
             \A v \in votes[n] : <<v, currentTerm[n], n>> \in grants

RepliesRecorded ==
    \A c \in voteCalls :
        /\ c.src # c.dst
        /\ c.phase = "reply" /\ c.reply.granted => <<c.dst, c.term, c.src>> \in grants

VotesKept ==
    \A g \in grants :
        /\ g[2] <= currentTerm[g[1]]
        /\ g[2] = currentTerm[g[1]] =>
             votedFor[g[1]] = g[3] \/ (g[3] = g[1] /\ state[g[1]] = "Follower")

OneVoteForOthers ==
    \A g, h \in grants :
        g[1] = h[1] /\ g[2] = h[2] /\ g[3] # h[3] => g[3] = g[1] \/ h[3] = h[1]

WinnersVoteForThemselves ==
    \A g \in grants : g[3] # g[1] => <<g[2], g[1]>> \notin elected

WinnersHaveQuorum ==
    \A x \in elected :
        \E Q \in SUBSET Node : /\ Cardinality(Q) >= ElectionQuorum
                               /\ \A v \in Q : <<v, x[1], x[2]>> \in grants

WinnersLead ==
    /\ \A x \in elected : \/ currentTerm[x[2]] > x[1]
                          \/ currentTerm[x[2]] = x[1] /\ state[x[2]] = "Leader"
    /\ \A n \in Node : state[n] = "Leader" => <<currentTerm[n], n>> \in elected

(* Only an elected leader of its term sends entries or snapshots.          *)
SendersElected ==
    /\ \A n \in Node : n \notin round[n]
    /\ \A c \in appendCalls \cup snapCalls :
         c.src # c.dst /\ <<c.term, c.src>> \in elected

(***************************************************************************)
(* The bookkeeping of votes, elections and leaders behind ElectionSafety:  *)
(* every vote counted was cast, a vote for another node lasts as long as   *)
(* its term, winners hold a quorum of votes, and only winners lead and     *)
(* replicate (maybeStartElection, HandleRequestVote, HandleAppendEntries). *)
(***************************************************************************)
ElectionInv ==
    /\ VotesRecorded
    /\ VotesKept
    /\ OneVoteForOthers
    /\ WinnersVoteForThemselves
    /\ WinnersHaveQuorum
    /\ WinnersLead
    /\ RepliesRecorded
    /\ SendersElected

(***************************************************************************)
(* A call that a leader is still waiting for carries its current term, and *)
(* a node is never a candidate while maybeSendHeartbeats waits.            *)
(* sendSnapshot relies on it: it updates nextIndex and matchIndex without  *)
(* comparing terms.  It holds because the main loop serves no election     *)
(* timeout during the wait.                                                *)
(***************************************************************************)
RoundOfOwnTerm ==
    /\ \A n \in Node : round[n] # {} => state[n] # "Candidate"
    /\ \A c \in appendCalls \cup snapCalls :
         c.phase # "stray" =>
             /\ state[c.src] # "Candidate"
             /\ state[c.src] = "Leader" => c.term = currentTerm[c.src]

(***************************************************************************)
(* Two logs that hold an entry of the same term at the same index are      *)
(* equal up to that index (HandleAppendEntries' consistency check).        *)
(***************************************************************************)
LogMatching ==
    \A m, n \in Node :
        \A i \in 1 .. Min({Len(log[m].entries), Len(log[n].entries)}) :
            log[m].entries[i].term = log[n].entries[i].term
              => \A j \in 1 .. i : log[m].entries[j] = log[n].entries[j]

(***************************************************************************)
(* A leader holds every entry that a node of the same or an older term     *)
(* has committed: what the vote's logUpToDate test, the two quorums and    *)
(* the current-term rule of advanceCommitIndex achieve together.           *)
(***************************************************************************)
LeaderCompleteness ==
    \A n, m \in Node :
        state[n] = "Leader" /\ currentTerm[m] <= currentTerm[n] =>
            /\ lastIndex(log[n]) >= commitIndex[m]
            /\ \A i \in 1 .. commitIndex[m] : log[n].entries[i] = log[m].entries[i]

(***************************************************************************)
(* Any two nodes agree on the entries both regard as committed.            *)
(***************************************************************************)
CommittedAgree ==
    \A m, n \in Node :
        \A i \in 1 .. Min({commitIndex[m], commitIndex[n]}) :
            /\ i <= Len(log[m].entries) /\ i <= Len(log[n].entries)
            /\ log[m].entries[i] = log[n].entries[i]

(***************************************************************************)
(* What a leader believes replicated on a peer of its term is there, and   *)
(* its next probe starts inside its own log: match and next survive lost,  *)
(* late and reordered replies (replicateTo).                               *)
(***************************************************************************)
ProgressSound ==
    \A n, p \in Node :
        state[n] = "Leader" =>
            /\ nextIndex[n][p] <= lastIndex(log[n]) + 1
            /\ matchIndex[n][p] <= lastIndex(log[n])
            /\ currentTerm[p] = currentTerm[n] =>
                 \A i \in 1 .. matchIndex[n][p] :
                     /\ i <= Len(log[p].entries)
                     /\ log[n].entries[i] = log[p].entries[i]

(***************************************************************************)
(* Every rejected probe moves the next one strictly below it, by the hint  *)
(* of conflictHint and the leader's search for ConflictTerm (replicateTo): *)
(* backing up a diverged peer terminates.                                  *)
(***************************************************************************)
BackupProgress ==
    [][\A c \in appendCalls :
          /\ c.phase = "reply" /\ ~c.reply.success /\ c \notin appendCalls'
          /\ state'[c.src] = "Leader" /\ currentTerm[c.src] = c.term
          => nextIndex'[c.src][c.dst] <= c.prevLogIndex]_vars

(***************************************************************************)
(* commitIndex never decreases and no step removes or replaces an entry a  *)
(* node has committed (HandleAppendEntries' truncation, commit update).    *)
(***************************************************************************)
CommittedStable ==
    [][\A n \in Node :
          /\ commitIndex'[n] >= commitIndex[n]
          /\ Len(log'[n].entries) >= commitIndex[n]
          /\ \A i \in 1 .. commitIndex[n] : log'[n].entries[i] = log[n].entries[i]]_vars

(***************************************************************************)
(* A committed entry is never left behind by the apply loop: when the loop *)
(* sleeps on an empty applySig, everything committed has been delivered.   *)
(* The signal is a one-slot channel that drops a second signal.            *)
(***************************************************************************)
NoLostWakeup ==
    \A n \in Node :
        apply[n].pc = "idle" /\ ~applySig[n] => lastApplied[n] >= commitIndex[n]

(***************************************************************************)
(* Only committed entries are ever compacted away, and a snapshot call     *)
(* covers only what its sender had committed: applyCommitted compacts      *)
(* without Node.mu and HandleInstallSnapshot moves commitIndex,            *)
(* lastApplied and the log together.                                       *)
(***************************************************************************)
CompactsCommitted ==
    /\ \A n \in Node : /\ log[n].snapIndex <= commitIndex[n]
                       /\ lastApplied[n] <= commitIndex[n]
    /\ \A c \in snapCalls :
         currentTerm[c.src] = c.term => c.lastIncludedIndex <= commitIndex[c.src]

(* No node has compacted its log or installed a snapshot yet.              *)
Uncompacted == \A n \in Node : log[n].snapIndex = 0

(***************************************************************************)
(* "Committed entries are delivered in order on cfg.CommitCh" (node.go):   *)
(* the k-th entry a node delivers is the one with index k, until the first *)
(* compaction (after which the logs may disagree: DeliveredAgree).         *)
(***************************************************************************)
DeliveredInOrder ==
    Uncompacted => \A n \in Node : \A k \in 1 .. Len(delivered[n]) : delivered[n][k].index = k

(***************************************************************************)
(* The sequences of entries two nodes deliver agree wherever they overlap. *)
(***************************************************************************)
DeliveredAgree ==
    \A m, n \in Node :
        \A k \in 1 .. Min({Len(delivered[m]), Len(delivered[n])}) :
            delivered[m][k] = delivered[n][k]

=============================================================================
