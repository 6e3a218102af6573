------------------------------ MODULE RaftProofs ------------------------------
(***************************************************************************)
(* Proofs about Raft, for every set of nodes, every compaction threshold   *)
(* and every value of the bounds: type correctness, and at most one leader *)
(* per term.                                                               *)
(***************************************************************************)
EXTENDS Raft, RaftLogProofs, FiniteSetTheorems

-----------------------------------------------------------------------------
(* Calls.                                                                  *)

(* A sent call that is not lost has the type of its set.                   *)
LEMMA SendType ==
    ASSUME NEW T, NEW calls, calls \subseteq T, NEW new,
           \A c \in new : c.phase # "lost" => c \in T
    PROVE  Send(calls, new) \subseteq T
  BY DEF Send

LEMMA VoteAnswerType ==
    ASSUME NEW calls, calls \subseteq VoteCall, NEW c \in calls, NEW r \in VoteReply
    PROVE  Answer(calls, c, r) \subseteq VoteCall
  BY ZenonT(60) DEF Answer, VoteCall, Phase

LEMMA AppendAnswerType ==
    ASSUME NEW calls, calls \subseteq AppendCall, NEW c \in calls, NEW r \in AppendReply
    PROVE  Answer(calls, c, r) \subseteq AppendCall
  BY ZenonT(60) DEF Answer, AppendCall, Phase

LEMMA SnapAnswerType ==
    ASSUME NEW calls, calls \subseteq SnapCall, NEW c \in calls, NEW r \in SnapReply
    PROVE  Answer(calls, c, r) \subseteq SnapCall
  BY ZenonT(60) DEF Answer, SnapCall, Phase

-----------------------------------------------------------------------------
(* Type correctness, one lemma per action.                                 *)

LEMMA InitType == ASSUME Init PROVE TypeOK
  BY newRaftLogType DEF Init, TypeOK, ApplyLoop, Idle, At

LEMMA BecomeLeaderType ==
    ASSUME TypeOK, NEW n \in Node, currentTerm' \in [Node -> Nat], BecomeLeader(n)
    PROVE  /\ state' \in [Node -> {"Follower", "Candidate", "Leader"}]
           /\ leaderID' \in [Node -> Node \cup {Nil}]
           /\ nextIndex' \in [Node -> [Node -> Nat \ {0}]]
           /\ matchIndex' \in [Node -> [Node -> Nat]]
           /\ elected' \subseteq Nat \X Node
  <1> DEFINE last == lastIndex(log[n])
             next == [p \in Node |-> last + 1]
             match == [p \in Node |-> IF p = n THEN last ELSE 0]
  <1>1. last \in Nat
    BY LogReads DEF TypeOK
  <1> HIDE DEF last
  <1>2. next \in [Node -> Nat \ {0}] /\ match \in [Node -> Nat]
    BY <1>1
  <1>3. nextIndex' = [nextIndex EXCEPT ![n] = next]
        /\ matchIndex' = [matchIndex EXCEPT ![n] = match]
    BY DEF BecomeLeader, last
  <1> HIDE DEF next, match
  <1>4. nextIndex' \in [Node -> [Node -> Nat \ {0}]] /\ matchIndex' \in [Node -> [Node -> Nat]]
    BY SMTT(60), <1>2, <1>3 DEF TypeOK
  <1>5. /\ state' \in [Node -> {"Follower", "Candidate", "Leader"}]
        /\ leaderID' \in [Node -> Node \cup {Nil}]
        /\ elected' \subseteq Nat \X Node
    BY DEF TypeOK, BecomeLeader
  <1> QED BY <1>4, <1>5

LEMMA maybeStartElectionType ==
    ASSUME TypeOK, NEW n \in Node, maybeStartElection(n)
    PROVE  TypeOK'
  <1>1. lastIndex(log[n]) \in Nat /\ lastTerm(log[n]) \in Nat
    BY LogReads DEF TypeOK
  <1>2. voteCalls' \subseteq VoteCall
    <2>1. PICK fate \in [Peers(n) -> Fate] :
            voteCalls' = Send(voteCalls,
              {[src |-> n, dst |-> p, term |-> currentTerm[n] + 1,
                lastLogIndex |-> lastIndex(log[n]), lastLogTerm |-> lastTerm(log[n]),
                phase |-> fate[p], reply |-> NoVoteReply] : p \in Peers(n)})
      BY ZenonT(60) DEF maybeStartElection
    <2>2. ASSUME NEW p \in Peers(n), fate[p] # "lost"
          PROVE  [src |-> n, dst |-> p, term |-> currentTerm[n] + 1,
                  lastLogIndex |-> lastIndex(log[n]), lastLogTerm |-> lastTerm(log[n]),
                  phase |-> fate[p], reply |-> NoVoteReply] \in VoteCall
      BY SMTT(60), <1>1, <2>2 DEF TypeOK, VoteCall, VoteReply, NoVoteReply, Peers, Fate, Phase
    <2>3. voteCalls \subseteq VoteCall
      BY DEF TypeOK
    <2> QED BY <2>1, <2>2, <2>3, SendType
  <1>3. /\ currentTerm' \in [Node -> Nat]
        /\ votedFor' \in [Node -> Node \cup {Nil}]
        /\ votes' \in [Node -> SUBSET Node]
        /\ grants' \subseteq Node \X Nat \X Node
    BY DEF TypeOK, maybeStartElection
  <1>4. /\ state' \in [Node -> {"Follower", "Candidate", "Leader"}]
        /\ leaderID' \in [Node -> Node \cup {Nil}]
        /\ nextIndex' \in [Node -> [Node -> Nat \ {0}]]
        /\ matchIndex' \in [Node -> [Node -> Nat]]
        /\ elected' \subseteq Nat \X Node
    <2>1. CASE BecomeLeader(n)
      BY <1>3, <2>1, BecomeLeaderType
    <2>2. CASE ~BecomeLeader(n)
      BY ZenonT(60), <2>2 DEF TypeOK, maybeStartElection, leaderVars
    <2> QED BY <2>1, <2>2
  <1> QED BY ZenonT(60), <1>2, <1>3, <1>4 DEF TypeOK, maybeStartElection, applyVars

(* The fields of a call in flight.                                         *)
LEMMA VoteCallFields ==
    ASSUME TypeOK, NEW c \in voteCalls
    PROVE  /\ c.src \in Node /\ c.dst \in Node /\ c.term \in Nat
           /\ c.lastLogIndex \in Nat /\ c.lastLogTerm \in Nat
           /\ c.reply.term \in Nat /\ c.reply.granted \in BOOLEAN
  <1>1. c \in VoteCall
    BY DEF TypeOK
  <1> QED BY <1>1 DEF VoteCall, VoteReply

LEMMA AppendCallFields ==
    ASSUME TypeOK, NEW c \in appendCalls
    PROVE  /\ c.src \in Node /\ c.dst \in Node /\ c.term \in Nat
           /\ c.prevLogIndex \in Nat /\ c.prevLogTerm \in Nat
           /\ c.entries \in Seq(Entry) /\ c.leaderCommit \in Nat
           /\ c.reply.term \in Nat /\ c.reply.success \in BOOLEAN
           /\ c.reply.conflictIndex \in Nat /\ c.reply.conflictTerm \in Nat
  <1>1. c \in AppendCall
    BY DEF TypeOK
  <1> QED BY <1>1 DEF AppendCall, AppendReply

LEMMA SnapCallFields ==
    ASSUME TypeOK, NEW c \in snapCalls
    PROVE  /\ c.src \in Node /\ c.dst \in Node /\ c.term \in Nat
           /\ c.lastIncludedIndex \in Nat /\ c.lastIncludedTerm \in Nat
           /\ c.reply.term \in Nat
  <1>1. c \in SnapCall
    BY SMTT(60) DEF TypeOK
  <1> QED BY <1>1 DEF SnapCall, SnapReply

LEMMA HandleRequestVoteType ==
    ASSUME TypeOK, NEW c \in voteCalls, HandleRequestVote(c)
    PROVE  TypeOK'
  <1> DEFINE n == c.dst
             newer == c.term > currentTerm[n]
             term  == IF newer THEN c.term ELSE currentTerm[n]
             voted == IF newer THEN Nil ELSE votedFor[n]
             grant == /\ c.term >= currentTerm[n]
                      /\ ~alreadyVoted(voted, c.src)
                      /\ logUpToDate(log[n], c.lastLogIndex, c.lastLogTerm)
  <1>1. c.src \in Node /\ n \in Node /\ c.term \in Nat
    BY VoteCallFields
  <1>2. term \in Nat /\ voted \in Node \cup {Nil} /\ grant \in BOOLEAN
    BY <1>1 DEF TypeOK
  <1>3. /\ state' = [state EXCEPT ![n] = IF newer THEN "Follower" ELSE @]
        /\ currentTerm' = [currentTerm EXCEPT ![n] = term]
        /\ votedFor' = [votedFor EXCEPT ![n] = IF grant THEN c.src ELSE voted]
        /\ grants' = grants \cup (IF grant THEN {<<n, c.term, c.src>>} ELSE {})
        /\ voteCalls' = Answer(voteCalls, c, [term |-> term, granted |-> grant])
    BY DEF HandleRequestVote
  <1> HIDE DEF n, newer, term, voted, grant
  <1>4. /\ state' \in [Node -> {"Follower", "Candidate", "Leader"}]
        /\ currentTerm' \in [Node -> Nat]
        /\ votedFor' \in [Node -> Node \cup {Nil}]
        /\ grants' \subseteq Node \X Nat \X Node
    <2>1. state' \in [Node -> {"Follower", "Candidate", "Leader"}]
      BY SMTT(60), <1>1, <1>3 DEF TypeOK
    <2>2. currentTerm' \in [Node -> Nat]
      BY <1>1, <1>2, <1>3 DEF TypeOK
    <2>3. votedFor' \in [Node -> Node \cup {Nil}]
      BY SMTT(60), <1>1, <1>2, <1>3 DEF TypeOK
    <2>4. grants' \subseteq Node \X Nat \X Node
      <3>1. <<n, c.term, c.src>> \in Node \X Nat \X Node
        BY <1>1
      <3>2. grants' \subseteq grants \cup {<<n, c.term, c.src>>}
        BY <1>3
      <3> QED BY ZenonT(60), <3>1, <3>2 DEF TypeOK
    <2> QED BY <2>1, <2>2, <2>3, <2>4
  <1>5. voteCalls' \subseteq VoteCall
    <2>1. [term |-> term, granted |-> grant] \in VoteReply
      BY <1>2 DEF VoteReply
    <2>2. voteCalls \subseteq VoteCall
      BY DEF TypeOK
    <2> QED BY <1>3, <2>1, <2>2, VoteAnswerType
  <1> QED BY ZenonT(60), <1>4, <1>5 DEF TypeOK, HandleRequestVote, leaderVars, applyVars

LEMMA BecomeFollowerType ==
    ASSUME TypeOK, NEW n \in Node, NEW term \in Nat, BecomeFollower(n, term)
    PROVE  /\ state' \in [Node -> {"Follower", "Candidate", "Leader"}]
           /\ currentTerm' \in [Node -> Nat]
           /\ votedFor' \in [Node -> Node \cup {Nil}]
  BY DEF TypeOK, BecomeFollower

LEMMA RequestVoteReplyType ==
    ASSUME TypeOK, NEW c \in voteCalls, RequestVoteReply(c)
    PROVE  TypeOK'
  <1>1. c.src \in Node /\ c.dst \in Node /\ c.reply.term \in Nat
    BY VoteCallFields
  <1>2. voteCalls' \subseteq VoteCall
    BY DEF TypeOK, RequestVoteReply
  <1>3. CASE c.reply.term > currentTerm[c.src]
    <2>1. BecomeFollower(c.src, c.reply.term)
      BY ZenonT(60), <1>3 DEF RequestVoteReply
    <2>2. /\ state' \in [Node -> {"Follower", "Candidate", "Leader"}]
          /\ currentTerm' \in [Node -> Nat]
          /\ votedFor' \in [Node -> Node \cup {Nil}]
      BY SMTT(60), <1>1, <2>1, BecomeFollowerType
    <2> QED BY ZenonT(60), <1>2, <1>3, <2>2 DEF TypeOK, RequestVoteReply, leaderVars, applyVars
  <1>4. CASE ~(c.reply.term > currentTerm[c.src])
    <2>1. votes' \in [Node -> SUBSET Node] /\ UNCHANGED <<currentTerm, votedFor>>
      <3>1. votes' = votes \/ votes' = [votes EXCEPT ![c.src] = @ \cup {c.dst}]
        BY ZenonT(60), <1>4 DEF TypeOK, RequestVoteReply
      <3>2. [votes EXCEPT ![c.src] = @ \cup {c.dst}] \in [Node -> SUBSET Node]
        BY ZenonT(60), <1>1 DEF TypeOK
      <3> QED BY ZenonT(60), <1>4, <3>1, <3>2 DEF TypeOK, RequestVoteReply
    <2>2. /\ state' \in [Node -> {"Follower", "Candidate", "Leader"}]
          /\ leaderID' \in [Node -> Node \cup {Nil}]
          /\ nextIndex' \in [Node -> [Node -> Nat \ {0}]]
          /\ matchIndex' \in [Node -> [Node -> Nat]]
          /\ elected' \subseteq Nat \X Node
      <3>1. CASE BecomeLeader(c.src)
        <4>1. currentTerm' \in [Node -> Nat]
          BY <2>1 DEF TypeOK
        <4> QED BY <1>1, <3>1, <4>1, BecomeLeaderType
      <3>2. CASE UNCHANGED <<state, leaderID, elected, leaderVars>>
        BY <3>2 DEF TypeOK, leaderVars
      <3> QED BY <1>4, <3>1, <3>2 DEF RequestVoteReply
    <2> QED BY ZenonT(60), <1>2, <2>1, <2>2 DEF TypeOK, RequestVoteReply, applyVars
  <1> QED BY <1>3, <1>4

(* What a leader's commit index becomes is a natural.                      *)
LEMMA advanceCommitIndexType ==
    ASSUME TypeOK, NEW n \in Node, NEW l, NEW m \in [Node -> Nat]
    PROVE  advanceCommitIndex(n, l, m) \in Nat
  <1>1. Committable(n, l, m) \subseteq Nat
    BY DEF Committable
  <1>2. CASE Committable(n, l, m) = {}
    BY <1>2 DEF advanceCommitIndex, TypeOK
  <1>3. CASE Committable(n, l, m) # {}
    BY <1>1, <1>3 DEF advanceCommitIndex
  <1> QED BY <1>2, <1>3

LEMMA SetCommitIndexType ==
    ASSUME TypeOK, NEW n \in Node, NEW k \in Nat, SetCommitIndex(n, k)
    PROVE  commitIndex' \in [Node -> Nat] /\ applySig' \in [Node -> BOOLEAN]
  BY SMTT(60) DEF TypeOK, SetCommitIndex

LEMMA ProposeType ==
    ASSUME TypeOK, NEW n \in Node, Propose(n)
    PROVE  TypeOK'
  <1> DEFINE i == lastIndex(log[n]) + 1
             e == [index |-> i, term |-> currentTerm[n], command |-> n]
             l == AppendAll(log[n], <<e>>)
             m == [matchIndex[n] EXCEPT ![n] = i]
  <1>1. i \in Nat /\ log[n] \in Log /\ currentTerm[n] \in Nat /\ matchIndex[n] \in [Node -> Nat]
    <2>1. log[n] \in Log /\ currentTerm[n] \in Nat /\ matchIndex[n] \in [Node -> Nat]
      BY DEF TypeOK
    <2> QED BY SMTT(60), <2>1, LogReads
  <1>2. /\ log' = [log EXCEPT ![n] = l]
        /\ matchIndex' = [matchIndex EXCEPT ![n] = m]
        /\ SetCommitIndex(n, advanceCommitIndex(n, l, m))
    BY DEF Propose
  <1> HIDE DEF i
  <1>3. e \in Entry
    BY <1>1 DEF Entry
  <1> HIDE DEF e
  <1>4. l \in Log
    <2>1. <<e>> \in Seq(Entry)
      BY <1>3
    <2> QED BY ZenonT(60), <1>1, <2>1, AppendAllType
  <1>5. m \in [Node -> Nat]
    BY <1>1
  <1> HIDE DEF l, m
  <1>6. advanceCommitIndex(n, l, m) \in Nat
    BY <1>5, advanceCommitIndexType
  <1>7. commitIndex' \in [Node -> Nat] /\ applySig' \in [Node -> BOOLEAN]
    BY <1>2, <1>6, SetCommitIndexType
  <1>8. log' \in [Node -> Log] /\ matchIndex' \in [Node -> [Node -> Nat]]
    BY ZenonT(60), <1>2, <1>4, <1>5 DEF TypeOK
  <1> QED BY ZenonT(60), <1>7, <1>8 DEF TypeOK, Propose, electionVars, callVars

LEMMA maybeSendHeartbeatsType ==
    ASSUME TypeOK, NEW n \in Node, maybeSendHeartbeats(n)
    PROVE  TypeOK'
  BY ZenonT(60) DEF TypeOK, maybeSendHeartbeats, Peers, electionVars, leaderVars, applyVars, callVars

LEMMA replicateToType ==
    ASSUME TypeOK, NEW n \in Node, NEW p \in Node, replicateTo(n, p)
    PROVE  TypeOK'
  <1> DEFINE l    == log[n]
             prev == nextIndex[n][p] - 1
             app(fate) ==
               [src |-> n, dst |-> p, term |-> currentTerm[n],
                prevLogIndex |-> prev, prevLogTerm |-> Term(l, prev),
                entries |-> Slice(l, prev + 1, lastIndex(l) + 1),
                leaderCommit |-> commitIndex[n], phase |-> fate, reply |-> NoAppendReply]
             snap(fate) ==
               [src |-> n, dst |-> p, term |-> currentTerm[n],
                lastIncludedIndex |-> l.snapIndex, lastIncludedTerm |-> l.snapTerm,
                phase |-> fate, reply |-> NoSnapReply]
  <1>1. /\ l \in Log /\ currentTerm[n] \in Nat /\ commitIndex[n] \in Nat
        /\ appendCalls \subseteq AppendCall /\ snapCalls \subseteq SnapCall
    BY SMTT(60) DEF TypeOK
  <1>2. prev \in Nat
    <2>1. nextIndex[n][p] \in Nat \ {0}
      BY DEF TypeOK
    <2> QED BY <2>1
  <1>3. /\ round' = [round EXCEPT ![n] = @ \ {p}]
        /\ \/ UNCHANGED <<appendCalls, snapCalls>>
           \/ \E fate \in Fate :
                \/ appendCalls' = Send(appendCalls, {app(fate)}) /\ UNCHANGED snapCalls
                \/ snapCalls' = Send(snapCalls, {snap(fate)}) /\ UNCHANGED appendCalls
    BY ZenonT(60) DEF replicateTo
  <1> HIDE DEF prev
  <1>4. Term(l, prev) \in Nat /\ lastIndex(l) \in Nat /\ l.snapIndex \in Nat /\ l.snapTerm \in Nat
    BY ZenonT(60), <1>1, <1>2, LogReads DEF Log
  <1>5. Slice(l, prev + 1, lastIndex(l) + 1) \in Seq(Entry)
    <2>1. prev + 1 \in Nat /\ lastIndex(l) + 1 \in Nat
      BY SMTT(60), <1>2, <1>4
    <2> HIDE DEF l
    <2> QED BY <1>1, <2>1, SliceType
  <1> HIDE DEF l
  <1>6. ASSUME NEW fate \in Fate, fate # "lost"
        PROVE  app(fate) \in AppendCall /\ snap(fate) \in SnapCall
    <2>1. fate \in Phase
      BY <1>6 DEF Fate, Phase
    <2>2. NoAppendReply \in AppendReply /\ NoSnapReply \in SnapReply
      BY SMTT(60) DEF NoAppendReply, AppendReply, NoSnapReply, SnapReply
    <2>3. app(fate) \in AppendCall
      BY SMTT(60), <1>1, <1>2, <1>4, <1>5, <2>1, <2>2 DEF AppendCall
    <2>4. snap(fate) \in SnapCall
      BY SMTT(60), <1>1, <1>4, <2>1, <2>2 DEF SnapCall
    <2> QED BY <2>3, <2>4
  <1>7. ASSUME NEW fate \in Fate
        PROVE  /\ app(fate).phase = fate /\ snap(fate).phase = fate
               /\ app(fate).reply.conflictTerm = 0
    BY SMTT(60) DEF NoAppendReply
  <1> DEFINE CallsTyped ==
               /\ appendCalls \subseteq AppendCall /\ snapCalls \subseteq SnapCall
               /\ \A c \in appendCalls : c.reply.conflictTerm # 0 => c.reply.conflictIndex # 0
  <1>8. CallsTyped'
    <2>1. CASE UNCHANGED <<appendCalls, snapCalls>>
      BY SMTT(60), <1>1, <2>1 DEF TypeOK
    <2>2. ASSUME NEW fate \in Fate,
                 appendCalls' = Send(appendCalls, {app(fate)}), UNCHANGED snapCalls
          PROVE  CallsTyped'
      <3>1. appendCalls' \subseteq appendCalls \cup {app(fate)}
        BY <2>2 DEF Send
      <3>2. app(fate) \in appendCalls' => app(fate) \in AppendCall
        BY ZenonT(60), <1>1, <1>6, <1>7, <2>2 DEF Send
      <3> HIDE DEF app
      <3> QED BY ZenonT(60), <1>1, <1>7, <2>2, <3>1, <3>2 DEF TypeOK
    <2>3. ASSUME NEW fate \in Fate,
                 snapCalls' = Send(snapCalls, {snap(fate)}), UNCHANGED appendCalls
          PROVE  CallsTyped'
      <3>1. snapCalls' \subseteq snapCalls \cup {snap(fate)}
        BY <2>3 DEF Send
      <3>2. snap(fate) \in snapCalls' => snap(fate) \in SnapCall
        BY ZenonT(60), <1>1, <1>6, <1>7, <2>3 DEF Send
      <3> HIDE DEF snap
      <3> QED BY ZenonT(60), <1>1, <2>3, <3>1, <3>2 DEF TypeOK
    <2> QED BY ZenonT(60), <1>3, <2>1, <2>2, <2>3
  <1>9. round' \in [Node -> SUBSET Node]
    BY ZenonT(60), <1>3 DEF TypeOK
  <1> QED BY ZenonT(60), <1>8, <1>9 DEF TypeOK, replicateTo, electionVars, leaderVars, applyVars

(* Updating one peer's index keeps the type of the table.                  *)
LEMMA NestedExceptType ==
    ASSUME NEW A, NEW S, NEW f \in [A -> [A -> S]], NEW a \in A, NEW b \in A, NEW x \in S
    PROVE  [f EXCEPT ![a][b] = x] \in [A -> [A -> S]]
  OBVIOUS

LEMMA FollowerCommitType ==
    ASSUME TypeOK, NEW n \in Node, NEW k \in Nat, NEW l \in Log
    PROVE  FollowerCommit(n, k, l) \in Nat
  <1>1. lastIndex(l) \in Nat
    BY LogReads
  <1>2. Min({k, lastIndex(l)}) \in Nat
    BY SMTT(60), <1>1, MinOfTwo
  <1> QED BY <1>2 DEF FollowerCommit, TypeOK

LEMMA HandleAppendEntriesType ==
    ASSUME TypeOK, NEW c \in appendCalls, HandleAppendEntries(c)
    PROVE  TypeOK'
  <1> DEFINE n == c.dst
             l == log[n]
             refused  == c.term < currentTerm[n]
             stepDown == StepsDown(n, c.term)
             accepted == ~refused /\ PrevMatches(l, c.prevLogIndex, c.prevLogTerm)
             hint == conflictHint(l, c.prevLogIndex, Term(l, c.prevLogIndex))
             new  == IF accepted THEN AppendNew(l, c.entries) ELSE l
             term == IF refused THEN currentTerm[n] ELSE c.term
             commit == IF accepted THEN FollowerCommit(n, c.leaderCommit, new)
                       ELSE commitIndex[n]
             reply == [term |-> term, success |-> accepted,
                       conflictIndex |-> IF refused \/ accepted THEN 0 ELSE hint.index,
                       conflictTerm  |-> IF refused \/ accepted THEN 0 ELSE hint.term]
  <1>1. /\ c.src \in Node /\ n \in Node /\ c.term \in Nat /\ c.prevLogIndex \in Nat
        /\ c.entries \in Seq(Entry) /\ c.leaderCommit \in Nat
    BY SMTT(60), AppendCallFields
  <1>2. l \in Log /\ currentTerm[n] \in Nat /\ commitIndex[n] \in Nat
    BY SMTT(60), <1>1 DEF TypeOK
  <1>3. /\ state' = [state EXCEPT ![n] = IF stepDown THEN "Follower" ELSE @]
        /\ currentTerm' = [currentTerm EXCEPT ![n] = term]
        /\ votedFor' = [votedFor EXCEPT ![n] = IF stepDown THEN Nil ELSE @]
        /\ leaderID' = [leaderID EXCEPT ![n] = IF refused THEN @ ELSE c.src]
        /\ log' = [log EXCEPT ![n] = new]
        /\ commitIndex' = [commitIndex EXCEPT ![n] = commit]
        /\ applySig' = [applySig EXCEPT ![n] = @ \/ (accepted /\ c.leaderCommit > commitIndex[n])]
        /\ appendCalls' = Answer(appendCalls, c, reply)
    BY ZenonT(60), <1>1 DEF HandleAppendEntries, TypeOK
  <1>4. term \in Nat
    BY SMTT(60), <1>1, <1>2
  <1>5. new \in Log
    BY <1>1, <1>2, AppendNewType
  <1>6. commit \in Nat
    <2> HIDE DEF new, accepted, n
    <2> QED BY <1>1, <1>2, <1>5, FollowerCommitType
  <1>7. /\ reply \in AppendReply
        /\ reply.conflictTerm # 0 => reply.conflictIndex # 0
    <2>1. ~refused /\ ~accepted => c.prevLogIndex \in Nat \ {0}
      BY <1>1 DEF PrevMatches
    <2>2. Term(l, c.prevLogIndex) \in Nat
      BY ZenonT(60), <1>1, <1>2, LogReads
    <2>3. ~refused /\ ~accepted => hint.index \in Nat \ {0} /\ hint.term \in Nat
      <3> HIDE DEF l, refused, accepted
      <3> QED BY <1>2, <2>1, <2>2, conflictHintType
    <2>4. accepted \in BOOLEAN /\ refused \in BOOLEAN
      OBVIOUS
    <2> HIDE DEF hint, refused, accepted, term
    <2> QED BY <1>4, <2>3, <2>4 DEF AppendReply
  <1> HIDE DEF n, l, refused, stepDown, accepted, hint, new, term, commit, reply
  <1>8. /\ appendCalls' \subseteq AppendCall
        /\ \A d \in appendCalls' : d.reply.conflictTerm # 0 => d.reply.conflictIndex # 0
    <2>1. appendCalls \subseteq AppendCall
      BY DEF TypeOK
    <2>2. appendCalls' \subseteq AppendCall
      BY <1>3, <1>7, <2>1, AppendAnswerType
    <2>3. ASSUME NEW d \in appendCalls'
          PROVE  d \in appendCalls \/ d.reply = reply
      <3>1. c \in AppendCall
        BY <2>1
      <3>2. [c EXCEPT !.phase = "reply", !.reply = reply].reply = reply
        BY <3>1 DEF AppendCall
      <3> QED BY ZenonT(60), <1>3, <2>3, <3>2 DEF Answer
    <2> QED BY SMTT(60), <1>7, <2>2, <2>3 DEF TypeOK
  <1>9. /\ state' \in [Node -> {"Follower", "Candidate", "Leader"}]
        /\ votedFor' \in [Node -> Node \cup {Nil}]
        /\ leaderID' \in [Node -> Node \cup {Nil}]
    BY ZenonT(60), <1>1, <1>3 DEF TypeOK
  <1>10. /\ currentTerm' \in [Node -> Nat]
         /\ log' \in [Node -> Log]
         /\ commitIndex' \in [Node -> Nat]
    BY ZenonT(60), <1>1, <1>3, <1>4, <1>5, <1>6 DEF TypeOK
  <1>11. applySig' \in [Node -> BOOLEAN]
    BY <1>1, <1>3 DEF TypeOK
  <1> QED BY ZenonT(60), <1>8, <1>9, <1>10, <1>11 DEF TypeOK, HandleAppendEntries, leaderVars

LEMMA AppendEntriesReplyType ==
    ASSUME TypeOK, NEW c \in appendCalls, AppendEntriesReply(c)
    PROVE  TypeOK'
  <1> DEFINE n == c.src
             p == c.dst
             r == c.reply
             match == Max({matchIndex[n][p], newMatch(c)})
             m     == [matchIndex[n] EXCEPT ![p] = match]
             next  == IF r.success THEN match + 1
                      ELSE IF r.conflictTerm # 0
                      THEN BackUpTo(log[n], r.conflictIndex, r.conflictTerm)
                      ELSE IF r.conflictIndex > 0 THEN r.conflictIndex
                      ELSE Max({nextIndex[n][p] - 1, 1})
  <1>1. /\ n \in Node /\ p \in Node /\ r.term \in Nat
        /\ c.prevLogIndex \in Nat /\ c.entries \in Seq(Entry)
        /\ r.conflictIndex \in Nat /\ r.conflictTerm \in Nat
    BY SMTT(60), AppendCallFields
  <1>2. /\ appendCalls' \subseteq AppendCall
        /\ \A d \in appendCalls' : d.reply.conflictTerm # 0 => d.reply.conflictIndex # 0
    BY SMTT(60) DEF TypeOK, AppendEntriesReply
  <1>3. CASE r.term > currentTerm[n]
    <2>1. BecomeFollower(n, r.term)
      BY <1>3 DEF AppendEntriesReply
    <2>2. /\ state' \in [Node -> {"Follower", "Candidate", "Leader"}]
          /\ currentTerm' \in [Node -> Nat]
          /\ votedFor' \in [Node -> Node \cup {Nil}]
      BY SMTT(60), <1>1, <2>1, BecomeFollowerType
    <2> QED BY ZenonT(60), <1>2, <1>3, <2>2 DEF TypeOK, AppendEntriesReply, leaderVars
  <1>4. CASE ~(r.term > currentTerm[n])
    <2>1. /\ nextIndex' = nextIndex \/ nextIndex' = [nextIndex EXCEPT ![n][p] = next]
          /\ matchIndex' = matchIndex \/ matchIndex' = [matchIndex EXCEPT ![n] = m]
          /\ \/ SetCommitIndex(n, advanceCommitIndex(n, log[n], m))
             \/ SetCommitIndex(n, commitIndex[n])
      BY SMTT(60), <1>4 DEF AppendEntriesReply
    <2>2. /\ matchIndex[n] \in [Node -> Nat] /\ matchIndex[n][p] \in Nat
          /\ nextIndex[n][p] \in Nat \ {0} /\ log[n] \in Log /\ commitIndex[n] \in Nat
          /\ r.conflictTerm # 0 => r.conflictIndex # 0
      BY ZenonT(60), <1>1 DEF TypeOK
    <2>3. newMatch(c) \in Nat
      BY <1>1 DEF newMatch
    <2>4. match \in Nat
      BY <2>2, <2>3, MaxOfTwo
    <2> HIDE DEF match
    <2>5. m \in [Node -> Nat]
      BY SMTT(60), <1>1, <2>2, <2>4
    <2>6. next \in Nat \ {0}
      <3>1. nextIndex[n][p] - 1 \in Nat
        BY <2>2
      <3>2. Max({nextIndex[n][p] - 1, 1}) \in Nat \ {0}
        BY <3>1, MaxOfTwo
      <3>3. r.conflictTerm # 0 =>
              BackUpTo(log[n], r.conflictIndex, r.conflictTerm) \in Nat \ {0}
        BY ZenonT(60), <1>1, <2>2, BackUpToType
      <3> QED BY <1>1, <2>4, <3>2, <3>3
    <2> HIDE DEF m, next, n, p, r
    <2>7. advanceCommitIndex(n, log[n], m) \in Nat
      BY <1>1, <2>5, advanceCommitIndexType
    <2>8. commitIndex' \in [Node -> Nat] /\ applySig' \in [Node -> BOOLEAN]
      BY SMTT(60), <1>1, <2>1, <2>2, <2>7, SetCommitIndexType
    <2>9. nextIndex' \in [Node -> [Node -> Nat \ {0}]] /\ matchIndex' \in [Node -> [Node -> Nat]]
      <3>1. nextIndex \in [Node -> [Node -> Nat \ {0}]] /\ matchIndex \in [Node -> [Node -> Nat]]
        BY DEF TypeOK
      <3>2. [nextIndex EXCEPT ![n][p] = next] \in [Node -> [Node -> Nat \ {0}]]
        BY SMTT(60), <1>1, <2>6, <3>1, NestedExceptType
      <3>3. [matchIndex EXCEPT ![n] = m] \in [Node -> [Node -> Nat]]
        BY SMTT(60), <1>1, <2>5, <3>1
      <3> QED BY ZenonT(60), <2>1, <3>1, <3>2, <3>3
    <2> USE DEF n, r
    <2> QED BY ZenonT(60), <1>2, <1>4, <2>8, <2>9 DEF TypeOK, AppendEntriesReply
  <1> QED BY <1>3, <1>4

LEMMA TakeSnapshotType ==
    ASSUME TypeOK, NEW n \in Node, TakeSnapshot(n)
    PROVE  TypeOK'
  <1>1. log[n] \in Log /\ lastApplied[n] \in Nat
    BY DEF TypeOK
  <1>2. Term(log[n], lastApplied[n]) \in Nat
    BY <1>1, LogReads
  <1>3. SetSnapshot(log[n], lastApplied[n], Term(log[n], lastApplied[n])) \in Log
    BY SMTT(60), <1>1, <1>2, SetSnapshotType
  <1>4. log' \in [Node -> Log]
    BY SMTT(60), <1>3 DEF TypeOK, TakeSnapshot
  <1> QED BY ZenonT(60), <1>4 DEF TypeOK, TakeSnapshot, electionVars, leaderVars, applyVars, callVars

LEMMA HandleInstallSnapshotType ==
    ASSUME TypeOK, NEW c \in snapCalls, HandleInstallSnapshot(c)
    PROVE  TypeOK'
  <1> DEFINE n == c.dst
             refused  == c.term < currentTerm[n]
             stepDown == c.term > currentTerm[n]
             installs == ~refused /\ c.lastIncludedIndex > log[n].snapIndex
             term == IF stepDown THEN c.term ELSE currentTerm[n]
             raise(k) == IF installs THEN Max({k, c.lastIncludedIndex}) ELSE k
             new == IF installs
                    THEN SetSnapshot(log[n], c.lastIncludedIndex, c.lastIncludedTerm)
                    ELSE log[n]
  <1>1. /\ c.src \in Node /\ n \in Node /\ c.term \in Nat
        /\ c.lastIncludedIndex \in Nat /\ c.lastIncludedTerm \in Nat
    BY SMTT(60), SnapCallFields
  <1>2. log[n] \in Log /\ currentTerm[n] \in Nat
    BY SMTT(60), <1>1 DEF TypeOK
  <1>3. /\ state' = [state EXCEPT ![n] = IF stepDown THEN "Follower" ELSE @]
        /\ currentTerm' = [currentTerm EXCEPT ![n] = term]
        /\ votedFor' = [votedFor EXCEPT ![n] = IF stepDown THEN Nil ELSE @]
        /\ leaderID' = [leaderID EXCEPT ![n] = IF refused THEN @ ELSE c.src]
        /\ log' = [log EXCEPT ![n] = new]
        /\ commitIndex' = [commitIndex EXCEPT ![n] = raise(commitIndex[n])]
        /\ lastApplied' = [lastApplied EXCEPT ![n] = raise(lastApplied[n])]
        /\ snapCalls' = Answer(snapCalls, c, [term |-> term])
    BY ZenonT(60), <1>1 DEF HandleInstallSnapshot, TypeOK
  <1>4. term \in Nat
    BY <1>1, <1>2
  <1>5. new \in Log
    BY <1>1, <1>2, SetSnapshotType
  <1>6. ASSUME NEW k \in Nat PROVE raise(k) \in Nat
    BY <1>1, MaxOfTwo
  <1>7. snapCalls' \subseteq SnapCall
    <2>1. snapCalls \subseteq SnapCall
      BY ZenonT(60) DEF TypeOK
    <2>2. [term |-> term] \in SnapReply
      BY SMTT(60), <1>4 DEF SnapReply
    <2> HIDE DEF term
    <2> QED BY SMTT(60), <1>3, <2>1, <2>2, SnapAnswerType
  <1> HIDE DEF n, refused, stepDown, installs, term, raise, new
  <1>8. /\ state' \in [Node -> {"Follower", "Candidate", "Leader"}]
        /\ votedFor' \in [Node -> Node \cup {Nil}]
        /\ leaderID' \in [Node -> Node \cup {Nil}]
    BY ZenonT(60), <1>1, <1>3 DEF TypeOK
  <1>9. /\ currentTerm' \in [Node -> Nat]
        /\ log' \in [Node -> Log]
        /\ commitIndex' \in [Node -> Nat]
        /\ lastApplied' \in [Node -> Nat]
    BY ZenonT(60), <1>1, <1>3, <1>4, <1>5, <1>6 DEF TypeOK
  <1> QED BY ZenonT(60), <1>7, <1>8, <1>9 DEF TypeOK, HandleInstallSnapshot, leaderVars

LEMMA InstallSnapshotReplyType ==
    ASSUME TypeOK, NEW c \in snapCalls, InstallSnapshotReply(c)
    PROVE  TypeOK'
  <1>1. c.src \in Node /\ c.dst \in Node /\ c.lastIncludedIndex \in Nat /\ c.reply.term \in Nat
    BY SMTT(60), SnapCallFields
  <1>2. snapCalls' \subseteq SnapCall
    BY SMTT(60) DEF TypeOK, InstallSnapshotReply
  <1>3. CASE c.reply.term > currentTerm[c.src]
    <2>1. BecomeFollower(c.src, c.reply.term)
      BY <1>3 DEF InstallSnapshotReply
    <2>2. /\ state' \in [Node -> {"Follower", "Candidate", "Leader"}]
          /\ currentTerm' \in [Node -> Nat]
          /\ votedFor' \in [Node -> Node \cup {Nil}]
      BY <1>1, <2>1, BecomeFollowerType
    <2> QED BY ZenonT(60), <1>2, <1>3, <2>2 DEF TypeOK, InstallSnapshotReply, leaderVars, applyVars
  <1>4. CASE ~(c.reply.term > currentTerm[c.src])
    <2> DEFINE max == Max({matchIndex[c.src][c.dst], c.lastIncludedIndex})
               next == c.lastIncludedIndex + 1
    <2>1. nextIndex \in [Node -> [Node -> Nat \ {0}]] /\ matchIndex \in [Node -> [Node -> Nat]]
      BY DEF TypeOK
    <2>2. matchIndex[c.src][c.dst] \in Nat /\ next \in Nat \ {0}
      BY <1>1, <2>1
    <2>3. max \in Nat
      BY SMTT(60), <1>1, <2>2, MaxOfTwo
    <2>4. \/ UNCHANGED leaderVars
          \/ /\ matchIndex' = [matchIndex EXCEPT ![c.src][c.dst] = max]
             /\ nextIndex' = [nextIndex EXCEPT ![c.src][c.dst] = next]
      BY SMTT(60), <1>1, <1>4, <2>1 DEF InstallSnapshotReply
    <2> HIDE DEF max, next
    <2>5. /\ [matchIndex EXCEPT ![c.src][c.dst] = max] \in [Node -> [Node -> Nat]]
          /\ [nextIndex EXCEPT ![c.src][c.dst] = next] \in [Node -> [Node -> Nat \ {0}]]
      BY SMTT(60), <1>1, <2>1, <2>2, <2>3, NestedExceptType
    <2>6. nextIndex' \in [Node -> [Node -> Nat \ {0}]] /\ matchIndex' \in [Node -> [Node -> Nat]]
      BY ZenonT(60), <2>1, <2>4, <2>5 DEF leaderVars
    <2> QED BY ZenonT(60), <1>2, <1>4, <2>6 DEF TypeOK, InstallSnapshotReply, applyVars
  <1> QED BY <1>3, <1>4

LEMMA AtType ==
    ASSUME NEW pc \in {"idle", "slice", "deliver", "compact"},
           NEW lo \in Nat, NEW hi \in Nat, NEW buf \in Seq(Entry)
    PROVE  At(pc, lo, hi, buf) \in ApplyLoop
  BY DEF At, ApplyLoop

(* The apply loop changes only its own variables and compacts the log.     *)
LEMMA ApplyType ==
    ASSUME TypeOK, NEW n \in Node,
           \/ applyWake(n) \/ applySlice(n) \/ applyDeliver(n)
           \/ applyDone(n) \/ applyCompact(n)
    PROVE  TypeOK'
  <1> USE DEF ApplyStep, electionVars, leaderVars, callVars
  <1>1. /\ apply[n].lo \in Nat /\ apply[n].hi \in Nat /\ apply[n].buf \in Seq(Entry)
        /\ apply[n] \in ApplyLoop /\ log[n] \in Log
        /\ lastApplied[n] \in Nat /\ commitIndex[n] \in Nat
    BY DEF TypeOK, ApplyLoop
  <1>2. Idle \in ApplyLoop /\ <<>> \in Seq(Entry)
    BY SMTT(60) DEF Idle, At, ApplyLoop
  <1>3. CASE applyWake(n)
    <2>1. At("slice", lastApplied[n], commitIndex[n], <<>>) \in ApplyLoop
      BY ZenonT(60), <1>1, <1>2, AtType
    <2>2. apply' \in [Node -> ApplyLoop] /\ applySig' \in [Node -> BOOLEAN]
      BY SMTT(60), <1>2, <1>3, <2>1 DEF TypeOK, applyWake
    <2> QED BY ZenonT(60), <1>3, <2>2 DEF TypeOK, applyWake
  <1>4. CASE applySlice(n)
    <2> DEFINE buf == Slice(log[n], apply[n].lo + 1, apply[n].hi + 1)
    <2>1. buf \in Seq(Entry)
      <3>1. apply[n].lo + 1 \in Nat /\ apply[n].hi + 1 \in Nat
        BY <1>1
      <3> QED BY ZenonT(60), <1>1, <3>1, SliceType
    <2>2. apply' = [apply EXCEPT ![n] = At("deliver", 0, 0, buf)]
      BY <1>4 DEF applySlice
    <2> HIDE DEF buf
    <2>3. At("deliver", 0, 0, buf) \in ApplyLoop
      BY SMTT(60), <2>1, AtType
    <2>4. apply' \in [Node -> ApplyLoop]
      BY SMTT(60), <2>2, <2>3 DEF TypeOK
    <2> QED BY ZenonT(60), <1>4, <2>4 DEF TypeOK, applySlice
  <1>5. CASE applyDeliver(n)
    <2> DEFINE e == Head(apply[n].buf)
               rest == Tail(apply[n].buf)
    <2>1. e \in Entry /\ rest \in Seq(Entry)
      BY <1>1, <1>5, HeadTailProperties DEF applyDeliver
    <2>2. e.index \in Nat
      BY SMTT(60), <2>1 DEF Entry
    <2>3. /\ delivered' = [delivered EXCEPT ![n] = Append(@, e)]
          /\ lastApplied' = [lastApplied EXCEPT ![n] = e.index]
          /\ apply' = [apply EXCEPT ![n] = At("deliver", 0, 0, rest)]
      BY <1>5 DEF applyDeliver
    <2> HIDE DEF e, rest
    <2>4. At("deliver", 0, 0, rest) \in ApplyLoop
      BY SMTT(60), <2>1, AtType
    <2>5. apply' \in [Node -> ApplyLoop] /\ lastApplied' \in [Node -> Nat]
      BY SMTT(60), <2>2, <2>3, <2>4 DEF TypeOK
    <2>6. Append(delivered[n], e) \in Seq(Entry)
      BY SMTT(60), <2>1 DEF TypeOK
    <2>7. delivered' \in [Node -> Seq(Entry)]
      BY ZenonT(60), <2>3, <2>6 DEF TypeOK
    <2> QED BY ZenonT(60), <1>5, <2>5, <2>7 DEF TypeOK, applyDeliver
  <1>6. CASE applyDone(n)
    <2> DEFINE t == Term(log[n], lastApplied[n])
    <2>1. t \in Nat
      BY ZenonT(60), <1>1, LogReads
    <2>2. \/ apply' = [apply EXCEPT ![n] = Idle]
          \/ apply' = [apply EXCEPT ![n] = At("compact", lastApplied[n], t, <<>>)]
      BY ZenonT(60), <1>6 DEF applyDone, CompactionPoint
    <2> HIDE DEF t
    <2>3. At("compact", lastApplied[n], t, <<>>) \in ApplyLoop
      BY ZenonT(60), <1>1, <1>2, <2>1, AtType
    <2>4. apply' \in [Node -> ApplyLoop]
      BY ZenonT(60), <1>2, <2>2, <2>3 DEF TypeOK
    <2> QED BY ZenonT(60), <1>6, <2>4 DEF TypeOK, applyDone
  <1>7. CASE applyCompact(n)
    <2>1. SetSnapshot(log[n], apply[n].lo, apply[n].hi) \in Log
      BY ZenonT(60), <1>1, SetSnapshotType
    <2>2. apply' \in [Node -> ApplyLoop] /\ log' \in [Node -> Log]
      BY ZenonT(60), <1>2, <1>7, <2>1 DEF TypeOK, applyCompact
    <2> QED BY ZenonT(60), <1>7, <2>2 DEF TypeOK, applyCompact
  <1> QED BY SMTT(60), <1>3, <1>4, <1>5, <1>6, <1>7

(***************************************************************************)
(* Every field keeps its type; in particular nextIndex is never 0, so the  *)
(* unsigned nextIdx - 1 of replicateTo does not wrap around.               *)
(***************************************************************************)
THEOREM TypeCorrect == Spec => []TypeOK
  <1>1. TypeOK /\ [Next]_vars => TypeOK'
    <2> SUFFICES ASSUME TypeOK, [Next]_vars PROVE TypeOK'
      OBVIOUS
    <2>1. CASE ElectionNext
      BY <2>1, maybeStartElectionType, HandleRequestVoteType, RequestVoteReplyType,
         BoundsAssumption DEF ElectionNext
    <2>2. CASE ReplicationNext
      BY <2>2, ProposeType, maybeSendHeartbeatsType, replicateToType,
         HandleAppendEntriesType, AppendEntriesReplyType DEF ReplicationNext
    <2>3. CASE SnapshotNext
      BY <2>3, TakeSnapshotType, HandleInstallSnapshotType, InstallSnapshotReplyType
         DEF SnapshotNext
    <2>4. CASE ApplyNext
      BY SMTT(60), <2>4, ApplyType, BoundsAssumption DEF ApplyNext
    <2>5. CASE UNCHANGED vars
      BY ZenonT(60), <2>5 DEF TypeOK, vars, electionVars, leaderVars, applyVars, callVars
    <2> QED BY <2>1, <2>2, <2>3, <2>4, <2>5 DEF Next
  <1> QED BY <1>1, InitType, PTL DEF Spec

=============================================================================
