--------------------------- MODULE RaftRoundProofs ---------------------------
(***************************************************************************)
(* The calls a leader waits for are of its current term, for every set of  *)
(* nodes.  RoundOfOwnTerm is inductive: it needs only the types and the    *)
(* main loop's wait in maybeStartElection.                                 *)
(***************************************************************************)
EXTENDS RaftElectionProofs

(* A node's call or round is open: it is not a candidate.                  *)
LEMMA RoundUnchanged ==
    ASSUME RoundOfOwnTerm, UNCHANGED <<state, currentTerm>>,
           \A n \in Node : round'[n] # {} => round[n] # {} \/ state[n] = "Leader",
           appendCalls' \subseteq appendCalls, snapCalls' \subseteq snapCalls
    PROVE  RoundOfOwnTerm'
  BY DEF RoundOfOwnTerm

(* Node n becomes a follower, or stays what it is in its term.             *)
LEMMA RoundOfFollower ==
    ASSUME TypeOK, RoundOfOwnTerm, NEW n \in Node, NEW t, round' = round,
           \/ UNCHANGED <<state, currentTerm>>
           \/ /\ state' = [state EXCEPT ![n] = "Follower"]
              /\ currentTerm' = [currentTerm EXCEPT ![n] = t],
           \A c \in appendCalls' \cup snapCalls' :
               \E d \in appendCalls \cup snapCalls :
                   /\ c.src = d.src /\ c.term = d.term
                   /\ c.phase # "stray" => d.phase # "stray"
    PROVE  RoundOfOwnTerm'
  <1>1. /\ state \in [Node -> {"Follower", "Candidate", "Leader"}]
        /\ currentTerm \in [Node -> Nat]
    BY DEF TypeOK
  <1>2. \A d \in appendCalls \cup snapCalls : d.src \in Node
    BY SMTT(60), AppendCallFields, SnapCallFields
  <1> QED BY SMTT(60), <1>1, <1>2 DEF RoundOfOwnTerm

(* Answering a call that has a waiting caller does not change who waits.   *)
LEMMA AnswerKeepsPhase ==
    ASSUME NEW T, T = AppendCall \/ T = SnapCall,
           NEW calls, calls \subseteq T, NEW c \in calls, NEW r, NEW d \in Answer(calls, c, r)
    PROVE  \E e \in calls : /\ d.src = e.src /\ d.term = e.term
                            /\ d.phase # "stray" => e.phase # "stray"
  <1>1. CASE d \in calls
    BY <1>1
  <1>2. CASE d \notin calls
    <2>1. d = [c EXCEPT !.phase = "reply", !.reply = r] /\ c.phase = "request"
      BY <1>2 DEF Answer
    <2>2. CASE T = AppendCall
      BY <2>1, <2>2 DEF AppendCall
    <2>3. CASE T = SnapCall
      BY SMTT(60), <2>1, <2>3 DEF SnapCall
    <2> QED BY SMTT(60), <2>2, <2>3
  <1> QED BY <1>1, <1>2

LEMMA RoundStep == TypeOK /\ RoundOfOwnTerm /\ [Next]_vars => RoundOfOwnTerm'
  <1> SUFFICES ASSUME TypeOK, RoundOfOwnTerm, [Next]_vars PROVE RoundOfOwnTerm'
    OBVIOUS
  <1>0. /\ state \in [Node -> {"Follower", "Candidate", "Leader"}]
        /\ currentTerm \in [Node -> Nat] /\ round \in [Node -> SUBSET Node]
        /\ appendCalls \subseteq AppendCall /\ snapCalls \subseteq SnapCall
    BY DEF TypeOK
  <1>1. ASSUME NEW n \in Node, maybeStartElection(n) PROVE RoundOfOwnTerm'
    <2>1. /\ MainLoopIdle(n) /\ UNCHANGED <<round, appendCalls, snapCalls>>
          /\ \A m \in Node \ {n} : state'[m] = state[m] /\ currentTerm'[m] = currentTerm[m]
      BY <1>0, <1>1 DEF maybeStartElection, BecomeLeader
    <2>2. \A d \in appendCalls \cup snapCalls : d.src \in Node
      BY SMTT(60), AppendCallFields, SnapCallFields
    <2> QED BY SMTT(60), <2>1, <2>2 DEF MainLoopIdle, RoundOfOwnTerm
  <1>2. ASSUME NEW c \in voteCalls, HandleRequestVote(c) PROVE RoundOfOwnTerm'
    <2>1. c.dst \in Node
      BY VoteCallFields
    <2>2. \/ UNCHANGED <<state, currentTerm>>
          \/ /\ state' = [state EXCEPT ![c.dst] = "Follower"]
             /\ currentTerm' = [currentTerm EXCEPT ![c.dst] = c.term]
      BY ZenonT(60), <1>0, <1>2, <2>1 DEF HandleRequestVote
    <2> QED BY ZenonT(60), <1>2, <2>1, <2>2, RoundOfFollower DEF HandleRequestVote
  <1>3. ASSUME NEW c \in voteCalls, RequestVoteReply(c) PROVE RoundOfOwnTerm'
    <2>1. c.src \in Node
      BY VoteCallFields
    <2>2. UNCHANGED <<round, appendCalls, snapCalls>>
      BY <1>3 DEF RequestVoteReply
    <2>3. CASE c.reply.term > currentTerm[c.src]
      BY SMTT(60), <1>3, <2>1, <2>2, <2>3, RoundOfFollower DEF RequestVoteReply, BecomeFollower
    <2>4. CASE ~(c.reply.term > currentTerm[c.src])
      <3>1. /\ currentTerm' = currentTerm
            /\ \/ state' = state
               \/ state[c.src] = "Candidate" /\ state' = [state EXCEPT ![c.src] = "Leader"]
        BY <1>3, <2>4 DEF RequestVoteReply, BecomeLeader
      <3>2. \A d \in appendCalls \cup snapCalls : d.src \in Node
        BY AppendCallFields, SnapCallFields
      <3> QED BY SMTT(60), <1>0, <2>1, <2>2, <3>1, <3>2 DEF RoundOfOwnTerm
    <2> QED BY <2>3, <2>4
  <1>4. ASSUME NEW n \in Node, NEW p \in Node, replicateTo(n, p) PROVE RoundOfOwnTerm'
    <2>1. \A m \in Node : round'[m] # {} => round[m] # {}
      BY SMTT(60), <1>0, <1>4, replicateToSends
    <2> QED BY SMTT(60), <1>4, <2>1, replicateToSends DEF RoundOfOwnTerm
  <1>5. ASSUME NEW c \in appendCalls, HandleAppendEntries(c) PROVE RoundOfOwnTerm'
    <2>1. c.dst \in Node /\ c.term \in Nat
      BY AppendCallFields
    <2>2. \/ UNCHANGED <<state, currentTerm>>
          \/ /\ state' = [state EXCEPT ![c.dst] = "Follower"]
             /\ currentTerm' = [currentTerm EXCEPT ![c.dst] = c.term]
      <3>1. CASE StepsDown(c.dst, c.term)
        <4>1. ~(c.term < currentTerm[c.dst])
          BY SMTT(60), <1>0, <2>1, <3>1 DEF StepsDown
        <4> QED BY SMTT(60), <1>5, <3>1, <4>1 DEF HandleAppendEntries
      <3>2. CASE ~StepsDown(c.dst, c.term)
        <4>1. c.term = currentTerm[c.dst] \/ c.term < currentTerm[c.dst]
          BY SMTT(60), <1>0, <2>1, <3>2 DEF StepsDown
        <4> QED BY SMTT(60), <1>0, <1>5, <2>1, <3>2, <4>1 DEF HandleAppendEntries
      <3> QED BY <3>1, <3>2
    <2>3. \E r : appendCalls' = Answer(appendCalls, c, r) /\ snapCalls' = snapCalls
                 /\ round' = round
      BY <1>5 DEF HandleAppendEntries
    <2>4. \A d \in appendCalls' : \E e \in appendCalls :
              d.src = e.src /\ d.term = e.term /\ (d.phase # "stray" => e.phase # "stray")
      BY SMTT(60), <1>0, <2>3, AnswerKeepsPhase
    <2> QED BY SMTT(60), <2>1, <2>2, <2>3, <2>4, RoundOfFollower
  <1>6. ASSUME NEW c \in snapCalls, HandleInstallSnapshot(c) PROVE RoundOfOwnTerm'
    <2>1. c.dst \in Node /\ c.term \in Nat
      BY SnapCallFields
    <2>2. \/ UNCHANGED <<state, currentTerm>>
          \/ /\ state' = [state EXCEPT ![c.dst] = "Follower"]
             /\ currentTerm' = [currentTerm EXCEPT ![c.dst] = c.term]
      BY ZenonT(60), <1>0, <1>6, <2>1 DEF HandleInstallSnapshot
    <2>3. \E r : snapCalls' = Answer(snapCalls, c, r) /\ appendCalls' = appendCalls
                 /\ round' = round
      BY <1>6 DEF HandleInstallSnapshot
    <2>4. \A d \in snapCalls' : \E e \in snapCalls :
              d.src = e.src /\ d.term = e.term /\ (d.phase # "stray" => e.phase # "stray")
      BY SMTT(60), <1>0, <2>3, AnswerKeepsPhase
    <2> QED BY SMTT(60), <2>1, <2>2, <2>3, <2>4, RoundOfFollower
  <1>7. ASSUME NEW c, \/ c \in appendCalls /\ AppendEntriesReply(c)
                      \/ c \in snapCalls /\ InstallSnapshotReply(c)
        PROVE  RoundOfOwnTerm'
    <2>1. c.src \in Node
      BY SMTT(60), <1>7, AppendCallFields, SnapCallFields
    <2>2. /\ round' = round
          /\ appendCalls' \subseteq appendCalls /\ snapCalls' \subseteq snapCalls
          /\ \/ UNCHANGED <<state, currentTerm>>
             \/ /\ state' = [state EXCEPT ![c.src] = "Follower"]
                /\ currentTerm' = [currentTerm EXCEPT ![c.src] = c.reply.term]
      BY <1>7 DEF AppendEntriesReply, InstallSnapshotReply, BecomeFollower
    <2> QED BY <2>1, <2>2, RoundOfFollower
  <1>8. ASSUME \/ \E n \in Node : Propose(n) \/ maybeSendHeartbeats(n) \/ TakeSnapshot(n)
               \/ ApplyNext \/ UNCHANGED vars
        PROVE  RoundOfOwnTerm'
    <2>1. /\ UNCHANGED <<state, currentTerm, appendCalls, snapCalls>>
          /\ \/ round' = round
             \/ \E n \in Node : state[n] = "Leader" /\ round' = [round EXCEPT ![n] = Peers(n)]
      BY ZenonT(60), <1>8 DEF Propose, maybeSendHeartbeats, TakeSnapshot, ApplyNext, applyWake, applySlice,
             applyDeliver, applyDone, applyCompact, ApplyStep, vars, electionVars, callVars
    <2>2. \A n \in Node : round'[n] # {} => round[n] # {} \/ state[n] = "Leader"
      BY <1>0, <2>1
    <2> QED BY SMTT(60), <2>1, <2>2, RoundUnchanged
  <1> QED BY SMTT(60), <1>1, <1>2, <1>3, <1>4, <1>5, <1>6, <1>7, <1>8, BoundsAssumption
          DEF Next, ElectionNext, ReplicationNext, SnapshotNext

(***************************************************************************)
(* sendSnapshot may skip the comparison of terms that replicateTo makes:   *)
(* no leader waits for a call of an earlier term of its own.               *)
(***************************************************************************)
THEOREM RoundSafe == Spec => []RoundOfOwnTerm
  <1>1. Init => RoundOfOwnTerm
    BY DEF Init, RoundOfOwnTerm
  <1> QED BY <1>1, RoundStep, TypeCorrect, PTL DEF Spec

=============================================================================
