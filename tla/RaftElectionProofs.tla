-------------------------- MODULE RaftElectionProofs --------------------------
(***************************************************************************)
(* At most one node wins the election of a term, for every set of nodes.   *)
(* ElectionInv is the inductive invariant; what it says of the nodes is    *)
(* separated from what it says of the calls in flight.                     *)
(***************************************************************************)
EXTENDS RaftProofs

VoteInv ==
    /\ VotesRecorded /\ VotesKept /\ OneVoteForOthers
    /\ WinnersVoteForThemselves /\ WinnersHaveQuorum /\ WinnersLead

(* Two election quorums have a node in common.                             *)
LEMMA ElectionQuorumsIntersect ==
    ASSUME NEW P \in SUBSET Node, NEW Q \in SUBSET Node,
           Cardinality(P) >= ElectionQuorum, Cardinality(Q) >= ElectionQuorum
    PROVE  P \cap Q # {}
  <1>1. /\ IsFiniteSet(Node) /\ Cardinality(Node) \in Nat
        /\ Cardinality(P) \in Nat /\ Cardinality(Q) \in Nat
    BY SMTT(60), NodeAssumption, FS_Subset, FS_CardinalityType
  <1>2. Cardinality(P) + Cardinality(Q) > Cardinality(Node)
    BY <1>1 DEF ElectionQuorum
  <1> QED BY <1>1, <1>2, FS_MajoritiesIntersect

(* A commit quorum and an election quorum have a node in common, also when *)
(* the number of nodes is even and the two quorums differ.                 *)
LEMMA QuorumsIntersect ==
    ASSUME NEW P \in SUBSET Node, NEW Q \in SUBSET Node,
           Cardinality(P) >= ElectionQuorum, Cardinality(Q) >= CommitQuorum
    PROVE  P \cap Q # {}
  <1>1. /\ IsFiniteSet(Node) /\ Cardinality(Node) \in Nat
        /\ Cardinality(P) \in Nat /\ Cardinality(Q) \in Nat
    BY NodeAssumption, FS_Subset, FS_CardinalityType
  <1>2. Cardinality(P) + Cardinality(Q) > Cardinality(Node)
    BY <1>1 DEF ElectionQuorum, CommitQuorum
  <1> QED BY SMTT(60), <1>1, <1>2, FS_MajoritiesIntersect

(* Two winners of a term share a voter, which voted for another node at    *)
(* most once and, if it is itself a winner, for itself only.               *)
LEMMA SafeElections ==
    ASSUME TypeOK, VoteInv
    PROVE  ElectionSafety
  <1> SUFFICES ASSUME NEW x \in elected, NEW y \in elected, x[1] = y[1]
               PROVE  x = y
    BY DEF ElectionSafety
  <1>1. PICK P \in SUBSET Node : /\ Cardinality(P) >= ElectionQuorum
                                 /\ \A v \in P : <<v, x[1], x[2]>> \in grants
    BY DEF VoteInv, WinnersHaveQuorum
  <1>2. PICK Q \in SUBSET Node : /\ Cardinality(Q) >= ElectionQuorum
                                 /\ \A v \in Q : <<v, y[1], y[2]>> \in grants
    BY DEF VoteInv, WinnersHaveQuorum
  <1>3. PICK v \in Node : v \in P /\ v \in Q
    BY <1>1, <1>2, ElectionQuorumsIntersect
  <1> DEFINE g == <<v, x[1], x[2]>>
             h == <<v, y[1], y[2]>>
  <1>4. g \in grants /\ h \in grants
    BY SMTT(60), <1>1, <1>2, <1>3
  <1>5. x = <<x[1], x[2]>> /\ y = <<y[1], y[2]>>
    <2>1. x \in Nat \X Node /\ y \in Nat \X Node
      BY DEF TypeOK
    <2> QED BY SMTT(60), <2>1
  <1>6. ASSUME x[2] # y[2], v = x[2] PROVE FALSE
    <2>1. h[3] # h[1] /\ <<h[2], h[1]>> = x
      BY <1>5, <1>6
    <2> QED BY <1>4, <2>1 DEF VoteInv, WinnersVoteForThemselves
  <1>7. ASSUME x[2] # y[2], v = y[2] PROVE FALSE
    <2>1. g[3] # g[1] /\ <<g[2], g[1]>> = y
      BY <1>5, <1>7
    <2> QED BY <1>4, <2>1 DEF VoteInv, WinnersVoteForThemselves
  <1>8. x[2] # y[2] => g[3] = g[1] \/ h[3] = h[1]
    BY <1>4 DEF VoteInv, OneVoteForOthers
  <1> QED BY SMTT(60), <1>5, <1>6, <1>7, <1>8

-----------------------------------------------------------------------------
(* The steps that change what VoteInv is about.                            *)

LEMMA VotesUnchanged ==
    ASSUME VoteInv, UNCHANGED <<state, currentTerm, votedFor, votes, grants, elected>>
    PROVE  VoteInv'
  BY DEF VoteInv, VotesRecorded, VotesKept, OneVoteForOthers, WinnersVoteForThemselves,
         WinnersHaveQuorum, WinnersLead

(***************************************************************************)
(* A node steps down into a newer term, or a candidate into its own.  The  *)
(* only vote this can withdraw is the candidate's vote for itself.         *)
(***************************************************************************)
LEMMA StepDown ==
    ASSUME TypeOK, VoteInv, NEW n \in Node, NEW t \in Nat,
           t > currentTerm[n] \/ (t = currentTerm[n] /\ state[n] = "Candidate"),
           state' = [state EXCEPT ![n] = "Follower"],
           currentTerm' = [currentTerm EXCEPT ![n] = t],
           votedFor' = [votedFor EXCEPT ![n] = Nil],
           UNCHANGED <<votes, grants, elected>>
    PROVE  VoteInv'
  <1>1. currentTerm \in [Node -> Nat] /\ grants \subseteq Node \X Nat \X Node
        /\ elected \subseteq Nat \X Node
        /\ state \in [Node -> {"Follower", "Candidate", "Leader"}]
        /\ votedFor \in [Node -> Node \cup {Nil}]
    BY ZenonT(60) DEF TypeOK
  <1>2. VotesRecorded'
    BY <1>1 DEF VoteInv, VotesRecorded
  <1>3. VotesKept'
    BY <1>1 DEF VoteInv, VotesRecorded, VotesKept
  <1>4. OneVoteForOthers' /\ WinnersVoteForThemselves'
    BY DEF VoteInv, OneVoteForOthers, WinnersVoteForThemselves
  <1>5. WinnersHaveQuorum'
    BY DEF VoteInv, WinnersHaveQuorum
  <1>6. WinnersLead'
    BY <1>1 DEF VoteInv, WinnersLead
  <1> QED BY SMTT(60), <1>2, <1>3, <1>4, <1>5, <1>6 DEF VoteInv

(* An election starts in a term in which the node has not voted.           *)
LEMMA StartElection ==
    ASSUME TypeOK, VoteInv, NEW n \in Node,
           state[n] # "Leader",
           currentTerm' = [currentTerm EXCEPT ![n] = @ + 1],
           votedFor' = [votedFor EXCEPT ![n] = n],
           votes' = [votes EXCEPT ![n] = {n}],
           grants' = grants \cup {<<n, currentTerm[n] + 1, n>>},
           \/ /\ ElectionQuorum <= 1
              /\ state' = [state EXCEPT ![n] = "Leader"]
              /\ elected' = elected \cup {<<currentTerm[n] + 1, n>>}
           \/ /\ state' = [state EXCEPT ![n] = "Candidate"]
              /\ elected' = elected
    PROVE  VoteInv'
  <1> DEFINE t == currentTerm[n] + 1
  <1>1. currentTerm \in [Node -> Nat] /\ grants \subseteq Node \X Nat \X Node
        /\ elected \subseteq Nat \X Node
        /\ state \in [Node -> {"Follower", "Candidate", "Leader"}]
        /\ votedFor \in [Node -> Node \cup {Nil}] /\ votes \in [Node -> SUBSET Node]
    BY ZenonT(60) DEF TypeOK
  <1>2. \A g \in grants : ~(g[1] = n /\ g[2] = t)
    BY <1>1 DEF VoteInv, VotesKept
  <1>3. VotesRecorded'
    BY <1>1 DEF VoteInv, VotesRecorded
  <1>4. VotesKept'
    <2> SUFFICES ASSUME NEW g \in grants' PROVE VotesKept!(g)'
      BY DEF VotesKept
    <2>1. CASE g = <<n, t, n>>
      BY <1>1, <2>1
    <2>2. CASE g \in grants /\ g[1] = n
      BY <1>1, <2>2 DEF VoteInv, VotesKept
    <2>3. CASE g \in grants /\ g[1] # n
      BY <1>1, <2>3 DEF VoteInv, VotesKept
    <2> QED BY SMTT(60), <2>1, <2>2, <2>3
  <1>5. OneVoteForOthers'
    BY <1>1, <1>2 DEF VoteInv, OneVoteForOthers
  <1>6. WinnersVoteForThemselves'
    <2> SUFFICES ASSUME NEW g \in grants', g[3] # g[1] PROVE <<g[2], g[1]>> \notin elected'
      BY DEF WinnersVoteForThemselves
    <2>1. g \in grants
      OBVIOUS
    <2>2. <<g[2], g[1]>> # <<t, n>>
      BY <1>2, <2>1
    <2> QED BY <2>1, <2>2 DEF VoteInv, WinnersVoteForThemselves
  <1>7. WinnersHaveQuorum'
    <2> SUFFICES ASSUME NEW x \in elected'
                 PROVE  \E Q \in SUBSET Node : /\ Cardinality(Q) >= ElectionQuorum
                                               /\ \A v \in Q : <<v, x[1], x[2]>> \in grants'
      BY DEF WinnersHaveQuorum
    <2>1. CASE x \in elected
      BY <2>1 DEF VoteInv, WinnersHaveQuorum
    <2>2. CASE x \notin elected
      <3>1. x = <<t, n>> /\ ElectionQuorum <= 1
        BY <2>2
      <3>2. Cardinality({n}) = 1 /\ {n} \in SUBSET Node
        BY ZenonT(60), FS_Singleton
      <3>3. Cardinality({n}) >= ElectionQuorum
        <4>1. ElectionQuorum \in Int
          BY NodeAssumption, FS_CardinalityType DEF ElectionQuorum
        <4> QED BY SMTT(60), <3>1, <3>2, <4>1
      <3>4. \A v \in {n} : <<v, x[1], x[2]>> \in grants'
        BY <3>1
      <3> QED BY <3>2, <3>3, <3>4
    <2> QED BY <2>1, <2>2
  <1>8. WinnersLead'
    <2>1. \A x \in elected' : \/ currentTerm'[x[2]] > x[1]
                              \/ currentTerm'[x[2]] = x[1] /\ state'[x[2]] = "Leader"
      BY <1>1 DEF VoteInv, WinnersLead
    <2>2. \A m \in Node : state'[m] = "Leader" => <<currentTerm'[m], m>> \in elected'
      BY <1>1 DEF VoteInv, WinnersLead
    <2> QED BY SMTT(60), <2>1, <2>2 DEF WinnersLead
  <1> QED BY SMTT(60), <1>3, <1>4, <1>5, <1>6, <1>7, <1>8 DEF VoteInv

(* A follower that has not voted for another node in the term votes.       *)
LEMMA GrantVote ==
    ASSUME TypeOK, VoteInv, NEW n \in Node, NEW s \in Node, s # n, NEW t \in Nat,
           \/ t > currentTerm[n]
           \/ t = currentTerm[n] /\ votedFor[n] \in {Nil, s},
           state' = [state EXCEPT ![n] = IF t > currentTerm[n] THEN "Follower" ELSE @],
           currentTerm' = [currentTerm EXCEPT ![n] = t],
           votedFor' = [votedFor EXCEPT ![n] = s],
           grants' = grants \cup {<<n, t, s>>},
           UNCHANGED <<votes, elected>>
    PROVE  VoteInv'
  <1>1. currentTerm \in [Node -> Nat] /\ grants \subseteq Node \X Nat \X Node
        /\ elected \subseteq Nat \X Node
        /\ state \in [Node -> {"Follower", "Candidate", "Leader"}]
        /\ votedFor \in [Node -> Node \cup {Nil}] /\ votes \in [Node -> SUBSET Node]
    BY ZenonT(60) DEF TypeOK
  <1>2. state' = [state EXCEPT ![n] = "Follower"]
        /\ (t = currentTerm[n] => state[n] = "Follower")
    <2>1. t = currentTerm[n] => state[n] = "Follower"
      BY <1>1, NodeAssumption DEF VoteInv, VotesRecorded
    <2>2. t > currentTerm[n] \/ (t = currentTerm[n] /\ ~(t > currentTerm[n]))
      BY <1>1
    <2> QED BY ZenonT(60), <1>1, <2>1, <2>2
  <1>3. <<t, n>> \notin elected
    BY <1>1, <1>2 DEF VoteInv, WinnersLead
  <1>4. \A g \in grants : g[1] = n /\ g[2] = t => g[3] = s \/ g[3] = n
    BY <1>1, NodeAssumption DEF VoteInv, VotesKept
  <1>5. VotesRecorded'
    BY SMTT(60), <1>1, <1>2 DEF VoteInv, VotesRecorded
  <1>6. VotesKept'
    <2> SUFFICES ASSUME NEW g \in grants' PROVE VotesKept!(g)'
      BY DEF VotesKept
    <2>1. CASE g = <<n, t, s>>
      BY SMTT(60), <1>1, <2>1
    <2>2. CASE g \in grants /\ g[1] = n
      BY SMTT(60), <1>1, <1>2, <1>4, <2>2 DEF VoteInv, VotesKept
    <2>3. CASE g \in grants /\ g[1] # n
      BY SMTT(60), <1>1, <1>2, <2>3 DEF VoteInv, VotesKept
    <2> QED BY SMTT(60), <2>1, <2>2, <2>3
  <1>7. OneVoteForOthers'
    BY <1>1, <1>4 DEF VoteInv, OneVoteForOthers
  <1>8. WinnersVoteForThemselves'
    BY <1>1, <1>3 DEF VoteInv, WinnersVoteForThemselves
  <1>9. WinnersHaveQuorum'
    BY DEF VoteInv, WinnersHaveQuorum
  <1>10. WinnersLead'
    BY <1>1, <1>2 DEF VoteInv, WinnersLead
  <1> QED BY SMTT(60), <1>5, <1>6, <1>7, <1>8, <1>9, <1>10 DEF VoteInv

(* A candidate counts a vote cast for it in its term, and may win by it.   *)
LEMMA CountVote ==
    ASSUME TypeOK, VoteInv, NEW n \in Node, NEW v \in Node,
           state[n] = "Candidate", <<v, currentTerm[n], n>> \in grants,
           UNCHANGED <<currentTerm, votedFor, grants>>,
           votes' = [votes EXCEPT ![n] = @ \cup {v}],
           \/ UNCHANGED <<state, elected>>
           \/ /\ Cardinality(votes[n] \cup {v}) >= ElectionQuorum
              /\ state' = [state EXCEPT ![n] = "Leader"]
              /\ elected' = elected \cup {<<currentTerm[n], n>>}
    PROVE  VoteInv'
  <1>1. currentTerm \in [Node -> Nat] /\ grants \subseteq Node \X Nat \X Node
        /\ elected \subseteq Nat \X Node
        /\ state \in [Node -> {"Follower", "Candidate", "Leader"}]
        /\ votedFor \in [Node -> Node \cup {Nil}] /\ votes \in [Node -> SUBSET Node]
    BY ZenonT(60) DEF TypeOK
  <1>2. \A w \in votes[n] \cup {v} : <<w, currentTerm[n], n>> \in grants
    BY DEF VoteInv, VotesRecorded
  <1>3. VotesRecorded'
    BY <1>1, <1>2 DEF VoteInv, VotesRecorded
  <1>4. VotesKept'
    BY <1>1 DEF VoteInv, VotesKept
  <1>5. OneVoteForOthers'
    BY DEF VoteInv, OneVoteForOthers
  <1>6. WinnersVoteForThemselves'
    <2>1. \A g \in grants : g[1] = n /\ g[2] = currentTerm[n] => g[3] = n
      BY SMTT(60), <1>1 DEF VoteInv, VotesKept, VotesRecorded
    <2> QED BY <1>1, <2>1 DEF VoteInv, WinnersVoteForThemselves
  <1>7. WinnersHaveQuorum'
    <2> SUFFICES ASSUME NEW x \in elected'
                 PROVE  \E Q \in SUBSET Node : /\ Cardinality(Q) >= ElectionQuorum
                                               /\ \A w \in Q : <<w, x[1], x[2]>> \in grants
      BY DEF WinnersHaveQuorum
    <2>1. CASE x \in elected
      BY <2>1 DEF VoteInv, WinnersHaveQuorum
    <2>2. CASE x \notin elected
      <3>1. x = <<currentTerm[n], n>> /\ Cardinality(votes[n] \cup {v}) >= ElectionQuorum
        BY <2>2
      <3>2. votes[n] \cup {v} \in SUBSET Node
        BY <1>1
      <3>3. \A w \in votes[n] \cup {v} : <<w, x[1], x[2]>> \in grants
        BY <1>2, <3>1
      <3> QED BY <3>1, <3>2, <3>3
    <2> QED BY <2>1, <2>2
  <1>8. WinnersLead'
    BY <1>1 DEF VoteInv, WinnersLead
  <1> QED BY SMTT(60), <1>3, <1>4, <1>5, <1>6, <1>7, <1>8 DEF VoteInv

-----------------------------------------------------------------------------
(* ElectionInv is preserved, one lemma per action that can disturb it.     *)

LEMMA ElectionParts == ElectionInv <=> VoteInv /\ RepliesRecorded /\ SendersElected
  BY DEF ElectionInv, VoteInv

(* No call is sent or answered: the votes and winners recorded only grow.  *)
LEMMA CallsKept ==
    ASSUME RepliesRecorded, SendersElected,
           voteCalls' \subseteq voteCalls, appendCalls' \subseteq appendCalls,
           snapCalls' \subseteq snapCalls, round' = round,
           grants \subseteq grants', elected \subseteq elected'
    PROVE  RepliesRecorded' /\ SendersElected'
  BY DEF RepliesRecorded, SendersElected

LEMMA maybeStartElectionInv ==
    ASSUME TypeOK, ElectionInv, NEW n \in Node, maybeStartElection(n)
    PROVE  ElectionInv'
  <1>1. VoteInv /\ RepliesRecorded /\ SendersElected
    BY SMTT(60), ElectionParts
  <1>2. currentTerm'[n] = currentTerm[n] + 1
    BY SMTT(60) DEF maybeStartElection, TypeOK
  <1>3. VoteInv'
    <2>1. \/ /\ ElectionQuorum <= 1
             /\ state' = [state EXCEPT ![n] = "Leader"]
             /\ elected' = elected \cup {<<currentTerm[n] + 1, n>>}
          \/ /\ state' = [state EXCEPT ![n] = "Candidate"]
             /\ elected' = elected
      BY <1>2 DEF maybeStartElection, BecomeLeader
    <2> QED BY ZenonT(60), <1>1, <2>1, StartElection DEF maybeStartElection
  <1>4. elected \subseteq elected' /\ grants \subseteq grants'
    BY DEF maybeStartElection, BecomeLeader
  <1>5. RepliesRecorded'
    <2>1. \A c \in voteCalls' : c \in voteCalls \/ (c.src = n /\ c.dst \in Peers(n) /\ c.phase \in Fate)
      <3>1. PICK fate \in [Peers(n) -> Fate] :
            voteCalls' = Send(voteCalls,
              {[src |-> n, dst |-> p, term |-> currentTerm[n] + 1,
                lastLogIndex |-> lastIndex(log[n]), lastLogTerm |-> lastTerm(log[n]),
                phase |-> fate[p], reply |-> NoVoteReply] : p \in Peers(n)})
        BY ZenonT(60) DEF maybeStartElection
      <3> QED BY SMTT(60), <3>1 DEF Send
    <2> QED BY ZenonT(60), <1>1, <1>4, <2>1 DEF RepliesRecorded, Peers, Fate
  <1>6. SendersElected'
    BY <1>1, <1>4 DEF SendersElected, maybeStartElection
  <1> QED BY <1>3, <1>5, <1>6, ElectionParts, PTL

LEMMA HandleRequestVoteInv ==
    ASSUME TypeOK, ElectionInv, NEW c \in voteCalls, HandleRequestVote(c)
    PROVE  ElectionInv'
  <1> DEFINE n == c.dst
             newer == c.term > currentTerm[n]
             term  == IF newer THEN c.term ELSE currentTerm[n]
             voted == IF newer THEN Nil ELSE votedFor[n]
             grant == /\ c.term >= currentTerm[n]
                      /\ ~alreadyVoted(voted, c.src)
                      /\ logUpToDate(log[n], c.lastLogIndex, c.lastLogTerm)
  <1>1. VoteInv /\ RepliesRecorded /\ SendersElected
    BY ElectionParts
  <1>2. c.src \in Node /\ n \in Node /\ c.term \in Nat /\ c.src # n
    BY ZenonT(60), <1>1, VoteCallFields DEF RepliesRecorded
  <1>3. /\ state' = [state EXCEPT ![n] = IF newer THEN "Follower" ELSE @]
        /\ currentTerm' = [currentTerm EXCEPT ![n] = term]
        /\ votedFor' = [votedFor EXCEPT ![n] = IF grant THEN c.src ELSE voted]
        /\ grants' = grants \cup (IF grant THEN {<<n, c.term, c.src>>} ELSE {})
        /\ voteCalls' = Answer(voteCalls, c, [term |-> term, granted |-> grant])
        /\ UNCHANGED <<votes, elected, round, appendCalls, snapCalls>>
    BY ZenonT(60) DEF HandleRequestVote
  <1>4. /\ currentTerm \in [Node -> Nat] /\ votedFor \in [Node -> Node \cup {Nil}]
        /\ state \in [Node -> {"Follower", "Candidate", "Leader"}]
    BY DEF TypeOK
  <1>5. VoteInv'
    <2>1. CASE grant
      <3>1. \/ c.term > currentTerm[n]
            \/ c.term = currentTerm[n] /\ votedFor[n] \in {Nil, c.src}
        BY <1>2, <1>4, <2>1 DEF alreadyVoted
      <3>2. term = c.term
        BY <1>2, <1>4, <3>1
      <3> HIDE DEF grant, term, voted
      <3>3. /\ votedFor' = [votedFor EXCEPT ![n] = c.src]
            /\ grants' = grants \cup {<<n, c.term, c.src>>}
            /\ currentTerm' = [currentTerm EXCEPT ![n] = c.term]
        BY SMTT(60), <1>3, <2>1, <3>2
      <3> HIDE DEF n
      <3> QED BY ZenonT(60), <1>1, <1>2, <1>3, <3>1, <3>3, GrantVote
    <2>2. CASE ~grant /\ newer
      <3>1. /\ votedFor' = [votedFor EXCEPT ![n] = Nil]
            /\ grants' = grants
            /\ currentTerm' = [currentTerm EXCEPT ![n] = c.term]
            /\ state' = [state EXCEPT ![n] = "Follower"]
        <4> HIDE DEF grant
        <4> QED BY <1>3, <2>2
      <3>2. c.term > currentTerm[n]
        BY <2>2
      <3> HIDE DEF n
      <3> QED BY ZenonT(60), <1>1, <1>2, <1>3, <3>1, <3>2, StepDown
    <2>3. CASE ~grant /\ ~newer
      <3>1. UNCHANGED <<state, currentTerm, votedFor, votes, grants, elected>>
        <4> HIDE DEF grant
        <4> QED BY SMTT(60), <1>2, <1>3, <1>4, <2>3
      <3> QED BY SMTT(60), <1>1, <3>1, VotesUnchanged
    <2> QED BY <2>1, <2>2, <2>3
  <1>6. RepliesRecorded'
    <2> SUFFICES ASSUME NEW d \in voteCalls' PROVE RepliesRecorded!(d)'
      BY ZenonT(60) DEF RepliesRecorded
    <2>1. CASE d \in voteCalls
      BY <1>1, <1>3, <2>1 DEF RepliesRecorded
    <2>2. CASE d \notin voteCalls
      <3>1. c \in VoteCall
        BY DEF TypeOK
      <3> DEFINE a == [c EXCEPT !.phase = "reply", !.reply = [term |-> term, granted |-> grant]]
      <3>2. d = a
        BY <1>3, <2>2 DEF Answer
      <3>3. a.src = c.src /\ a.dst = c.dst /\ a.term = c.term /\ a.reply.granted = grant
        <4> HIDE DEF grant, term
        <4> QED BY <3>1 DEF VoteCall
      <3> HIDE DEF grant, term, a
      <3>4. a.reply.granted => <<n, c.term, c.src>> \in grants'
        BY SMTT(60), <1>3, <3>3
      <3> QED BY SMTT(60), <1>2, <3>2, <3>3, <3>4
    <2> QED BY <2>1, <2>2
  <1>7. SendersElected'
    BY <1>1, <1>3 DEF SendersElected
  <1> QED BY <1>5, <1>6, <1>7, ElectionParts, PTL

LEMMA RequestVoteReplyInv ==
    ASSUME TypeOK, ElectionInv, NEW c \in voteCalls, RequestVoteReply(c)
    PROVE  ElectionInv'
  <1>1. VoteInv /\ RepliesRecorded /\ SendersElected
    BY ElectionParts
  <1>2. c.src \in Node /\ c.dst \in Node /\ c.reply.term \in Nat
    BY VoteCallFields
  <1>3. CASE c.reply.term > currentTerm[c.src]
    <2>1. BecomeFollower(c.src, c.reply.term) /\ UNCHANGED <<votes, grants, elected>>
      BY <1>3 DEF RequestVoteReply
    <2>2. VoteInv'
      BY ZenonT(60), <1>1, <1>2, <1>3, <2>1, StepDown DEF BecomeFollower
    <2>3. RepliesRecorded' /\ SendersElected'
      BY SMTT(60), <1>1, <2>1, CallsKept DEF RequestVoteReply
    <2> QED BY <2>2, <2>3, ElectionParts, PTL
  <1>4. CASE ~(c.reply.term > currentTerm[c.src])
    <2> DEFINE n == c.src
               counts == c.reply.granted /\ state[n] = "Candidate" /\ currentTerm[n] = c.term
               wins == counts /\ Cardinality(votes[n] \cup {c.dst}) >= ElectionQuorum
    <2>1. /\ votes' = [votes EXCEPT ![n] = IF counts THEN @ \cup {c.dst} ELSE @]
          /\ UNCHANGED <<currentTerm, votedFor, grants>>
          /\ IF wins THEN BecomeLeader(n) ELSE UNCHANGED <<state, elected>>
      BY SMTT(60), <1>4 DEF RequestVoteReply
    <2>2. elected \subseteq elected'
      BY <2>1 DEF BecomeLeader
    <2>3. VoteInv'
      <3>1. CASE counts
        <4>1. <<c.dst, currentTerm[n], n>> \in grants
          BY SMTT(60), <1>1, <3>1 DEF RepliesRecorded, RequestVoteReply
        <4>2. \/ UNCHANGED <<state, elected>>
              \/ /\ Cardinality(votes[n] \cup {c.dst}) >= ElectionQuorum
                 /\ state' = [state EXCEPT ![n] = "Leader"]
                 /\ elected' = elected \cup {<<currentTerm[n], n>>}
          BY <2>1 DEF BecomeLeader
        <4>3. votes' = [votes EXCEPT ![n] = @ \cup {c.dst}] /\ state[n] = "Candidate"
          BY SMTT(60), <2>1, <3>1
        <4> HIDE DEF n, counts, wins
        <4> USE DEF n
        <4> QED BY ZenonT(60), <1>1, <1>2, <2>1, <4>1, <4>2, <4>3, CountVote
      <3>2. CASE ~counts
        <4>1. UNCHANGED <<state, currentTerm, votedFor, votes, grants, elected>>
          BY SMTT(60), <1>2, <2>1, <3>2 DEF TypeOK
        <4> QED BY <1>1, <4>1, VotesUnchanged
      <3> QED BY <3>1, <3>2
    <2>4. RepliesRecorded' /\ SendersElected'
      BY SMTT(60), <1>1, <2>1, <2>2, CallsKept DEF RequestVoteReply
    <2> QED BY <2>3, <2>4, ElectionParts, PTL
  <1> QED BY <1>3, <1>4

(***************************************************************************)
(* A leader never steps down for a call of its own term: the caller would  *)
(* have won the same election.                                             *)
(***************************************************************************)
LEMMA NoSecondLeader ==
    ASSUME TypeOK, ElectionInv, NEW c \in appendCalls \cup snapCalls,
           c.dst \in Node, c.term = currentTerm[c.dst]
    PROVE  state[c.dst] # "Leader"
  <1>1. VoteInv /\ SendersElected /\ ElectionSafety
    BY ElectionParts, SafeElections
  <1>2. <<c.term, c.src>> \in elected /\ c.src # c.dst
    BY <1>1 DEF SendersElected
  <1>3. state[c.dst] = "Leader" => <<c.term, c.dst>> \in elected
    BY <1>1 DEF VoteInv, WinnersLead
  <1>4. <<c.term, c.dst>> \in elected => <<c.term, c.dst>> = <<c.term, c.src>>
    BY <1>1, <1>2 DEF ElectionSafety
  <1> QED BY <1>2, <1>3, <1>4

(* An answered call still has its caller, its handler and its term.        *)
LEMMA AnswerKeeps ==
    ASSUME NEW T, T = AppendCall \/ T = SnapCall,
           NEW calls, calls \subseteq T, NEW c \in calls, NEW r, NEW d \in Answer(calls, c, r)
    PROVE  \E e \in calls : d.src = e.src /\ d.dst = e.dst /\ d.term = e.term
  <1>1. CASE d \in calls
    BY <1>1
  <1>2. CASE d \notin calls
    <2>1. d = [c EXCEPT !.phase = "reply", !.reply = r]
      BY <1>2 DEF Answer
    <2>2. CASE T = AppendCall
      BY <2>1, <2>2 DEF AppendCall
    <2>3. CASE T = SnapCall
      BY SMTT(60), <2>1, <2>3 DEF SnapCall
    <2> QED BY <2>2, <2>3
  <1> QED BY <1>1, <1>2

LEMMA HandleAppendEntriesInv ==
    ASSUME TypeOK, ElectionInv, NEW c \in appendCalls, HandleAppendEntries(c)
    PROVE  ElectionInv'
  <1> DEFINE n == c.dst
             refused == c.term < currentTerm[n]
             stepDown == StepsDown(n, c.term)
             term == IF refused THEN currentTerm[n] ELSE c.term
  <1>1. VoteInv /\ RepliesRecorded /\ SendersElected
    BY ElectionParts
  <1>2. n \in Node /\ c.term \in Nat
    BY SMTT(60), AppendCallFields
  <1>3. /\ state' = [state EXCEPT ![n] = IF stepDown THEN "Follower" ELSE @]
        /\ currentTerm' = [currentTerm EXCEPT ![n] = term]
        /\ votedFor' = [votedFor EXCEPT ![n] = IF stepDown THEN Nil ELSE @]
        /\ UNCHANGED <<votes, grants, elected, voteCalls, snapCalls, round>>
    BY SMTT(60) DEF HandleAppendEntries
  <1>4. PICK r : appendCalls' = Answer(appendCalls, c, r)
    BY SMTT(60) DEF HandleAppendEntries
  <1>5. /\ currentTerm \in [Node -> Nat] /\ votedFor \in [Node -> Node \cup {Nil}]
        /\ state \in [Node -> {"Follower", "Candidate", "Leader"}]
    BY DEF TypeOK
  <1>6. VoteInv'
    <2>1. CASE stepDown
      <3>1. c.term > currentTerm[n] \/ (c.term = currentTerm[n] /\ state[n] = "Candidate")
        BY <1>2, <1>5, <2>1, NoSecondLeader DEF StepsDown
      <3>2. term = c.term
        BY <1>2, <1>5, <3>1
      <3>3. /\ state' = [state EXCEPT ![n] = "Follower"]
            /\ currentTerm' = [currentTerm EXCEPT ![n] = c.term]
            /\ votedFor' = [votedFor EXCEPT ![n] = Nil]
        <4> HIDE DEF stepDown, term
        <4> QED BY <1>3, <2>1, <3>2
      <3> HIDE DEF n
      <3> QED BY ZenonT(60), <1>1, <1>2, <1>3, <3>1, <3>3, StepDown
    <2>2. CASE ~stepDown
      <3>1. term = currentTerm[n]
        BY SMTT(60), <1>2, <1>5, <2>2 DEF StepsDown
      <3>2. UNCHANGED <<state, currentTerm, votedFor, votes, grants, elected>>
        <4> HIDE DEF stepDown, term
        <4> QED BY <1>2, <1>3, <1>5, <2>2, <3>1
      <3> QED BY <1>1, <3>2, VotesUnchanged
    <2> QED BY <2>1, <2>2
  <1>7. RepliesRecorded'
    BY ZenonT(60), <1>1, <1>3 DEF RepliesRecorded
  <1>8. SendersElected'
    <2>1. appendCalls \subseteq AppendCall
      BY DEF TypeOK
    <2>2. \A d \in appendCalls' : \E e \in appendCalls :
             d.src = e.src /\ d.dst = e.dst /\ d.term = e.term
      BY SMTT(60), <1>4, <2>1, AnswerKeeps
    <2> QED BY SMTT(60), <1>1, <1>3, <2>2 DEF SendersElected
  <1> QED BY <1>6, <1>7, <1>8, ElectionParts, PTL

LEMMA HandleInstallSnapshotInv ==
    ASSUME TypeOK, ElectionInv, NEW c \in snapCalls, HandleInstallSnapshot(c)
    PROVE  ElectionInv'
  <1> DEFINE n == c.dst
             stepDown == c.term > currentTerm[n]
             term == IF stepDown THEN c.term ELSE currentTerm[n]
  <1>1. VoteInv /\ RepliesRecorded /\ SendersElected
    BY ElectionParts
  <1>2. n \in Node /\ c.term \in Nat
    BY SMTT(60), SnapCallFields
  <1>3. /\ state' = [state EXCEPT ![n] = IF stepDown THEN "Follower" ELSE @]
        /\ currentTerm' = [currentTerm EXCEPT ![n] = term]
        /\ votedFor' = [votedFor EXCEPT ![n] = IF stepDown THEN Nil ELSE @]
        /\ UNCHANGED <<votes, grants, elected, voteCalls, appendCalls, round>>
    BY SMTT(60) DEF HandleInstallSnapshot
  <1>4. PICK r : snapCalls' = Answer(snapCalls, c, r)
    BY SMTT(60) DEF HandleInstallSnapshot
  <1>5. /\ currentTerm \in [Node -> Nat] /\ votedFor \in [Node -> Node \cup {Nil}]
        /\ state \in [Node -> {"Follower", "Candidate", "Leader"}]
    BY DEF TypeOK
  <1>6. VoteInv'
    <2>1. CASE stepDown
      <3>1. /\ state' = [state EXCEPT ![n] = "Follower"]
            /\ currentTerm' = [currentTerm EXCEPT ![n] = c.term]
            /\ votedFor' = [votedFor EXCEPT ![n] = Nil]
        BY SMTT(60), <1>3, <2>1
      <3> HIDE DEF n
      <3> QED BY ZenonT(60), <1>1, <1>2, <1>3, <2>1, <3>1, StepDown
    <2>2. CASE ~stepDown
      <3>1. UNCHANGED <<state, currentTerm, votedFor, votes, grants, elected>>
        BY SMTT(60), <1>2, <1>3, <1>5, <2>2
      <3> QED BY <1>1, <3>1, VotesUnchanged
    <2> QED BY <2>1, <2>2
  <1>7. RepliesRecorded'
    BY ZenonT(60), <1>1, <1>3 DEF RepliesRecorded
  <1>8. SendersElected'
    <2>1. snapCalls \subseteq SnapCall
      BY DEF TypeOK
    <2>2. \A d \in snapCalls' : \E e \in snapCalls :
             d.src = e.src /\ d.dst = e.dst /\ d.term = e.term
      BY <1>4, <2>1, AnswerKeeps
    <2> QED BY SMTT(60), <1>1, <1>3, <2>2 DEF SendersElected
  <1> QED BY <1>6, <1>7, <1>8, ElectionParts, PTL

(* A reply to a leader's call at most makes it step down into a newer term. *)
LEMMA ReplyInv ==
    ASSUME TypeOK, ElectionInv,
           NEW c, \/ c \in appendCalls /\ AppendEntriesReply(c)
                  \/ c \in snapCalls /\ InstallSnapshotReply(c)
    PROVE  ElectionInv'
  <1>1. VoteInv /\ RepliesRecorded /\ SendersElected
    BY ElectionParts
  <1>2. c.src \in Node /\ c.reply.term \in Nat
    BY SMTT(60), AppendCallFields, SnapCallFields
  <1>3. /\ UNCHANGED <<votes, grants, elected, voteCalls, round>>
        /\ appendCalls' \subseteq appendCalls /\ snapCalls' \subseteq snapCalls
        /\ \/ c.reply.term > currentTerm[c.src] /\ BecomeFollower(c.src, c.reply.term)
           \/ UNCHANGED <<state, currentTerm, votedFor>>
    BY SMTT(60) DEF AppendEntriesReply, InstallSnapshotReply
  <1>4. VoteInv'
    <2>1. CASE c.reply.term > currentTerm[c.src] /\ BecomeFollower(c.src, c.reply.term)
      BY ZenonT(60), <1>1, <1>2, <1>3, <2>1, StepDown DEF BecomeFollower
    <2>2. CASE UNCHANGED <<state, currentTerm, votedFor>>
      BY <1>1, <1>3, <2>2, VotesUnchanged
    <2> QED BY SMTT(60), <1>3, <2>1, <2>2
  <1>5. RepliesRecorded' /\ SendersElected'
    BY <1>1, <1>3, CallsKept
  <1> QED BY <1>4, <1>5, ElectionParts, PTL

(* What a step of replicateTo may add to the calls in flight.              *)
LEMMA replicateToSends ==
    ASSUME NEW n \in Node, NEW p \in Node, replicateTo(n, p)
    PROVE  /\ p \in round[n] /\ round' = [round EXCEPT ![n] = @ \ {p}]
           /\ UNCHANGED <<state, currentTerm, votedFor, votes, grants, elected, voteCalls>>
           /\ \A c \in appendCalls' \cup snapCalls' :
                \/ c \in appendCalls \cup snapCalls
                \/ /\ state[n] = "Leader" /\ c.src = n /\ c.dst = p
                   /\ c.term = currentTerm[n]
  <1>1. /\ p \in round[n] /\ round' = [round EXCEPT ![n] = @ \ {p}]
        /\ UNCHANGED <<state, currentTerm, votedFor, votes, grants, elected, voteCalls>>
    BY ZenonT(60) DEF replicateTo, electionVars
  <1>2. CASE state[n] # "Leader"
    BY ZenonT(60), <1>1, <1>2 DEF replicateTo
  <1>3. CASE state[n] = "Leader"
    <2>1. \E a, s : /\ a.src = n /\ a.dst = p /\ a.term = currentTerm[n]
                    /\ s.src = n /\ s.dst = p /\ s.term = currentTerm[n]
                    /\ \/ appendCalls' = Send(appendCalls, {a}) /\ UNCHANGED snapCalls
                       \/ snapCalls' = Send(snapCalls, {s}) /\ UNCHANGED appendCalls
      <3> DEFINE l == log[n]
                 prev == nextIndex[n][p] - 1
                 app(fate) ==
                   [src |-> n, dst |-> p, term |-> currentTerm[n],
                    prevLogIndex |-> prev, prevLogTerm |-> Term(l, prev),
                    entries |-> Slice(l, prev + 1, lastIndex(l) + 1),
                    leaderCommit |-> commitIndex[n], phase |-> fate, reply |-> NoAppendReply]
                 snap(fate) ==
                   [src |-> n, dst |-> p, term |-> currentTerm[n],
                    lastIncludedIndex |-> l.snapIndex, lastIncludedTerm |-> l.snapTerm,
                    phase |-> fate, reply |-> NoSnapReply]
      <3>1. PICK fate \in Fate :
              \/ appendCalls' = Send(appendCalls, {app(fate)}) /\ UNCHANGED snapCalls
              \/ snapCalls' = Send(snapCalls, {snap(fate)}) /\ UNCHANGED appendCalls
        BY ZenonT(60), <1>3 DEF replicateTo
      <3> HIDE DEF l, prev
      <3>2. /\ app(fate).src = n /\ app(fate).dst = p /\ app(fate).term = currentTerm[n]
            /\ snap(fate).src = n /\ snap(fate).dst = p /\ snap(fate).term = currentTerm[n]
        BY ZenonT(60)
      <3> HIDE DEF app, snap
      <3> QED BY ZenonT(60), <3>1, <3>2
    <2> QED BY SMTT(60), <1>1, <1>3, <2>1 DEF Send
  <1> QED BY SMTT(60), <1>2, <1>3

LEMMA replicateToInv ==
    ASSUME TypeOK, ElectionInv, NEW n \in Node, NEW p \in Node, replicateTo(n, p)
    PROVE  ElectionInv'
  <1>1. VoteInv /\ RepliesRecorded /\ SendersElected
    BY SMTT(60), ElectionParts
  <1>2. VoteInv' /\ RepliesRecorded'
    BY ZenonT(60), <1>1, replicateToSends, VotesUnchanged DEF RepliesRecorded
  <1>3. SendersElected'
    <2>1. \A m \in Node : m \notin round'[m]
      <3>1. round \in [Node -> SUBSET Node] /\ round' = [round EXCEPT ![n] = @ \ {p}]
        BY ZenonT(60), replicateToSends DEF TypeOK
      <3>2. \A m \in Node : m \notin round[m]
        BY <1>1 DEF SendersElected
      <3> QED BY SMTT(60), <3>1, <3>2
    <2>2. \A c \in (appendCalls \cup snapCalls)' :
            c.src # c.dst /\ <<c.term, c.src>> \in elected'
      <3> SUFFICES ASSUME NEW c \in appendCalls' \cup snapCalls'
                   PROVE  c.src # c.dst /\ <<c.term, c.src>> \in elected'
        BY ZenonT(60)
      <3>1. CASE c \in appendCalls \cup snapCalls
        BY ZenonT(60), <1>1, <3>1, replicateToSends DEF SendersElected
      <3>2. CASE c \notin appendCalls \cup snapCalls
        <4>1. /\ state[n] = "Leader" /\ c.src = n /\ c.dst = p /\ c.term = currentTerm[n]
              /\ p \in round[n] /\ elected' = elected
          BY <3>2, replicateToSends
        <4> QED BY <1>1, <4>1 DEF SendersElected, VoteInv, WinnersLead
      <3> QED BY SMTT(60), <3>1, <3>2
    <2> QED BY <2>1, <2>2 DEF SendersElected
  <1> QED BY <1>2, <1>3, ElectionParts, PTL

(* The steps that touch no vote and send no call.                          *)
LEMMA OtherInv ==
    ASSUME TypeOK, ElectionInv,
           \/ \E n \in Node : Propose(n) \/ maybeSendHeartbeats(n) \/ TakeSnapshot(n)
           \/ ApplyNext \/ UNCHANGED vars
    PROVE  ElectionInv'
  <1>1. VoteInv /\ RepliesRecorded /\ SendersElected
    BY SMTT(60), ElectionParts
  <1>2. /\ UNCHANGED <<state, currentTerm, votedFor, votes, grants, elected>>
        /\ UNCHANGED <<voteCalls, appendCalls, snapCalls>>
        /\ round' = round \/ \E n \in Node : round' = [round EXCEPT ![n] = Peers(n)]
    BY ZenonT(60) DEF Propose, maybeSendHeartbeats, TakeSnapshot, ApplyNext, applyWake, applySlice,
           applyDeliver, applyDone, applyCompact, ApplyStep, vars, electionVars, callVars
  <1>3. VoteInv' /\ RepliesRecorded'
    BY ZenonT(60), <1>1, <1>2, VotesUnchanged DEF RepliesRecorded
  <1>4. SendersElected'
    <2>1. \A n \in Node : n \notin round'[n]
      <3>1. round \in [Node -> SUBSET Node]
        BY DEF TypeOK
      <3>2. \A n \in Node : n \notin round[n]
        BY <1>1 DEF SendersElected
      <3> QED BY SMTT(60), <1>2, <3>1, <3>2 DEF Peers
    <2> QED BY <1>1, <1>2, <2>1 DEF SendersElected
  <1> QED BY <1>3, <1>4, ElectionParts, PTL

LEMMA ElectionStep == TypeOK /\ ElectionInv /\ [Next]_vars => ElectionInv'
  <1> SUFFICES ASSUME TypeOK, ElectionInv, [Next]_vars PROVE ElectionInv'
    OBVIOUS
  <1>1. CASE ElectionNext
    BY <1>1, maybeStartElectionInv, HandleRequestVoteInv, RequestVoteReplyInv,
       BoundsAssumption DEF ElectionNext
  <1>2. CASE ReplicationNext
    BY SMTT(60), <1>2, OtherInv, replicateToInv, HandleAppendEntriesInv, ReplyInv
       DEF ReplicationNext
  <1>3. CASE SnapshotNext
    BY <1>3, OtherInv, HandleInstallSnapshotInv, ReplyInv DEF SnapshotNext
  <1>4. CASE ApplyNext \/ UNCHANGED vars
    BY <1>4, OtherInv
  <1> QED BY <1>1, <1>2, <1>3, <1>4 DEF Next

(* The bookkeeping of votes, elections and calls, from the first state on. *)
THEOREM ElectionInvariant == Spec => []ElectionInv
  <1>1. Init => ElectionInv
    <2> SUFFICES ASSUME Init PROVE ElectionInv
      OBVIOUS
    <2>1. /\ grants = {} /\ elected = {}
          /\ voteCalls = {} /\ appendCalls = {} /\ snapCalls = {}
          /\ state = [n \in Node |-> "Follower"] /\ round = [n \in Node |-> {}]
      BY DEF Init
    <2>2. VotesRecorded /\ RepliesRecorded
      BY <2>1 DEF VotesRecorded, RepliesRecorded
    <2>3. VotesKept /\ OneVoteForOthers
      BY <2>1 DEF VotesKept, OneVoteForOthers
    <2>4. WinnersVoteForThemselves /\ WinnersHaveQuorum
      BY <2>1 DEF WinnersVoteForThemselves, WinnersHaveQuorum
    <2>5. WinnersLead /\ SendersElected
      BY <2>1 DEF WinnersLead, SendersElected
    <2> QED BY <2>2, <2>3, <2>4, <2>5 DEF ElectionInv
  <1> QED BY <1>1, ElectionStep, TypeCorrect, PTL DEF Spec

(***************************************************************************)
(* At most one node ever wins the election of a term, for any number of    *)
(* nodes and although a candidate may withdraw the vote for itself.        *)
(***************************************************************************)
THEOREM ElectionSafe == Spec => []ElectionSafety
  <1>1. TypeOK /\ ElectionInv => ElectionSafety
    BY ElectionParts, SafeElections
  <1> QED BY <1>1, ElectionInvariant, TypeCorrect, PTL

=============================================================================
