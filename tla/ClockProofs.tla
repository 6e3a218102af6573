----------------------------- MODULE ClockProofs -----------------------------
(***************************************************************************)
(* Vector clocks order versions as a strict partial order that Merge has   *)
(* least upper bounds in, and a Lamport clock's timestamps increase under  *)
(* every interleaving, for every set of nodes and goroutines.              *)
(***************************************************************************)
EXTENDS Clocks, TLAPS

(* A vector clock is read through At only.                                 *)
LEMMA AtCounter ==
    ASSUME MaxUint \in Nat, NEW vc \in VectorClock, NEW id \in Node
    PROVE  At(vc, id) \in Nat /\ At(vc, id) <= MaxUint /\ DOMAIN vc \subseteq Node
  <1>1. PICK D \in SUBSET Node : vc \in [D -> Counter]
    BY DEF VectorClock
  <1> QED BY <1>1 DEF At, Counter

(* HappensBefore's two loops over the keys that are there decide the order *)
(* its comment defines, over all nodes with missing keys as 0.             *)
LEMMA HappensBeforeIsPrecedes ==
    ASSUME MaxUint \in Nat, NEW v \in VectorClock, NEW w \in VectorClock
    PROVE  HappensBefore(v, w) <=> Precedes(v, w)
  <1>1. PICK D \in SUBSET Node : v \in [D -> Counter]
    BY DEF VectorClock
  <1>2. PICK E \in SUBSET Node : w \in [E -> Counter]
    BY DEF VectorClock
  <1>3. \A id \in Node : /\ At(v, id) \in Nat /\ At(w, id) \in Nat
                         /\ id \in D => At(v, id) = v[id]
                         /\ id \notin D => At(v, id) = 0
                         /\ id \in E => At(w, id) = w[id]
                         /\ id \notin E => At(w, id) = 0
    BY <1>1, <1>2 DEF At, Counter
  <1>4. HappensBefore(v, w) => Precedes(v, w)
    BY <1>1, <1>2, <1>3 DEF HappensBefore, Precedes
  <1>5. Precedes(v, w) => HappensBefore(v, w)
    BY <1>1, <1>2, <1>3 DEF HappensBefore, Precedes
  <1> QED BY <1>4, <1>5

LEMMA EqualIsPointwise ==
    ASSUME NEW v \in VectorClock, NEW w \in VectorClock
    PROVE  Equal(v, w) <=> \A id \in Node : At(v, id) = At(w, id)
  <1>1. PICK D \in SUBSET Node : v \in [D -> Counter]
    BY DEF VectorClock
  <1>2. PICK E \in SUBSET Node : w \in [E -> Counter]
    BY DEF VectorClock
  <1> QED BY <1>1, <1>2 DEF Equal, At

(***************************************************************************)
(* HappensBefore is a strict partial order on versions, and two versions   *)
(* stand in exactly one of the relations the package offers: a conflict is *)
(* reported as Concurrent if and only if neither write saw the other.      *)
(***************************************************************************)
THEOREM CausalOrder ==
    ASSUME MaxUint \in Nat,
           NEW u \in VectorClock, NEW v \in VectorClock, NEW w \in VectorClock
    PROVE  /\ ~HappensBefore(v, v)
           /\ HappensBefore(u, v) /\ HappensBefore(v, w) => HappensBefore(u, w)
           /\ HappensBefore(v, w) => ~HappensBefore(w, v) /\ ~Equal(v, w) /\ ~Equal(w, v)
           /\ Concurrent(v, w) <=> /\ \E id \in Node : At(v, id) < At(w, id)
                                   /\ \E id \in Node : At(w, id) < At(v, id)
  <1>0. \A id \in Node : At(u, id) \in Nat /\ At(v, id) \in Nat /\ At(w, id) \in Nat
    BY AtCounter
  <1>1. ~HappensBefore(v, v)
    BY <1>0, HappensBeforeIsPrecedes DEF Precedes
  <1>2. HappensBefore(u, v) /\ HappensBefore(v, w) => HappensBefore(u, w)
    <2>1. Precedes(u, v) /\ Precedes(v, w) => Precedes(u, w)
      BY <1>0 DEF Precedes
    <2> QED BY <2>1, HappensBeforeIsPrecedes
  <1>3. HappensBefore(v, w) => ~HappensBefore(w, v) /\ ~Equal(v, w) /\ ~Equal(w, v)
    <2>1. Precedes(v, w) => ~Precedes(w, v)
      BY <1>0 DEF Precedes
    <2>2. Precedes(v, w) => ~ \A id \in Node : At(v, id) = At(w, id)
      BY <1>0 DEF Precedes
    <2>3. (\A id \in Node : At(v, id) = At(w, id)) <=> (\A id \in Node : At(w, id) = At(v, id))
      OBVIOUS
    <2>4. Equal(v, w) <=> \A id \in Node : At(v, id) = At(w, id)
      BY EqualIsPointwise
    <2>5. Equal(w, v) <=> \A id \in Node : At(w, id) = At(v, id)
      BY EqualIsPointwise
    <2> QED BY <2>1, <2>2, <2>3, <2>4, <2>5, HappensBeforeIsPrecedes
  <1>4. Concurrent(v, w) <=> /\ \E id \in Node : At(v, id) < At(w, id)
                             /\ \E id \in Node : At(w, id) < At(v, id)
    <2>1. Concurrent(v, w) <=> /\ ~Precedes(v, w) /\ ~Precedes(w, v)
                               /\ ~ \A id \in Node : At(v, id) = At(w, id)
      BY EqualIsPointwise, HappensBeforeIsPrecedes DEF Concurrent
    <2> QED BY <1>0, <2>1 DEF Precedes
  <1> QED BY <1>1, <1>2, <1>3, <1>4

LEMMA MergeAt ==
    ASSUME MaxUint \in Nat, NEW v \in VectorClock, NEW w \in VectorClock
    PROVE  /\ Merge(v, w) \in VectorClock
           /\ \A id \in Node : At(Merge(v, w), id) = IF At(v, id) >= At(w, id)
                                                     THEN At(v, id) ELSE At(w, id)
  <1>1. PICK D \in SUBSET Node : v \in [D -> Counter]
    BY DEF VectorClock
  <1>2. PICK E \in SUBSET Node : w \in [E -> Counter]
    BY DEF VectorClock
  <1> DEFINE F == D \cup Larger(v, w)
  <1>3. F \in SUBSET Node
    BY <1>1, <1>2 DEF Larger
  <1>4. Merge(v, w) \in [F -> Counter]
    BY <1>1, <1>2 DEF Merge, Larger
  <1>5. Merge(v, w) \in VectorClock
    BY <1>3, <1>4 DEF VectorClock
  <1>6. ASSUME NEW id \in Node
        PROVE  At(Merge(v, w), id) = IF At(v, id) >= At(w, id) THEN At(v, id) ELSE At(w, id)
    <2>1. At(v, id) \in Nat /\ At(w, id) \in Nat
      BY AtCounter
    <2>2. id \in Larger(v, w) <=> At(w, id) > At(v, id)
      BY <1>1, <1>2, <2>1 DEF Larger, At
    <2>3. CASE id \in Larger(v, w)
      <3>1. id \in E /\ At(Merge(v, w), id) = w[id] /\ At(w, id) = w[id]
        BY <1>1, <1>2, <1>4, <2>3 DEF Merge, At, Larger
      <3> QED BY <2>1, <2>2, <2>3, <3>1
    <2>4. CASE id \notin Larger(v, w)
      <3>1. At(Merge(v, w), id) = At(v, id)
        BY <1>1, <1>4, <2>4 DEF Merge, At
      <3> QED BY <2>1, <2>2, <2>4, <3>1
    <2> QED BY <2>3, <2>4
  <1> QED BY <1>5, <1>6

(***************************************************************************)
(* Merge "reflects all events in both" (version.go) and nothing else: no   *)
(* input is after the result, and the result is before or equal to every   *)
(* version that both inputs are before or equal to.                        *)
(***************************************************************************)
THEOREM MergeIsLeast ==
    ASSUME MaxUint \in Nat,
           NEW u \in VectorClock, NEW v \in VectorClock, NEW w \in VectorClock
    PROVE  /\ Merge(v, w) \in VectorClock
           /\ HappensBefore(v, Merge(v, w)) \/ Equal(v, Merge(v, w))
           /\ HappensBefore(w, Merge(v, w)) \/ Equal(w, Merge(v, w))
           /\ /\ HappensBefore(v, u) \/ Equal(v, u)
              /\ HappensBefore(w, u) \/ Equal(w, u)
              => HappensBefore(Merge(v, w), u) \/ Equal(Merge(v, w), u)
  <1> DEFINE LEq(x, y) == \A id \in Node : At(x, id) <= At(y, id)
  <1>1. ASSUME NEW x \in VectorClock, NEW y \in VectorClock
        PROVE  HappensBefore(x, y) \/ Equal(x, y) <=> LEq(x, y)
    <2>1. \A id \in Node : At(x, id) \in Nat /\ At(y, id) \in Nat
      BY AtCounter
    <2>2. HappensBefore(x, y) <=> Precedes(x, y)
      BY HappensBeforeIsPrecedes
    <2>3. Equal(x, y) <=> \A id \in Node : At(x, id) = At(y, id)
      BY EqualIsPointwise
    <2> QED BY <2>1, <2>2, <2>3 DEF Precedes
  <1> DEFINE m == Merge(v, w)
  <1>2. m \in VectorClock
    BY MergeAt
  <1>3. \A id \in Node : /\ At(u, id) \in Nat /\ At(v, id) \in Nat /\ At(w, id) \in Nat
                         /\ At(m, id) = IF At(v, id) >= At(w, id) THEN At(v, id) ELSE At(w, id)
    BY AtCounter, MergeAt
  <1>4. LEq(v, m) /\ LEq(w, m) /\ (LEq(v, u) /\ LEq(w, u) => LEq(m, u))
    <2> HIDE DEF m
    <2> QED BY <1>3
  <1> HIDE DEF m, LEq
  <1>5. (HappensBefore(v, m) \/ Equal(v, m)) /\ (HappensBefore(w, m) \/ Equal(w, m))
    BY <1>1, <1>2, <1>4
  <1>6. /\ HappensBefore(v, u) \/ Equal(v, u)
        /\ HappensBefore(w, u) \/ Equal(w, u)
        => HappensBefore(m, u) \/ Equal(m, u)
    BY <1>1, <1>2, <1>4
  <1> QED BY <1>2, <1>5, <1>6 DEF m

LEMMA IncrementAt ==
    ASSUME MaxUint \in Nat, NEW v \in VectorClock, NEW p \in Node, At(v, p) < MaxUint
    PROVE  /\ Increment(v, p) \in VectorClock
           /\ \A id \in Node : At(Increment(v, p), id) = IF id = p THEN At(v, p) + 1 ELSE At(v, id)
  <1>1. PICK D \in SUBSET Node : v \in [D -> Counter]
    BY DEF VectorClock
  <1>2. At(v, p) \in Nat /\ Plus1(At(v, p)) = At(v, p) + 1 /\ At(v, p) + 1 \in Counter
    BY AtCounter DEF Plus1, Counter
  <1>3. Increment(v, p) \in [D \cup {p} -> Counter]
    BY <1>1, <1>2 DEF Increment
  <1>4. Increment(v, p) \in VectorClock
    BY <1>3 DEF VectorClock
  <1>5. \A id \in Node : At(Increment(v, p), id) = IF id = p THEN At(v, p) + 1 ELSE At(v, id)
    BY <1>1, <1>2, <1>3 DEF Increment, At
  <1> QED BY <1>4, <1>5

LEMMA ConcurrentIncrements ==
    ASSUME MaxUint \in Nat, NEW v \in VectorClock, NEW p \in Node, NEW q \in Node,
           At(v, p) < MaxUint, At(v, q) < MaxUint
    PROVE  /\ HappensBefore(v, Increment(v, p))
           /\ p # q => Concurrent(Increment(v, p), Increment(v, q))
  <1>1. \A id \in Node : At(v, id) \in Nat
    BY AtCounter
  <1>2. /\ Increment(v, p) \in VectorClock
        /\ \A id \in Node : At(Increment(v, p), id) = IF id = p THEN At(v, p) + 1 ELSE At(v, id)
    BY IncrementAt
  <1>3. /\ Increment(v, q) \in VectorClock
        /\ \A id \in Node : At(Increment(v, q), id) = IF id = q THEN At(v, q) + 1 ELSE At(v, id)
    BY IncrementAt
  <1>4. Precedes(v, Increment(v, p))
    BY <1>1, <1>2 DEF Precedes
  <1>5. HappensBefore(v, Increment(v, p))
    BY <1>2, <1>4, HappensBeforeIsPrecedes
  <1>6. ASSUME p # q PROVE Concurrent(Increment(v, p), Increment(v, q))
    <2>1. /\ At(Increment(v, p), q) < At(Increment(v, q), q)
          /\ At(Increment(v, q), p) < At(Increment(v, p), p)
      BY <1>1, <1>2, <1>3, <1>6
    <2> QED BY <1>2, <1>3, <2>1, CausalOrder
  <1> QED BY <1>5, <1>6

LEMMA MergeAfterBoth ==
    ASSUME MaxUint \in Nat, NEW v \in VectorClock, NEW w \in VectorClock,
           Concurrent(v, w)
    PROVE  HappensBefore(v, Merge(v, w)) /\ HappensBefore(w, Merge(v, w))
  <1>1. \A id \in Node : At(v, id) \in Nat /\ At(w, id) \in Nat
    BY AtCounter
  <1>2. /\ \E id \in Node : At(v, id) < At(w, id)
        /\ \E id \in Node : At(w, id) < At(v, id)
    BY CausalOrder
  <1>3. /\ Merge(v, w) \in VectorClock
        /\ \A id \in Node : At(Merge(v, w), id) = IF At(v, id) >= At(w, id)
                                                  THEN At(v, id) ELSE At(w, id)
    BY MergeAt
  <1>4. Precedes(v, Merge(v, w)) /\ Precedes(w, Merge(v, w))
    BY <1>1, <1>2, <1>3 DEF Precedes
  <1> QED BY <1>3, <1>4, HappensBeforeIsPrecedes

(***************************************************************************)
(* "concurrent writes produce clocks that are neither HappensBefore nor    *)
(* equal" (version.go): a write is after the version it started from, and  *)
(* writes at two nodes from one version are reported as a conflict, which  *)
(* merging them resolves, until a counter reaches the largest uint64.      *)
(***************************************************************************)
THEOREM ConcurrentWrites ==
    ASSUME MaxUint \in Nat, NEW v \in ChunkVersion, NEW p \in Node, NEW q \in Node,
           At(v.clock, p) < MaxUint, At(v.clock, q) < MaxUint, p # q,
           NEW a, a = VersionIncrement(v, p), NEW b, b = VersionIncrement(v, q)
    PROVE  /\ VersionHappensBefore(v, a) /\ VersionHappensBefore(v, b)
           /\ VersionConcurrent(a, b)
           /\ VersionMerge(a, b) \in ChunkVersion
           /\ VersionHappensBefore(a, VersionMerge(a, b))
           /\ VersionHappensBefore(b, VersionMerge(a, b))
  <1>1. v.clock \in VectorClock
    BY DEF ChunkVersion
  <1>2. /\ a \in ChunkVersion /\ a.clock = Increment(v.clock, p)
        /\ b \in ChunkVersion /\ b.clock = Increment(v.clock, q)
    BY <1>1, IncrementAt DEF ChunkVersion, VersionIncrement
  <1>3. /\ HappensBefore(v.clock, a.clock) /\ HappensBefore(v.clock, b.clock)
        /\ Concurrent(a.clock, b.clock)
    BY <1>1, <1>2, ConcurrentIncrements
  <1>4. a.clock \in VectorClock /\ b.clock \in VectorClock
    BY <1>2 DEF ChunkVersion
  <1>5. /\ HappensBefore(a.clock, Merge(a.clock, b.clock))
        /\ HappensBefore(b.clock, Merge(a.clock, b.clock))
    BY <1>3, <1>4, MergeAfterBoth
  <1>6. VersionMerge(a, b) \in ChunkVersion /\ VersionMerge(a, b).clock = Merge(a.clock, b.clock)
    BY <1>2, <1>4, MergeAt DEF ChunkVersion, VersionMerge
  <1> QED BY <1>3, <1>5, <1>6 DEF VersionHappensBefore, VersionConcurrent

-----------------------------------------------------------------------------
(***************************************************************************)
(* The Lamport clock.  Until a timestamp wraps around, the clock is at     *)
(* least every timestamp issued and the value every Update began with.     *)
(***************************************************************************)
LamportType ==
    /\ counter \in Counter
    /\ call \in [Goroutine -> UpdateCall \cup {None}]
    /\ issued \subseteq Counter
    /\ wrapped \in BOOLEAN

Ahead ==
    ~wrapped => /\ \A t \in issued : t <= counter
                /\ \A g \in Goroutine : call[g] # None => call[g].since <= counter

LamportInv == LamportType /\ Ahead

LEMMA Plus1Counter ==
    ASSUME MaxUint \in Nat, NEW n \in Counter
    PROVE  Plus1(n) \in Counter /\ (Plus1(n) # 0 => Plus1(n) = n + 1)
  BY DEF Plus1, Counter

(* A swap that succeeds moves the clock past what was loaded and received. *)
LEMMA NextAdvances ==
    ASSUME MaxUint \in Nat, NEW c \in UpdateCall, c.cur # None, None \notin Counter
    PROVE  /\ next(c) \in Counter
           /\ next(c) # 0 => next(c) > c.cur /\ next(c) > c.received
  <1>1. c.received \in Counter /\ c.cur \in Counter
    BY DEF UpdateCall
  <1>2. /\ Plus1(c.received) \in Counter /\ (Plus1(c.received) # 0 => Plus1(c.received) = c.received + 1)
        /\ Plus1(c.cur) \in Counter /\ (Plus1(c.cur) # 0 => Plus1(c.cur) = c.cur + 1)
    BY <1>1, Plus1Counter
  <1> QED BY <1>1, <1>2 DEF next, Counter

LEMMA LamportStep ==
    ASSUME MaxUint \in Nat, None \notin Counter, None \notin UpdateCall, LamportInv, [Next]_vars
    PROVE  /\ LamportInv'
           /\ ~wrapped' =>
                /\ counter' >= counter
                /\ \A t \in issued' \ issued : \A s \in issued : s < t
                /\ \A g \in Goroutine :
                      call[g] # None /\ call'[g] = None =>
                          counter' > call[g].received /\ counter' > call[g].since
  <1> DEFINE Grows == ~wrapped' =>
                /\ counter' >= counter
                /\ \A t \in issued' \ issued : \A s \in issued : s < t
                /\ \A g \in Goroutine :
                      call[g] # None /\ call'[g] = None =>
                          counter' > call[g].received /\ counter' > call[g].since
  <1>0. /\ counter \in Nat /\ issued \subseteq Nat
        /\ \A g \in Goroutine : call[g] # None =>
               call[g] \in UpdateCall /\ call[g].since \in Nat /\ call[g].received \in Counter
    BY DEF LamportInv, LamportType, Counter, UpdateCall
  <1>1. ASSUME NEW g \in Goroutine, Tick(g) PROVE LamportInv' /\ Grows
    <2>1. Issue(Plus1(counter)) /\ call' = call
      BY <1>1 DEF Tick
    <2>2. Plus1(counter) \in Counter /\ (Plus1(counter) # 0 => Plus1(counter) = counter + 1)
      BY Plus1Counter DEF LamportInv, LamportType
    <2>3. LamportType'
      BY <2>1, <2>2 DEF Issue, LamportInv, LamportType
    <2>4. ~wrapped' => ~wrapped /\ counter' = counter + 1
      BY <2>1, <2>2 DEF Issue
    <2>5. Ahead'
      BY <1>0, <2>1, <2>4 DEF Issue, LamportInv, Ahead
    <2>6. Grows
      BY <1>0, <2>1, <2>4 DEF Issue, LamportInv, Ahead
    <2> QED BY <2>3, <2>5, <2>6 DEF LamportInv
  <1>2. ASSUME NEW g \in Goroutine, NEW r \in Counter, UpdateStart(g, r) PROVE LamportInv' /\ Grows
    <2> DEFINE c == [received |-> r, since |-> counter, cur |-> None]
    <2>1. call' = [call EXCEPT ![g] = c] /\ UNCHANGED <<counter, issued, wrapped>> /\ call[g] = None
      BY <1>2 DEF UpdateStart
    <2>2. c \in UpdateCall /\ c.since = counter
      BY DEF UpdateCall, LamportInv, LamportType
    <2>3. LamportType'
      BY <2>1, <2>2 DEF LamportInv, LamportType
    <2>4. Ahead' /\ Grows
      BY <1>0, <2>1, <2>2 DEF LamportInv, LamportType, Ahead
    <2> QED BY <2>3, <2>4 DEF LamportInv
  <1>3. ASSUME NEW g \in Goroutine, Load(g) PROVE LamportInv' /\ Grows
    <2>1. /\ call' = [call EXCEPT ![g].cur = counter] /\ UNCHANGED <<counter, issued, wrapped>>
          /\ call[g] \in UpdateCall
      BY <1>0, <1>3 DEF Load
    <2>2. /\ [call[g] EXCEPT !.cur = counter] \in UpdateCall
          /\ [call[g] EXCEPT !.cur = counter].since = call[g].since
      BY <2>1 DEF UpdateCall, LamportInv, LamportType
    <2>3. LamportType'
      BY <2>1, <2>2 DEF LamportInv, LamportType
    <2>4. Ahead' /\ Grows
      BY <1>0, <2>1, <2>2 DEF LamportInv, LamportType, Ahead
    <2> QED BY <2>3, <2>4 DEF LamportInv
  <1>4. ASSUME NEW g \in Goroutine, CompareAndSwap(g) PROVE LamportInv' /\ Grows
    <2>0. call[g] \in UpdateCall /\ call[g].cur # None
      BY <1>0, <1>4 DEF CompareAndSwap
    <2>1. CASE counter = call[g].cur
      <3>1. Issue(next(call[g])) /\ call' = [call EXCEPT ![g] = None]
        BY <1>4, <2>1 DEF CompareAndSwap
      <3>2. /\ next(call[g]) \in Counter
            /\ next(call[g]) # 0 => next(call[g]) > counter /\ next(call[g]) > call[g].received
        BY <2>0, <2>1, NextAdvances
      <3>3. LamportType'
        BY <3>1, <3>2 DEF Issue, LamportInv, LamportType
      <3>a. counter' = next(call[g]) /\ issued' = issued \cup {counter'}
            /\ (~wrapped' => ~wrapped /\ next(call[g]) # 0)
        BY <3>1 DEF Issue
      <3>b. counter' \in Nat
        BY <3>2, <3>a DEF Counter
      <3>4. ~wrapped' => ~wrapped /\ counter' > counter /\ counter' > call[g].received
        BY <3>2, <3>a
      <3>5. Ahead'
        BY <1>0, <3>1, <3>a, <3>b, <3>4 DEF LamportInv, LamportType, Ahead
      <3>6. Grows
        <4> SUFFICES ASSUME ~wrapped'
                     PROVE  /\ counter' >= counter
                            /\ \A t \in issued' \ issued : \A s \in issued : s < t
                            /\ \A k \in Goroutine :
                                  call[k] # None /\ call'[k] = None =>
                                      counter' > call[k].received /\ counter' > call[k].since
          OBVIOUS
        <4>1. counter' > counter /\ counter' > call[g].received
          BY <3>4
        <4>2. /\ \A t \in issued : t <= counter
              /\ call[g].since <= counter
          BY <1>4, <3>4 DEF LamportInv, Ahead, CompareAndSwap
        <4>3. \A k \in Goroutine : call[k] # None /\ call'[k] = None => k = g
          BY <3>1 DEF LamportInv, LamportType
        <4>4. \A t \in issued' \ issued : \A s \in issued : s < t
          BY <1>0, <3>a, <3>b, <4>1, <4>2
        <4>5. counter' > call[g].since
          BY <1>0, <1>4, <3>b, <4>1, <4>2 DEF CompareAndSwap
        <4> QED BY <1>0, <3>b, <4>1, <4>3, <4>4, <4>5
      <3> QED BY <3>3, <3>5, <3>6 DEF LamportInv
    <2>2. CASE counter # call[g].cur
      <3>1. /\ call' = [call EXCEPT ![g].cur = None] /\ UNCHANGED <<counter, issued, wrapped>>
        BY <1>4, <2>2 DEF CompareAndSwap
      <3>2. /\ [call[g] EXCEPT !.cur = None] \in UpdateCall
            /\ [call[g] EXCEPT !.cur = None].since = call[g].since
        BY <2>0 DEF UpdateCall
      <3>3. LamportType'
        BY <3>1, <3>2 DEF LamportInv, LamportType
      <3>4. Ahead' /\ Grows
        BY <1>0, <2>0, <3>1, <3>2 DEF LamportInv, LamportType, Ahead
      <3> QED BY <3>3, <3>4 DEF LamportInv
    <2> QED BY <2>1, <2>2
  <1>5. ASSUME UNCHANGED vars PROVE LamportInv' /\ Grows
    <2>1. UNCHANGED counter /\ UNCHANGED call /\ UNCHANGED issued /\ UNCHANGED wrapped
      BY <1>5 DEF vars
    <2> QED BY <1>0, <2>1 DEF LamportInv, LamportType, Ahead
  <1> HIDE DEF Grows
  <1>6. LamportInv' /\ Grows
    <2>1. CASE Next
      <3>1. PICK g \in Goroutine : \/ Tick(g) \/ Load(g) \/ CompareAndSwap(g)
                                   \/ \E received \in Counter : UpdateStart(g, received)
        BY <2>1 DEF Next
      <3> QED BY <3>1, <1>1, <1>2, <1>3, <1>4
    <2> QED BY <2>1, <1>5
  <1> QED BY <1>6 DEF Grows

(***************************************************************************)
(* Timestamps of one Lamport clock increase, for every number of           *)
(* goroutines and every interleaving of their loads and swaps.             *)
(***************************************************************************)
THEOREM LamportMonotone ==
    ASSUME MaxUint \in Nat, None \notin Counter, None \notin UpdateCall
    PROVE  Spec => TimestampsIncrease
  <1>1. Init => LamportInv
    <2> SUFFICES ASSUME Init PROVE LamportInv
      OBVIOUS
    <2>1. /\ counter = 0 /\ issued = {} /\ wrapped = FALSE
          /\ call = [g \in Goroutine |-> None]
      BY DEF Init
    <2>2. counter \in Counter
      BY <2>1 DEF Counter
    <2>3. LamportType
      BY <2>1, <2>2 DEF LamportType
    <2>4. Ahead
      BY <2>1 DEF Ahead
    <2> QED BY <2>3, <2>4 DEF LamportInv
  <1>2. LamportInv /\ [Next]_vars => LamportInv'
    BY LamportStep
  <1>3. LamportInv /\ [Next]_vars =>
          [~wrapped' =>
             /\ counter' >= counter
             /\ \A t \in issued' \ issued : \A s \in issued : s < t
             /\ \A g \in Goroutine :
                   call[g] # None /\ call'[g] = None =>
                       counter' > call[g].received /\ counter' > call[g].since]_vars
    BY LamportStep
  <1> QED BY <1>1, <1>2, <1>3, PTL DEF Spec, TimestampsIncrease

=============================================================================
