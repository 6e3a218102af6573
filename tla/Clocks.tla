------------------------------- MODULE Clocks -------------------------------
(***************************************************************************)
(* The logical clocks (internal/clock) and the chunk versions built on     *)
(* them (internal/metadata/version.go): vector clocks as operators on      *)
(* partial maps, and one Lamport clock shared by goroutines, whose Update  *)
(* is a loop around a compare-and-swap.                                    *)
(***************************************************************************)
EXTENDS Naturals

CONSTANTS
    Node,        \* node IDs
    ChunkID,
    Goroutine,
    MaxUint,     \* the largest uint64
    None

-----------------------------------------------------------------------------
(***************************************************************************)
(* Vector clocks: maps from some nodes to counters.  A missing key is 0.   *)
(***************************************************************************)
Counter == 0..MaxUint

VectorClock == UNION {[D -> Counter] : D \in SUBSET Node}

At(vc, id) == IF id \in DOMAIN vc THEN vc[id] ELSE 0

New == [id \in {} |-> 0]

(* Unsigned addition wraps around.                                         *)
Plus1(n) == IF n = MaxUint THEN 0 ELSE n + 1

Increment(vc, id) ==
    [j \in DOMAIN vc \cup {id} |-> IF j = id THEN Plus1(At(vc, id)) ELSE vc[j]]

(* Only a counter that is larger in other is written.                      *)
Larger(vc, other) == {id \in DOMAIN other : other[id] > At(vc, id)}

Merge(vc, other) ==
    [id \in DOMAIN vc \cup Larger(vc, other) |->
        IF id \in Larger(vc, other) THEN other[id] ELSE vc[id]]

HappensBefore(vc, other) ==
    /\ \A id \in DOMAIN vc : vc[id] <= At(other, id)
    /\ \/ \E id \in DOMAIN vc : vc[id] < At(other, id)
       \/ \E id \in DOMAIN other : id \notin DOMAIN vc /\ other[id] > 0

Equal(vc, other) == \A id \in DOMAIN vc \cup DOMAIN other : At(vc, id) = At(other, id)

Concurrent(vc, other) ==
    ~HappensBefore(vc, other) /\ ~HappensBefore(other, vc) /\ ~Equal(vc, other)

(* The order the comment of HappensBefore defines, over all nodes.         *)
Precedes(vc, other) ==
    /\ \A id \in Node : At(vc, id) <= At(other, id)
    /\ \E id \in Node : At(vc, id) < At(other, id)

(***************************************************************************)
(* Chunk versions: a write increments the counter of its node.             *)
(***************************************************************************)
ChunkVersion == [chunkID : ChunkID, clock : VectorClock]

NewChunkVersion(id) == [chunkID |-> id, clock |-> New]

VersionIncrement(v, id) == [v EXCEPT !.clock = Increment(@, id)]

VersionMerge(v, other) == [v EXCEPT !.clock = Merge(@, other.clock)]

VersionHappensBefore(v, other) == HappensBefore(v.clock, other.clock)

VersionConcurrent(v, other) == Concurrent(v.clock, other.clock)

VersionEqual(v, other) == Equal(v.clock, other.clock)

-----------------------------------------------------------------------------
(***************************************************************************)
(* A Lamport clock and the goroutines that call Tick and Update on it.     *)
(***************************************************************************)
VARIABLES
    counter,
    call,      \* call[g]: None, or the Update g is in: received, and cur once loaded
    issued,    \* history: the timestamps that were returned
    wrapped    \* history: a timestamp has wrapped around to 0

vars == <<counter, call, issued, wrapped>>

UpdateCall == [received : Counter, since : Counter, cur : Counter \cup {None}]

Init ==
    /\ counter = 0
    /\ call = [g \in Goroutine |-> None]
    /\ issued = {}
    /\ wrapped = FALSE

(* A call returns timestamp t, the clock's new value.                      *)
Issue(t) ==
    /\ counter' = t
    /\ issued' = issued \cup {t}
    /\ wrapped' = (wrapped \/ t = 0)

Tick(g) ==
    /\ call[g] = None
    /\ Issue(Plus1(counter))
    /\ UNCHANGED call

(* since is history: the clock when Update was called.                     *)
UpdateStart(g, received) ==
    /\ call[g] = None
    /\ call' = [call EXCEPT ![g] = [received |-> received, since |-> counter, cur |-> None]]
    /\ UNCHANGED <<counter, issued, wrapped>>

Load(g) ==
    /\ call[g] # None /\ call[g].cur = None
    /\ call' = [call EXCEPT ![g].cur = counter]
    /\ UNCHANGED <<counter, issued, wrapped>>

next(c) == IF c.received >= c.cur THEN Plus1(c.received) ELSE Plus1(c.cur)

CompareAndSwap(g) ==
    /\ call[g] # None /\ call[g].cur # None
    /\ IF counter = call[g].cur
       THEN /\ Issue(next(call[g]))
            /\ call' = [call EXCEPT ![g] = None]
       ELSE /\ call' = [call EXCEPT ![g].cur = None]
            /\ UNCHANGED <<counter, issued, wrapped>>

Next ==
    \E g \in Goroutine :
        \/ Tick(g) \/ Load(g) \/ CompareAndSwap(g)
        \/ \E received \in Counter : UpdateStart(g, received)

Spec == Init /\ [][Next]_vars

-----------------------------------------------------------------------------
(***************************************************************************)
(* "advances monotonically" (lamport.go): while nothing wraps around, the  *)
(* clock never goes back, and whatever a call returns is larger than every *)
(* timestamp returned before it and than the one it received, however the  *)
(* loads and swaps of the goroutines interleave.                           *)
(***************************************************************************)
TimestampsIncrease ==
    [][~wrapped' =>
         /\ counter' >= counter
         /\ \A t \in issued' \ issued : \A s \in issued : s < t
         /\ \A g \in Goroutine :
               call[g] # None /\ call'[g] = None =>
                   counter' > call[g].received /\ counter' > call[g].since]_vars

=============================================================================
