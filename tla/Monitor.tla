------------------------------- MODULE Monitor -------------------------------
(***************************************************************************)
(* Replica tracking on the master: the chunk map of                        *)
(* internal/metadata/chunkmap.go, the heartbeat monitor of heartbeat.go    *)
(* that evicts silent chunk servers from it, and the apply loop of         *)
(* internal/master/server.go that records the replicas of finalised files. *)
(* The three run in goroutines of their own; the monitor's mutex and the   *)
(* chunk map's are taken and released separately.  Instead of times the    *)
(* model keeps the age of each node's last heartbeat, capped just above    *)
(* the timeout.                                                            *)
(***************************************************************************)
EXTENDS Naturals, FiniteSets

CONSTANTS
    NumNodes,    \* chunk servers, numbered in the order of the master's list
    Factor,      \* the replication factor
    Timeout,     \* the dead timeout, in ticks of the clock
    Chunk,
    Steady       \* nodes whose heartbeats are never more than Timeout apart

Node == 1..NumNodes

ASSUME MonitorAssumption ==
    /\ NumNodes \in Nat /\ Steady \subseteq Node
    /\ Factor \in Nat /\ Timeout \in Nat

VARIABLES
    up,          \* nodes that run and reach the master (external)
    lastSeen,    \* age of each node's last heartbeat; Never if there is none
    locations,   \* the chunk map; a chunk without a replica has no entry
    recording,   \* <<chunk, node>> pairs recordChunkLocations has yet to add
    sweep,       \* the Sweep in progress: control point, nodes to evict,
                 \* and (history) those found dead and not recorded since
    tasks,       \* what the last finished sweep handed to onTasks
    unwatched,   \* history: replicas recorded on a node without a heartbeat
    shrunk,      \* history: chunks that lost a replica to an eviction since
                 \* they were last recorded, while no recording was going on
    reported     \* history: chunks handed to onTasks since then

mapVars == <<locations, recording, unwatched, shrunk, reported>>
vars == <<up, lastSeen, sweep, tasks, mapVars>>

Dead  == Timeout + 1
Never == Timeout + 2

noSweep == [pc |-> "idle", dead |-> {}, gone |-> {}]

Init ==
    /\ up = {}
    /\ lastSeen = [n \in Node |-> Never]
    /\ locations = [c \in Chunk |-> {}]
    /\ recording = {}
    /\ sweep = noSweep /\ tasks = {}
    /\ unwatched = {} /\ shrunk = {} /\ reported = {}

(* Time passes, but not past the next heartbeat of a steady node.          *)
Tick ==
    /\ \A n \in Steady : lastSeen[n] # Timeout
    /\ lastSeen' = [n \in Node |-> IF lastSeen[n] < Dead THEN lastSeen[n] + 1 ELSE lastSeen[n]]
    /\ UNCHANGED <<up, sweep, tasks, mapVars>>

(* A chunk server starts, stops or is cut off.                             *)
Start(n) ==
    /\ n \notin up
    /\ up' = up \cup {n}
    /\ UNCHANGED <<lastSeen, sweep, tasks, mapVars>>

Stop(n) ==
    /\ n \in up \ Steady
    /\ up' = up \ {n}
    /\ UNCHANGED <<lastSeen, sweep, tasks, mapVars>>

RecordHeartbeat(n) == lastSeen' = [lastSeen EXCEPT ![n] = 0]

(* The master serves a heartbeat of n; the chunk count is only displayed.  *)
Heartbeat(n) ==
    /\ RecordHeartbeat(n)
    /\ UNCHANGED <<up, sweep, tasks, mapVars>>

(* heartbeatLoop sends one at once and at every tick of its interval; one  *)
(* that fails is logged and forgotten, and the next tick sends another.    *)
Beat(n) == n \in up /\ Heartbeat(n)

-----------------------------------------------------------------------------
(* The first Factor nodes, or all of them when there are fewer.            *)
placement == {n \in Node : n <= Factor}

(* apply of a finalize: recordChunkLocations, one AddLocation at a time.   *)
Finalize(cs) ==
    /\ recording = {}
    /\ recording' = cs \X placement
    /\ UNCHANGED <<up, lastSeen, sweep, tasks, locations, unwatched, shrunk, reported>>

AddLocation(c, n) ==
    /\ <<c, n>> \in recording
    /\ recording' = recording \ {<<c, n>>}
    /\ locations' = [locations EXCEPT ![c] = @ \cup {n}]
    /\ unwatched' = IF lastSeen[n] = Never THEN unwatched \cup {<<c, n>>} ELSE unwatched
    /\ shrunk' = shrunk \ {c} /\ reported' = reported \ {c}
    /\ sweep' = [sweep EXCEPT !.gone = @ \ {n}]
    /\ UNCHANGED <<up, lastSeen, tasks>>

-----------------------------------------------------------------------------
(* Sweep, under the monitor's mutex: who has been silent too long.         *)
TimedOut_AtTimeout(n) == lastSeen[n] \in {Timeout, Dead}

TimedOut(n) == lastSeen[n] = Dead

FoundDead_FirstOnly(dead) ==
    LET first == CHOOSE n \in Node : dead # {} => n \in dead
    IN  IF dead = {} THEN noSweep ELSE [pc |-> "evict", dead |-> {first}, gone |-> {first}]

FoundDead(dead) ==
    IF dead = {} THEN noSweep ELSE [pc |-> "evict", dead |-> dead, gone |-> dead]

SweepStart ==
    /\ sweep.pc = "idle"
    /\ LET dead == {n \in Node : TimedOut(n)} IN
        /\ lastSeen' = [n \in Node |-> IF n \in dead THEN Never ELSE lastSeen[n]]
        /\ sweep' = FoundDead(dead)
    /\ tasks' = {}
    /\ UNCHANGED <<up, mapVars>>

(* RemoveNode of one of them, under the chunk map's mutex.                 *)
RemoveNode(n) ==
    /\ sweep.pc = "evict" /\ n \in sweep.dead
    /\ locations' = [c \in Chunk |-> locations[c] \ {n}]
    /\ shrunk' = shrunk \cup {c \in Chunk : n \in locations[c] /\ recording = {}}
    /\ reported' = reported \ {c \in Chunk : n \in locations[c]}
    /\ unwatched' = {r \in unwatched : r[2] # n}
    /\ sweep' = [sweep EXCEPT !.dead = @ \ {n}]
    /\ UNCHANGED <<up, lastSeen, tasks, recording>>

(* UnderReplicated and the tasks made of it.                               *)
below_OneLess(n) == n < Factor - 1

below(n) == n < Factor

UnderReplicated == {c \in Chunk : locations[c] # {} /\ below(Cardinality(locations[c]))}

EvictionsDone_NotAwaited == TRUE

EvictionsDone == sweep.dead = {}

SweepEnd ==
    /\ sweep.pc = "evict" /\ EvictionsDone
    /\ tasks' = {[chunk |-> c, sources |-> locations[c],
                  need |-> Factor - Cardinality(locations[c])] : c \in UnderReplicated}
    /\ reported' = reported \cup UnderReplicated
    /\ sweep' = noSweep
    /\ UNCHANGED <<up, lastSeen, locations, recording, unwatched, shrunk>>

SweepStep == SweepStart \/ (\E n \in Node : RemoveNode(n)) \/ SweepEnd

Next ==
    \/ Tick
    \/ \E n \in Node : Start(n)
    \/ \E n \in Node : Stop(n)
    \/ \E n \in Node : Beat(n)
    \/ \E cs \in SUBSET Chunk \ {{}} : Finalize(cs)
    \/ \E c \in Chunk, n \in Node : AddLocation(c, n)
    \/ SweepStep

Spec == Init /\ [][Next]_vars

(***************************************************************************)
(* Fairness: the clock runs, steady nodes send their heartbeats, Run       *)
(* starts sweeps and a sweep goes on.                                      *)
(***************************************************************************)
FairSpec ==
    /\ Spec
    /\ WF_vars(Tick)
    /\ \A n \in Steady : WF_vars(Beat(n)) /\ WF_vars(Start(n))
    /\ WF_vars(SweepStep)

-----------------------------------------------------------------------------
(***************************************************************************)
(* A node whose heartbeats come in time never loses a replica: Sweep uses  *)
(* the same boundary as IsAlive, and what a sweep evicts later is what it  *)
(* found silent.                                                           *)
(***************************************************************************)
SteadyKept ==
    [][\A n \in Steady, c \in Chunk : n \in locations[c] => n \in locations'[c]]_vars

(***************************************************************************)
(* Every chunk that an eviction left with too few replicas, and at least   *)
(* one, has been handed over for re-replication when the sweep is over.    *)
(* Chunks whose replicas are being recorded during the eviction are not    *)
(* covered.                                                                *)
(***************************************************************************)
EvictionsReported ==
    sweep.pc = "idle" =>
        \A c \in shrunk : Cardinality(locations[c]) \in 1..(Factor - 1) => c \in reported

(***************************************************************************)
(* The sources a sweep offers for a chunk are not among the nodes it has   *)
(* just found dead, unless a replica was recorded on them meanwhile; there *)
(* is at least one, and the need completes them to the factor.             *)
(***************************************************************************)
SourcesNotDead ==
    [][sweep.pc = "evict" /\ sweep'.pc = "idle" =>
         \A t \in tasks' :
            /\ t.sources # {} /\ t.sources \cap sweep.gone = {}
            /\ Cardinality(t.sources) + t.need = Factor]_vars

(***************************************************************************)
(* A node that stays away for good is declared dead, and every replica     *)
(* recorded on it is evicted, except those recorded while the monitor had  *)
(* no heartbeat of the node: nothing ever evicts these.                    *)
(***************************************************************************)
SilentEvicted ==
    \A n \in Node :
        <>[](n \notin up /\ recording = {}) =>
            <>[](/\ lastSeen[n] = Never
                 /\ \A c \in Chunk : n \in locations[c] => <<c, n>> \in unwatched)

=============================================================================
