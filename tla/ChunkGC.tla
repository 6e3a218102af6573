------------------------------- MODULE ChunkGC -------------------------------
(***************************************************************************)
(* The garbage collector of internal/chunk/gc.go beside the chunk store it *)
(* sweeps.  Sweep works without a lock on the store: chunks are written,   *)
(* linked into the namespace, unlinked and deleted between any two of its  *)
(* steps.  Instead of times the model keeps ages, capped at Grace.         *)
(***************************************************************************)
EXTENDS ChunkStore

CONSTANTS
    Grace,       \* the grace period, in ticks of the clock
    MaxCrashes   \* bound: crashes of the chunk server

ASSUME GraceAssumption == Grace \in Nat \ {0} /\ MaxCrashes \in Nat

VARIABLES
    refs,        \* chunks the namespace refers to (external)
    orphanedAt,  \* age of a chunk's orphan timer; Unseen if it has none
    sweep,       \* the Sweep in progress
    crashes,
    quiet,       \* history: age of a chunk's file or, if later, of the last
                 \* time a sweep saw the chunk referenced
    revived      \* history: chunks DeleteChunk removed behind the collector's
                 \* back, until the collector drops their timer

gcVars == <<refs, orphanedAt, sweep, crashes, quiet, revived>>
vars == <<storeVars, gcVars>>

Unseen == Grace + 1

(***************************************************************************)
(* A sweep: the chunks still to list or to examine, those listed, those    *)
(* whose timer had run out at its now, the ticks since that now, and the   *)
(* chunk it is deleting.                                                   *)
(***************************************************************************)
noSweep == [pc |-> "idle", todo |-> {}, live |-> {}, expired |-> {}, elapsed |-> 0,
            cur |-> None]

Init ==
    /\ StoreInit
    /\ refs = {}
    /\ orphanedAt = [c \in Chunk |-> Unseen]
    /\ sweep = noSweep
    /\ crashes = 0
    /\ quiet = [c \in Chunk |-> 0] /\ revived = {}

Older(age) == IF age < Grace THEN age + 1 ELSE age

(* Time passes.                                                            *)
Tick ==
    /\ orphanedAt' = [c \in Chunk |-> Older(orphanedAt[c])]
    /\ quiet' = [c \in Chunk |-> Older(quiet[c])]
    /\ sweep' = IF sweep.pc = "idle" THEN sweep ELSE [sweep EXCEPT !.elapsed = Older(@)]
    /\ UNCHANGED <<storeVars, refs, crashes, revived>>

(* A step of a WriteChunk; a file that appears is not old yet.             *)
Store(w) ==
    /\ WriteStep(w)
    /\ quiet' = [c \in Chunk |-> IF disk[c] = "absent" /\ disk'[c] # "absent"
                                 THEN 0 ELSE quiet[c]]
    /\ UNCHANGED <<refs, orphanedAt, sweep, crashes, revived>>

Delete(c) ==
    /\ DeleteChunk(c)
    /\ revived' = IF disk[c] # "absent" /\ (orphanedAt[c] # Unseen \/ c \in sweep.live)
                  THEN revived \cup {c} ELSE revived
    /\ UNCHANGED <<refs, orphanedAt, sweep, crashes, quiet>>

(* Files are finalised with chunks that were acknowledged, and deleted.    *)
Link(c) ==
    /\ c \in acked
    /\ refs' = refs \cup {c}
    /\ UNCHANGED <<storeVars, orphanedAt, sweep, crashes, quiet, revived>>

Unlink(c) ==
    /\ refs' = refs \ {c}
    /\ UNCHANGED <<storeVars, orphanedAt, sweep, crashes, quiet, revived>>

(* The server restarts; the collector's timers were in memory.  A cancelled *)
(* context ends a sweep the same way: it is cancelled only with GC.Run.     *)
Crash ==
    /\ crashes < MaxCrashes
    /\ crashes' = crashes + 1
    /\ StoreCrash
    /\ orphanedAt' = [c \in Chunk |-> Unseen]
    /\ sweep' = noSweep
    /\ revived' = {}
    /\ UNCHANGED <<refs, quiet>>

-----------------------------------------------------------------------------
(* Sweep.  ListChunks walks the directories while chunks come and go.      *)
SweepStart ==
    /\ sweep.pc = "idle"
    /\ sweep' = [noSweep EXCEPT !.pc = "list", !.todo = Chunk]
    /\ UNCHANGED <<storeVars, refs, orphanedAt, crashes, quiet, revived>>

ListChunk(c) ==
    /\ sweep.pc = "list" /\ c \in sweep.todo
    /\ sweep' = [sweep EXCEPT !.todo = @ \ {c},
                              !.live = IF disk[c] # "absent" THEN @ \cup {c} ELSE @]
    /\ UNCHANGED <<storeVars, refs, orphanedAt, crashes, quiet, revived>>

(* The walk has failed: Sweep returns the error.                           *)
ListFails ==
    /\ sweep.pc = "list" /\ sweep.todo = {}
    /\ sweep' = noSweep
    /\ UNCHANGED <<storeVars, refs, orphanedAt, crashes, quiet, revived>>

(* now := g.now(), after the walk.                                         *)
ReadClock ==
    /\ sweep.pc = "list" /\ sweep.todo = {}
    /\ sweep' = [sweep EXCEPT !.pc = "check", !.todo = sweep.live,
                              !.expired = {c \in Chunk : orphanedAt[c] = Grace},
                              !.elapsed = 0]
    /\ UNCHANGED <<storeVars, refs, orphanedAt, crashes, quiet, revived>>

(* A referenced chunk loses its orphan timer.                              *)
CheckReferenced_TimerKept(c) ==
    /\ sweep.pc = "check" /\ c \in sweep.todo
    /\ c \in refs
    /\ quiet' = [quiet EXCEPT ![c] = 0]
    /\ sweep' = [sweep EXCEPT !.todo = @ \ {c}]
    /\ UNCHANGED <<storeVars, refs, orphanedAt, revived, crashes>>

CheckReferenced(c) ==
    /\ sweep.pc = "check" /\ c \in sweep.todo
    /\ c \in refs
    /\ orphanedAt' = [orphanedAt EXCEPT ![c] = Unseen]
    /\ quiet' = [quiet EXCEPT ![c] = 0]
    /\ revived' = revived \ {c}
    /\ sweep' = [sweep EXCEPT !.todo = @ \ {c}]
    /\ UNCHANGED <<storeVars, refs, crashes>>

(* The first time an orphan is seen its timer starts, at the sweep's now.  *)
CheckOrphan_TimerRestarted(c) ==
    /\ sweep.pc = "check" /\ c \in sweep.todo
    /\ c \notin refs
    /\ orphanedAt' = [orphanedAt EXCEPT ![c] = sweep.elapsed]
    /\ sweep' = IF c \in sweep.expired
                THEN [sweep EXCEPT !.todo = @ \ {c}, !.pc = "delete", !.cur = c]
                ELSE [sweep EXCEPT !.todo = @ \ {c}]
    /\ UNCHANGED <<storeVars, refs, crashes, quiet, revived>>

CheckOrphan(c) ==
    /\ sweep.pc = "check" /\ c \in sweep.todo
    /\ c \notin refs
    /\ orphanedAt' = [orphanedAt EXCEPT ![c] = IF @ = Unseen THEN sweep.elapsed ELSE @]
    /\ sweep' = IF c \in sweep.expired
                THEN [sweep EXCEPT !.todo = @ \ {c}, !.pc = "delete", !.cur = c]
                ELSE [sweep EXCEPT !.todo = @ \ {c}]
    /\ UNCHANGED <<storeVars, refs, crashes, quiet, revived>>

(* DeleteChunk of an expired orphan, without a further look at refs.       *)
Collect(c) ==
    /\ sweep.pc = "delete" /\ c = sweep.cur
    /\ RemoveFile(c)
    /\ sweep' = [sweep EXCEPT !.pc = "forget"]
    /\ UNCHANGED <<refs, orphanedAt, crashes, quiet, revived>>

(* It fails: the timer stays for the next sweep.                           *)
CollectFails ==
    /\ sweep.pc = "delete"
    /\ sweep' = [sweep EXCEPT !.pc = "check", !.cur = None]
    /\ UNCHANGED <<storeVars, refs, orphanedAt, crashes, quiet, revived>>

Forget(S) ==
    /\ orphanedAt' = [c \in Chunk |-> IF c \in S THEN Unseen ELSE orphanedAt[c]]
    /\ revived' = revived \ S

ForgetCollected ==
    /\ sweep.pc = "forget"
    /\ Forget({sweep.cur})
    /\ sweep' = [sweep EXCEPT !.pc = "check", !.cur = None]
    /\ UNCHANGED <<storeVars, refs, crashes, quiet>>

(* The timers of chunks that were not listed go.                           *)
SweepEnd ==
    /\ sweep.pc = "check" /\ sweep.todo = {}
    /\ Forget(Chunk \ sweep.live)
    /\ sweep' = noSweep
    /\ UNCHANGED <<storeVars, refs, crashes, quiet>>

SweepStep ==
    \/ SweepStart
    \/ \E c \in Chunk : ListChunk(c)
    \/ ListFails
    \/ ReadClock
    \/ \E c \in Chunk : CheckReferenced(c)
    \/ \E c \in Chunk : CheckOrphan(c)
    \/ \E c \in Chunk : Collect(c)
    \/ CollectFails
    \/ ForgetCollected
    \/ SweepEnd

Next ==
    \/ Tick
    \/ \E w \in Writer : Store(w)
    \/ \E c \in Chunk : Delete(c)
    \/ \E c \in Chunk : Link(c)
    \/ \E c \in Chunk : Unlink(c)
    \/ Crash
    \/ SweepStep

Spec == Init /\ [][Next]_vars

(***************************************************************************)
(* Fairness: the clock runs, GC.Run starts sweeps and a sweep goes on; a   *)
(* walk and a removal that are tried again and again succeed some time.    *)
(***************************************************************************)
FairSpec ==
    /\ Spec
    /\ WF_vars(Tick)
    /\ WF_vars(SweepStep)
    /\ SF_vars(ReadClock)
    /\ \A c \in Chunk : SF_vars(Collect(c))

-----------------------------------------------------------------------------
(***************************************************************************)
(* The variables have their types, and a WriteChunk that has returned      *)
(* holds nothing (StoreTypeOK).                                            *)
(***************************************************************************)
TypeOK ==
    /\ StoreTypeOK
    /\ refs \subseteq Chunk /\ revived \subseteq Chunk
    /\ orphanedAt \in [Chunk -> 0..Unseen]
    /\ quiet \in [Chunk -> 0..Grace]
    /\ crashes \in 0..MaxCrashes
    /\ sweep \in [pc: {"idle", "list", "check", "delete", "forget"},
                   todo: SUBSET Chunk, live: SUBSET Chunk, expired: SUBSET Chunk,
                   elapsed: 0..Grace, cur: Chunk \cup {None}]

(***************************************************************************)
(* "An unreferenced chunk is only deleted after it has been observed       *)
(* orphaned for at least the grace period" (gc.go): when a sweep removes a *)
(* file, the whole grace period has passed since the file appeared and     *)
(* since a sweep last saw the chunk referenced.  The exception is a chunk  *)
(* that DeleteChunk removed and a write brought back before the collector  *)
(* noticed: it inherits the old timer.                                     *)
(***************************************************************************)
GraceHonoured ==
    [][\A c \in Chunk :
         sweep.pc = "delete" /\ sweep'.pc = "forget" /\ sweep.cur = c =>
             quiet[c] = Grace \/ c \in revived \/ disk[c] = "absent"]_vars

(***************************************************************************)
(* A chunk that stays unreferenced and is not written any more disappears  *)
(* from the disk, whatever sweeps failed and whenever the server crashed   *)
(* before.                                                                 *)
(***************************************************************************)
OrphansCollected ==
    \A c \in Chunk :
        <>[](c \notin refs /\ c \notin writing) => <>[](disk[c] = "absent")

=============================================================================
