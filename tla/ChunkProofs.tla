----------------------------- MODULE ChunkProofs -----------------------------
(***************************************************************************)
(* The chunk store keeps its promises beside the collector, for every set  *)
(* of chunks and any number of concurrent writers, with failing file       *)
(* operations, deletions and crashes anywhere.                             *)
(***************************************************************************)
EXTENDS ChunkGC, FiniteSetTheorems, TLAPS

(* A call in WriteChunk has registered its chunk, and no other call has.   *)
Registered ==
    /\ \A w \in Writer : writer[w].c # None => writer[w].c \in writing
    /\ \A c \in writing : \E w \in Writer : writer[w].c = c
    /\ \A v, w \in Writer : writer[v].c = writer[w].c /\ writer[v].c # None => v = w

(* Only a synced temporary file is renamed.                                *)
SyncedBeforeRename ==
    \A w \in Writer : /\ writer[w].pc = "rename" => writer[w].tmp = "whole"
                      /\ writer[w].pc # "idle" => writer[w].c \in Chunk

(* A call about to return success has its chunk on disk, unless the chunk  *)
(* was deleted meanwhile.                                                  *)
ResultOnDisk ==
    \A w \in Writer :
        writer[w].pc = "return" /\ writer[w].ok /\ ~writer[w].raced => disk[writer[w].c] = "whole"

DiskWhole == \A c \in Chunk : disk[c] \in {"absent", "whole"}

StoreInv ==
    StoreTypeOK /\ Registered /\ SyncedBeforeRename /\ ResultOnDisk /\ DiskWhole /\ AckedOnDisk

Pc == {"idle", "stat", "create", "write", "sync", "rename", "return"}

Tmp == {"none", "empty", "unsynced", "whole"}

CallRecord == [pc: Pc, c: Chunk \cup {None}, tmp: Tmp, ok: BOOLEAN, raced: BOOLEAN]

(* A new store, with an empty directory, satisfies the invariant.          *)
LEMMA StoreInvInit == StoreInit => StoreInv
  <1> SUFFICES ASSUME StoreInit PROVE StoreInv
    OBVIOUS
  <1>1. noCall \in CallRecord /\ noCall.c = None /\ noCall.pc = "idle"
    BY DEF noCall, Call, CallRecord, Pc, Tmp
  <1>2. \A w \in Writer : writer[w] = noCall
    BY DEF StoreInit
  <1>3. StoreTypeOK
    BY <1>1 DEF StoreInit, StoreTypeOK, CallRecord, Pc, Tmp
  <1>4. Registered /\ SyncedBeforeRename /\ ResultOnDisk
    BY <1>1, <1>2 DEF StoreInit, Registered, SyncedBeforeRename, ResultOnDisk
  <1>5. DiskWhole /\ AckedOnDisk
    BY DEF StoreInit, DiskWhole, AckedOnDisk
  <1> QED BY <1>3, <1>4, <1>5 DEF StoreInv

(***************************************************************************)
(* A call moves on to pc with a temporary file tmp and a result ok, and    *)
(* keeps its chunk: what Stat, CreateTemp, WriteTemp, SyncTemp and Rename  *)
(* have in common.                                                         *)
(***************************************************************************)
Moves(w, pc, tmp, ok) ==
    /\ writer[w].pc # "idle"
    /\ writer' = [writer EXCEPT ![w] = [@ EXCEPT !.pc = pc, !.tmp = tmp, !.ok = ok]]
    /\ UNCHANGED <<writing, acked, early>>

(* Such a move keeps the invariant, if a rename has a synced file and a     *)
(* success has its chunk on disk.                                           *)
LEMMA MovesInv ==
    ASSUME StoreInv, NEW w \in Writer,
           NEW pc \in Pc \ {"idle"}, NEW tmp \in Tmp, NEW ok \in BOOLEAN,
           Moves(w, pc, tmp, ok),
           disk' = disk \/ disk' = [disk EXCEPT ![writer[w].c] = "whole"],
           pc = "rename" => tmp = "whole",
           pc = "return" /\ ok => disk'[writer[w].c] = "whole"
    PROVE  StoreInv'
  <1> USE DEF StoreInv
  <1>1. writer \in [Writer -> CallRecord]
    BY DEF StoreTypeOK, CallRecord, Pc, Tmp
  <1>2. writer[w].c \in Chunk
    BY DEF SyncedBeforeRename, Moves
  <1>3. /\ writer' \in [Writer -> CallRecord]
        /\ \A v \in Writer : writer'[v].c = writer[v].c /\ writer'[v].raced = writer[v].raced
        /\ \A v \in Writer : v # w => writer'[v] = writer[v]
        /\ writer'[w].pc = pc /\ writer'[w].tmp = tmp /\ writer'[w].ok = ok
    BY <1>1 DEF Moves, CallRecord
  <1>4. /\ disk' \in [Chunk -> {"absent", "unsynced", "whole", "torn"}]
        /\ \A c \in Chunk : disk'[c] = disk[c] \/ disk'[c] = "whole"
    BY <1>2 DEF StoreTypeOK
  <1>5. \A v \in Writer : writer'[v].pc = "idle" => writer'[v] = noCall
    BY <1>3 DEF StoreTypeOK
  <1>6. StoreTypeOK'
    <2>1. writing' \subseteq Chunk /\ acked' \subseteq Chunk /\ early' \subseteq Chunk
      BY DEF StoreTypeOK, Moves
    <2> QED BY <1>3, <1>4, <1>5, <2>1 DEF StoreTypeOK, CallRecord, Pc, Tmp
  <1>7. Registered'
    BY <1>3 DEF Registered, Moves
  <1>8. SyncedBeforeRename'
    BY <1>2, <1>3 DEF SyncedBeforeRename
  <1>9. ResultOnDisk'
    <2> SUFFICES ASSUME NEW v \in Writer, writer'[v].pc = "return", writer'[v].ok, ~writer'[v].raced
                 PROVE  disk'[writer'[v].c] = "whole"
      BY DEF ResultOnDisk
    <2>1. CASE v = w
      BY <1>3, <2>1
    <2>2. CASE v # w
      <3>1. writer[v].c \in Chunk /\ disk[writer[v].c] = "whole"
        BY <1>3, <2>2 DEF ResultOnDisk, SyncedBeforeRename
      <3> QED BY <1>3, <1>4, <3>1
    <2> QED BY <2>1, <2>2
  <1>10. DiskWhole' /\ AckedOnDisk'
    BY <1>4 DEF DiskWhole, AckedOnDisk, Moves, StoreTypeOK
  <1> QED BY <1>6, <1>7, <1>8, <1>9, <1>10

(* Each file operation of WriteChunk is such a move, whether it fails or not. *)
LEMMA StepInv ==
    ASSUME StoreInv, NEW w \in Writer,
           Stat(w) \/ CreateTemp(w) \/ WriteTemp(w) \/ SyncTemp(w) \/ Rename(w)
    PROVE  StoreInv'
  <1>1. writer \in [Writer -> CallRecord]
    BY DEF StoreInv, StoreTypeOK, CallRecord, Pc, Tmp
  <1>2. /\ writer[w] \in CallRecord /\ writer[w].tmp \in Tmp /\ writer[w].ok \in BOOLEAN
        /\ writer[w] = [pc |-> writer[w].pc, c |-> writer[w].c, tmp |-> writer[w].tmp,
                        ok |-> writer[w].ok, raced |-> writer[w].raced]
    BY <1>1 DEF CallRecord
  <1>3. ASSUME NEW pc \in Pc, Goto(w, pc)
        PROVE  writer' = [writer EXCEPT ![w] = [@ EXCEPT !.pc = pc, !.tmp = writer[w].tmp,
                                                         !.ok = writer[w].ok]]
    BY <1>1, <1>2, <1>3 DEF Goto, CallRecord
  <1>4. ASSUME NEW ok \in BOOLEAN, Result(w, ok)
        PROVE  writer' = [writer EXCEPT ![w] = [@ EXCEPT !.pc = "return", !.tmp = writer[w].tmp,
                                                         !.ok = ok]]
    BY <1>1, <1>2, <1>4 DEF Result, CallRecord
  <1>5. ASSUME NEW pc \in Pc, NEW tmp \in Tmp,
               writer' = [writer EXCEPT ![w].pc = pc, ![w].tmp = tmp]
        PROVE  writer' = [writer EXCEPT ![w] = [@ EXCEPT !.pc = pc, !.tmp = tmp,
                                                         !.ok = writer[w].ok]]
    BY <1>1, <1>2, <1>5 DEF CallRecord
  <1>6. ASSUME writer[w].pc # "idle", UNCHANGED <<disk, writing, acked, early>>,
               Result(w, FALSE)
        PROVE  StoreInv'
    <2>1. Moves(w, "return", writer[w].tmp, FALSE)
      BY <1>4, <1>6 DEF Moves
    <2> QED BY <1>2, <1>6, <2>1, MovesInv DEF Pc
  <1>7. CASE Stat(w)
    <2>1. writer[w].pc # "idle" /\ UNCHANGED <<disk, writing, acked, early>>
      BY <1>7 DEF Stat
    <2>2. CASE disk[writer[w].c] # "absent"
      <3>1. Moves(w, "return", writer[w].tmp, TRUE)
        BY <1>4, <1>7, <2>1, <2>2 DEF Stat, Moves
      <3>2. disk'[writer[w].c] = "whole"
        BY <2>1, <2>2 DEF StoreInv, SyncedBeforeRename, DiskWhole
      <3> QED BY <1>2, <2>1, <3>1, <3>2, MovesInv DEF Pc
    <2>3. CASE disk[writer[w].c] = "absent"
      <3>1. Goto(w, "create")
        BY <1>7, <2>3 DEF Stat
      <3>2. Moves(w, "create", writer[w].tmp, writer[w].ok)
        BY <1>3, <2>1, <3>1 DEF Moves, Pc
      <3> QED BY <1>2, <2>1, <3>2, MovesInv DEF Pc
    <2> QED BY <2>2, <2>3
  <1>8. CASE CreateTemp(w)
    <2>1. writer[w].pc # "idle" /\ UNCHANGED <<disk, writing, acked, early>>
      BY <1>8 DEF CreateTemp
    <2>2. CASE writer' = [writer EXCEPT ![w].pc = "write", ![w].tmp = "empty"]
      <3>1. Moves(w, "write", "empty", writer[w].ok)
        BY <1>5, <2>1, <2>2 DEF Moves, Pc, Tmp
      <3> QED BY <1>2, <2>1, <3>1, MovesInv DEF Pc, Tmp
    <2> QED BY <1>6, <1>8, <2>1, <2>2 DEF CreateTemp
  <1>9. CASE WriteTemp(w)
    <2>1. writer[w].pc # "idle" /\ UNCHANGED <<disk, writing, acked, early>>
      BY <1>9 DEF WriteTemp
    <2>2. CASE writer' = [writer EXCEPT ![w].pc = "sync", ![w].tmp = "unsynced"]
      <3>1. Moves(w, "sync", "unsynced", writer[w].ok)
        BY <1>5, <2>1, <2>2 DEF Moves, Pc, Tmp
      <3> QED BY <1>2, <2>1, <3>1, MovesInv DEF Pc, Tmp
    <2> QED BY <1>6, <1>9, <2>1, <2>2 DEF WriteTemp
  <1>10. CASE SyncTemp(w)
    <2>1. writer[w].pc # "idle" /\ UNCHANGED <<disk, writing, acked, early>>
      BY <1>10 DEF SyncTemp
    <2>2. CASE writer' = [writer EXCEPT ![w].pc = "rename", ![w].tmp = "whole"]
      <3>1. Moves(w, "rename", "whole", writer[w].ok)
        BY <1>5, <2>1, <2>2 DEF Moves, Pc, Tmp
      <3> QED BY <1>2, <2>1, <3>1, MovesInv DEF Pc, Tmp
    <2> QED BY <1>6, <1>10, <2>1, <2>2 DEF SyncTemp
  <1>11. CASE Rename(w)
    <2>1. writer[w].pc = "rename" /\ UNCHANGED <<writing, acked, early>>
      BY <1>11 DEF Rename
    <2>2. CASE disk' = [disk EXCEPT ![writer[w].c] = writer[w].tmp] /\ Result(w, TRUE)
      <3>1. Moves(w, "return", writer[w].tmp, TRUE)
        BY <1>4, <2>1, <2>2 DEF Moves
      <3>2. /\ disk' = [disk EXCEPT ![writer[w].c] = "whole"]
            /\ disk'[writer[w].c] = "whole"
        BY <2>1, <2>2 DEF StoreInv, SyncedBeforeRename, StoreTypeOK
      <3> QED BY <1>2, <3>1, <3>2, MovesInv DEF Pc
    <2>3. CASE Result(w, FALSE) /\ UNCHANGED disk
      BY <1>6, <2>1, <2>3
    <2> QED BY <1>11, <2>2, <2>3 DEF Rename
  <1> QED BY <1>7, <1>8, <1>9, <1>10, <1>11

(* A call registers its chunk, or is answered because another one has.     *)
LEMMA StartInv ==
    ASSUME StoreInv, NEW w \in Writer, NEW c \in Chunk, WriteStart(w, c)
    PROVE  StoreInv'
  <1> USE DEF StoreInv
  <1>1. writer \in [Writer -> CallRecord]
    BY DEF StoreTypeOK, CallRecord, Pc, Tmp
  <1>2. CASE c \in writing
    <2>1. /\ UNCHANGED <<disk, writing, writer>>
          /\ acked' = acked \cup {c} /\ early' = early \cup {c}
      BY <1>2 DEF WriteStart
    <2>2. StoreTypeOK'
      BY <2>1 DEF StoreTypeOK
    <2>3. AckedOnDisk'
      BY <2>1 DEF AckedOnDisk
    <2>4. Registered' /\ SyncedBeforeRename' /\ ResultOnDisk' /\ DiskWhole'
      BY <2>1 DEF Registered, SyncedBeforeRename, ResultOnDisk, DiskWhole
    <2> QED BY <2>2, <2>3, <2>4
  <1>3. CASE c \notin writing
    <2>1. /\ UNCHANGED <<disk, acked, early>> /\ writing' = writing \cup {c}
          /\ writer' = [writer EXCEPT ![w] = Call("stat", c, "none", FALSE, FALSE)]
          /\ writer[w].pc = "idle"
      BY <1>3 DEF WriteStart
    <2>2. /\ writer' \in [Writer -> CallRecord]
          /\ writer'[w].pc = "stat" /\ writer'[w].c = c
          /\ \A v \in Writer : v # w => writer'[v] = writer[v]
      BY <1>1, <2>1 DEF Call, CallRecord, Pc, Tmp
    <2>3. writer[w].c = None
      BY <2>1 DEF StoreTypeOK, noCall, Call
    <2>4. StoreTypeOK'
      <3>1. \A v \in Writer : writer'[v].pc = "idle" => writer'[v] = noCall
        BY <2>2 DEF StoreTypeOK
      <3> QED BY <2>1, <2>2, <3>1 DEF StoreTypeOK, CallRecord, Pc, Tmp
    <2>5. Registered'
      <3>1. \A v \in Writer : writer[v].c # c
        BY <1>3, ChunkAssumption DEF Registered
      <3>2. \A v \in Writer : writer'[v].c # None => writer'[v].c \in writing'
        BY <2>1, <2>2 DEF Registered
      <3>3. \A d \in writing' : \E v \in Writer : writer'[v].c = d
        <4> SUFFICES ASSUME NEW d \in writing' PROVE \E v \in Writer : writer'[v].c = d
          OBVIOUS
        <4>1. CASE d = c
          BY <2>2, <4>1
        <4>2. CASE d # c
          <5>1. PICK v \in Writer : writer[v].c = d
            BY <2>1, <4>2 DEF Registered
          <5>2. v # w
            BY <2>1, <2>3, <4>2, <5>1, ChunkAssumption DEF StoreTypeOK
          <5> QED BY <2>2, <5>1, <5>2
        <4> QED BY <4>1, <4>2
      <3>4. \A u, v \in Writer : writer'[u].c = writer'[v].c /\ writer'[u].c # None => u = v
        BY <2>2, <3>1 DEF Registered
      <3> QED BY <3>2, <3>3, <3>4 DEF Registered
    <2>6. SyncedBeforeRename' /\ ResultOnDisk'
      BY <2>1, <2>2 DEF SyncedBeforeRename, ResultOnDisk
    <2>7. DiskWhole' /\ AckedOnDisk'
      BY <2>1 DEF DiskWhole, AckedOnDisk
    <2> QED BY <2>4, <2>5, <2>6, <2>7
  <1> QED BY <1>2, <1>3

(* The registration goes with the call, and its answer is on disk.          *)
LEMMA ReturnInv ==
    ASSUME StoreInv, NEW w \in Writer, Return(w)
    PROVE  StoreInv'
  <1> USE DEF StoreInv
  <1>1. /\ writer \in [Writer -> CallRecord] /\ noCall \in CallRecord
        /\ noCall.c = None /\ noCall.pc = "idle"
    BY DEF StoreTypeOK, CallRecord, Pc, Tmp, noCall, Call
  <1>2. /\ writer'[w] = noCall /\ writer' \in [Writer -> CallRecord]
        /\ \A v \in Writer : v # w => writer'[v] = writer[v]
        /\ writing' = writing \ {writer[w].c} /\ UNCHANGED <<disk, early>>
        /\ writer[w].pc = "return"
    BY <1>1 DEF Return
  <1>3. writer[w].c \in Chunk
    BY <1>2 DEF SyncedBeforeRename
  <1>4. \/ acked' = acked
        \/ acked' = acked \cup {writer[w].c} /\ disk[writer[w].c] = "whole"
    BY <1>2 DEF Return, ResultOnDisk
  <1>5. StoreTypeOK'
    <2>1. \A v \in Writer : writer'[v].pc = "idle" => writer'[v] = noCall
      BY <1>2 DEF StoreTypeOK
    <2>2. writing' \subseteq Chunk /\ acked' \subseteq Chunk /\ early' \subseteq Chunk
      BY <1>2, <1>3, <1>4 DEF StoreTypeOK
    <2> QED BY <1>2, <2>1, <2>2 DEF StoreTypeOK, CallRecord, Pc, Tmp
  <1>6. Registered'
    <2>1. \A v \in Writer : v # w => writer[v].c # writer[w].c
      BY <1>3, ChunkAssumption DEF Registered
    <2>2. \A v \in Writer : writer'[v].c # None => writer'[v].c \in writing'
      BY <1>1, <1>2, <2>1 DEF Registered
    <2>3. \A d \in writing' : \E v \in Writer : writer'[v].c = d
      BY <1>2 DEF Registered
    <2>4. \A u, v \in Writer : writer'[u].c = writer'[v].c /\ writer'[u].c # None => u = v
      BY <1>1, <1>2 DEF Registered
    <2> QED BY <2>2, <2>3, <2>4 DEF Registered
  <1>7. SyncedBeforeRename' /\ ResultOnDisk'
    BY <1>1, <1>2 DEF SyncedBeforeRename, ResultOnDisk
  <1>8. DiskWhole' /\ AckedOnDisk'
    BY <1>2, <1>4 DEF DiskWhole, AckedOnDisk
  <1> QED BY <1>5, <1>6, <1>7, <1>8

(* Removing a file takes back what was promised of it, also to running calls. *)
LEMMA RemoveInv ==
    ASSUME StoreInv, NEW c \in Chunk, RemoveFile(c)
    PROVE  StoreInv'
  <1> USE DEF StoreInv
  <1>1. writer \in [Writer -> CallRecord]
    BY DEF StoreTypeOK, CallRecord, Pc, Tmp
  <1>2. /\ writer' \in [Writer -> CallRecord]
        /\ \A v \in Writer : /\ writer'[v].c = writer[v].c /\ writer'[v].pc = writer[v].pc
                             /\ writer'[v].tmp = writer[v].tmp /\ writer'[v].ok = writer[v].ok
                             /\ writer[v].c = c => writer'[v].raced = TRUE
                             /\ writer[v].c # c => writer'[v] = writer[v]
    BY <1>1 DEF RemoveFile, CallRecord
  <1>3. /\ disk' = [disk EXCEPT ![c] = "absent"] /\ UNCHANGED writing
        /\ acked' = acked \ {c} /\ early' = early \ {c}
    BY DEF RemoveFile
  <1>4. StoreTypeOK'
    <2>1. \A v \in Writer : writer'[v].pc = "idle" => writer'[v] = noCall
      BY <1>2, ChunkAssumption DEF StoreTypeOK, noCall, Call
    <2> QED BY <1>2, <1>3, <2>1 DEF StoreTypeOK, CallRecord, Pc, Tmp
  <1>5. Registered' /\ SyncedBeforeRename'
    BY <1>2, <1>3 DEF Registered, SyncedBeforeRename
  <1>6. ResultOnDisk'
    BY <1>2, <1>3 DEF ResultOnDisk, SyncedBeforeRename, StoreTypeOK
  <1>7. DiskWhole' /\ AckedOnDisk'
    BY <1>3 DEF DiskWhole, AckedOnDisk, StoreTypeOK
  <1> QED BY <1>4, <1>5, <1>6, <1>7

(* A crash finds no unsynced file under a chunk's ID, so the disk survives.  *)
LEMMA CrashInv ==
    ASSUME StoreInv, StoreCrash
    PROVE  StoreInv'
  <1> USE DEF StoreInv
  <1>1. noCall \in CallRecord /\ noCall.c = None /\ noCall.pc = "idle"
    BY DEF noCall, Call, CallRecord, Pc, Tmp
  <1>2. /\ writer' \in [Writer -> CallRecord] /\ \A v \in Writer : writer'[v] = noCall
        /\ writing' = {} /\ UNCHANGED <<acked, early>>
    BY <1>1 DEF StoreCrash
  <1>3. /\ disk' \in [Chunk -> {"absent", "whole", "torn"}]
        /\ \A c \in Chunk : disk'[c] = disk[c]
    BY DEF StoreCrash, AfterCrash, DiskWhole
  <1>4. StoreTypeOK'
    BY <1>2, <1>3 DEF StoreTypeOK, CallRecord, Pc, Tmp
  <1>5. Registered' /\ SyncedBeforeRename' /\ ResultOnDisk'
    BY <1>1, <1>2 DEF Registered, SyncedBeforeRename, ResultOnDisk
  <1>6. DiskWhole' /\ AckedOnDisk'
    BY <1>2, <1>3 DEF DiskWhole, AckedOnDisk, StoreTypeOK
  <1> QED BY <1>4, <1>5, <1>6

(* No step of the store or of the collector breaks the invariant.           *)
LEMMA StoreInvStep == StoreInv /\ [Next]_vars => StoreInv'
  <1> SUFFICES ASSUME StoreInv, [Next]_vars PROVE StoreInv'
    OBVIOUS
  <1>1. ASSUME UNCHANGED storeVars PROVE StoreInv'
    BY <1>1 DEF storeVars, StoreInv, StoreTypeOK, Registered, SyncedBeforeRename,
                ResultOnDisk, DiskWhole, AckedOnDisk
  <1>2. ASSUME NEW w \in Writer, Store(w) PROVE StoreInv'
    BY <1>2, StartInv, StepInv, ReturnInv DEF Store, WriteStep
  <1>3. ASSUME NEW c \in Chunk, Delete(c) PROVE StoreInv'
    BY <1>3, RemoveInv DEF Delete, DeleteChunk
  <1>4. CASE Crash
    BY <1>4, CrashInv DEF Crash
  <1>5. CASE SweepStep
    <2>1. ASSUME NEW c \in Chunk, Collect(c) PROVE StoreInv'
      BY <2>1, RemoveInv DEF Collect
    <2> QED BY <1>1, <1>5, <2>1
            DEF SweepStep, SweepStart, ListChunk, ListFails, ReadClock, CheckReferenced,
                CheckOrphan, CollectFails, ForgetCollected, SweepEnd
  <1>6. CASE UNCHANGED vars
    BY <1>1, <1>6 DEF vars
  <1> QED BY <1>1, <1>2, <1>3, <1>4, <1>5, <1>6 DEF Next, Tick, Link, Unlink

(* The invariant implies the three properties of the store.                *)
LEMMA StoreInvImplies == StoreInv => VisibleWhole /\ OneWriterPerChunk /\ AckedOnDisk
  <1> SUFFICES ASSUME StoreInv PROVE VisibleWhole /\ OneWriterPerChunk /\ AckedOnDisk
    OBVIOUS
  <1>1. VisibleWhole
    BY DEF StoreInv, DiskWhole, VisibleWhole, ReadChunk
  <1>2. ASSUME NEW c \in Chunk
        PROVE  Cardinality({w \in Writer : writer[w].c = c}) = IF c \in writing THEN 1 ELSE 0
    <2> DEFINE Active == {w \in Writer : writer[w].c = c}
    <2>1. CASE c \in writing
      <3>1. PICK w \in Writer : writer[w].c = c
        BY <2>1 DEF StoreInv, Registered
      <3>2. Active = {w}
        BY <3>1, ChunkAssumption DEF StoreInv, Registered
      <3> HIDE DEF Active
      <3>3. Cardinality(Active) = 1
        BY <3>2, FS_Singleton
      <3> QED BY <2>1, <3>3 DEF Active
    <2>2. CASE c \notin writing
      <3>1. Active = {}
        BY <2>2, ChunkAssumption DEF StoreInv, Registered
      <3> HIDE DEF Active
      <3>2. Cardinality(Active) = 0
        BY <3>1, FS_EmptySet
      <3> QED BY <2>2, <3>2 DEF Active
    <2> QED BY <2>1, <2>2
  <1> QED BY <1>1, <1>2 DEF OneWriterPerChunk, StoreInv

(***************************************************************************)
(* The store beside its collector: a visible file has all its bytes, the   *)
(* registration that answers a second writer is there exactly as long as a *)
(* first one, and a chunk a call stored or found is on disk until somebody *)
(* deletes it (WriteChunk's order of register, stat, write, sync, rename). *)
(***************************************************************************)
THEOREM StoreSafe == Spec => [](VisibleWhole /\ OneWriterPerChunk /\ AckedOnDisk)
  <1>1. Init => StoreInv
    BY StoreInvInit DEF Init
  <1> QED BY <1>1, StoreInvStep, StoreInvImplies, PTL DEF Spec

=============================================================================
