------------------------------ MODULE ChunkStore ------------------------------
(***************************************************************************)
(* The content-addressed chunk store of internal/chunk/store.go on one     *)
(* chunk server: concurrent WriteChunk calls that meet on the same chunk,  *)
(* file operations that fail, DeleteChunk, and crashes.  A chunk stands    *)
(* for its ID and for the bytes that hash to it.                           *)
(***************************************************************************)
EXTENDS Naturals, FiniteSets

CONSTANTS
    Chunk,     \* content-addressed chunks
    Writer,    \* bound: goroutines inside WriteChunk at the same time
    None       \* no chunk

ASSUME ChunkAssumption == None \notin Chunk

VARIABLES
    disk,      \* the file under a chunk's ID: absent, not yet synced, whole, torn
    writing,   \* chunks with a write in flight
    writer,    \* the WriteChunk calls: control point, chunk, temporary file
    acked,     \* history: chunks some WriteChunk returned, not deleted since
    early      \* history: those returned because a write was in flight

storeVars == <<disk, writing, writer, acked, early>>

(* A call: raced says that its chunk was deleted while the call ran.       *)
Call(pc, c, tmp, ok, raced) == [pc |-> pc, c |-> c, tmp |-> tmp, ok |-> ok, raced |-> raced]

noCall == Call("idle", None, "none", FALSE, FALSE)

StoreInit ==
    /\ disk = [c \in Chunk |-> "absent"]
    /\ writing = {}
    /\ writer = [w \in Writer |-> noCall]
    /\ acked = {} /\ early = {}

Goto(w, pc)         == writer' = [writer EXCEPT ![w].pc = pc]
Result(w, ok)       == writer' = [writer EXCEPT ![w].pc = "return", ![w].ok = ok]

(***************************************************************************)
(* WriteChunk, up to the unlock: a second writer of the same chunk returns *)
(* at once, with success.                                                  *)
(***************************************************************************)
WriteStart_Unregistered(w, c) ==
    /\ writer[w].pc = "idle"
    /\ writer' = [writer EXCEPT ![w] = Call("stat", c, "none", FALSE, FALSE)]
    /\ writing' = writing \cup {c}
    /\ UNCHANGED <<disk, acked, early>>

WriteStart(w, c) ==
    /\ writer[w].pc = "idle"
    /\ IF c \in writing
       THEN /\ acked' = acked \cup {c} /\ early' = early \cup {c}
            /\ UNCHANGED <<writing, writer>>
       ELSE /\ writing' = writing \cup {c}
            /\ writer' = [writer EXCEPT ![w] = Call("stat", c, "none", FALSE, FALSE)]
            /\ UNCHANGED <<acked, early>>
    /\ UNCHANGED disk

(* The file exists already, whatever its bytes: nothing is written.        *)
Stat(w) ==
    /\ writer[w].pc = "stat"
    /\ IF disk[writer[w].c] # "absent" THEN Result(w, TRUE) ELSE Goto(w, "create")
    /\ UNCHANGED <<disk, writing, acked, early>>

(* MkdirAll and CreateTemp.                                                *)
CreateTemp(w) ==
    /\ writer[w].pc = "create"
    /\ \/ writer' = [writer EXCEPT ![w].pc = "write", ![w].tmp = "empty"]
       \/ Result(w, FALSE)
    /\ UNCHANGED <<disk, writing, acked, early>>

WriteTemp(w) ==
    /\ writer[w].pc = "write"
    /\ \/ writer' = [writer EXCEPT ![w].pc = "sync", ![w].tmp = "unsynced"]
       \/ Result(w, FALSE)
    /\ UNCHANGED <<disk, writing, acked, early>>

(* Sync and Close of the temporary file.                                   *)
SyncTemp_CloseOnly(w) ==
    /\ writer[w].pc = "sync"
    /\ \/ Goto(w, "rename")
       \/ Result(w, FALSE)
    /\ UNCHANGED <<disk, writing, acked, early>>

SyncTemp(w) ==
    /\ writer[w].pc = "sync"
    /\ \/ writer' = [writer EXCEPT ![w].pc = "rename", ![w].tmp = "whole"]
       \/ Result(w, FALSE)
    /\ UNCHANGED <<disk, writing, acked, early>>

(* The file appears under its ID, with the bytes of the temporary file.    *)
Rename_ErrorIgnored(w) ==
    /\ writer[w].pc = "rename"
    /\ \/ /\ disk' = [disk EXCEPT ![writer[w].c] = writer[w].tmp]
          /\ Result(w, TRUE)
       \/ /\ Result(w, TRUE)
          /\ UNCHANGED disk
    /\ UNCHANGED <<writing, acked, early>>

Rename(w) ==
    /\ writer[w].pc = "rename"
    /\ \/ /\ disk' = [disk EXCEPT ![writer[w].c] = writer[w].tmp]
          /\ Result(w, TRUE)
       \/ /\ Result(w, FALSE)
          /\ UNCHANGED disk
    /\ UNCHANGED <<writing, acked, early>>

(* The deferred calls: the temporary file and the registration go, then    *)
(* the caller has its answer.                                              *)
Return_TempLeft(w) ==
    /\ writer[w].pc = "return"
    /\ writing' = writing \ {writer[w].c}
    /\ acked' = IF writer[w].ok /\ ~writer[w].raced THEN acked \cup {writer[w].c} ELSE acked
    /\ writer' = [writer EXCEPT ![w] = [noCall EXCEPT !.tmp = writer[w].tmp]]
    /\ UNCHANGED <<disk, early>>

Return(w) ==
    /\ writer[w].pc = "return"
    /\ writing' = writing \ {writer[w].c}
    /\ acked' = IF writer[w].ok /\ ~writer[w].raced THEN acked \cup {writer[w].c} ELSE acked
    /\ writer' = [writer EXCEPT ![w] = noCall]
    /\ UNCHANGED <<disk, early>>

(* os.Remove of the file of c, which the acknowledgements do not outlive.  *)
RemoveFile(c) ==
    /\ disk' = [disk EXCEPT ![c] = "absent"]
    /\ acked' = acked \ {c} /\ early' = early \ {c}
    /\ writer' = [w \in Writer |->
                    IF writer[w].c = c THEN [writer[w] EXCEPT !.raced = TRUE] ELSE writer[w]]
    /\ UNCHANGED writing

(* The DeleteChunk call of the chunk service.                              *)
DeleteChunk(c) == RemoveFile(c)

(* ReadChunk: absence and a checksum that fails are errors of their own.   *)
ReadChunk(c) ==
    IF disk[c] = "absent" THEN "ErrChunkNotFound"
    ELSE IF disk[c] = "torn" THEN "ErrChecksumFailed" ELSE "data"

(***************************************************************************)
(* The chunk server dies and starts again with an empty Store value.       *)
(* Bytes that were not synced may be lost; temporary files stay behind,    *)
(* under names no operation of the store ever looks at.                    *)
(***************************************************************************)
AfterCrash(d) == IF d = "unsynced" THEN {"torn", "whole"} ELSE {d}

StoreCrash ==
    /\ disk' \in [Chunk -> {"absent", "whole", "torn"}]
    /\ \A c \in Chunk : disk'[c] \in AfterCrash(disk[c])
    /\ writing' = {}
    /\ writer' = [w \in Writer |-> noCall]
    /\ UNCHANGED <<acked, early>>

WriteStep(w) ==
    \/ \E c \in Chunk : WriteStart(w, c)
    \/ Stat(w)
    \/ CreateTemp(w)
    \/ WriteTemp(w)
    \/ SyncTemp(w)
    \/ Rename(w)
    \/ Return(w)

-----------------------------------------------------------------------------
(***************************************************************************)
(* The variables of the store have their types, and a WriteChunk that has  *)
(* returned holds neither a chunk nor a temporary file.                    *)
(***************************************************************************)
StoreTypeOK ==
    /\ disk \in [Chunk -> {"absent", "unsynced", "whole", "torn"}]
    /\ writing \subseteq Chunk
    /\ writer \in [Writer ->
         [pc: {"idle", "stat", "create", "write", "sync", "rename", "return"},
          c: Chunk \cup {None}, tmp: {"none", "empty", "unsynced", "whole"},
          ok: BOOLEAN, raced: BOOLEAN]]
    /\ \A w \in Writer : writer[w].pc = "idle" => writer[w] = noCall
    /\ acked \subseteq Chunk /\ early \subseteq Chunk

(***************************************************************************)
(* A file that is visible under a chunk's ID has all of the chunk's bytes, *)
(* durably, also after a crash at any point of a write: the rename comes   *)
(* last.  So a write never makes ReadChunk fail its checksum.              *)
(***************************************************************************)
VisibleWhole ==
    \A c \in Chunk : disk[c] # "unsynced" /\ ReadChunk(c) # "ErrChecksumFailed"

(***************************************************************************)
(* At most one call writes a chunk at a time, and the registration that    *)
(* makes the others return is there exactly as long as the call: none is   *)
(* left behind that would answer later writes without a writer.            *)
(***************************************************************************)
OneWriterPerChunk ==
    \A c \in Chunk :
        LET Active == {w \in Writer : writer[w].c = c}
        IN  Cardinality(Active) = IF c \in writing THEN 1 ELSE 0

(***************************************************************************)
(* A chunk that a WriteChunk call stored or found, and that nobody deleted *)
(* since the call began, is on disk.  Nothing is said of the calls that    *)
(* were answered because another one was in flight.                        *)
(***************************************************************************)
AckedOnDisk == \A c \in acked \ early : disk[c] = "whole"

=============================================================================
