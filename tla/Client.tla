-------------------------------- MODULE Client --------------------------------
(***************************************************************************)
(* The client library (pkg/client) against masters and chunk servers: Put, *)
(* Get, Delete and Stat with their retries and fail-over, and the chain of *)
(* WriteChunk handlers (internal/chunkserver/server.go) that stores a      *)
(* chunk and forwards it.  One path is enough; the masters are their log   *)
(* of versions of that path and how far each of them has applied it        *)
(* (module Master), and a chunk server's store is what module ChunkStore   *)
(* makes of it: a set of chunks, and those being written.                  *)
(***************************************************************************)
EXTENDS Naturals, FiniteSets, SequencesExt, BagsExt

CONSTANTS
    Client,
    Program,     \* Program[x]: the operations client x performs, in order; a put
                 \* has the bytes of the local file
    ChunkSize,   \* chunkSize of the clients
    NumMasters,  \* masters, in the order of the clients' configuration
    NumServers,  \* chunk servers, in the order of the master's list
    Factor,      \* the replication factor
    Reliable,    \* chunk servers that answer reads and keep their bytes
    Attempts,    \* maxAttempts of the retry policy
    None,
    MaxFaults    \* bound: calls, writes and disks that fail

ASSUME ClientAssumption ==
    /\ NumMasters \in Nat \ {0} /\ NumServers \in Nat \ {0}
    /\ Factor \in Nat \ {0} /\ Attempts \in Nat \ {0} /\ ChunkSize \in Nat
    /\ Reliable \subseteq 1..NumServers

(* placement: the first Factor chunk servers, or all when there are fewer. *)
placement == 1 .. (IF Factor < NumServers THEN Factor ELSE NumServers)

DefaultChunkSize == 4 * 2^20

(* The bytes of the chunks, as io.ReadFull reads them.                     *)
RECURSIVE pieces(_, _)
pieces(r, size) ==
    LET n == Min({size, Len(r)})
    IN  IF n = 0 THEN <<>>
        ELSE <<SubSeq(r, 1, n)>> \o pieces(SubSeq(r, n + 1, Len(r)), size)

splitChunks_WholeOnly(r, size) ==
    SelectSeq(pieces(r, size), LAMBDA data : Len(data) = size)

splitChunks(r, size) == pieces(r, IF size = 0 THEN DefaultChunkSize ELSE size)

(* SHA-256, without collisions.                                            *)
hashChunk(data) == [sum |-> data]

(* The chunk IDs of a file.                                                *)
chunkIDs(bytes) ==
    LET chunks == splitChunks(bytes, ChunkSize)
    IN  [i \in DOMAIN chunks |-> hashChunk(chunks[i])]

Puts == UNION {{op \in Range(Program[x]) : op.kind = "put"} : x \in Client}

Data == UNION {Range(splitChunks(op.bytes, ChunkSize)) : op \in Puts}

Chunk == {hashChunk(data) : data \in Data}

VARIABLES
    versions,   \* the committed versions of the path: its chunks, or None
    applied,    \* applied[m]: how many of them master m has applied
    late,       \* a bag of versions whose answer was lost and that may still commit
    cl,         \* cl[x]: where client x is
    got,        \* got[x]: the local file of x's Get
    chains,     \* the chains of WriteChunk handlers that are running
    stored,     \* stored[s]: chunks on disk
    busy,       \* busy[s]: chunks being written by a handler
    rotten,     \* <<s, c>>: the file does not hash to its ID any more
    faults,     \* how many times something has failed
    shared,     \* history: <<s, c>> answered because another handler wrote it
    held        \* history: servers with a good copy when x began to read a chunk

masterVars == <<versions, applied, late>>
storeVars  == <<stored, busy, shared>>
vars == <<masterVars, storeVars, cl, got, chains, rotten, faults, held>>

(* A client's position in operation k of its program: which call it makes, *)
(* the master m and the attempt n of the call, the chunk i and the replica. *)
start(x, k) ==
    [pc |-> CASE k > Len(Program[x]) -> "end"
              [] Program[x][k].kind = "put" -> "plan"
              [] Program[x][k].kind = "delete" -> "commit"
              [] OTHER -> "lookup",
     op |-> k, m |-> 1, n |-> 1, i |-> 1, at |-> 1, file |-> None, result |-> "none"]

Init ==
    /\ versions = <<>> /\ applied = [m \in 1..NumMasters |-> 0] /\ late = EmptyBag
    /\ cl = [x \in Client |-> start(x, 1)]
    /\ got = [x \in Client |-> <<>>]
    /\ chains = {} /\ rotten = {} /\ faults = 0 /\ shared = {}
    /\ stored = [s \in 1..NumServers |-> {}]
    /\ busy = [s \in 1..NumServers |-> {}]
    /\ held = [x \in Client |-> {}]

(* Something fails, within the bound.                                      *)
Fault ==
    /\ faults < MaxFaults
    /\ faults' = faults + 1

OpOf(x) == Program[x][cl[x].op]

-----------------------------------------------------------------------------
(***************************************************************************)
(* retryPolicy.do and callMaster.  A transient error is tried again on the *)
(* same master, then on the next; any other error ends the call.           *)
(***************************************************************************)
Ended(x, result) == [start(x, cl[x].op) EXCEPT !.pc = "ended", !.result = result]

isTransient(result) == result = "unavailable"

Goto(x, pc) == [cl[x] EXCEPT !.pc = pc, !.m = 1, !.n = 1]

Retry(x) ==
    IF cl[x].n < Attempts THEN [cl[x] EXCEPT !.n = @ + 1]
    ELSE IF cl[x].m < NumMasters THEN [cl[x] EXCEPT !.m = @ + 1, !.n = 1]
    ELSE Ended(x, "unavailable")

(* The call fails: transiently, or with another error.                     *)
MasterError(x) ==
    /\ cl[x].pc \in {"plan", "commit", "lookup"}
    /\ \E next \in {Retry(x), Ended(x, "error")} : cl' = [cl EXCEPT ![x] = next]
    /\ Fault
    /\ UNCHANGED <<masterVars, storeVars, got, chains, rotten, held>>

(* The operation has returned; the program goes on with the next one.      *)
Finish(x) ==
    /\ cl[x].pc = "ended"
    /\ cl' = [cl EXCEPT ![x] = start(x, @.op + 1)]
    /\ got' = [got EXCEPT ![x] = <<>>]
    /\ held' = [held EXCEPT ![x] = {}]
    /\ UNCHANGED <<masterVars, storeVars, chains, rotten, faults>>

-----------------------------------------------------------------------------
(***************************************************************************)
(* Put: OpenForWrite, then the chunks one after the other, FinalizeWrite.  *)
(***************************************************************************)
NextChunk(x, i) ==
    [Goto(x, IF i <= Len(chunkIDs(OpOf(x).bytes)) THEN "write" ELSE "commit") EXCEPT !.i = i]

OpenForWrite(x) ==
    /\ cl[x].pc = "plan"
    /\ cl' = [cl EXCEPT ![x] = NextChunk(x, 1)]
    /\ UNCHANGED <<masterVars, storeVars, got, chains, rotten, faults, held>>

(* writeChunk calls the primary with the others as the downstream chain.   *)
writeChunk(x) ==
    /\ cl[x].pc = "write"
    /\ chains' = chains \cup {[client |-> x, op |-> cl[x].op, i |-> cl[x].i, n |-> cl[x].n,
                               chunk |-> chunkIDs(OpOf(x).bytes)[cl[x].i],
                               at |-> 1, pc |-> "store", live |-> TRUE]}
    /\ cl' = [cl EXCEPT ![x].pc = "await"]
    /\ UNCHANGED <<masterVars, storeVars, got, rotten, faults, held>>

(* What the client makes of the answer.                                    *)
WriteResult(x, result) ==
    CASE result = "ok" -> NextChunk(x, cl[x].i + 1)
      [] isTransient(result) /\ cl[x].n < Attempts ->
            [cl[x] EXCEPT !.pc = "write", !.n = @ + 1]
      [] OTHER -> Ended(x, result)

(* What the client asks the masters to record.                             *)
Version(x) == IF OpOf(x).kind = "put" THEN chunkIDs(OpOf(x).bytes) ELSE None

(* The call succeeds: committed, and applied where it was called.          *)
Committed(x) ==
    /\ cl[x].pc = "commit"
    /\ versions' = Append(versions, Version(x))
    /\ applied' = [applied EXCEPT ![cl[x].m] = Len(versions) + 1]
    /\ cl' = [cl EXCEPT ![x] = Ended(x, "ok")]
    /\ UNCHANGED <<late, storeVars, got, chains, rotten, faults, held>>

FinalizeWrite(x) == Committed(x) /\ OpOf(x).kind = "put"

DeleteFile(x) == Committed(x) /\ OpOf(x).kind = "delete"

(* The answer is lost, is an error although the command is in the log, or  *)
(* is the answer to another command (module Master): this one may still be *)
(* committed.                                                              *)
CommitLost(x) ==
    /\ cl[x].pc = "commit"
    /\ late' = late (+) SetToBag({Version(x)})
    /\ \E next \in {Retry(x), Ended(x, "error"), Ended(x, "ok")} : cl' = [cl EXCEPT ![x] = next]
    /\ Fault
    /\ UNCHANGED <<versions, applied, storeVars, got, chains, rotten, held>>

LateCommit(v) ==
    /\ late' = late (-) SetToBag({v})
    /\ versions' = Append(versions, v)
    /\ UNCHANGED <<applied, storeVars, cl, got, chains, rotten, faults, held>>

Apply(m) ==
    /\ applied[m] < Len(versions)
    /\ applied' = [applied EXCEPT ![m] = @ + 1]
    /\ UNCHANGED <<versions, late, storeVars, cl, got, chains, rotten, faults, held>>

-----------------------------------------------------------------------------
(***************************************************************************)
(* A chain of WriteChunk handlers: those at positions before "at" wait for *)
(* the one at "at".  If it is live the client waits for the first.         *)
(***************************************************************************)
Ends(h, result) ==
    cl' = IF h.live THEN [cl EXCEPT ![h.client] = WriteResult(h.client, result)] ELSE cl

Advance(h, pc) ==
    (chains \ {h}) \cup {IF pc # "next" THEN [h EXCEPT !.pc = pc]
                         ELSE IF h.at < Cardinality(placement)
                              THEN [h EXCEPT !.pc = "store", !.at = @ + 1]
                         ELSE [h EXCEPT !.pc = "reply"]}

(* store.WriteChunk: another handler is writing the chunk, or it is there  *)
(* already, or it has to be written.                                       *)
StoreStart(h) ==
    /\ h.pc = "store"
    /\ LET busyNow == h.chunk \in busy[h.at]
           present == h.chunk \in stored[h.at]
       IN  /\ chains' = Advance(h, IF busyNow \/ present THEN "next" ELSE "writing")
           /\ busy' = IF busyNow \/ present THEN busy
                      ELSE [busy EXCEPT ![h.at] = @ \cup {h.chunk}]
           /\ shared' = IF busyNow THEN shared \cup {<<h.at, h.chunk>>} ELSE shared
    /\ UNCHANGED <<masterVars, stored, cl, got, rotten, faults, held>>

StoreDone(h) ==
    /\ h.pc = "writing"
    /\ stored' = [stored EXCEPT ![h.at] = @ \cup {h.chunk}]
    /\ busy' = [busy EXCEPT ![h.at] = @ \ {h.chunk}]
    /\ chains' = Advance(h, "next")
    /\ UNCHANGED <<masterVars, shared, cl, got, rotten, faults, held>>

(* The local write fails: Internal, which the handler before it in the     *)
(* chain wraps as Unavailable (forward).                                   *)
StoreFails_Ignored(h) ==
    /\ h.pc = "writing"
    /\ busy' = [busy EXCEPT ![h.at] = @ \ {h.chunk}]
    /\ chains' = Advance(h, "next")
    /\ Fault
    /\ UNCHANGED <<masterVars, stored, shared, cl, got, rotten, held>>

StoreFails(h) ==
    /\ h.pc = "writing"
    /\ busy' = [busy EXCEPT ![h.at] = @ \ {h.chunk}]
    /\ chains' = chains \ {h}
    /\ Ends(h, IF h.at = 1 THEN "error" ELSE "unavailable")
    /\ Fault
    /\ UNCHANGED <<masterVars, stored, shared, got, rotten, held>>

(* The last handler of the chain has stored the chunk: the answers go up.  *)
Reply(h) ==
    /\ h.pc = "reply"
    /\ chains' = chains \ {h}
    /\ Ends(h, "ok")
    /\ UNCHANGED <<masterVars, storeVars, got, rotten, faults, held>>

(* A connection breaks somewhere above the last handler: what is above     *)
(* fails with Unavailable, what is below runs on.                          *)
Break(h) ==
    /\ h.live
    /\ chains' = (chains \ {h}) \cup {[h EXCEPT !.live = FALSE]}
    /\ \E r \in {"unavailable", "error"} : Ends(h, r)
    /\ Fault
    /\ UNCHANGED <<masterVars, storeVars, got, rotten, held>>

(* A handler does not accept the chunk: the call does not get through, the *)
(* bytes do not hash to the ID (InvalidArgument), or the context has ended.*)
CallFails(h) ==
    /\ h.pc = "store"
    /\ chains' = chains \ {h}
    /\ \/ ~h.live /\ UNCHANGED <<cl, faults>>
       \/ h.live /\ Fault /\ Ends(h, "unavailable")
       \/ h.live /\ Fault /\ h.at = 1 /\ Ends(h, "error")
    /\ UNCHANGED <<masterVars, storeVars, got, rotten, held>>

-----------------------------------------------------------------------------
(***************************************************************************)
(* Get: OpenForRead on the first master that answers, then every chunk     *)
(* from the first replica that has it and passes verification.             *)
(***************************************************************************)
Current(m) == IF applied[m] = 0 THEN None ELSE versions[applied[m]]

Good(c) == {s \in placement : c \in stored[s] /\ <<s, c>> \notin rotten}

ReadNext(x, file, i) ==
    IF i > Len(file) THEN [Ended(x, "ok") EXCEPT !.file = file]
    ELSE [Goto(x, "read") EXCEPT !.file = file, !.i = i, !.at = 1]

HoldersOf(file, i) == IF i > Len(file) THEN {} ELSE Good(file[i])

(* NotFound is not transient.                                              *)
OpenForRead(x) ==
    LET file == Current(cl[x].m)
    IN  /\ cl[x].pc = "lookup" /\ OpOf(x).kind = "get"
        /\ cl' = [cl EXCEPT ![x] = IF file = None THEN Ended(x, "notfound")
                                   ELSE ReadNext(x, file, 1)]
        /\ held' = [held EXCEPT ![x] = IF file = None THEN {} ELSE HoldersOf(file, 1)]
        /\ UNCHANGED <<masterVars, storeVars, got, chains, rotten, faults>>

Stat(x) ==
    /\ cl[x].pc = "lookup" /\ OpOf(x).kind = "stat"
    /\ cl' = [cl EXCEPT ![x] = Ended(x, IF Current(cl[x].m) = None THEN "notfound" ELSE "ok")]
    /\ UNCHANGED <<masterVars, storeVars, got, chains, rotten, faults, held>>

NextReplica_Stop(x) == Ended(x, "chunk")

NextReplica(x) ==
    IF cl[x].at < Cardinality(placement) THEN [cl[x] EXCEPT !.at = @ + 1, !.n = 1]
    ELSE Ended(x, "chunk")

(* A chunk server cannot be reached: tried again, then the next replica.   *)
ReadUnavailable(x) ==
    /\ cl[x].pc = "read" /\ cl[x].at \notin Reliable
    /\ cl' = [cl EXCEPT ![x] = IF @.n < Attempts THEN [@ EXCEPT !.n = @ + 1]
                               ELSE NextReplica(x)]
    /\ Fault
    /\ UNCHANGED <<masterVars, storeVars, got, chains, rotten, held>>

(* The context ends: the calls to the replicas that are left fail at once. *)
ContextDone(x) ==
    /\ cl[x].pc = "read"
    /\ cl' = [cl EXCEPT ![x] = Ended(x, "error")]
    /\ Fault
    /\ UNCHANGED <<masterVars, storeVars, got, chains, rotten, held>>

(* NotFound, or DataLoss from the server's own verification.               *)
ReadRefused(x) ==
    /\ cl[x].pc = "read" /\ cl[x].at \notin Good(cl[x].file[cl[x].i])
    /\ cl' = [cl EXCEPT ![x] = NextReplica(x)]
    /\ UNCHANGED <<masterVars, storeVars, got, chains, rotten, faults, held>>

verifyChunk_Skipped(id, data) == TRUE

verifyChunk(id, data) == hashChunk(data) = id

(* The bytes arrive, perhaps not as they were sent.                        *)
ReadData(x, data) ==
    LET c == cl[x].file[cl[x].i]
    IN  /\ cl[x].pc = "read" /\ cl[x].at \in Good(c)
        /\ \/ hashChunk(data) = c /\ UNCHANGED faults
           \/ data = None /\ cl[x].at \notin Reliable /\ Fault
        /\ IF verifyChunk(c, data)
           THEN /\ got' = [got EXCEPT ![x] = Append(@, data)]
                /\ cl' = [cl EXCEPT ![x] = ReadNext(x, @.file, @.i + 1)]
                /\ held' = [held EXCEPT ![x] = HoldersOf(cl[x].file, cl[x].i + 1)]
           ELSE /\ cl' = [cl EXCEPT ![x] = NextReplica(x)]
                /\ UNCHANGED <<got, held>>
        /\ UNCHANGED <<masterVars, storeVars, chains, rotten>>

(* A chunk rots on the disk of a chunk server.                             *)
Rot(s, c) ==
    /\ c \in stored[s] /\ <<s, c>> \notin rotten
    /\ s \notin Reliable
    /\ rotten' = rotten \cup {<<s, c>>}
    /\ Fault
    /\ UNCHANGED <<masterVars, storeVars, cl, got, chains, held>>

-----------------------------------------------------------------------------
ClientStep(x) ==
    \/ Finish(x) \/ MasterError(x)
    \/ OpenForWrite(x) \/ writeChunk(x)
    \/ FinalizeWrite(x) \/ DeleteFile(x) \/ CommitLost(x)
    \/ OpenForRead(x) \/ Stat(x)
    \/ ReadUnavailable(x) \/ ContextDone(x) \/ ReadRefused(x)
    \/ \E data \in Data \cup {None} : ReadData(x, data)

ChainStep(h) == StoreStart(h) \/ StoreDone(h) \/ StoreFails(h) \/ Reply(h) \/ CallFails(h)

Next ==
    \/ \E x \in Client : ClientStep(x)
    \/ \E h \in chains : ChainStep(h) \/ Break(h)
    \/ \E v \in BagToSet(late) : LateCommit(v)
    \/ \E m \in 1..NumMasters : Apply(m)
    \/ \E s \in placement, c \in Chunk : Rot(s, c)

Spec == Init /\ [][Next]_vars

-----------------------------------------------------------------------------
(***************************************************************************)
(* "the file is finalised in the namespace once all chunks are durable"    *)
(* (client.go): every server of the placement has every chunk of every     *)
(* committed version, however often chains broke and were repeated; except *)
(* where a handler was answered because another was writing the chunk.     *)
(***************************************************************************)
FinalisedStored ==
    \A k \in DOMAIN versions : versions[k] # None =>
        \A c \in Range(versions[k]), s \in placement :
            c \in stored[s] \/ <<s, c>> \in shared

(***************************************************************************)
(* A Get that succeeds has written the bytes of a file that was put, and   *)
(* finalised, whole and in order, whatever the disks and the network did   *)
(* to its chunks.                                                          *)
(***************************************************************************)
GetExact ==
    \A x \in Client :
        cl[x].pc = "ended" /\ cl[x].result = "ok" /\ OpOf(x).kind = "get" =>
            /\ cl[x].file \in Range(versions)
            /\ \E op \in Puts : /\ FlattenSeq(got[x]) = op.bytes
                               /\ chunkIDs(op.bytes) = cl[x].file

(***************************************************************************)
(* "a corrupt replica should not fail the read if another is good"         *)
(* (client.go): reading a chunk fails only if no reliable server had a     *)
(* good copy when the client began to look for it.                         *)
(***************************************************************************)
GoodReplicaFound ==
    \A x \in Client :
        cl[x].pc = "ended" /\ cl[x].result = "chunk" => held[x] \cap Reliable = {}

=============================================================================
