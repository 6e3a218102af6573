--------------------------------- MODULE WAL ---------------------------------
(***************************************************************************)
(* The write-ahead log of internal/wal: appends that rotate, write and     *)
(* sync under one mutex, readers that work from the files, crashes at any  *)
(* point and the recovery that Open runs.  Every file operation is a step  *)
(* of its own and may fail.  Segment number i of the directory is          *)
(* files[i], a sequence of records; sizes are counted in abstract bytes.   *)
(***************************************************************************)
EXTENDS Integers, SequencesExt

CONSTANTS
    Index,          \* the entry indexes callers supply, in any order
    Sizes,          \* the encoded sizes of entries
    maxSegSz,       \* the size a segment may reach
    MaxDecodable,   \* the largest encoded size Decode accepts
    MaxAppends      \* bound: calls of Append

ASSUME WALAssumption ==
    /\ Index \subseteq Nat \ {0}
    /\ Sizes \subseteq Nat \ {0, 1}
    /\ maxSegSz \in Nat /\ MaxDecodable \in Nat /\ MaxAppends \in Nat

VARIABLES
    files,     \* the segment files, oldest first
    synced,    \* how many records of each file are known to be durable
    open,      \* is there a WAL value that Open returned?
    file,      \* is the active segment's handle non-nil?
    size,      \* the active segment's size counter
    lastIdx,
    append,    \* the Append that holds the mutex: its control point and entry
    reader,    \* a ReadAll: segments copied, segments read, entries so far
    calls,     \* calls of Append so far: the identities of their entries
    acked,     \* history: segment and entry of every Append that returned nil
    cut        \* history: the segments in which a write failed half way

vars == <<files, synced, open, file, size, lastIdx, append, reader, calls, acked, cut>>

(***************************************************************************)
(* Records.  A whole record decodes; of a torn one only the first byte is  *)
(* in the file.  If nothing follows, reading it ends in an unexpected EOF. *)
(* If bytes of a later record follow they are taken for the missing ones:  *)
(* the checksum fails ("torn"), unless the length field itself was cut and *)
(* completed to a value Decode rejects ("garbled").                        *)
(***************************************************************************)
Entry  == [id: 1..MaxAppends, idx: Index, size: Sizes]
Record == [entry: Entry, part: {"whole", "torn", "garbled"}]
Bytes(r) == IF r.part = "whole" THEN r.entry.size ELSE 1

SizeOf(f) == FoldLeft(LAMBDA n, r : n + Bytes(r), 0, f)

(* Decode of the k-th record: an entry, a quiet end of the log, an error.  *)
Decode_ErrorAtEOF(f, k) ==
    IF f[k].part = "whole"
    THEN IF f[k].entry.size <= MaxDecodable THEN "ok" ELSE "error"
    ELSE "error"

Decode(f, k) ==
    IF f[k].part = "whole"
    THEN IF f[k].entry.size <= MaxDecodable THEN "ok" ELSE "error"
    ELSE IF f[k].part = "garbled" /\ k < Len(f) THEN "error" ELSE "end"

(* replayFile: the records before the first that does not decode.          *)
validEnd(f) == SelectInSeq([k \in DOMAIN f |-> Decode(f, k)], LAMBDA d : d # "ok")

replayed(f) == IF validEnd(f) = 0 THEN f ELSE SubSeq(f, 1, validEnd(f) - 1)

replayFile(f) == [k \in DOMAIN replayed(f) |-> f[k].entry]

replayFails(f) == validEnd(f) # 0 /\ Decode(f, validEnd(f)) = "error"

ReplayAll(fs) == FlattenSeq([i \in DOMAIN fs |-> replayFile(fs[i])])

-----------------------------------------------------------------------------
idle    == [pc |-> "idle"]
noRead  == [pc |-> "idle"]
active  == Len(files)

Init ==
    /\ files = <<>> /\ synced = <<>>
    /\ open = FALSE /\ file = FALSE /\ size = 0 /\ lastIdx = 0
    /\ append = idle /\ reader = noRead
    /\ calls = 0 /\ acked = {} /\ cut = {}

(* max over the indexes of a sequence of entries, and a start value.       *)
MaxIdx(s, start) == FoldLeft(LAMBDA m, e : IF e.idx > m THEN e.idx ELSE m, start, s)

recoveredIdx_LastSegment(fs) == MaxIdx(replayFile(fs[Len(fs)]), 0)

recoveredIdx(fs) == MaxIdx(ReplayAll(fs), 0)

(* The size counter openSegmentForWrite gives the active segment.          *)
openSize_Zero(f) == 0

openSize(f) == SizeOf(replayed(f))

(* What recover creates in an empty directory.                             *)
initialSegments_None == <<>>

initialSegments == << <<>> >>

(***************************************************************************)
(* Open: replays every segment, refuses to start if one does not decode,   *)
(* truncates the last segment behind its valid records, and creates        *)
(* segment 1 in an empty directory.  The truncated file is not synced.     *)
(***************************************************************************)
Open ==
    /\ ~open
    /\ \A i \in DOMAIN files : ~replayFails(files[i])
    /\ IF files = <<>>
       THEN /\ files' = initialSegments
            /\ synced' = <<0>> /\ size' = 0 /\ lastIdx' = 0
       ELSE LET keep == replayed(files[active]) IN
            /\ files' = [files EXCEPT ![active] = keep]
            /\ synced' = [synced EXCEPT ![active] = IF @ > Len(keep) THEN Len(keep) ELSE @]
            /\ size' = openSize(files[active])
            /\ lastIdx' = recoveredIdx(files)
    /\ open' = TRUE /\ file' = TRUE
    /\ UNCHANGED <<append, reader, calls, acked, cut>>

(* Open returns an error, this time and every time.                        *)
OpenRefused ==
    /\ ~open
    /\ \E i \in DOMAIN files : replayFails(files[i])
    /\ UNCHANGED vars

(* Append, up to the decision whether to rotate.                           *)
AppendStart(idx, sz) ==
    /\ open /\ append.pc = "idle" /\ calls < MaxAppends
    /\ calls' = calls + 1
    /\ append' = [pc    |-> IF size + sz > maxSegSz THEN "close" ELSE "write",
                  entry |-> [id |-> calls + 1, idx |-> idx, size |-> sz]]
    /\ UNCHANGED <<files, synced, open, file, size, lastIdx, reader, acked, cut>>

(***************************************************************************)
(* rotate, first half: close the active segment.  The handle is gone also  *)
(* when the sync fails; then Append returns and the next one that does not *)
(* fit passes here again, with nothing left to close.                      *)
(***************************************************************************)
RotateClose ==
    /\ append.pc = "close"
    /\ file' = FALSE
    /\ \/ /\ append' = [append EXCEPT !.pc = "create"]
          /\ synced' = IF file THEN [synced EXCEPT ![active] = Len(files[active])] ELSE synced
       \/ /\ file
          /\ append' = idle
          /\ UNCHANGED synced
    /\ UNCHANGED <<files, open, size, lastIdx, reader, calls, acked, cut>>

(* rotate, second half: create the next segment.                           *)
RotateCreate ==
    /\ append.pc = "create"
    /\ \/ /\ files' = Append(files, <<>>) /\ synced' = Append(synced, 0)
          /\ file' = TRUE /\ size' = 0
          /\ append' = [append EXCEPT !.pc = "write"]
       \/ /\ append' = idle
          /\ UNCHANGED <<files, synced, file, size>>
    /\ UNCHANGED <<open, lastIdx, reader, calls, acked, cut>>

(* The entry, or a part of it, reaches the active file.                    *)
Put(part) ==
    LET r == [entry |-> append.entry, part |-> part]
    IN  /\ files' = [files EXCEPT ![active] = Append(@, r)]
        /\ size' = size + Bytes(r)

(***************************************************************************)
(* segment.write: succeeds, fails with nothing written (always so on a     *)
(* closed handle), or fails having written a part (the disk is full): that *)
(* part stays, the size counter includes it and the next record follows it.*)
(***************************************************************************)
Write ==
    /\ append.pc = "write"
    /\ \/ /\ file /\ Put("whole")
          /\ append' = [append EXCEPT !.pc = "sync"]
          /\ UNCHANGED cut
       \/ /\ append' = idle
          /\ UNCHANGED <<files, size, cut>>
       \/ /\ file /\ \E part \in {"torn", "garbled"} : Put(part)
          /\ append' = idle
          /\ cut' = cut \cup {active}
    /\ UNCHANGED <<synced, open, file, lastIdx, reader, calls, acked>>

(* segment.sync and the return of Append.                                  *)
Sync_NotCalled ==
    /\ append.pc = "sync"
    /\ acked' = acked \cup {<<active, append.entry>>}
    /\ lastIdx' = MaxIdx(<<append.entry>>, lastIdx)
    /\ append' = idle
    /\ UNCHANGED <<files, synced, open, file, size, reader, calls, cut>>

Sync ==
    /\ append.pc = "sync"
    /\ \/ /\ synced' = [synced EXCEPT ![active] = Len(files[active])]
          /\ acked' = acked \cup {<<active, append.entry>>}
          /\ lastIdx' = MaxIdx(<<append.entry>>, lastIdx)
       \/ UNCHANGED <<synced, acked, lastIdx>>
    /\ append' = idle
    /\ UNCHANGED <<files, open, file, size, reader, calls, cut>>

-----------------------------------------------------------------------------
(* ReadAll: the list of segments is copied under the mutex, then the files *)
(* are read one by one without it.                                         *)
copiedSegments_WithoutActive == active - 1

copiedSegments == active

ReadAll ==
    /\ open /\ append.pc = "idle" /\ reader.pc = "idle"
    /\ reader' = [pc |-> "read", segs |-> copiedSegments, next |-> 1, got |-> <<>>,
                  before |-> acked]
    /\ UNCHANGED <<files, synced, open, file, size, lastIdx, append, calls, acked, cut>>

ReadSegment ==
    /\ reader.pc = "read"
    /\ IF reader.next > reader.segs
       THEN reader' = [reader EXCEPT !.pc = "done"]
       ELSE reader' = IF replayFails(files[reader.next]) THEN noRead
                      ELSE [reader EXCEPT !.next = @ + 1,
                                          !.got = @ \o replayFile(files[reader.next])]
    /\ UNCHANGED <<files, synced, open, file, size, lastIdx, append, calls, acked, cut>>

ReadReturn ==
    /\ reader.pc = "done"
    /\ reader' = noRead
    /\ UNCHANGED <<files, synced, open, file, size, lastIdx, append, calls, acked, cut>>

LastIndex == lastIdx

(* WAL.Close, called by a program that is done with the log.               *)
Close ==
    /\ open /\ append.pc = "idle" /\ reader.pc = "idle"
    /\ open' = FALSE /\ file' = FALSE
    /\ \/ synced' = IF file THEN [synced EXCEPT ![active] = Len(files[active])] ELSE synced
       \/ UNCHANGED synced
    /\ UNCHANGED <<files, size, lastIdx, append, reader, calls, acked, cut>>

(***************************************************************************)
(* The process or the machine stops.  Of the records that were not synced  *)
(* a prefix survives, the last of them perhaps in part.                    *)
(***************************************************************************)
Survivors(i) ==
    LET f == files[i] IN
      {SubSeq(f, 1, k) : k \in synced[i]..Len(f)}
        \cup {Append(SubSeq(f, 1, k), [f[k + 1] EXCEPT !.part = "torn"]) :
                 k \in synced[i]..(Len(f) - 1)}

Crash ==
    /\ open
    /\ \E fs \in [DOMAIN files -> UNION {Survivors(i) : i \in DOMAIN files}] :
          /\ \A i \in DOMAIN files : fs[i] \in Survivors(i)
          /\ files' = fs
    /\ open' = FALSE /\ file' = FALSE
    /\ append' = idle /\ reader' = noRead
    /\ UNCHANGED <<synced, size, lastIdx, calls, acked, cut>>

Next ==
    \/ Open
    \/ OpenRefused
    \/ \E idx \in Index, sz \in Sizes : AppendStart(idx, sz)
    \/ RotateClose
    \/ RotateCreate
    \/ Write
    \/ Sync
    \/ ReadAll
    \/ ReadSegment
    \/ ReadReturn
    \/ Close
    \/ Crash

Spec == Init /\ [][Next]_vars

-----------------------------------------------------------------------------
(* The variables have their types.                                         *)
TypeOK ==
    /\ files \in Seq(Seq(Record))
    /\ synced \in Seq(Nat) /\ Len(synced) = Len(files)
    /\ \A i \in DOMAIN files : synced[i] <= Len(files[i])
    /\ open \in BOOLEAN /\ file \in BOOLEAN
    /\ size \in Nat /\ lastIdx \in Index \cup {0}
    /\ append.pc \in {"idle", "close", "create", "write", "sync"}
    /\ reader.pc \in {"idle", "read", "done"}
    /\ calls \in 0..MaxAppends
    /\ acked \subseteq (DOMAIN files) \X Entry /\ cut \subseteq DOMAIN files
    /\ open => files # <<>>

(* The acknowledged entries of the segments without a half-failed write.   *)
Safe == {a[2] : a \in {b \in acked : b[1] \notin cut}}

(***************************************************************************)
(* An entry whose Append returned nil is never lost: whatever part of the  *)
(* unsynced records a crash at this point leaves, replaying the segments   *)
(* yields it.  The exception is a segment in which an earlier write failed *)
(* half way: what is appended behind the torn record is acknowledged and   *)
(* cannot be read back.                                                    *)
(***************************************************************************)
AckedDurable ==
    LET durable == [i \in DOMAIN files |-> SubSeq(files[i], 1, synced[i])]
    IN  Safe \subseteq ToSet(ReplayAll(durable)) \cap ToSet(ReplayAll(files))

(***************************************************************************)
(* A crash never leaves a directory that Open refuses: recovery ends every *)
(* segment quietly at its torn tail.  Only a half-failed write can make    *)
(* Open fail for good.                                                     *)
(***************************************************************************)
AlwaysRecovers == ~open => \A i \in DOMAIN files : replayFails(files[i]) => i \in cut

(***************************************************************************)
(* LastIndex, restored by recovery over all segments, is not below the     *)
(* index of an acknowledged entry, and recovery invents no index.          *)
(***************************************************************************)
LastIndexCovers ==
    open => /\ \A e \in Safe : e.idx <= LastIndex
            /\ LastIndex \in {0} \cup {a[2].idx : a \in acked}
                               \cup {e.idx : e \in ToSet(ReplayAll(files))}

(***************************************************************************)
(* No segment outgrows the configured maximum, except by a single entry    *)
(* that is larger than it: the size counter, kept by write and restored by *)
(* openSegmentForWrite, never falls behind the file.                       *)
(***************************************************************************)
SegmentsBounded ==
    \A i \in DOMAIN files : SizeOf(files[i]) <= maxSegSz \/ Len(files[i]) = 1

(***************************************************************************)
(* ReadAll, which reads the files while Appends and rotations go on,       *)
(* returns every entry acknowledged before it was called (with the         *)
(* exception above), each entry once and in the order of the Appends.      *)
(***************************************************************************)
ReadAllComplete ==
    reader.pc = "done" =>
        /\ \A a \in reader.before : a[1] \in cut \/ a[2] \in ToSet(reader.got)
        /\ \A i, j \in DOMAIN reader.got : i < j => reader.got[i].id < reader.got[j].id

=============================================================================
