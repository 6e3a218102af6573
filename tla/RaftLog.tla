------------------------------- MODULE RaftLog -------------------------------
(***************************************************************************)
(* The in-memory Raft log of internal/raft/log.go, as pure operators on a  *)
(* value [entries, snapIndex, snapTerm].  Physical entries begin at        *)
(* snapIndex + 1; everything up to snapIndex has been compacted.           *)
(*                                                                         *)
(* An entry keeps its Index and Term.  Its Command is opaque to Raft: it   *)
(* is represented by the node it was proposed on, which tells apart the    *)
(* commands that two leaders of one term would write at the same index.    *)
(***************************************************************************)
EXTENDS Integers, Sequences, FiniteSetsExt

CONSTANT Node

Entry == [index: Nat, term: Nat, command: Node]

Log == [entries: Seq(Entry), snapIndex: Nat, snapTerm: Nat]

newRaftLog == [entries |-> <<>>, snapIndex |-> 0, snapTerm |-> 0]

lastIndex(l) ==
    IF l.entries = <<>> THEN l.snapIndex ELSE l.entries[Len(l.entries)].index

lastTerm(l) ==
    IF l.entries = <<>> THEN l.snapTerm ELSE l.entries[Len(l.entries)].term

(***************************************************************************)
(* raftLog.Term returns a term and an error.  HasTerm says that the error  *)
(* is nil, Term is the returned term (0 beside an error).  Index 0 is      *)
(* always "present", even in a compacted log; this is tested before the    *)
(* snapshot bound.                                                         *)
(***************************************************************************)
HasTerm(l, i) ==
    i = 0 \/ i \in l.snapIndex .. l.snapIndex + Len(l.entries)

Term(l, i) ==
    IF i = 0 \/ ~HasTerm(l, i) THEN 0
    ELSE IF i = l.snapIndex THEN l.snapTerm
    ELSE l.entries[i - l.snapIndex].term

(* Append puts the entries at the end, whatever Index they carry.          *)
AppendAll(l, es) == [l EXCEPT !.entries = @ \o es]

TruncateAfter(l, i) ==
    [l EXCEPT !.entries = IF i <= l.snapIndex THEN <<>>
                          ELSE IF i - l.snapIndex - 1 < Len(@)
                          THEN SubSeq(@, 1, i - l.snapIndex - 1)
                          ELSE @]

(* The entries with Index in from .. to-1; empty if from is compacted.     *)
Slice(l, from, to) ==
    IF from >= to \/ from <= l.snapIndex THEN <<>>
    ELSE LET hi == to - l.snapIndex - 1
         IN  SubSeq(l.entries, from - l.snapIndex,
                    IF hi < Len(l.entries) THEN hi ELSE Len(l.entries))

(* Drops the entries up to i and keeps whatever follows, unconditionally.  *)
SetSnapshot(l, i, t) ==
    IF i <= l.snapIndex THEN l
    ELSE [entries   |-> SubSeq(l.entries, i - l.snapIndex + 1, Len(l.entries)),
          snapIndex |-> i,
          snapTerm  |-> t]

(***************************************************************************)
(* The scan of HandleAppendEntries (replication.go): the position in es of *)
(* the first entry the log lacks or holds with another term, 0 if none.    *)
(***************************************************************************)
FirstNew(l, es) ==
    LET missing == {k \in 1 .. Len(es) : \/ ~HasTerm(l, es[k].index)
                                         \/ Term(l, es[k].index) # es[k].term}
    IN  IF missing = {} THEN 0 ELSE Min(missing)

(* A conflicting tail is removed first; a merely missing one is appended.  *)
AppendNew(l, es) ==
    LET k == FirstNew(l, es)
    IN  IF k = 0 THEN l
        ELSE AppendAll(IF HasTerm(l, es[k].index)
                       THEN TruncateAfter(l, es[k].index) ELSE l,
                       SubSeq(es, k, Len(es)))

conflictHint_BeforeTerm(l, prev, prevTerm) ==
    IF prev > lastIndex(l) THEN [index |-> lastIndex(l) + 1, term |-> 0]
    ELSE [index |-> Max({i \in 0 .. prev : i = 0 \/ Term(l, i) # prevTerm}),
          term  |-> prevTerm]

(***************************************************************************)
(* Where a follower tells the leader to roll back: past its own end, or to *)
(* the first entry of the term it holds at the conflicting index.          *)
(***************************************************************************)
conflictHint(l, prev, prevTerm) ==
    IF prev > lastIndex(l) THEN [index |-> lastIndex(l) + 1, term |-> 0]
    ELSE [index |-> IF prev <= l.snapIndex THEN prev
                    ELSE Min({i \in l.snapIndex + 1 .. prev :
                                \A j \in i .. prev - 1 :
                                    HasTerm(l, j) /\ Term(l, j) = prevTerm}),
          term  |-> prevTerm]

BackUpTo_FromTheEnd(l, ci, ct) == lastIndex(l) + 1

(***************************************************************************)
(* Where the leader continues after the hint <<ci, ct>>: past its own last *)
(* entry of term ct if it has one, else at ci (the scan of replicateTo).   *)
(***************************************************************************)
BackUpTo(l, ci, ct) ==
    LET hit(i) == /\ Term(l, i) = ct
                  /\ \A j \in i + 1 .. lastIndex(l) : Term(l, j) > ct
    IN  IF \E i \in l.snapIndex + 1 .. lastIndex(l) : hit(i)
        THEN 1 + CHOOSE i \in l.snapIndex + 1 .. lastIndex(l) : hit(i)
        ELSE ci

=============================================================================
