---------------------------- MODULE RaftLogProofs ----------------------------
(***************************************************************************)
(* What the operators of RaftLog return, for every log.                    *)
(***************************************************************************)
EXTENDS RaftLog, WellFoundedInduction, SequenceTheorems, TLAPS

(* A non-empty set of naturals has a minimum, and Min chooses it.          *)
LEMMA MinOfNats ==
    ASSUME NEW S \in SUBSET Nat, S # {}
    PROVE  Min(S) \in S /\ \A x \in S : Min(S) <= x
  <1>1. PICK x \in S : \A y \in S : <<y, x>> \notin OpToRel(<, Nat)
    BY NatLessThanWellFounded, WFMin, Zenon
  <1>2. ASSUME NEW y \in S PROVE x <= y
    <2>1. <<y, x>> \in Nat \X Nat /\ <<y, x>>[1] = y /\ <<y, x>>[2] = x
      OBVIOUS
    <2>2. ~(y < x)
      BY <1>1, <2>1, Zenon DEF OpToRel
    <2> QED BY <2>2
  <1> QED BY <1>2, Zenon DEF Min

(* Max and Min of two naturals.                                            *)
LEMMA MaxOfTwo ==
    ASSUME NEW a \in Nat, NEW b \in Nat
    PROVE  Max({a, b}) \in Nat /\ Max({a, b}) >= a /\ Max({a, b}) >= b
  <1>1. \E x \in {a, b} : \A y \in {a, b} : x >= y
    OBVIOUS
  <1> QED BY <1>1 DEF Max

LEMMA MinOfTwo ==
    ASSUME NEW a \in Nat, NEW b \in Nat
    PROVE  Min({a, b}) \in Nat /\ Min({a, b}) <= a /\ Min({a, b}) <= b
  <1>1. \E x \in {a, b} : \A y \in {a, b} : x <= y
    OBVIOUS
  <1> QED BY <1>1 DEF Min

(* The fields of an element of a sequence of entries.                      *)
LEMMA EntryFields ==
    ASSUME NEW es \in Seq(Entry), NEW k \in 1 .. Len(es)
    PROVE  es[k].index \in Nat /\ es[k].term \in Nat
  <1>1. es[k] \in Entry
    BY ElementOfSeq, Zenon
  <1> QED BY <1>1 DEF Entry

(* The indexes and terms a log reports are naturals.                       *)
LEMMA LogReads ==
    ASSUME NEW l \in Log
    PROVE  /\ lastIndex(l) \in Nat /\ lastTerm(l) \in Nat
           /\ \A i \in Nat : Term(l, i) \in Nat
  <1>1. l.entries \in Seq(Entry) /\ l.snapIndex \in Nat /\ l.snapTerm \in Nat
    BY DEF Log
  <1>2. \A k \in 1 .. Len(l.entries) : l.entries[k].index \in Nat /\ l.entries[k].term \in Nat
    BY <1>1, EntryFields
  <1>3. l.entries # <<>> => Len(l.entries) \in 1 .. Len(l.entries)
    BY <1>1
  <1>4. lastIndex(l) \in Nat /\ lastTerm(l) \in Nat
    BY <1>1, <1>2, <1>3 DEF lastIndex, lastTerm
  <1>5. ASSUME NEW i \in Nat PROVE Term(l, i) \in Nat
    BY SMTT(60), <1>1, <1>2 DEF Term, HasTerm
  <1> QED BY <1>4, <1>5

LEMMA newRaftLogType == newRaftLog \in Log
  BY DEF newRaftLog, Log

(* A log whose entries are replaced is a log.                              *)
LEMMA EntriesReplaced ==
    ASSUME NEW l \in Log, NEW es \in Seq(Entry)
    PROVE  [l EXCEPT !.entries = es] \in Log
  BY DEF Log

LEMMA AppendAllType ==
    ASSUME NEW l \in Log, NEW es \in Seq(Entry)
    PROVE  AppendAll(l, es) \in Log
  <1>1. l.entries \o es \in Seq(Entry)
    BY DEF Log
  <1> QED BY ZenonT(60), <1>1, EntriesReplaced DEF AppendAll

(* Part of a sequence is a sequence over the same set.                     *)
LEMMA SubSeqType ==
    ASSUME NEW S, NEW s \in Seq(S), NEW a \in Int, NEW b \in Int, a >= 1, b <= Len(s)
    PROVE  SubSeq(s, a, b) \in Seq(S)
  <1>1. \A i \in a .. b : s[i] \in S
    OBVIOUS
  <1> QED BY <1>1, SubSeqProperties, Zenon

LEMMA TruncateAfterType ==
    ASSUME NEW l \in Log, NEW i \in Nat
    PROVE  TruncateAfter(l, i) \in Log
  <1> DEFINE cut == SubSeq(l.entries, 1, i - l.snapIndex - 1)
  <1>1. l.entries \in Seq(Entry) /\ l.snapIndex \in Nat /\ l.snapTerm \in Nat
    BY DEF Log
  <1>2. i - l.snapIndex - 1 < Len(l.entries) => cut \in Seq(Entry)
    BY <1>1, SubSeqType
  <1> DEFINE es == IF i <= l.snapIndex THEN <<>>
                   ELSE IF i - l.snapIndex - 1 < Len(l.entries) THEN cut ELSE l.entries
  <1>3. es \in Seq(Entry)
    BY <1>1, <1>2
  <1>4. TruncateAfter(l, i) = [l EXCEPT !.entries = es]
    BY DEF TruncateAfter
  <1> HIDE DEF es
  <1> QED BY <1>3, <1>4, EntriesReplaced

LEMMA SliceType ==
    ASSUME NEW l \in Log, NEW from \in Nat, NEW to \in Nat
    PROVE  Slice(l, from, to) \in Seq(Entry)
  <1> DEFINE hi == to - l.snapIndex - 1
             b  == IF hi < Len(l.entries) THEN hi ELSE Len(l.entries)
  <1>1. l.entries \in Seq(Entry) /\ l.snapIndex \in Nat
    BY DEF Log
  <1>2. CASE from >= to \/ from <= l.snapIndex
    BY <1>2 DEF Slice
  <1>3. CASE ~(from >= to \/ from <= l.snapIndex)
    <2>1. from - l.snapIndex >= 1 /\ from - l.snapIndex \in Int /\ b \in Int
          /\ b <= Len(l.entries)
      BY <1>1, <1>3
    <2>2. SubSeq(l.entries, from - l.snapIndex, b) \in Seq(Entry)
      BY SMTT(60), <1>1, <2>1, SubSeqType
    <2> QED BY <1>3, <2>2 DEF Slice
  <1> QED BY <1>2, <1>3

LEMMA SetSnapshotType ==
    ASSUME NEW l \in Log, NEW i \in Nat, NEW t \in Nat
    PROVE  SetSnapshot(l, i, t) \in Log
  <1>1. l.entries \in Seq(Entry) /\ l.snapIndex \in Nat
    BY DEF Log
  <1>2. CASE i <= l.snapIndex
    BY <1>2 DEF SetSnapshot
  <1>3. CASE ~(i <= l.snapIndex)
    <2>1. SubSeq(l.entries, i - l.snapIndex + 1, Len(l.entries)) \in Seq(Entry)
      BY <1>1, <1>3, SubSeqType
    <2> QED BY <1>3, <2>1 DEF SetSnapshot, Log
  <1> QED BY <1>2, <1>3

(* HandleAppendEntries' scan leaves a well-formed log.                     *)
LEMMA AppendNewType ==
    ASSUME NEW l \in Log, NEW es \in Seq(Entry)
    PROVE  AppendNew(l, es) \in Log
  <1> DEFINE missing == {k \in 1 .. Len(es) : \/ ~HasTerm(l, es[k].index)
                                              \/ Term(l, es[k].index) # es[k].term}
             k == FirstNew(l, es)
  <1>1. k = 0 \/ k \in 1 .. Len(es)
    <2>1. missing \in SUBSET Nat
      OBVIOUS
    <2>2. missing # {} => Min(missing) \in missing
      BY ZenonT(60), <2>1, MinOfNats
    <2> QED BY <2>2 DEF FirstNew
  <1>2. CASE k = 0
    BY <1>2 DEF AppendNew
  <1>3. CASE k \in 1 .. Len(es)
    <2>1. SubSeq(es, k, Len(es)) \in Seq(Entry)
      <3> HIDE DEF k
      <3> QED BY <1>3, SubSeqType
    <2>2. es[k].index \in Nat
      <3> HIDE DEF k
      <3> QED BY <1>3, EntryFields
    <2>3. TruncateAfter(l, es[k].index) \in Log
      BY <2>2, TruncateAfterType
    <2> DEFINE base == IF HasTerm(l, es[k].index) THEN TruncateAfter(l, es[k].index) ELSE l
    <2>4. base \in Log
      BY <2>3
    <2>5. AppendAll(base, SubSeq(es, k, Len(es))) \in Log
      <3> HIDE DEF base
      <3> QED BY ZenonT(60), <2>1, <2>4, AppendAllType
    <2>6. k # 0
      BY <1>3
    <2> QED BY <2>5, <2>6 DEF AppendNew
  <1> QED BY <1>1, <1>2, <1>3

(* A hint for a non-zero prevLogIndex is never 0.                          *)
LEMMA conflictHintType ==
    ASSUME NEW l \in Log, NEW prev \in Nat \ {0}, NEW t \in Nat
    PROVE  /\ conflictHint(l, prev, t).index \in Nat \ {0}
           /\ conflictHint(l, prev, t).term \in Nat
  <1> DEFINE S == {i \in l.snapIndex + 1 .. prev :
                     \A j \in i .. prev - 1 : HasTerm(l, j) /\ Term(l, j) = t}
  <1>1. l.snapIndex \in Nat /\ lastIndex(l) \in Nat
    BY LogReads DEF Log
  <1>2. ~(prev <= l.snapIndex) => Min(S) \in Nat \ {0}
    <2> SUFFICES ASSUME ~(prev <= l.snapIndex) PROVE Min(S) \in Nat \ {0}
      OBVIOUS
    <2>1. prev \in S
      BY <1>1
    <2>2. S \in SUBSET Nat
      BY <1>1
    <2>3. Min(S) \in S
      BY <2>1, <2>2, MinOfNats
    <2> QED BY <2>3, <1>1
  <1> QED BY <1>1, <1>2 DEF conflictHint

(* Where the leader backs up to is never 0 if the hint is not.             *)
LEMMA BackUpToType ==
    ASSUME NEW l \in Log, NEW ci \in Nat \ {0}, NEW ct \in Nat
    PROVE  BackUpTo(l, ci, ct) \in Nat \ {0}
  <1>1. l.snapIndex \in Nat /\ lastIndex(l) \in Nat
    BY LogReads DEF Log
  <1> QED BY <1>1 DEF BackUpTo

=============================================================================
