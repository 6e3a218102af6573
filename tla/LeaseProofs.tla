------------------------------ MODULE LeaseProofs ------------------------------
(***************************************************************************)
(* A chunk has one holder, for every set of chunks and holders, every      *)
(* lifetime and every passage of time.  The manager's lease outlives what  *)
(* it told (Covers); for a renewal to keep that true of older messages, no *)
(* lease reaches further than one lifetime from now (Reach).               *)
(***************************************************************************)
EXTENDS Lease, TLAPS

Reach == \A c \in Chunk : leases[c] # None => leases[c].expiry <= now + ttl

Covers ==
    \A l \in told : InForce(l) =>
        /\ leases[l.chunk] # None
        /\ leases[l.chunk].holder = l.holder
        /\ l.unix * Second <= leases[l.chunk].expiry

LeaseInv == TypeOK /\ Reach /\ Covers

LEMMA TTLPositive == ASSUME TTL \in Int PROVE ttl \in Nat /\ ttl > 0
  BY DEF ttl, DefaultLeaseTTL

(* Cutting to whole seconds never lengthens a lease.                       *)
LEMMA UnixRoundsDown == ASSUME NEW t \in Nat PROVE Unix(t) \in Nat /\ Unix(t) * Second <= t
  BY DEF Unix, Second

LEMMA NotALease == ASSUME None \notin LeaseRecord, NEW h \in Holder, NEW t \in Nat
                   PROVE  [holder |-> h, expiry |-> t] \in LeaseRecord
                          /\ [holder |-> h, expiry |-> t] # None
  BY DEF LeaseRecord

LEMMA LeaseInit == Init => LeaseInv
  BY DEF Init, LeaseInv, TypeOK, Reach, Covers

(* A lease on c that h gets or keeps, and the message that says so.        *)
LEMMA LeaseGiven ==
    ASSUME TTL \in Int, None \notin LeaseRecord, LeaseInv, NEW c \in Chunk, NEW h \in Holder,
           Valid(c) => leases[c].holder = h,
           leases' = [leases EXCEPT ![c] = [holder |-> h, expiry |-> now + ttl]],
           Tell(c, h, now + ttl), now' = now
    PROVE  LeaseInv'
  <1> DEFINE new == [holder |-> h, expiry |-> now + ttl]
             msg == [chunk |-> c, holder |-> h, unix |-> Unix(now + ttl)]
  <1>1. now \in Nat /\ ttl \in Nat /\ now + ttl \in Nat
    BY TTLPositive DEF LeaseInv, TypeOK
  <1>2. new \in LeaseRecord /\ new # None
    BY <1>1, NotALease
  <1>3. Unix(now + ttl) \in Nat /\ Unix(now + ttl) * Second <= now + ttl
    BY <1>1, UnixRoundsDown
  <1>4. TypeOK'
    BY <1>1, <1>2, <1>3 DEF LeaseInv, TypeOK, Tell
  <1>5. Reach'
    BY <1>1, <1>2 DEF LeaseInv, TypeOK, Reach
  <1>6. Covers'
    <2> SUFFICES ASSUME NEW l \in told', InForce(l)'
                 PROVE  /\ leases'[l.chunk] # None
                        /\ leases'[l.chunk].holder = l.holder
                        /\ l.unix * Second <= leases'[l.chunk].expiry
      BY DEF Covers
    <2>1. leases'[c] = new /\ \A d \in Chunk : d # c => leases'[d] = leases[d]
      BY DEF LeaseInv, TypeOK
    <2>2. CASE l = msg
      BY <1>2, <1>3, <2>1, <2>2
    <2>3. CASE l \in told
      <3>1. InForce(l) /\ l.chunk \in Chunk /\ l.unix \in Nat
        BY <2>3 DEF InForce, LeaseInv, TypeOK
      <3>2. /\ leases[l.chunk] # None /\ leases[l.chunk].holder = l.holder
            /\ l.unix * Second <= leases[l.chunk].expiry
        BY <2>3, <3>1 DEF LeaseInv, Covers
      <3>3. CASE l.chunk # c
        BY <2>1, <3>1, <3>2, <3>3
      <3>4. CASE l.chunk = c
        <4>1. leases[c] \in LeaseRecord
          BY <3>2, <3>4 DEF LeaseInv, TypeOK
        <4>2. leases[c].expiry \in Nat
          BY <4>1 DEF LeaseRecord
        <4>3. now < leases[c].expiry
          BY <1>1, <3>1, <3>2, <3>4, <4>2 DEF InForce, Second
        <4>4. l.holder = h
          BY <3>2, <3>4, <4>3 DEF Valid, expired
        <4>5. l.unix * Second <= now + ttl
          BY <1>1, <3>1, <3>2, <3>4, <4>2 DEF LeaseInv, Reach, Second
        <4> QED BY <1>2, <2>1, <3>4, <4>4, <4>5
      <3> QED BY <3>3, <3>4
    <2> QED BY <2>2, <2>3 DEF Tell
  <1> QED BY <1>4, <1>5, <1>6 DEF LeaseInv

LEMMA LeaseStep ==
    ASSUME TTL \in Int, None \notin LeaseRecord, LeaseInv, [Next]_vars
    PROVE  LeaseInv'
  <1>1. ASSUME NEW c \in Chunk, NEW h \in Holder, Grant(c, h) PROVE LeaseInv'
    BY <1>1, LeaseGiven DEF Grant
  <1>2. ASSUME NEW c \in Chunk, NEW h \in Holder, Renew(c, h) PROVE LeaseInv'
    <2>1. leases[c] \in LeaseRecord /\ leases[c].holder = h
      BY <1>2 DEF Renew, Valid, LeaseInv, TypeOK
    <2>2. [leases[c] EXCEPT !.expiry = now + ttl] = [holder |-> h, expiry |-> now + ttl]
      BY <2>1 DEF LeaseRecord
    <2>3. leases' = [leases EXCEPT ![c] = [holder |-> h, expiry |-> now + ttl]]
      BY <1>2, <2>2 DEF Renew
    <2> QED BY <1>2, <2>3, LeaseGiven DEF Renew
  <1>3. ASSUME NEW c \in Chunk, NEW h \in Holder, Revoke(c, h) PROVE LeaseInv'
    <2>1. leases' = [leases EXCEPT ![c] = None] /\ now' = now
          /\ told' = {l \in told : ~ (l.chunk = c /\ l.holder = h)} /\ leases[c].holder = h
      BY <1>3 DEF Revoke
    <2>2. TypeOK'
      BY <2>1 DEF LeaseInv, TypeOK
    <2>3. Reach'
      BY <2>1 DEF LeaseInv, TypeOK, Reach
    <2>4. Covers'
      BY <2>1 DEF LeaseInv, TypeOK, Covers, InForce
    <2> QED BY <2>2, <2>3, <2>4 DEF LeaseInv
  <1>4. CASE SweepExpired
    <2>1. TypeOK'
      BY <1>4 DEF SweepExpired, LeaseInv, TypeOK
    <2>2. Reach'
      BY <1>4 DEF SweepExpired, LeaseInv, TypeOK, Reach
    <2>3. Covers'
      <3> SUFFICES ASSUME NEW l \in told, InForce(l)
                   PROVE  leases'[l.chunk] = leases[l.chunk]
        BY <1>4 DEF SweepExpired, LeaseInv, Covers, InForce
      <3>1. l.chunk \in Chunk /\ l.unix \in Nat /\ now \in Nat
        BY DEF LeaseInv, TypeOK
      <3>2. leases[l.chunk] # None /\ l.unix * Second <= leases[l.chunk].expiry
        BY DEF LeaseInv, Covers
      <3>3. leases[l.chunk].expiry \in Nat
        BY <3>1, <3>2 DEF LeaseInv, TypeOK, LeaseRecord
      <3>4. ~expired(leases[l.chunk], now)
        BY <3>1, <3>2, <3>3 DEF expired, InForce, Second
      <3> QED BY <1>4, <3>1, <3>4 DEF SweepExpired
    <2> QED BY <2>1, <2>2, <2>3 DEF LeaseInv
  <1>5. ASSUME NEW t \in Nat, Tick(t) PROVE LeaseInv'
    <2>1. ttl \in Nat /\ now \in Nat
      BY TTLPositive DEF LeaseInv, TypeOK
    <2>2. TypeOK'
      BY <1>5 DEF Tick, LeaseInv, TypeOK
    <2>3. Reach'
      BY <1>5, <2>1 DEF Tick, LeaseInv, TypeOK, Reach, LeaseRecord
    <2>4. \A l \in told : l.unix \in Nat /\ (InForce(l)' => InForce(l))
      BY <1>5, <2>1 DEF Tick, LeaseInv, TypeOK, InForce, Second
    <2>5. Covers'
      BY <1>5, <2>4 DEF Tick, LeaseInv, Covers
    <2> QED BY <2>2, <2>3, <2>5 DEF LeaseInv
  <1>6. CASE UNCHANGED vars
    BY <1>6 DEF vars, LeaseInv, TypeOK, Reach, Covers, InForce
  <1> QED BY <1>1, <1>2, <1>3, <1>4, <1>5, <1>6 DEF Next

LEMMA LeaseInvImplies == LeaseInv => OneHolder /\ HolderKnown
  <1> SUFFICES ASSUME LeaseInv PROVE OneHolder /\ HolderKnown
    OBVIOUS
  <1>1. OneHolder
    BY DEF LeaseInv, Covers, OneHolder
  <1>2. HolderKnown
    <2> SUFFICES ASSUME NEW l \in told, InForce(l)
                 PROVE  Valid(l.chunk) /\ leases[l.chunk].holder = l.holder
      BY DEF HolderKnown
    <2>1. l.chunk \in Chunk /\ l.unix \in Nat /\ now \in Nat
      BY DEF LeaseInv, TypeOK
    <2>2. /\ leases[l.chunk] # None /\ leases[l.chunk].holder = l.holder
          /\ l.unix * Second <= leases[l.chunk].expiry
      BY DEF LeaseInv, Covers
    <2>3. leases[l.chunk].expiry \in Nat
      BY <2>1, <2>2 DEF LeaseInv, TypeOK, LeaseRecord
    <2> QED BY <2>1, <2>2, <2>3 DEF Valid, expired, InForce, Second
  <1> QED BY <1>1, <1>2

(***************************************************************************)
(* One manager never has two holders of a chunk with leases in force, and  *)
(* never forgets the one it has, for every lifetime NewLeaseManager is     *)
(* given.  (None is not a lease: the map's missing entry.)                 *)
(***************************************************************************)
THEOREM LeaseExclusive ==
    ASSUME TTL \in Int, None \notin LeaseRecord
    PROVE  Spec => [](OneHolder /\ HolderKnown)
  <1>1. Init => LeaseInv
    BY LeaseInit
  <1>2. LeaseInv /\ [Next]_vars => LeaseInv'
    BY LeaseStep
  <1>3. LeaseInv => OneHolder /\ HolderKnown
    BY LeaseInvImplies
  <1> QED BY <1>1, <1>2, <1>3, PTL DEF Spec

=============================================================================
