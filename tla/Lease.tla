-------------------------------- MODULE Lease --------------------------------
(***************************************************************************)
(* The lease manager of one master (internal/metadata/lease.go) and        *)
(* GetLease, which hands its leases to chunk servers with the expiry cut   *)
(* to whole seconds.  Every method runs under the manager's mutex and is   *)
(* one action.  Time is counted in milliseconds and only moves forward.    *)
(***************************************************************************)
EXTENDS Integers, FiniteSets

CONSTANTS Chunk, Holder, TTL, None

DefaultLeaseTTL == 60000

Second == 1000

(* NewLeaseManager replaces a lifetime that is not positive.               *)
ttl == IF TTL <= 0 THEN DefaultLeaseTTL ELSE TTL

VARIABLES
    leases,   \* leases[c]: the manager's lease on chunk c, or None
    now,      \* the manager's clock
    told      \* history: leases handed out, until the holder gives them back

vars == <<leases, now, told>>

LeaseRecord == [holder : Holder, expiry : Nat]

Init ==
    /\ leases = [c \in Chunk |-> None]
    /\ now \in Nat
    /\ told = {}

expired(lease, t) == ~ (t < lease.expiry)

(* Check: the valid lease on a chunk, if there is one.                     *)
Valid(c) == leases[c] # None /\ ~expired(leases[c], now)

Count == Cardinality({c \in Chunk : Valid(c)})

(* What the caller of GetLease is told: Expiry.Unix().                     *)
Unix(t) == t \div Second

Tell(c, h, t) == told' = told \cup {[chunk |-> c, holder |-> h, unix |-> Unix(t)]}

(* Grant and GetLease.  Another holder's valid lease is ErrLeaseHeld, and  *)
(* the state does not change.                                              *)
Grant(c, h) ==
    /\ ~ (Valid(c) /\ leases[c].holder # h)
    /\ leases' = [leases EXCEPT ![c] = [holder |-> h, expiry |-> now + ttl]]
    /\ Tell(c, h, now + ttl)
    /\ UNCHANGED now

Renew(c, h) ==
    /\ Valid(c) /\ leases[c].holder = h
    /\ leases' = [leases EXCEPT ![c].expiry = now + ttl]
    /\ Tell(c, h, now + ttl)
    /\ UNCHANGED now

Revoke(c, h) ==
    /\ Valid(c) /\ leases[c].holder = h
    /\ leases' = [leases EXCEPT ![c] = None]
    /\ told' = {l \in told : ~ (l.chunk = c /\ l.holder = h)}
    /\ UNCHANGED now

SweepExpired ==
    /\ leases' = [c \in Chunk |-> IF leases[c] # None /\ expired(leases[c], now)
                                  THEN None ELSE leases[c]]
    /\ UNCHANGED <<now, told>>

Tick(t) ==
    /\ now' = now + t
    /\ UNCHANGED <<leases, told>>

Next ==
    \/ \E c \in Chunk, h \in Holder : Grant(c, h) \/ Renew(c, h) \/ Revoke(c, h)
    \/ SweepExpired
    \/ \E t \in Nat : Tick(t)

Spec == Init /\ [][Next]_vars

-----------------------------------------------------------------------------
(* The variables have their types.                                         *)
TypeOK ==
    /\ leases \in [Chunk -> LeaseRecord \cup {None}]
    /\ now \in Nat
    /\ told \subseteq [chunk : Chunk, holder : Holder, unix : Nat]

(* What a chunk server was told is still in force by the manager's clock.  *)
InForce(l) == now < l.unix * Second

(***************************************************************************)
(* "Lease grants a single node the exclusive right to coordinate writes to *)
(* a chunk" (lease.go): two leases of one manager that are in force at the *)
(* same time and were not given back have one holder, through renewals,    *)
(* reclaimed leases, sweeps and the rounding of what is sent.              *)
(***************************************************************************)
OneHolder ==
    \A l1, l2 \in told :
        l1.chunk = l2.chunk /\ InForce(l1) /\ InForce(l2) => l1.holder = l2.holder

(***************************************************************************)
(* A lease in force is never forgotten: Check still answers with its       *)
(* holder.  (SweepExpired and Grant replace only leases that every chunk   *)
(* server sees as expired.)                                                *)
(***************************************************************************)
HolderKnown ==
    \A l \in told : InForce(l) => Valid(l.chunk) /\ leases[l.chunk].holder = l.holder

=============================================================================
