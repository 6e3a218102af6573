-------------------------------- MODULE Master --------------------------------
(***************************************************************************)
(* The write path of the masters (internal/master/server.go): a write RPC  *)
(* proposes a command to the local Raft node and waits on a channel; the   *)
(* loop Run applies what Raft delivers and wakes the waiter of each        *)
(* command.  Raft is the ReplicatedLog it implements; a node may accept a  *)
(* proposal it later loses with its leadership.  A master that restarts    *)
(* keeps its namespace, which BadgerDB persists, and receives the log from *)
(* the beginning, because the Raft node starts over.                       *)
(***************************************************************************)
EXTENDS Namespace

CONSTANTS
    Server,        \* the masters
    Call,          \* write RPCs of clients
    Op,            \* the operations they may ask for
    None,
    MaxMishaps     \* bound: failed writes and restarts of masters

VARIABLES
    committed, delivered,  \* of ReplicatedLog; delivered[m] is what Run has taken
    proposed,      \* commands accepted by a leader and not committed
    opSeq,         \* opSeq[m]: the last OpID m has used
    waiters,       \* waiters[m]: OpID -> the call whose channel is registered
    ch,            \* ch[c]: the channel of call c, of capacity 1
    call,          \* call[c]: where the handler of c is
    ns,            \* ns[m]: the tree in m's store
    loop,          \* loop[m]: where Run is
    mishaps,       \* failed writes and restarts so far
    failed,        \* history: failed[m], entries of this life with a failed write
    reached,       \* history: reached[m], entries taken before the last restart
    damaged        \* history: masters that had a failed write

logVars   == <<committed, delivered, proposed>>
callVars  == <<opSeq, waiters, call>>
pastVars  == <<mishaps, reached, failed, damaged>>
vars == <<logVars, callVars, ch, ns, loop, pastVars>>

RL == INSTANCE ReplicatedLog WITH Node <- Server

idle == [pc |-> "idle", todo |-> <<>>, err |-> "nil", wake |-> None]

noCall == [pc |-> "new", at |-> None, id |-> 0, op |-> None, result |-> "none"]

Done(result) == [noCall EXCEPT !.pc = "done", !.result = result]

Init ==
    /\ RL!Init /\ proposed = {}
    /\ opSeq = [m \in Server |-> 0]
    /\ waiters = [m \in Server |-> <<>>]
    /\ ch = [c \in Call |-> <<>>]
    /\ call = [c \in Call |-> noCall]
    /\ ns = [m \in Server |-> empty]
    /\ loop = [m \in Server |-> idle]
    /\ mishaps = 0
    /\ failed = [m \in Server |-> {}] /\ damaged = {}
    /\ reached = [m \in Server |-> 0]

-----------------------------------------------------------------------------
(***************************************************************************)
(* CreateFile, FinalizeWrite and DeleteFile, through propose.              *)
(***************************************************************************)
Command(c) == [id |-> call[c].id, call |-> c, kind |-> call[c].op.kind,
               path |-> call[c].op.path, chunkIDs |-> call[c].op.chunkIDs]

(* waiters[m] is a sequence: position id holds the call, or None.          *)
Register_Omitted(m, id, c) == Append(waiters[m], None)

Register(m, id, c) == Append(waiters[m], c)

(* propose up to the call of node.Propose: a fresh OpID of this process.   *)
ProposeStart(c, m, op) ==
    /\ call[c].pc = "new"
    /\ opSeq' = [opSeq EXCEPT ![m] = @ + 1]
    /\ waiters' = [waiters EXCEPT ![m] = Register(m, opSeq[m] + 1, c)]
    /\ call' = [call EXCEPT ![c] = [pc |-> "propose", at |-> m, id |-> opSeq[m] + 1,
                                    op |-> op, result |-> "none"]]
    /\ UNCHANGED <<logVars, ch, ns, loop, pastVars>>

Leave(c, result) ==
    call' = [call EXCEPT ![c].pc = "leave", ![c].result = result]

Proposed_NotAwaited(c) == Leave(c, "ok")

Proposed(c) == call' = [call EXCEPT ![c].pc = "wait"]

(* node.Propose appends the command to the log of a leader ...             *)
ProposeAccepted(c) ==
    /\ call[c].pc = "propose"
    /\ proposed' = proposed \cup {Command(c)}
    /\ Proposed(c)
    /\ UNCHANGED <<committed, delivered, opSeq, waiters, ch, ns, loop, pastVars>>

(* ... or returns ErrNotLeader.                                            *)
ProposeRefused(c) ==
    /\ call[c].pc = "propose"
    /\ Leave(c, "unavailable")
    /\ UNCHANGED <<logVars, opSeq, waiters, ch, ns, loop, pastVars>>

(* The select: the result of apply ...                                     *)
Receive(c) ==
    /\ call[c].pc = "wait" /\ ch[c] # <<>>
    /\ ch' = [ch EXCEPT ![c] = Tail(@)]
    /\ Leave(c, IF Head(ch[c]) = "nil" THEN "ok" ELSE "internal")
    /\ UNCHANGED <<logVars, opSeq, waiters, ns, loop, pastVars>>

(* ... or the end of the client's context.                                 *)
ContextDone(c) ==
    /\ call[c].pc = "wait"
    /\ Leave(c, "deadline")
    /\ UNCHANGED <<logVars, opSeq, waiters, ch, ns, loop, pastVars>>

(* The deferred delete of the waiter, and the Stat that follows a          *)
(* successful create or finalize.                                          *)
Return(c) ==
    LET m    == call[c].at
        gone == call[c].op.kind # "delete" /\ ~Found(ns[m], call[c].op.path)
    IN  /\ call[c].pc = "leave"
        /\ waiters' = [waiters EXCEPT ![m][call[c].id] = None]
        /\ call' = [call EXCEPT ![c] = Done(IF @.result = "ok" /\ gone THEN "internal"
                                            ELSE @.result)]
        /\ UNCHANGED <<logVars, opSeq, ch, ns, loop, pastVars>>

-----------------------------------------------------------------------------
(***************************************************************************)
(* Raft commits an accepted proposal, or never does: a later leader may    *)
(* overwrite it.                                                           *)
(***************************************************************************)
Commit(cmd) ==
    /\ proposed' = proposed \ {cmd}
    /\ committed' = Append(committed, cmd) /\ UNCHANGED delivered
    /\ UNCHANGED <<callVars, ch, ns, loop, pastVars>>

-----------------------------------------------------------------------------
(***************************************************************************)
(* Run.  It takes an entry from commitCh and starts to apply it;           *)
(***************************************************************************)
Take(m) ==
    /\ loop[m].pc = "idle"
    /\ RL!Deliver(m)
    /\ loop' = [loop EXCEPT ![m].pc = "apply",
                            ![m].todo = WritesOf(ns[m], Last(delivered'[m]))]
    /\ UNCHANGED <<proposed, callVars, ch, ns, pastVars>>

(* performs one write to the store,                                        *)
Write(m) ==
    /\ loop[m].pc = "apply" /\ loop[m].todo # <<>>
    /\ ns' = [ns EXCEPT ![m] = Perform(@, Head(loop[m].todo))]
    /\ loop' = [loop EXCEPT ![m].todo = Tail(@)]
    /\ UNCHANGED <<logVars, callVars, ch, pastVars>>

FaultErr == "error"

(* which may fail, and then the command is given up;                       *)
WriteFails(m) ==
    /\ loop[m].pc = "apply" /\ loop[m].todo # <<>>
    /\ mishaps < MaxMishaps /\ mishaps' = mishaps + 1
    /\ loop' = [loop EXCEPT ![m].todo = <<>>, ![m].err = FaultErr]
    /\ failed' = [failed EXCEPT ![m] = @ \cup {Len(delivered[m])}]
    /\ damaged' = damaged \cup {m}
    /\ UNCHANGED <<logVars, callVars, ch, ns, reached>>

(* looks the OpID up among the waiters, under the mutex,                   *)
Waiter(m, id) == IF id \in DOMAIN waiters[m] THEN waiters[m][id] ELSE None

Lookup(m) ==
    /\ loop[m].pc = "apply" /\ loop[m].todo = <<>>
    /\ LET w == Waiter(m, Last(delivered[m]).id)
       IN  loop' = [loop EXCEPT ![m] = IF w = None THEN idle
                                       ELSE [@ EXCEPT !.pc = "send", !.wake = w]]
    /\ UNCHANGED <<logVars, callVars, ch, ns, pastVars>>

HasRoom_Unbuffered(c) == call[c].pc = "wait" /\ ch[c] = <<>>

HasRoom(c) == ch[c] = <<>>

(* and sends the result to the channel it found, once that has room.       *)
Send(m) ==
    /\ loop[m].pc = "send" /\ HasRoom(loop[m].wake)
    /\ ch' = [ch EXCEPT ![loop[m].wake] = <<loop[m].err>>]
    /\ loop' = [loop EXCEPT ![m] = idle]
    /\ UNCHANGED <<logVars, callVars, ns, pastVars>>

Runs(m) == Take(m) \/ Write(m) \/ WriteFails(m) \/ Lookup(m) \/ Send(m)

-----------------------------------------------------------------------------
(* The process stops at any point and starts again: the store is kept.     *)
Restart(m) ==
    /\ mishaps < MaxMishaps /\ mishaps' = mishaps + 1
    /\ opSeq' = [opSeq EXCEPT ![m] = 0]
    /\ waiters' = [waiters EXCEPT ![m] = <<>>]
    /\ call' = [c \in Call |-> IF call[c].at = m
                               THEN Done("unavailable")
                               ELSE call[c]]
    /\ loop' = [loop EXCEPT ![m] = idle]
    /\ reached' = [reached EXCEPT ![m] = Max({@, Len(delivered[m])})]
    /\ delivered' = [delivered EXCEPT ![m] = <<>>]
    /\ failed' = [failed EXCEPT ![m] = {}]
    /\ UNCHANGED <<committed, proposed, ch, ns, damaged>>

Handles(c) ==
    ProposeAccepted(c) \/ ProposeRefused(c) \/ Receive(c) \/ ContextDone(c) \/ Return(c)

Next ==
    \/ \E c \in Call, m \in Server, op \in Op : ProposeStart(c, m, op)
    \/ \E c \in Call : Handles(c)
    \/ \E cmd \in proposed : Commit(cmd)
    \/ \E m \in Server : Runs(m) \/ Restart(m)

Spec == Init /\ [][Next]_vars

-----------------------------------------------------------------------------
(* Entry k of this life of m is applied: all its writes are done.          *)
Applied(m, k) ==
    /\ k \in DOMAIN delivered[m] \ failed[m]
    /\ k = Len(delivered[m]) => loop[m].pc # "apply"

(***************************************************************************)
(* "propose replicates cmd through Raft and blocks until it is applied     *)
(* locally" (server.go): a call that succeeds has its own command applied  *)
(* on its master.                                                          *)
(***************************************************************************)
AckedApplied ==
    \A c \in Call :
        call[c].pc = "leave" /\ call[c].result = "ok" =>
            \E k \in DOMAIN delivered[call[c].at] :
                Applied(call[c].at, k) /\ delivered[call[c].at][k].call = c

(* Two commands of the log have the same OpID: masters number their        *)
(* commands independently and start over when they restart.                *)
SameID(cmd) == \E k \in DOMAIN committed : committed[k].id = cmd.id /\ committed[k].call # cmd.call

(***************************************************************************)
(* Unless commands share their OpIDs a call that succeeds has its own      *)
(* command applied on its master; in any case some command with its OpID   *)
(* is.                                                                     *)
(***************************************************************************)
AckedIDApplied ==
    \A c \in Call :
        call[c].pc = "leave" /\ call[c].result = "ok" =>
            \E k \in DOMAIN delivered[call[c].at] :
                /\ Applied(call[c].at, k)
                /\ delivered[call[c].at][k].id = call[c].id
                /\ delivered[call[c].at][k].call = c \/ SameID(Command(c))

(* A path no operation uses as a directory.                                *)
Leaf(p) == \A op \in Op : ~IsStrictPrefix(p, op.path)

Paths(m) == DOMAIN ns[m] \cup DOMAIN Replayed(delivered[m])

SameAt(t, u, p) == (Found(t, p) <=> Found(u, p)) /\ (Found(t, p) => t[p] = u[p])

(***************************************************************************)
(* Between commands the tree of a master is what the commands it has taken *)
(* make of the empty tree.  After a restart in the middle of anything, and *)
(* once the log is replayed as far as before it, that still holds for the  *)
(* paths that no operation uses as a directory ("already present           *)
(* (idempotent replay)", server.go).                                       *)
(***************************************************************************)
TreesConverge ==
    \A m \in Server \ damaged :
        loop[m].pc # "apply" /\ Len(delivered[m]) >= reached[m] =>
            \A p \in Paths(m) :
                Leaf(p) \/ reached[m] = 0 => SameAt(ns[m], Replayed(delivered[m]), p)

(***************************************************************************)
(* At every moment, also between the writes of a command, after a write    *)
(* that failed and after a restart, every inode of a tree is found by      *)
(* listing directories from the root, unless a directory was deleted with  *)
(* files in it (ensureParents writes the outermost directory first).       *)
(***************************************************************************)
ListedFromRoot ==
    (\A k \in DOMAIN committed : committed[k].kind = "delete" => Leaf(committed[k].path)) =>
        \A m \in Server : \A p \in DOMAIN ns[m] : \A i \in 0 .. Len(p) - 1 :
            LET d == SubSeq(p, 1, i)
            IN  Listable(ns[m], d) /\ SubSeq(p, 1, i + 1) \in ListDir(ns[m], d)

(***************************************************************************)
(* No wake-up is lost: while a handler waits, either its command has not   *)
(* been dealt with or a result is in its channel (propose registers the    *)
(* waiter before it proposes the command).                                 *)
(***************************************************************************)
NoLostResult ==
    \A c \in Call : \A k \in 1 .. Len(committed) :
        LET m == call[c].at
        IN  /\ call[c].pc = "wait"
            /\ k \in DOMAIN delivered[m] /\ delivered[m][k].call = c
            /\ k < Len(delivered[m]) \/ loop[m].pc = "idle"
            => ch[c] # <<>>

(***************************************************************************)
(* Run is never blocked for good on the channel of a handler that has left *)
(* without reading it, unless OpIDs collide: then a second result comes    *)
(* for the same channel.                                                   *)
(***************************************************************************)
RunNotBlocked ==
    \A m \in Server :
        /\ loop[m].pc = "send" /\ ~HasRoom(loop[m].wake)
        /\ call[loop[m].wake].pc \in {"leave", "done"}
        => \E k \in DOMAIN committed : SameID(committed[k])

=============================================================================
