------------------------------- MODULE Namespace -------------------------------
(***************************************************************************)
(* The inode tree of internal/metadata/namespace.go over the key/value     *)
(* store of store.go, and the commands that internal/master/server.go      *)
(* applies to it.  A path is the sequence of its names, the root <<>>; a   *)
(* tree is a function from the paths present to their inodes.  An inode    *)
(* keeps what later operations depend on: whether it is a directory, and   *)
(* its chunk IDs.  Sizes, modes and times are left out.                    *)
(***************************************************************************)
EXTENDS Naturals, FiniteSets, SequencesExt

FileInfo(chunkIDs) == [isDir |-> FALSE, chunkIDs |-> chunkIDs]

DirInfo == [isDir |-> TRUE, chunkIDs |-> <<>>]

empty == [p \in {} |-> DirInfo]

(* Store.Put and Store.Delete, each a transaction of its own.              *)
Put(tree, p, info) == [q \in DOMAIN tree \cup {p} |-> IF q = p THEN info ELSE tree[q]]

Delete(tree, p) == [q \in DOMAIN tree \ {p} |-> tree[q]]

(* Store.Get and Store.Scan, whose prefix is a path with its slash.        *)
Get(tree, p) == {tree[q] : q \in DOMAIN tree \cap {p}}

Scan(tree, d) == {p \in DOMAIN tree : IsStrictPrefix(d, p)}

(* Stat: ErrNotFound when Get has ErrKeyNotFound.                          *)
Found(tree, p) == Get(tree, p) # {}

-----------------------------------------------------------------------------
(***************************************************************************)
(* A command is applied by a sequence of writes to the store; only the     *)
(* master's apply loop writes, so it is fixed when the command is taken.   *)
(***************************************************************************)
PutOf(p, info) == [kind |-> "put", path |-> p, info |-> info]

DeleteOf(p) == [kind |-> "delete", path |-> p, info |-> DirInfo]

Perform(tree, w) ==
    IF w.kind = "put" THEN Put(tree, w.path, w.info) ELSE Delete(tree, w.path)

(* CreateFile and CreateDir refuse a path that is there, UpdateFile one    *)
(* that is not; each writes the whole inode.                               *)
CreateFile(tree, p, info) == IF Found(tree, p) THEN <<>> ELSE <<PutOf(p, info)>>

CreateDir(tree, p) == IF Found(tree, p) THEN <<>> ELSE <<PutOf(p, DirInfo)>>

UpdateFile(tree, p, info) == IF Found(tree, p) THEN <<PutOf(p, info)>> ELSE <<>>

(* ensureParents: CreateDir for every ancestor, outermost first.           *)
ensureParents(tree, p) ==
    FlattenSeq([i \in 1 .. Len(p) - 1 |-> CreateDir(tree, SubSeq(p, 1, i))])

ApplyCreate_ParentsLast(tree, p) ==
    IF Found(tree, p) THEN <<>>
    ELSE CreateFile(tree, p, FileInfo(<<>>)) \o ensureParents(tree, p)

ApplyCreate(tree, p) ==
    IF Found(tree, p) THEN <<>>
    ELSE ensureParents(tree, p) \o CreateFile(tree, p, FileInfo(<<>>))

ApplyFinalize_Merged(tree, p, chunkIDs) ==
    IF Found(tree, p) THEN UpdateFile(tree, p, FileInfo(tree[p].chunkIDs \o chunkIDs))
    ELSE ensureParents(tree, p) \o CreateFile(tree, p, FileInfo(chunkIDs))

ApplyFinalize(tree, p, chunkIDs) ==
    IF Found(tree, p) THEN UpdateFile(tree, p, FileInfo(chunkIDs))
    ELSE ensureParents(tree, p) \o CreateFile(tree, p, FileInfo(chunkIDs))

(* DeleteFile takes files and directories, and leaves children alone; to   *)
(* apply, ErrNotFound is success.                                          *)
DeleteFile(tree, p) == IF Found(tree, p) THEN <<DeleteOf(p)>> ELSE <<>>

ApplyDelete(tree, p) == DeleteFile(tree, p)

(* apply: the writes for a command.                                        *)
WritesOf(tree, cmd) ==
    CASE cmd.kind = "create"   -> ApplyCreate(tree, cmd.path)
      [] cmd.kind = "finalize" -> ApplyFinalize(tree, cmd.path, cmd.chunkIDs)
      [] cmd.kind = "delete"   -> ApplyDelete(tree, cmd.path)

(* The tree after a sequence of commands, from the empty one.              *)
Replayed(cmds) ==
    FoldLeft(LAMBDA tree, cmd : FoldLeft(Perform, tree, WritesOf(tree, cmd)), empty, cmds)

-----------------------------------------------------------------------------
(* ListDir: the direct children of a directory; of anything else an error. *)
Listable(tree, d) == d = <<>> \/ (Found(tree, d) /\ tree[d].isDir)

ListDir(tree, d) == {p \in Scan(tree, d) : Len(p) = Len(d) + 1}

=============================================================================
