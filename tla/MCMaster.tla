-------------------------------- MODULE MCMaster --------------------------------
(***************************************************************************)
(* Finite instances of Master for TLC: a directory, a file in it.          *)
(***************************************************************************)
EXTENDS Master, TLC

dir  == <<"d">>
file == <<"d", "f">>

MCOp == {[kind |-> "delete",   path |-> dir,  chunkIDs |-> <<>>],
         [kind |-> "create",   path |-> file, chunkIDs |-> <<>>],
         [kind |-> "finalize", path |-> file, chunkIDs |-> <<"c1">>],
         [kind |-> "delete",   path |-> file, chunkIDs |-> <<>>]}

Symmetry == Permutations(Call) \cup Permutations(Server)

=============================================================================
