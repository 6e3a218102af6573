------------------------------- MODULE MCClient -------------------------------
(***************************************************************************)
(* Finite instances of Client for TLC.                                     *)
(***************************************************************************)
EXTENDS Client, TLC

CONSTANTS writer, reader, b1, b2, b3

Op(kind, bytes) == [kind |-> kind, bytes |-> bytes]

(* One client stores a file, overwrites it with one that shares a chunk    *)
(* and deletes it; another reads it meanwhile.                             *)
MCProgram ==
    writer :> <<Op("put", <<b1, b2, b3>>), Op("put", <<b3>>), Op("delete", <<>>)>>
 @@ reader :> <<Op("get", <<>>), Op("stat", <<>>)>>

=============================================================================
