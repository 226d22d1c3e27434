------------------------------ MODULE MCServer ------------------------------
(* Small instances of the server loop: one client more than there are      *)
(* slots, so that connections are rejected and slots are used again.       *)
EXTENDS Server

AnyClient == Permutations(Conn)
=============================================================================
