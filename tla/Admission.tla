----------------------------- MODULE Admission -----------------------------
(***************************************************************************)
(* What the hashr server promises to those who connect: a session number   *)
(* that nobody else has or had, as long as a place is free; the number 0,  *)
(* a refusal, only when all places are taken; and the place of a session   *)
(* is free again when the session is over.                                 *)
(***************************************************************************)
EXTENDS Naturals, FiniteSets

CONSTANTS Conn, Places, NULL

VARIABLES
    outcome,    \* session number of a connection; 0: refused; NULL: neither
    issued      \* the last session number given out

Admitted == {c \in Conn : outcome[c] \notin {NULL, 0}}

Init == outcome = [c \in Conn |-> NULL] /\ issued = 0

Admit(c) ==
    /\ outcome[c] = NULL
    /\ Cardinality(Admitted) < Places
    /\ issued' = issued + 1
    /\ outcome' = [outcome EXCEPT ![c] = issued']

Refuse(c) ==
    /\ outcome[c] = NULL
    /\ Cardinality(Admitted) = Places
    /\ outcome' = [outcome EXCEPT ![c] = 0]
    /\ UNCHANGED issued

Leave(c) ==
    /\ outcome[c] # NULL
    /\ outcome' = [outcome EXCEPT ![c] = NULL]
    /\ UNCHANGED issued

Next == \E c \in Conn : Admit(c) \/ Refuse(c) \/ Leave(c)

Spec == Init /\ [][Next]_<<outcome, issued>>
=============================================================================
