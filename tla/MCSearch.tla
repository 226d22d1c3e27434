------------------------------ MODULE MCSearch ------------------------------
(* Limits around every edge: absent, negative, none, one, and too many.    *)
EXTENDS Search

Starts == {-2, -1, 0, 1, 2, 4}
Counts == {-1, 0, 1, 2, 4}
=============================================================================
