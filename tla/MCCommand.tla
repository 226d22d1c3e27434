----------------------------- MODULE MCCommand -----------------------------
(***************************************************************************)
(* Small instances: an empty and a filled key; the empty value, one that   *)
(* leaves just enough room for the reply and one that does not.  The first *)
(* of these two has the words of a request to zap at its beginning, which  *)
(* one of the cuts uncovers.                                               *)
(***************************************************************************)
EXTENDS Command

CONSTANT MaxLost    \* bound: entries that are lost at a time

Repeated(d, n) == [i \in 1 .. n |-> Data(d)]

Spelled == <<Id("HSHr")>> \o Chunk("CMND", <<Token("zap")>>) \o <<Id("endm")>> \o Repeated("w", 14)

Keys     == {<<>>, Repeated("k", 1)}
Values   == {<<>>, Spelled, Repeated("x", 20)}
Patterns == {Repeated("p", 2)}
Counters == {1}
Methods  == {-1, 1, 10}
Minima   == {4}
Starts   == {1}
Limits   == {2}

\* Requests whose replies depend on what is found and what is lost.  The reply to
\* any other is the same whatever the table holds, and is checked with the tables
\* in which nothing has strayed.
Complete(r) ==
    /\ r.CMND # NULL /\ r.CMND[1].token \notin Others \ {"zap"}
    /\ r.cntr # NULL
    /\ \A id \in {"QKEY", "QVAL"} :
          r[id] = NULL => r.CMND[1].token \in Searches \cup Counts \cup {"zap", "reorg"} \/
                         (id = "QVAL" /\ r.CMND[1].token # "set")

MCNext ==
    /\ Next
    /\ Cardinality(lost') <= MaxLost
    /\ strayed' /\ pc' = "process" => Complete(request')

MCSpec == Init /\ [][MCNext]_vars
=============================================================================
