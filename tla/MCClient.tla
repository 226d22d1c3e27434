------------------------------ MODULE MCClient ------------------------------
(* The client with finitely many states, although its heartbeat never      *)
(* ends.  Counters are only compared with each other, so the numbers that  *)
(* are in use somewhere are kept dense: after each step they are renumbered*)
(* in their order, and what no statement will read again is forgotten.     *)
EXTENDS Client, FiniteSets

CONSTANT MaxLate    \* bound: requests on their way when a select times out

Reading == mode = "single" \/ \E t \in Thread : pc[t] \in {"parse", "compare", "show"}

Numbers(data) == IF data = EOF THEN {} ELSE {data.n}

Used ==
    {counter}
      \cup {req[t] : t \in {u \in Thread : Stamped(u)}}
      \cup UNION {Numbers(response[t]) : t \in {u \in Thread : At(u, "assign")}}
      \cup {requests[i].n : i \in DOMAIN requests} \cup {replies[i].n : i \in DOMAIN replies}
      \cup IF Reading /\ parser # NULL THEN Numbers(parser.data) ELSE {}

Rank(n) == Cardinality({m \in Used : m < n})

Ranked(data) == IF data = EOF THEN EOF ELSE [data EXCEPT !.n = Rank(@)]

Renumbered ==
    [counter |-> Rank(counter),
     req |-> [t \in Thread |-> IF Stamped(t) THEN Rank(req[t]) ELSE 0],
     response |-> [t \in Thread |-> IF At(t, "assign") THEN Ranked(response[t]) ELSE EOF],
     requests |-> [i \in DOMAIN requests |-> Ranked(requests[i])],
     replies |-> [i \in DOMAIN replies |-> Ranked(replies[i])],
     parser |-> IF ~Reading \/ parser = NULL THEN NULL
                ELSE [data |-> Ranked(parser.data),
                      counter |-> IF parser.counter = NULL THEN NULL ELSE Rank(parser.counter)]]

Numbered == [counter |-> counter, req |-> req, response |-> response,
             requests |-> requests, replies |-> replies, parser |-> parser]

Renumber ==
    /\ counter' = Renumbered.counter /\ req' = Renumbered.req
    /\ response' = Renumbered.response /\ parser' = Renumbered.parser
    /\ requests' = Renumbered.requests /\ replies' = Renumbered.replies
    /\ UNCHANGED <<mode, pc, mutex, interrupted, serverUp>>

MCNext ==
    \/ /\ Numbered = Renumbered
       /\ Next
       /\ \A t \in Thread : SelectTimeout(t) => Len(requests) <= MaxLate
    \/ Numbered # Renumbered /\ Renumber

MCSpec == Init /\ [][MCNext]_vars

FairMCSpec == MCSpec /\ Fairness /\ WF_vars(Renumber)
=============================================================================
