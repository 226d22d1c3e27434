--------------------------- MODULE KeyValueStore ---------------------------
(***************************************************************************)
(* What the hash table of hashr promises to its callers: a finite map from *)
(* keys to values.  Hashing, chains, capacity and reorganisation are not   *)
(* visible here; every command takes effect in one step and its status is  *)
(* a function of the map.  HashTableMap!Map (see HashTableMap.tla) relates *)
(* the pointer-level HashTable module to this one.                         *)
(***************************************************************************)

CONSTANTS Key, Value, NULL

VARIABLES
    store,      \* Key -> Value, NULL where the key is absent
    reply       \* the reply to the last command that was decided

vars == <<store, reply>>

Status == { "INSERTED", "UPDATED", "PROVIDED", "NOT_FOUND", "DELETED",
            "ALREADY", "ZAPPED", "EMPTY", "REORGANIZED", "UNCHANGED" }

\* A command that carries a value in its reply (get) fills val; only the
\* commands on a single key fill key.
Reply == [status : Status, key : Key \cup {NULL}, val : Value \cup {NULL}]

NoReply == [status |-> "UNCHANGED", key |-> NULL, val |-> NULL]

Present(k) == store[k] # NULL

TypeOK ==
    /\ store \in [Key -> Value \cup {NULL}]
    /\ reply \in Reply

Init ==
    /\ store = [k \in Key |-> NULL]
    /\ reply = NoReply

Answer(status, k, v) == reply' = [status |-> status, key |-> k, val |-> v]

Set(k, v) ==
    /\ store' = [store EXCEPT ![k] = v]
    /\ Answer(IF Present(k) THEN "UPDATED" ELSE "INSERTED", k, NULL)

Get(k) ==
    /\ Answer(IF Present(k) THEN "PROVIDED" ELSE "NOT_FOUND", k, store[k])
    /\ UNCHANGED store

Del(k) ==
    /\ store' = [store EXCEPT ![k] = NULL]
    /\ Answer(IF Present(k) THEN "DELETED" ELSE "ALREADY", k, NULL)

Zap ==
    /\ store' = [k \in Key |-> NULL]
    /\ Answer(IF \E k \in Key : Present(k) THEN "ZAPPED" ELSE "EMPTY", NULL, NULL)

\* A reorganisation may or may not happen; the map never notices.
Reorg ==
    /\ \E status \in {"REORGANIZED", "UNCHANGED"} : Answer(status, NULL, NULL)
    /\ UNCHANGED store

Next ==
    \/ \E k \in Key, v \in Value : Set(k, v)
    \/ \E k \in Key : Get(k) \/ Del(k)
    \/ Zap
    \/ Reorg

Spec == Init /\ [][Next]_vars
============================================================================
