----------------------------- MODULE LossyStore -----------------------------
(***************************************************************************)
(* What the hash table of hashr promises when its reorganisations may go   *)
(* astray (see HashTable!MoveItem): a map from keys to values, in which a  *)
(* reorganisation can change what is found, but never what was stored.  A  *)
(* pair that is lost is still in some chain; a later reorganisation may    *)
(* bring it back, next to a twin that was stored in the meantime.          *)
(*                                                                         *)
(* Both the pointer-level table (HashTableMap!Lossy) and the requests and  *)
(* replies about it (Command!Lossy) implement this module.  KeyValueStore  *)
(* is the case in which nothing is ever lost.                              *)
(***************************************************************************)

CONSTANTS Key, Value, NULL

VARIABLES
    found,      \* Key -> Value, NULL where get finds nothing
    lost,       \* the pairs that hang in a chain, and are not found
    gone,       \* TRUE: some pair may hang nowhere and be counted still
    reply       \* the answer to the last command, until it is taken

vars == <<found, lost, gone, reply>>

NoReply == [status |-> "UNCHANGED", key |-> NULL, val |-> NULL]

Present(k) == found[k] # NULL

Pairs(f) == {<<k, f[k]>> : k \in {j \in Key : f[j] # NULL}}

Init ==
    /\ found = [k \in Key |-> NULL]
    /\ lost = {} /\ gone = FALSE
    /\ reply = NoReply

Answer(status, k, v) == reply' = [status |-> status, key |-> k, val |-> v]

\* Nothing is moved; or what is found and what is lost are dealt out anew, but
\* a pair that was there once is not there twice, and none is changed or made up.
Rearranged(f) ==
    \/ found' = f /\ UNCHANGED <<lost, gone>>
    \/ LET all == Pairs(f) \cup lost
       IN  /\ found' \in [Key -> Value \cup {NULL}] /\ Pairs(found') \subseteq all
           /\ lost' \subseteq all
           /\ Pairs(found') \cap lost' \subseteq lost
           /\ gone' \in BOOLEAN /\ (gone => gone')
           /\ all \subseteq Pairs(found') \cup lost' \/ gone'

Get(k) ==
    /\ Answer(IF Present(k) THEN "PROVIDED" ELSE "NOT_FOUND", k, found[k])
    /\ UNCHANGED <<found, lost, gone>>

SetUpdated(k, v) ==
    /\ Present(k)
    /\ found' = [found EXCEPT ![k] = v]
    /\ Answer("UPDATED", k, NULL)
    /\ UNCHANGED <<lost, gone>>

SetInserted(k, v) ==
    /\ ~Present(k)
    /\ Rearranged([found EXCEPT ![k] = v])
    /\ Answer("INSERTED", k, NULL)

\* The pair that was found is removed; it may have hidden a twin of its key.
DelDeleted(k) ==
    /\ Present(k)
    /\ Rearranged([found EXCEPT ![k] = NULL])
    /\ Answer("DELETED", k, NULL)

DelAlready(k) ==
    /\ ~Present(k)
    /\ Answer("ALREADY", k, NULL)
    /\ UNCHANGED <<found, lost, gone>>

\* All that hangs in some chain is removed.
Zap ==
    /\ \/ Pairs(found) \cup lost = {} /\ Answer("EMPTY", NULL, NULL)
       \/ (Pairs(found) \cup lost # {} \/ gone) /\ Answer("ZAPPED", NULL, NULL)
    /\ found' = [k \in Key |-> NULL] /\ lost' = {}
    /\ UNCHANGED gone

Reorg ==
    \/ Answer("UNCHANGED", NULL, NULL) /\ UNCHANGED <<found, lost, gone>>
    \/ Answer("REORGANIZED", NULL, NULL) /\ Rearranged(found)

\* A reorganisation goes on after the answer has been decided.
Move ==
    /\ reply.status \in {"INSERTED", "DELETED", "REORGANIZED"}
    /\ Rearranged(found)
    /\ UNCHANGED reply

Taken == reply' = NoReply /\ UNCHANGED <<found, lost, gone>>

Next ==
    \/ Move \/ Taken
    \/ Zap \/ Reorg
    \/ \E k \in Key : Get(k) \/ DelDeleted(k) \/ DelAlready(k)
    \/ \E k \in Key, v \in Value : SetUpdated(k, v) \/ SetInserted(k, v)

Spec == Init /\ [][Next]_vars
=============================================================================
