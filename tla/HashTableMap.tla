---------------------------- MODULE HashTableMap ----------------------------
(***************************************************************************)
(* The hash table as a map: KeyValueStore, which it implements as long as  *)
(* no reorganisation goes astray, the placement of the items that this     *)
(* depends on, and LossyStore, which it implements in any case.            *)
(***************************************************************************)
EXTENDS HashTable

\* The items of the chain that starts in cell c, over the present links.
Chain ==
    LET chain[c \in Cell] ==
          IF link[c] = NULL THEN {} ELSE {link[c]} \cup chain[link[c]]
    IN  chain

\* findItem can only meet the items in the chain of the key.
Findable(x) == x \in Chain[HashOf(key[x])]

\* What the table stores, read off the memory and not off the chains: the
\* value of the item with key k, wherever it hangs.  While zap is running its
\* reply is given and the items are on their way out.
Map ==
    [k \in Key |->
       IF pc \notin {"zap", "zapTail"} /\ \E x \in live : key[x] = k
       THEN val[CHOOSE x \in live : key[x] = k] ELSE NULL]

KVS == INSTANCE KeyValueStore WITH store <- Map

\* Every command answers and acts as on a map: set updates exactly the keys
\* that are present, get returns what was set last, del removes one key, zap
\* removes all of them, and no reorganisation changes an answer.
ImplementsMap == KVS!Spec

\* Between commands every allocated item can be found under its key.
ItemsFindable == pc = "idle" => \A x \in live : Findable(x)

\* No key has two items, so that the order in a chain never decides an answer.
UniqueKeys == \A x, y \in live : key[x] = key[y] => x = y

\* Between commands no item carries the mark of an earlier reorganisation:
\* the next flip would make such an item look as if it had been moved.
MarksCurrent == pc = "idle" => \A x \in live : mark[x] = reorgMark

\* The one way to lose an item.  As ptr goes on in the chain that an item has
\* been moved to, moveItems goes astray: the rest of the chain of its slot is
\* left behind, and an item that belongs in that slot is taken to be in it when
\* it is met elsewhere.
Strays ==
    /\ pc = "move" /\ ~AtEnd /\ mark[link[ptr]] # reorgMark
    /\ LET item == link[ptr]
           hash == HashOf(key[item])
       IN  \/ hash # slot /\ \E y \in Chain[slot] \ {item} : mark[y] # reorgMark
           \/ hash = slot /\ item \notin Chain[slot]

(* What the table is when reorganisations go astray: of a key get finds the *)
(* first item in its chain; other items may hang in some chain, or in none. *)

FirstWith(k) ==
    LET first[c \in Cell] ==
          IF link[c] = NULL THEN NULL
          ELSE IF key[link[c]] = k THEN link[c] ELSE first[link[c]]
    IN  first[HashOf(k)]

InSomeChain == UNION {Chain[s] : s \in Slots(slots)}

Found ==
    [k \in Key |-> LET x == FirstWith(k)
                   IN  IF pc \in {"zap", "zapTail"} \/ x = NULL THEN NULL ELSE val[x]]

Lost ==
    IF pc \in {"zap", "zapTail"} THEN {}
    ELSE {<<key[x], val[x]>> : x \in {y \in InSomeChain : y # FirstWith(key[y])}}

\* What zap is about to delete hangs in no chain, and is not gone.
Gone ==
    LET doomed == IF next = NULL THEN {} ELSE {next} \cup Chain[next]
    IN  live \ (InSomeChain \cup doomed) # {}

\* That reorg will answer REORGANIZED is decided when the first item is moved.
Decided ==
    IF cmd.op = "reorg" /\ pc \in {"move", "resize", "exited"}
    THEN Answer("REORGANIZED", NULL, NULL) ELSE reply

Lossy == INSTANCE LossyStore WITH found <- Found, lost <- Lost, gone <- Gone, reply <- Decided

\* Whatever a reorganisation loses, no answer is made up: get and del find an
\* item exactly when it is in the chain of its key, with the value it was last
\* given; a twin that comes to light again has been stored once; zap forgets
\* all that hangs in some chain; and only a reorganisation loses anything.
ImplementsLossyStore == Lossy!Spec

(* What the documents of the repository say of get, which does not always  *)
(* hold                                                                    *)

\* get says "no such key" only when the table holds no item with the key.
NotFoundMeansNoSuchKey ==
    [][GetNotFound => \A x \in live : key[x] # cmd.key]_vars
=============================================================================
