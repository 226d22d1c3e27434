------------------------------- MODULE Search -------------------------------
(***************************************************************************)
(* The search and count commands: one scan over the table, with a window   *)
(* on the matches (server/src/Search.c, performSearch in HashTable.c, and  *)
(* the parameters that prepareSearch in Command.c loads).                  *)
(*                                                                         *)
(* scan is the items in the order in which performSearch visits them, slot *)
(* by slot and down each chain.  Of an item only the places where the      *)
(* pattern occurs matter: in its key, in its value, in both or in neither. *)
(* Nothing changes the table during a search: the daemon has one thread.   *)
(***************************************************************************)
EXTENDS Integers, Sequences, FiniteSets

CONSTANTS
    MaxItems,       \* bound: items a scan visits
    MaxLost,        \* bound: items counted by the table and not visited
    LimitStart,     \* values of the LIMS chunk, -1 when absent
    LimitItems      \* values of the LIMI chunk, -1 when absent

ASSUME SearchAssumption ==
    /\ MaxItems \in Nat
    /\ MaxLost \in Nat
    /\ LimitStart \subseteq Int
    /\ LimitItems \subseteq Int

Place == {"key", "value"}

VARIABLES
    scan,               \* the items, each the set of places with the pattern
    numberOfElms,       \* what the table counts
    mode,               \* SEARCH_MODE_SEARCH or SEARCH_MODE_COUNT
    match,              \* SEARCH_MATCH_KEY and SEARCH_MATCH_VALUE
    limitStart, limitItems,
    pc,                 \* "request", "scan", "done"
    numberOfChecked, numberOfMatching, numberOfResults,
    results,            \* the stored items, as positions in scan
    allocated           \* length of the results array, -1 before its malloc

table   == <<scan, numberOfElms>>
request == <<mode, match, limitStart, limitItems>>
answer  == <<numberOfMatching, numberOfResults, results, allocated>>
vars    == <<table, request, pc, numberOfChecked, answer>>

Scans == UNION {[1 .. n -> SUBSET Place] : n \in 0 .. MaxItems}

-----------------------------------------------------------------------------

Init ==
    /\ scan \in Scans
    /\ numberOfElms \in Len(scan) .. Len(scan) + MaxLost
    /\ mode = "none" /\ match = {} /\ limitStart = 0 /\ limitItems = -1
    /\ pc = "request"
    /\ numberOfChecked = 0 /\ numberOfMatching = 0 /\ numberOfResults = 0
    /\ results = <<>> /\ allocated = -1

\* prepareSearch, then the part of performSearch before its loops: an empty
\* table answers at once.
Begin ==
    /\ pc = "request"
    /\ pc' = IF numberOfElms = 0 THEN "done" ELSE "scan"
    /\ UNCHANGED <<table, numberOfChecked, answer>>

\* Faulty: a limit of 0 items is kept.
LimitAsSent(limi) == IF limi < 0 THEN -1 ELSE limi

\* A limit below 1 is no limit.
LimitOf(limi) == IF limi < 1 THEN -1 ELSE limi

\* ksearch, vsearch and search.
BeginSearch(m, lims, limi) ==
    /\ mode' = "search" /\ match' = m
    /\ limitStart' = IF lims = -1 THEN 0 ELSE lims
    /\ limitItems' = LimitOf(limi)
    /\ Begin

\* kcount, vcount and count: the limits keep the values of the constructor.
BeginCount(m) ==
    /\ mode' = "count" /\ match' = m
    /\ UNCHANGED <<limitStart, limitItems>>
    /\ Begin

Item == scan[numberOfChecked + 1]

\* Faulty: the value is looked at only when the key is not to be.
FoundInOnePlace ==
    IF "key" \in match THEN "key" \in Item ELSE "value" \in Item

Found ==
    \/ "key" \in match /\ "key" \in Item
    \/ "value" \in match /\ "value" \in Item

LimitReached(n) == limitItems > 0 /\ n >= limitItems

\* Faulty: the item with index LIMS is skipped too.
SkippedTooLong(n) == n <= limitStart + 1

\* n is the number of matches with the present one.
BeforeStart(n) == n <= limitStart

Check ==
    /\ pc = "scan" /\ numberOfChecked < Len(scan)
    /\ numberOfChecked' = numberOfChecked + 1
    /\ UNCHANGED <<table, request>>

CheckNoMatch ==
    /\ Check /\ ~Found
    /\ UNCHANGED <<pc, answer>>

CheckCount ==
    /\ Check /\ Found /\ mode = "count"
    /\ numberOfResults' = numberOfResults + 1
    /\ UNCHANGED <<pc, numberOfMatching, results, allocated>>

\* Faulty: the array is one item short of the limit as well.
RoomBelowLimit ==
    LET remaining == numberOfElms - numberOfChecked'
    IN  IF limitItems > 0 /\ limitItems < remaining THEN limitItems - 1 ELSE remaining

\* The length of the array at the first item to store.  numberOfChecked has
\* been incremented for that item already.
Room ==
    LET remaining == numberOfElms - numberOfChecked'
    IN  IF limitItems > 0 /\ limitItems < remaining THEN limitItems ELSE remaining

Store ==
    /\ allocated' = IF numberOfResults = 0 THEN Room ELSE allocated
    /\ results' = Append(results, numberOfChecked')
    /\ numberOfResults' = numberOfResults + 1
    /\ pc' = IF LimitReached(numberOfResults') THEN "done" ELSE "scan"

CheckSearch ==
    /\ Check /\ Found /\ mode = "search"
    /\ IF LimitReached(numberOfResults)
       THEN pc' = "done" /\ UNCHANGED answer
       ELSE /\ numberOfMatching' = numberOfMatching + 1
            /\ IF BeforeStart(numberOfMatching')
               THEN UNCHANGED <<pc, numberOfResults, results, allocated>>
               ELSE Store

EndOfTable ==
    /\ pc = "scan" /\ numberOfChecked = Len(scan)
    /\ pc' = "done"
    /\ UNCHANGED <<table, request, numberOfChecked, answer>>

Next ==
    \/ \E m \in SUBSET Place \ {{}} :
         \/ \E lims \in LimitStart, limi \in LimitItems : BeginSearch(m, lims, limi)
         \/ BeginCount(m)
    \/ CheckNoMatch \/ CheckCount \/ CheckSearch
    \/ EndOfTable

Spec == Init /\ [][Next]_vars

-----------------------------------------------------------------------------

\* Every variable has the type its C declaration and its use give it.
TypeOK ==
    /\ scan \in Seq(SUBSET Place)
    /\ numberOfElms \in Nat
    /\ mode \in {"none", "search", "count"}
    /\ match \subseteq Place
    /\ limitStart \in Int
    /\ limitItems \in (Nat \ {0}) \cup {-1}
    /\ pc \in {"request", "scan", "done"}
    /\ numberOfChecked \in 0 .. Len(scan)
    /\ numberOfMatching \in 0 .. numberOfChecked
    /\ numberOfResults \in 0 .. numberOfChecked
    /\ results \in Seq(1 .. Len(scan))
    /\ allocated \in Nat \cup {-1}

\* The matches among the first n items.
MatchesUpTo(n) == {i \in 1 .. n : scan[i] \cap match # {}}

Rank(n) == Cardinality(MatchesUpTo(n))

\* A negative LIMS skips nothing.
Skipped == IF limitStart < 0 THEN 0 ELSE limitStart

\* The matches from index LIMS on, at most LIMI of them.
Window ==
    {i \in MatchesUpTo(Len(scan)) :
        Rank(i) > Skipped /\ (limitItems > 0 => Rank(i) <= Skipped + limitItems)}

Stored == {results[i] : i \in 1 .. Len(results)}

\* A search answers with exactly the window that was asked for, in the order
\* of the scan, whether the scan ends at the limit or at the end of the table;
\* and SRES, the number in the reply, is the number of items in it.
ResultsAreWindow ==
    pc = "done" /\ mode = "search" =>
      /\ Stored = Window
      /\ \A i, j \in 1 .. Len(results) : i < j => results[i] < results[j]
      /\ numberOfResults = Cardinality(Window)

\* A count answers with the number of all matches: no limit cuts it, and an
\* item that matches in its key and in its value counts once.
CountIsTotal ==
    pc = "done" /\ mode = "count" =>
      numberOfResults = Rank(Len(scan)) /\ results = <<>>

\* The results never outgrow their array by more than one item, and not at
\* all when the array was made for the limit or items were lost.
OverrunAtMostOne ==
    results # <<>> =>
      /\ Len(results) <= allocated + 1
      /\ Len(results) > allocated =>
           numberOfElms = Len(scan) /\ allocated # limitItems

\* Where an item is stored, memory was "allocated for results" before
\* (the comment on the array write in Search_process).
ResultsFit == results # <<>> => Len(results) <= allocated
=============================================================================
