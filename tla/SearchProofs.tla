---------------------------- MODULE SearchProofs ----------------------------
(***************************************************************************)
(* Proofs about Search, for a table of any size, any number of items lost  *)
(* in it, and any limits.                                                  *)
(*                                                                         *)
(* The inductive invariant says how the results, their array and the scan  *)
(* hang together: the results are positions of matching items in ascending *)
(* order, there are no more of them than items have been checked since the *)
(* first of them was stored, and the array is as long as the limit, or as  *)
(* long as the number of items that were left when that first one was met. *)
(*                                                                         *)
(* That the results are the window needs more: Progress says, by the rank  *)
(* of an item among the matches, which of them are stored so far.          *)
(***************************************************************************)
EXTENDS Search, FiniteSetTheorems, TLAPS

\* Each stored item matches, and none is stored twice or out of order.
Ordered ==
    /\ \A i \in 1 .. Len(results) :
         results[i] \in 1 .. numberOfChecked /\ scan[results[i]] \cap match # {}
    /\ \A i, j \in 1 .. Len(results) : i < j => results[i] < results[j]

\* The counters, and the modes in which they are used.
Counters ==
    /\ Len(scan) <= numberOfElms
    /\ pc = "request" => results = <<>> /\ numberOfResults = 0 /\ limitItems = -1
    /\ mode = "none" <=> pc = "request"
    /\ mode = "count" => results = <<>>
    /\ mode # "count" => Len(results) = numberOfResults
    /\ limitItems > 0 => Len(results) <= limitItems

\* The array was made when the first result was met.
Allocation ==
    results # <<>> =>
      /\ Len(results) <= numberOfChecked - results[1] + 1
      /\ \/ allocated = limitItems /\ limitItems > 0
         \/ allocated = numberOfElms - results[1]

IInv == TypeOK /\ Counters /\ Ordered /\ Allocation

LEMMA InitIInv == Init => IInv
<1> SUFFICES ASSUME Init PROVE IInv  OBVIOUS
<1>1. PICK n \in 0 .. MaxItems : scan \in [1 .. n -> SUBSET Place]
    BY DEF Init, Scans
<1>2. scan \in Seq(SUBSET Place) /\ Len(scan) = n
    BY <1>1, SearchAssumption
<1>3. TypeOK
    BY <1>2, SearchAssumption DEF Init, TypeOK
<1>4. Counters /\ Ordered /\ Allocation
    BY <1>2, SearchAssumption DEF Init, Counters, Ordered, Allocation
<1> QED BY <1>3, <1>4 DEF IInv

LEMMA NextIInv == IInv /\ [Next]_vars => IInv'
<1> SUFFICES ASSUME IInv, [Next]_vars PROVE IInv'  OBVIOUS
<1>t. TypeOK /\ Counters /\ Ordered /\ Allocation  BY DEF IInv
<1>1. ASSUME NEW m \in SUBSET Place \ {{}}, NEW lims \in LimitStart,
             NEW limi \in LimitItems, BeginSearch(m, lims, limi)
      PROVE  IInv'
  <2>1. TypeOK'
      BY <1>t, <1>1, SearchAssumption
      DEF TypeOK, BeginSearch, Begin, LimitOf, table, answer
  <2>2. (Counters /\ Ordered /\ Allocation)'
      BY <1>t, <1>1, SearchAssumption
      DEF TypeOK, Counters, Ordered, Allocation, BeginSearch, Begin, LimitOf, table, answer
  <2> QED BY <2>1, <2>2 DEF IInv
<1>2. ASSUME NEW m \in SUBSET Place \ {{}}, BeginCount(m)
      PROVE  IInv'
  <2>1. TypeOK'
      BY <1>t, <1>2 DEF TypeOK, BeginCount, Begin, table, answer
  <2>2. (Counters /\ Ordered /\ Allocation)'
      BY <1>t, <1>2
      DEF TypeOK, Counters, Ordered, Allocation, BeginCount, Begin, table, answer
  <2> QED BY <2>1, <2>2 DEF IInv
<1>3. CASE CheckNoMatch
  <2>1. TypeOK'
      BY <1>t, <1>3 DEF TypeOK, CheckNoMatch, Check, table, request, answer
  <2>2. (Counters /\ Ordered /\ Allocation)'
      BY <1>t, <1>3
      DEF TypeOK, Counters, Ordered, Allocation, CheckNoMatch, Check, table, request, answer
  <2> QED BY <2>1, <2>2 DEF IInv
<1>4. CASE CheckCount
  <2>1. TypeOK'
      BY <1>t, <1>4 DEF TypeOK, CheckCount, Check, table, request
  <2>2. (Counters /\ Ordered /\ Allocation)'
      BY <1>t, <1>4
      DEF TypeOK, Counters, Ordered, Allocation, CheckCount, Check, table, request
  <2> QED BY <2>1, <2>2 DEF IInv
<1>5. CASE CheckSearch
  <2> USE <1>t, <1>5
  <2>0. /\ pc = "scan" /\ numberOfChecked < Len(scan)
        /\ numberOfChecked' = numberOfChecked + 1
        /\ UNCHANGED <<scan, numberOfElms, mode, match, limitStart, limitItems>>
        /\ Found /\ mode = "search"
      BY DEF CheckSearch, Check, table, request
  <2>1. CASE UNCHANGED <<numberOfResults, results, allocated>> /\ pc' \in {"scan", "done"}
               /\ numberOfMatching' \in {numberOfMatching, numberOfMatching + 1}
    <3>1. TypeOK'
        BY <2>0, <2>1 DEF TypeOK
    <3>2. Counters'
        BY <2>0, <2>1 DEF TypeOK, Counters
    <3>3. Ordered'
        BY <2>0, <2>1 DEF TypeOK, Ordered
    <3>4. Allocation'
        BY SMTT(30), <2>0, <2>1 DEF TypeOK, Allocation
    <3> QED BY <3>1, <3>2, <3>3, <3>4 DEF IInv
  <2>2. CASE Store /\ ~LimitReached(numberOfResults)
                   /\ numberOfMatching' = numberOfMatching + 1
    <3>1. /\ results' = Append(results, numberOfChecked')
          /\ numberOfResults' = numberOfResults + 1
          /\ pc' \in {"scan", "done"}
          /\ allocated' = IF numberOfResults = 0 THEN Room ELSE allocated
        BY <2>2 DEF Store
    <3>2. /\ Room \in Nat
          /\ \/ Room = limitItems /\ limitItems > 0
             \/ Room = numberOfElms - numberOfChecked'
        BY <2>0 DEF Room, TypeOK, Counters
    <3>3. /\ results' \in Seq(1 .. Len(scan'))
          /\ Len(results') = Len(results) + 1
          /\ results'[Len(results) + 1] = numberOfChecked'
          /\ \A i \in 1 .. Len(results) : results'[i] = results[i]
        BY <2>0, <3>1 DEF TypeOK
    <3>4. TypeOK'
        BY <2>0, <2>2, <3>1, <3>2, <3>3 DEF TypeOK
    <3>5. Counters'
        BY <2>0, <2>2, <3>1, <3>3 DEF TypeOK, Counters, LimitReached
    <3>6. scan[numberOfChecked'] \cap match # {}
        BY <2>0 DEF Found, Item, TypeOK
    <3>7. Ordered'
      <4>1. ASSUME NEW i \in 1 .. Len(results')
            PROVE  /\ results'[i] \in 1 .. numberOfChecked'
                   /\ scan'[results'[i]] \cap match' # {}
        <5>1. CASE i \in 1 .. Len(results)
          <6>1. results'[i] = results[i]
              BY <5>1, <3>3
          <6>2. results[i] \in 1 .. numberOfChecked /\ scan[results[i]] \cap match # {}
              BY <5>1 DEF Ordered
          <6>3. results[i] \in 1 .. numberOfChecked'
              BY <6>2, <2>0 DEF TypeOK
          <6> QED BY <6>1, <6>2, <6>3, <2>0
        <5>2. CASE i = Len(results) + 1
            BY <5>2, <2>0, <3>3, <3>6 DEF TypeOK
        <5> QED BY <5>1, <5>2, <3>3 DEF TypeOK
      <4>2. ASSUME NEW i \in 1 .. Len(results'), NEW j \in 1 .. Len(results'), i < j
            PROVE  results'[i] < results'[j]
        <5>1. i \in 1 .. Len(results) /\ results'[i] = results[i]
            BY SMTT(30), <4>2, <3>3 DEF TypeOK
        <5>2. CASE j \in 1 .. Len(results)
            BY <4>2, <5>1, <5>2, <3>3 DEF Ordered
        <5>3. CASE j = Len(results) + 1
            BY <5>1, <5>3, <2>0, <3>3 DEF TypeOK, Ordered
        <5> QED BY <5>2, <5>3, <3>3 DEF TypeOK
      <4> QED BY <4>1, <4>2 DEF Ordered
    <3>8. Allocation'
      <4>1. CASE results = <<>>
        <5>1. Len(results') = 1 /\ results'[1] = numberOfChecked' /\ allocated' = Room
            BY <4>1, <2>0, <3>1, <3>3 DEF Counters
        <5> QED BY <5>1, <2>0, <3>2 DEF Allocation, TypeOK
      <4>2. CASE results # <<>>
        <5>1. Len(results) > 0 /\ results'[1] = results[1] /\ allocated' = allocated
            BY <4>2, <2>0, <3>1, <3>3 DEF Counters, TypeOK
        <5> QED BY SMTT(30), <5>1, <4>2, <2>0, <3>3 DEF Allocation, TypeOK
      <4> QED BY <4>1, <4>2
    <3> QED BY <3>4, <3>5, <3>7, <3>8 DEF IInv
  <2> QED
      BY <2>0, <2>1, <2>2 DEF CheckSearch, answer
<1>6. CASE EndOfTable
  <2>1. TypeOK'
      BY <1>t, <1>6 DEF TypeOK, EndOfTable, table, request, answer
  <2>2. (Counters /\ Ordered /\ Allocation)'
      BY <1>t, <1>6
      DEF TypeOK, Counters, Ordered, Allocation, EndOfTable, table, request, answer
  <2> QED BY <2>1, <2>2 DEF IInv
<1>7. CASE UNCHANGED vars
    BY <1>t, <1>7
    DEF IInv, TypeOK, Counters, Ordered, Allocation, vars, table, request, answer
<1> QED BY <1>1, <1>2, <1>3, <1>4, <1>5, <1>6, <1>7 DEF Next

LEMMA IInvHolds == Spec => []IInv
BY InitIInv, NextIInv, PTL DEF Spec

-----------------------------------------------------------------------------
(* The window.  Whether an item is stored depends on its rank alone, the   *)
(* number of matches up to it, and the scan keeps the rank in              *)
(* numberOfMatching, or in numberOfResults if it only counts.              *)

\* Where the scan is: it has stored the matches behind the skipped ones, and
\* it is over at the end of the table or when the limit is reached.
Progress ==
    /\ pc = "request" => numberOfChecked = 0
    /\ mode = "count" => numberOfResults = Rank(numberOfChecked)
    /\ mode = "count" /\ pc = "done" => numberOfChecked = Len(scan)
    /\ mode = "search" =>
         /\ Stored = {i \in MatchesUpTo(numberOfChecked) : Rank(i) > Skipped}
         /\ numberOfMatching = Rank(numberOfChecked)
         /\ numberOfResults =
              IF numberOfMatching > Skipped THEN numberOfMatching - Skipped ELSE 0
         /\ pc = "scan" => ~LimitReached(numberOfResults)
         /\ pc = "done" =>
              \/ numberOfChecked = Len(scan)
                 /\ (limitItems > 0 => numberOfResults <= limitItems)
              \/ limitItems > 0 /\ numberOfResults = limitItems

LEMMA RankSteps ==
    ASSUME NEW n \in Nat
    PROVE  /\ Rank(n) \in Nat /\ IsFiniteSet(MatchesUpTo(n))
           /\ Rank(0) = 0
           /\ scan[n + 1] \cap match # {} => Rank(n + 1) = Rank(n) + 1
           /\ scan[n + 1] \cap match = {} => Rank(n + 1) = Rank(n)
<1>1. \A k \in Nat : IsFiniteSet(MatchesUpTo(k)) /\ Rank(k) \in Nat
  <2> SUFFICES ASSUME NEW k \in Nat PROVE IsFiniteSet(MatchesUpTo(k)) /\ Rank(k) \in Nat
      OBVIOUS
  <2>1. IsFiniteSet(1 .. k)
      BY FS_Interval
  <2> QED BY <2>1, FS_Subset, FS_CardinalityType DEF MatchesUpTo, Rank
<1>2. Rank(0) = 0
  <2>1. MatchesUpTo(0) = {}
      BY DEF MatchesUpTo
  <2> QED BY <2>1, FS_EmptySet DEF Rank
<1>3. CASE scan[n + 1] \cap match # {}
  <2>1. MatchesUpTo(n + 1) = MatchesUpTo(n) \cup {n + 1} /\ n + 1 \notin MatchesUpTo(n)
      BY <1>3 DEF MatchesUpTo
  <2> QED BY <1>1, <1>2, <1>3, <2>1, FS_AddElement DEF Rank
<1>4. CASE scan[n + 1] \cap match = {}
  <2>1. MatchesUpTo(n + 1) = MatchesUpTo(n)
      BY <1>4 DEF MatchesUpTo
  <2> QED BY <1>1, <1>2, <1>4, <2>1 DEF Rank
<1> QED BY <1>1, <1>2, <1>3, <1>4

\* A later match has a higher rank.
LEMMA RankGrows ==
    ASSUME NEW m \in Nat, NEW n \in Nat, m <= n
    PROVE  /\ Rank(m) <= Rank(n)
           /\ n + 1 \in MatchesUpTo(n + 1) => Rank(m) < Rank(n + 1)
<1>1. MatchesUpTo(m) \subseteq MatchesUpTo(n)
    BY DEF MatchesUpTo
<1>2. Rank(m) <= Rank(n)
    BY <1>1, RankSteps, FS_Subset DEF Rank
<1>3. n + 1 \in MatchesUpTo(n + 1) => Rank(n + 1) = Rank(n) + 1
    BY RankSteps DEF MatchesUpTo
<1> QED BY <1>2, <1>3, RankSteps

LEMMA FoundIsMatch ==
    ASSUME TypeOK, numberOfChecked < Len(scan)
    PROVE  Found <=> scan[numberOfChecked + 1] \cap match # {}
    BY DEF TypeOK, Found, Item, Place

LEMMA ProgressHolds == Spec => []Progress
<1>1. Init => Progress
    BY DEF Init, Progress
<1>2. IInv /\ Progress /\ [Next]_vars => Progress'
  <2> SUFFICES ASSUME IInv, Progress, [Next]_vars PROVE Progress'
      OBVIOUS
  <2>t. TypeOK /\ Counters
      BY DEF IInv
  <2>0. numberOfChecked \in Nat /\ Len(scan) \in Nat
        /\ numberOfMatching \in Nat /\ numberOfResults \in Nat
        /\ limitItems \in Int /\ limitStart \in Int /\ Skipped \in Nat
      BY <2>t DEF TypeOK, Skipped
  <2>1. ASSUME UNCHANGED <<table, request>>, pc' # "request",
               mode = "count" => numberOfResults' = Rank(numberOfChecked'),
               mode = "count" /\ pc' = "done" => numberOfChecked' = Len(scan),
               mode = "search" =>
                 /\ {results'[i] : i \in 1 .. Len(results')}
                      = {i \in MatchesUpTo(numberOfChecked') : Rank(i) > Skipped}
                 /\ numberOfMatching' = Rank(numberOfChecked')
                 /\ numberOfResults' =
                      IF numberOfMatching' > Skipped THEN numberOfMatching' - Skipped ELSE 0
                 /\ pc' = "scan" => ~LimitReached(numberOfResults')
                 /\ pc' = "done" =>
                      \/ numberOfChecked' = Len(scan)
                         /\ (limitItems > 0 => numberOfResults' <= limitItems)
                      \/ limitItems > 0 /\ numberOfResults' = limitItems
        PROVE  Progress'
    <3>1. UNCHANGED <<scan, mode, match, limitStart, limitItems>>
        BY <2>1 DEF table, request
    <3>2. ASSUME NEW n PROVE MatchesUpTo(n)' = MatchesUpTo(n)
        BY <3>1 DEF MatchesUpTo
    <3> QED BY <2>1, <3>1 DEF Progress, Rank, MatchesUpTo, Stored, Skipped, LimitReached
  <2>2. ASSUME NEW m \in SUBSET Place \ {{}},
               \/ BeginCount(m)
               \/ \E lims \in LimitStart, limi \in LimitItems : BeginSearch(m, lims, limi)
        PROVE  Progress'
    <3>1. /\ results' = <<>> /\ numberOfResults' = 0 /\ numberOfMatching' = 0
          /\ numberOfChecked' = 0 /\ scan' = scan /\ pc' # "request"
          /\ pc' = "done" => Len(scan) = 0
        BY <2>t, <2>2
        DEF TypeOK, Counters, Progress, BeginCount, BeginSearch, Begin, table, answer
    <3>2. limitItems' \in Int /\ Skipped' \in Nat /\ (limitItems' > 0 => ~LimitReached(0)')
      <4>1. TypeOK'
          BY NextIInv DEF IInv
      <4> QED BY <4>1 DEF TypeOK, Skipped, LimitReached
    <3>3. MatchesUpTo(0)' = {} /\ Rank(0)' = 0
        BY FS_EmptySet DEF MatchesUpTo, Rank
    <3> QED BY <3>1, <3>2, <3>3 DEF Progress, Rank, MatchesUpTo, Stored, Skipped, LimitReached
  <2>n. ASSUME Check
        PROVE  /\ UNCHANGED <<table, request>>
               /\ numberOfChecked' = numberOfChecked + 1
               /\ numberOfChecked < Len(scan) /\ pc = "scan"
               /\ MatchesUpTo(numberOfChecked') = MatchesUpTo(numberOfChecked)
                     \cup {i \in {numberOfChecked'} : Found}
               /\ Rank(numberOfChecked') =
                     IF Found THEN Rank(numberOfChecked) + 1 ELSE Rank(numberOfChecked)
    <3>1. /\ UNCHANGED <<table, request>> /\ numberOfChecked' = numberOfChecked + 1
          /\ numberOfChecked < Len(scan) /\ pc = "scan"
        BY <2>n DEF Check
    <3>2. Found <=> scan[numberOfChecked + 1] \cap match # {}
        BY <2>t, <3>1, FoundIsMatch
    <3>3. MatchesUpTo(numberOfChecked + 1) =
             MatchesUpTo(numberOfChecked) \cup {i \in {numberOfChecked + 1} : Found}
        BY <2>0, <3>2 DEF MatchesUpTo
    <3>4. Rank(numberOfChecked + 1) =
             IF Found THEN Rank(numberOfChecked) + 1 ELSE Rank(numberOfChecked)
        BY <2>0, <3>2, RankSteps
    <3> QED BY <3>1, <3>3, <3>4
  <2>3. CASE CheckNoMatch
    <3>1. Check /\ ~Found /\ UNCHANGED <<pc, answer>>
        BY <2>3 DEF CheckNoMatch
    <3>2. /\ MatchesUpTo(numberOfChecked') = MatchesUpTo(numberOfChecked)
          /\ Rank(numberOfChecked') = Rank(numberOfChecked)
          /\ UNCHANGED <<table, request>> /\ pc = "scan"
        BY <2>n, <3>1
    <3>3. UNCHANGED <<pc, numberOfMatching, numberOfResults, results>>
        BY <3>1 DEF answer
    <3> QED BY <2>1, <3>2, <3>3 DEF Progress, Stored
  <2>4. CASE CheckCount
    <3>1. Check /\ Found /\ mode = "count" /\ numberOfResults' = numberOfResults + 1 /\ pc' = pc
        BY <2>4 DEF CheckCount
    <3>2. /\ Rank(numberOfChecked') = Rank(numberOfChecked) + 1
          /\ UNCHANGED <<table, request>> /\ pc = "scan"
        BY <2>n, <3>1
    <3> QED BY <2>1, <3>1, <3>2 DEF Progress
  <2>5. CASE CheckSearch
    <3>0. Check /\ Found /\ mode = "search" /\ ~LimitReached(numberOfResults) /\ pc = "scan"
        BY <2>5 DEF CheckSearch, Check, Progress
    <3> DEFINE n == numberOfChecked'
               Behind == {i \in MatchesUpTo(numberOfChecked) : Rank(i) > Skipped}
    <3>1. /\ MatchesUpTo(n) = MatchesUpTo(numberOfChecked) \cup {n}
          /\ Rank(n) = Rank(numberOfChecked) + 1
          /\ UNCHANGED <<table, request>>
        BY <2>n, <3>0
    <3>2. /\ Stored = Behind /\ numberOfMatching = Rank(numberOfChecked)
          /\ numberOfResults =
               IF numberOfMatching > Skipped THEN numberOfMatching - Skipped ELSE 0
        BY <3>0 DEF Progress
    <3>3. numberOfMatching' = Rank(n) /\ numberOfMatching' = numberOfMatching + 1
        BY <2>5, <3>0, <3>1, <3>2 DEF CheckSearch
    <3>4. CASE BeforeStart(numberOfMatching')
      <4>1. UNCHANGED <<pc, numberOfResults, results>>
          BY <2>5, <3>0, <3>4 DEF CheckSearch
      <4>2. Rank(n) <= Skipped
          BY <2>0, <3>3, <3>4 DEF BeforeStart, Skipped
      <4>3. {i \in MatchesUpTo(n) : Rank(i) > Skipped} = Behind
          BY <2>0, <3>1, <3>2, <4>2
      <4> QED BY SMTT(30), <2>0, <2>1, <3>0, <3>1, <3>2, <3>3, <4>1, <4>2, <4>3 DEF Stored
    <3>5. CASE ~BeforeStart(numberOfMatching')
      <4>1. Store
          BY <2>5, <3>0, <3>5 DEF CheckSearch
      <4>2. Rank(n) > Skipped
          BY <2>0, <3>3, <3>5 DEF BeforeStart, Skipped
      <4>3. {i \in MatchesUpTo(n) : Rank(i) > Skipped} = Behind \cup {n}
          BY <3>1, <4>2
      <4>4. {results'[i] : i \in 1 .. Len(results')} = Stored \cup {n}
        <5>1. results' = Append(results, n) /\ results \in Seq(Int) /\ n \in Int
            BY <2>0, <2>t, <2>n, <3>0, <4>1 DEF Store, TypeOK
        <5> HIDE DEF n
        <5>2. /\ Len(results') = Len(results) + 1 /\ Len(results) \in Nat
              /\ results'[Len(results) + 1] = n
              /\ \A i \in 1 .. Len(results) : results'[i] = results[i]
            BY SMTT(30), <5>1
        <5> QED BY <5>2 DEF Stored
      <4>5. numberOfResults' = numberOfResults + 1 /\ numberOfResults' = Rank(n) - Skipped
          BY <2>0, <3>2, <3>3, <4>1, <4>2 DEF Store
      <4>6. pc' = IF LimitReached(numberOfResults') THEN "done" ELSE "scan"
          BY <4>1 DEF Store
      <4>7. LimitReached(numberOfResults') => limitItems > 0 /\ numberOfResults' = limitItems
          BY <2>0, <3>0, <4>5 DEF LimitReached
      <4> QED BY <2>0, <2>1, <3>0, <3>1, <3>2, <3>3, <4>2, <4>3, <4>4, <4>5, <4>6, <4>7
    <3> QED BY <3>4, <3>5
  <2>6. CASE EndOfTable
    <3>1. /\ pc = "scan" /\ pc' = "done" /\ numberOfChecked = Len(scan)
          /\ UNCHANGED <<table, request, numberOfChecked>>
          /\ UNCHANGED <<numberOfMatching, numberOfResults, results>>
        BY <2>6 DEF EndOfTable, answer
    <3> QED BY SMTT(30), <2>0, <2>1, <3>1 DEF Progress, Stored, LimitReached
  <2>7. CASE UNCHANGED vars
    <3>1. /\ UNCHANGED <<scan, match, mode, pc, limitStart, limitItems>>
          /\ UNCHANGED <<numberOfChecked, numberOfMatching, numberOfResults, results>>
        BY <2>7 DEF vars, table, request, answer
    <3>2. /\ Stored' = Stored /\ Skipped' = Skipped
          /\ \A n : Rank(n)' = Rank(n) /\ MatchesUpTo(n)' = MatchesUpTo(n)
        BY <3>1 DEF Stored, Skipped, Rank, MatchesUpTo
    <3> QED BY <3>1, <3>2 DEF Progress, LimitReached
  <2> QED BY <2>2, <2>3, <2>4, <2>5, <2>6, <2>7 DEF Next
<1> QED BY <1>1, <1>2, InitIInv, NextIInv, PTL DEF Spec

\* Every variable of a search keeps its type, for tables of any size.
THEOREM SearchTypes == Spec => []TypeOK
<1>1. IInv => TypeOK  BY DEF IInv
<1> QED BY <1>1, IInvHolds, PTL

\* For every table and all limits, the array of results is at most one item
\* short, and then only if nothing but the end of the table ended the scan.
THEOREM OverrunBounded == Spec => []OverrunAtMostOne
<1>1. IInv => OverrunAtMostOne
  <2> SUFFICES ASSUME IInv, results # <<>>
               PROVE  /\ Len(results) <= allocated + 1
                      /\ Len(results) > allocated =>
                           numberOfElms = Len(scan) /\ allocated # limitItems
      BY DEF OverrunAtMostOne
  <2>1. Len(results) \in Nat /\ Len(results) > 0 /\ results[1] \in 1 .. Len(scan)
      BY DEF IInv, TypeOK
  <2> QED BY SMTT(30), <2>1 DEF IInv, TypeOK, Counters, Allocation
<1> QED BY <1>1, IInvHolds, PTL

\* A search stores exactly the matches of its window, each once and in the
\* order of the scan, and counts them, for every table and all limits.
THEOREM WindowCorrect == Spec => []ResultsAreWindow
<1>1. IInv /\ Progress => ResultsAreWindow
  <2> SUFFICES ASSUME IInv, Progress, pc = "done", mode = "search"
               PROVE  /\ Stored = Window
                      /\ \A i, j \in 1 .. Len(results) : i < j => results[i] < results[j]
                      /\ numberOfResults = Cardinality(Window)
      BY DEF ResultsAreWindow
  <2>t. TypeOK /\ Counters /\ Ordered
      BY DEF IInv
  <2>0. /\ numberOfChecked \in Nat /\ Len(scan) \in Nat /\ numberOfChecked <= Len(scan)
        /\ numberOfResults \in Nat /\ limitItems \in Int /\ Skipped \in Nat
        /\ Rank(numberOfChecked) \in Nat
      BY <2>t, RankSteps DEF TypeOK, Skipped
  <2>r. \A n \in Nat : \A i \in MatchesUpTo(n) : i \in 1 .. n /\ Rank(i) \in Nat
    <3> SUFFICES ASSUME NEW n \in Nat, NEW i \in MatchesUpTo(n)
                 PROVE  i \in 1 .. n /\ Rank(i) \in Nat
        OBVIOUS
    <3>1. i \in 1 .. n
        BY DEF MatchesUpTo
    <3> QED BY <3>1, RankSteps
  <2>1. /\ Stored = {i \in MatchesUpTo(numberOfChecked) : Rank(i) > Skipped}
        /\ numberOfResults = IF Rank(numberOfChecked) > Skipped
                             THEN Rank(numberOfChecked) - Skipped ELSE 0
      BY DEF Progress
  <2>2. \A i \in MatchesUpTo(numberOfChecked) : Rank(i) <= Rank(numberOfChecked)
      BY <2>0, <2>r, RankGrows
  <2>3. Stored = Window
    <3>1. CASE /\ numberOfChecked = Len(scan)
               /\ limitItems > 0 => numberOfResults <= limitItems
      <4>1. \A i \in MatchesUpTo(Len(scan)) :
               limitItems > 0 => Rank(i) <= Skipped + limitItems
        <5>1. limitItems > 0 => Rank(numberOfChecked) <= Skipped + limitItems
            BY <2>0, <2>1, <3>1
        <5>2. \A i \in MatchesUpTo(Len(scan)) : Rank(i) <= Rank(numberOfChecked) /\ Rank(i) \in Nat
            BY <2>0, <2>2, <2>r, <3>1
        <5> QED BY <2>0, <5>1, <5>2
      <4> QED BY <2>1, <3>1, <4>1 DEF Window
    <3>2. CASE limitItems > 0 /\ numberOfResults = limitItems
      <4>1. Rank(numberOfChecked) = Skipped + limitItems
        <5>1. Rank(numberOfChecked) > Skipped
            BY <2>0, <2>1, <3>2
        <5>2. Rank(numberOfChecked) - Skipped = limitItems
            BY <2>1, <3>2, <5>1
        <5> QED BY <2>0, <5>2
      <4>2. \A i \in MatchesUpTo(numberOfChecked) :
               i \in MatchesUpTo(Len(scan)) /\ Rank(i) <= Skipped + limitItems
        <5>1. \A i \in MatchesUpTo(numberOfChecked) : i \in MatchesUpTo(Len(scan))
            BY <2>0 DEF MatchesUpTo
        <5> QED BY <2>2, <4>1, <5>1
      <4>3. ASSUME NEW i \in MatchesUpTo(Len(scan)), Rank(i) <= Skipped + limitItems
            PROVE  i \in MatchesUpTo(numberOfChecked)
        <5>1. i \in 1 .. Len(scan) /\ scan[i] \cap match # {}
            BY DEF MatchesUpTo
        <5>2. CASE numberOfChecked < i
          <6>1. i - 1 \in Nat /\ numberOfChecked <= i - 1 /\ (i - 1) + 1 = i
              BY <2>0, <5>1, <5>2, SMT
          <6>2. i \in MatchesUpTo(i)
              BY <5>1 DEF MatchesUpTo
          <6>3. Rank(numberOfChecked) < Rank(i)
              BY <2>0, <6>1, <6>2, RankGrows
          <6>4. Rank(i) \in Nat
              BY <2>0, <2>r
          <6> QED BY <2>0, <4>1, <4>3, <6>3, <6>4
        <5> QED BY <2>0, <5>1, <5>2 DEF MatchesUpTo
      <4> QED BY <2>1, <3>2, <4>2, <4>3 DEF Window
    <3> QED BY <3>1, <3>2 DEF Progress
  <2>4. \A i, j \in 1 .. Len(results) : i < j => results[i] < results[j]
      BY <2>t DEF Ordered
  <2>5. Cardinality(Stored) = Len(results)
    <3> DEFINE f == [i \in 1 .. Len(results) |-> results[i]]
    <3>0. Len(results) \in Nat /\ \A i \in 1 .. Len(results) : results[i] \in Int
        BY <2>t DEF TypeOK
    <3>1. f \in Bijection(1 .. Len(results), Stored)
      <4>1. \A i, j \in 1 .. Len(results) : f[i] = f[j] => i = j
          BY <2>4, <3>0
      <4>2. f \in [1 .. Len(results) -> Stored]
            /\ \A s \in Stored : \E i \in 1 .. Len(results) : f[i] = s
          BY DEF Stored
      <4> QED BY <4>1, <4>2 DEF Bijection, Injection, Surjection, IsInjective
    <3>2. IsFiniteSet(1 .. Len(results)) /\ Cardinality(1 .. Len(results)) = Len(results)
        BY SMTT(30), <3>0, FS_Interval
    <3> QED BY <3>1, <3>2, FS_Bijection DEF ExistsBijection
  <2> QED BY <2>t, <2>3, <2>4, <2>5 DEF Counters
<1> QED BY <1>1, IInvHolds, ProgressHolds, PTL

\* A count is the number of all matches, for every table.
THEOREM CountCorrect == Spec => []CountIsTotal
<1>1. IInv /\ Progress => CountIsTotal
    BY DEF IInv, Counters, Progress, CountIsTotal
<1> QED BY <1>1, IInvHolds, ProgressHolds, PTL
=============================================================================
