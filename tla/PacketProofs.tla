---------------------------- MODULE PacketProofs ----------------------------
(***************************************************************************)
(* What the operators of Packet compute.  FindChunk and ScanChunks are     *)
(* recursive functions over the buffer; the lemmas here say that they are  *)
(* well defined and unfold to their equations, and what they return when   *)
(* the buffer holds chunks end to end.  Induction over the buffer is       *)
(* replaced by the choice of a least index.                                *)
(***************************************************************************)
EXTENDS Packet, SequenceTheorems, FiniteSetTheorems, WellFoundedInduction, TLAPS

Index == 0 .. BUFLEN - 1

-----------------------------------------------------------------------------
(* Words                                                                   *)

LEMMA NumberOfWord == ASSUME NEW w \in Word PROVE Number(w) \in Int
BY BufferAssumption DEF Word, Number, Text, Junk

LEMMA NumberOfInteger == ASSUME NEW n PROVE Number(Integer(n)) = n
BY DEF Number, Integer

LEMMA IdsDiffer == ASSUME NEW a, NEW b PROVE Id(a) = Id(b) <=> a = b
<1>1. Id(a).id = a /\ Id(b).id = b
  BY DEF Id
<1> QED BY <1>1

LEMMA IdIsNoOther ==
    ASSUME NEW a
    PROVE  /\ \A n : Id(a) # Integer(n) /\ Id(a) # Token(n) /\ Id(a) # Status(n) /\ Id(a) # Data(n)
           /\ Id(a) # Text
BY DEF Id, Integer, Token, Status, Data, Text

LEMMA IdIsWord == \A c \in RequestId \cup ReplyId \cup Mark : Id(c) \in Word
BY DEF Id, Word

LEMMA IntegerIsWord == \A n \in Int : Integer(n) \in Word
BY DEF Integer, Word

LEMMA TokenIsWord == \A t \in CommandToken : Token(t) \in Word
BY DEF Token, Word

LEMMA StatusIsWord == \A t \in CommandStatus : Status(t) \in Word
BY DEF Status, Word

LEMMA TextIsWord == Text \in Word /\ Junk \in Word
BY DEF Text, Junk, Word

LEMMA NumberAtType ==
    ASSUME NEW p \in Packet, NEW i
    PROVE  NumberAt(p, i) \in Int
<1>1. p.buffer \in [Index -> Word]
  BY DEF Packet, Index
<1>2. CASE i \in Index
  BY <1>1, <1>2, NumberOfWord DEF NumberAt
<1>3. CASE i \notin Index
  BY <1>1, <1>3, BufferAssumption DEF NumberAt
<1> QED BY <1>2, <1>3

-----------------------------------------------------------------------------
(* Recursion over an index                                                 *)

LEMMA Least ==
    ASSUME NEW S \in SUBSET Nat, S # {}
    PROVE  \E m \in S : \A j \in S : m <= j
<1> DEFINE T == {0 .. s : s \in S}
<1>1. T \subseteq FiniteSubsetsOf(Nat)
  <2> SUFFICES ASSUME NEW s \in S PROVE 0 .. s \in FiniteSubsetsOf(Nat)
      OBVIOUS
  <2> QED BY FS_Interval DEF FiniteSubsetsOf
<1>2. PICK x \in T : \A y \in T : <<y, x>> \notin StrictSubsetOrdering(Nat)
  <2> T # {}  OBVIOUS
  <2> QED BY <1>1, FS_StrictSubsetOrderingWellFounded, WFMin
<1>3. PICK m \in S : x = 0 .. m
    BY <1>2
<1>4. ASSUME NEW j \in S, j < m
      PROVE  FALSE
  <2>1. 0 .. j \in T /\ 0 .. j \subseteq 0 .. m
      BY <1>4
  <2>2. m \in 0 .. m /\ m \notin 0 .. j
      BY <1>4
  <2>3. <<0 .. j, 0 .. m>> \in StrictSubsetOrdering(Nat)
      BY <2>1, <2>2, <1>4 DEF StrictSubsetOrdering
  <2> QED BY <1>2, <1>3, <2>1, <2>3
<1> QED BY <1>4

\* The greatest element of a set of indices that is bounded.
LEMMA Greatest ==
    ASSUME NEW B \in Nat, NEW S \in SUBSET (0 .. B), S # {}
    PROVE  \E m \in S : \A j \in S : j <= m
<1> DEFINE T == {B - s : s \in S}
<1>1. T \in SUBSET Nat /\ T # {}
  <2>1. \A s \in S : B - s \in Nat
    OBVIOUS
  <2>2. PICK s \in S : TRUE
    OBVIOUS
  <2>3. B - s \in T
    OBVIOUS
  <2> QED BY <2>1, <2>3
<1>2. PICK t \in T : \A u \in T : t <= u
  BY <1>1, Least
<1>3. PICK m \in S : t = B - m
  OBVIOUS
<1>4. ASSUME NEW j \in S PROVE j <= m
  <2>1. B - j \in T
    OBVIOUS
  <2>2. B - m <= B - j
    BY <2>1, <1>2, <1>3
  <2> QED BY <2>2
<1> QED BY <1>4

\* f[i] is given, or a function of f of a greater index.
IsRecursion(B, V, Stop, v, n, g) ==
    /\ B \in Nat
    /\ v \in [0 .. B -> V] /\ g \in [V -> V]
    /\ \A i \in 0 .. B : i \notin Stop => n[i] \in i + 1 .. B

Solution(B, V, Stop, v, n, g, f) ==
    /\ f \in [0 .. B -> V]
    /\ \A i \in 0 .. B : f[i] = IF i \in Stop THEN v[i] ELSE g[f[n[i]]]

LEMMA RecursionFromTheEnd ==
    ASSUME NEW B, NEW V, NEW Stop, NEW v, NEW n, NEW g,
           IsRecursion(B, V, Stop, v, n, g)
    PROVE  \E f : Solution(B, V, Stop, v, n, g, f)
<1> USE DEF IsRecursion
<1> DEFINE Solves(f, k) ==
             \A i \in 0 .. B : i >= k => f[i] = IF i \in Stop THEN v[i] ELSE g[f[n[i]]]
           Solved == {k \in 0 .. B + 1 : \E f \in [0 .. B -> V] : Solves(f, k)}
<1>1. B + 1 \in Solved
  OBVIOUS
<1>2. PICK k \in Solved : \A j \in Solved : k <= j
  <2>1. Solved \in SUBSET Nat
    OBVIOUS
  <2> HIDE DEF Solved
  <2> QED BY <1>1, <2>1, Least
<1>3. PICK f \in [0 .. B -> V] : Solves(f, k)
  OBVIOUS
<1>5. ASSUME k # 0 PROVE FALSE
  <2> DEFINE m == k - 1
             w == IF m \in Stop THEN v[m] ELSE g[f[n[m]]]
             h == [f EXCEPT ![m] = w]
  <2>1. m \in 0 .. B
    BY <1>5
  <2>2. w \in V
    BY <2>1
  <2>3. h \in [0 .. B -> V]
    BY <2>2
  <2>4. ASSUME NEW i \in 0 .. B, i >= m
        PROVE  h[i] = IF i \in Stop THEN v[i] ELSE g[h[n[i]]]
    <3>1. i \notin Stop => h[n[i]] = f[n[i]]
      BY <2>4
    <3>2. CASE i = m
      BY <3>1, <3>2, <2>1
    <3>3. CASE i # m
      <4>1. i >= k /\ h[i] = f[i]
        BY <3>3, <2>4, <2>1
      <4> QED BY <4>1, <3>1, <1>3
    <3> QED BY <3>2, <3>3
  <2>5. Solves(h, m)
    BY <2>4
  <2>6. \E e \in [0 .. B -> V] : Solves(e, m)
    <3> HIDE DEF h, Solves
    <3> QED BY <2>3, <2>5
  <2>7. m \in Solved
    <3> HIDE DEF Solves
    <3> QED BY <2>1, <2>6
  <2>8. k <= m
    <3> HIDE DEF Solved
    <3> QED BY <2>7, <1>2
  <2>9. k \in Int
    OBVIOUS
  <2> HIDE DEF Solved
  <2> QED BY <2>8, <2>9
<1>6. k = 0
  BY <1>5
<1>7. Solution(B, V, Stop, v, n, g, f)
  BY <1>3, <1>6 DEF Solution
<1> QED BY <1>7

-----------------------------------------------------------------------------
(* The recursive functions unfold                                          *)

FindEquation(p, id, f) ==
    \A i \in Index :
        f[i] = IF p.buffer[i] = Id("endm") THEN -1
               ELSE IF p.buffer[i] = Id(id) THEN i + 2
               ELSE LET next == i + 2 + NumberAt(p, i + 1)
                    IN  IF next \notin i + 2 .. BUFLEN - 1 THEN -1 ELSE f[next]

LEMMA FindUnfolds ==
    ASSUME NEW p \in Packet, NEW id
    PROVE  FindEquation(p, id, FindFrom(p, id))
<1> DEFINE Def(f) == f = [i \in DOMAIN p.buffer |->
                 IF p.buffer[i] = Id("endm") THEN -1
                 ELSE IF p.buffer[i] = Id(id) THEN i + 2
                 ELSE LET next == i + 2 + NumberAt(p, i + 1)
                      IN  IF next \notin i + 2 .. BUFLEN - 1 THEN -1 ELSE f[next]]
           B == BUFLEN - 1
           next(i) == i + 2 + NumberAt(p, i + 1)
           Stop == {i \in 0 .. B : \/ p.buffer[i] = Id("endm") \/ p.buffer[i] = Id(id)
                                  \/ next(i) \notin i + 2 .. B}
           v == [i \in 0 .. B |-> IF p.buffer[i] # Id("endm") /\ p.buffer[i] = Id(id)
                                  THEN i + 2 ELSE -1]
           n == [i \in 0 .. B |-> next(i)]
           g == [x \in Int |-> x]
<1>1. B \in Nat /\ DOMAIN p.buffer = 0 .. B
  BY BufferAssumption DEF Packet
<1>2. v \in [0 .. B -> Int] /\ g \in [Int -> Int]
  BY <1>1
<1>3. ASSUME NEW i \in 0 .. B, i \notin Stop
      PROVE  next(i) \in i + 1 .. B /\ n[i] = next(i)
  <2>1. next(i) \in i + 2 .. B
    BY <1>3
  <2> HIDE DEF next
  <2> QED BY <2>1, <1>1
<1>4. PICK f : Solution(B, Int, Stop, v, n, g, f)
  <2>1. IsRecursion(B, Int, Stop, v, n, g)
    <3> HIDE DEF B, Stop, v, n, g
    <3> QED BY <1>1, <1>2, <1>3 DEF IsRecursion
  <2> HIDE DEF B, Stop, v, n, g
  <2> QED BY <2>1, RecursionFromTheEnd
<1>5. ASSUME NEW i \in 0 .. B
      PROVE  f[i] = IF p.buffer[i] = Id("endm") THEN -1
                    ELSE IF p.buffer[i] = Id(id) THEN i + 2
                    ELSE IF next(i) \notin i + 2 .. B THEN -1 ELSE f[next(i)]
  <2>1. next(i) \in Int
    BY <1>1, NumberAtType
  <2>2. CASE i \in Stop
    <3>1. f[i] = v[i]
      BY <1>4, <2>2 DEF Solution
    <3> QED BY <3>1, <2>2
  <2>3. CASE i \notin Stop
    <3>1. f[i] = g[f[next(i)]] /\ next(i) \in 0 .. B
      <4>1. next(i) \in i + 1 .. B /\ n[i] = next(i)
        BY <1>3, <2>3
      <4> HIDE DEF next, Stop, g, n
      <4> QED BY <1>4, <2>3, <1>1, <4>1 DEF Solution
    <3>2. f[i] = f[next(i)]
      BY <3>1, <1>4 DEF Solution
    <3> HIDE DEF next
    <3> QED BY <3>2, <2>3
  <2> QED BY <2>2, <2>3
<1>6. Def(f)
  <2>1. f = [i \in 0 .. B |-> f[i]]
    BY <1>4 DEF Solution
  <2> QED BY <2>1, <1>5, <1>1
<1>7. FindFrom(p, id) = CHOOSE h : Def(h)
  BY DEF FindFrom
<1>8. Def(FindFrom(p, id))
  <2> HIDE DEF Def
  <2> QED BY <1>6, <1>7
<1> QED BY <1>8, <1>1 DEF FindEquation, Index

ScanEquation(p, f) ==
    \A i \in 0 .. p.length :
        f[i] = IF p.length < i + 1 THEN -1
               ELSE IF p.buffer[i] = Id("endm") THEN 0
               ELSE LET next == i + 2 + NumberAt(p, i + 1)
                    IN  IF next \notin i + 2 .. p.length \/ f[next] = -1 THEN -1 ELSE f[next] + 1

LEMMA ScanUnfolds ==
    ASSUME NEW p \in Packet, p.length \in Nat
    PROVE  ScanEquation(p, ScanFrom(p))
<1> DEFINE Def(f) == f = [i \in 0 .. p.length |->
                 IF p.length < i + 1 THEN -1
                 ELSE IF p.buffer[i] = Id("endm") THEN 0
                 ELSE LET next == i + 2 + NumberAt(p, i + 1)
                      IN  IF next \notin i + 2 .. p.length \/ f[next] = -1 THEN -1
                          ELSE f[next] + 1]
           B == p.length
           next(i) == i + 2 + NumberAt(p, i + 1)
           Stop == {i \in 0 .. B : \/ p.length < i + 1 \/ p.buffer[i] = Id("endm")
                                  \/ next(i) \notin i + 2 .. B}
           v == [i \in 0 .. B |-> IF p.length >= i + 1 /\ p.buffer[i] = Id("endm")
                                  THEN 0 ELSE -1]
           n == [i \in 0 .. B |-> next(i)]
           g == [x \in Int |-> IF x = -1 THEN -1 ELSE x + 1]
<1>2. v \in [0 .. B -> Int] /\ g \in [Int -> Int]
  OBVIOUS
<1>3. ASSUME NEW i \in 0 .. B, i \notin Stop
      PROVE  next(i) \in i + 1 .. B /\ n[i] = next(i)
  <2>1. next(i) \in i + 2 .. B
    BY <1>3
  <2> HIDE DEF next
  <2> QED BY <2>1
<1>4. PICK f : Solution(B, Int, Stop, v, n, g, f)
  <2>1. IsRecursion(B, Int, Stop, v, n, g)
    <3> HIDE DEF Stop, v, n, g
    <3> QED BY <1>2, <1>3 DEF IsRecursion
  <2> HIDE DEF B, Stop, v, n, g
  <2> QED BY <2>1, RecursionFromTheEnd
<1>5. ASSUME NEW i \in 0 .. B
      PROVE  f[i] = IF p.length < i + 1 THEN -1
                    ELSE IF p.buffer[i] = Id("endm") THEN 0
                    ELSE IF next(i) \notin i + 2 .. p.length \/ f[next(i)] = -1 THEN -1
                    ELSE f[next(i)] + 1
  <2>2. CASE i \in Stop
    <3>1. f[i] = v[i]
      BY <1>4, <2>2 DEF Solution
    <3> HIDE DEF next
    <3> QED BY <3>1, <2>2
  <2>3. CASE i \notin Stop
    <3>1. f[i] = g[f[next(i)]] /\ next(i) \in 0 .. B
      <4>1. next(i) \in i + 1 .. B /\ n[i] = next(i)
        BY <1>3, <2>3
      <4> HIDE DEF next, Stop, g, n, v
      <4>2. next(i) \in 0 .. B
        BY <4>1
      <4>3. f[i] = g[f[n[i]]]
        BY <1>4, <2>3 DEF Solution
      <4> QED BY <4>1, <4>2, <4>3
    <3>2. f[i] = IF f[next(i)] = -1 THEN -1 ELSE f[next(i)] + 1
      <4> HIDE DEF next
      <4> QED BY <3>1, <1>4 DEF Solution
    <3> HIDE DEF next
    <3> QED BY <3>2, <2>3
  <2> QED BY <2>2, <2>3
<1>6. Def(f)
  <2>1. f = [i \in 0 .. B |-> f[i]]
    BY <1>4 DEF Solution
  <2> QED BY <2>1, <1>5
<1>7. ScanFrom(p) = CHOOSE h : Def(h)
  BY DEF ScanFrom
<1>8. Def(ScanFrom(p))
  <2> HIDE DEF Def
  <2> QED BY <1>6, <1>7
<1> QED BY <1>8 DEF ScanEquation

-----------------------------------------------------------------------------
(* Chunks in the buffer                                                    *)

HoldsAt(p, i, words) == \A k \in 1 .. Len(words) : p.buffer[i + k - 1] = words[k]

ChunkId == RequestId \cup ReplyId

LEMMA ChunkIds == \A c \in ChunkId : c # "endm" /\ c # "HSHr" /\ Id(c) # Id("endm") /\ Id(c) # Id("HSHr")
BY IdsDiffer DEF ChunkId, RequestId, ReplyId

LEMMA PairIsSeq ==
    ASSUME NEW S, NEW a \in S, NEW b \in S
    PROVE  <<a, b>> \in Seq(S) /\ Len(<<a, b>>) = 2 /\ <<a, b>>[1] = a /\ <<a, b>>[2] = b
OBVIOUS

LEMMA ChunkWords ==
    ASSUME NEW c \in ChunkId, NEW payload \in Seq(Word)
    PROVE  /\ Chunk(c, payload) \in Seq(Word)
           /\ Len(Chunk(c, payload)) = 2 + Len(payload)
           /\ Chunk(c, payload)[1] = Id(c)
           /\ Chunk(c, payload)[2] = Integer(Len(payload))
           /\ \A k \in 1 .. Len(payload) : Chunk(c, payload)[k + 2] = payload[k]
<1> DEFINE head == <<Id(c), Integer(Len(payload))>>
<1>1. head \in Seq(Word) /\ Len(head) = 2 /\ head[1] = Id(c) /\ head[2] = Integer(Len(payload))
  <2>1. Id(c) \in Word
    BY IdIsWord DEF ChunkId
  <2>2. Len(payload) \in Int
    OBVIOUS
  <2>3. Integer(Len(payload)) \in Word
    BY <2>2, IntegerIsWord
  <2> QED BY <2>1, <2>3, PairIsSeq
<1>2. Chunk(c, payload) = head \o payload
  BY DEF Chunk
<1> HIDE DEF head
<1>3. /\ head \o payload \in Seq(Word)
      /\ Len(head \o payload) = Len(head) + Len(payload)
      /\ \A i \in 1 .. Len(head) + Len(payload) :
            (head \o payload)[i] = IF i <= Len(head) THEN head[i] ELSE payload[i - Len(head)]
  BY <1>1, ConcatProperties
<1>4. /\ Chunk(c, payload) \in Seq(Word)
      /\ Len(Chunk(c, payload)) = 2 + Len(payload)
      /\ \A i \in 1 .. 2 + Len(payload) :
            Chunk(c, payload)[i] = IF i <= 2 THEN head[i] ELSE payload[i - 2]
  BY <1>1, <1>2, <1>3
<1>5. ASSUME NEW k \in 1 .. Len(payload) PROVE Chunk(c, payload)[k + 2] = payload[k]
  <2>1. k + 2 \in 1 .. 2 + Len(payload) /\ ~(k + 2 <= 2) /\ (k + 2) - 2 = k
    OBVIOUS
  <2> QED BY <2>1, <1>4
<1>6. Len(payload) \in Nat
  OBVIOUS
<1>7. Chunk(c, payload)[1] = head[1] /\ Chunk(c, payload)[2] = head[2]
  BY <1>4, <1>6
<1> QED BY <1>1, <1>4, <1>5, <1>7

LEMMA HeldChunk ==
    ASSUME NEW p, NEW i \in Nat, NEW c \in ChunkId, NEW payload \in Seq(Word),
           HoldsAt(p, i, Chunk(c, payload)), i + 1 \in DOMAIN p.buffer
    PROVE  /\ p.buffer[i] = Id(c)
           /\ p.buffer[i + 1] = Integer(Len(payload)) /\ NumberAt(p, i + 1) = Len(payload)
           /\ \A k \in 1 .. Len(payload) : p.buffer[i + 1 + k] = payload[k]
<1>1. \A k \in 1 .. Len(payload) + 2 : p.buffer[i + k - 1] = Chunk(c, payload)[k]
  BY ChunkWords DEF HoldsAt
<1>2. p.buffer[i] = Id(c)
  <2>1. 1 \in 1 .. Len(payload) + 2 /\ i + 1 - 1 = i
    OBVIOUS
  <2> QED BY <2>1, <1>1, ChunkWords
<1>3. p.buffer[i + 1] = Integer(Len(payload))
  <2>1. 2 \in 1 .. Len(payload) + 2 /\ i + 2 - 1 = i + 1
    OBVIOUS
  <2> QED BY <2>1, <1>1, ChunkWords
<1>4. NumberAt(p, i + 1) = Len(payload)
  BY <1>3, NumberOfInteger DEF NumberAt
<1>5. ASSUME NEW k \in 1 .. Len(payload) PROVE p.buffer[i + 1 + k] = payload[k]
  <2>1. k + 2 \in 1 .. Len(payload) + 2 /\ i + (k + 2) - 1 = i + 1 + k
    OBVIOUS
  <2> QED BY <2>1, <1>1, ChunkWords
<1> QED BY <1>2, <1>3, <1>4, <1>5

LEMMA FindAtChunk ==
    ASSUME NEW p \in Packet, NEW i \in Nat, NEW id, NEW c \in ChunkId,
           NEW payload \in Seq(Word), HoldsAt(p, i, Chunk(c, payload)),
           i + 2 + Len(payload) < BUFLEN
    PROVE  FindFrom(p, id)[i] = IF c = id THEN i + 2 ELSE FindFrom(p, id)[i + 2 + Len(payload)]
<1>1. i \in Index /\ i + 1 \in Index /\ DOMAIN p.buffer = Index /\ Len(payload) \in Nat
  BY BufferAssumption DEF Packet, Index
<1>2. p.buffer[i] = Id(c) /\ NumberAt(p, i + 1) = Len(payload)
  BY <1>1, HeldChunk
<1>3. Id(c) # Id("endm") /\ (Id(c) = Id(id) <=> c = id)
  BY IdsDiffer, ChunkIds
<1> DEFINE next == i + 2 + Len(payload)
<1>4. next \in i + 2 .. BUFLEN - 1
  BY <1>1, BufferAssumption
<1> HIDE DEF next
<1>5. FindFrom(p, id)[i] = IF Id(c) = Id("endm") THEN -1
                           ELSE IF Id(c) = Id(id) THEN i + 2
                           ELSE IF next \notin i + 2 .. BUFLEN - 1 THEN -1
                           ELSE FindFrom(p, id)[next]
  BY <1>1, <1>2, FindUnfolds DEF FindEquation, next
<1> QED BY <1>3, <1>4, <1>5 DEF next

LEMMA FindAtEnd ==
    ASSUME NEW p \in Packet, NEW i \in Index, NEW id, p.buffer[i] = Id("endm")
    PROVE  FindFrom(p, id)[i] = -1
BY FindUnfolds DEF FindEquation

\* A chunk that what was read contains.
LEMMA ScanAtChunk ==
    ASSUME NEW p \in Packet, p.length \in 0 .. BUFLEN, NEW i \in Nat,
           NEW c \in ChunkId, NEW payload \in Seq(Word),
           i + 1 < p.length, HoldsAt(p, i, Chunk(c, payload))
    PROVE  ScanFrom(p)[i] =
             IF i + 2 + Len(payload) > p.length \/ ScanFrom(p)[i + 2 + Len(payload)] = -1
             THEN -1 ELSE ScanFrom(p)[i + 2 + Len(payload)] + 1
<1>1. i \in Index /\ i + 1 \in Index /\ DOMAIN p.buffer = Index /\ Len(payload) \in Nat
  BY BufferAssumption DEF Packet, Index
<1>2. p.buffer[i] = Id(c) /\ NumberAt(p, i + 1) = Len(payload)
  BY <1>1, HeldChunk
<1>3. Id(c) # Id("endm")
  BY ChunkIds
<1> DEFINE next == i + 2 + Len(payload)
<1>4. next \in Int /\ next >= i + 2
  BY <1>1
<1> HIDE DEF next
<1>5. i \in 0 .. p.length /\ ~(p.length < i + 1)
  BY BufferAssumption
<1>6. ScanFrom(p)[i] = IF next \notin i + 2 .. p.length \/ ScanFrom(p)[next] = -1 THEN -1
                       ELSE ScanFrom(p)[next] + 1
  <2>1. ScanEquation(p, ScanFrom(p))
    BY ScanUnfolds
  <2>2. ScanFrom(p)[i] = IF p.length < i + 1 THEN -1
               ELSE IF p.buffer[i] = Id("endm") THEN 0
               ELSE IF i + 2 + NumberAt(p, i + 1) \notin i + 2 .. p.length
                       \/ ScanFrom(p)[i + 2 + NumberAt(p, i + 1)] = -1 THEN -1
               ELSE ScanFrom(p)[i + 2 + NumberAt(p, i + 1)] + 1
    BY <2>1, <1>5 DEF ScanEquation
  <2>3. i + 2 + NumberAt(p, i + 1) = next
    BY <1>2 DEF next
  <2> QED BY <2>2, <2>3, <1>2, <1>3, <1>5
<1>7. next \notin i + 2 .. p.length <=> next > p.length
  BY <1>4, BufferAssumption
<1> QED BY <1>6, <1>7 DEF next

-----------------------------------------------------------------------------
(* Composing                                                               *)

\* The words are appended, and nothing else is touched.
Extends(q, p, words) ==
    /\ q \in Packet
    /\ q.length = p.length + Len(words) /\ q.counter = p.counter
    /\ \A j \in Index : j < p.length => q.buffer[j] = p.buffer[j]
    /\ \A j \in Index : j >= p.length + Len(words) => q.buffer[j] = p.buffer[j]
    /\ q.length <= BUFLEN => HoldsAt(q, p.length, words)

LEMMA AppendedWords ==
    ASSUME NEW p \in Packet, p.length \in Nat, NEW words \in Seq(Word)
    PROVE  Extends(Appended(p, words), p, words)
<1> DEFINE q == Appended(p, words)
           At(i) == i - p.length + 1
           buffer == [i \in Index |-> IF At(i) \in DOMAIN words THEN words[At(i)] ELSE p.buffer[i]]
<1>1. p.buffer \in [Index -> Word] /\ DOMAIN p.buffer = Index
  BY DEF Packet, Index
<1>2. q = [p EXCEPT !.buffer = buffer, !.length = p.length + Len(words)]
  BY <1>1 DEF Appended
<1>3. q.buffer = buffer /\ q.length = p.length + Len(words) /\ q.counter = p.counter
  BY <1>2 DEF Packet
<1>4. buffer \in [Index -> Word]
  BY <1>1
<1>5. q \in Packet
  <2>1. p.length + Len(words) \in Int
    OBVIOUS
  <2> HIDE DEF buffer, q
  <2> QED BY <1>2, <1>4, <2>1 DEF Packet, Index
<1>6. ASSUME NEW j \in Index, j < p.length \/ j >= p.length + Len(words)
      PROVE  q.buffer[j] = p.buffer[j]
  <2>1. At(j) \notin DOMAIN words
    BY <1>6 DEF Index
  <2> QED BY <2>1, <1>3
<1>7. ASSUME q.length <= BUFLEN, NEW k \in 1 .. Len(words)
      PROVE  q.buffer[p.length + k - 1] = words[k]
  <2>1. p.length + k - 1 \in Index
    <3> DEFINE a == p.length
               n == Len(words)
    <3>1. a \in Nat /\ n \in Nat /\ a + n <= BUFLEN /\ k \in 1 .. n
      BY <1>3, <1>7
    <3> HIDE DEF a, n
    <3>2. a + k - 1 \in Index
      BY <3>1, BufferAssumption DEF Index
    <3> QED BY <3>2 DEF a
  <2>2. At(p.length + k - 1) = k
    OBVIOUS
  <2> QED BY <2>1, <2>2, <1>3
<1> HIDE DEF q
<1> QED BY <1>3, <1>5, <1>6, <1>7 DEF HoldsAt, Extends, q

LEMMA AppendedChunk ==
    ASSUME NEW p \in Packet, p.length \in Nat, NEW c \in ChunkId, NEW payload \in Seq(Word)
    PROVE  /\ Extends(AppendChunk(p, c, payload), p, Chunk(c, payload))
           /\ AppendChunk(p, c, payload).length = p.length + 2 + Len(payload)
<1> DEFINE q == AppendChunk(p, c, payload)
           words == Chunk(c, payload)
<1>1. words \in Seq(Word) /\ Len(words) = 2 + Len(payload) /\ Len(payload) \in Nat
  BY ChunkWords
<1>2. q = Appended(p, words)
  BY DEF AppendChunk
<1> HIDE DEF q, words
<1>3. Extends(q, p, words)
  BY <1>1, <1>2, AppendedWords
<1>4. q.length = p.length + 2 + Len(payload)
  BY <1>1, <1>3 DEF Extends
<1> QED BY <1>3, <1>4 DEF q, words

LEMMA HeldIsKept ==
    ASSUME NEW p \in Packet, p.length \in Nat, NEW words \in Seq(Word), NEW i \in Nat,
           HoldsAt(p, i, words), i + Len(words) <= p.length,
           NEW q, \A j \in Index : j < p.length => q.buffer[j] = p.buffer[j],
           p.length <= BUFLEN
    PROVE  HoldsAt(q, i, words)
<1> SUFFICES ASSUME NEW k \in 1 .. Len(words) PROVE q.buffer[i + k - 1] = words[k]
  BY DEF HoldsAt
<1>1. i + k - 1 \in Index /\ i + k - 1 < p.length
  BY BufferAssumption DEF Index
<1> QED BY <1>1 DEF HoldsAt

\* A reply that has been begun and is not ended: chunks with some of the ids
\* that follow each other; B are the indices where one begins or may begin.
Boundaries(p, ids, B) ==
    /\ B \subseteq 1 .. p.length /\ 1 \in B /\ p.length \in B
    /\ \A b \in B \ {p.length} :
          /\ \E c \in ids : p.buffer[b] = Id(c)
          /\ NumberAt(p, b + 1) >= 0 /\ b + 2 + NumberAt(p, b + 1) \in B

Composed(p, ids) ==
    /\ p \in Packet /\ p.length \in Nat \ {0} /\ IsHeaderOk(p)
    /\ p.length <= BUFLEN => \E B : Boundaries(p, ids, B)

LEMMA ComposedAppend ==
    ASSUME NEW p, NEW ids, Composed(p, ids), ids \subseteq ChunkId,
           NEW c \in ids, NEW payload \in Seq(Word)
    PROVE  Composed(AppendChunk(p, c, payload), ids)
<1> DEFINE q == AppendChunk(p, c, payload)
<1>1. p \in Packet /\ p.length \in Nat /\ p.length >= 1 /\ IsHeaderOk(p) /\ Len(payload) \in Nat
  BY DEF Composed
<1>2. /\ q \in Packet /\ q.length = p.length + 2 + Len(payload)
      /\ \A j \in Index : j < p.length => q.buffer[j] = p.buffer[j]
      /\ q.length <= BUFLEN => HoldsAt(q, p.length, Chunk(c, payload))
  <2>1. c \in ChunkId
    OBVIOUS
  <2>2. Extends(q, p, Chunk(c, payload)) /\ q.length = p.length + 2 + Len(payload)
    BY <1>1, <2>1, AppendedChunk
  <2> HIDE DEF q
  <2> QED BY <2>2 DEF Extends
<1> HIDE DEF q
<1>3. q.length \in Nat \ {0} /\ q.length > p.length + 1
  BY <1>1, <1>2
<1>4. IsHeaderOk(q)
  <2>1. 0 \in Index
    BY BufferAssumption DEF Index
  <2> QED BY <1>1, <1>2, <2>1 DEF IsHeaderOk
<1>5. ASSUME q.length <= BUFLEN PROVE \E B : Boundaries(q, ids, B)
  <2>1. PICK B : Boundaries(p, ids, B)
    BY <1>1, <1>3, <1>5, BufferAssumption DEF Composed
  <2> DEFINE C == B \cup {q.length}
  <2>2. C \subseteq 1 .. q.length /\ 1 \in C /\ q.length \in C
    <3>1. \A b \in B : b \in 1 .. p.length
      BY <2>1 DEF Boundaries
    <3>2. \A b \in 1 .. p.length : b \in 1 .. q.length
      BY <1>1, <1>3
    <3>3. 1 \in B /\ q.length \in 1 .. q.length
      BY <2>1, <1>3 DEF Boundaries
    <3> QED BY <3>1, <3>2, <3>3
  <2>3. ASSUME NEW b \in B, b # p.length
        PROVE  /\ \E d \in ids : q.buffer[b] = Id(d)
               /\ NumberAt(q, b + 1) >= 0 /\ b + 2 + NumberAt(q, b + 1) \in C
    <3>1. /\ b \in Int /\ b >= 1 /\ NumberAt(p, b + 1) \in Int /\ NumberAt(p, b + 1) >= 0
          /\ b + 2 + NumberAt(p, b + 1) \in B /\ b + 2 + NumberAt(p, b + 1) <= p.length
      BY <2>1, <2>3, <1>1, NumberAtType DEF Boundaries
    <3>2. b \in Index /\ b + 1 \in Index /\ b + 1 < p.length
      BY <3>1, <1>1, <1>3, <1>5, BufferAssumption DEF Index
    <3>3. q.buffer[b] = p.buffer[b] /\ q.buffer[b + 1] = p.buffer[b + 1]
      BY <3>2, <3>1, <1>1, <1>2
    <3>4. NumberAt(q, b + 1) = NumberAt(p, b + 1)
      BY <3>2, <3>3, <1>1, <1>2 DEF NumberAt, Packet, Index
    <3> QED BY <3>1, <3>3, <3>4, <2>1, <2>3 DEF Boundaries
  <2>4. /\ \E d \in ids : q.buffer[p.length] = Id(d)
        /\ NumberAt(q, p.length + 1) >= 0 /\ p.length + 2 + NumberAt(q, p.length + 1) \in C
    <3>1. p.length + 1 \in DOMAIN q.buffer
      BY <1>1, <1>2, <1>3, <1>5, BufferAssumption DEF Packet
    <3>2. q.buffer[p.length] = Id(c) /\ NumberAt(q, p.length + 1) = Len(payload)
      BY <3>1, <1>1, <1>2, <1>5, HeldChunk
    <3>3. p.length + 2 + NumberAt(q, p.length + 1) = q.length
      BY <3>2, <1>1, <1>2
    <3>4. NumberAt(q, p.length + 1) >= 0
      BY <3>2, <1>1
    <3> QED BY <3>2, <3>3, <3>4
  <2> HIDE DEF C
  <2>5. ASSUME NEW b \in C \ {q.length}
        PROVE  /\ \E d \in ids : q.buffer[b] = Id(d)
               /\ NumberAt(q, b + 1) >= 0 /\ b + 2 + NumberAt(q, b + 1) \in C
    <3>1. CASE b = p.length
      BY <3>1, <2>4
    <3>2. CASE b # p.length
      BY <3>2, <2>3, <2>5 DEF C
    <3> QED BY <3>1, <3>2
  <2> QED BY <2>2, <2>5 DEF Boundaries
<1> QED BY <1>2, <1>3, <1>4, <1>5 DEF Composed, q

LEMMA ComposedMore ==
    ASSUME NEW p, NEW ids, NEW more, Composed(p, ids), ids \subseteq more
    PROVE  Composed(p, more)
<1>1. ASSUME NEW B, Boundaries(p, ids, B) PROVE Boundaries(p, more, B)
  BY <1>1 DEF Boundaries
<1> QED BY <1>1 DEF Composed

\* The end mark makes it a reply that can be read.
LEMMA ReplyCanBeRead ==
    ASSUME NEW p, NEW ids, Composed(p, ids), ids \subseteq ChunkId,
           AppendEndmark(p).length <= BUFLEN
    PROVE  LET q == AppendEndmark(p)
           IN  /\ q \in Packet /\ IsHeaderOk(q) /\ ScanChunks(q) # -1
               /\ q.length = p.length + 1 /\ q.buffer[q.length - 1] = Id("endm")
               /\ \A j \in Index : j < p.length => q.buffer[j] = p.buffer[j]
               /\ \A id : id \notin ids => FindChunk(q, id) = -1
<1> DEFINE q == AppendEndmark(p)
<1>1. p \in Packet /\ p.length \in Nat /\ p.length >= 1 /\ IsHeaderOk(p)
  BY DEF Composed
<1>2. <<Id("endm")>> \in Seq(Word) /\ Len(<<Id("endm")>>) = 1 /\ <<Id("endm")>>[1] = Id("endm")
  <2>1. Id("endm") \in Word
    BY IdIsWord DEF Mark
  <2> QED BY <2>1
<1>3. /\ q \in Packet /\ q.length = p.length + 1
      /\ \A j \in Index : j < p.length => q.buffer[j] = p.buffer[j]
      /\ HoldsAt(q, p.length, <<Id("endm")>>)
  <2>1. Extends(q, p, <<Id("endm")>>) /\ q.length <= BUFLEN
    BY <1>1, <1>2, AppendedWords DEF AppendEndmark
  <2> HIDE DEF q
  <2> QED BY <1>2, <2>1 DEF Extends
<1>4. q.length <= BUFLEN
  OBVIOUS
<1> HIDE DEF q
<1>5. p.length \in Index /\ 0 \in Index /\ p.length <= BUFLEN /\ q.length \in Nat
  BY <1>1, <1>3, <1>4, BufferAssumption DEF Index
<1>6. q.buffer[p.length] = Id("endm")
  <2>1. 1 \in 1 .. Len(<<Id("endm")>>) /\ p.length + 1 - 1 = p.length
    BY <1>1, <1>2
  <2> QED BY <2>1, <1>2, <1>3 DEF HoldsAt
<1>7. PICK B : Boundaries(p, ids, B)
  BY <1>5 DEF Composed
<1>8. B \in SUBSET (0 .. p.length)
  BY <1>7, <1>1 DEF Boundaries
<1>9. ASSUME NEW b \in B, b # p.length
      PROVE  /\ b \in Index /\ b + 1 < q.length /\ b + 2 + NumberAt(q, b + 1) \in B
             /\ NumberAt(q, b + 1) \in Nat
             /\ \E c \in ids : q.buffer[b] = Id(c)
  <2>1. /\ b \in Int /\ b >= 1 /\ NumberAt(p, b + 1) \in Int /\ NumberAt(p, b + 1) >= 0
        /\ b + 2 + NumberAt(p, b + 1) \in B /\ b + 2 + NumberAt(p, b + 1) <= p.length
    BY <1>7, <1>9, <1>1, NumberAtType DEF Boundaries
  <2>2. b \in Index /\ b + 1 \in Index /\ b + 1 < p.length
    BY <2>1, <1>1, <1>5, BufferAssumption DEF Index
  <2>3. q.buffer[b] = p.buffer[b] /\ q.buffer[b + 1] = p.buffer[b + 1]
    BY <2>2, <2>1, <1>1, <1>3
  <2>4. NumberAt(q, b + 1) = NumberAt(p, b + 1)
    BY <2>2, <2>3, <1>1, <1>3 DEF NumberAt, Packet, Index
  <2>5. \E c \in ids : q.buffer[b] = Id(c)
    BY <2>3, <1>7, <1>9 DEF Boundaries
  <2> QED BY <2>1, <2>2, <2>4, <2>5, <1>1, <1>3
<1>10. IsHeaderOk(q)
  BY <1>1, <1>3, <1>5 DEF IsHeaderOk
<1>11. ScanFrom(q)[1] \in Nat
  <2> DEFINE Bad == {b \in B : ScanFrom(q)[b] \notin Nat}
  <2>1. ASSUME Bad # {} PROVE FALSE
    <3>1. Bad \in SUBSET (0 .. p.length)
      BY <1>8
    <3>2. PICK m \in Bad : \A j \in Bad : j <= m
      <4> HIDE DEF Bad
      <4> QED BY <1>1, <2>1, <3>1, Greatest
    <3>3. m \in B /\ m \in Nat /\ ScanFrom(q)[m] \notin Nat /\ m \in 0 .. q.length
      <4>1. m \in B /\ ScanFrom(q)[m] \notin Nat
        OBVIOUS
      <4>2. m \in 0 .. p.length
        BY <4>1, <1>8
      <4> QED BY <4>1, <4>2, <1>3, <1>1
    <3>4. m # p.length
      <4>1. ScanFrom(q)[p.length] = 0
        BY <1>3, <1>1, <1>5, <1>6, ScanUnfolds DEF ScanEquation
      <4> QED BY <4>1, <3>3
    <3> DEFINE next == m + 2 + NumberAt(q, m + 1)
    <3>5. next \in B /\ next \in m + 2 .. q.length /\ m + 1 < q.length
      <4>1. next \in B /\ m + 1 < q.length /\ NumberAt(q, m + 1) \in Nat
        BY <1>9, <3>3, <3>4
      <4>2. next \in 0 .. p.length
        BY <4>1, <1>8
      <4> QED BY <4>1, <4>2, <3>3, <1>1, <1>3
    <3>6. ScanFrom(q)[next] \in Nat
      <4>1. next \notin Bad
        BY <3>2, <3>5, <3>3
      <4> QED BY <4>1, <3>5
    <3>7. q.buffer[m] # Id("endm")
      BY <1>9, <3>3, <3>4, ChunkIds
    <3>8. ScanFrom(q)[m] = IF next \notin m + 2 .. q.length \/ ScanFrom(q)[next] = -1 THEN -1
                           ELSE ScanFrom(q)[next] + 1
      <4>1. ScanEquation(q, ScanFrom(q))
        BY <1>3, <1>5, ScanUnfolds
      <4>2. ~(q.length < m + 1)
        BY <3>5, <3>3, <1>5
      <4> QED BY <4>1, <4>2, <3>3, <3>7 DEF ScanEquation
    <3> HIDE DEF next
    <3> QED BY <3>5, <3>6, <3>8, <3>3
  <2> QED BY <2>1, <1>7 DEF Boundaries
<1>12. ASSUME NEW id, id \notin ids PROVE FindFrom(q, id)[1] = -1
  <2> DEFINE Bad == {b \in B : FindFrom(q, id)[b] # -1}
  <2>1. ASSUME Bad # {} PROVE FALSE
    <3>1. Bad \in SUBSET (0 .. p.length)
      BY <1>8
    <3>2. PICK m \in Bad : \A j \in Bad : j <= m
      <4> HIDE DEF Bad
      <4> QED BY <1>1, <2>1, <3>1, Greatest
    <3>3. m \in B /\ m \in Nat /\ FindFrom(q, id)[m] # -1
      BY <1>8, <1>3, <1>1
    <3>4. m # p.length
      BY <3>3, <1>3, <1>5, <1>6, FindAtEnd
    <3> DEFINE next == m + 2 + NumberAt(q, m + 1)
    <3>5. next \in B /\ next \in m + 2 .. BUFLEN - 1 /\ m \in Index
      <4>1. next \in B /\ m \in Index /\ NumberAt(q, m + 1) \in Nat
        BY <1>9, <3>3, <3>4
      <4>2. next \in 0 .. p.length
        BY <4>1, <1>8
      <4> QED BY <4>1, <4>2, <3>3, <1>1, <1>3, <1>4, BufferAssumption
    <3>6. FindFrom(q, id)[next] = -1
      <4>1. next \notin Bad
        BY <3>2, <3>5, <3>3
      <4> QED BY <4>1, <3>5
    <3>7. q.buffer[m] # Id("endm") /\ q.buffer[m] # Id(id)
      BY <1>9, <3>3, <3>4, <1>12, IdsDiffer, ChunkIds
    <3>8. FindFrom(q, id)[m] = IF next \notin m + 2 .. BUFLEN - 1 THEN -1 ELSE FindFrom(q, id)[next]
      BY <1>3, <3>5, <3>7, FindUnfolds DEF FindEquation
    <3> HIDE DEF next
    <3> QED BY <3>5, <3>6, <3>8, <3>3
  <2> QED BY <2>1, <1>7 DEF Boundaries
<1>13. ScanChunks(q) # -1
  BY <1>11 DEF ScanChunks
<1>14. q.length - 1 = p.length
  BY <1>1, <1>3
<1> QED BY <1>3, <1>6, <1>10, <1>12, <1>13, <1>14 DEF FindChunk, q

-----------------------------------------------------------------------------
(* Sequences that grow at the end                                          *)

IsChain(N, X, S) ==
    /\ N \in Nat /\ X \in [1 .. N + 1 -> Seq(Word)] /\ S \in [1 .. N -> Seq(Word)]
    /\ \A k \in 1 .. N : X[k + 1] = X[k] \o S[k]

HoldsLinks(N, X, S) ==
    /\ \A k \in 1 .. N : /\ Len(X[k + 1]) = Len(X[k]) + Len(S[k])
                         /\ \A j \in 1 .. Len(S[k]) : X[N + 1][Len(X[k]) + j] = S[k][j]
    /\ \A j \in 1 .. Len(X[1]) : X[N + 1][j] = X[1][j]

LEMMA ChainHoldsItsLinks ==
    ASSUME NEW N, NEW X, NEW S, IsChain(N, X, S)
    PROVE  HoldsLinks(N, X, S)
<1> USE DEF IsChain
<1> DEFINE Good(k) == /\ Len(X[k]) <= Len(X[N + 1])
                      /\ \A j \in 1 .. Len(X[k]) : X[N + 1][j] = X[k][j]
           Bad == {k \in 1 .. N + 1 : ~Good(k)}
<1>1. ASSUME NEW k \in 1 .. N
      PROVE  /\ Len(X[k + 1]) = Len(X[k]) + Len(S[k])
             /\ \A j \in 1 .. Len(X[k]) : X[k + 1][j] = X[k][j]
             /\ \A j \in 1 .. Len(S[k]) : X[k + 1][Len(X[k]) + j] = S[k][j]
  <2>1. X[k] \in Seq(Word) /\ S[k] \in Seq(Word) /\ X[k + 1] = X[k] \o S[k]
    OBVIOUS
  <2>2. Len(X[k]) \in Nat /\ Len(S[k]) \in Nat
    BY <2>1
  <2>3. /\ Len(X[k] \o S[k]) = Len(X[k]) + Len(S[k])
        /\ \A i \in 1 .. Len(X[k]) + Len(S[k]) :
              (X[k] \o S[k])[i] = IF i <= Len(X[k]) THEN X[k][i] ELSE S[k][i - Len(X[k])]
    BY <2>1, ConcatProperties
  <2>4. \A j \in 1 .. Len(X[k]) : (X[k] \o S[k])[j] = X[k][j]
    BY <2>2, <2>3
  <2>5. \A j \in 1 .. Len(S[k]) : (X[k] \o S[k])[Len(X[k]) + j] = S[k][j]
    <3> DEFINE a == Len(X[k])
               n == Len(S[k])
               x == X[k] \o S[k]
    <3>1. a \in Nat /\ n \in Nat
          /\ \A i \in 1 .. a + n : x[i] = IF i <= a THEN X[k][i] ELSE S[k][i - a]
      BY <2>2, <2>3
    <3> HIDE DEF a, n, x
    <3>2. ASSUME NEW j \in 1 .. n PROVE x[a + j] = S[k][j]
      <4>1. a + j \in 1 .. a + n /\ ~(a + j <= a) /\ (a + j) - a = j
        BY <3>1
      <4> QED BY <3>1, <4>1
    <3> QED BY <3>2 DEF a, n, x
  <2> QED BY <2>1, <2>3, <2>4, <2>5
<1>2. Bad = {}
  <2> SUFFICES ASSUME Bad # {} PROVE FALSE
    OBVIOUS
  <2>1. Bad \in SUBSET (0 .. N + 1) /\ N + 1 \in Nat
    OBVIOUS
  <2>2. PICK m \in Bad : \A j \in Bad : j <= m
    <3> HIDE DEF Bad
    <3> QED BY <2>1, Greatest
  <2>3. m \in 1 .. N + 1 /\ ~Good(m)
    BY <2>2
  <2>4. m # N + 1
    <3>1. Good(N + 1)
      OBVIOUS
    <3> HIDE DEF Good
    <3> QED BY <2>3, <3>1
  <2>5. Good(m + 1)
    <3>1. m + 1 \notin Bad /\ m + 1 \in 1 .. N + 1
      <4> HIDE DEF Bad
      <4> QED BY <2>2, <2>3, <2>4
    <3> HIDE DEF Good
    <3> QED BY <3>1
  <2>6. Good(m)
    <3>1. m \in 1 .. N
      BY <2>3, <2>4
    <3>2. X[m] \in Seq(Word) /\ S[m] \in Seq(Word) /\ X[N + 1] \in Seq(Word) /\ X[m + 1] \in Seq(Word)
      BY <3>1
    <3>3. /\ Len(X[m]) \in Nat /\ Len(S[m]) \in Nat /\ Len(X[N + 1]) \in Nat
          /\ Len(X[m + 1]) = Len(X[m]) + Len(S[m])
      BY <3>1, <3>2, <1>1
    <3>4. Len(X[m]) <= Len(X[N + 1])
      BY <3>3, <2>5
    <3>5. ASSUME NEW j \in 1 .. Len(X[m]) PROVE X[N + 1][j] = X[m][j]
      <4>1. j \in 1 .. Len(X[m + 1])
        BY <3>3
      <4> QED BY <4>1, <3>1, <2>5, <1>1
    <3> QED BY <3>4, <3>5
  <2> QED BY <2>3, <2>6
<1>3. \A k \in 1 .. N + 1 : Good(k)
  <2> HIDE DEF Good
  <2> QED BY <1>2
<1>4. ASSUME NEW k \in 1 .. N, NEW j \in 1 .. Len(S[k])
      PROVE  X[N + 1][Len(X[k]) + j] = S[k][j]
  <2>1. Good(k + 1)
    <3> HIDE DEF Good
    <3> QED BY <1>3
  <2>2. X[k] \in Seq(Word) /\ S[k] \in Seq(Word)
    OBVIOUS
  <2>3. Len(X[k]) \in Nat /\ Len(S[k]) \in Nat /\ Len(X[k + 1]) = Len(X[k]) + Len(S[k])
    BY <2>2, <1>1
  <2>4. Len(X[k]) + j \in 1 .. Len(X[k + 1])
    BY <2>3
  <2>5. X[N + 1][Len(X[k]) + j] = X[k + 1][Len(X[k]) + j]
    BY <2>1, <2>4
  <2> QED BY <1>1, <2>5
<1>5. Good(1)
  <2> HIDE DEF Good
  <2> QED BY <1>3
<1> QED BY <1>1, <1>4, <1>5 DEF HoldsLinks
=============================================================================
