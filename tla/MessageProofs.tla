---------------------------- MODULE MessageProofs ----------------------------
(***************************************************************************)
(* The messages of Command in the buffer of Packet: where the words of a   *)
(* request lie and how they are found again, that a part of a request does *)
(* not pass for a whole one, and that a reply composed over a request can  *)
(* be read.                                                                *)
(***************************************************************************)
EXTENDS Command, PacketProofs

-----------------------------------------------------------------------------
(* Requests                                                                *)

Order == <<"CMND", "cntr", "QKEY", "QVAL", "SPAT", "LIMS", "LIMI", "RMET", "RCAP">>

\* The parameters and what a request may say in each of them.
Shape(r) ==
    /\ DOMAIN r = RequestId
    /\ r.CMND = NULL \/ \E op \in CommandToken : r.CMND = <<Token(op)>>
    /\ r.cntr \in Ints(Counter)
    /\ r.QKEY \in Key \cup {NULL} /\ r.QVAL \in Value \cup {NULL} /\ r.SPAT \in Pattern \cup {NULL}
    /\ r.LIMS \in Ints(LimitStart) /\ r.LIMI \in Ints(LimitItems)
    /\ r.RMET \in Ints(Method) /\ r.RCAP \in Ints(Minimum)
    /\ r.CMND \in {<<Token("zap")>>, <<Token("reorg")>>} => r.QKEY = NULL

LEMMA TokensDiffer == ASSUME NEW a, NEW b PROVE Token(a) = Token(b) <=> a = b
<1>1. Token(a).token = a /\ Token(b).token = b
  BY DEF Token
<1> QED BY <1>1

LEMMA RequestShape == ASSUME NEW r \in Requests PROVE Shape(r)
<1>1. PICK c \in Ints(Counter) : r \in RequestsWith(c)
  BY DEF Requests
<1>2. NULL \in Ints(Counter) /\ NULL \in Ints(LimitStart) /\ NULL \in Ints(LimitItems)
      /\ NULL \in Ints(Method) /\ NULL \in Ints(Minimum)
  BY DEF Ints
<1>3. ASSUME NEW op, NEW params
      PROVE  /\ DOMAIN Ask(op, c, params) = RequestId
             /\ Ask(op, c, params).CMND = <<Token(op)>> /\ Ask(op, c, params).cntr = c
             /\ \A id \in RequestId \ {"CMND", "cntr"} :
                   Ask(op, c, params)[id] = IF id \in DOMAIN params THEN params[id] ELSE NULL
  BY DEF Ask, RequestId
<1>4. DOMAIN NoChunks = RequestId /\ \A id \in RequestId : NoChunks[id] = NULL
  BY DEF NoChunks, RequestId
<1>5. \A op \in CommandToken : <<Token(op)>> \in {<<Token("zap")>>, <<Token("reorg")>>}
                                  => op \in {"zap", "reorg"}
  BY TokensDiffer
<1>6. CASE r = NoChunks
  BY <1>2, <1>4, <1>6 DEF Shape, RequestId
<1>7. ASSUME NEW op \in Others, r = Ask(op, c, NoChunks) PROVE Shape(r)
  BY <1>2, <1>3, <1>4, <1>7 DEF Others, CommandToken, Shape, RequestId
<1>8. ASSUME NEW op \in Keyed, NEW k \in Key \cup {NULL}, r = Ask(op, c, [QKEY |-> k])
      PROVE  Shape(r)
  BY <1>2, <1>3, <1>5, <1>8 DEF Keyed, CommandToken, Shape, RequestId
<1>9. ASSUME NEW k \in Key \cup {NULL}, NEW v \in Value \cup {NULL},
             r = Ask("set", c, [QKEY |-> k, QVAL |-> v])
      PROVE  Shape(r)
  BY <1>2, <1>3, <1>5, <1>9 DEF Keyed, CommandToken, Shape, RequestId
<1>10. ASSUME NEW op \in Counts, NEW p \in Pattern \cup {NULL}, r = Ask(op, c, [SPAT |-> p])
       PROVE  Shape(r)
  BY <1>2, <1>3, <1>5, <1>10 DEF Counts, CommandToken, Shape, RequestId
<1>11. ASSUME NEW op \in Searches, NEW p \in Pattern \cup {NULL}, NEW s \in Ints(LimitStart),
              NEW n \in Ints(LimitItems), r = Ask(op, c, [SPAT |-> p, LIMS |-> s, LIMI |-> n])
       PROVE  Shape(r)
  BY <1>2, <1>3, <1>5, <1>11 DEF Searches, CommandToken, Shape, RequestId
<1>12. ASSUME NEW m \in Ints(Method), NEW n \in Ints(Minimum),
              r = Ask("reorg", c, [RMET |-> m, RCAP |-> n])
       PROVE  Shape(r)
  BY <1>2, <1>3, <1>5, <1>12 DEF Searches, CommandToken, Shape, RequestId
<1> DEFINE WithKey(op, k)   == Ask(op, c, [QKEY |-> k])
           WithValue(k, v)  == Ask("set", c, [QKEY |-> k, QVAL |-> v])
           Counting(op, p)  == Ask(op, c, [SPAT |-> p])
           Searching(op, p, s, n) == Ask(op, c, [SPAT |-> p, LIMS |-> s, LIMI |-> n])
           Reorganising(m, n)     == Ask("reorg", c, [RMET |-> m, RCAP |-> n])
           OfOthers   == {Ask(op, c, NoChunks) : op \in Others}
           OfKeyed    == {WithKey(op, k) : op \in Keyed, k \in Key \cup {NULL}}
           OfSet      == {WithValue(k, v) : k \in Key \cup {NULL}, v \in Value \cup {NULL}}
           OfCounts   == {Counting(op, p) : op \in Counts, p \in Pattern \cup {NULL}}
           OfSearches == {Searching(op, p, s, n) :
                            op \in Searches, p \in Pattern \cup {NULL},
                            s \in Ints(LimitStart), n \in Ints(LimitItems)}
           OfReorg    == {Reorganising(m, n) : m \in Ints(Method), n \in Ints(Minimum)}
<1>13. r \in OfOthers => Shape(r)
  BY <1>7
<1>14. r \in OfKeyed => Shape(r)
  <2>1. \A op \in Keyed, k \in Key \cup {NULL} : r = WithKey(op, k) => Shape(r)
    BY <1>8
  <2> HIDE DEF WithKey
  <2> QED BY <2>1
<1>15. r \in OfSet => Shape(r)
  <2>1. \A k \in Key \cup {NULL}, v \in Value \cup {NULL} : r = WithValue(k, v) => Shape(r)
    BY <1>9
  <2> HIDE DEF WithValue
  <2> QED BY <2>1
<1>16. r \in OfCounts => Shape(r)
  <2>1. \A op \in Counts, p \in Pattern \cup {NULL} : r = Counting(op, p) => Shape(r)
    BY <1>10
  <2> HIDE DEF Counting
  <2> QED BY <2>1
<1>17. r \in OfSearches => Shape(r)
  <2>1. \A op \in Searches, p \in Pattern \cup {NULL}, s \in Ints(LimitStart),
           n \in Ints(LimitItems) : r = Searching(op, p, s, n) => Shape(r)
    BY <1>11
  <2> HIDE DEF Searching
  <2> QED BY <2>1
<1>18. r \in OfReorg => Shape(r)
  <2>1. \A m \in Ints(Method), n \in Ints(Minimum) : r = Reorganising(m, n) => Shape(r)
    BY <1>12
  <2> HIDE DEF Reorganising
  <2> QED BY <2>1
<1>19. RequestsWith(c) = {NoChunks} \cup OfOthers \cup OfKeyed \cup OfSet \cup OfCounts
                           \cup OfSearches \cup OfReorg
  BY DEF RequestsWith
<1> HIDE DEF OfOthers, OfKeyed, OfSet, OfCounts, OfSearches, OfReorg
<1> QED BY <1>1, <1>6, <1>13, <1>14, <1>15, <1>16, <1>17, <1>18, <1>19

LEMMA RequestWords ==
    ASSUME NEW r, Shape(r), NEW id \in RequestId
    PROVE  r[id] = NULL \/ r[id] \in Seq(Word)
<1>1. \A S \in SUBSET Int : \A x \in Ints(S) : x = NULL \/ x \in Seq(Word)
  <2> SUFFICES ASSUME NEW S \in SUBSET Int, NEW n \in S PROVE <<Integer(n)>> \in Seq(Word)
    BY DEF Ints
  <2>1. Integer(n) \in Word
    BY IntegerIsWord
  <2> QED BY <2>1
<1>2. \A x \in Key \cup Value \cup Pattern \cup {NULL} : x = NULL \/ x \in Seq(Word)
  BY DataAssumption
<1>3. \A op \in CommandToken : <<Token(op)>> \in Seq(Word)
  <2> SUFFICES ASSUME NEW op \in CommandToken PROVE <<Token(op)>> \in Seq(Word)
    OBVIOUS
  <2>1. Token(op) \in Word
    BY TokenIsWord
  <2> QED BY <2>1
<1>4. r.CMND = NULL \/ r.CMND \in Seq(Word)
  BY <1>3 DEF Shape
<1>5. \A i \in {"cntr", "LIMS", "LIMI", "RMET", "RCAP"} : r[i] = NULL \/ r[i] \in Seq(Word)
  <2>1. Counter \in SUBSET Int /\ LimitStart \in SUBSET Int /\ LimitItems \in SUBSET Int
        /\ Method \in SUBSET Int /\ Minimum \in SUBSET Int
    BY RequestAssumption
  <2> QED BY <2>1, <1>1 DEF Shape
<1>6. \A i \in {"QKEY", "QVAL", "SPAT"} : r[i] = NULL \/ r[i] \in Seq(Word)
  BY <1>2 DEF Shape
<1> QED BY <1>4, <1>5, <1>6 DEF RequestId

-----------------------------------------------------------------------------
(* Where the words of a request have its chunks                            *)

\* Before the chunk number k there are off[k] words.
Offsets(r, off) ==
    /\ off \in [1 .. 10 -> Nat] /\ off[1] = 1
    /\ \A k \in 1 .. 9 : off[k + 1] = off[k] + (IF r[Order[k]] = NULL THEN 0
                                                ELSE 2 + Len(r[Order[k]]))

Layout(r, off, words) ==
    /\ words \in Seq(Word) /\ Len(words) = off[10] + 1
    /\ words[1] = Id("HSHr") /\ words[off[10] + 1] = Id("endm")
    /\ \A k \in 1 .. 9 : r[Order[k]] # NULL =>
          \A j \in 1 .. 2 + Len(r[Order[k]]) :
             words[off[k] + j] = Chunk(Order[k], r[Order[k]])[j]

LEMMA OrderIds == \A k \in 1 .. 9 : Order[k] \in RequestId
BY DEF Order, RequestId

LEMMA WordsInLayout ==
    ASSUME NEW r, Shape(r)
    PROVE  \E off : Offsets(r, off) /\ Layout(r, off, Words(r, "CMND"))
<1> DEFINE R(k) == Rendered(r, Order[k])
           x1  == <<Id("HSHr")>>
           x2  == x1 \o R(1)
           x3  == x2 \o R(2)
           x4  == x3 \o R(3)
           x5  == x4 \o R(4)
           x6  == x5 \o R(5)
           x7  == x6 \o R(6)
           x8  == x7 \o R(7)
           x9  == x8 \o R(8)
           x10 == x9 \o R(9)
           x11 == x10 \o <<Id("endm")>>
<1>1. \A k \in 1 .. 9 : R(k) \in Seq(Word)
  <2> SUFFICES ASSUME NEW k \in 1 .. 9 PROVE R(k) \in Seq(Word)
    OBVIOUS
  <2>1. r[Order[k]] = NULL \/ r[Order[k]] \in Seq(Word)
    BY OrderIds, RequestWords
  <2>2. Order[k] \in ChunkId
    BY OrderIds DEF ChunkId
  <2> QED BY <2>1, <2>2, ChunkWords DEF Rendered
<1>2. x1 \in Seq(Word) /\ <<Id("endm")>> \in Seq(Word)
  <2>1. Id("HSHr") \in Word /\ Id("endm") \in Word
    BY IdIsWord DEF Mark
  <2> QED BY <2>1
<1>3. Words(r, "CMND") = x11
  <2>1. x2 \o <<>> = x2
    <3>1. x2 \in Seq(Word)
      <4> HIDE DEF R, x1
      <4> QED BY <1>1, <1>2
    <3> HIDE DEF x2
    <3> QED BY <3>1
  <2>2. Words(r, "CMND") = x1 \o R(1) \o <<>> \o R(2) \o R(3) \o R(4) \o R(5) \o R(6)
                             \o R(7) \o R(8) \o R(9) \o <<Id("endm")>>
    BY DEF Words, Order
  <2> HIDE DEF R, x1
  <2> QED BY <2>1, <2>2
<1> HIDE DEF R, x1
<1>4. x2 \in Seq(Word) /\ x3 \in Seq(Word) /\ x4 \in Seq(Word) /\ x5 \in Seq(Word)
      /\ x6 \in Seq(Word) /\ x7 \in Seq(Word) /\ x8 \in Seq(Word) /\ x9 \in Seq(Word)
      /\ x10 \in Seq(Word) /\ x11 \in Seq(Word)
  BY <1>1, <1>2
<1> DEFINE X == <<x1, x2, x3, x4, x5, x6, x7, x8, x9, x10, x11>>
           S == [k \in 1 .. 10 |-> IF k = 10 THEN <<Id("endm")>> ELSE R(k)]
<1>5. S[1] = R(1) /\ S[2] = R(2) /\ S[3] = R(3) /\ S[4] = R(4) /\ S[5] = R(5) /\ S[6] = R(6)
      /\ S[7] = R(7) /\ S[8] = R(8) /\ S[9] = R(9) /\ S[10] = <<Id("endm")>>
  OBVIOUS
<1>6. S \in [1 .. 10 -> Seq(Word)] /\ \A k \in 1 .. 9 : S[k] = R(k)
  BY <1>1, <1>2
<1>7. X \in [1 .. 11 -> Seq(Word)]
  <2> HIDE DEF x2, x3, x4, x5, x6, x7, x8, x9, x10, x11
  <2> QED BY <1>2, <1>4
<1>8. X[1] = x1 /\ X[2] = x2 /\ X[3] = x3 /\ X[4] = x4 /\ X[5] = x5 /\ X[6] = x6
      /\ X[7] = x7 /\ X[8] = x8 /\ X[9] = x9 /\ X[10] = x10 /\ X[11] = x11
  <2> HIDE DEF x2, x3, x4, x5, x6, x7, x8, x9, x10, x11
  <2> QED OBVIOUS
<1> HIDE DEF S, X
<1>9. X[2] = X[1] \o S[1] /\ X[3] = X[2] \o S[2] /\ X[4] = X[3] \o S[3]
  BY <1>5, <1>8
<1>10. X[5] = X[4] \o S[4] /\ X[6] = X[5] \o S[5] /\ X[7] = X[6] \o S[6]
  BY <1>5, <1>8
<1>11. X[8] = X[7] \o S[7] /\ X[9] = X[8] \o S[8] /\ X[10] = X[9] \o S[9]
  BY <1>5, <1>8
<1>12. X[11] = X[10] \o S[10]
  BY <1>5, <1>8
<1> HIDE DEF x2, x3, x4, x5, x6, x7, x8, x9, x10, x11
<1>13. ASSUME NEW k \in 1 .. 10 PROVE X[k + 1] = X[k] \o S[k]
  <2>1. k = 1 \/ k = 2 \/ k = 3 \/ k = 4 \/ k = 5 \/ k = 6 \/ k = 7 \/ k = 8 \/ k = 9 \/ k = 10
    OBVIOUS
  <2>2. /\ 1 + 1 = 2 /\ 2 + 1 = 3 /\ 3 + 1 = 4 /\ 4 + 1 = 5 /\ 5 + 1 = 6 /\ 6 + 1 = 7
        /\ 7 + 1 = 8 /\ 8 + 1 = 9 /\ 9 + 1 = 10 /\ 10 + 1 = 11
    OBVIOUS
  <2> QED BY <2>1, <2>2, <1>9, <1>10, <1>11, <1>12, Zenon
<1>14. IsChain(10, X, S)
  <2>1. 10 + 1 = 11
    OBVIOUS
  <2> QED BY <2>1, <1>6, <1>7, <1>13 DEF IsChain
<1>15. /\ \A k \in 1 .. 10 : /\ Len(X[k + 1]) = Len(X[k]) + Len(S[k])
                             /\ \A j \in 1 .. Len(S[k]) : X[11][Len(X[k]) + j] = S[k][j]
       /\ \A j \in 1 .. Len(X[1]) : X[11][j] = X[1][j]
  <2>1. HoldsLinks(10, X, S)
    BY <1>14, ChainHoldsItsLinks
  <2>2. X[10 + 1] = X[11]
    OBVIOUS
  <2>3. ASSUME NEW k \in 1 .. 10
        PROVE  /\ Len(X[k + 1]) = Len(X[k]) + Len(S[k])
               /\ \A j \in 1 .. Len(S[k]) : X[11][Len(X[k]) + j] = S[k][j]
    <3>1. Len(X[k + 1]) = Len(X[k]) + Len(S[k])
      BY <2>1 DEF HoldsLinks
    <3>2. ASSUME NEW j \in 1 .. Len(S[k]) PROVE X[10 + 1][Len(X[k]) + j] = S[k][j]
      BY <2>1 DEF HoldsLinks
    <3> QED BY <2>2, <3>1, <3>2, Zenon
  <2>4. \A j \in 1 .. Len(X[1]) : X[11][j] = X[1][j]
    BY <2>1, <2>2, Zenon DEF HoldsLinks
  <2> QED BY <2>3, <2>4
<1> DEFINE off == [k \in 1 .. 10 |-> Len(X[k])]
<1>16. off \in [1 .. 10 -> Nat]
  <2>1. \A k \in 1 .. 11 : X[k] \in Seq(Word)
    BY <1>7
  <2>2. ASSUME NEW k \in 1 .. 10 PROVE Len(X[k]) \in Nat
    <3>1. k \in 1 .. 11
      OBVIOUS
    <3>2. X[k] \in Seq(Word)
      BY <2>1, <3>1
    <3> QED BY <3>2
  <2> QED BY <2>2
<1>17. X[1] = <<Id("HSHr")>> /\ S[10] = <<Id("endm")>> /\ Words(r, "CMND") = X[11]
  BY <1>3, <1>5, <1>8 DEF x1
<1>18. ASSUME NEW k \in 1 .. 9
       PROVE  /\ r[Order[k]] = NULL => Len(S[k]) = 0
              /\ r[Order[k]] # NULL => S[k] = Chunk(Order[k], r[Order[k]])
                                       /\ Len(S[k]) = 2 + Len(r[Order[k]])
  <2>1. r[Order[k]] = NULL \/ r[Order[k]] \in Seq(Word)
    BY OrderIds, RequestWords
  <2>2. Order[k] \in ChunkId
    BY OrderIds DEF ChunkId
  <2>3. S[k] = Rendered(r, Order[k])
    BY <1>6 DEF R
  <2> QED BY <2>1, <2>2, <2>3, ChunkWords DEF Rendered
<1>19. Offsets(r, off)
  <2>1. off[1] = 1
    BY <1>17
  <2>2. ASSUME NEW k \in 1 .. 9
        PROVE  off[k + 1] = off[k] + (IF r[Order[k]] = NULL THEN 0 ELSE 2 + Len(r[Order[k]]))
    <3>1. off[k + 1] = Len(X[k + 1]) /\ off[k] = Len(X[k])
      <4>1. k + 1 \in 1 .. 10 /\ k \in 1 .. 10
        OBVIOUS
      <4>2. \A i \in 1 .. 10 : off[i] = Len(X[i])
        OBVIOUS
      <4> HIDE DEF off
      <4> QED BY <4>1, <4>2
    <3> HIDE DEF off
    <3>2. off[k] \in Nat
      BY <1>16
    <3>3. k \in 1 .. 10
      OBVIOUS
    <3>4. Len(X[k + 1]) = Len(X[k]) + Len(S[k])
      BY <3>3, <1>15
    <3>5. Len(S[k]) = IF r[Order[k]] = NULL THEN 0 ELSE 2 + Len(r[Order[k]])
      BY <1>18
    <3> QED BY <3>1, <3>2, <3>4, <3>5
  <2> HIDE DEF off
  <2> QED BY <2>1, <2>2, <1>16 DEF Offsets
<1>20. Layout(r, off, X[11])
  <2>1. X[11] \in Seq(Word)
    BY <1>7
  <2>2. Len(X[11]) = off[10] + 1 /\ X[11][off[10] + 1] = Id("endm")
    <3>1. 10 \in 1 .. 10 /\ 10 + 1 = 11 /\ Len(S[10]) = 1 /\ S[10][1] = Id("endm")
      BY <1>17
    <3>2. Len(X[11]) = Len(X[10]) + 1
      BY <3>1, <1>15
    <3>3. X[11][Len(X[10]) + 1] = Id("endm")
      BY <3>1, <1>15
    <3>4. off[10] = Len(X[10])
      OBVIOUS
    <3> QED BY <3>2, <3>3, <3>4
  <2>3. X[11][1] = Id("HSHr")
    BY <1>15, <1>17
  <2>4. ASSUME NEW k \in 1 .. 9, r[Order[k]] # NULL, NEW j \in 1 .. 2 + Len(r[Order[k]])
        PROVE  X[11][off[k] + j] = Chunk(Order[k], r[Order[k]])[j]
    <3>1. S[k] = Chunk(Order[k], r[Order[k]]) /\ Len(S[k]) = 2 + Len(r[Order[k]])
      BY <1>18, <2>4
    <3>2. j \in 1 .. Len(S[k]) /\ k \in 1 .. 10
      BY <3>1
    <3>3. X[11][Len(X[k]) + j] = S[k][j]
      BY <3>2, <1>15
    <3>4. off[k] = Len(X[k])
      OBVIOUS
    <3> QED BY <3>1, <3>3, <3>4
  <2> HIDE DEF off
  <2> QED BY <2>1, <2>2, <2>3, <2>4 DEF Layout
<1> HIDE DEF off
<1> QED BY <1>17, <1>19, <1>20

-----------------------------------------------------------------------------
(* The chunks of a request in the buffer                                   *)

\* Those from the chunk number m on, and the end mark.
InBuffer(p, r, off, m) ==
    /\ Offsets(r, off) /\ off[10] < BUFLEN /\ p.buffer[off[10]] = Id("endm")
    /\ \A k \in m .. 9 : r[Order[k]] # NULL => HoldsAt(p, off[k], Chunk(Order[k], r[Order[k]]))

LEMMA OrderedOffsets ==
    ASSUME NEW r, Shape(r), NEW off, Offsets(r, off)
    PROVE  /\ \A k \in 1 .. 10 : off[k] \in Nat /\ off[k] >= 1 /\ off[k] <= off[10]
           /\ \A k \in 2 .. 10 : off[2] <= off[k]
           /\ \A k \in 1 .. 9 : r[Order[k]] # NULL => Len(r[Order[k]]) \in Nat
<1>1. \A k \in 1 .. 10 : off[k] \in Nat
  BY DEF Offsets
<1>2. \A k \in 1 .. 9 : r[Order[k]] # NULL => Len(r[Order[k]]) \in Nat
  <2> SUFFICES ASSUME NEW k \in 1 .. 9, r[Order[k]] # NULL PROVE Len(r[Order[k]]) \in Nat
    OBVIOUS
  <2>1. r[Order[k]] \in Seq(Word)
    BY OrderIds, RequestWords
  <2> QED BY <2>1
<1>3. ASSUME NEW k \in 1 .. 9 PROVE off[k] <= off[k + 1]
  <2>1. off[k + 1] = off[k] + (IF r[Order[k]] = NULL THEN 0 ELSE 2 + Len(r[Order[k]]))
    BY DEF Offsets
  <2>2. k \in 1 .. 10
    OBVIOUS
  <2>3. off[k] \in Nat
    BY <2>2, <1>1
  <2>4. CASE r[Order[k]] = NULL
    BY <2>1, <2>3, <2>4
  <2>5. CASE r[Order[k]] # NULL
    <3>1. Len(r[Order[k]]) \in Nat
      BY <2>5, <1>2
    <3> QED BY <2>1, <2>3, <2>5, <3>1
  <2> QED BY <2>4, <2>5
<1>4. off[1] <= off[2] /\ off[2] <= off[3] /\ off[3] <= off[4] /\ off[4] <= off[5]
      /\ off[5] <= off[6] /\ off[6] <= off[7] /\ off[7] <= off[8] /\ off[8] <= off[9]
      /\ off[9] <= off[10]
  <2>1. off[1] <= off[1 + 1] /\ off[2] <= off[2 + 1] /\ off[3] <= off[3 + 1] /\ off[4] <= off[4 + 1]
        /\ off[5] <= off[5 + 1] /\ off[6] <= off[6 + 1] /\ off[7] <= off[7 + 1]
        /\ off[8] <= off[8 + 1] /\ off[9] <= off[9 + 1]
    BY <1>3
  <2> QED BY <2>1
<1>5. off[1] = 1
  BY DEF Offsets
<1>6. ASSUME NEW k \in 1 .. 10 PROVE off[k] >= 1 /\ off[k] <= off[10]
  <2>1. k = 1 \/ k = 2 \/ k = 3 \/ k = 4 \/ k = 5 \/ k = 6 \/ k = 7 \/ k = 8 \/ k = 9 \/ k = 10
    OBVIOUS
  <2> QED BY <2>1, <1>1, <1>4, <1>5
<1>7. ASSUME NEW k \in 2 .. 10 PROVE off[2] <= off[k]
  <2>1. k = 2 \/ k = 3 \/ k = 4 \/ k = 5 \/ k = 6 \/ k = 7 \/ k = 8 \/ k = 9 \/ k = 10
    OBVIOUS
  <2> QED BY <2>1, <1>1, <1>4
<1> QED BY <1>1, <1>2, <1>6, <1>7

LEMMA OrderIsInjective == \A j \in 1 .. 9, k \in 1 .. 9 : Order[j] = Order[k] => j = k
BY DEF Order

\* One step of the search along them.
LEMMA FindStep ==
    ASSUME NEW p \in Packet, NEW r, Shape(r), NEW off, NEW m \in 1 .. 9, InBuffer(p, r, off, m),
           NEW k \in m .. 9, NEW id
    PROVE  FindFrom(p, id)[off[k]] = IF r[Order[k]] # NULL /\ Order[k] = id THEN off[k] + 2
                                     ELSE FindFrom(p, id)[off[k + 1]]
<1>1. k \in 1 .. 9 /\ k \in 1 .. 10 /\ k + 1 \in 1 .. 10
  OBVIOUS
<1>2. Offsets(r, off) /\ off[10] < BUFLEN
  BY DEF InBuffer
<1>3. off[k] \in Nat /\ off[k + 1] <= off[10] /\ off[k + 1] \in Nat /\ off[10] \in Nat
  <2>1. \A i \in 1 .. 10 : off[i] \in Nat /\ off[i] <= off[10]
    BY <1>2, OrderedOffsets
  <2>2. 10 \in 1 .. 10
    OBVIOUS
  <2> QED BY <1>1, <2>1, <2>2
<1>4. off[k + 1] = off[k] + (IF r[Order[k]] = NULL THEN 0 ELSE 2 + Len(r[Order[k]]))
  BY <1>1, <1>2 DEF Offsets
<1>5. CASE r[Order[k]] = NULL
  BY <1>3, <1>4, <1>5
<1>6. CASE r[Order[k]] # NULL
  <2>1. r[Order[k]] \in Seq(Word) /\ Order[k] \in ChunkId
    BY <1>1, <1>6, OrderIds, RequestWords DEF ChunkId
  <2>2. HoldsAt(p, off[k], Chunk(Order[k], r[Order[k]]))
    BY <1>6 DEF InBuffer
  <2>3. Len(r[Order[k]]) \in Nat
    BY <2>1
  <2>4. off[k + 1] = off[k] + 2 + Len(r[Order[k]]) /\ off[k] + 2 + Len(r[Order[k]]) < BUFLEN
    <3>1. off[k + 1] = off[k] + (2 + Len(r[Order[k]]))
      BY <1>4, <1>6
    <3> DEFINE n == Len(r[Order[k]])
    <3>2. n \in Nat /\ off[k + 1] = off[k] + (2 + n) /\ off[k + 1] < BUFLEN
      BY <3>1, <1>2, <1>3, <2>3, BufferAssumption
    <3> HIDE DEF n
    <3>3. off[k + 1] = off[k] + 2 + n
      BY <3>2, <1>3
    <3>4. off[k] + 2 + n < BUFLEN
      BY <3>2, <3>3
    <3> QED BY <3>3, <3>4 DEF n
  <2>5. FindFrom(p, id)[off[k]] = IF Order[k] = id THEN off[k] + 2
                                  ELSE FindFrom(p, id)[off[k] + 2 + Len(r[Order[k]])]
    <3> DEFINE i == off[k]
               c == Order[k]
               d == r[Order[k]]
    <3>1. i \in Nat /\ c \in ChunkId /\ d \in Seq(Word) /\ HoldsAt(p, i, Chunk(c, d))
      BY <1>3, <2>1, <2>2
    <3>2. i + 2 + Len(d) < BUFLEN
      BY <2>4
    <3> HIDE DEF i, c, d
    <3>3. FindFrom(p, id)[i] = IF c = id THEN i + 2 ELSE FindFrom(p, id)[i + 2 + Len(d)]
      BY <3>1, <3>2, FindAtChunk
    <3> QED BY <3>3 DEF i, c, d
  <2> QED BY <2>4, <2>5, <1>6
<1> QED BY <1>5, <1>6

LEMMA FindPresent ==
    ASSUME NEW p \in Packet, NEW r, Shape(r), NEW off, NEW m \in 1 .. 9, InBuffer(p, r, off, m),
           NEW j \in m .. 9, r[Order[j]] # NULL
    PROVE  FindFrom(p, Order[j])[off[m]] = off[j] + 2
<1> DEFINE Bad == {k \in m .. j : FindFrom(p, Order[j])[off[k]] # off[j] + 2}
<1>1. ASSUME Bad # {} PROVE FALSE
  <2>1. Bad \in SUBSET (0 .. j) /\ j \in Nat
    OBVIOUS
  <2>2. PICK b \in Bad : \A i \in Bad : i <= b
    <3> HIDE DEF Bad
    <3> QED BY <1>1, <2>1, Greatest
  <2>3. b \in m .. 9 /\ b <= j /\ FindFrom(p, Order[j])[off[b]] # off[j] + 2
    BY <2>2
  <2>4. b # j
    <3>1. FindFrom(p, Order[j])[off[j]] = off[j] + 2
      BY FindStep
    <3> QED BY <3>1, <2>3
  <2>5. FindFrom(p, Order[j])[off[b + 1]] = off[j] + 2
    <3>1. b + 1 \notin Bad
      BY <2>2, <2>3
    <3>2. b + 1 \in m .. j
      BY <2>3, <2>4
    <3> QED BY <3>1, <3>2
  <2>6. Order[b] # Order[j]
    <3>1. b \in 1 .. 9 /\ j \in 1 .. 9
      BY <2>3
    <3> QED BY <3>1, <2>4, OrderIsInjective
  <2>7. FindFrom(p, Order[j])[off[b]] = FindFrom(p, Order[j])[off[b + 1]]
    BY <2>3, <2>6, FindStep
  <2> QED BY <2>3, <2>5, <2>7
<1>2. m \in m .. j
  OBVIOUS
<1> QED BY <1>1, <1>2

LEMMA FindAbsent ==
    ASSUME NEW p \in Packet, NEW r, Shape(r), NEW off, NEW m \in 1 .. 9, InBuffer(p, r, off, m),
           NEW id, \A k \in m .. 9 : Order[k] = id => r[id] = NULL
    PROVE  FindFrom(p, id)[off[m]] = -1
<1> DEFINE Bad == {k \in m .. 10 : FindFrom(p, id)[off[k]] # -1}
<1>1. ASSUME Bad # {} PROVE FALSE
  <2>1. Bad \in SUBSET (0 .. 10)
    OBVIOUS
  <2>2. PICK b \in Bad : \A i \in Bad : i <= b
    <3>1. 10 \in Nat
      OBVIOUS
    <3> HIDE DEF Bad
    <3> QED BY <1>1, <2>1, <3>1, Greatest
  <2>3. b \in m .. 10 /\ FindFrom(p, id)[off[b]] # -1
    BY <2>2
  <2>4. b # 10
    <3>1. off[10] \in Index
      <4>1. off[10] \in Nat /\ off[10] < BUFLEN
        <5>1. 10 \in 1 .. 10
          OBVIOUS
        <5> QED BY <5>1, OrderedOffsets DEF InBuffer
      <4> QED BY <4>1, BufferAssumption DEF Index
    <3>2. p.buffer[off[10]] = Id("endm")
      BY DEF InBuffer
    <3>3. FindFrom(p, id)[off[10]] = -1
      BY <3>1, <3>2, FindAtEnd
    <3> QED BY <3>3, <2>3
  <2>5. FindFrom(p, id)[off[b + 1]] = -1
    <3>1. b + 1 \notin Bad
      BY <2>2, <2>3
    <3>2. b + 1 \in m .. 10
      BY <2>3, <2>4
    <3> QED BY <3>1, <3>2
  <2>6. b \in m .. 9
    BY <2>3, <2>4
  <2>7. FindFrom(p, id)[off[b]] = FindFrom(p, id)[off[b + 1]]
    BY <2>6, FindStep
  <2> QED BY <2>3, <2>5, <2>7
<1>2. m \in m .. 10
  OBVIOUS
<1> QED BY <1>1, <1>2

\* The data of a chunk, after its id and its length.
Holds(p, at, d) ==
    /\ at \in 3 .. BUFLEN - 1 /\ at + Len(d) < BUFLEN
    /\ NumberAt(p, at - 1) = Len(d)
    /\ \A k \in 1 .. Len(d) : p.buffer[at + k - 1] = d[k]

Given(p, id, d) ==
    IF d = NULL THEN FindChunk(p, id) = -1 ELSE Holds(p, FindChunk(p, id), d)

LEMMA PresentHolds ==
    ASSUME NEW p \in Packet, NEW r, Shape(r), NEW off, NEW m \in 1 .. 9, InBuffer(p, r, off, m),
           NEW j \in m .. 9, r[Order[j]] # NULL
    PROVE  Holds(p, off[j] + 2, r[Order[j]])
<1> DEFINE d == r[Order[j]]
           n == Len(d)
<1>1. j \in 1 .. 9 /\ j \in 1 .. 10 /\ j + 1 \in 1 .. 10 /\ d \in Seq(Word) /\ Order[j] \in ChunkId
  BY OrderIds, RequestWords DEF ChunkId
<1>2. Offsets(r, off) /\ off[10] < BUFLEN /\ HoldsAt(p, off[j], Chunk(Order[j], d))
  BY DEF InBuffer
<1>3. off[j] \in Nat /\ off[j] >= 1 /\ off[j + 1] <= off[10] /\ off[j + 1] \in Nat
      /\ off[10] \in Nat /\ n \in Nat
  <2>1. 10 \in 1 .. 10 /\ n \in Nat
    BY <1>1
  <2>2. /\ \A k \in 1 .. 10 : off[k] \in Nat /\ off[k] >= 1 /\ off[k] <= off[10]
    BY <1>2, OrderedOffsets
  <2> HIDE DEF d, n
  <2> QED BY <1>1, <2>1, <2>2
<1>4. off[j + 1] = off[j] + (2 + n)
  BY <1>1, <1>2 DEF Offsets
<1> HIDE DEF d, n
<1>5. off[j] + 2 + n < BUFLEN
  <2> DEFINE a == off[j]
             b == off[j + 1]
             o == off[10]
  <2>1. a \in Nat /\ b \in Nat /\ o \in Nat /\ b <= o /\ o < BUFLEN /\ b = a + (2 + n)
    BY <1>2, <1>3, <1>4
  <2> HIDE DEF a, b, o
  <2>2. a + 2 + n < BUFLEN
    BY <1>3, <2>1, BufferAssumption
  <2> QED BY <2>2 DEF a
<1>6. off[j] + 1 \in DOMAIN p.buffer
  BY <1>3, <1>5, BufferAssumption DEF Packet
<1>7. /\ NumberAt(p, off[j] + 1) = Len(d)
      /\ \A k \in 1 .. Len(d) : p.buffer[off[j] + 1 + k] = d[k]
  <2>1. HoldsAt(p, off[j], Chunk(Order[j], d))
    BY <1>2 DEF d
  <2> DEFINE i == off[j]
             c == Order[j]
  <2>2. i \in Nat /\ c \in ChunkId /\ d \in Seq(Word) /\ HoldsAt(p, i, Chunk(c, d))
        /\ i + 1 \in DOMAIN p.buffer
    BY <1>1, <1>3, <1>6, <2>1
  <2> HIDE DEF i, c
  <2>3. NumberAt(p, i + 1) = Len(d) /\ \A k \in 1 .. Len(d) : p.buffer[i + 1 + k] = d[k]
    BY <2>2, HeldChunk
  <2> QED BY <2>3 DEF i
<1> DEFINE i == off[j]
           at == i + 2
<1>8. i \in Nat /\ i >= 1 /\ i + 2 + n < BUFLEN /\ n \in Nat /\ NumberAt(p, i + 1) = n
      /\ \A k \in 1 .. n : p.buffer[i + 1 + k] = d[k]
  BY <1>3, <1>5, <1>7 DEF n
<1> HIDE DEF i
<1>9. at \in 3 .. BUFLEN - 1 /\ at + n < BUFLEN /\ at - 1 = i + 1
  BY <1>8, BufferAssumption
<1>10. ASSUME NEW k \in 1 .. n PROVE p.buffer[at + k - 1] = d[k]
  <2>1. at + k - 1 = i + 1 + k
    BY <1>8
  <2> QED BY <1>8, <2>1
<1> HIDE DEF at
<1>11. Holds(p, at, d)
  BY <1>8, <1>9, <1>10 DEF Holds, n
<1> QED BY <1>11 DEF d, at, i

LEMMA IdIsInOrder == \A id \in RequestId : \E j \in 1 .. 9 : Order[j] = id
<1>1. Order[1] = "CMND" /\ Order[2] = "cntr" /\ Order[3] = "QKEY" /\ Order[4] = "QVAL"
      /\ Order[5] = "SPAT" /\ Order[6] = "LIMS" /\ Order[7] = "LIMI" /\ Order[8] = "RMET"
      /\ Order[9] = "RCAP"
  BY DEF Order
<1> QED BY <1>1 DEF RequestId

LEMMA WholeRequestGiven ==
    ASSUME NEW p \in Packet, NEW r, Shape(r), NEW off, InBuffer(p, r, off, 1),
           NEW id \in RequestId
    PROVE  Given(p, id, r[id])
<1>1. PICK j \in 1 .. 9 : Order[j] = id
  BY IdIsInOrder
<1>2. off[1] = 1
  BY DEF InBuffer, Offsets
<1>3. 1 \in 1 .. 9
  OBVIOUS
<1>4. CASE r[id] = NULL
  <2>1. FindFrom(p, id)[off[1]] = -1
    BY <1>3, <1>4, FindAbsent
  <2> QED BY <2>1, <1>2, <1>4 DEF Given, FindChunk
<1>5. CASE r[id] # NULL
  <2>1. r[Order[j]] # NULL
    BY <1>1, <1>5
  <2>2. FindFrom(p, Order[j])[off[1]] = off[j] + 2
    BY <1>3, <2>1, FindPresent
  <2>3. Holds(p, off[j] + 2, r[Order[j]])
    BY <1>3, <2>1, PresentHolds
  <2> QED BY <1>1, <1>2, <1>5, <2>2, <2>3 DEF Given, FindChunk
<1> QED BY <1>4, <1>5

\* A request whose first chunk is still its command, or has become the counter
\* of the reply, which takes as many words.
Carries(p, r) ==
    /\ \E off : InBuffer(p, r, off, 2) /\ off[2] = 4
    /\ \E c \in {"CMND", "cntr"}, w \in Word : HoldsAt(p, 1, Chunk(c, <<w>>))

LEMMA CarriedRequestGiven ==
    ASSUME NEW p \in Packet, NEW r, Shape(r), Carries(p, r)
    PROVE  /\ \A id \in RequestId \ {"CMND", "cntr"} :
                 Given(p, id, r[id]) /\ (r[id] # NULL => FindChunk(p, id) >= 6)
           /\ \A id : id \notin RequestId => FindChunk(p, id) = -1
<1>1. PICK off : InBuffer(p, r, off, 2) /\ off[2] = 4
  BY DEF Carries
<1>2. PICK c \in {"CMND", "cntr"}, w \in Word : HoldsAt(p, 1, Chunk(c, <<w>>))
  BY DEF Carries
<1>3. 2 \in 1 .. 9 /\ Offsets(r, off) /\ off[10] < BUFLEN
  BY <1>1 DEF InBuffer
<1>4. \A k \in 2 .. 10 : off[k] \in Nat /\ off[k] >= 4
  <2>1. \A k \in 2 .. 10 : k \in 1 .. 10
    OBVIOUS
  <2> QED BY <1>1, <1>3, <2>1, OrderedOffsets
<1>5. 4 < BUFLEN
  BY RoomAssumption, BufferAssumption
<1>6. ASSUME NEW id, id \notin {"CMND", "cntr"}
      PROVE  FindChunk(p, id) = FindFrom(p, id)[off[2]]
  <2>1. <<w>> \in Seq(Word) /\ Len(<<w>>) = 1 /\ c \in ChunkId /\ c # id
    BY <1>6 DEF ChunkId, RequestId
  <2> DEFINE v == <<w>>
  <2>2. 1 + 2 + Len(v) = 4 /\ 1 \in Nat /\ v \in Seq(Word) /\ HoldsAt(p, 1, Chunk(c, v))
    BY <2>1, <1>2
  <2> HIDE DEF v
  <2>3. FindFrom(p, id)[1] = FindFrom(p, id)[4]
    BY <1>5, <2>1, <2>2, FindAtChunk
  <2> QED BY <1>1, <2>3 DEF FindChunk
<1>7. ASSUME NEW id \in RequestId \ {"CMND", "cntr"}
      PROVE  Given(p, id, r[id]) /\ (r[id] # NULL => FindChunk(p, id) >= 6)
  <2>1. PICK j \in 1 .. 9 : Order[j] = id
    BY IdIsInOrder
  <2>2. j \in 2 .. 9 /\ j \in 2 .. 10
    <3>1. j # 1
      BY <1>7, <2>1 DEF Order
    <3> QED BY <3>1
  <2>3. CASE r[id] = NULL
    <3>1. FindFrom(p, id)[off[2]] = -1
      BY <1>1, <1>3, <2>3, FindAbsent
    <3> QED BY <1>6, <3>1, <2>3 DEF Given
  <2>4. CASE r[id] # NULL
    <3>1. r[Order[j]] # NULL
      BY <2>1, <2>4
    <3>2. FindFrom(p, Order[j])[off[2]] = off[j] + 2
      BY <1>1, <1>3, <2>2, <3>1, FindPresent
    <3>3. Holds(p, off[j] + 2, r[Order[j]])
      BY <1>1, <1>3, <2>2, <3>1, PresentHolds
    <3>4. off[j] + 2 >= 6
      BY <1>4, <2>2
    <3>5. FindChunk(p, id) = off[j] + 2
      BY <1>6, <2>1, <3>2
    <3> QED BY <2>1, <2>4, <3>3, <3>4, <3>5 DEF Given
  <2> QED BY <2>3, <2>4
<1>8. ASSUME NEW id, id \notin RequestId PROVE FindChunk(p, id) = -1
  <2>1. \A k \in 2 .. 9 : Order[k] # id
    <3>1. \A k \in 2 .. 9 : k \in 1 .. 9
      OBVIOUS
    <3> QED BY <1>8, <3>1, OrderIds
  <2>2. FindFrom(p, id)[off[2]] = -1
    BY <1>1, <1>3, <2>1, FindAbsent
  <2> QED BY <1>6, <1>8, <2>2 DEF RequestId
<1> QED BY <1>7, <1>8

-----------------------------------------------------------------------------
(* Replies                                                                 *)

\* c is the data of the counter chunk, NULL without one; what follows the
\* header and the counter begins at AfterCounter(c).
AfterCounter(c) == IF c = NULL THEN 1 ELSE 4
CounterIds(c) == IF c = NULL THEN {} ELSE {"cntr"}
CounterIn(c) == IF c = NULL THEN -1 ELSE Number(c[1])

HoldsCounter(p, c) == c # NULL => HoldsAt(p, 1, Chunk("cntr", c))

\* A reply that has been begun for c, and has no other chunks than these.
Counted(p, c, ids) ==
    /\ Composed(p, ids \cup CounterIds(c)) /\ p.length >= AfterCounter(c)
    /\ p.length <= BUFLEN => HoldsCounter(p, c)

AnswerId == ReplyId \ {"cntr"}

LEMMA CounterWords ==
    ASSUME NEW c \in Ints(Counter), c # NULL
    PROVE  /\ c \in Seq(Word) /\ Len(c) = 1 /\ c = <<c[1]>>
           /\ Number(c[1]) \in Nat /\ c = <<Integer(Number(c[1]))>>
<1>1. PICK n \in Counter : c = <<Integer(n)>>
  BY DEF Ints
<1>2. n \in Nat /\ Integer(n) \in Word
  BY RequestAssumption, IntegerIsWord
<1> QED BY <1>1, <1>2, NumberOfInteger

LEMMA CounterIdsAreIds == \A c : CounterIds(c) \subseteq ChunkId
BY DEF CounterIds, ChunkId, RequestId

LEMMA BeginReplyCounted ==
    ASSUME NEW p \in Packet, NEW c \in Ints(Counter), p.counter = CounterIn(c)
    PROVE  LET q == BeginReply(p)
           IN  /\ q \in Packet /\ Counted(q, c, {}) /\ q.length = AfterCounter(c)
               /\ q.counter = p.counter
               /\ \A j \in Index : j >= AfterCounter(c) => q.buffer[j] = p.buffer[j]
<1> DEFINE e == PrepareForReply(p)
           h == AppendHeader(e)
           q == BeginReply(p)
<1>1. e \in Packet /\ e.length = 0 /\ e.buffer = p.buffer /\ e.counter = p.counter
  BY DEF PrepareForReply, Packet
<1>2. <<Id("HSHr")>> \in Seq(Word) /\ Len(<<Id("HSHr")>>) = 1 /\ <<Id("HSHr")>>[1] = Id("HSHr")
  <2>1. Id("HSHr") \in Word
    BY IdIsWord DEF Mark
  <2> QED BY <2>1
<1> HIDE DEF e
<1>3. /\ h \in Packet /\ h.length = 1 /\ h.counter = p.counter
      /\ \A j \in Index : j >= 1 => h.buffer[j] = e.buffer[j]
      /\ HoldsAt(h, 0, <<Id("HSHr")>>)
  <2>1. 1 <= BUFLEN
    BY BufferAssumption
  <2> DEFINE words == <<Id("HSHr")>>
  <2>2. h = Appended(e, words) /\ words \in Seq(Word) /\ Len(words) = 1
    BY <1>2 DEF AppendHeader
  <2> HIDE DEF h, words
  <2>3. Extends(h, e, words)
    BY <1>1, <2>2, AppendedWords
  <2>4. /\ h \in Packet /\ h.length = 1 /\ h.counter = p.counter
        /\ \A j \in Index : j >= 1 => h.buffer[j] = e.buffer[j]
        /\ HoldsAt(h, 0, words)
    BY <1>1, <2>1, <2>2, <2>3 DEF Extends
  <2> QED BY <2>4 DEF words
<1> HIDE DEF h
<1>4. h.buffer[0] = Id("HSHr")
  <2>1. 1 \in 1 .. Len(<<Id("HSHr")>>) /\ 0 + 1 - 1 = 0
    BY <1>2
  <2> QED BY <2>1, <1>2, <1>3 DEF HoldsAt
<1>5. Composed(h, {})
  <2>1. Boundaries(h, {}, {1})
    BY <1>3 DEF Boundaries
  <2> QED BY <2>1, <1>3, <1>4 DEF Composed, IsHeaderOk
<1>6. q = AppendCounter(h)
  BY DEF BeginReply, h, e
<1>7. CASE c = NULL
  <2>1. q = h
    BY <1>3, <1>6, <1>7 DEF AppendCounter, CounterIn
  <2>2. AfterCounter(c) = 1 /\ CounterIds(c) = {}
    BY <1>7 DEF AfterCounter, CounterIds
  <2>3. Counted(q, c, {})
    BY <1>3, <1>5, <1>7, <2>1, <2>2 DEF Counted, HoldsCounter
  <2> HIDE DEF q
  <2> QED BY <1>1, <1>3, <2>1, <2>2, <2>3 DEF q
<1>8. CASE c # NULL
  <2>1. c \in Seq(Word) /\ Len(c) = 1 /\ Number(c[1]) \in Nat /\ c = <<Integer(Number(c[1]))>>
    BY <1>8, CounterWords
  <2>2. h.counter = Number(c[1]) /\ h.counter # -1
    BY <1>3, <1>8, <2>1 DEF CounterIn
  <2>3. q = AppendChunk(h, "cntr", c)
    BY <1>6, <2>1, <2>2 DEF AppendCounter
  <2>4. "cntr" \in ChunkId
    BY DEF ChunkId, RequestId
  <2>5. AfterCounter(c) = 4 /\ CounterIds(c) = {"cntr"}
    BY <1>8 DEF AfterCounter, CounterIds
  <2> HIDE DEF q
  <2>6. /\ q \in Packet /\ q.length = 4 /\ q.counter = h.counter
        /\ \A j \in Index : j >= 4 => q.buffer[j] = h.buffer[j]
        /\ HoldsAt(q, 1, Chunk("cntr", c))
    <3> DEFINE words == Chunk("cntr", c)
    <3>1. Len(words) = 2 + Len(c) /\ 4 <= BUFLEN
      <4>1. Len(words) = 2 + Len(c)
        BY <2>1, <2>4, ChunkWords
      <4>2. 4 <= BUFLEN
        BY RoomAssumption, BufferAssumption
      <4> QED BY <4>1, <4>2
    <3>2. Extends(q, h, words)
      BY <1>3, <2>1, <2>3, <2>4, AppendedChunk
    <3> HIDE DEF words
    <3>3. /\ q \in Packet /\ q.length = 4 /\ q.counter = h.counter
          /\ \A j \in Index : j >= 4 => q.buffer[j] = h.buffer[j]
          /\ HoldsAt(q, 1, words)
      BY <1>3, <2>1, <3>1, <3>2 DEF Extends
    <3> QED BY <3>3 DEF words
  <2>7. Composed(q, {"cntr"})
    <3>1. Composed(h, {"cntr"})
      BY <1>5, ComposedMore
    <3>2. {"cntr"} \subseteq ChunkId /\ "cntr" \in {"cntr"}
      BY <2>4
    <3> QED BY <3>1, <3>2, <2>1, <2>3, ComposedAppend
  <2>8. Counted(q, c, {})
    BY <2>5, <2>6, <2>7 DEF Counted, HoldsCounter
  <2>9. \A j \in Index : j >= 4 => q.buffer[j] = p.buffer[j]
    BY <1>1, <1>3, <2>6 DEF Index
  <2> QED BY <1>3, <2>5, <2>6, <2>8, <2>9 DEF q
<1> QED BY <1>7, <1>8

LEMMA CountedIsPacket ==
    ASSUME NEW p, NEW c, NEW ids, Counted(p, c, ids)
    PROVE  p \in Packet /\ p.length \in Nat
BY DEF Counted, Composed

LEMMA CountedMore ==
    ASSUME NEW p, NEW c, NEW ids, NEW more, Counted(p, c, ids), ids \subseteq more
    PROVE  Counted(p, c, more)
BY ComposedMore DEF Counted

LEMMA CountedAppend ==
    ASSUME NEW p, NEW c \in Ints(Counter), NEW ids \in SUBSET AnswerId, Counted(p, c, ids),
           NEW id \in ids, NEW payload \in Seq(Word)
    PROVE  LET q == AppendChunk(p, id, payload)
           IN  /\ Counted(q, c, ids) /\ q \in Packet /\ p \in Packet /\ p.length \in Nat
               /\ q.length = p.length + 2 + Len(payload) /\ q.counter = p.counter
               /\ \A j \in Index : j < p.length => q.buffer[j] = p.buffer[j]
               /\ q.length <= BUFLEN => HoldsAt(q, p.length, Chunk(id, payload))
<1> DEFINE q == AppendChunk(p, id, payload)
           all == ids \cup CounterIds(c)
<1>1. all \subseteq ChunkId /\ id \in all /\ id \in ChunkId
  BY CounterIdsAreIds DEF AnswerId, ChunkId
<1>2. Composed(p, all) /\ p.length >= AfterCounter(c) /\ (p.length <= BUFLEN => HoldsCounter(p, c))
  BY DEF Counted
<1>3. p \in Packet /\ p.length \in Nat
  BY <1>2 DEF Composed
<1> HIDE DEF all
<1>4. /\ q \in Packet /\ q.length = p.length + 2 + Len(payload) /\ q.counter = p.counter
      /\ \A j \in Index : j < p.length => q.buffer[j] = p.buffer[j]
      /\ q.length <= BUFLEN => HoldsAt(q, p.length, Chunk(id, payload))
  <2>1. Extends(q, p, Chunk(id, payload)) /\ q.length = p.length + 2 + Len(payload)
    BY <1>1, <1>3, AppendedChunk
  <2> HIDE DEF q
  <2> QED BY <2>1 DEF Extends
<1>5. Composed(q, all)
  BY <1>1, <1>2, ComposedAppend
<1> HIDE DEF q
<1>6. q.length \in Nat /\ q.length >= p.length
  BY <1>3, <1>4
<1>7. AfterCounter(c) \in {1, 4}
  BY DEF AfterCounter
<1>8. ASSUME q.length <= BUFLEN, c # NULL PROVE HoldsAt(q, 1, Chunk("cntr", c))
  <2>1. p.length <= BUFLEN /\ p.length >= 4 /\ HoldsAt(p, 1, Chunk("cntr", c))
    BY <1>2, <1>3, <1>6, <1>8, BufferAssumption DEF HoldsCounter, AfterCounter
  <2>2. c \in Seq(Word) /\ Len(c) = 1 /\ "cntr" \in ChunkId
    BY <1>8, CounterWords DEF ChunkId, RequestId
  <2> DEFINE words == Chunk("cntr", c)
  <2>3. words \in Seq(Word) /\ Len(words) = 2 + Len(c)
    BY <2>2, ChunkWords
  <2> HIDE DEF words
  <2>4. 1 + Len(words) <= p.length
    BY <1>3, <2>1, <2>2, <2>3
  <2>5. HoldsAt(p, 1, words)
    BY <2>1 DEF words
  <2>6. HoldsAt(q, 1, words)
    BY <1>3, <1>4, <2>1, <2>3, <2>4, <2>5, HeldIsKept
  <2> QED BY <2>6 DEF words
<1>9. Counted(q, c, ids)
  BY <1>2, <1>3, <1>5, <1>6, <1>7, <1>8 DEF Counted, HoldsCounter, all
<1> QED BY <1>3, <1>4, <1>9 DEF q

\* What RepliesWellFormed asks of a reply.
Readable(q, c) ==
    /\ IsHeaderOk(q)
    /\ ScanChunks(q) # -1
    /\ q.buffer[q.length - 1] = Id("endm")
    /\ Received(q, "cntr") = c

LEMMA ReceivedHeld ==
    ASSUME NEW q \in Packet, NEW i \in Nat, NEW id \in ChunkId, NEW payload \in Seq(Word),
           HoldsAt(q, i, Chunk(id, payload)), i + 2 <= BUFLEN, FindChunk(q, id) = i + 2
    PROVE  Received(q, id) = payload
<1>1. i + 1 \in DOMAIN q.buffer
  BY BufferAssumption DEF Packet
<1>2. /\ NumberAt(q, i + 1) = Len(payload)
      /\ \A k \in 1 .. Len(payload) : q.buffer[i + 1 + k] = payload[k]
  BY <1>1, HeldChunk
<1>3. i + 2 # -1 /\ (i + 2) - 1 = i + 1
  OBVIOUS
<1>4. Received(q, id) = [k \in 1 .. NumberAt(q, (i + 2) - 1) |-> q.buffer[(i + 2) + k - 1]]
  BY <1>3 DEF Received
<1>5. Len(payload) \in Nat /\ payload = [k \in 1 .. Len(payload) |-> payload[k]]
  OBVIOUS
<1>6. \A k \in 1 .. Len(payload) : (i + 2) + k - 1 = i + 1 + k
  BY <1>5
<1>7. [k \in 1 .. Len(payload) |-> q.buffer[(i + 2) + k - 1]]
        = [k \in 1 .. Len(payload) |-> payload[k]]
  BY <1>2, <1>6
<1>8. NumberAt(q, (i + 2) - 1) = Len(payload)
  BY <1>2, <1>3
<1> QED BY <1>4, <1>5, <1>7, <1>8

\* The counter does not stop the search for another chunk.
LEMMA FindBehindCounter ==
    ASSUME NEW q \in Packet, NEW c \in Ints(Counter), HoldsCounter(q, c), NEW id, id # "cntr"
    PROVE  FindChunk(q, id) = FindFrom(q, id)[AfterCounter(c)]
<1>1. CASE c = NULL
  BY <1>1 DEF AfterCounter, FindChunk
<1>2. CASE c # NULL
  <2>1. c \in Seq(Word) /\ Len(c) = 1 /\ "cntr" \in ChunkId /\ HoldsAt(q, 1, Chunk("cntr", c))
    BY <1>2, CounterWords DEF ChunkId, RequestId, HoldsCounter
  <2>2. 1 + 2 + Len(c) = 4 /\ 4 < BUFLEN
    BY <2>1, RoomAssumption, BufferAssumption
  <2>3. FindFrom(q, id)[1] = FindFrom(q, id)[1 + 2 + Len(c)]
    <3> DEFINE d == "cntr"
               i == 1
    <3>1. i + 2 + Len(c) < BUFLEN /\ i \in Nat
      BY <2>2
    <3>2. d \in ChunkId /\ HoldsAt(q, i, Chunk(d, c)) /\ d # id /\ c \in Seq(Word)
      BY <2>1
    <3> HIDE DEF d, i
    <3>3. FindFrom(q, id)[i] = FindFrom(q, id)[i + 2 + Len(c)]
      BY <3>1, <3>2, FindAtChunk
    <3> QED BY <3>3 DEF i
  <2> QED BY <1>2, <2>2, <2>3 DEF AfterCounter, FindChunk
<1> QED BY <1>1, <1>2

LEMMA CountedReply ==
    ASSUME NEW p, NEW c \in Ints(Counter), NEW ids \in SUBSET AnswerId, Counted(p, c, ids),
           AppendEndmark(p).length <= BUFLEN
    PROVE  LET q == AppendEndmark(p)
           IN  /\ Readable(q, c) /\ q \in Packet /\ HoldsCounter(q, c)
               /\ q.length = p.length + 1 /\ p \in Packet /\ p.length \in Nat
               /\ \A j \in Index : j < p.length => q.buffer[j] = p.buffer[j]
               /\ \A id : id \notin ids /\ id # "cntr" => FindChunk(q, id) = -1
<1> DEFINE q == AppendEndmark(p)
           all == ids \cup CounterIds(c)
<1>1. all \subseteq ChunkId /\ Composed(p, all) /\ p.length >= AfterCounter(c)
      /\ (p.length <= BUFLEN => HoldsCounter(p, c))
  BY CounterIdsAreIds DEF AnswerId, ChunkId, Counted
<1>2. p \in Packet /\ p.length \in Nat
  BY <1>1 DEF Composed
<1>3. q.length <= BUFLEN
  OBVIOUS
<1> HIDE DEF all
<1>4. /\ q \in Packet /\ IsHeaderOk(q) /\ ScanChunks(q) # -1
      /\ q.length = p.length + 1 /\ q.buffer[q.length - 1] = Id("endm")
      /\ \A j \in Index : j < p.length => q.buffer[j] = p.buffer[j]
      /\ \A id : id \notin all => FindChunk(q, id) = -1
  BY <1>1, <1>3, ReplyCanBeRead
<1> HIDE DEF q
<1>5. p.length <= BUFLEN
  BY <1>2, <1>3, <1>4, BufferAssumption
<1>6. \A id : id \notin ids /\ id # "cntr" => FindChunk(q, id) = -1
  BY <1>4 DEF all, CounterIds
<1>7. CASE c = NULL
  <2>1. "cntr" \notin all
    BY <1>7 DEF all, CounterIds, AnswerId
  <2>2. Received(q, "cntr") = NULL
    BY <1>4, <2>1 DEF Received
  <2> QED BY <1>2, <1>4, <1>6, <1>7, <2>2 DEF Readable, HoldsCounter, q
<1>8. CASE c # NULL
  <2> DEFINE words == Chunk("cntr", c)
  <2>1. c \in Seq(Word) /\ Len(c) = 1 /\ "cntr" \in ChunkId
    BY <1>8, CounterWords DEF ChunkId, RequestId
  <2>2. words \in Seq(Word) /\ Len(words) = 2 + Len(c)
    BY <2>1, ChunkWords
  <2>3. HoldsAt(p, 1, words) /\ p.length >= 4
    BY <1>1, <1>5, <1>8 DEF HoldsCounter, AfterCounter
  <2> HIDE DEF words
  <2>4. 1 + Len(words) <= p.length
    BY <1>2, <2>1, <2>2, <2>3
  <2>5. HoldsAt(q, 1, words)
    BY <1>2, <1>4, <1>5, <2>2, <2>3, <2>4, HeldIsKept
  <2>6. HoldsAt(q, 1, Chunk("cntr", c)) /\ HoldsCounter(q, c)
    BY <2>5 DEF words, HoldsCounter
  <2>7. 1 + 2 + Len(c) < BUFLEN
    BY <2>1, RoomAssumption, BufferAssumption
  <2>8. FindFrom(q, "cntr")[1] = 1 + 2
    <3> DEFINE d == "cntr"
               i == 1
    <3>1. i \in Nat /\ d \in ChunkId /\ HoldsAt(q, i, Chunk(d, c)) /\ i + 2 + Len(c) < BUFLEN
      BY <2>1, <2>6, <2>7
    <3> HIDE DEF d, i
    <3>2. FindFrom(q, d)[i] = i + 2
      BY <1>4, <2>1, <3>1, FindAtChunk
    <3> QED BY <3>2 DEF d, i
  <2>9. 1 + 2 <= BUFLEN
    BY RoomAssumption, BufferAssumption
  <2>10. Received(q, "cntr") = c
    BY <1>4, <2>1, <2>6, <2>8, <2>9, ReceivedHeld DEF FindChunk
  <2> QED BY <1>2, <1>4, <1>6, <2>6, <2>10 DEF Readable, q
<1> QED BY <1>7, <1>8

StatusWords(st) == <<Status(st), Text, Text, Text>>

\* The status is the first chunk behind the counter.
Reported(p, c, st) ==
    /\ p.length >= AfterCounter(c) + 6
    /\ p.length <= BUFLEN => HoldsAt(p, AfterCounter(c), Chunk("STAT", StatusWords(st)))

LEMMA StatusWordsAreWords ==
    ASSUME NEW st \in CommandStatus
    PROVE  /\ StatusWords(st) \in Seq(Word) /\ Len(StatusWords(st)) = 4
           /\ StatusWords(st)[1] = Status(st)
<1>1. Status(st) \in Word /\ Text \in Word
  BY StatusIsWord, TextIsWord
<1> QED BY <1>1 DEF StatusWords

LEMMA AfterCounterIsNumber == \A c : AfterCounter(c) \in Nat /\ AfterCounter(c) >= 1 /\ AfterCounter(c) <= 4
BY DEF AfterCounter

LEMMA ReportReports ==
    ASSUME NEW p, NEW c \in Ints(Counter), Counted(p, c, {}), p.length = AfterCounter(c),
           NEW ids \in SUBSET AnswerId, "STAT" \in ids, NEW st \in CommandStatus
    PROVE  /\ Counted(Report(p, st), c, ids) /\ Reported(Report(p, st), c, st)
           /\ Report(p, st).length = AfterCounter(c) + 6 /\ Report(p, st).counter = p.counter
<1> DEFINE q == Report(p, st)
           w == StatusWords(st)
<1>1. w \in Seq(Word) /\ Len(w) = 4
  BY StatusWordsAreWords
<1>2. q = AppendChunk(p, "STAT", w)
  BY DEF Report, StatusWords
<1>3. Counted(p, c, ids)
  BY CountedMore
<1> HIDE DEF q, w
<1>4. /\ Counted(q, c, ids) /\ q.length = p.length + 2 + Len(w) /\ q.counter = p.counter
      /\ p.length \in Nat
      /\ q.length <= BUFLEN => HoldsAt(q, p.length, Chunk("STAT", w))
  BY <1>1, <1>2, <1>3, CountedAppend
<1>5. q.length = AfterCounter(c) + 6
  BY <1>1, <1>4
<1>6. Reported(q, c, st)
  BY <1>4, <1>5, AfterCounterIsNumber DEF Reported, w
<1> QED BY <1>4, <1>5, <1>6 DEF q

LEMMA StatusChunk ==
    ASSUME NEW st \in CommandStatus
    PROVE  /\ Chunk("STAT", StatusWords(st)) \in Seq(Word)
           /\ Len(Chunk("STAT", StatusWords(st))) = 6
<1> DEFINE w == StatusWords(st)
<1>1. w \in Seq(Word) /\ Len(w) = 4 /\ "STAT" \in ChunkId
  BY StatusWordsAreWords DEF ChunkId, ReplyId
<1> HIDE DEF w
<1>2. Chunk("STAT", w) \in Seq(Word) /\ Len(Chunk("STAT", w)) = 2 + Len(w)
  BY <1>1, ChunkWords
<1> QED BY <1>1, <1>2 DEF w

LEMMA ReportedIsKept ==
    ASSUME NEW p \in Packet, p.length \in Nat, NEW c, NEW st \in CommandStatus, Reported(p, c, st),
           NEW q, q.length \in Nat, q.length >= p.length,
           \A j \in Index : j < p.length => q.buffer[j] = p.buffer[j]
    PROVE  Reported(q, c, st)
<1> DEFINE words == Chunk("STAT", StatusWords(st))
           i == AfterCounter(c)
<1>1. words \in Seq(Word) /\ Len(words) = 6
  BY StatusChunk
<1>2. i \in Nat /\ p.length >= i + 6 /\ (p.length <= BUFLEN => HoldsAt(p, i, words))
  BY AfterCounterIsNumber DEF Reported
<1> HIDE DEF words, i
<1>3. q.length >= i + 6
  BY <1>2
<1>4. ASSUME q.length <= BUFLEN PROVE HoldsAt(q, i, words)
  <2>1. p.length <= BUFLEN /\ i + Len(words) <= p.length
    BY <1>1, <1>2, <1>4, BufferAssumption
  <2> QED BY <1>1, <1>2, <2>1, HeldIsKept
<1> QED BY <1>3, <1>4 DEF Reported, words, i

LEMMA ReportedAppend ==
    ASSUME NEW p, NEW c \in Ints(Counter), NEW ids \in SUBSET AnswerId, Counted(p, c, ids),
           NEW st \in CommandStatus, Reported(p, c, st), NEW id \in ids, NEW payload \in Seq(Word)
    PROVE  Reported(AppendChunk(p, id, payload), c, st)
<1> DEFINE q == AppendChunk(p, id, payload)
<1>1. /\ q \in Packet /\ p \in Packet /\ p.length \in Nat
      /\ q.length = p.length + 2 + Len(payload) /\ Len(payload) \in Nat
      /\ \A j \in Index : j < p.length => q.buffer[j] = p.buffer[j]
  BY CountedAppend
<1> HIDE DEF q
<1>2. q.length \in Nat /\ q.length >= p.length
  BY <1>1
<1>3. Reported(q, c, st)
  BY <1>1, <1>2, ReportedIsKept
<1> QED BY <1>3 DEF q

LEMMA ReportedReply ==
    ASSUME NEW p, NEW c \in Ints(Counter), NEW ids \in SUBSET AnswerId, Counted(p, c, ids),
           NEW st \in CommandStatus, Reported(p, c, st), AppendEndmark(p).length <= BUFLEN
    PROVE  StatusOf(AppendEndmark(p)) = st
<1> DEFINE q == AppendEndmark(p)
           w == StatusWords(st)
           i == AfterCounter(c)
<1>1. /\ q \in Packet /\ HoldsCounter(q, c) /\ q.length = p.length + 1
      /\ p \in Packet /\ p.length \in Nat
      /\ \A j \in Index : j < p.length => q.buffer[j] = p.buffer[j]
  BY CountedReply
<1>2. q.length <= BUFLEN
  OBVIOUS
<1>3. w \in Seq(Word) /\ Len(w) = 4 /\ w[1] = Status(st) /\ "STAT" \in ChunkId
  BY StatusWordsAreWords DEF ChunkId, ReplyId
<1>4. i \in Nat
  BY AfterCounterIsNumber
<1> HIDE DEF q, w, i
<1>5. Reported(q, c, st)
  BY <1>1, ReportedIsKept
<1>6. HoldsAt(q, i, Chunk("STAT", w)) /\ i + 6 <= p.length
  BY <1>2, <1>5 DEF Reported, w, i
<1>7. i + 2 + Len(w) < BUFLEN
  BY <1>1, <1>2, <1>3, <1>4, <1>6, BufferAssumption
<1>8. FindFrom(q, "STAT")[i] = i + 2
  BY <1>1, <1>3, <1>4, <1>6, <1>7, FindAtChunk
<1>9. FindChunk(q, "STAT") = i + 2
  BY <1>1, <1>8, FindBehindCounter DEF i
<1>10. q.buffer[i + 2] = Status(st)
  <2>1. i + 1 \in DOMAIN q.buffer
    BY <1>1, <1>3, <1>4, <1>7, BufferAssumption DEF Packet
  <2>2. \A k \in 1 .. Len(w) : q.buffer[i + 1 + k] = w[k]
    <3> DEFINE d == "STAT"
    <3>1. d \in ChunkId /\ HoldsAt(q, i, Chunk(d, w)) /\ w \in Seq(Word)
      BY <1>3, <1>6
    <3> HIDE DEF d
    <3> QED BY <1>4, <2>1, <3>1, HeldChunk
  <2>3. q.buffer[i + 1 + 1] = w[1]
    BY <1>3, <2>2
  <2>4. i + 1 + 1 = i + 2
    BY <1>4
  <2> QED BY <1>3, <2>3, <2>4
<1>11. i + 2 # -1 /\ Status(st).status = st
  BY <1>4 DEF Status
<1>12. StatusOf(q) = st
  BY <1>9, <1>10, <1>11 DEF StatusOf
<1> QED BY <1>12 DEF q

LEMMA FoundReply ==
    ASSUME NEW p, NEW c \in Ints(Counter), Counted(p, c, {"STAT", "AVAL"}),
           NEW st \in CommandStatus, Reported(p, c, st), p.length = AfterCounter(c) + 6,
           NEW payload \in Seq(Word),
           AppendEndmark(AppendChunk(p, "AVAL", payload)).length <= BUFLEN
    PROVE  Received(AppendEndmark(AppendChunk(p, "AVAL", payload)), "AVAL") = payload
<1> DEFINE a == AppendChunk(p, "AVAL", payload)
           q == AppendEndmark(a)
           ids == {"STAT", "AVAL"}
           w == StatusWords(st)
           i == AfterCounter(c)
           id == "AVAL"
           words == Chunk(id, payload)
<1>1. ids \in SUBSET AnswerId /\ id \in ids /\ id \in ChunkId /\ id # "cntr" /\ id # "STAT"
  BY DEF AnswerId, ReplyId, ChunkId
<1>2. q.length <= BUFLEN /\ Len(payload) \in Nat
  OBVIOUS
<1> HIDE DEF ids, q
<1>3. /\ Counted(a, c, ids) /\ a \in Packet
      /\ a.length = p.length + 2 + Len(payload)
      /\ \A j \in Index : j < p.length => a.buffer[j] = p.buffer[j]
      /\ a.length <= BUFLEN => HoldsAt(a, p.length, words)
  BY <1>1, CountedAppend DEF ids
<1>4. Reported(a, c, st)
  BY <1>1, ReportedAppend DEF ids
<1> HIDE DEF a
<1>5. /\ q \in Packet /\ HoldsCounter(q, c) /\ q.length = a.length + 1 /\ a.length \in Nat
      /\ \A j \in Index : j < a.length => q.buffer[j] = a.buffer[j]
  BY <1>1, <1>2, <1>3, CountedReply DEF q
<1>6. w \in Seq(Word) /\ Len(w) = 4 /\ "STAT" \in ChunkId
  BY StatusWordsAreWords DEF ChunkId, ReplyId
<1>7. i \in Nat /\ p.length = i + 6
  BY AfterCounterIsNumber
<1>8. words \in Seq(Word) /\ Len(words) = 2 + Len(payload)
  BY <1>1, ChunkWords
<1>9. Reported(q, c, st)
  BY <1>3, <1>4, <1>5, ReportedIsKept
<1>10. HoldsAt(q, i, Chunk("STAT", w))
  BY <1>2, <1>9 DEF Reported
<1> HIDE DEF w, i, id, words
<1>11. a.length <= BUFLEN /\ a.length = i + 6 + (2 + Len(payload)) /\ q.length = i + 9 + Len(payload)
  BY <1>2, <1>3, <1>5, <1>7, BufferAssumption
<1>12. HoldsAt(q, i + 6, words)
  <2>1. HoldsAt(a, i + 6, words) /\ i + 6 \in Nat
    BY <1>3, <1>7, <1>11
  <2>2. (i + 6) + Len(words) <= a.length
    BY <1>7, <1>8, <1>11
  <2> DEFINE k == i + 6
  <2> HIDE DEF k
  <2> QED BY <1>3, <1>5, <1>8, <1>11, <2>1, <2>2, HeldIsKept
<1>13. FindFrom(q, id)[i + 6] = i + 8
  <2> DEFINE k == i + 6
  <2>1. k \in Nat /\ k + 2 + Len(payload) < BUFLEN /\ k + 2 = i + 8
    BY <1>2, <1>7, <1>11, BufferAssumption
  <2>2. HoldsAt(q, k, Chunk(id, payload))
    BY <1>12 DEF words
  <2> HIDE DEF k
  <2>3. FindFrom(q, id)[k] = k + 2
    BY <1>1, <1>5, <2>1, <2>2, FindAtChunk
  <2> QED BY <2>1, <2>3 DEF k
<1>14. FindFrom(q, id)[i] = FindFrom(q, id)[i + 6]
  <2> DEFINE n == Len(w)
             d == "STAT"
  <2>1. i + 2 + n < BUFLEN /\ i + 2 + n = i + 6
    BY <1>2, <1>6, <1>7, <1>11, BufferAssumption
  <2>2. d \in ChunkId /\ d # id /\ HoldsAt(q, i, Chunk(d, w)) /\ w \in Seq(Word)
    BY <1>1, <1>6, <1>10
  <2> HIDE DEF d
  <2>3. FindFrom(q, id)[i] = FindFrom(q, id)[i + 2 + n]
    BY <1>5, <1>7, <2>1, <2>2, FindAtChunk
  <2> QED BY <2>1, <2>3
<1>15. FindChunk(q, id) = i + 8
  BY <1>1, <1>5, <1>13, <1>14, FindBehindCounter DEF i
<1>16. Received(q, id) = payload
  <2> DEFINE k == i + 6
  <2>1. k \in Nat /\ k + 2 <= BUFLEN /\ FindChunk(q, id) = k + 2
    BY <1>2, <1>7, <1>11, <1>15, BufferAssumption
  <2>2. HoldsAt(q, k, Chunk(id, payload))
    BY <1>12 DEF words
  <2> HIDE DEF k
  <2> QED BY <1>1, <1>5, <2>1, <2>2, ReceivedHeld
<1> QED BY <1>16 DEF q, a, id

-----------------------------------------------------------------------------
(* What is read                                                            *)

LEMMA WordsInBuffer ==
    ASSUME NEW p \in Packet, NEW r, Shape(r), NEW off, Offsets(r, off), NEW words,
           Layout(r, off, words), HoldsAt(p, 0, words), Len(words) <= BUFLEN
    PROVE  InBuffer(p, r, off, 1)
<1>1. words \in Seq(Word) /\ Len(words) = off[10] + 1 /\ words[off[10] + 1] = Id("endm")
  BY DEF Layout
<1>2. off[10] \in Nat
  BY DEF Offsets
<1>3. \A k \in 1 .. Len(words) : p.buffer[k - 1] = words[k]
  <2> SUFFICES ASSUME NEW k \in 1 .. Len(words) PROVE p.buffer[k - 1] = words[k]
    OBVIOUS
  <2>1. p.buffer[0 + k - 1] = words[k]
    BY DEF HoldsAt
  <2>2. 0 + k - 1 = k - 1
    BY <1>1
  <2> QED BY <2>1, <2>2
<1>4. off[10] < BUFLEN /\ p.buffer[off[10]] = Id("endm")
  <2>1. off[10] + 1 \in 1 .. Len(words) /\ (off[10] + 1) - 1 = off[10] /\ off[10] < BUFLEN
    BY <1>1, <1>2, BufferAssumption
  <2> QED BY <1>1, <1>3, <2>1
<1>5. ASSUME NEW k \in 1 .. 9, r[Order[k]] # NULL
      PROVE  HoldsAt(p, off[k], Chunk(Order[k], r[Order[k]]))
  <2> DEFINE d == r[Order[k]]
             chunk == Chunk(Order[k], d)
             n == Len(d)
  <2>1. d \in Seq(Word) /\ Order[k] \in ChunkId
    BY <1>5, OrderIds, RequestWords DEF ChunkId
  <2>2. Len(chunk) = 2 + n /\ n \in Nat
    <3> DEFINE c == Order[k]
    <3>1. c \in ChunkId /\ d \in Seq(Word)
      BY <2>1
    <3> HIDE DEF c, d
    <3>2. Len(Chunk(c, d)) = 2 + Len(d) /\ Len(d) \in Nat
      BY <3>1, ChunkWords
    <3> QED BY <3>2 DEF c
  <2>3. \A j \in 1 .. 2 + n : words[off[k] + j] = chunk[j]
    BY <1>5 DEF Layout
  <2>4. off[k + 1] = off[k] + (2 + n)
    BY <1>5 DEF Offsets
  <2>5. off[k] \in Nat /\ off[k + 1] <= off[10] /\ off[k + 1] \in Nat
    <3>1. k \in 1 .. 10 /\ k + 1 \in 1 .. 10
      OBVIOUS
    <3> HIDE DEF n
    <3> QED BY <3>1, OrderedOffsets
  <2> HIDE DEF chunk, n, d
  <2>6. ASSUME NEW j \in 1 .. Len(chunk) PROVE p.buffer[off[k] + j - 1] = chunk[j]
    <3>1. off[k] + j \in 1 .. Len(words) /\ (off[k] + j) - 1 = off[k] + j - 1
      <4>1. j \in Nat /\ j >= 1 /\ j <= 2 + n
        BY <2>2
      <4>2. off[k] + j >= 1 /\ off[k] + j <= off[k + 1]
        BY <2>2, <2>4, <2>5, <4>1
      <4> DEFINE a == off[k]
                 o == off[10]
      <4>3. a \in Nat /\ o \in Nat /\ a + j >= 1 /\ a + j <= o /\ Len(words) = o + 1
        BY <1>1, <1>2, <2>5, <4>1, <4>2
      <4> HIDE DEF a, o
      <4>4. a + j \in 1 .. Len(words) /\ (a + j) - 1 = a + j - 1
        BY <4>1, <4>3
      <4> QED BY <4>4 DEF a
    <3>2. p.buffer[(off[k] + j) - 1] = words[off[k] + j]
      BY <1>3, <3>1
    <3>3. words[off[k] + j] = chunk[j]
      BY <2>2, <2>3
    <3> QED BY <3>1, <3>2, <3>3
  <2>7. HoldsAt(p, off[k], chunk)
    BY <2>6 DEF HoldsAt
  <2> QED BY <2>7 DEF chunk, d
<1> QED BY <1>4, <1>5 DEF InBuffer

LEMMA NoHeaderInside ==
    ASSUME NEW r, Shape(r), NEW id \in RequestId, r[id] # NULL, NEW k \in 1 .. Len(r[id]),
           ~Spells(r)
    PROVE  r[id][k] # Id("HSHr")
<1>1. \A S \in SUBSET Int : \A x \in Ints(S) :
         x # NULL => \A i \in 1 .. Len(x) : x[i] # Id("HSHr")
  <2> SUFFICES ASSUME NEW S \in SUBSET Int, NEW n \in S, NEW i \in 1 .. Len(<<Integer(n)>>)
               PROVE  <<Integer(n)>>[i] # Id("HSHr")
    BY DEF Ints
  <2> QED BY IdIsNoOther
<1>3. \A op \in CommandToken : \A i \in 1 .. Len(<<Token(op)>>) : <<Token(op)>>[i] # Id("HSHr")
  <2> SUFFICES ASSUME NEW op \in CommandToken, NEW i \in 1 .. Len(<<Token(op)>>)
               PROVE  <<Token(op)>>[i] # Id("HSHr")
    OBVIOUS
  <2> QED BY IdIsNoOther
<1>4. CASE id = "CMND"
  BY <1>3, <1>4 DEF Shape
<1>5. CASE id \in {"cntr", "LIMS", "LIMI", "RMET", "RCAP"}
  <2>1. Counter \in SUBSET Int /\ LimitStart \in SUBSET Int /\ LimitItems \in SUBSET Int
        /\ Method \in SUBSET Int /\ Minimum \in SUBSET Int
    BY RequestAssumption
  <2>2. \E S \in SUBSET Int : r[id] \in Ints(S)
    BY <2>1, <1>5 DEF Shape
  <2> QED BY <2>2, <1>1
<1>6. CASE id \in {"QKEY", "QVAL", "SPAT"}
  <2>1. r[id] \in Seq(Word)
    BY RequestWords
  <2>2. DOMAIN r[id] = 1 .. Len(r[id])
    BY <2>1
  <2> QED BY <2>2, <1>6 DEF Spells
<1> QED BY <1>4, <1>5, <1>6 DEF RequestId

\* So what is cut off from a request begins with a header only where the data
\* have one.
LEMMA OneHeader ==
    ASSUME NEW r, Shape(r), NEW off, Offsets(r, off), NEW words, Layout(r, off, words),
           NEW j \in 2 .. Len(words), ~Spells(r)
    PROVE  words[j] # Id("HSHr")
<1>1. words \in Seq(Word) /\ Len(words) = off[10] + 1 /\ words[off[10] + 1] = Id("endm")
  BY DEF Layout
<1>2. \A k \in 1 .. 10 : off[k] \in Nat
  BY DEF Offsets
<1>3. CASE j = off[10] + 1
  <2>1. Id("endm") # Id("HSHr")
    BY IdsDiffer
  <2> QED BY <1>1, <1>3, <2>1
<1>4. CASE j # off[10] + 1
  <2> DEFINE Before == {k \in 1 .. 10 : off[k] < j}
  <2>1. 1 \in Before
    BY DEF Offsets
  <2>2. PICK m \in Before : \A k \in Before : k <= m
    <3>1. Before \in SUBSET (0 .. 10) /\ Before # {} /\ 10 \in Nat
      BY <2>1
    <3> HIDE DEF Before
    <3> QED BY <3>1, Greatest
  <2>3. m \in 1 .. 9 /\ off[m] < j
    <3>1. m \in 1 .. 10 /\ off[m] < j
      OBVIOUS
    <3>2. m # 10
      BY <1>1, <1>2, <1>4, <3>1
    <3> QED BY <3>1, <3>2
  <2>4. off[m + 1] >= j
    <3>1. m + 1 \notin Before /\ m + 1 \in 1 .. 10
      BY <2>2, <2>3
    <3> QED BY <1>2, <3>1
  <2>5. off[m] \in Nat /\ off[m + 1] \in Nat
    <3>1. m \in 1 .. 10 /\ m + 1 \in 1 .. 10
      BY <2>3
    <3> QED BY <1>2, <3>1
  <2>6. off[m + 1] = off[m] + (IF r[Order[m]] = NULL THEN 0 ELSE 2 + Len(r[Order[m]]))
    BY <2>3 DEF Offsets
  <2>7. r[Order[m]] # NULL
    BY <2>3, <2>4, <2>5, <2>6
  <2> DEFINE d == r[Order[m]]
             chunk == Chunk(Order[m], d)
             i == j - off[m]
             n == Len(d)
  <2>8. d \in Seq(Word) /\ Order[m] \in ChunkId /\ Order[m] \in RequestId
    BY <2>3, <2>7, OrderIds, RequestWords DEF ChunkId
  <2>9. /\ chunk[1] = Id(Order[m]) /\ chunk[2] = Integer(n) /\ n \in Nat
        /\ \A k \in 1 .. n : chunk[k + 2] = d[k]
    <3> DEFINE c == Order[m]
    <3>1. c \in ChunkId /\ d \in Seq(Word)
      BY <2>8
    <3> HIDE DEF c, d
    <3>2. /\ Chunk(c, d)[1] = Id(c) /\ Chunk(c, d)[2] = Integer(Len(d)) /\ Len(d) \in Nat
          /\ \A k \in 1 .. Len(d) : Chunk(c, d)[k + 2] = d[k]
      BY <3>1, ChunkWords
    <3> QED BY <3>2 DEF c
  <2>10. \A k \in 1 .. 2 + n : words[off[m] + k] = chunk[k]
    BY <2>3, <2>7 DEF Layout
  <2>11. \A k \in 1 .. n : d[k] # Id("HSHr")
    BY <2>7, <2>8, NoHeaderInside
  <2>12. off[m + 1] = off[m] + (2 + n)
    BY <2>6, <2>7
  <2> HIDE DEF d, chunk, n
  <2>13. i \in 1 .. 2 + n /\ off[m] + i = j
    BY <2>3, <2>4, <2>5, <2>9, <2>12
  <2> HIDE DEF i
  <2>14. words[j] = chunk[i]
    BY <2>10, <2>13
  <2>15. CASE i = 1
    BY <2>8, <2>9, <2>14, <2>15, ChunkIds
  <2>16. CASE i = 2
    BY <2>9, <2>14, <2>16, IdIsNoOther
  <2>17. CASE i > 2
    <3>1. i - 2 \in 1 .. n /\ (i - 2) + 2 = i
      BY <2>9, <2>13, <2>17
    <3>2. chunk[i] = d[i - 2]
      BY <2>9, <3>1
    <3> QED BY <2>11, <2>14, <3>1, <3>2
  <2> QED BY <2>9, <2>13, <2>15, <2>16, <2>17
<1> QED BY <1>3, <1>4

\* A part of a request is never scanned to an end mark.
LEMMA PartIsNotScanned ==
    ASSUME NEW p \in Packet, NEW r, Shape(r), NEW off, Offsets(r, off), NEW words,
           Layout(r, off, words), Len(words) <= BUFLEN,
           p.length \in 1 .. Len(words) - 1, \A k \in 1 .. p.length : p.buffer[k - 1] = words[k]
    PROVE  ScanChunks(p) = -1
<1> DEFINE f == ScanFrom(p)
           L == p.length
           Bad == {k \in 1 .. 10 : off[k] <= L /\ f[off[k]] # -1}
<1>1. words \in Seq(Word) /\ Len(words) = off[10] + 1
  BY DEF Layout
<1>2. \A k \in 1 .. 10 : off[k] \in Nat
  BY DEF Offsets
<1>3. L \in Nat /\ L >= 1 /\ L <= off[10] /\ L < BUFLEN /\ off[10] \in Nat
  <2>1. off[10] \in Nat
    BY <1>2
  <2> DEFINE e == off[10]
             l == Len(words)
  <2>2. e \in Nat /\ l = e + 1 /\ l <= BUFLEN /\ L \in 1 .. l - 1
    BY <1>1, <2>1
  <2> HIDE DEF e, l, L
  <2>3. L \in Nat /\ L >= 1 /\ L <= e /\ L < BUFLEN
    BY <2>2, BufferAssumption
  <2> QED BY <2>1, <2>3 DEF e
<1>4. \A i \in 0 .. L :
        f[i] = IF L < i + 1 THEN -1
               ELSE IF p.buffer[i] = Id("endm") THEN 0
               ELSE IF i + 2 + NumberAt(p, i + 1) \notin i + 2 .. L
                       \/ f[i + 2 + NumberAt(p, i + 1)] = -1 THEN -1
               ELSE f[i + 2 + NumberAt(p, i + 1)] + 1
  BY <1>3, ScanUnfolds DEF ScanEquation
<1>5. \A j \in Int : NumberAt(p, j) \in Int
  BY NumberAtType
<1>6. \A k \in 1 .. L : p.buffer[k - 1] = words[k]
  OBVIOUS
<1> HIDE DEF f, L
<1>7. ASSUME Bad # {} PROVE FALSE
  <2>1. PICK b \in Bad : \A k \in Bad : k <= b
    <3>1. Bad \in SUBSET (0 .. 10) /\ 10 \in Nat
      OBVIOUS
    <3> HIDE DEF Bad
    <3> QED BY <1>7, <3>1, Greatest
  <2> DEFINE i == off[b]
  <2>2. b \in 1 .. 10 /\ i \in Nat /\ i <= L /\ f[i] # -1
    BY <1>2
  <2>3. i \in 0 .. L
    BY <1>3, <2>2
  <2>4. i < L
    <3>1. CASE i = L
      <4>1. L < i + 1
        BY <1>3, <3>1
      <4> QED BY <1>4, <2>2, <2>3, <4>1
    <3> QED BY <1>3, <2>2, <3>1
  <2>5. b \in 1 .. 9 /\ b + 1 \in 1 .. 10
    <3>1. b # 10
      BY <1>3, <2>2, <2>4
    <3> QED BY <2>2, <3>1
  <2>6. off[b + 1] <= L => f[off[b + 1]] = -1
    <3>1. b + 1 \notin Bad
      BY <2>1, <2>2
    <3> QED BY <2>5, <3>1
  <2>7. off[b + 1] = i + (IF r[Order[b]] = NULL THEN 0 ELSE 2 + Len(r[Order[b]]))
    BY <2>5 DEF Offsets
  <2>8. r[Order[b]] # NULL
    BY <2>2, <2>6, <2>7
  <2> DEFINE d == r[Order[b]]
             c == Order[b]
             n == Len(d)
  <2>9. d \in Seq(Word) /\ c \in ChunkId
    BY <2>5, <2>8, OrderIds, RequestWords DEF ChunkId
  <2>10. off[b + 1] = i + (2 + n)
    BY <2>7, <2>8
  <2>11. \A j \in 1 .. 2 + n : words[i + j] = Chunk(c, d)[j]
    BY <2>5, <2>8 DEF Layout
  <2> HIDE DEF d, c, Bad
  <2>12. n \in Nat /\ Chunk(c, d)[1] = Id(c) /\ Chunk(c, d)[2] = Integer(n)
    BY <2>9, ChunkWords
  <2> HIDE DEF n, i
  <2>13. words[i + 1] = Id(c) /\ words[i + 2] = Integer(n)
    <3>1. 1 \in 1 .. 2 + n /\ 2 \in 1 .. 2 + n
      BY <2>12
    <3> QED BY <2>11, <2>12, <3>1
  <2>14. p.buffer[i] # Id("endm")
    <3>1. i + 1 \in 1 .. L /\ (i + 1) - 1 = i
      BY <1>3, <2>2, <2>4
    <3>2. p.buffer[i] = Id(c)
      BY <1>6, <2>13, <3>1
    <3> QED BY <2>9, <3>2, ChunkIds
  <2> DEFINE next == i + 2 + NumberAt(p, i + 1)
  <2>15. f[i] = IF next \notin i + 2 .. L \/ f[next] = -1 THEN -1 ELSE f[next] + 1
    <3>1. ~(L < i + 1)
      BY <1>3, <2>2, <2>4
    <3> QED BY <1>4, <2>3, <2>14, <3>1
  <2>16. next \in Int /\ NumberAt(p, i + 1) \in Int
    <3>1. i + 1 \in Int
      BY <2>2
    <3>2. NumberAt(p, i + 1) \in Int
      BY <1>5, <3>1
    <3> QED BY <2>2, <3>2
  <2> HIDE DEF next
  <2>17. CASE i + 1 = L
    <3>1. next \notin i + 2 .. L
      BY <1>3, <2>2, <2>16, <2>17
    <3> QED BY <2>2, <2>15, <3>1
  <2>18. CASE i + 1 < L
    <3>1. i + 2 \in 1 .. L /\ (i + 2) - 1 = i + 1
      BY <1>3, <2>2, <2>18
    <3>2. p.buffer[i + 1] = Integer(n)
      BY <1>6, <2>13, <3>1
    <3>3. i + 1 \in DOMAIN p.buffer
      BY <1>3, <2>2, <2>18, BufferAssumption DEF Packet
    <3>4. NumberAt(p, i + 1) = n
      BY <3>2, <3>3, NumberOfInteger DEF NumberAt
    <3>5. next = off[b + 1]
      BY <2>2, <2>10, <2>12, <3>4 DEF next
    <3>6. CASE next <= L
      BY <2>2, <2>6, <2>15, <3>5, <3>6
    <3>7. CASE ~(next <= L)
      <4>1. next \notin i + 2 .. L
        BY <1>3, <2>2, <2>16, <3>7
      <4> QED BY <2>2, <2>15, <4>1
    <3> QED BY <3>6, <3>7
  <2> QED BY <1>3, <2>2, <2>4, <2>17, <2>18
<1>8. off[1] = 1 /\ 1 \in 1 .. 10
  BY DEF Offsets
<1>9. f[1] = -1
  BY <1>3, <1>7, <1>8
<1> QED BY <1>9 DEF ScanChunks, f

\* In a packet that can be scanned, what is found is inside the buffer.
LEMMA FoundInside ==
    ASSUME NEW p \in Packet, p.length \in 1 .. BUFLEN, ScanChunks(p) # -1,
           NEW id, FindChunk(p, id) # -1
    PROVE  FindChunk(p, id) \in Index
<1> DEFINE L == p.length
           f == ScanFrom(p)
           g == FindFrom(p, id)
           next(i) == i + 2 + NumberAt(p, i + 1)
           Bad == {i \in 0 .. BUFLEN : i < L /\ f[i] # -1 /\ g[i] # -1 /\ g[i] \notin Index}
<1>1. L \in Nat /\ L >= 1 /\ L <= BUFLEN
  BY BufferAssumption
<1>2. \A i \in 0 .. L : f[i] # -1 => i < L
  BY <1>1, ScanUnfolds DEF ScanEquation
<1>3. \A i \in 0 .. L : f[i] # -1 /\ p.buffer[i] # Id("endm") =>
         next(i) \in i + 2 .. L /\ f[next(i)] # -1
  BY <1>1, ScanUnfolds DEF ScanEquation
<1>4. \A i \in Index : g[i] # -1 =>
         /\ p.buffer[i] # Id("endm")
         /\ g[i] = i + 2 \/ (next(i) \in i + 2 .. BUFLEN - 1 /\ g[i] = g[next(i)])
  BY FindUnfolds DEF FindEquation
<1>5. \A i \in Int : NumberAt(p, i + 1) \in Int
  BY NumberAtType
<1> HIDE DEF f, g, L
<1>6. ASSUME Bad # {} PROVE FALSE
  <2>1. Bad \in SUBSET (0 .. BUFLEN) /\ BUFLEN \in Nat
    BY BufferAssumption
  <2> HIDE DEF Bad
  <2>2. PICK i \in Bad : \A j \in Bad : j <= i
    BY <1>6, <2>1, Greatest
  <2> USE DEF Bad
  <2>3. i \in 0 .. L /\ i \in Index /\ i \in Int /\ f[i] # -1 /\ g[i] # -1 /\ g[i] \notin Index
    BY <1>1, BufferAssumption DEF Index
  <2>4. PICK n \in Int : n = next(i)
    BY <1>5, <2>3
  <2>5. n \in i + 2 .. L /\ f[n] # -1 /\ (g[i] = i + 2 \/ g[i] = g[n])
    BY <1>3, <1>4, <2>3, <2>4
  <2> HIDE DEF next
  <2>6. n \in 0 .. L /\ n < L /\ n > i
    BY <1>1, <1>2, <2>3, <2>5
  <2>7. CASE g[i] = i + 2
    <3>1. i + 2 \in Index
      BY <1>1, <2>3, <2>5, <2>6, BufferAssumption DEF Index
    <3> QED BY <2>3, <2>7, <3>1
  <2>8. CASE g[i] = g[n]
    <3>1. n \in Bad
      BY <1>1, <2>3, <2>5, <2>6, <2>8, BufferAssumption
    <3> QED BY <2>2, <2>3, <2>6, <3>1
  <2> QED BY <2>5, <2>7, <2>8
<1>7. 1 \in 0 .. L /\ f[1] # -1 /\ g[1] # -1 /\ FindChunk(p, id) = g[1]
  BY <1>1 DEF ScanChunks, FindChunk, f, g
<1>8. 1 < L /\ 1 \in 0 .. BUFLEN
  BY <1>1, <1>2, <1>7, BufferAssumption
<1> QED BY <1>6, <1>7, <1>8

\* What a read leaves in the buffer.
LEMMA ReadWords ==
    ASSUME NEW p \in Packet, NEW n \in Int, NEW words \in Seq(Word)
    PROVE  LET q == Appended(PrepareForReply([p EXCEPT !.counter = n]), words)
           IN  /\ q \in Packet /\ q.length = Len(words)
               /\ Len(words) <= BUFLEN => HoldsAt(q, 0, words)
<1> DEFINE e == PrepareForReply([p EXCEPT !.counter = n])
           q == Appended(e, words)
<1>1. e \in Packet /\ e.length = 0
  <2>1. [p EXCEPT !.counter = n] \in Packet
    BY DEF Packet
  <2> DEFINE x == [p EXCEPT !.counter = n]
  <2> HIDE DEF x
  <2>2. x \in Packet
    BY <2>1 DEF x
  <2>3. PrepareForReply(x) \in Packet /\ PrepareForReply(x).length = 0
    BY <2>2 DEF PrepareForReply, Packet
  <2> QED BY <2>3 DEF x
<1> HIDE DEF e
<1>2. Extends(q, e, words)
  BY <1>1, AppendedWords
<1> HIDE DEF q
<1>3. /\ q \in Packet /\ q.length = Len(words)
      /\ Len(words) <= BUFLEN => HoldsAt(q, 0, words)
  BY <1>1, <1>2 DEF Extends
<1> QED BY <1>3 DEF q, e

LEMMA NewPacketIsPacket == NewPacket \in Packet
BY TextIsWord, BufferAssumption DEF NewPacket, Packet

\* The first chunk, and the others behind it.
LEMMA WholeRequestCarries ==
    ASSUME NEW p \in Packet, NEW r, Shape(r), NEW off, InBuffer(p, r, off, 1), r.CMND # NULL
    PROVE  Carries(p, r) /\ FindChunk(p, "CMND") = 3 /\ p.buffer[3] = r.CMND[1]
<1>1. PICK op \in CommandToken : r.CMND = <<Token(op)>>
  BY DEF Shape
<1>2. Token(op) \in Word
  BY TokenIsWord
<1>3. Order[1] = "CMND" /\ 1 \in 1 .. 9 /\ off[1] = 1 /\ Offsets(r, off)
  BY DEF Order, InBuffer, Offsets
<1>4. HoldsAt(p, 1, Chunk("CMND", <<Token(op)>>))
  <2>1. HoldsAt(p, off[1], Chunk(Order[1], r[Order[1]]))
    BY <1>1, <1>3, NullAssumption, <1>2 DEF InBuffer
  <2> QED BY <2>1, <1>1, <1>3
<1>5. off[2] = 4
  <2>1. off[1 + 1] = off[1] + (IF r[Order[1]] = NULL THEN 0 ELSE 2 + Len(r[Order[1]]))
    BY <1>3 DEF Offsets
  <2>2. Len(r[Order[1]]) = 1 /\ r[Order[1]] # NULL
    BY <1>1, <1>3
  <2> QED BY <1>3, <2>1, <2>2
<1>6. InBuffer(p, r, off, 2)
  BY DEF InBuffer
<1>7. Carries(p, r)
  BY <1>2, <1>4, <1>5, <1>6 DEF Carries
<1>8. FindFrom(p, "CMND")[off[1]] = off[1] + 2
  <2>1. 1 \in 1 .. 9 /\ r[Order[1]] # NULL
    BY <1>3
  <2>2. FindFrom(p, Order[1])[off[1]] = off[1] + 2
    BY <2>1, FindPresent
  <2> QED BY <1>3, <2>2
<1>9. p.buffer[3] = Token(op)
  <2> DEFINE w == <<Token(op)>>
             c == "CMND"
             i == 1
  <2>1. w \in Seq(Word) /\ c \in ChunkId /\ i \in Nat /\ HoldsAt(p, i, Chunk(c, w))
    BY <1>2, <1>4 DEF ChunkId, RequestId
  <2>2. i + 1 \in DOMAIN p.buffer
    BY RoomAssumption, BufferAssumption DEF Packet
  <2>3. 1 \in 1 .. Len(w) /\ w[1] = Token(op)
    OBVIOUS
  <2> HIDE DEF w, c, i
  <2>4. \A k \in 1 .. Len(w) : p.buffer[i + 1 + k] = w[k]
    BY <2>1, <2>2, HeldChunk
  <2>5. p.buffer[i + 1 + 1] = w[1]
    BY <2>3, <2>4
  <2> QED BY <2>3, <2>5 DEF i
<1>10. FindChunk(p, "CMND") = 3 /\ r.CMND[1] = Token(op)
  BY <1>1, <1>3, <1>8 DEF FindChunk
<1> QED BY <1>7, <1>9, <1>10

\* The words from index 4 on are those of a request for as long as nobody
\* writes there.
LEMMA InBufferIsKept ==
    ASSUME NEW p \in Packet, NEW q \in Packet, NEW r, Shape(r), NEW off,
           InBuffer(p, r, off, 2), off[2] = 4,
           \A j \in Index : j >= 4 => q.buffer[j] = p.buffer[j]
    PROVE  InBuffer(q, r, off, 2)
<1>1. Offsets(r, off) /\ off[10] < BUFLEN /\ p.buffer[off[10]] = Id("endm")
  BY DEF InBuffer
<1>2. \A k \in 2 .. 10 : off[k] \in Nat /\ off[k] >= 4 /\ off[k] <= off[10]
  <2>1. \A k \in 2 .. 10 : k \in 1 .. 10
    OBVIOUS
  <2> QED BY <1>1, <2>1, OrderedOffsets
<1>3. off[10] \in Index /\ off[10] >= 4
  <2>1. off[10] \in Nat /\ off[10] >= 4
    BY <1>2
  <2> QED BY <1>1, <2>1, BufferAssumption DEF Index
<1>4. q.buffer[off[10]] = Id("endm")
  BY <1>1, <1>3
<1>5. ASSUME NEW k \in 2 .. 9, r[Order[k]] # NULL
      PROVE  HoldsAt(q, off[k], Chunk(Order[k], r[Order[k]]))
  <2> DEFINE d == r[Order[k]]
             c == Order[k]
             words == Chunk(c, d)
             n == Len(d)
             i == off[k]
  <2>1. k \in 1 .. 9 /\ k \in 2 .. 10 /\ k + 1 \in 2 .. 10
    OBVIOUS
  <2>2. c \in ChunkId /\ d \in Seq(Word)
    BY <1>5, <2>1, OrderIds, RequestWords DEF ChunkId
  <2>3. HoldsAt(p, i, words)
    BY <1>5 DEF InBuffer
  <2>4. off[k + 1] = i + (2 + n)
    BY <1>1, <1>5, <2>1 DEF Offsets
  <2>5. i \in Nat /\ i >= 4 /\ off[k + 1] \in Nat /\ off[k + 1] <= off[10] /\ off[10] \in Nat
    BY <1>2, <1>3, <2>1 DEF Index
  <2> HIDE DEF d, c
  <2>6. Len(words) = 2 + n /\ n \in Nat
    BY <2>2, ChunkWords
  <2> HIDE DEF words, n, i
  <2>7. i + Len(words) < BUFLEN
    BY <1>1, <2>4, <2>5, <2>6, BufferAssumption
  <2>8. ASSUME NEW j \in 1 .. Len(words) PROVE q.buffer[i + j - 1] = words[j]
    <3>1. i + j - 1 \in Index /\ i + j - 1 >= 4
      BY <2>5, <2>6, <2>7, BufferAssumption DEF Index
    <3> QED BY <2>3, <3>1 DEF HoldsAt
  <2>9. HoldsAt(q, i, words)
    BY <2>8 DEF HoldsAt
  <2> QED BY <2>9 DEF words, d, c, i
<1> QED BY <1>1, <1>4, <1>5 DEF InBuffer

LEMMA CarriesIsKept ==
    ASSUME NEW p \in Packet, NEW c \in Ints(Counter), p.counter = CounterIn(c),
           NEW r, Shape(r), Carries(p, r)
    PROVE  Carries(BeginReply(p), r)
<1> DEFINE q == BeginReply(p)
<1>1. /\ q \in Packet /\ Counted(q, c, {}) /\ q.length = AfterCounter(c)
      /\ \A j \in Index : j >= AfterCounter(c) => q.buffer[j] = p.buffer[j]
  BY BeginReplyCounted
<1> HIDE DEF q
<1>2. \A j \in Index : j >= 4 => q.buffer[j] = p.buffer[j]
  BY <1>1 DEF AfterCounter, Index
<1>3. PICK off : InBuffer(p, r, off, 2) /\ off[2] = 4
  BY DEF Carries
<1>4. InBuffer(q, r, off, 2)
  BY <1>1, <1>2, <1>3, InBufferIsKept
<1>5. \E d \in {"CMND", "cntr"}, w \in Word : HoldsAt(q, 1, Chunk(d, <<w>>))
  <2>1. CASE c = NULL
    <3>1. PICK d \in {"CMND", "cntr"}, w \in Word : HoldsAt(p, 1, Chunk(d, <<w>>))
      BY DEF Carries
    <3> DEFINE v == <<w>>
               words == Chunk(d, v)
    <3>2. v \in Seq(Word) /\ Len(v) = 1 /\ d \in ChunkId
      BY DEF ChunkId, RequestId
    <3> HIDE DEF v
    <3>3. Len(words) = 2 + Len(v)
      BY <3>2, ChunkWords
    <3>4. HoldsAt(p, 1, words)
      BY <3>1 DEF v
    <3> HIDE DEF words
    <3>5. ASSUME NEW j \in 1 .. Len(words) PROVE q.buffer[1 + j - 1] = words[j]
      <4>1. 1 + j - 1 \in Index /\ 1 + j - 1 >= 1
        BY <3>2, <3>3, RoomAssumption, BufferAssumption DEF Index
      <4>2. q.buffer[1 + j - 1] = p.buffer[1 + j - 1]
        BY <1>1, <2>1, <4>1 DEF AfterCounter
      <4> QED BY <3>4, <4>2 DEF HoldsAt
    <3>6. HoldsAt(q, 1, words)
      BY <3>5 DEF HoldsAt
    <3> QED BY <3>6 DEF words, v
  <2>2. CASE c # NULL
    <3>1. HoldsAt(q, 1, Chunk("cntr", c))
      <4>1. q.length <= BUFLEN
        BY <1>1, RoomAssumption, BufferAssumption DEF AfterCounter
      <4> QED BY <1>1, <2>2, <4>1 DEF Counted, HoldsCounter
    <3>2. c = <<c[1]>> /\ c[1] \in Word
      BY <2>2, CounterWords
    <3> QED BY <3>1, <3>2
  <2> QED BY <2>1, <2>2
<1>6. Carries(q, r)
  BY <1>3, <1>4, <1>5 DEF Carries
<1> QED BY <1>6 DEF q
==============================================================================
