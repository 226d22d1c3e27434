-------------------------- MODULE HashTableProofs --------------------------
(***************************************************************************)
(* Theorems about the hash table, for every set of items, keys, values and *)
(* methods, every hash function and every pair of capacity limits.         *)
(***************************************************************************)
EXTENDS HashTable, FiniteSetTheorems, TLAPS

USE DEF Slots

(* Sizes                                                                   *)

\* A power of two is a positive number in the int range.
LEMMA PowerRange ==
    \A p \in PowersOfTwo : p \in Nat /\ 1 <= p /\ p <= LargestPower
BY SMT DEF PowersOfTwo, LargestPower

LEMMA LargestPowerType == LargestPower \in Nat \ {0}
BY SMT DEF LargestPower

\* Every size up to the largest power has a power of two that is less than
\* twice as large.
LEMMA PowerExists ==
    ASSUME NEW v \in Nat, 1 <= v, v <= LargestPower
    PROVE  \E p \in PowersOfTwo : v <= p /\ p < 2 * v
<1> SUFFICES ASSUME \A p \in PowersOfTwo : ~(v <= p /\ p < 2 * v)
             PROVE  FALSE
    OBVIOUS
<1>1. /\ 1 \in PowersOfTwo /\ 2 \in PowersOfTwo /\ 4 \in PowersOfTwo /\ 8 \in PowersOfTwo
         /\ 16 \in PowersOfTwo /\ 32 \in PowersOfTwo /\ 64 \in PowersOfTwo /\ 128 \in PowersOfTwo
         /\ 256 \in PowersOfTwo /\ 512 \in PowersOfTwo /\ 1024 \in PowersOfTwo /\ 2048 \in PowersOfTwo
         /\ 4096 \in PowersOfTwo /\ 8192 \in PowersOfTwo /\ 16384 \in PowersOfTwo /\ 32768 \in PowersOfTwo
         /\ 65536 \in PowersOfTwo /\ 131072 \in PowersOfTwo /\ 262144 \in PowersOfTwo /\ 524288 \in PowersOfTwo
         /\ 1048576 \in PowersOfTwo /\ 2097152 \in PowersOfTwo /\ 4194304 \in PowersOfTwo /\ 8388608 \in PowersOfTwo
         /\ 16777216 \in PowersOfTwo /\ 33554432 \in PowersOfTwo /\ 67108864 \in PowersOfTwo /\ 134217728 \in PowersOfTwo
         /\ 268435456 \in PowersOfTwo /\ 536870912 \in PowersOfTwo /\ 1073741824 \in PowersOfTwo
    BY SMT DEF PowersOfTwo
<1>2. v <= 1073741824
    BY SMT DEF LargestPower
<1> QED BY <1>1, <1>2, SMT

\* What roundUp2Power returns.
LEMMA RoundUpCorrect ==
    ASSUME NEW v \in 1 .. LargestPower
    PROVE  /\ RoundUp2Power(v) \in PowersOfTwo
           /\ v <= RoundUp2Power(v)
           /\ RoundUp2Power(v) < 2 * v
<1>1. \E p \in PowersOfTwo : v <= p /\ p < 2 * v
    BY PowerExists, LargestPowerType
<1>2. v \in Int /\ ~(v <= 0)  BY LargestPowerType
<1> QED BY <1>1, <1>2 DEF RoundUp2Power

\* A capacity within the limits is a power of two.
LEMMA LimitsCorrect ==
    ASSUME NEW c \in Int
    PROVE  ApplyCapacityLimits(c) \in PowersOfTwo
<1>1. AtMost(AtLeast(c, CapacityMin), CapacityMax) \in 1 .. LargestPower
    BY CapacityAssumption, PowerRange, LargestPowerType DEF AtMost, AtLeast
<1> QED BY <1>1, RoundUpCorrect DEF ApplyCapacityLimits

\* The optimal capacity is 0 for an empty table, or a power of two that holds
\* at least twice the number of items.
LEMMA OptimalCorrect ==
    ASSUME numberOfElms \in 0 .. Cardinality(Item)
    PROVE  /\ CalcOptimalCapacity \in PowersOfTwo \cup {0}
           /\ 2 * numberOfElms <= CalcOptimalCapacity
<1> DEFINE n == IF lastCommandEffect = "EXPAND"
                THEN 2 * numberOfElms ELSE 3 * numberOfElms
<1>0. Cardinality(Item) \in Nat  BY AddressAssumption, FS_CardinalityType
<1>1. n \in 0 .. LargestPower /\ 2 * numberOfElms <= n
    BY <1>0, SizeAssumption, LargestPowerType
<1>2. CASE n = 0
    BY <1>1, <1>2 DEF CalcOptimalCapacity, RoundUp2Power
<1>3. CASE n # 0
  <2> HIDE DEF n
  <2>1. n \in 1 .. LargestPower  BY <1>1, <1>3, LargestPowerType
  <2>2. CalcOptimalCapacity = RoundUp2Power(n)  BY DEF CalcOptimalCapacity, n
  <2>3. RoundUp2Power(n) \in PowersOfTwo /\ n <= RoundUp2Power(n)
      BY <2>1, RoundUpCorrect
  <2> QED BY <1>0, <1>1, <2>2, <2>3, PowerRange
<1> QED BY <1>2, <1>3

\* The size a reorganisation aims at is a power of two, and no item count
\* exceeds half of it.
LEMMA NewCapacityCorrect ==
    ASSUME numberOfElms \in 0 .. Cardinality(Item),
           minCapacity \in PowersOfTwo
    PROVE  NewCapacity \in PowersOfTwo /\ 2 * numberOfElms <= NewCapacity
<1> DEFINE c == AtLeast(CalcOptimalCapacity, minCapacity)
<1>0. Cardinality(Item) \in Nat  BY AddressAssumption, FS_CardinalityType
<1>1. c \in 1 .. LargestPower /\ 2 * numberOfElms <= c
    BY <1>0, OptimalCorrect, PowerRange DEF AtLeast
<1> HIDE DEF c
<1>2. NewCapacity = RoundUp2Power(c)  BY DEF NewCapacity, c
<1>3. RoundUp2Power(c) \in PowersOfTwo /\ c <= RoundUp2Power(c)
    BY <1>1, RoundUpCorrect
<1> QED BY <1>0, <1>1, <1>2, <1>3, PowerRange

\* A new lower bound is a power of two.
LEMMA MinCapacityCorrect ==
    ASSUME numberOfElms \in 0 .. Cardinality(Item),
           minCapacity \in PowersOfTwo,
           NEW requested \in Int
    PROVE  CalcMinCapacity(requested) \in PowersOfTwo
<1>1. ApplyCapacityLimits(IF requested = -1 THEN minCapacity ELSE requested) \in Int
    BY LimitsCorrect, PowerRange
<1>2. CalcOptimalCapacity \in Int
    BY OptimalCorrect, PowerRange
<1> QED BY <1>1, <1>2, LimitsCorrect DEF CalcMinCapacity, AtLeast

-----------------------------------------------------------------------------
(* The inductive invariant.  The properties of the runs do not imply each  *)
(* other one by one: that a counted item can be deleted needs NoDangling,  *)
(* that no walk leads to freed memory needs NoSharing, and both need to    *)
(* know where the walking pointer is.                                      *)

\* The locals of the running command point into the table.
Locals ==
    /\ pc \in {"find", "move"} => ptr \in Slots(slots) \cup live
    /\ pc = "find" => cmd.key \in Key
    /\ pc # "zapTail" => next = NULL
    /\ \A x \in live : key[x] \in Key
    /\ \A x \in Item \ live : link[x] = NULL

\* What becomes of LoadBound while a command runs: the bound may be broken
\* only between an insertion and the reorganisation that follows it.
Load ==
    /\ pc \in {"idle", "find", "zap", "zapTail"} => 2 * numberOfElms <= capacity
    /\ pc = "reorg" /\ lastCommandEffect = "SHRINK" => 2 * numberOfElms <= capacity
    /\ pc \in {"move", "resize"} => 2 * numberOfElms <= hashMask + 1

IInv ==
    /\ TypeOK
    /\ ArrayBounds
    /\ NoSharing
    /\ NoDangling
    /\ NoCycle
    /\ CountExact
    /\ Locals
    /\ Load

\* The slot of a key exists, also in the array of a table that is moving.
LEMMA HashInArray ==
    ASSUME TypeOK, ArrayBounds, NEW k \in Key
    PROVE  HashOf(k) \in Slots(slots)
<1>1. Hash[method][k] \in Int  BY HashAssumption DEF TypeOK
<1>2. hashMask \in Nat /\ hashMask < slots /\ slots \in Nat
    BY PowerRange DEF TypeOK, ArrayBounds
<1>3. \A a \in Int, b \in Nat \ {0} : a % b \in 0 .. b - 1
    BY SMT
<1>4. HashOf(k) \in 0 .. (hashMask + 1) - 1
    BY <1>1, <1>2, <1>3 DEF HashOf
<1> QED BY <1>2, <1>4

\* A slot is no item, and NULL is neither.
LEMMA CellKinds ==
    /\ \A n : \A i \in Slots(n) : i \notin Item /\ i # NULL
    /\ NULL \notin Item
    /\ NULL \notin Key
BY AddressAssumption

-----------------------------------------------------------------------------
(* Type correctness                                                        *)

LEMMA TypeInit == Init => TypeOK /\ ArrayBounds
<1> SUFFICES ASSUME Init PROVE TypeOK /\ ArrayBounds
    OBVIOUS
<1>1. ApplyCapacityLimits(CapacityMin) \in PowersOfTwo
    BY CapacityAssumption, PowerRange, LimitsCorrect
<1>2. slots \in PowersOfTwo /\ slots \in Nat /\ 1 <= slots
    BY <1>1, PowerRange DEF Init
<1>3. Cardinality(Item) \in Nat
    BY AddressAssumption, FS_CardinalityType
<1>4. NoCommand \in Command /\ reply \in Reply
    BY DEF Init, NoCommand, Command, Reply, Answer, Status
<1> QED BY <1>2, <1>3, <1>4, HashAssumption DEF Init, TypeOK, ArrayBounds, Cell

\* Starting a command keeps the types.
LEMMA TypeStart ==
    ASSUME IInv, StartCommand PROVE TypeOK'
<1> USE DEF IInv
<1>1. ASSUME NEW c \in Command, c.key \in Key, StartFind(c) PROVE TypeOK'
    BY <1>1, HashInArray DEF StartFind, TypeOK, heapVars, tableVars, Cell
<1>2. ASSUME NEW k \in Key, NEW v \in Value, Set(k, v) PROVE TypeOK'
    BY <1>1, <1>2 DEF Set, NoCommand, Command
<1>3. ASSUME NEW k \in Key, Get(k) \/ Del(k) PROVE TypeOK'
    BY <1>1, <1>3 DEF Get, Del, NoCommand, Command
<1>4. CASE ZapEmpty
    BY <1>4, PowerRange DEF ZapEmpty, Return, Answer, Reply, Status, NoCommand, Command,
                TypeOK, heapVars, tableVars, Cell
<1>5. CASE Zap
    BY <1>5, PowerRange DEF Zap, Answer, Reply, Status, NoCommand, Command,
                TypeOK, heapVars, tableVars, Cell
<1>6. ASSUME NEW m \in Method, NEW c \in RequestedCapacity, Reorg(m, c) PROVE TypeOK'
  <2>1. minCapacity' \in PowersOfTwo
      BY <1>6, CapacityAssumption, MinCapacityCorrect DEF Reorg, TypeOK
  <2> QED BY <1>6, <2>1 DEF Reorg, NoCommand, Command, TypeOK, heapVars, localVars, Cell
<1>7. ASSUME NEW m \in Method, SetMethod(m) PROVE TypeOK'
    BY <1>7 DEF SetMethod, TypeOK, heapVars, localVars, Cell
<1>8. ASSUME NEW m \in Method, SetMethodRefused(m) PROVE TypeOK'
    BY <1>8 DEF SetMethodRefused, Exit, TypeOK, heapVars, tableVars, localVars, Cell
<1> QED BY <1>2, <1>3, <1>4, <1>5, <1>6, <1>7, <1>8 DEF StartCommand

\* An allocated item is one of the counted.
LEMMA Counting ==
    ASSUME TypeOK, CountExact
    PROVE  /\ IsFiniteSet(Item) /\ IsFiniteSet(live)
           /\ Cardinality(Item) \in Nat
           /\ numberOfElms = Cardinality(live)
           /\ \A x \in live : /\ numberOfElms \in 1 .. Cardinality(Item)
                               /\ Cardinality(live \ {x}) = numberOfElms - 1
           /\ \A x \in Item \ live :
                 /\ numberOfElms + 1 \in 1 .. Cardinality(Item)
                 /\ Cardinality(live \cup {x}) = numberOfElms + 1
<1>1. IsFiniteSet(Item) /\ IsFiniteSet(live) /\ live \subseteq Item
    BY AddressAssumption, FS_Subset DEF TypeOK
<1>2. Cardinality(Item) \in Nat /\ Cardinality(live) \in Nat
    BY <1>1, FS_CardinalityType
<1>3. ASSUME NEW x \in live
      PROVE  /\ numberOfElms \in 1 .. Cardinality(Item)
             /\ Cardinality(live \ {x}) = numberOfElms - 1
  <2>1. Cardinality(live \ {x}) = Cardinality(live) - 1
      BY <1>1, FS_RemoveElement
  <2>2. Cardinality(live \ {x}) \in Nat
      BY <1>1, FS_Subset, FS_CardinalityType
  <2>3. Cardinality(live) <= Cardinality(Item)
      BY <1>1, FS_Subset
  <2> QED BY <1>2, <2>1, <2>2, <2>3 DEF CountExact
<1>4. ASSUME NEW x \in Item \ live
      PROVE  /\ numberOfElms + 1 \in 1 .. Cardinality(Item)
             /\ Cardinality(live \cup {x}) = numberOfElms + 1
  <2>1. Cardinality(live \cup {x}) = Cardinality(live) + 1
      BY <1>1, FS_AddElement
  <2>2. Cardinality(live \cup {x}) <= Cardinality(Item)
      BY <1>1, FS_Subset
  <2> QED BY <1>2, <2>1, <2>2 DEF CountExact
<1> QED BY <1>1, <1>2, <1>3, <1>4 DEF CountExact

\* Taking an item out of a chain, and putting one into a chain, give links.
LEMMA LinkedType ==
    ASSUME NEW l \in [Cell -> Item \cup {NULL}], NEW x \in Item, NEW h \in Cell
    PROVE  Linked(l, x, h) \in [Cell -> Item \cup {NULL}]
BY DEF Linked, Cell

LEMMA UnlinkedType ==
    ASSUME TypeOK, NEW c \in Cell, link[c] \in Item
    PROVE  Unlinked(c) \in [Cell -> Item \cup {NULL}]
BY DEF Unlinked, TypeOK, Cell

\* Where the walk of find or move stands, its cell is in the table and leads
\* to an allocated item or to the end.
LEMMA AtCell ==
    ASSUME IInv, pc \in {"find", "move"}
    PROVE  /\ ptr \in Cell
           /\ link[ptr] \in live \cup {NULL}
           /\ ~AtEnd => link[ptr] \in live /\ link[ptr] \in Item /\ link[ptr] \in Cell
BY DEF IInv, Locals, NoDangling, TypeOK, AtEnd, Cell

\* The steps of set, get and del.
LEMMA TypeFind ==
    ASSUME IInv, Find PROVE TypeOK'
<1> USE DEF IInv
<1>1. CASE FindNext
    BY <1>1, AtCell DEF FindNext, TypeOK, heapVars, tableVars, Cell
<1>2. CASE GetProvided
  <2>1. val[link[ptr]] \in Value \cup {NULL} /\ cmd.key \in Key
      BY <1>2, AtCell DEF GetProvided, AtKey, TypeOK, Locals
  <2> QED BY <1>2, <2>1, PowerRange
          DEF GetProvided, Return, Answer, Reply, Status, NoCommand, Command,
              TypeOK, heapVars, tableVars, Cell
<1>3. CASE GetNotFound
    BY <1>3, PowerRange DEF GetNotFound, Locals, Return, Answer, Reply, Status, NoCommand,
              Command, TypeOK, heapVars, tableVars, Cell
<1>4. CASE SetUpdated
  <2>1. cmd.key \in Key /\ cmd.val \in Value \cup {NULL}
      BY <1>4 DEF SetUpdated, Locals, TypeOK, Command
  <2>2. val' \in [Item -> Value \cup {NULL}]
      BY <1>4, <2>1 DEF SetUpdated, TypeOK
  <2> QED BY <1>4, <2>1, <2>2, PowerRange
          DEF SetUpdated, Return, Answer, Reply, Status, NoCommand, Command,
              TypeOK, tableVars, Cell
<1>5. CASE SetInserted
  <2>1. PICK item \in Item \ live :
          /\ live' = live \cup {item}
          /\ key' = [key EXCEPT ![item] = cmd.key]
          /\ val' = [val EXCEPT ![item] = cmd.val]
          /\ mark' = [mark EXCEPT ![item] = reorgMark]
          /\ link' = Linked(link, item, HashOf(cmd.key))
      BY <1>5 DEF SetInserted
  <2>2. cmd.key \in Key /\ cmd.val \in Value \cup {NULL}
      BY <1>5 DEF SetInserted, Locals, TypeOK, Command
  <2>3. HashOf(cmd.key) \in Slots(slots)
      BY <2>2, HashInArray
  <2>4. link' \in [Cell -> Item \cup {NULL}] /\ Cell' = Cell
    <3>1. link' \in [Cell -> Item \cup {NULL}]
        BY <2>1, <2>3, LinkedType DEF TypeOK, Cell
    <3> QED BY <1>5, <3>1 DEF SetInserted, Cell
  <2>5. numberOfElms' \in 0 .. Cardinality(Item)
    <3>1. numberOfElms + 1 \in 1 .. Cardinality(Item) /\ Cardinality(Item) \in Nat
        BY <2>1, Counting
    <3> QED BY <1>5, <3>1 DEF SetInserted
  <2>6. reply' \in Reply
      BY <1>5, <2>2 DEF SetInserted, Answer, Reply, Status
  <2>7. /\ live' \subseteq Item
        /\ key' \in [Item -> Key \cup {NULL}]
        /\ val' \in [Item -> Value \cup {NULL}]
        /\ mark' \in [Item -> {0, 255}]
      BY <2>1, <2>2 DEF TypeOK
  <2> QED BY <1>5, <2>4, <2>5, <2>6, <2>7 DEF SetInserted, TypeOK
<1>6. CASE SetOutOfMemory
    BY <1>6 DEF SetOutOfMemory, Exit, TypeOK, heapVars, tableVars, localVars, Cell
<1>7. CASE DelAlready
    BY <1>7, PowerRange DEF DelAlready, Locals, Return, Answer, Reply, Status, NoCommand,
              Command, TypeOK, heapVars, tableVars, Cell
<1>8. CASE DelDeleted
  <2>1. ptr \in Cell /\ link[ptr] \in live /\ link[ptr] \in Item
      BY <1>8, AtCell DEF DelDeleted, AtKey
  <2>2. link' \in [Cell -> Item \cup {NULL}] /\ Cell' = Cell
    <3>1. Unlinked(ptr) \in [Cell -> Item \cup {NULL}]
        BY <2>1, UnlinkedType
    <3> QED BY <1>8, <2>1, <3>1 DEF DelDeleted, EraseCounted, Erase, Cell
  <2>3. numberOfElms' \in 0 .. Cardinality(Item)
    <3>1. numberOfElms \in 1 .. Cardinality(Item) /\ Cardinality(Item) \in Nat
        BY <2>1, Counting
    <3> QED BY <1>8, <3>1 DEF DelDeleted, EraseCounted
  <2>4. reply' \in Reply
      BY <1>8 DEF DelDeleted, Answer, Reply, Status, Locals
  <2>5. /\ live' \subseteq Item
        /\ key' \in [Item -> Key \cup {NULL}]
        /\ val' \in [Item -> Value \cup {NULL}]
        /\ mark' \in [Item -> {0, 255}]
      BY <1>8, <2>1 DEF DelDeleted, EraseCounted, Erase, TypeOK
  <2> QED BY <1>8, <2>2, <2>3, <2>4, <2>5 DEF DelDeleted, EraseCounted, Erase, TypeOK
<1> QED BY <1>1, <1>2, <1>3, <1>4, <1>5, <1>6, <1>7, <1>8 DEF Find

\* The steps of zap.
LEMMA TypeZap ==
    ASSUME IInv, ZapStep PROVE TypeOK'
<1> USE DEF IInv
<1>0. capacity \in Nat /\ slot \in Slots(capacity) /\ slot \in Cell
    BY PowerRange DEF TypeOK, ArrayBounds, Cell
<1>1. ASSUME NEW n, LeaveZapSlot(n)
      PROVE  /\ pc' \in {"zap", "reorg"} /\ slot' \in Slots(capacity)
             /\ lastCommandEffect' \in {"EXPAND", "SHRINK"}
    BY <1>0, <1>1 DEF LeaveZapSlot, TypeOK
<1>2. ASSUME NEW x \in live, NEW l \in [Cell -> Item \cup {NULL}], EraseCounted(x, l)
      PROVE  /\ live' \subseteq Item
             /\ key' \in [Item -> Key \cup {NULL}]
             /\ val' \in [Item -> Value \cup {NULL}]
             /\ mark' \in [Item -> {0, 255}]
             /\ slots' = slots
             /\ link' \in [Cell' -> Item \cup {NULL}]
             /\ numberOfElms' \in 0 .. Cardinality(Item)
  <2>1. numberOfElms \in 1 .. Cardinality(Item) /\ Cardinality(Item) \in Nat
      BY <1>2, Counting
  <2>2. numberOfElms' \in 0 .. Cardinality(Item)
      BY <1>2, <2>1 DEF EraseCounted
  <2> QED BY <1>2, <2>2 DEF EraseCounted, Erase, TypeOK, Cell
<1>3. CASE ZapEmptySlot
    BY <1>1, <1>3 DEF ZapEmptySlot, ZapUnchanged, TypeOK, heapVars, Cell
<1>4. CASE ZapHead
  <2>1. link[slot] \in live /\ link[slot] \in Item
      BY <1>0, <1>4 DEF ZapHead, NoDangling, ArrayBounds, TypeOK
  <2>2. [link EXCEPT ![slot] = NULL] \in [Cell -> Item \cup {NULL}]
      BY <1>0 DEF TypeOK
  <2>3. EraseCounted(link[slot], [link EXCEPT ![slot] = NULL])
      BY <1>4 DEF ZapHead
  <2>4. next' \in Item \cup {NULL}
      BY <1>4, <2>1 DEF ZapHead, TypeOK, Cell
  <2>5. /\ pc' \in {"zap", "zapTail", "reorg"} /\ slot' \in Slots(capacity)
        /\ lastCommandEffect' \in {"EXPAND", "SHRINK"}
      BY <1>0, <1>1, <1>4 DEF ZapHead, TypeOK
  <2>6. ZapUnchanged
      BY <1>4 DEF ZapHead
  <2>7. /\ live' \subseteq Item
        /\ key' \in [Item -> Key \cup {NULL}]
        /\ val' \in [Item -> Value \cup {NULL}]
        /\ mark' \in [Item -> {0, 255}]
        /\ slots' = slots
        /\ link' \in [Cell' -> Item \cup {NULL}]
        /\ numberOfElms' \in 0 .. Cardinality(Item)
      BY <1>2, <2>1, <2>2, <2>3
  <2> QED BY <2>4, <2>5, <2>6, <2>7 DEF ZapUnchanged, TypeOK, Cell
<1>5. CASE ZapTail
  <2>1. next \in live /\ next \in Item
      BY <1>5 DEF ZapTail, NoDangling, TypeOK
  <2>2. EraseCounted(next, link) /\ link \in [Cell -> Item \cup {NULL}]
      BY <1>5 DEF ZapTail, TypeOK
  <2>3. next' \in Item \cup {NULL}
      BY <1>5, <2>1 DEF ZapTail, TypeOK, Cell
  <2>4. ZapUnchanged /\ UNCHANGED <<pc, slot, lastCommandEffect>>
      BY <1>5 DEF ZapTail
  <2>5. /\ live' \subseteq Item
        /\ key' \in [Item -> Key \cup {NULL}]
        /\ val' \in [Item -> Value \cup {NULL}]
        /\ mark' \in [Item -> {0, 255}]
        /\ slots' = slots
        /\ link' \in [Cell' -> Item \cup {NULL}]
        /\ numberOfElms' \in 0 .. Cardinality(Item)
      BY <1>2, <2>1, <2>2
  <2> QED BY <2>3, <2>4, <2>5 DEF ZapUnchanged, TypeOK, Cell
<1>6. CASE ZapTailEnd
    BY <1>1, <1>6 DEF ZapTailEnd, ZapUnchanged, TypeOK, heapVars, Cell
<1> QED BY <1>3, <1>4, <1>5, <1>6 DEF ZapStep

\* The steps of a reorganisation.
LEMMA TypeReorg ==
    ASSUME IInv, ReorgStep PROVE TypeOK'
<1> USE DEF IInv
<1>0. /\ capacity \in Nat /\ 1 <= capacity /\ slots \in Nat /\ capacity <= slots
      /\ NewCapacity \in PowersOfTwo /\ NewCapacity \in Nat /\ 1 <= NewCapacity
    BY PowerRange, NewCapacityCorrect DEF TypeOK, ArrayBounds
<1>1. ASSUME NEW status \in Status PROVE ReorgReply(status) \in Reply
    BY DEF ReorgReply, Answer, Reply, TypeOK
<1>2. CASE ReorgUnchanged
  <2>1. ReorgReply("UNCHANGED") \in Reply  BY <1>1 DEF Status
  <2> QED BY <1>0, <1>2, <2>1 DEF ReorgUnchanged, Return, NoCommand, Command, TypeOK,
          heapVars, tableVars, Cell
<1>3. CASE ReorgStart
  <2>1. slots' \in Nat /\ slots <= slots' /\ slots' \in Nat \ {0}
      BY <1>0, <1>3 DEF ReorgStart, ArrayForMove, AtLeast
  <2>2. link' \in [Cell' -> Item \cup {NULL}]
      BY <1>3, <2>1 DEF ReorgStart, TypeOK, Cell
  <2>3. /\ method' \in Method
        /\ reorgMark' \in {0, 255}
        /\ hashMask' \in Nat /\ hashMask' + 1 \in PowersOfTwo
    <3>1. method' \in Method
        BY <1>3 DEF ReorgStart, NewMethod, TypeOK, Command
    <3>2. reorgMark' \in {0, 255}
        BY <1>3 DEF ReorgStart, TypeOK
    <3>3. hashMask' \in Nat /\ hashMask' + 1 = NewCapacity
        BY <1>0, <1>3 DEF ReorgStart
    <3> QED BY <1>0, <3>1, <3>2, <3>3
  <2>4. slot' \in Slots(capacity) /\ ptr' \in Cell' /\ processed' \in Nat
      BY <1>0, <1>3, <2>1 DEF ReorgStart, Cell
  <2> QED BY <1>3, <2>1, <2>2, <2>3, <2>4 DEF ReorgStart, TypeOK
<1>4. CASE ReorgOutOfMemory
    BY <1>4 DEF ReorgOutOfMemory, Exit, TypeOK, heapVars, tableVars, localVars, Cell
<1>5. CASE MoveNextSlot
    BY <1>0, <1>5 DEF MoveNextSlot, TypeOK, heapVars, tableVars, Cell
<1>6. CASE MoveMarked
    BY <1>6, AtCell DEF MoveMarked, TypeOK, heapVars, tableVars, Cell
<1>7. CASE MoveItem
  <2> DEFINE item == link[ptr]
             hash == HashOf(key[item])
  <2>1. ptr \in Cell /\ item \in live /\ item \in Item /\ item \in Cell
      BY <1>7, AtCell DEF MoveItem
  <2>2. hash \in Cell
      BY <2>1, HashInArray DEF Locals, Cell
  <2>3. link' \in [Cell -> Item \cup {NULL}]
    <3>1. Unlinked(ptr) \in [Cell -> Item \cup {NULL}]
        BY <2>1, UnlinkedType
    <3>2. Linked(Unlinked(ptr), item, hash) \in [Cell -> Item \cup {NULL}]
        BY <2>1, <2>2, <3>1, LinkedType
    <3>3. link' = IF hash = slot THEN link ELSE Linked(Unlinked(ptr), item, hash)
        BY <1>7 DEF MoveItem
    <3> QED BY <3>2, <3>3 DEF TypeOK
  <2>4. mark' \in [Item -> {0, 255}]
      BY <1>7, <2>1 DEF MoveItem, TypeOK
  <2>5. pc' \in {"move", "resize"} /\ slot' \in Slots(capacity) /\ ptr' \in Cell \cup {NULL}
      BY <1>0, <1>7, <2>1 DEF MoveItem, TypeOK
  <2>6. processed' \in Nat
      BY <1>7 DEF MoveItem, TypeOK
  <2>7. UNCHANGED <<slots, live, key, val, tableVars, next, cmd, reply>>
      BY <1>7 DEF MoveItem
  <2> QED BY <2>3, <2>4, <2>5, <2>6, <2>7 DEF TypeOK, Cell, tableVars
<1>8. CASE ReorgEnd
  <2>1. /\ hashMask \in Nat /\ hashMask + 1 \in PowersOfTwo
        /\ slots' = hashMask + 1 /\ slots' <= slots /\ slots' \in Nat \ {0}
        /\ capacity' \in PowersOfTwo
      BY <1>0, <1>8 DEF ReorgEnd, TypeOK, ArrayBounds
  <2>2. link' \in [Cell' -> Item \cup {NULL}]
      BY <1>0, <1>8, <2>1 DEF ReorgEnd, TypeOK, Cell
  <2>3. ReorgReply("REORGANIZED") \in Reply  BY <1>1 DEF Status
  <2>4. Return(ReorgReply("REORGANIZED"))
      BY <1>8 DEF ReorgEnd
  <2>5. slot' \in Slots(capacity')
      BY <2>1, <2>4, PowerRange DEF Return
  <2> QED BY <1>8, <2>1, <2>2, <2>3, <2>4, <2>5
          DEF ReorgEnd, Return, NoCommand, Command, TypeOK
<1>9. CASE ShrinkOutOfMemory
    BY <1>9 DEF ShrinkOutOfMemory, Exit, TypeOK, heapVars, tableVars, localVars, Cell
<1> QED BY <1>2, <1>3, <1>4, <1>5, <1>6, <1>7, <1>8, <1>9 DEF ReorgStep, MoveStep

LEMMA TypeStep ==
    ASSUME IInv, [Next]_vars PROVE TypeOK'
<1>1. CASE UNCHANGED vars
    BY <1>1 DEF IInv, vars, TypeOK, heapVars, tableVars, localVars, Cell
<1>2. CASE Exited
    BY <1>1, <1>2 DEF Exited
<1> QED BY <1>1, <1>2, TypeStart, TypeFind, TypeZap, TypeReorg DEF Next, RunCommand

-----------------------------------------------------------------------------
(* The array, the locals and the load                                      *)

\* Only seven actions write to the chains.
LEMMA ChainSteps ==
    ASSUME [Next]_vars
    PROVE  \/ UNCHANGED <<link, slots, live, key, numberOfElms>> /\ next' \in {next, NULL}
           \/ SetInserted \/ DelDeleted
           \/ ZapHead \/ ZapTail
           \/ ReorgStart \/ MoveItem \/ ReorgEnd
<1> DEFINE Quiet == /\ UNCHANGED <<link, slots, live, key, numberOfElms>>
                    /\ next' \in {next, NULL}
<1>1. StartCommand => Quiet
    BY DEF StartCommand, Set, Get, Del, StartFind, ZapEmpty, Zap, Reorg, SetMethod,
           SetMethodRefused, Return, Exit, heapVars, tableVars, localVars
<1>2. Find => Quiet \/ SetInserted \/ DelDeleted
    BY DEF Find, FindNext, GetProvided, GetNotFound, SetUpdated, SetOutOfMemory,
           DelAlready, Return, Exit, heapVars, tableVars, localVars
<1>3. ZapStep => Quiet \/ ZapHead \/ ZapTail
    BY DEF ZapStep, ZapEmptySlot, ZapTailEnd, heapVars
<1>4. ReorgStep => Quiet \/ ReorgStart \/ MoveItem \/ ReorgEnd
    BY DEF ReorgStep, ReorgUnchanged, ReorgOutOfMemory, MoveStep, MoveNextSlot,
           MoveMarked, ShrinkOutOfMemory, Return, Exit, heapVars, tableVars, localVars
<1>5. Exited \/ UNCHANGED vars => Quiet
    BY DEF Exited, vars, heapVars, tableVars, localVars
<1> QED BY <1>1, <1>2, <1>3, <1>4, <1>5 DEF Next, RunCommand

\* Only a reorganisation changes the size of the table, in its first and its
\* last step, and items move between these two alone.
LEMMA SizeSteps ==
    ASSUME [Next]_vars
    PROVE  \/ /\ UNCHANGED <<slots, capacity, hashMask>>
              /\ \/ pc' \notin {"move", "resize", "exited"} /\ pc \notin {"move", "resize", "exited"}
                 \/ pc' \in {"move", "resize"} /\ pc \in {"move", "resize"}
                 \/ pc' = "exited"
                 \/ pc' = pc
           \/ ReorgStart
           \/ ReorgEnd
<1> DEFINE Quiet == /\ UNCHANGED <<slots, capacity, hashMask>>
                    /\ \/ /\ pc' \notin {"move", "resize", "exited"}
                          /\ pc \notin {"move", "resize", "exited"}
                       \/ pc' \in {"move", "resize"} /\ pc \in {"move", "resize"}
                       \/ pc' = "exited"
                       \/ pc' = pc
<1>1. StartCommand => Quiet
    BY DEF StartCommand, Set, Get, Del, StartFind, ZapEmpty, Zap, Reorg, SetMethod,
           SetMethodRefused, Return, Exit, heapVars, tableVars, localVars
<1>2. Find => Quiet
    BY DEF Find, FindNext, GetProvided, GetNotFound, SetUpdated, SetInserted,
           SetOutOfMemory, DelAlready, DelDeleted, EraseCounted, Erase,
           Return, Exit, heapVars, tableVars, localVars
<1>3. ZapStep => Quiet
    BY DEF ZapStep, ZapEmptySlot, ZapHead, ZapTail, ZapTailEnd, LeaveZapSlot,
           EraseCounted, Erase, ZapUnchanged, heapVars
<1>4. ReorgStep => Quiet \/ ReorgStart \/ ReorgEnd
    BY DEF ReorgStep, ReorgUnchanged, ReorgOutOfMemory, MoveStep, MoveNextSlot,
           MoveMarked, MoveItem, ShrinkOutOfMemory, Return, Exit,
           heapVars, tableVars, localVars
<1>5. Exited \/ UNCHANGED vars => Quiet
    BY DEF Exited, vars, heapVars, tableVars
<1> QED BY <1>1, <1>2, <1>3, <1>4, <1>5 DEF Next, RunCommand

LEMMA ArrayStep ==
    ASSUME IInv, [Next]_vars PROVE ArrayBounds'
<1> USE DEF IInv
<1>0. /\ capacity \in Nat /\ slots \in Nat /\ hashMask \in Nat
      /\ NewCapacity \in Nat /\ 1 <= NewCapacity
    BY PowerRange, NewCapacityCorrect DEF TypeOK
<1>1. CASE ReorgStart
    BY <1>0, <1>1 DEF ReorgStart, ArrayForMove, AtLeast, ArrayBounds
<1>2. CASE ReorgEnd
    BY <1>0, <1>2 DEF ReorgEnd, ArrayBounds
<1>3. CASE ~ReorgStart /\ ~ReorgEnd
    BY <1>3, SizeSteps DEF ArrayBounds
<1> QED BY <1>1, <1>2, <1>3

LEMMA LoadStep ==
    ASSUME IInv, [Next]_vars PROVE Load'
<1> USE DEF IInv
<1>0. /\ capacity \in Nat /\ hashMask \in Nat /\ numberOfElms \in Nat
      /\ NewCapacity \in Nat /\ 2 * numberOfElms <= NewCapacity
      /\ NewCapacity <= capacity \/ capacity < NewCapacity
    BY PowerRange, NewCapacityCorrect, Counting DEF TypeOK
<1>1. CASE StartCommand
    BY <1>0, <1>1 DEF StartCommand, Set, Get, Del, StartFind, ZapEmpty, Zap, Reorg,
          SetMethod, SetMethodRefused, Return, Exit, tableVars, Load
<1>2. CASE Find
  <2>1. CASE DelDeleted
      BY <1>0, <2>1 DEF DelDeleted, EraseCounted, Load
  <2>2. CASE SetInserted
      BY <2>2 DEF SetInserted, Load
  <2>3. CASE ~DelDeleted /\ ~SetInserted
      BY <1>0, <1>2, <2>3 DEF Find, FindNext, GetProvided, GetNotFound, SetUpdated,
            SetOutOfMemory, DelAlready, Return, Exit, tableVars, Load
  <2> QED BY <2>1, <2>2, <2>3
<1>3. CASE ZapStep
  <2>1. /\ numberOfElms' = numberOfElms \/ numberOfElms' = numberOfElms - 1
        /\ pc' \in {"zap", "zapTail", "reorg"} /\ pc \in {"zap", "zapTail"}
        /\ capacity' = capacity
      BY <1>3 DEF ZapStep, ZapEmptySlot, ZapHead, ZapTail, ZapTailEnd, LeaveZapSlot,
            EraseCounted, ZapUnchanged
  <2> QED BY <1>0, <2>1 DEF Load
<1>4. CASE ReorgStep
  <2>1. CASE ReorgUnchanged
    <3>1. 2 * numberOfElms <= capacity
        BY <1>0, <2>1 DEF ReorgUnchanged, ReorgRefused, Load
    <3> QED BY <2>1, <3>1 DEF ReorgUnchanged, Return, tableVars, Load
  <2>2. CASE ReorgStart
      BY <1>0, <2>2 DEF ReorgStart, Load
  <2>3. CASE MoveStep
      BY <2>3 DEF MoveStep, MoveNextSlot, MoveMarked, MoveItem, tableVars, Load
  <2>4. CASE ReorgEnd
      BY <2>4 DEF ReorgEnd, Return, Load
  <2>5. CASE ReorgOutOfMemory \/ ShrinkOutOfMemory
      BY <2>5 DEF ReorgOutOfMemory, ShrinkOutOfMemory, Exit, Load
  <2> QED BY <1>4, <2>1, <2>2, <2>3, <2>4, <2>5 DEF ReorgStep
<1>5. CASE Exited \/ UNCHANGED vars
    BY <1>5 DEF Exited, vars, tableVars, Load
<1> QED BY <1>1, <1>2, <1>3, <1>4, <1>5 DEF Next, RunCommand

\* The part of Locals that the walks of find and move depend on.
LEMMA WalkStep ==
    ASSUME IInv, [Next]_vars
    PROVE  /\ pc' \in {"find", "move"} => ptr' \in Slots(slots') \cup live'
           /\ pc' = "find" => cmd'.key \in Key
           /\ pc' # "zapTail" => next' = NULL
<1> USE DEF IInv, Locals
<1> DEFINE Walk == /\ pc' \in {"find", "move"} => ptr' \in Slots(slots') \cup live'
                   /\ pc' = "find" => cmd'.key \in Key
                   /\ pc' # "zapTail" => next' = NULL
<1>1. CASE StartCommand
  <2>1. ASSUME NEW c \in Command, c.key \in Key, StartFind(c) PROVE Walk
      BY <2>1, HashInArray DEF StartFind, heapVars
  <2>2. ASSUME NEW k \in Key, NEW v \in Value, Set(k, v) PROVE Walk
      BY <2>1, <2>2 DEF Set, NoCommand, Command
  <2>3. ASSUME NEW k \in Key, Get(k) \/ Del(k) PROVE Walk
      BY <2>1, <2>3 DEF Get, Del, NoCommand, Command
  <2>4. CASE ZapEmpty \/ Zap \/ \E m \in Method, c \in RequestedCapacity : Reorg(m, c)
      BY <2>4 DEF ZapEmpty, Zap, Reorg, Return, localVars
  <2>5. CASE \E m \in Method : SetMethod(m) \/ SetMethodRefused(m)
      BY <2>5 DEF SetMethod, SetMethodRefused, Exit, localVars
  <2> QED BY <1>1, <2>2, <2>3, <2>4, <2>5 DEF StartCommand
<1>2. CASE Find
  <2>1. CASE FindNext
      BY <2>1, AtCell DEF FindNext, heapVars
  <2>2. CASE ~FindNext
      BY <1>2, <2>2 DEF Find, GetProvided, GetNotFound, SetUpdated, SetInserted,
            SetOutOfMemory, DelAlready, DelDeleted, Return, Exit, localVars
  <2> QED BY <2>1, <2>2
<1>3. CASE ZapStep
    BY <1>3 DEF ZapStep, ZapEmptySlot, ZapHead, ZapTail, ZapTailEnd, LeaveZapSlot
<1>4. CASE ReorgStep
  <2>0. /\ capacity \in Nat /\ capacity <= slots /\ slots \in Nat
        /\ 1 <= NewCapacity /\ NewCapacity \in Nat
      BY PowerRange, NewCapacityCorrect DEF TypeOK, ArrayBounds
  <2>1. CASE ReorgStart
      BY <2>0, <2>1 DEF ReorgStart, ArrayForMove, AtLeast
  <2>2. CASE MoveNextSlot
      BY <2>0, <2>2 DEF MoveNextSlot, heapVars, TypeOK
  <2>3. CASE MoveMarked
      BY <2>3, AtCell DEF MoveMarked, heapVars
  <2>4. CASE MoveItem
      BY <2>4, AtCell DEF MoveItem
  <2>5. CASE ReorgUnchanged \/ ReorgOutOfMemory \/ ReorgEnd \/ ShrinkOutOfMemory
      BY <2>5 DEF ReorgUnchanged, ReorgOutOfMemory, ReorgEnd, ShrinkOutOfMemory,
            Return, Exit, localVars
  <2> QED BY <1>4, <2>1, <2>2, <2>3, <2>4, <2>5 DEF ReorgStep, MoveStep
<1>5. CASE Exited \/ UNCHANGED vars
    BY <1>5 DEF Exited, vars, heapVars, localVars
<1> QED BY <1>1, <1>2, <1>3, <1>4, <1>5 DEF Next, RunCommand

-----------------------------------------------------------------------------
(* The chains                                                              *)

Chains ==
    /\ NoSharing
    /\ NoDangling
    /\ NoCycle
    /\ CountExact
    /\ \A x \in live : key[x] \in Key
    /\ \A x \in Item \ live : link[x] = NULL

\* No item follows itself.
LEMMA NoSelfLoop ==
    ASSUME NoCycle, NEW x \in live
    PROVE  link[x] # x
<1>1. {x} \in SUBSET live /\ {x} # {}
    OBVIOUS
<1> QED BY <1>1 DEF NoCycle

\* A new item at the head of a chain.
LEMMA InsertChains ==
    ASSUME IInv, SetInserted PROVE Chains'
<1> USE DEF IInv
<1>1. PICK x \in Item \ live :
        /\ live' = live \cup {x}
        /\ key' = [key EXCEPT ![x] = cmd.key]
        /\ link' = Linked(link, x, HashOf(cmd.key))
    BY DEF SetInserted
<1>2. cmd.key \in Key /\ HashOf(cmd.key) \in Slots(slots)
    BY HashInArray DEF SetInserted, Locals
<1>3. PICK h \in Slots(slots) : h = HashOf(cmd.key)
    BY <1>2
<1>4. h \in Cell /\ x \in Cell /\ h # x /\ NULL \notin Item
    BY <1>3, CellKinds DEF Cell
<1>5. link \in [Cell -> Item \cup {NULL}] /\ live \subseteq Item
    BY DEF TypeOK
<1>6. \A c \in Cell : link'[c] = IF c = h THEN x ELSE IF c = x THEN link[h] ELSE link[c]
    BY <1>1, <1>3, <1>4, <1>5 DEF Linked
<1>7. /\ slots' = slots /\ Cell' = Cell /\ next' = NULL /\ next = NULL
    BY DEF SetInserted, Cell, Locals
<1>8. /\ link[h] \in live \cup {NULL}
      /\ \A c \in Cell : link[c] \in live \cup {NULL}
    BY <1>3, <1>4 DEF NoDangling, Locals, Cell
<1>9. NoSharing'
    BY <1>4, <1>5, <1>6, <1>7, <1>8 DEF NoSharing
<1>10. NoDangling'
  <2>1. \A c \in Slots(slots) \cup live' : c \in Cell /\ link'[c] \in live' \cup {NULL}
      BY <1>1, <1>4, <1>5, <1>6, <1>8 DEF Cell
  <2> QED BY <1>7, <2>1 DEF NoDangling
<1>11. NoCycle'
  <2> SUFFICES ASSUME NEW S \in SUBSET live', S # {}
               PROVE  \E y \in S : link'[y] \notin S
      BY DEF NoCycle
  <2>1. CASE S \ {x} = {}
    <3>1. S = {x}
        BY <2>1
    <3>2. link'[x] = link[h] /\ link[h] # x
        BY <1>4, <1>6, <1>8
    <3> QED BY <3>1, <3>2
  <2>2. CASE S \ {x} # {}
    <3>1. PICK y \in S \ {x} : link[y] \notin S \ {x}
        BY <1>1, <2>2 DEF NoCycle
    <3>2. y \in live /\ y \in Cell /\ y # h /\ link[y] # x
        BY <1>1, <1>3, <1>4, <1>5, <1>8, CellKinds DEF Cell
    <3> QED BY <1>6, <3>1, <3>2
  <2> QED BY <2>1, <2>2
<1>12. CountExact'
    BY <1>1, Counting DEF SetInserted, CountExact
<1>13. \A y \in live' : key'[y] \in Key
    BY <1>1, <1>2, <1>5 DEF Locals, TypeOK
<1>14. \A y \in Item \ live' : link'[y] = NULL
    BY <1>1, <1>3, <1>6, CellKinds DEF Locals, Cell
<1> QED BY <1>9, <1>10, <1>11, <1>12, <1>13, <1>14 DEF Chains

\* An item is taken out of a chain and deleted.
LEMMA DeleteChains ==
    ASSUME IInv, DelDeleted PROVE Chains'
<1> USE DEF IInv
<1>1. PICK x \in live : x = link[ptr] /\ x \in Item /\ x \in Cell /\ ptr \in Cell
    BY AtCell DEF DelDeleted, AtKey
<1>2. link \in [Cell -> Item \cup {NULL}] /\ live \subseteq Item /\ key \in [Item -> Key \cup {NULL}]
    BY DEF TypeOK
<1>3. /\ live' = live \ {x}
      /\ key' = [key EXCEPT ![x] = NULL]
      /\ link' = [Unlinked(ptr) EXCEPT ![x] = NULL]
      /\ numberOfElms' = numberOfElms - 1
      /\ slots' = slots /\ Cell' = Cell /\ next' = NULL /\ next = NULL
    BY <1>1 DEF DelDeleted, EraseCounted, Erase, Cell, Locals
<1>4. \A c \in Cell : link'[c] = IF c = x THEN NULL ELSE IF c = ptr THEN link[x] ELSE link[c]
    BY <1>1, <1>2, <1>3 DEF Unlinked
<1>5. /\ NULL \notin Item
      /\ link[x] # x
      /\ \A c \in Cell : link[c] = x => c = ptr
      /\ \A c \in Cell : link[c] \in live \cup {NULL}
    BY <1>1, CellKinds, NoSelfLoop DEF NoSharing, NoDangling, Locals, Cell
<1>6. ptr \in Slots(slots) \cup live /\ x # ptr
    BY <1>1, <1>5 DEF DelDeleted, Locals
<1>7. NoSharing'
    BY <1>1, <1>2, <1>3, <1>4, <1>5 DEF NoSharing
<1>8. NoDangling'
  <2>1. \A c \in Slots(slots) \cup live' : c \in Cell /\ link'[c] \in live' \cup {NULL}
      BY <1>1, <1>2, <1>3, <1>4, <1>5 DEF Cell
  <2> QED BY <1>3, <2>1 DEF NoDangling
<1>9. NoCycle'
  <2> SUFFICES ASSUME NEW S \in SUBSET live', S # {}
               PROVE  \E y \in S : link'[y] \notin S
      BY DEF NoCycle
  <2>1. S \subseteq live /\ x \notin S /\ S \subseteq Cell
      BY <1>2, <1>3 DEF Cell
  <2>2. CASE ptr \notin S
      BY <1>4, <2>1, <2>2 DEF NoCycle
  <2>3. CASE ptr \in S
    <3>1. PICK y \in S \cup {x} : link[y] \notin S \cup {x}
        BY <1>1, <2>1 DEF NoCycle
    <3>2. y # ptr
        BY <1>1, <3>1
    <3>3. CASE y = x
        BY <1>4, <1>6, <2>1, <2>3, <3>1, <3>3
    <3>4. CASE y # x
        BY <1>4, <2>1, <3>1, <3>2, <3>4
    <3> QED BY <3>3, <3>4
  <2> QED BY <2>2, <2>3
<1>10. CountExact'
    BY <1>1, <1>3, Counting DEF CountExact
<1>11. \A y \in live' : key'[y] \in Key
    BY <1>2, <1>3 DEF Locals
<1>12. \A y \in Item \ live' : link'[y] = NULL
    BY <1>1, <1>3, <1>4, <1>6, CellKinds DEF Locals, Cell
<1> QED BY <1>7, <1>8, <1>9, <1>10, <1>11, <1>12 DEF Chains

\* An item whose cell has been emptied is deleted: the head of a slot, or the
\* item that hangs on the local next alone.
LEMMA ZapChains ==
    ASSUME IInv,
           NEW x \in live,
           NEW l \in [Cell -> Item \cup {NULL}],
           EraseCounted(x, l),
           \A c \in Cell : l[c] = IF link[c] = x THEN NULL ELSE link[c],
           next' \in {NULL, link[x]}
    PROVE  Chains'
<1> USE DEF IInv
<1>1. /\ live' = live \ {x}
      /\ key' = [key EXCEPT ![x] = NULL]
      /\ link' = [l EXCEPT ![x] = NULL]
      /\ numberOfElms' = numberOfElms - 1
      /\ slots' = slots /\ Cell' = Cell
    BY DEF EraseCounted, Erase, Cell
<1>2. /\ live \subseteq Item /\ x \in Item /\ x \in Cell
      /\ key \in [Item -> Key \cup {NULL}]
      /\ NULL \notin Item
    BY CellKinds DEF TypeOK, Cell
<1>3. \A c \in Cell : link'[c] = IF c = x \/ link[c] = x THEN NULL ELSE link[c]
    BY <1>1, <1>2
<1>4. /\ link[x] # x
      /\ \A c \in Cell : link[c] \in live \cup {NULL}
    BY NoSelfLoop DEF NoDangling, Locals, Cell
<1>5. NoSharing'
    BY <1>1, <1>2, <1>3, <1>4 DEF NoSharing
<1>6. NoDangling'
  <2>1. \A c \in Slots(slots) \cup live' : c \in Cell /\ link'[c] \in live' \cup {NULL}
      BY <1>1, <1>2, <1>3, <1>4 DEF Cell
  <2>2. next' \in live' \cup {NULL}
      BY <1>1, <1>2, <1>4
  <2> QED BY <1>1, <2>1, <2>2 DEF NoDangling
<1>7. NoCycle'
  <2> SUFFICES ASSUME NEW S \in SUBSET live', S # {}
               PROVE  \E y \in S : link'[y] \notin S
      BY DEF NoCycle
  <2>1. S \subseteq live /\ x \notin S /\ S \subseteq Cell /\ NULL \notin S
      BY <1>1, <1>2 DEF Cell
  <2>2. PICK y \in S : link[y] \notin S
      BY <2>1 DEF NoCycle
  <2> QED BY <1>3, <2>1, <2>2
<1>8. CountExact'
    BY <1>1, Counting DEF CountExact
<1>9. \A y \in live' : key'[y] \in Key
    BY <1>1, <1>2 DEF Locals
<1>10. \A y \in Item \ live' : link'[y] = NULL
    BY <1>1, <1>2, <1>3 DEF Locals, Cell
<1> QED BY <1>5, <1>6, <1>7, <1>8, <1>9, <1>10 DEF Chains

LEMMA ZapHeadChains ==
    ASSUME IInv, ZapHead PROVE Chains'
<1> USE DEF IInv
<1>1. slot \in Slots(slots) /\ slot \in Cell
    BY PowerRange DEF TypeOK, ArrayBounds, Cell
<1>2. link[slot] \in live
    BY <1>1 DEF ZapHead, NoDangling
<1> DEFINE l == [link EXCEPT ![slot] = NULL]
<1>3. l \in [Cell -> Item \cup {NULL}]
    BY <1>1 DEF TypeOK
<1>4. \A c \in Cell : l[c] = IF link[c] = link[slot] THEN NULL ELSE link[c]
    BY <1>1 DEF NoSharing, TypeOK
<1>5. EraseCounted(link[slot], l) /\ next' \in {NULL, link[link[slot]]}
    BY DEF ZapHead
<1> HIDE DEF l
<1> QED BY <1>2, <1>3, <1>4, <1>5, ZapChains

LEMMA ZapTailChains ==
    ASSUME IInv, ZapTail PROVE Chains'
<1> USE DEF IInv
<1>1. next \in live
    BY DEF ZapTail, NoDangling
<1>2. \A c \in Cell : link[c] = IF link[c] = next THEN NULL ELSE link[c]
    BY DEF ZapTail, NoSharing
<1>3. EraseCounted(next, link) /\ next' = link[next] /\ link \in [Cell -> Item \cup {NULL}]
    BY DEF ZapTail, TypeOK
<1> QED BY <1>1, <1>2, <1>3, ZapChains

\* The links after an item has been moved to another slot, cell by cell.
LEMMA MoveLinks ==
    ASSUME IInv, MoveItem, link' # link
    PROVE  \E x \in live, h \in Slots(slots) :
             /\ link[ptr] = x /\ ptr \in Cell /\ x \in Cell /\ h \in Cell
             /\ x # h /\ x # ptr
             /\ \A c \in Cell :
                  link'[c] = IF c = h THEN x
                             ELSE IF c = x THEN (IF h = ptr THEN link[x] ELSE link[h])
                             ELSE IF c = ptr THEN link[x]
                             ELSE link[c]
<1> USE DEF IInv
<1>1. PICK x \in live : link[ptr] = x /\ x \in Item /\ x \in Cell /\ ptr \in Cell
    BY AtCell DEF MoveItem
<1>2. PICK h \in Slots(slots) : h = HashOf(key[x])
    BY <1>1, HashInArray DEF Locals
<1>3. h \in Cell /\ x # h /\ x # ptr
    BY <1>1, <1>2, CellKinds, NoSelfLoop DEF Cell
<1>4. link' = Linked(Unlinked(ptr), x, h)
    BY <1>1, <1>2 DEF MoveItem
<1>5. link \in [Cell -> Item \cup {NULL}]
    BY DEF TypeOK
<1>6. \A c \in Cell : Unlinked(ptr)[c] = IF c = ptr THEN link[x] ELSE link[c]
    BY <1>1, <1>5 DEF Unlinked
<1>7. Unlinked(ptr) \in [Cell -> Item \cup {NULL}]
    BY <1>1, UnlinkedType
<1>8. \A c \in Cell : link'[c] = IF c = h THEN x
                                   ELSE IF c = x THEN Unlinked(ptr)[h]
                                   ELSE Unlinked(ptr)[c]
    BY <1>1, <1>3, <1>4, <1>7 DEF Linked
<1> QED BY <1>1, <1>2, <1>3, <1>6, <1>8

LEMMA MoveItemChains ==
    ASSUME IInv, MoveItem PROVE Chains'
<1> USE DEF IInv
<1>0. UNCHANGED <<slots, live, key, next, numberOfElms>> /\ Cell' = Cell /\ next = NULL
    BY DEF MoveItem, tableVars, Cell, Locals
<1>1. CASE link' = link
    BY <1>0, <1>1 DEF Chains, NoSharing, NoDangling, NoCycle, CountExact, Locals
<1>2. CASE link' # link
  <2>1. PICK x \in live, h \in Slots(slots) :
             /\ link[ptr] = x /\ ptr \in Cell /\ x \in Cell /\ h \in Cell
             /\ x # h /\ x # ptr
             /\ \A c \in Cell :
                  link'[c] = IF c = h THEN x
                             ELSE IF c = x THEN (IF h = ptr THEN link[x] ELSE link[h])
                             ELSE IF c = ptr THEN link[x]
                             ELSE link[c]
      BY <1>2, MoveLinks
  <2>2. /\ live \subseteq Item /\ NULL \notin Item
        /\ link[x] # x
        /\ \A c \in Cell : link[c] = x => c = ptr
        /\ \A c \in Cell : link[c] \in live \cup {NULL}
      BY <2>1, CellKinds, NoSelfLoop DEF TypeOK, NoSharing, NoDangling, Locals, Cell
  <2>3. NoSharing'
      BY <1>0, <2>1, <2>2 DEF NoSharing
  <2>4. NoDangling'
    <3>1. \A c \in Slots(slots) \cup live : c \in Cell /\ link'[c] \in live \cup {NULL}
        BY <2>1, <2>2 DEF Cell
    <3> QED BY <1>0, <3>1 DEF NoDangling
  <2>5. NoCycle'
    <3> SUFFICES ASSUME NEW S \in SUBSET live, S # {}
                 PROVE  \E y \in S : link'[y] \notin S
        BY <1>0 DEF NoCycle
    <3>1. S \subseteq Cell /\ h \notin S /\ NULL \notin S
        BY <2>2, CellKinds DEF Cell
    <3>2. CASE S = {x}
        BY <2>1, <2>2, <3>2
    <3>3. CASE S # {x}
      <4> DEFINE T == S \ {x}
      <4>1. T # {} /\ T \subseteq live /\ T \cup {x} \subseteq live
          BY <3>3
      \* A set without x has a way out after x has been taken out of its chain.
      <4>2. \E y \in T : (IF y = ptr THEN link[x] ELSE link[y]) \notin T
        <5>1. CASE ptr \notin T
          <6>1. PICK y \in T : link[y] \notin T
              BY <4>1 DEF NoCycle
          <6> QED BY <5>1, <6>1
        <5>2. CASE ptr \in T
          <6>1. PICK y \in T \cup {x} : link[y] \notin T \cup {x}
              BY <4>1 DEF NoCycle
          <6>2. y # ptr
              BY <2>1, <6>1
          <6>3. CASE y = x
              BY <5>2, <6>1, <6>3
          <6>4. CASE y # x
              BY <6>1, <6>2, <6>4
          <6> QED BY <6>3, <6>4
        <5> QED BY <5>1, <5>2
      <4>3. PICK y \in T : (IF y = ptr THEN link[x] ELSE link[y]) \notin T
          BY <4>2
      <4>4. y \in Cell /\ y # x /\ y # h
          BY <3>1
      <4>5. link'[y] = IF y = ptr THEN link[x] ELSE link[y]
          BY <2>1, <4>4
      <4>6. link'[y] # x
          BY <2>1, <2>2, <4>4, <4>5
      <4> QED BY <4>3, <4>5, <4>6
    <3> QED BY <3>2, <3>3
  <2>6. \A y \in Item \ live : link'[y] = NULL
    <3>1. \A y \in Item \ live : y \in Cell /\ y # h /\ y # x /\ y # ptr
        BY <2>1, CellKinds DEF Cell, Locals, MoveItem
    <3> QED BY <2>1, <3>1 DEF Locals
  <2> QED BY <1>0, <2>3, <2>4, <2>5, <2>6 DEF Chains, CountExact, Locals
<1> QED BY <1>1, <1>2

\* The slots of a shorter array are slots of a longer one.
LEMMA SlotsNested ==
    ASSUME NEW m \in Nat, NEW n \in Nat, m <= n
    PROVE  Slots(m) \subseteq Slots(n) /\ Slots(n) \subseteq Int
BY DEF Slots

\* A larger array has empty slots at its end.
LEMMA ReorgStartChains ==
    ASSUME IInv, ReorgStart PROVE Chains'
<1> USE DEF IInv
<1>1. /\ UNCHANGED <<live, key, next, numberOfElms>> /\ next = NULL
      /\ slots' \in Nat /\ slots \in Nat /\ slots <= slots'
    BY PowerRange, NewCapacityCorrect
       DEF ReorgStart, ArrayForMove, AtLeast, Locals, TypeOK
<1>2. /\ Cell \subseteq Cell'
      /\ \A c \in Cell' : link'[c] = IF c \in Cell THEN link[c] ELSE NULL
    BY <1>1 DEF ReorgStart, Cell
<1>3. NoSharing'
    BY <1>1, <1>2, CellKinds DEF NoSharing
<1>4. NoDangling'
  <2> SUFFICES ASSUME NEW c \in Slots(slots') \cup live
               PROVE  link'[c] \in live \cup {NULL}
      BY <1>1 DEF NoDangling
  <2>1. live \subseteq Item
      BY DEF TypeOK
  <2>2. c \in Cell'
      BY <2>1 DEF Cell
  <2>3. CASE c \in Slots(slots) \cup live
      BY <1>2, <2>1, <2>2, <2>3 DEF NoDangling, Cell
  <2>4. CASE c \notin Slots(slots) \cup live
    <3>1. live' = live /\ c \in Slots(slots') /\ c \notin live
        BY <1>1, <2>3, <2>4
    <3>0. c \in Int
        BY <1>1, <3>1, SlotsNested
    <3>2. c \notin Cell
        BY <2>4, <3>0, AddressAssumption DEF Cell
    <3> QED BY <1>2, <2>2, <3>2
  <2> QED BY <2>3, <2>4
<1>5. \A x \in Item : link'[x] = link[x]
    BY <1>2 DEF Cell
<1>6. NoCycle'
  <2> SUFFICES ASSUME NEW S \in SUBSET live, S # {}
               PROVE  \E y \in S : link'[y] \notin S
      BY <1>1 DEF NoCycle
  <2>1. PICK y \in S : link[y] \notin S
      BY DEF NoCycle
  <2> QED BY <1>5, <2>1 DEF TypeOK
<1> QED BY <1>1, <1>3, <1>4, <1>5, <1>6 DEF Chains, CountExact, Locals

\* A smaller array is a part of the old one.
LEMMA ReorgEndChains ==
    ASSUME IInv, ReorgEnd PROVE Chains'
<1> USE DEF IInv
<1>1. /\ UNCHANGED <<live, key, numberOfElms>> /\ next' = NULL /\ next = NULL
      /\ slots' \in Nat /\ slots \in Nat /\ slots' <= slots
    BY DEF ReorgEnd, Return, Locals, TypeOK, ArrayBounds
<1>2. /\ Cell' \subseteq Cell
      /\ \A c \in Cell' : link'[c] = link[c]
    BY <1>1 DEF ReorgEnd, Cell
<1>3. NoSharing'
    BY <1>1, <1>2 DEF NoSharing
<1>4. NoDangling'
  <2> SUFFICES ASSUME NEW c \in Slots(slots') \cup live
               PROVE  link'[c] \in live \cup {NULL}
      BY <1>1 DEF NoDangling
  <2>1. live \subseteq Item
      BY DEF TypeOK
  <2>2. c \in Cell'
      BY <2>1 DEF Cell
  <2>3. c \in Slots(slots) \cup live
      BY <1>1, SlotsNested
  <2> QED BY <1>2, <2>2, <2>3 DEF NoDangling
<1>5. \A x \in Item : link'[x] = link[x]
    BY <1>2 DEF Cell
<1>6. NoCycle'
  <2> SUFFICES ASSUME NEW S \in SUBSET live, S # {}
               PROVE  \E y \in S : link'[y] \notin S
      BY <1>1 DEF NoCycle
  <2>1. PICK y \in S : link[y] \notin S
      BY DEF NoCycle
  <2> QED BY <1>5, <2>1 DEF TypeOK
<1> QED BY <1>1, <1>3, <1>4, <1>5, <1>6 DEF Chains, CountExact, Locals

LEMMA ChainsStep ==
    ASSUME IInv, [Next]_vars PROVE Chains'
<1>1. CASE UNCHANGED <<link, slots, live, key, numberOfElms>> /\ next' \in {next, NULL}
  <2>1. Cell' = Cell
      BY <1>1 DEF Cell
  <2> QED BY <1>1, <2>1, CellKinds
          DEF IInv, Chains, NoSharing, NoDangling, NoCycle, CountExact, Locals, TypeOK
<1> QED BY <1>1, ChainSteps, InsertChains, DeleteChains, ZapHeadChains, ZapTailChains,
          ReorgStartChains, MoveItemChains, ReorgEndChains

-----------------------------------------------------------------------------
(* The theorems                                                            *)

LEMMA InitInvariant == Init => IInv
<1> SUFFICES ASSUME Init PROVE IInv
    OBVIOUS
<1>1. TypeOK /\ ArrayBounds
    BY TypeInit
<1>2. \A c \in Cell : link[c] = NULL
    BY DEF Init, Cell
<1>3. NoSharing /\ NoDangling /\ NoCycle /\ CountExact
    BY <1>2, FS_EmptySet DEF Init, NoSharing, NoDangling, NoCycle, CountExact, Cell
<1>4. Locals
    BY <1>2 DEF Init, Locals, Cell
<1>5. Load
    BY <1>1, PowerRange DEF Init, Load, TypeOK
<1> QED BY <1>1, <1>3, <1>4, <1>5 DEF IInv

LEMMA StepInvariant == IInv /\ [Next]_vars => IInv'
<1> SUFFICES ASSUME IInv, [Next]_vars PROVE IInv'
    OBVIOUS
<1>1. Locals'
    BY WalkStep, ChainsStep DEF Chains, Locals
<1> QED BY <1>1, TypeStep, ArrayStep, LoadStep, ChainsStep DEF IInv, Chains

THEOREM Invariance == Spec => []IInv
BY InitInvariant, StepInvariant, PTL DEF Spec

\* The types of all variables, for every instance of the constants.
THEOREM TypeCorrect == Spec => []TypeOK
<1>1. IInv => TypeOK  BY DEF IInv
<1> QED BY <1>1, Invariance, PTL

\* The chains are disjoint, also while items move and while zap deletes them:
\* no item is ever freed twice.
THEOREM NothingShared == Spec => []NoSharing
<1>1. IInv => NoSharing  BY DEF IInv
<1> QED BY <1>1, Invariance, PTL

\* The chains lead nowhere but to allocated items: none is used after it was
\* freed.
THEOREM NothingDangles == Spec => []NoDangling
<1>1. IInv => NoDangling  BY DEF IInv
<1> QED BY <1>1, Invariance, PTL

\* The chains end: no walk over a chain that stands still runs for ever.
THEOREM ChainsEnd == Spec => []NoCycle
<1>1. IInv => NoCycle  BY DEF IInv
<1> QED BY <1>1, Invariance, PTL

\* The counter of items is exact at every step of every command.
THEOREM CountCorrect == Spec => []CountExact
<1>1. IInv => CountExact  BY DEF IInv
<1> QED BY <1>1, Invariance, PTL

\* Between commands the table is at most half full.
THEOREM LoadBounded == Spec => []LoadBound
<1>1. IInv => LoadBound  BY DEF IInv, Load, LoadBound
<1> QED BY <1>1, Invariance, PTL

\* Every slot that a hash selects lies in the array.
THEOREM ArrayInBounds == Spec => []ArrayBounds
<1>1. IInv => ArrayBounds  BY DEF IInv
<1> QED BY <1>1, Invariance, PTL

\* No step of moveItems takes an item out of the chains or brings one in.
THEOREM MovesConserve == Spec => MoveConserves
<1>1. ASSUME IInv, MoveStep PROVE Hanging' = Hanging
  <2>1. CASE link' = link /\ slots' = slots
      BY <2>1 DEF Hanging, Cell
  <2>2. CASE MoveItem /\ link' # link
    <3>1. PICK x \in live, h \in Slots(slots) :
             /\ link[ptr] = x /\ ptr \in Cell /\ x \in Cell /\ h \in Cell
             /\ x # h /\ x # ptr
             /\ \A c \in Cell :
                  link'[c] = IF c = h THEN x
                             ELSE IF c = x THEN (IF h = ptr THEN link[x] ELSE link[h])
                             ELSE IF c = ptr THEN link[x]
                             ELSE link[c]
        BY <1>1, <2>2, MoveLinks
    <3>2. Cell' = Cell
        BY <2>2 DEF MoveItem, Cell
    <3>3. ASSUME NEW c \in Cell PROVE \E d \in Cell : link'[d] = link[c]
      <4>1. CASE c = ptr
          BY <3>1, <4>1
      <4>2. CASE c # ptr /\ c = x
          BY <3>1, <4>2
      <4>3. CASE c # ptr /\ c = h
          BY <3>1, <4>3
      <4>4. CASE c # ptr /\ c # x /\ c # h
          BY <3>1, <4>4
      <4> QED BY <4>1, <4>2, <4>3, <4>4
    <3>4. ASSUME NEW c \in Cell PROVE \E d \in Cell : link[d] = link'[c]
        BY <3>1
    <3>5. \A y : y \in Hanging' <=> y # NULL /\ \E c \in Cell : y = link'[c]
        BY <3>2 DEF Hanging
    <3>6. \A y : y \in Hanging <=> y # NULL /\ \E c \in Cell : y = link[c]
        BY DEF Hanging
    <3>7. \A y : (\E c \in Cell : y = link'[c]) <=> (\E c \in Cell : y = link[c])
        BY ONLY <3>3, <3>4
    <3>8. \A y : y \in Hanging' <=> y \in Hanging
        BY ONLY <3>5, <3>6, <3>7
    <3>9. Hanging' \subseteq Hanging /\ Hanging \subseteq Hanging'
        BY ONLY <3>8
    <3> QED BY ONLY <3>9
  <2>3. CASE MoveNextSlot \/ MoveMarked
      BY <2>1, <2>3 DEF MoveNextSlot, MoveMarked, heapVars
  <2>4. CASE MoveItem
    <3>1. slots' = slots
        BY <2>4 DEF MoveItem
    <3>2. CASE link' = link
        BY <2>1, <3>1, <3>2
    <3>3. CASE link' # link
        BY <2>2, <2>4, <3>3
    <3> QED BY <3>2, <3>3
  <2> QED BY <1>1, <2>3, <2>4 DEF MoveStep
<1>2. IInv => [MoveStep => Hanging' = Hanging]_vars
    BY <1>1
<1> QED BY <1>2, Invariance, PTL DEF MoveConserves

-----------------------------------------------------------------------------
(* The direction in which a command may resize the table                   *)

\* The last effect is that of the running command when performReorg compares
\* the sizes, and only reorg asks for a method: without one, equal sizes are
\* refused as well.
Direction ==
    /\ pc \in {"zap", "zapTail"} => cmd.op = "zap"
    /\ cmd.op # "reorg" => cmd.method = NULL
    /\ pc = "reorg" =>
         /\ cmd.op = "set" => lastCommandEffect = "EXPAND"
         /\ cmd.op \in {"del", "zap"} => lastCommandEffect = "SHRINK"
    /\ pc \in {"move", "resize"} =>
         /\ cmd.op = "set" => hashMask + 1 > capacity
         /\ cmd.op \in {"del", "zap"} => hashMask + 1 < capacity

LEMMA DirectionStep ==
    ASSUME IInv, Direction, [Next]_vars PROVE Direction'
<1>1. ASSUME NEW c, StartFind(c), c.op # "reorg" => c.method = NULL PROVE Direction'
    BY <1>1 DEF Direction, StartFind
<1>2. ASSUME NEW k, NEW v, Set(k, v) \/ Get(k) \/ Del(k) PROVE Direction'
  <2>1. /\ [NoCommand EXCEPT !.op = "set", !.key = k, !.val = v].method = NULL
        /\ [NoCommand EXCEPT !.op = "get", !.key = k].method = NULL
        /\ [NoCommand EXCEPT !.op = "del", !.key = k].method = NULL
      BY DEF NoCommand
  <2> QED BY <1>1, <1>2, <2>1 DEF Set, Get, Del
<1>3. CASE Zap
    BY <1>3 DEF Direction, Zap, NoCommand
<1>4. ASSUME NEW m, NEW c, Reorg(m, c) PROVE Direction'
    BY <1>4 DEF Direction, Reorg, NoCommand
<1>5. ASSUME NEW r, Return(r) PROVE Direction'
    BY <1>5 DEF Direction, Return, NoCommand
<1>6. CASE ZapEmpty \/ GetProvided \/ GetNotFound \/ SetUpdated \/ DelAlready
           \/ ReorgUnchanged \/ ReorgEnd
    BY <1>5, <1>6 DEF ZapEmpty, GetProvided, GetNotFound, SetUpdated, DelAlready,
                      ReorgUnchanged, ReorgEnd
<1>7. CASE SetInserted \/ DelDeleted
    BY <1>7 DEF Direction, SetInserted, DelDeleted
<1>8. CASE FindNext
    BY <1>8 DEF Direction, FindNext, tableVars
<1>9. CASE ZapStep
  <2>1. cmd' = cmd /\ cmd.op = "zap"
      BY <1>9 DEF Direction, ZapStep, ZapEmptySlot, ZapHead, ZapTail, ZapTailEnd, ZapUnchanged
  <2>2. /\ pc' \in {"zap", "zapTail", "reorg"}
        /\ pc' = "reorg" => lastCommandEffect' = "SHRINK"
      BY <1>9 DEF ZapStep, ZapEmptySlot, ZapHead, ZapTail, ZapTailEnd, LeaveZapSlot
  <2> QED BY <2>1, <2>2 DEF Direction
<1>10. CASE ReorgStart
  <2>1. /\ cmd' = cmd /\ capacity' = capacity /\ pc' = "move"
        /\ hashMask' + 1 = NewCapacity /\ pc = "reorg" /\ ~ReorgRefused
        /\ capacity \in Int /\ NewCapacity \in Int
    <3>1. NewCapacity \in Int /\ capacity \in Int
        BY NewCapacityCorrect, PowerRange DEF IInv, TypeOK
    <3> QED BY <1>10, <3>1 DEF ReorgStart
  <2>2. cmd.op \in {"set", "del", "zap"} => NewCapacity # capacity
      BY <2>1 DEF Direction, ReorgRefused, NewMethod
  <2>3. /\ lastCommandEffect = "SHRINK" => NewCapacity <= capacity
        /\ lastCommandEffect # "SHRINK" => NewCapacity >= capacity
      BY <2>1 DEF ReorgRefused
  <2> QED BY <2>1, <2>2, <2>3 DEF Direction
<1>11. CASE MoveStep
    BY <1>11 DEF Direction, MoveStep, MoveNextSlot, MoveMarked, MoveItem, tableVars
<1>12. CASE Exit
    BY <1>12 DEF Direction, Exit
<1>13. ASSUME NEW m, SetMethod(m) PROVE Direction'
    BY <1>13 DEF Direction, SetMethod
<1>14. CASE UNCHANGED vars
    BY <1>14 DEF Direction, vars, tableVars
<1>15. CASE StartCommand
    BY <1>2, <1>3, <1>4, <1>6, <1>12, <1>13, <1>15 DEF StartCommand, SetMethodRefused
<1>16. CASE RunCommand
    BY <1>6, <1>7, <1>8, <1>9, <1>10, <1>11, <1>12, <1>16
    DEF RunCommand, Find, ReorgStep, SetOutOfMemory, ReorgOutOfMemory, ShrinkOutOfMemory
<1> QED BY <1>14, <1>15, <1>16 DEF Next, Exited

\* set never shrinks the table, del and zap never let it grow, for every hash
\* and all limits, and whatever reorg has requested before.
THEOREM ResizesOneWay == Spec => ResizeDirection
<1>1. Init => Direction
    BY DEF Init, Direction, NoCommand
<1>2. ASSUME IInv, Direction, [Next]_vars, capacity' # capacity
      PROVE  /\ cmd.op = "set" => capacity' > capacity
             /\ cmd.op \in {"del", "zap"} => capacity' < capacity
  <2>1. CASE ReorgEnd
      BY <1>2, <2>1 DEF Direction, ReorgEnd
  <2>2. CASE ~ReorgEnd
    <3>1. ~StartCommand
        BY <1>2 DEF StartCommand, Set, Get, Del, StartFind, ZapEmpty, Zap, Reorg, SetMethod,
                    SetMethodRefused, Exit, tableVars
    <3>2. ~Find
        BY <1>2 DEF Find, FindNext, GetProvided, GetNotFound, SetUpdated, SetInserted,
                    SetOutOfMemory, DelAlready, DelDeleted, Exit, tableVars
    <3>3. ~ZapStep
        BY <1>2 DEF ZapStep, ZapEmptySlot, ZapHead, ZapTail, ZapTailEnd, ZapUnchanged
    <3>4. ~MoveStep /\ ~ReorgStart /\ ~ReorgUnchanged /\ ~ReorgOutOfMemory /\ ~ShrinkOutOfMemory
        BY <1>2 DEF MoveStep, MoveNextSlot, MoveMarked, MoveItem, ReorgStart, ReorgUnchanged,
                    ReorgOutOfMemory, ShrinkOutOfMemory, Exit, tableVars
    <3>5. ~UNCHANGED vars
        BY <1>2 DEF vars, tableVars
    <3> QED BY <1>2, <2>2, <3>1, <3>2, <3>3, <3>4, <3>5
            DEF Next, RunCommand, ReorgStep, Exited
  <2> QED BY <2>1, <2>2
<1>3. IInv /\ Direction /\ [Next]_vars =>
        [capacity' # capacity =>
           /\ cmd.op = "set" => capacity' > capacity
           /\ cmd.op \in {"del", "zap"} => capacity' < capacity]_vars
    BY <1>2
<1>4. IInv /\ Direction /\ [Next]_vars => Direction'
    BY DirectionStep
<1> QED BY <1>1, <1>3, <1>4, Invariance, PTL DEF Spec, ResizeDirection
=============================================================================
