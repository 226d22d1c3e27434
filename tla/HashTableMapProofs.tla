------------------------- MODULE HashTableMapProofs -------------------------
(***************************************************************************)
(* The hash table is a map until a reorganisation goes astray: whatever    *)
(* the keys, their hashes and the methods are, there is no other step that *)
(* leaves an item where it is not found, behind a stale mark, or next to   *)
(* a twin.                                                                 *)
(***************************************************************************)
EXTENDS HashTableMap, HashTableProofs

-----------------------------------------------------------------------------
(* Chains, over any links L of S slots and the items V                     *)

CellOf(S) == Slots(S) \cup Item

ChainOf(L, D) ==
    LET chain[c \in D] ==
          IF L[c] = NULL THEN {} ELSE {L[c]} \cup chain[L[c]]
    IN  chain

LEMMA ChainIsChainOf ==
    Chain = ChainOf(link, CellOf(slots)) /\ Chain' = ChainOf(link', CellOf(slots'))
BY DEF Chain, ChainOf, Cell, CellOf

\* What HashTableProofs shows of the memory.
Sound(L, S, V) ==
    /\ S \in Nat /\ V \subseteq Item
    /\ L \in [CellOf(S) -> Item \cup {NULL}]
    /\ \A c, d \in CellOf(S) : L[c] = L[d] /\ L[c] # NULL => c = d
    /\ \A c \in Slots(S) \cup V : L[c] \in V \cup {NULL}
    /\ \A T \in SUBSET V : T # {} => \E x \in T : L[x] \notin T

LEMMA IInvSound ==
    /\ IInv => Sound(link, slots, live)
    /\ IInv' => Sound(link', slots', live')
BY DEF IInv, TypeOK, NoSharing, NoDangling, NoCycle, Sound, CellOf, Cell

\* The equation that defines the items of a chain has a solution, the smallest
\* sets that are closed under the links.
LEMMA ChainLaw ==
    ASSUME NEW S, NEW L \in [CellOf(S) -> Item \cup {NULL}]
    PROVE  \A c \in CellOf(S) :
             ChainOf(L, CellOf(S))[c] =
               IF L[c] = NULL THEN {} ELSE {L[c]} \cup ChainOf(L, CellOf(S))[L[c]]
<1> DEFINE D == CellOf(S)
           Closed(T) == \A y \in T : L[y] \in T \cup {NULL}
           Reach(c) == {x \in Item : \A T \in SUBSET Item :
                          L[c] \in T \cup {NULL} /\ Closed(T) => x \in T}
           f == [c \in D |-> Reach(c)]
           Body(g) == [c \in D |-> IF L[c] = NULL THEN {} ELSE {L[c]} \cup g[L[c]]]
<1>0. NULL \notin Item /\ Item \subseteq D
  BY CellKinds DEF CellOf
<1>1. ASSUME NEW c \in D, L[c] = NULL PROVE Reach(c) = {}
  <2>1. {} \in SUBSET Item /\ L[c] \in {} \cup {NULL} /\ Closed({})
    BY <1>1
  <2> QED BY <2>1
<1>2. ASSUME NEW c \in D, L[c] # NULL PROVE Reach(c) = {L[c]} \cup Reach(L[c])
  <2>0. L[c] \in Item
    BY <1>2
  <2>1. ASSUME NEW x \in Reach(L[c]) PROVE x \in Reach(c)
    <3> SUFFICES ASSUME NEW T \in SUBSET Item, L[c] \in T \cup {NULL}, Closed(T) PROVE x \in T
      OBVIOUS
    <3>1. L[L[c]] \in T \cup {NULL}
      BY <1>2
    <3> QED BY <2>1, <3>1
  <2>2. L[c] \in Reach(c)
    BY <1>2, <2>0
  <2>3. Reach(c) \subseteq {L[c]} \cup Reach(L[c])
    <3> DEFINE T == {L[c]} \cup Reach(L[c])
    <3>1. T \in SUBSET Item /\ L[c] \in T \cup {NULL}
      BY <2>0
    <3>2. ASSUME NEW y \in T, L[y] # NULL PROVE L[y] \in T
      <4>1. y \in Item /\ L[y] \in Item
        BY <1>0, <2>0, <3>2
      <4>2. CASE y = L[c]
        <5>1. L[y] \in Reach(L[c])
          BY <1>0, <4>1, <4>2
        <5> QED BY <5>1
      <4>3. CASE y \in Reach(L[c])
        <5>1. ASSUME NEW U \in SUBSET Item, L[L[c]] \in U \cup {NULL}, Closed(U) PROVE L[y] \in U
          <6>1. y \in U
            BY <4>3, <5>1
          <6> QED BY <3>2, <5>1, <6>1
        <5>2. L[y] \in Reach(L[c])
          BY <4>1, <5>1
        <5> QED BY <5>2
      <4> QED BY <4>2, <4>3
    <3>3. Closed(T)
      BY <3>2
    <3> QED BY <3>1, <3>3
  <2> QED BY <2>1, <2>2, <2>3
<1>3. f = Body(f)
  <2> SUFFICES ASSUME NEW c \in D
               PROVE  Reach(c) = IF L[c] = NULL THEN {} ELSE {L[c]} \cup f[L[c]]
    OBVIOUS
  <2>1. L[c] # NULL => f[L[c]] = Reach(L[c])
    BY <1>0
  <2> HIDE DEF Reach
  <2> QED BY <1>1, <1>2, <2>1
<1>4. ChainOf(L, D) = CHOOSE g : g = Body(g)
  BY DEF ChainOf
<1>5. ChainOf(L, D) = Body(ChainOf(L, D))
  <2> HIDE DEF f, Body, D
  <2> QED BY <1>3, <1>4
<1> QED BY <1>5

\* Going back along the links one must come to something else than an item of
\* the set.
LEMMA NoBackwardsClosed ==
    ASSUME NEW S, NEW V, NEW L, Sound(L, S, V), NEW B \in SUBSET V,
           \A x \in B : \E c \in B : L[c] = x
    PROVE  B = {}
<1>1. IsFiniteSet(B)
  BY AddressAssumption, FS_Subset DEF Sound
<1> DEFINE P == {c \in B : L[c] \in B}
           f == [c \in P |-> L[c]]
<1>2. f \in Surjection(P, B)
  BY DEF Surjection
<1>3. IsFiniteSet(P) /\ Cardinality(P) <= Cardinality(B) /\ (Cardinality(P) = Cardinality(B) => P = B)
  BY <1>1, FS_Subset
<1>4. Cardinality(B) <= Cardinality(P)
  <2> HIDE DEF f, P
  <2> QED BY <1>2, <1>3, FS_Surjection
<1>5. P = B
  <2>1. Cardinality(P) \in Nat /\ Cardinality(B) \in Nat
    BY <1>1, <1>3, FS_CardinalityType
  <2> HIDE DEF P
  <2> QED BY <1>3, <1>4, <2>1
<1> QED BY <1>5 DEF Sound

\* The items of a chain with their followers.
LEMMA ChainIsClosed ==
    ASSUME NEW S, NEW V, NEW L, Sound(L, S, V), NEW d \in Slots(S) \cup V
    PROVE  \A c \in ChainOf(L, CellOf(S))[d] : L[c] # NULL => L[c] \in ChainOf(L, CellOf(S))[d]
<1> DEFINE C == ChainOf(L, CellOf(S))
           Open(e) == \E c \in C[e] : L[c] # NULL /\ L[c] \notin C[e]
           T == {x \in V : Open(x)}
<1>1. \A c \in CellOf(S) : C[c] = IF L[c] = NULL THEN {} ELSE {L[c]} \cup C[L[c]]
  BY ChainLaw DEF Sound
<1> HIDE DEF C
<1>2. ASSUME NEW e \in Slots(S) \cup V, Open(e) PROVE L[e] \in T
  <2>1. e \in CellOf(S) /\ L[e] \in V \cup {NULL}
    BY DEF Sound, CellOf
  <2>2. PICK c \in C[e] : L[c] # NULL /\ L[c] \notin C[e]
    BY <1>2
  <2>3. L[e] # NULL /\ L[e] \in V /\ L[e] \in CellOf(S) /\ C[e] = {L[e]} \cup C[L[e]]
    BY <1>1, <2>1, <2>2 DEF Sound, CellOf
  <2>4. c # L[e]
    BY <1>1, <2>2, <2>3
  <2>5. c \in C[L[e]] /\ L[c] \notin C[L[e]]
    BY <2>2, <2>3, <2>4
  <2> QED BY <2>2, <2>3, <2>5
<1>3. T = {}
  <2>1. \A x \in T : L[x] \in T
    BY <1>2
  <2>2. T \in SUBSET V
    OBVIOUS
  <2> HIDE DEF T
  <2> QED BY <2>1, <2>2 DEF Sound
<1> QED BY <1>2, <1>3 DEF C

\* Items of which each hangs on its home slot, or on one with the same home,
\* are in the chains of their homes.
LEMMA RootedIsInChain ==
    ASSUME NEW S, NEW V, NEW L, Sound(L, S, V), NEW home,
           \A x \in V : \E c \in Slots(S) \cup V :
              L[c] = x /\ (c = home[x] \/ (c \in V /\ home[c] = home[x])),
           \A x \in V : home[x] \in Slots(S)
    PROVE  \A x \in V : x \in ChainOf(L, CellOf(S))[home[x]]
<1> DEFINE C == ChainOf(L, CellOf(S))
           B == {x \in V : x \notin C[home[x]]}
<1>1. \A c \in CellOf(S) : C[c] = IF L[c] = NULL THEN {} ELSE {L[c]} \cup C[L[c]]
  BY ChainLaw DEF Sound
<1>2. \A d \in Slots(S) \cup V : \A c \in C[d] : L[c] # NULL => L[c] \in C[d]
  BY ChainIsClosed
<1> HIDE DEF C
<1>3. ASSUME NEW x \in B PROVE \E c \in B : L[c] = x
  <2>1. x \in V /\ x # NULL /\ home[x] \in Slots(S) /\ home[x] \in CellOf(S) /\ x \notin C[home[x]]
    BY CellKinds DEF Sound, CellOf
  <2>2. PICK c \in Slots(S) \cup V : L[c] = x /\ (c = home[x] \/ (c \in V /\ home[c] = home[x]))
    BY <2>1
  <2>3. c # home[x]
    <3> SUFFICES ASSUME c = home[x] PROVE FALSE
      OBVIOUS
    <3>1. PICK h \in CellOf(S) : h = home[x]
      BY <2>1
    <3>2. L[h] = x /\ x \notin C[h]
      BY <2>1, <2>2, <3>1
    <3>3. C[h] = {x} \cup C[x]
      BY <1>1, <2>1, <3>2
    <3> QED BY <3>2, <3>3
  <2>4. c \in V /\ home[c] = home[x]
    BY <2>2, <2>3
  <2>5. c \notin C[home[x]]
    BY <1>2, <2>1, <2>2
  <2> QED BY <2>2, <2>4, <2>5
<1>4. B = {}
  <2>1. B \in SUBSET V
    OBVIOUS
  <2> HIDE DEF B
  <2> QED BY <1>3, <2>1, NoBackwardsClosed
<1> QED BY <1>4 DEF C

\* ... and in no other chain.
LEMMA ChainHome ==
    ASSUME NEW S, NEW V, NEW L, Sound(L, S, V), NEW home,
           \A x \in V : \E c \in Slots(S) \cup V :
              L[c] = x /\ (c = home[x] \/ (c \in V /\ home[c] = home[x])),
           \A x \in V : home[x] \in Slots(S)
    PROVE  \A s \in Slots(S) : \A x \in V : x \in ChainOf(L, CellOf(S))[s] => home[x] = s
<1> DEFINE C == ChainOf(L, CellOf(S))
           At(d) == IF d \in V THEN home[d] ELSE d
           Mixed(d) == \E y \in V : y \in C[d] /\ home[y] # At(d)
           T == {x \in V : Mixed(x)}
<1>1. \A c \in CellOf(S) : C[c] = IF L[c] = NULL THEN {} ELSE {L[c]} \cup C[L[c]]
  BY ChainLaw DEF Sound
<1>2. \A s \in Slots(S) : s \notin V
  BY CellKinds DEF Sound
<1> HIDE DEF C
<1>3. ASSUME NEW d \in Slots(S) \cup V, Mixed(d) PROVE L[d] \in T
  <2>1. d \in CellOf(S) /\ L[d] \in V \cup {NULL} /\ NULL \notin V
    BY CellKinds DEF Sound, CellOf
  <2>2. PICK y \in V : y \in C[d] /\ home[y] # At(d)
    BY <1>3
  <2>3. PICK z \in V : z = L[d] /\ z # NULL /\ C[d] = {z} \cup C[z]
    BY <1>1, <2>1, <2>2
  <2>4. home[z] = At(d)
    <3>1. PICK c \in Slots(S) \cup V : L[c] = z /\ (c = home[z] \/ (c \in V /\ home[c] = home[z]))
      OBVIOUS
    <3>2. c \in CellOf(S)
      BY DEF Sound, CellOf
    <3>3. c = d
      BY <2>1, <2>3, <3>1, <3>2 DEF Sound
    <3> QED BY <1>2, <3>1, <3>3
  <2>5. y \in C[z] /\ home[y] # At(z)
    BY <2>2, <2>3, <2>4
  <2> QED BY <2>3, <2>5
<1>4. T = {}
  <2>1. \A x \in T : L[x] \in T
    BY <1>3
  <2>2. T \in SUBSET V
    OBVIOUS
  <2> HIDE DEF T
  <2> QED BY <2>1, <2>2 DEF Sound
<1>5. \A s \in Slots(S) : ~Mixed(s)
  BY <1>3, <1>4
<1> QED BY <1>2, <1>5 DEF C

-----------------------------------------------------------------------------
(* The invariant.  While items move, the home of an item, in whose chain   *)
(* it hangs, is the one that the old method and the old size have chosen,   *)
(* until the item has been treated.                                         *)

Unmoved == {x \in live : mark[x] # reorgMark}

Home(x) == HashOf(key[x])

\* x hangs on its home, or behind an item with the same home, or is what zap
\* has left of a chain.
Rooted(x) ==
    \/ x = next /\ Home(x) = slot
    \/ \E c \in Slots(slots) \cup live :
          link[c] = x /\ (c = Home(x) \/ (c \in live /\ Home(c) = Home(x)))

Placed == pc # "move" => \A x \in live : Rooted(x)

Valued ==
    /\ \A x \in live : val[x] \in Value
    /\ pc = "find" /\ cmd.op = "set" => cmd.val \in Value

Zapping ==
    /\ pc \in {"zap", "zapTail"} => \A x \in live : Home(x) >= slot
    /\ pc = "zapTail" => link[slot] = NULL

\* The item that findItem looks for is ahead.
Finding == pc = "find" => \A x \in live : key[x] = cmd.key => x \in Chain[ptr]

Marked == pc # "move" => Unmoved = {}

\* The same, of homes that are given as a function.
RootedBy(home, x) ==
    \E c \in Slots(slots) \cup live :
       link[c] = x /\ (c = home[x] \/ (c \in live /\ home[c] = home[x]))

\* moveItems is in the chain of its slot, with all of it that is to be treated
\* ahead; or in another chain, and nothing is left to be treated in its slot.
Inside(home) ==
    /\ ptr = slot \/ (ptr \in live \ Unmoved /\ home[ptr] = slot)
    /\ \A x \in Unmoved : home[x] = slot => x \in Chain[ptr]

Astray(home) ==
    /\ ptr \in live \ Unmoved /\ home[ptr] # slot
    /\ \A x \in Unmoved : home[x] # slot

MovingBy(home) ==
    /\ home \in [live -> Slots(slots)]
    /\ \A x \in Unmoved : home[x] \in slot .. capacity - 1
    /\ \A x \in live \ Unmoved : home[x] = Home(x)
    /\ \A x \in live : RootedBy(home, x)
    /\ Inside(home) \/ Astray(home)

Moving ==
    pc = "move" =>
      /\ \E home : MovingBy(home)
      /\ processed = Cardinality(live \ Unmoved)

MapInv ==
    /\ UniqueKeys /\ Valued /\ Placed /\ Zapping /\ Finding /\ Marked /\ Moving

LEMMA HomeInArray ==
    ASSUME IInv, NEW x \in live
    PROVE  /\ Home(x) \in Slots(slots) /\ Home(x) \in Nat
           /\ pc \notin {"move", "resize", "exited"} => Home(x) \in Slots(capacity)
<1>1. /\ hashMask \in Nat /\ hashMask < slots /\ slots \in Nat
      /\ pc \notin {"move", "resize", "exited"} => capacity = hashMask + 1
  BY DEF IInv, TypeOK, ArrayBounds
<1>2. PICK h \in Int : h = Hash[method][key[x]]
  BY HashAssumption DEF IInv, TypeOK, Locals
<1>3. Home(x) = h % (hashMask + 1)
  BY <1>2 DEF Home, HashOf
<1>4. h % (hashMask + 1) \in 0 .. hashMask
  BY <1>1
<1> QED BY <1>1, <1>3, <1>4 DEF Slots

\* Whatever is done elsewhere leaves homes where they are.
LEMMA HomesStay ==
    ASSUME UNCHANGED <<key, method, hashMask>>
    PROVE  \A x : Home(x)' = Home(x)
BY DEF Home, HashOf

\* Every item is in the chain of its home.
LEMMA ItemsInChains ==
    ASSUME IInv, Placed, next = NULL, pc # "move"
    PROVE  \A x \in live : x \in Chain[Home(x)]
<1> DEFINE home == [x \in live |-> Home(x)]
<1>1. Sound(link, slots, live)
  BY IInvSound
<1>2. \A x \in live : home[x] = Home(x) /\ home[x] \in Slots(slots) /\ x # NULL
  BY HomeInArray, CellKinds DEF IInv, TypeOK
<1>3. \A x \in live : \E c \in Slots(slots) \cup live :
          link[c] = x /\ (c = home[x] \/ (c \in live /\ home[c] = home[x]))
  BY <1>2 DEF Placed, Rooted
<1> HIDE DEF home
<1>4. \A x \in live : x \in ChainOf(link, CellOf(slots))[home[x]]
  BY <1>1, <1>2, <1>3, RootedIsInChain
<1> QED BY <1>2, <1>4, ChainIsChainOf

LEMMA ChainStep ==
    ASSUME IInv
    PROVE  \A c \in Cell : Chain[c] = IF link[c] = NULL THEN {} ELSE {link[c]} \cup Chain[link[c]]
<1>1. link \in [CellOf(slots) -> Item \cup {NULL}] /\ Cell = CellOf(slots)
  BY DEF IInv, TypeOK, Cell, CellOf
<1> QED BY <1>1, ChainLaw, ChainIsChainOf

\* Steps that leave the memory alone, and end outside of every loop.
LEMMA QuietMap ==
    ASSUME IInv, MapInv, UNCHANGED <<link, slots, live, key, mark, reorgMark, hashMask, capacity>>,
           method' = method \/ live = {}, next = NULL, next' = NULL,
           pc # "move", pc' \notin {"find", "zap", "zapTail", "move"},
           \A x \in live : val'[x] \in Value
    PROVE  MapInv'
<1>1. \A x \in live : Home(x)' = Home(x) /\ x # NULL
  BY CellKinds DEF Home, HashOf, IInv, TypeOK
<1>2. Placed'
  BY <1>1 DEF MapInv, Placed, Rooted
<1>3. UniqueKeys' /\ Marked'
  BY DEF MapInv, UniqueKeys, Marked, Unmoved
<1>4. Valued' /\ Zapping' /\ Finding' /\ Moving'
  BY DEF Valued, Zapping, Finding, Moving
<1> QED BY <1>2, <1>3, <1>4 DEF MapInv

-----------------------------------------------------------------------------
(* Finding, setting and deleting                                           *)

\* A command that looks for a key starts at the home of the item with it.
LEMMA StartFindMap ==
    ASSUME IInv, MapInv, NEW c, StartFind(c), c.op = "set" => c.val \in Value
    PROVE  MapInv'
<1>1. /\ UNCHANGED <<link, slots, live, key, val, mark, method, reorgMark, hashMask, capacity, next, slot>>
      /\ pc = "idle" /\ pc' = "find" /\ cmd' = c /\ ptr' = HashOf(c.key)
  BY DEF StartFind, heapVars, tableVars
<1>2. \A x : Home(x)' = Home(x)
  BY <1>1, HomesStay
<1>3. next = NULL
  BY <1>1 DEF IInv, Locals
<1>4. Placed' /\ UniqueKeys' /\ Marked' /\ Zapping'
  BY <1>1, <1>2 DEF MapInv, Placed, Rooted, UniqueKeys, Marked, Unmoved, Zapping
<1>5. Valued' /\ Moving'
  BY <1>1 DEF MapInv, Valued, Moving
<1>6. Finding'
  <2>1. \A x \in live : x \in Chain[Home(x)]
    BY <1>1, <1>3, ItemsInChains DEF MapInv
  <2>2. \A x \in live : key[x] = c.key => Home(x) = HashOf(c.key)
    BY <1>1 DEF Home, HashOf
  <2>3. Chain' = Chain
    BY <1>1, ChainIsChainOf
  <2> QED BY <1>1, <2>1, <2>2, <2>3 DEF Finding
<1> QED BY <1>4, <1>5, <1>6 DEF MapInv

LEMMA FindNextMap ==
    ASSUME IInv, MapInv, FindNext
    PROVE  MapInv'
<1>1. /\ UNCHANGED <<link, slots, live, key, val, mark, method, reorgMark, hashMask, capacity, next, slot, pc, cmd>>
      /\ pc = "find" /\ ptr' = link[ptr] /\ link[ptr] # NULL /\ key[link[ptr]] # cmd.key
  BY DEF FindNext, AtKey, AtEnd, heapVars, tableVars
<1>2. \A x : Home(x)' = Home(x)
  BY <1>1, HomesStay
<1>3. Placed' /\ UniqueKeys' /\ Marked' /\ Zapping'
  BY <1>1, <1>2 DEF MapInv, Placed, Rooted, UniqueKeys, Marked, Unmoved, Zapping
<1>4. Valued' /\ Moving'
  BY <1>1 DEF MapInv, Valued, Moving
<1>5. Finding'
  <2>1. Chain[ptr] = {link[ptr]} \cup Chain[link[ptr]]
    BY <1>1, ChainStep, AtCell
  <2>2. Chain' = Chain
    BY <1>1, ChainIsChainOf
  <2>3. \A x \in live : key[x] = cmd.key => x \in Chain[ptr]
    BY <1>1 DEF MapInv, Finding
  <2> QED BY <1>1, <2>1, <2>2, <2>3 DEF Finding
<1> QED BY <1>3, <1>4, <1>5 DEF MapInv

\* Where findItem ends there is no item with the key.
LEMMA EndMeansAbsent ==
    ASSUME IInv, MapInv, pc = "find", AtEnd
    PROVE  \A x \in live : key[x] # cmd.key
<1>1. Chain[ptr] = {}
  BY ChainStep, AtCell DEF AtEnd
<1> QED BY <1>1 DEF MapInv, Finding

LEMMA InsertMap ==
    ASSUME IInv, MapInv, SetInserted
    PROVE  MapInv'
<1>1. PICK x \in Item \ live :
        /\ live' = live \cup {x}
        /\ key' = [key EXCEPT ![x] = cmd.key]
        /\ val' = [val EXCEPT ![x] = cmd.val]
        /\ mark' = [mark EXCEPT ![x] = reorgMark]
        /\ link' = Linked(link, x, HashOf(cmd.key))
  BY DEF SetInserted
<1>2. /\ pc = "find" /\ cmd.op = "set" /\ AtEnd /\ pc' = "reorg"
      /\ UNCHANGED <<slots, method, capacity, hashMask, reorgMark, next, slot>>
      /\ next = NULL
  BY DEF SetInserted, IInv, Locals
<1>3. cmd.key \in Key /\ cmd.val \in Value
  BY <1>2 DEF IInv, Locals, MapInv, Valued
<1>4. PICK h \in Slots(slots) : h = HashOf(cmd.key)
  BY <1>3, HashInArray DEF IInv
<1>5. /\ live \subseteq Item /\ link \in [Cell -> Item \cup {NULL}]
      /\ key \in [Item -> Key \cup {NULL}] /\ val \in [Item -> Value \cup {NULL}]
      /\ mark \in [Item -> {0, 255}]
  BY DEF IInv, TypeOK
<1>6. h \in Cell /\ x \in Cell /\ h # x /\ h \notin Item
  BY <1>4, CellKinds DEF Cell
<1>7. \A c \in Cell : link'[c] = IF c = h THEN x ELSE IF c = x THEN link[h] ELSE link[c]
  BY <1>1, <1>4, <1>5, <1>6 DEF Linked
<1>8. \A y \in live : y # x /\ y \in Item /\ y # NULL /\ key'[y] = key[y] /\ val'[y] = val[y] /\ mark'[y] = mark[y]
  BY <1>1, <1>5, CellKinds
<1>9. key'[x] = cmd.key /\ val'[x] = cmd.val /\ mark'[x] = reorgMark
  BY <1>1, <1>5
<1>10. \A y \in live : Home(y)' = Home(y)
  BY <1>2, <1>8 DEF Home, HashOf
<1>11. Home(x)' = h
  BY <1>2, <1>4, <1>9 DEF Home, HashOf
<1>12. UniqueKeys'
  <2>1. \A y \in live : key[y] # cmd.key
    BY <1>2, EndMeansAbsent
  <2> QED BY <1>1, <1>8, <1>9, <2>1 DEF MapInv, UniqueKeys
<1>13. Placed'
  <2>1. Rooted(x)'
    <3>1. link'[h] = x /\ h \in Slots(slots')
      BY <1>2, <1>4, <1>6, <1>7
    <3> QED BY <1>11, <3>1 DEF Rooted
  <2>2. ASSUME NEW y \in live PROVE Rooted(y)'
    <3>1. PICK c \in Slots(slots) \cup live :
            link[c] = y /\ (c = Home(y) \/ (c \in live /\ Home(c) = Home(y)))
      BY <1>2, <1>8 DEF MapInv, Placed, Rooted
    <3>2. c \in Cell /\ c # x
      BY <1>5, CellKinds DEF Cell
    <3>3. CASE c = h
      <4>1. link'[x] = y
        BY <1>6, <1>7, <3>1, <3>3
      <4>2. Home(x)' = Home(y)'
        BY <1>5, <1>6, <1>10, <1>11, <3>1, <3>3
      <4>3. x \in live'
        BY <1>1
      <4> QED BY <4>1, <4>2, <4>3 DEF Rooted
    <3>4. CASE c # h
      <4>1. link'[c] = y
        BY <1>7, <3>1, <3>2, <3>4
      <4>2. c = Home(y)' \/ (c \in live' /\ Home(c)' = Home(y)')
        BY <1>1, <1>10, <3>1
      <4>3. c \in Slots(slots') \cup live'
        BY <1>1, <1>2
      <4> QED BY <4>1, <4>2, <4>3 DEF Rooted
    <3> QED BY <3>3, <3>4
  <2> QED BY <1>1, <2>1, <2>2 DEF Placed
<1>14. Valued'
  BY <1>1, <1>2, <1>3, <1>8, <1>9 DEF MapInv, Valued
<1>15. Marked'
  BY <1>1, <1>2, <1>8, <1>9 DEF MapInv, Marked, Unmoved
<1>16. Zapping' /\ Finding' /\ Moving'
  BY <1>2 DEF Zapping, Finding, Moving
<1> QED BY <1>12, <1>13, <1>14, <1>15, <1>16 DEF MapInv

LEMMA DeleteMap ==
    ASSUME IInv, MapInv, DelDeleted
    PROVE  MapInv'
<1>1. PICK x \in live : x = link[ptr] /\ x \in Item /\ x \in Cell /\ ptr \in Cell
  BY AtCell DEF DelDeleted, AtKey
<1>2. /\ link \in [Cell -> Item \cup {NULL}] /\ live \subseteq Item
      /\ key \in [Item -> Key \cup {NULL}] /\ val \in [Item -> Value \cup {NULL}]
      /\ mark \in [Item -> {0, 255}]
  BY DEF IInv, TypeOK
<1>3. /\ live' = live \ {x}
      /\ key' = [key EXCEPT ![x] = NULL]
      /\ val' = [val EXCEPT ![x] = NULL]
      /\ mark' = [mark EXCEPT ![x] = 0]
      /\ link' = [Unlinked(ptr) EXCEPT ![x] = NULL]
      /\ UNCHANGED <<slots, method, capacity, hashMask, reorgMark, next, slot>>
      /\ pc = "find" /\ pc' = "reorg" /\ next = NULL
  BY <1>1 DEF DelDeleted, EraseCounted, Erase, IInv, Locals
<1>4. \A c \in Cell : link'[c] = IF c = x THEN NULL ELSE IF c = ptr THEN link[x] ELSE link[c]
  BY <1>1, <1>2, <1>3 DEF Unlinked
<1>5. /\ link[x] # x /\ x # ptr
      /\ \A c \in Cell : link[c] = x => c = ptr
      /\ ptr \in Slots(slots) \cup live
  BY <1>1, <1>3, CellKinds, NoSelfLoop DEF IInv, NoSharing, Locals
<1>6. \A y \in live' : y \in live /\ y # x /\ y # NULL /\ key'[y] = key[y] /\ val'[y] = val[y] /\ mark'[y] = mark[y]
  BY <1>2, <1>3, CellKinds
<1>7. \A y \in live' : Home(y)' = Home(y)
  BY <1>3, <1>6 DEF Home, HashOf
<1>8. UniqueKeys' /\ Valued' /\ Marked'
  BY <1>3, <1>6 DEF MapInv, UniqueKeys, Valued, Marked, Unmoved
<1>9. ASSUME NEW y \in live'
      PROVE  \E c \in Slots(slots) \cup live :
               link[c] = y /\ (c = Home(y) \/ (c \in live /\ Home(c) = Home(y)))
  BY <1>3, <1>6 DEF MapInv, Placed, Rooted
<1>10. Placed'
  <2> SUFFICES ASSUME NEW y \in live' PROVE Rooted(y)'
    BY DEF Placed
  <2>1. PICK c \in Slots(slots) \cup live :
            link[c] = y /\ (c = Home(y) \/ (c \in live /\ Home(c) = Home(y)))
    BY <1>9
  <2>2. c \in Cell /\ y # x
    BY <1>2, <1>6 DEF Cell
  <2>3. CASE c = x
    <3>1. PICK d \in Slots(slots) \cup live :
            link[d] = x /\ (d = Home(x) \/ (d \in live /\ Home(d) = Home(x)))
      BY <1>1, <1>3, CellKinds DEF MapInv, Placed, Rooted
    <3>2. d \in Cell
      BY <1>2 DEF Cell
    <3>3. d = ptr
      BY <1>5, <3>1, <3>2
    <3>4. Home(x) = Home(y)
      <4>1. c # Home(y)
        BY <1>1, <1>6, <2>3, HomeInArray, CellKinds
      <4> QED BY <2>1, <2>3, <4>1
    <3>5. link'[d] = y
      BY <1>1, <1>4, <1>5, <2>1, <2>3, <3>3
    <3>6. d = Home(y)' \/ (d \in live' /\ Home(d)' = Home(y)')
      <4>1. d # x
        BY <1>5, <3>3
      <4> QED BY <1>3, <1>7, <3>1, <3>4, <4>1
    <3>7. d \in Slots(slots') \cup live'
      BY <1>3, <1>5, <3>3
    <3> QED BY <3>5, <3>6, <3>7 DEF Rooted
  <2>4. CASE c # x
    <3>1. c # ptr
      BY <1>1, <2>1, <2>2
    <3>2. link'[c] = y
      BY <1>4, <2>1, <2>2, <2>4, <3>1
    <3>3. c = Home(y)' \/ (c \in live' /\ Home(c)' = Home(y)')
      BY <1>3, <1>7, <2>1, <2>4
    <3>4. c \in Slots(slots') \cup live'
      BY <1>3, <2>4
    <3> QED BY <3>2, <3>3, <3>4 DEF Rooted
  <2> QED BY <2>3, <2>4
<1>11. Zapping' /\ Finding' /\ Moving'
  BY <1>3 DEF Zapping, Finding, Moving
<1> QED BY <1>8, <1>10, <1>11 DEF MapInv

-----------------------------------------------------------------------------
(* Zap                                                                     *)

LEMMA NothingLeft ==
    ASSUME live' = {}, pc' = "reorg"
    PROVE  MapInv'
BY DEF MapInv, UniqueKeys, Valued, Placed, Zapping, Finding, Marked, Unmoved, Moving

LEMMA NoneCounted == (IInv /\ numberOfElms = 0 => live = {}) /\ (IInv' /\ numberOfElms' = 0 => live' = {})
<1>1. IInv => IsFiniteSet(live)
  BY AddressAssumption, FS_Subset DEF IInv, TypeOK
<1>2. IInv' => IsFiniteSet(live')
  BY AddressAssumption, FS_Subset DEF IInv, TypeOK
<1> QED BY <1>1, <1>2, FS_EmptySet DEF IInv, CountExact

LEMMA ZapMap ==
    ASSUME IInv, MapInv, Zap
    PROVE  MapInv'
<1>1. /\ UNCHANGED <<link, slots, live, key, val, mark, method, reorgMark, hashMask, capacity, next>>
      /\ pc = "idle" /\ pc' = "zap" /\ slot' = 0 /\ next = NULL
  BY DEF Zap, heapVars, tableVars, IInv, Locals
<1>2. \A x \in live : Home(x)' = Home(x) /\ x # NULL /\ Home(x) >= 0
  BY <1>1, HomesStay, HomeInArray, CellKinds DEF IInv, TypeOK
<1>3. Placed' /\ UniqueKeys' /\ Marked' /\ Zapping' /\ Valued'
  BY <1>1, <1>2 DEF MapInv, Placed, Rooted, UniqueKeys, Marked, Unmoved, Zapping, Valued
<1>4. Finding' /\ Moving'
  BY <1>1 DEF Finding, Moving
<1> QED BY <1>3, <1>4 DEF MapInv

\* A slot without a chain is the home of no item.
LEMMA HomeOfNone ==
    ASSUME IInv, Placed, pc # "move", next = NULL, link[slot] = NULL
    PROVE  \A x \in live : Home(x) # slot
<1> DEFINE B == {x \in live : Home(x) = slot}
<1>1. Sound(link, slots, live) /\ \A x \in live : x # NULL
  BY IInvSound, CellKinds DEF IInv, TypeOK
<1>2. \A x \in B : \E c \in B : link[c] = x
  BY <1>1 DEF Placed, Rooted
<1>3. B = {}
  <2>1. B \in SUBSET live
    OBVIOUS
  <2> HIDE DEF B
  <2> QED BY <1>1, <1>2, <2>1, NoBackwardsClosed
<1> QED BY <1>3

\* When the chain of a slot is deleted, the homes of what is left are behind it.
LEMMA ZapGoesOn ==
    ASSUME IInv, MapInv, pc \in {"zap", "zapTail"}, next = NULL, link[slot] = NULL,
           NEW n, n = 0 => live = {}
    PROVE  /\ \A x \in live : Home(x) >= slot + 1
           /\ ~(slot + 1 < capacity /\ n # 0) => live = {}
<1>1. \A x \in live : Home(x) # slot
  BY HomeOfNone DEF MapInv
<1>2. slot \in Nat /\ capacity \in Nat
  BY PowerRange DEF IInv, TypeOK, Slots
<1>3. \A x \in live : Home(x) \in Nat /\ Home(x) >= slot + 1 /\ Home(x) < capacity
  <2> SUFFICES ASSUME NEW x \in live
               PROVE  Home(x) \in Nat /\ Home(x) >= slot + 1 /\ Home(x) < capacity
    OBVIOUS
  <2>1. Home(x) \in Nat /\ Home(x) \in Slots(capacity) /\ Home(x) >= slot /\ Home(x) # slot
    BY <1>1, HomeInArray DEF MapInv, Zapping
  <2>2. PICK h \in Nat : h = Home(x) /\ h \in 0 .. capacity - 1 /\ h >= slot /\ h # slot
    BY <2>1 DEF Slots
  <2> QED BY <1>2, <2>2
<1>4. ASSUME ~(slot + 1 < capacity), NEW x \in live PROVE FALSE
  <2>1. PICK h \in Nat : h = Home(x) /\ h >= slot + 1 /\ h < capacity
    BY <1>3
  <2> QED BY <1>2, <1>4, <2>1
<1> QED BY <1>3, <1>4

\* zap goes on to the next slot, or the table is empty.
LEMMA LeaveMap ==
    ASSUME IInv, MapInv, pc \in {"zap", "zapTail"}, next = NULL, link[slot] = NULL,
           NEW n, n = 0 => live = {}, LeaveZapSlot(n),
           UNCHANGED <<heapVars, numberOfElms, next>>, ZapUnchanged
    PROVE  MapInv' /\ (pc' = "zap" \/ live' = {})
<1>1. /\ UNCHANGED <<link, slots, live, key, val, mark, method, reorgMark, hashMask, capacity, next>>
  BY DEF heapVars, ZapUnchanged
<1>2. /\ \A x \in live : Home(x) >= slot + 1
      /\ ~(slot + 1 < capacity /\ n # 0) => live = {}
  BY ZapGoesOn
<1>3. CASE slot + 1 < capacity /\ n # 0
  <2>1. pc' = "zap" /\ slot' = slot + 1
    BY <1>3 DEF LeaveZapSlot
  <2>2. \A x \in live : Home(x)' = Home(x) /\ x # NULL
    BY <1>1, <2>1, HomesStay, CellKinds DEF IInv, TypeOK
  <2>3. Placed'
    BY <1>1, <2>2 DEF MapInv, Placed, Rooted
  <2>4. Zapping'
    BY <1>1, <1>2, <2>1, <2>2 DEF Zapping
  <2>5. UniqueKeys' /\ Marked' /\ Valued' /\ Finding' /\ Moving'
    BY <1>1, <2>1 DEF MapInv, UniqueKeys, Marked, Unmoved, Valued, Finding, Moving
  <2> QED BY <2>1, <2>3, <2>4, <2>5 DEF MapInv
<1>4. CASE ~(slot + 1 < capacity /\ n # 0)
  <2>1. pc' = "reorg" /\ live' = {}
    BY <1>1, <1>2, <1>4 DEF LeaveZapSlot
  <2> QED BY <2>1, NothingLeft
<1> QED BY <1>3, <1>4

LEMMA ZapEmptySlotMap ==
    ASSUME IInv, MapInv, ZapEmptySlot
    PROVE  MapInv' /\ (pc' = "zap" \/ live' = {})
<1>1. pc = "zap" /\ next = NULL /\ link[slot] = NULL
  BY DEF ZapEmptySlot, IInv, Locals
<1>2. LeaveZapSlot(1) /\ UNCHANGED <<heapVars, numberOfElms, next>> /\ ZapUnchanged
  BY DEF ZapEmptySlot
<1> QED BY <1>1, <1>2, LeaveMap

LEMMA ZapTailEndMap ==
    ASSUME IInv, MapInv, ZapTailEnd
    PROVE  MapInv' /\ (pc' = "zap" \/ live' = {})
<1>1. pc = "zapTail" /\ next = NULL /\ link[slot] = NULL
  BY DEF ZapTailEnd, MapInv, Zapping
<1>2. LeaveZapSlot(numberOfElms) /\ UNCHANGED <<heapVars, numberOfElms, next>> /\ ZapUnchanged
  BY DEF ZapTailEnd
<1> QED BY <1>1, <1>2, LeaveMap, NoneCounted

\* An item without a predecessor, or the head of the slot, is deleted.
LEMMA ErasedFromChain ==
    ASSUME IInv, MapInv, NEW x \in live, NEW l \in [Cell -> Item \cup {NULL}],
           EraseCounted(x, l), \A c \in Cell : l[c] = IF link[c] = x THEN NULL ELSE link[c],
           UNCHANGED <<method, hashMask, reorgMark>>, pc # "move", pc' # "move",
           Home(x) = slot, next \in {NULL, x}
    PROVE  /\ live' = live \ {x}
           /\ \A y \in live' :
                /\ y \in live /\ key'[y] = key[y] /\ val'[y] = val[y] /\ mark'[y] = mark[y]
                /\ Home(y)' = Home(y)
                /\ \/ y = link[x] /\ Home(y) = slot
                   \/ \E c \in Slots(slots) \cup live' :
                        link'[c] = y /\ (c = Home(y)' \/ (c \in live' /\ Home(c)' = Home(y)'))
           /\ \A c \in Cell : link'[c] = IF c = x \/ link[c] = x THEN NULL ELSE link[c]
<1>1. /\ live' = live \ {x}
      /\ key' = [key EXCEPT ![x] = NULL]
      /\ val' = [val EXCEPT ![x] = NULL]
      /\ mark' = [mark EXCEPT ![x] = 0]
      /\ link' = [l EXCEPT ![x] = NULL]
  BY DEF EraseCounted, Erase
<1>2. /\ live \subseteq Item /\ x \in Item /\ x \in Cell /\ NULL \notin Item
      /\ key \in [Item -> Key \cup {NULL}] /\ val \in [Item -> Value \cup {NULL}]
      /\ mark \in [Item -> {0, 255}]
  BY CellKinds DEF IInv, TypeOK, Cell
<1>3. \A c \in Cell : link'[c] = IF c = x \/ link[c] = x THEN NULL ELSE link[c]
  BY <1>1, <1>2
<1>4. \A y \in live' : y \in live /\ y # x /\ y # NULL /\ key'[y] = key[y] /\ val'[y] = val[y] /\ mark'[y] = mark[y]
  BY <1>1, <1>2
<1>5. \A y \in live' : Home(y)' = Home(y)
  BY <1>4 DEF Home, HashOf
<1>6. ASSUME NEW y \in live'
      PROVE  \/ y = link[x] /\ Home(y) = slot
             \/ \E c \in Slots(slots) \cup live' :
                  link'[c] = y /\ (c = Home(y)' \/ (c \in live' /\ Home(c)' = Home(y)'))
  <2>1. PICK c \in Slots(slots) \cup live :
            link[c] = y /\ (c = Home(y) \/ (c \in live /\ Home(c) = Home(y)))
    BY <1>4 DEF MapInv, Placed, Rooted
  <2>2. CASE c = x
    <3>1. Home(y) \in Slots(slots) /\ x \notin Slots(slots)
      BY <1>2, <1>4, HomeInArray, CellKinds
    <3> QED BY <2>1, <2>2, <3>1
  <2>3. CASE c # x
    <3>1. c \in Cell
      BY <1>2 DEF Cell
    <3>2. link'[c] = y
      BY <1>3, <1>4, <2>1, <2>3, <3>1
    <3>3. c = Home(y)' \/ (c \in live' /\ Home(c)' = Home(y)')
      BY <1>1, <1>5, <2>1, <2>3
    <3>4. c \in Slots(slots) \cup live'
      BY <1>1, <2>3
    <3> QED BY <3>2, <3>3, <3>4
  <2> QED BY <2>2, <2>3
<1> QED BY <1>1, <1>3, <1>4, <1>5, <1>6

LEMMA ZapHeadMap == ASSUME IInv, MapInv, IInv', ZapHead PROVE MapInv'
<1>1. slot \in Slots(slots) /\ slot \in Cell /\ slot \notin Item /\ slot \notin live
  BY PowerRange, CellKinds DEF IInv, TypeOK, ArrayBounds, Cell, Slots
<1>2. PICK x \in live : x = link[slot] /\ x # NULL
  BY <1>1 DEF ZapHead, IInv, NoDangling
<1> DEFINE l == [link EXCEPT ![slot] = NULL]
<1>3. l \in [Cell -> Item \cup {NULL}]
  BY <1>1 DEF IInv, TypeOK
<1>4. \A c \in Cell : l[c] = IF link[c] = x THEN NULL ELSE link[c]
  BY <1>1, <1>2 DEF IInv, NoSharing, TypeOK
<1>5. EraseCounted(x, l) /\ UNCHANGED <<method, hashMask, reorgMark, capacity, slots>>
  BY <1>2 DEF ZapHead, ZapUnchanged, EraseCounted, Erase
<1>6. pc = "zap" /\ next = NULL /\ pc' # "move" /\ x # NULL
  BY <1>2 DEF ZapHead, IInv, Locals, LeaveZapSlot
<1>7. Home(x) = slot
  <2>1. PICK c \in Slots(slots) \cup live :
            link[c] = x /\ (c = Home(x) \/ (c \in live /\ Home(c) = Home(x)))
    BY <1>6 DEF MapInv, Placed, Rooted
  <2>2. c \in Cell
    BY DEF Cell, IInv, TypeOK
  <2>3. c = slot
    BY <1>1, <1>2, <2>1, <2>2 DEF IInv, NoSharing
  <2> QED BY <1>1, <2>1, <2>3
<1> HIDE DEF l
<1>8. /\ live' = live \ {x}
      /\ \A y \in live' :
           /\ y \in live /\ key'[y] = key[y] /\ val'[y] = val[y] /\ mark'[y] = mark[y]
           /\ Home(y)' = Home(y)
           /\ \/ y = link[x] /\ Home(y) = slot
              \/ \E c \in Slots(slots) \cup live' :
                   link'[c] = y /\ (c = Home(y)' \/ (c \in live' /\ Home(c)' = Home(y)'))
      /\ \A c \in Cell : link'[c] = IF c = x \/ link[c] = x THEN NULL ELSE link[c]
  BY <1>3, <1>4, <1>5, <1>6, <1>7, ErasedFromChain
<1>9. CASE numberOfElms - 1 = 0
  <2>1. numberOfElms' = 0 /\ pc' = "reorg"
    BY <1>9 DEF ZapHead, EraseCounted, LeaveZapSlot
  <2> QED BY <2>1, NoneCounted, NothingLeft
<1>10. CASE numberOfElms - 1 # 0
  <2>1. next' = link[x] /\ pc' = "zapTail" /\ slot' = slot
    BY <1>2, <1>10 DEF ZapHead
  <2>2. UniqueKeys' /\ Marked' /\ Valued'
    BY <1>5, <1>6, <1>8, <2>1 DEF MapInv, UniqueKeys, Marked, Unmoved, Valued
  <2>3. Placed'
    BY <1>5, <1>8, <2>1 DEF Placed, Rooted
  <2>4. Zapping'
    <3>1. link'[slot'] = NULL
      BY <1>1, <1>2, <1>8, <2>1
    <3> QED BY <1>6, <1>8, <2>1, <3>1 DEF MapInv, Zapping
  <2>5. Finding' /\ Moving'
    BY <2>1 DEF Finding, Moving
  <2> QED BY <2>2, <2>3, <2>4, <2>5 DEF MapInv
<1> QED BY <1>9, <1>10

LEMMA ZapTailMap == ASSUME IInv, MapInv, ZapTail PROVE MapInv'
<1>1. slot \in Slots(slots) /\ slot \in Cell /\ slot \notin Item /\ slot \notin live
  BY PowerRange, CellKinds DEF IInv, TypeOK, ArrayBounds, Cell, Slots
<1>2. PICK x \in live : x = next /\ x # NULL
  BY DEF ZapTail, IInv, NoDangling
<1>3. link \in [Cell -> Item \cup {NULL}]
  BY DEF IInv, TypeOK
<1>4. \A c \in Cell : link[c] # x
  BY <1>2 DEF IInv, NoSharing
<1>5. EraseCounted(x, link) /\ UNCHANGED <<method, hashMask, reorgMark, capacity, slots, slot, pc>>
      /\ next' = link[x]
  BY <1>2 DEF ZapTail, ZapUnchanged, EraseCounted, Erase
<1>6. pc = "zapTail"
  BY DEF ZapTail
<1>7. Home(x) = slot
  <2>1. \A c \in Slots(slots) \cup live : link[c] # x
    BY <1>4 DEF Cell, IInv, TypeOK
  <2> QED BY <1>2, <1>6, <2>1 DEF MapInv, Placed, Rooted
<1>8. /\ live' = live \ {x}
      /\ \A y \in live' :
           /\ y \in live /\ key'[y] = key[y] /\ val'[y] = val[y] /\ mark'[y] = mark[y]
           /\ Home(y)' = Home(y)
           /\ \/ y = link[x] /\ Home(y) = slot
              \/ \E c \in Slots(slots) \cup live' :
                   link'[c] = y /\ (c = Home(y)' \/ (c \in live' /\ Home(c)' = Home(y)'))
      /\ \A c \in Cell : link'[c] = IF c = x \/ link[c] = x THEN NULL ELSE link[c]
  BY <1>2, <1>3, <1>4, <1>5, <1>6, <1>7, ErasedFromChain
<1>9. UniqueKeys' /\ Marked' /\ Valued'
  BY <1>5, <1>6, <1>8 DEF MapInv, UniqueKeys, Marked, Unmoved, Valued
<1>10. Placed'
  BY <1>5, <1>8 DEF Placed, Rooted
<1>11. Zapping'
  <2>1. link'[slot] = NULL
    BY <1>1, <1>6, <1>8 DEF MapInv, Zapping
  <2>2. \A y \in live' : Home(y)' = Home(y) /\ y \in live
    BY <1>8
  <2>3. \A y \in live : Home(y) >= slot
    BY <1>6 DEF MapInv, Zapping
  <2> QED BY <1>5, <1>6, <2>1, <2>2, <2>3 DEF Zapping
<1>12. Finding' /\ Moving'
  BY <1>5, <1>6 DEF Finding, Moving
<1> QED BY <1>9, <1>10, <1>11, <1>12 DEF MapInv

-----------------------------------------------------------------------------
(* Steps that only answer, ask or end                                      *)

QuietStep ==
    \/ ZapEmpty
    \/ \E m \in Method, r \in RequestedCapacity : Reorg(m, r)
    \/ \E m \in Method : SetMethod(m) \/ SetMethodRefused(m)
    \/ GetProvided \/ GetNotFound \/ SetUpdated \/ SetOutOfMemory \/ DelAlready
    \/ ReorgUnchanged \/ ReorgOutOfMemory \/ ShrinkOutOfMemory

LEMMA QuietStepMap ==
    ASSUME IInv, MapInv, IInv', QuietStep
    PROVE  MapInv'
<1>1. /\ UNCHANGED <<link, slots, live, key, mark, reorgMark, hashMask, capacity>>
      /\ pc \in {"idle", "find", "reorg", "resize"} /\ pc' \in {"idle", "reorg", "exited"}
      /\ method' = method \/ numberOfElms = 0
  BY DEF QuietStep, ZapEmpty, Reorg, SetMethod, SetMethodRefused, GetProvided, GetNotFound,
         SetUpdated, SetOutOfMemory, DelAlready, ReorgUnchanged, ReorgOutOfMemory,
         ShrinkOutOfMemory, Return, Exit, heapVars, tableVars, localVars
<1>2. next = NULL /\ next' = NULL
  BY <1>1 DEF IInv, Locals
<1>3. method' = method \/ live = {}
  BY <1>1, NoneCounted
<1>4. \A x \in live : val'[x] \in Value
  <2>1. CASE SetUpdated
    <3>1. cmd.val \in Value /\ val' = [val EXCEPT ![link[ptr]] = cmd.val] /\ val \in [Item -> Value \cup {NULL}]
      BY <2>1 DEF SetUpdated, MapInv, Valued, IInv, TypeOK
    <3> QED BY <3>1 DEF MapInv, Valued, IInv, TypeOK
  <2>2. CASE ~SetUpdated
    <3>1. val' = val
      BY <2>2 DEF QuietStep, ZapEmpty, Reorg, SetMethod, SetMethodRefused, GetProvided, GetNotFound,
         SetOutOfMemory, DelAlready, ReorgUnchanged, ReorgOutOfMemory,
         ShrinkOutOfMemory, Exit, heapVars
    <3> QED BY <3>1 DEF MapInv, Valued
  <2> QED BY <2>1, <2>2
<1> QED BY <1>1, <1>2, <1>3, <1>4, QuietMap

LEMMA StutterMap == ASSUME MapInv, UNCHANGED vars PROVE MapInv'
<1>1. Chain' = Chain
  BY ChainIsChainOf DEF vars, heapVars
<1>2. \A x : Home(x)' = Home(x)
  BY DEF vars, heapVars, tableVars, Home, HashOf
<1>3. Unmoved' = Unmoved
  BY DEF Unmoved, vars, heapVars, tableVars
<1>4. UniqueKeys' /\ Valued' /\ Placed' /\ Zapping'
  BY <1>2 DEF vars, heapVars, tableVars, localVars, MapInv, UniqueKeys, Valued, Placed, Rooted, Zapping
<1>5. Finding' /\ Marked'
  BY <1>1, <1>3 DEF vars, heapVars, tableVars, localVars, MapInv, Finding, Marked
<1>6. ASSUME NEW home, MovingBy(home) PROVE MovingBy(home)'
  BY <1>1, <1>2, <1>3, <1>6
     DEF vars, heapVars, tableVars, localVars, MovingBy, RootedBy, Inside, Astray
<1>7. Moving'
  BY <1>3, <1>6 DEF vars, heapVars, localVars, MapInv, Moving
<1> QED BY <1>4, <1>5, <1>7 DEF MapInv

-----------------------------------------------------------------------------
(* A reorganisation                                                        *)

\* The chains of the next state.
LEMMA ItemsInNewChains ==
    ASSUME IInv', NEW home,
           \A x \in live' : \E c \in Slots(slots') \cup live' :
              link'[c] = x /\ (c = home[x] \/ (c \in live' /\ home[c] = home[x])),
           \A x \in live' : home[x] \in Slots(slots')
    PROVE  \A x \in live' : x \in Chain'[home[x]]
<1>1. Sound(link', slots', live')
  BY IInvSound
<1>2. \A x \in live' : x \in ChainOf(link', CellOf(slots'))[home[x]]
  BY <1>1, RootedIsInChain
<1> QED BY <1>2, ChainIsChainOf

\* While items move: each is in the chain of its home and in no other.
LEMMA MovingChains ==
    ASSUME IInv, NEW home, MovingBy(home)
    PROVE  /\ \A x \in live : x \in Chain[home[x]] /\ home[x] \in Slots(slots)
           /\ \A s \in Slots(slots) : \A x \in live : x \in Chain[s] => home[x] = s
<1>1. Sound(link, slots, live)
  BY IInvSound
<1>2. /\ \A x \in live : home[x] \in Slots(slots)
      /\ \A x \in live : \E c \in Slots(slots) \cup live :
            link[c] = x /\ (c = home[x] \/ (c \in live /\ home[c] = home[x]))
  BY DEF MovingBy, RootedBy
<1>3. \A x \in live : x \in ChainOf(link, CellOf(slots))[home[x]]
  BY <1>1, <1>2, RootedIsInChain
<1>4. \A s \in Slots(slots) : \A x \in live : x \in ChainOf(link, CellOf(slots))[s] => home[x] = s
  BY <1>1, <1>2, ChainHome
<1> QED BY <1>2, <1>3, <1>4, ChainIsChainOf

\* The mark is flipped: nothing has been moved, and each item is where the
\* old method and the old size have it.
LEMMA ReorgStartMap ==
    ASSUME IInv, IInv', MapInv, ReorgStart
    PROVE  MapInv'
<1>0. PICK home : home = [x \in live |-> Home(x)]
  OBVIOUS
<1>1. /\ pc = "reorg" /\ pc' = "move" /\ next = NULL /\ next' = NULL
      /\ UNCHANGED <<live, key, val, mark, capacity>>
      /\ slot' = 0 /\ ptr' = 0 /\ processed' = 0
      /\ reorgMark' = 255 - reorgMark
  BY DEF ReorgStart, IInv, Locals
<1>2. /\ slots \in Nat /\ slots' \in Nat /\ 1 <= slots' /\ slots <= slots'
      /\ live \subseteq Item
  BY <1>1, PowerRange, NewCapacityCorrect DEF ReorgStart, ArrayForMove, AtLeast, IInv, TypeOK, ArrayBounds
<1>3. \A c \in Cell : link'[c] = link[c]
  <2>1. Slots(slots) \subseteq Slots(slots')
    BY <1>2, SlotsNested
  <2> QED BY <2>1 DEF ReorgStart, Cell
<1>4. Unmoved' = live
  <2>1. reorgMark \in {0, 255}
    BY DEF IInv, TypeOK
  <2>2. \A x \in live : mark[x] = reorgMark
    BY <1>1 DEF MapInv, Marked, Unmoved
  <2>3. reorgMark' # reorgMark
    BY <1>1, <2>1
  <2> QED BY <1>1, <2>2, <2>3 DEF Unmoved
<1>5. \A x \in live : /\ home[x] = Home(x) /\ x # NULL
                      /\ home[x] \in Slots(slots') /\ home[x] \in Slots(capacity)
  <2>1. Slots(slots) \subseteq Slots(slots')
    BY <1>2, SlotsNested
  <2> QED BY <1>0, <1>1, <1>2, <2>1, HomeInArray, CellKinds
<1>6. home \in [live -> Slots(slots')]
  BY <1>0, <1>5
<1>7. ASSUME NEW x \in live
      PROVE  \E c \in Slots(slots') \cup live :
               link'[c] = x /\ (c = home[x] \/ (c \in live /\ home[c] = home[x]))
  <2>1. PICK c \in Slots(slots) \cup live :
             link[c] = x /\ (c = Home(x) \/ (c \in live /\ Home(c) = Home(x)))
    BY <1>1, <1>5 DEF MapInv, Placed, Rooted
  <2>2. c \in Cell
    BY <1>2 DEF Cell
  <2>3. c \in Slots(slots') \cup live
    BY <1>2, <2>1, SlotsNested
  <2>4. c = home[x] \/ (c \in live /\ home[c] = home[x])
    BY <2>1, <1>5
  <2> QED BY <1>3, <2>1, <2>2, <2>3, <2>4
<1>8. \A x \in live : x \in Chain'[home[x]]
  BY <1>1, <1>5, <1>7, ItemsInNewChains
<1>9. Inside(home)'
  BY <1>1, <1>4, <1>8 DEF Inside
<1>10. \A x \in live : RootedBy(home, x)'
  BY <1>1, <1>7 DEF RootedBy
<1>11. \A x \in live : home[x] \in slot' .. capacity' - 1
  BY <1>1, <1>5 DEF Slots
<1>12. MovingBy(home)'
  BY <1>1, <1>4, <1>6, <1>9, <1>10, <1>11 DEF MovingBy
<1>13. processed' = Cardinality(live' \ Unmoved')
  <2>1. live' \ Unmoved' = {}
    BY <1>1, <1>4
  <2> QED BY <1>1, <2>1, FS_EmptySet
<1>14. Moving'
  BY <1>12, <1>13 DEF Moving
<1>15. UniqueKeys' /\ Valued' /\ Placed' /\ Zapping' /\ Finding' /\ Marked'
  BY <1>1 DEF MapInv, UniqueKeys, Valued, Placed, Zapping, Finding, Marked
<1> QED BY <1>14, <1>15 DEF MapInv

\* All items are where the new size has them: the end of the array is empty.
LEMMA ReorgEndMap ==
    ASSUME IInv, IInv', MapInv, ReorgEnd
    PROVE  MapInv'
<1>1. /\ pc = "resize" /\ pc' = "idle" /\ next = NULL /\ next' = NULL
      /\ UNCHANGED <<live, key, val, mark, method, reorgMark, hashMask>>
      /\ slots' = hashMask + 1
  BY DEF ReorgEnd, Return, IInv, Locals
<1>2. /\ hashMask \in Nat /\ slots \in Nat /\ hashMask < slots /\ live \subseteq Item
  BY DEF IInv, TypeOK, ArrayBounds
<1>3. \A c \in Slots(slots') \cup live : link'[c] = link[c]
  BY <1>2 DEF ReorgEnd
<1>4. \A x \in live : Home(x)' = Home(x) /\ x # NULL /\ Home(x) \in Slots(slots')
  <2> SUFFICES ASSUME NEW x \in live
               PROVE  Home(x)' = Home(x) /\ x # NULL /\ Home(x) \in Slots(slots')
    OBVIOUS
  <2>1. Home(x) = Hash[method][key[x]] % (hashMask + 1) /\ Home(x)' = Home(x)
    BY <1>1 DEF Home, HashOf
  <2>2. Hash[method][key[x]] \in Int
    BY HashAssumption DEF IInv, TypeOK, Locals
  <2>3. PICK h \in Int : h = Hash[method][key[x]]
    BY <2>2
  <2>4. h % (hashMask + 1) \in 0 .. hashMask
    BY <1>2
  <2>5. Home(x) \in 0 .. (hashMask + 1) - 1
    BY <1>2, <2>1, <2>3, <2>4
  <2> QED BY <1>1, <1>2, <2>1, <2>5, CellKinds DEF Slots
<1>5. Placed'
  <2> SUFFICES ASSUME NEW x \in live PROVE Rooted(x)'
    BY <1>1 DEF Placed
  <2>1. PICK c \in Slots(slots) \cup live :
             link[c] = x /\ (c = Home(x) \/ (c \in live /\ Home(c) = Home(x)))
    BY <1>1, <1>4 DEF MapInv, Placed, Rooted
  <2>2. c \in Slots(slots') \cup live
    BY <1>4, <2>1
  <2>3. link'[c] = x
    BY <1>3, <2>1, <2>2
  <2>4. c = Home(x)' \/ (c \in live' /\ Home(c)' = Home(x)')
    BY <1>1, <1>4, <2>1
  <2> QED BY <1>1, <2>2, <2>3, <2>4 DEF Rooted
<1>6. UniqueKeys' /\ Valued' /\ Zapping' /\ Finding' /\ Marked' /\ Moving'
  BY <1>1 DEF MapInv, UniqueKeys, Valued, Zapping, Finding, Marked, Unmoved, Moving
<1> QED BY <1>5, <1>6 DEF MapInv

\* When every item has been treated, each is where the new size has it.
LEMMA AllTreated ==
    ASSUME NEW home, home \in [live -> Slots(slots)], Unmoved = {},
           \A x \in live \ Unmoved : home[x] = Home(x),
           \A x \in live : RootedBy(home, x)
    PROVE  Placed
<1>1. \A x \in live : home[x] = Home(x)
  OBVIOUS
<1> QED BY <1>1 DEF Placed, Rooted, RootedBy

\* The items are all treated, or the walk goes on.
LEMMA MoveNextSlotMap ==
    ASSUME IInv, IInv', MapInv, MoveNextSlot
    PROVE  MapInv'
<1>1. /\ pc = "move" /\ link[ptr] = NULL
      /\ UNCHANGED <<link, slots, live, key, val, mark, method, reorgMark, hashMask, capacity,
                     next, processed, cmd>>
      /\ ptr \in Cell
  BY AtCell DEF MoveNextSlot, AtEnd, heapVars, tableVars
<1>2. slot \in Nat /\ capacity \in Nat /\ Unmoved \subseteq live
  BY PowerRange DEF IInv, TypeOK, Slots, Unmoved
<1>3. PICK home : MovingBy(home)
  BY <1>1 DEF MapInv, Moving
<1>4. \A x \in Unmoved : home[x] # slot
  <2>1. Chain[ptr] = {}
    BY <1>1, ChainStep
  <2> QED BY <1>3, <2>1 DEF MovingBy, Inside, Astray
<1>5. ASSUME NEW x \in Unmoved PROVE slot + 1 < capacity /\ home[x] \in slot + 1 .. capacity - 1
  <2>1. PICK h \in slot .. capacity - 1 : h = home[x]
    BY <1>3 DEF MovingBy
  <2> QED BY <1>2, <1>4, <2>1
<1>6. Unmoved' = Unmoved /\ Chain' = Chain /\ \A x : Home(x)' = Home(x)
  BY <1>1, ChainIsChainOf, HomesStay DEF Unmoved
<1>7. UniqueKeys' /\ Valued' /\ Zapping' /\ Finding'
  BY <1>1 DEF MapInv, UniqueKeys, Valued, Zapping, Finding, MoveNextSlot
<1>8. CASE slot + 1 < capacity
  <2>1. pc' = "move" /\ slot' = slot + 1 /\ ptr' = slot + 1
    BY <1>1, <1>8 DEF MoveNextSlot
  <2>2. Inside(home)'
    <3>1. \A x \in live : x \in Chain[home[x]]
      BY <1>3, MovingChains
    <3> QED BY <1>2, <1>6, <2>1, <3>1 DEF Inside
  <2>3. MovingBy(home)'
    BY <1>1, <1>3, <1>5, <1>6, <2>1, <2>2 DEF MovingBy, RootedBy
  <2>4. Moving'
    BY <1>1, <1>6, <2>3 DEF MapInv, Moving
  <2> QED BY <1>7, <2>1, <2>4 DEF MapInv, Placed, Marked
<1>9. CASE ~(slot + 1 < capacity)
  <2>1. pc' = "resize"
    BY <1>1, <1>9 DEF MoveNextSlot
  <2>2. Unmoved = {}
    BY <1>5, <1>9
  <2>3. Placed
    BY <1>3, <2>2, AllTreated DEF MovingBy
  <2>4. \A x \in live : Rooted(x) /\ x # NULL
    <3>1. \A x \in live : home[x] = Home(x) /\ RootedBy(home, x) /\ x # NULL
      BY <1>3, <2>2, CellKinds DEF MovingBy, IInv, TypeOK
    <3> QED BY <3>1 DEF Rooted, RootedBy
  <2>5. Placed'
    <3>1. next = NULL
      BY <1>1 DEF IInv, Locals
    <3>2. \A x \in live : \E c \in Slots(slots) \cup live :
               link[c] = x /\ (c = Home(x) \/ (c \in live /\ Home(c) = Home(x)))
      BY <2>4, <3>1 DEF Rooted
    <3> QED BY <1>1, <1>6, <3>2 DEF Placed, Rooted
  <2> QED BY <1>6, <1>7, <2>1, <2>2, <2>5 DEF MapInv, Marked, Moving
<1> QED BY <1>8, <1>9

\* What the walk meets has the home of the cell that leads to it.
LEMMA WalkHome ==
    ASSUME IInv, NEW home, MovingBy(home), NEW y \in live, link[ptr] = y, pc = "move"
    PROVE  /\ (ptr \in live /\ home[ptr] = home[y]) \/ (ptr \notin live /\ ptr = home[y])
           /\ home[y] \notin live
<1>1. y # NULL /\ ptr \in Cell /\ live \subseteq Item /\ home[y] \in Slots(slots)
  BY AtCell, CellKinds DEF IInv, TypeOK, MovingBy
<1>2. PICK c \in Slots(slots) \cup live :
             link[c] = y /\ (c = home[y] \/ (c \in live /\ home[c] = home[y]))
  BY DEF MovingBy, RootedBy
<1>3. c = ptr
  <2>1. c \in Cell
    BY <1>1 DEF Cell
  <2> QED BY <1>1, <1>2, <2>1 DEF IInv, NoSharing
<1>4. home[y] \notin live
  BY <1>1, CellKinds
<1> QED BY <1>2, <1>3, <1>4

LEMMA MoveMarkedMap ==
    ASSUME IInv, MapInv, MoveMarked
    PROVE  MapInv'
<1>1. /\ pc = "move" /\ pc' = "move"
      /\ UNCHANGED <<link, slots, live, key, val, mark, method, reorgMark, hashMask, capacity,
                     next, processed, cmd, slot>>
      /\ ptr \in Cell /\ ptr' = link[ptr]
  BY AtCell DEF MoveMarked, heapVars, tableVars
<1>2. PICK y \in live : y = link[ptr] /\ y \notin Unmoved /\ y # NULL
  BY AtCell DEF MoveMarked, Unmoved, AtEnd
<1>3. Unmoved' = Unmoved /\ Chain' = Chain /\ \A x : Home(x)' = Home(x)
  BY <1>1, ChainIsChainOf, HomesStay DEF Unmoved
<1>4. PICK home : MovingBy(home)
  BY <1>1 DEF MapInv, Moving
<1>5. /\ (ptr \in live /\ home[ptr] = home[y]) \/ (ptr \notin live /\ ptr = home[y])
      /\ home[y] \notin live
  BY <1>1, <1>2, <1>4, WalkHome
<1>6. slot \notin live
  BY <1>1, CellKinds DEF IInv, TypeOK
<1>7. ASSUME Inside(home) PROVE Inside(home)'
  <2>1. Chain[ptr] = {y} \cup Chain[y]
    BY <1>1, <1>2, ChainStep
  <2>2. home[y] = slot
    BY <1>5, <1>6, <1>7 DEF Inside
  <2>3. \A x \in Unmoved : home[x] = slot => x \in Chain[y]
    BY <1>2, <1>7, <2>1 DEF Inside
  <2> QED BY <1>1, <1>2, <1>3, <2>2, <2>3 DEF Inside
<1>8. ASSUME Astray(home) PROVE Astray(home)'
  BY <1>1, <1>2, <1>3, <1>5, <1>8 DEF Astray
<1>9. MovingBy(home)'
  BY <1>1, <1>3, <1>4, <1>7, <1>8 DEF MovingBy, RootedBy
<1>10. Moving'
  BY <1>1, <1>3, <1>9 DEF MapInv, Moving
<1> QED BY <1>1, <1>10 DEF MapInv, UniqueKeys, Valued, Placed, Zapping, Finding, Marked

\* One item is treated; where it goes is for the two lemmas that follow.
Treats(x) ==
    /\ x \in Unmoved /\ link[ptr] = x /\ x \in live /\ x # NULL /\ ptr \in Cell
    /\ link' = IF HashOf(key[x]) = slot THEN link
               ELSE Linked(Unlinked(ptr), x, HashOf(key[x]))
    /\ Unmoved' = Unmoved \ {x}
    /\ pc' = "move" => ptr' = x /\ slot' = slot /\ processed' = Cardinality(live \ Unmoved')
    /\ pc' # "move" => pc' = "resize" /\ Unmoved' = {}
    /\ pc = "move" /\ \A y : Home(y)' = Home(y)
    /\ UNCHANGED <<slots, live, key, val, method, reorgMark, hashMask, capacity, next, cmd>>

LEMMA TreatedItem ==
    ASSUME IInv, MapInv, MoveItem
    PROVE  Treats(link[ptr])
<1>1. /\ pc = "move" /\ ptr \in Cell
      /\ UNCHANGED <<slots, live, key, val, method, reorgMark, hashMask, capacity, next, cmd>>
      /\ live \subseteq Item /\ mark \in [Item -> {0, 255}]
  BY AtCell DEF MoveItem, tableVars, IInv, TypeOK
<1>2. PICK x \in Unmoved : x = link[ptr] /\ x \in live /\ x # NULL
  BY AtCell DEF MoveItem, Unmoved, AtEnd
<1>3. /\ mark' = [mark EXCEPT ![x] = reorgMark]
      /\ link' = IF HashOf(key[x]) = slot THEN link ELSE Linked(Unlinked(ptr), x, HashOf(key[x]))
      /\ processed' = processed + 1
      /\ IF AllMoved(processed + 1)
         THEN pc' = "resize" /\ slot' = 0 /\ ptr' = NULL
         ELSE UNCHANGED <<pc, slot>> /\ ptr' = x
  BY <1>2 DEF MoveItem
<1>4. Unmoved' = Unmoved \ {x}
  BY <1>1, <1>2, <1>3 DEF Unmoved
<1>5. processed' = Cardinality(live \ Unmoved')
  <2> DEFINE M == live \ Unmoved
  <2>1. live \ Unmoved' = M \cup {x} /\ x \notin M
    BY <1>2, <1>4
  <2>2. IsFiniteSet(M)
    BY <1>1, AddressAssumption, FS_Subset
  <2>3. processed = Cardinality(M)
    BY <1>1 DEF MapInv, Moving
  <2> HIDE DEF M
  <2> QED BY <1>3, <2>1, <2>2, <2>3, FS_AddElement
<1>6. AllMoved(processed + 1) => Unmoved' = {}
  <2> SUFFICES ASSUME AllMoved(processed + 1) PROVE Unmoved' = {}
    OBVIOUS
  <2> DEFINE M == live \ Unmoved'
  <2>1. IsFiniteSet(live) /\ M \subseteq live
    BY <1>1, AddressAssumption, FS_Subset
  <2>2. Cardinality(M) >= Cardinality(live)
    BY <1>3, <1>5 DEF AllMoved, IInv, CountExact
  <2>3. Cardinality(M) <= Cardinality(live) /\ (Cardinality(M) = Cardinality(live) => M = live)
    BY <2>1, FS_Subset
  <2>4. Cardinality(M) \in Nat /\ Cardinality(live) \in Nat
    BY <2>1, FS_Subset, FS_CardinalityType
  <2>5. M = live
    <3> HIDE DEF M
    <3> QED BY <2>2, <2>3, <2>4
  <2>6. Unmoved' \subseteq live
    BY <1>1 DEF Unmoved
  <2> QED BY <2>5, <2>6
<1>7. \A y : Home(y)' = Home(y)
  BY <1>1, HomesStay
<1> QED BY <1>1, <1>2, <1>3, <1>4, <1>5, <1>6, <1>7 DEF Treats

\* What remains to be seen of the homes after the step.
LEMMA TreatedMap ==
    ASSUME IInv', MapInv, NEW x, Treats(x), NEW home, home \in [live -> Slots(slots)],
           \A y \in Unmoved' : home[y] \in slot .. capacity - 1,
           \A y \in live \ Unmoved' : home[y] = Home(y),
           \A y \in live : RootedBy(home, y)',
           pc' = "move" => Inside(home)' \/ Astray(home)'
    PROVE  MapInv'
<1>1. UniqueKeys' /\ Valued' /\ Zapping' /\ Finding' /\ Marked'
  BY DEF Treats, MapInv, UniqueKeys, Valued, Zapping, Finding, Marked
<1>2. CASE pc' = "move"
  <2>1. MovingBy(home)'
    BY <1>2 DEF Treats, MovingBy
  <2> QED BY <1>1, <1>2, <2>1 DEF Treats, MapInv, Moving, Placed
<1>3. CASE pc' # "move"
  <2>1. \A y \in live : home[y] = Home(y)
    BY <1>3 DEF Treats
  <2>2. Placed'
    BY <2>1 DEF Treats, Placed, Rooted, RootedBy
  <2> QED BY <1>1, <1>3, <2>2 DEF MapInv, Moving
<1> QED BY <1>2, <1>3

\* An item that stays is in its slot already.
LEMMA MoveItemStays ==
    ASSUME IInv, IInv', MapInv, MoveItem, ~Strays,
           NEW x, x = link[ptr], Treats(x), HashOf(key[x]) = slot
    PROVE  MapInv'
<1>1. PICK home : MovingBy(home)
  BY DEF MapInv, Moving, Treats
<1>2. x \in Chain[slot]
  BY DEF Strays, MoveItem
<1>3. slot \in Slots(slots)
  BY PowerRange DEF IInv, TypeOK, ArrayBounds, Slots
<1>4. home[x] = slot
  BY <1>1, <1>2, <1>3, MovingChains DEF Treats
<1>5. Inside(home) /\ Unmoved \subseteq live
  BY <1>1, <1>4 DEF MovingBy, Astray, Treats, Unmoved
<1>6. Chain' = Chain /\ Chain[ptr] = {x} \cup Chain[x]
  BY ChainStep, ChainIsChainOf DEF Treats
<1>7. Home(x) = slot
  BY DEF Home
<1>8. \A y \in live \ Unmoved' : home[y] = Home(y)
  BY <1>1, <1>4, <1>7 DEF MovingBy, Treats
<1>9. pc' = "move" => Inside(home)'
  BY <1>4, <1>5, <1>6 DEF Inside, Treats
<1>10. \A y \in live : RootedBy(home, y)'
  BY <1>1 DEF MovingBy, RootedBy, Treats
<1>11. home \in [live -> Slots(slots)] /\ \A y \in Unmoved' : home[y] \in slot .. capacity - 1
  BY <1>1 DEF MovingBy, Treats
<1> QED BY <1>8, <1>9, <1>10, <1>11, TreatedMap

\* An item that leaves lets its followers hang where it hung, and becomes the
\* head of another chain, which the walk goes on in.
LEMMA MoveItemLeaves ==
    ASSUME IInv, IInv', MapInv, MoveItem, ~Strays,
           NEW x, x = link[ptr], Treats(x), NEW h, h = HashOf(key[x]), h # slot
    PROVE  MapInv'
<1>1. PICK home : MovingBy(home)
  BY DEF MapInv, Moving, Treats
<1>2. /\ x \in live /\ x \in Item /\ x \in Cell /\ live \subseteq Item /\ ptr \in Cell
      /\ \A y \in live : y # NULL /\ y \notin Slots(slots)
      /\ \A y \in live : key[y] \in Key
      /\ link[ptr] = x
      /\ link' = Linked(Unlinked(ptr), x, h)
      /\ UNCHANGED <<slots, live>>
  BY CellKinds DEF Treats, IInv, TypeOK, Cell, Locals
<1>3. h \in Slots(slots) /\ h \in Cell /\ h \notin live /\ h # ptr
  <2>1. h \in Slots(slots)
    BY <1>2, HashInArray DEF IInv
  <2> QED BY <1>1, <1>2, <2>1 DEF Cell, MovingBy, Inside, Astray
<1>4. link \in [Cell -> Item \cup {NULL}] /\ x # ptr /\ link[x] # x /\ NULL \notin Item
  BY <1>2, NoSelfLoop, CellKinds DEF IInv, TypeOK
<1>5. \A c \in Cell : link'[c] = IF c = h THEN x
                                 ELSE IF c = x THEN link[h]
                                 ELSE IF c = ptr THEN link[x] ELSE link[c]
  <2>1. Unlinked(ptr) \in [Cell -> Item \cup {NULL}]
    BY <1>2, UnlinkedType DEF IInv
  <2>2. \A c \in Cell : Unlinked(ptr)[c] = IF c = ptr THEN link[x] ELSE link[c]
    BY <1>2, <1>4 DEF Unlinked
  <2> QED BY <1>2, <1>3, <1>4, <2>1, <2>2 DEF Linked
<1> DEFINE new == [home EXCEPT ![x] = h]
<1>6. /\ home \in [live -> Slots(slots)] /\ new \in [live -> Slots(slots)]
      /\ new[x] = h /\ \A y \in live : y # x => new[y] = home[y]
  BY <1>1, <1>2, <1>3 DEF MovingBy
<1> HIDE DEF new
<1>7. \A y \in live : RootedBy(new, y)'
  <2>1. RootedBy(new, x)'
    BY <1>2, <1>3, <1>5, <1>6 DEF RootedBy
  <2>2. ASSUME NEW y \in live, y # x PROVE RootedBy(new, y)'
    <3>1. PICK c \in Slots(slots) \cup live :
            link[c] = y /\ (c = home[y] \/ (c \in live /\ home[c] = home[y]))
      BY <1>1 DEF MovingBy, RootedBy
    <3>2. c \in Cell /\ c # ptr /\ home[y] \in Slots(slots) /\ new[y] = home[y]
      BY <1>2, <1>6, <2>2, <3>1 DEF Cell
    <3>3. CASE c = h
      <4>1. link'[x] = y
        BY <1>2, <1>3, <1>5, <3>1, <3>3
      <4>2. new[x] = new[y]
        BY <1>3, <1>6, <3>1, <3>2, <3>3
      <4> QED BY <1>2, <4>1, <4>2 DEF RootedBy
    <3>4. CASE c = x
      <4>1. link'[ptr] = y
        BY <1>2, <1>3, <1>4, <1>5, <3>1, <3>4
      <4>2. home[x] = home[y]
        BY <1>2, <3>1, <3>2, <3>4
      <4>3. /\ (ptr \in live /\ home[ptr] = home[x]) \/ (ptr \notin live /\ ptr = home[x])
            /\ home[x] \notin live
        BY <1>1, <1>2, WalkHome DEF Treats
      <4>4. ptr \in Slots(slots) \cup live /\ (ptr = new[y] \/ (ptr \in live /\ new[ptr] = new[y]))
        BY <1>4, <1>6, <3>2, <4>2, <4>3
      <4> QED BY <1>2, <4>1, <4>4 DEF RootedBy
    <3>5. CASE c # h /\ c # x
      <4>1. link'[c] = y
        BY <1>5, <3>1, <3>2, <3>5
      <4>2. c = new[y] \/ (c \in live /\ new[c] = new[y])
        BY <1>6, <3>1, <3>2, <3>5
      <4> QED BY <1>2, <3>1, <4>1, <4>2 DEF RootedBy
    <3> QED BY <3>3, <3>4, <3>5
  <2> QED BY <2>1, <2>2
<1>8. Unmoved \subseteq live /\ \A y \in Unmoved' : y \in Unmoved /\ y # x /\ new[y] = home[y]
  BY <1>6 DEF Treats, Unmoved
<1>9. \A y \in Unmoved' : home[y] # slot
  <2> SUFFICES ASSUME NEW y \in Unmoved', home[y] = slot PROVE FALSE
    OBVIOUS
  <2>1. y \in Chain[slot]
    BY <1>1, <1>8, MovingChains
  <2>2. mark[y] # reorgMark /\ y # x
    BY <1>8 DEF Unmoved
  <2> QED BY <2>1, <2>2 DEF Strays, MoveItem
<1>10. pc' = "move" => Astray(new)'
  BY <1>2, <1>6, <1>8, <1>9 DEF Treats, Astray
<1>11. \A y \in live \ Unmoved' : new[y] = Home(y)
  <2>1. Home(x) = h
    BY DEF Home
  <2> QED BY <1>1, <1>6, <2>1 DEF MovingBy, Treats
<1>12. \A y \in Unmoved' : new[y] \in slot .. capacity - 1
  BY <1>1, <1>8 DEF MovingBy
<1> QED BY <1>6, <1>7, <1>10, <1>11, <1>12, TreatedMap

-----------------------------------------------------------------------------
(* The invariant holds                                                     *)

LEMMA InitMap == Init => MapInv
<1> SUFFICES ASSUME Init PROVE MapInv
  OBVIOUS
<1>1. live = {} /\ pc = "idle"
  BY DEF Init
<1> QED BY <1>1
        DEF MapInv, UniqueKeys, Valued, Placed, Zapping, Finding, Marked, Unmoved, Moving

LEMMA StepMap ==
    ASSUME IInv, IInv', MapInv, [Next]_vars, ~Strays
    PROVE  MapInv'
<1>1. CASE StartCommand
  <2>1. ASSUME NEW k \in Key, NEW v \in Value, Set(k, v) PROVE MapInv'
    BY <2>1, StartFindMap DEF Set, NoCommand
  <2>2. ASSUME NEW k \in Key, Get(k) \/ Del(k) PROVE MapInv'
    <3>1. CASE Get(k)
      BY <3>1, StartFindMap DEF Get, NoCommand
    <3>2. CASE Del(k)
      BY <3>2, StartFindMap DEF Del, NoCommand
    <3> QED BY <2>2, <3>1, <3>2
  <2> QED BY <1>1, <2>1, <2>2, QuietStepMap, ZapMap DEF StartCommand, QuietStep
<1>2. CASE Find
  BY <1>2, QuietStepMap, FindNextMap, InsertMap, DeleteMap DEF Find, QuietStep
<1>3. CASE ZapStep
  BY <1>3, ZapEmptySlotMap, ZapHeadMap, ZapTailMap, ZapTailEndMap DEF ZapStep
<1>4. CASE ReorgStep
  <2>1. CASE MoveItem
    BY <2>1, TreatedItem, MoveItemStays, MoveItemLeaves
  <2>2. CASE ~MoveItem
    BY <1>4, <2>2, QuietStepMap, ReorgStartMap, ReorgEndMap, MoveNextSlotMap, MoveMarkedMap
       DEF ReorgStep, MoveStep, QuietStep
  <2> QED BY <2>1, <2>2
<1>5. CASE Exited \/ UNCHANGED vars
  BY <1>5, StutterMap DEF Exited
<1> QED BY <1>1, <1>2, <1>3, <1>4, <1>5 DEF Next, RunCommand

\* Every item is where it belongs, in every step, unless a reorganisation goes
\* astray.
THEOREM MapInvariance == Spec => [](IInv /\ MapInv) \/ <>Strays
<1>1. IInv /\ MapInv /\ [Next]_vars /\ ~Strays => IInv' /\ MapInv'
  BY StepInvariant, StepMap
<1> QED BY <1>1, InitInvariant, InitMap, PTL DEF Spec

\* No key has two items unless a reorganisation goes astray: sets, deletions and
\* all other reorganisations leave no second item for a key.
THEOREM KeysUnique == Spec => []UniqueKeys \/ <>Strays
<1>1. MapInv => UniqueKeys
  BY DEF MapInv
<1> QED BY <1>1, MapInvariance, PTL

\* Between commands every item carries the present mark, so that the next flip
\* makes all of them look untreated, unless a reorganisation goes astray.
THEOREM MarksAreCurrent == Spec => []MarksCurrent \/ <>Strays
<1>1. MapInv => MarksCurrent
  BY DEF MapInv, Marked, Unmoved, MarksCurrent
<1> QED BY <1>1, MapInvariance, PTL

\* Between commands findItem meets every item that is allocated, whatever the
\* keys, hashes and methods, unless a reorganisation goes astray.
THEOREM ItemsAreFindable == Spec => []ItemsFindable \/ <>Strays
<1>1. ASSUME IInv, MapInv PROVE ItemsFindable
  <2> SUFFICES ASSUME pc = "idle", NEW x \in live PROVE Findable(x)
    BY DEF ItemsFindable
  <2>1. next = NULL /\ Placed
    BY <1>1 DEF IInv, Locals, MapInv
  <2>2. Home(x) = HashOf(key[x])
    BY DEF Home
  <2>3. x \in Chain[Home(x)]
    BY <1>1, <2>1, ItemsInChains
  <2> QED BY <2>2, <2>3 DEF Findable
<1> QED BY <1>1, MapInvariance, PTL

-----------------------------------------------------------------------------
(* The table implements the map                                            *)

\* M is what the items V with the keys K and the values W store.
Stores(M, V, K, W) ==
    /\ M = [k \in Key |-> M[k]]
    /\ \A x \in V : M[K[x]] = W[x]
    /\ \A k \in Key : (\A x \in V : K[x] # k) => M[k] = NULL

LEMMA StoresOne ==
    ASSUME NEW V, NEW K, NEW W, NEW M, NEW N, Stores(M, V, K, W), Stores(N, V, K, W)
    PROVE  M = N
<1>1. \A k \in Key : M[k] = N[k]
  BY DEF Stores
<1>2. [k \in Key |-> M[k]] = [k \in Key |-> N[k]]
  BY <1>1
<1> QED BY <1>2 DEF Stores

MapOf(V, K, W, p) ==
    [k \in Key |->
       IF p \notin {"zap", "zapTail"} /\ \E x \in V : K[x] = k
       THEN W[CHOOSE x \in V : K[x] = k] ELSE NULL]

LEMMA MapIsMapOf == Map = MapOf(live, key, val, pc) /\ Map' = MapOf(live', key', val', pc')
BY DEF Map, MapOf

LEMMA MapOfStores ==
    ASSUME NEW V, NEW K, NEW W, NEW p, p \notin {"zap", "zapTail"},
           \A x \in V : K[x] \in Key, \A x, y \in V : K[x] = K[y] => x = y
    PROVE  Stores(MapOf(V, K, W, p), V, K, W)
<1> DEFINE M == MapOf(V, K, W, p)
<1>1. M = [k \in Key |-> M[k]]
  BY DEF MapOf
<1>2. \A x \in V : M[K[x]] = W[x]
  <2> SUFFICES ASSUME NEW x \in V PROVE M[K[x]] = W[x]
    OBVIOUS
  <2>1. PICK y \in V : y = CHOOSE z \in V : K[z] = K[x]
    OBVIOUS
  <2>2. K[y] = K[x]
    BY <2>1
  <2>3. y = x
    BY <2>2
  <2> QED BY <2>1, <2>3 DEF MapOf
<1>3. \A k \in Key : (\A x \in V : K[x] # k) => M[k] = NULL
  BY DEF MapOf
<1> QED BY <1>1, <1>2, <1>3 DEF Stores

LEMMA MapStores ==
    /\ IInv /\ MapInv /\ pc \notin {"zap", "zapTail"} => Stores(Map, live, key, val)
    /\ IInv' /\ MapInv' /\ pc' \notin {"zap", "zapTail"} => Stores(Map', live', key', val')
<1>1. IInv /\ MapInv => (\A x \in live : key[x] \in Key) /\ (\A x, y \in live : key[x] = key[y] => x = y)
  BY DEF IInv, Locals, MapInv, UniqueKeys
<1>2. IInv' /\ MapInv' => (\A x \in live' : key'[x] \in Key) /\ (\A x, y \in live' : key'[x] = key'[y] => x = y)
  BY DEF IInv, Locals, MapInv, UniqueKeys
<1> QED BY <1>1, <1>2, MapOfStores, MapIsMapOf

\* While zap runs, the map is empty already.
LEMMA ZappedMap ==
    /\ pc \in {"zap", "zapTail"} \/ live = {} => Map = [k \in Key |-> NULL]
    /\ pc' \in {"zap", "zapTail"} \/ live' = {} => Map' = [k \in Key |-> NULL]
<1>1. ASSUME NEW V, NEW K, NEW W, NEW p, p \in {"zap", "zapTail"} \/ V = {}
      PROVE  MapOf(V, K, W, p) = [k \in Key |-> NULL]
  BY <1>1 DEF MapOf
<1> QED BY <1>1, MapIsMapOf

\* Steps that neither write to an item nor decide an answer.
LEMMA SameMap ==
    ASSUME UNCHANGED <<live, key, val>>,
           pc \notin {"zap", "zapTail"}, pc' \notin {"zap", "zapTail"}
    PROVE  Map' = Map
<1>1. ASSUME NEW V, NEW K, NEW W, NEW p, NEW q, p \notin {"zap", "zapTail"}, q \notin {"zap", "zapTail"}
      PROVE  MapOf(V, K, W, p) = MapOf(V, K, W, q)
  BY <1>1 DEF MapOf
<1> QED BY <1>1, MapIsMapOf

\* What findItem has found, or not.
LEMMA AtKeyInMap ==
    ASSUME IInv, MapInv, pc = "find"
    PROVE  /\ cmd.key \in Key /\ Map = [k \in Key |-> Map[k]]
           /\ AtKey => Map[cmd.key] = val[link[ptr]] /\ Map[cmd.key] \in Value /\ Map[cmd.key] # NULL
           /\ AtEnd => Map[cmd.key] = NULL
<1>1. cmd.key \in Key /\ Stores(Map, live, key, val) /\ NULL \notin Value
  BY MapStores, AddressAssumption DEF IInv, Locals
<1>2. ASSUME AtKey PROVE Map[cmd.key] = val[link[ptr]] /\ Map[cmd.key] \in Value
  <2>1. PICK x \in live : x = link[ptr] /\ key[x] = cmd.key
    BY <1>2, AtCell DEF AtKey
  <2> QED BY <1>1, <2>1 DEF Stores, MapInv, Valued
<1>3. AtEnd => Map[cmd.key] = NULL
  BY <1>1, EndMeansAbsent DEF Stores
<1> QED BY <1>1, <1>2, <1>3 DEF Stores

LEMMA GetRefines ==
    ASSUME IInv, MapInv, GetProvided \/ GetNotFound
    PROVE  KVS!Get(cmd.key) /\ cmd.key \in Key
<1>1. pc = "find" /\ Map' = Map
  <2>1. pc = "find" /\ pc' = "idle" /\ UNCHANGED <<live, key, val>>
    BY DEF GetProvided, GetNotFound, Return, heapVars
  <2> QED BY <2>1, SameMap
<1>2. CASE GetProvided
  <2>1. AtKey /\ reply' = [status |-> "PROVIDED", key |-> cmd.key, val |-> val[link[ptr]]]
    BY <1>2 DEF GetProvided, Return, Answer
  <2> QED BY <1>1, <2>1, AtKeyInMap DEF KVS!Get, KVS!Answer, KVS!Present
<1>3. CASE GetNotFound
  <2>1. AtEnd /\ reply' = [status |-> "NOT_FOUND", key |-> cmd.key, val |-> NULL]
    BY <1>3 DEF GetNotFound, Return, Answer
  <2> QED BY <1>1, <2>1, AtKeyInMap DEF KVS!Get, KVS!Answer, KVS!Present
<1> QED BY <1>2, <1>3

LEMMA SetUpdatedRefines ==
    ASSUME IInv, MapInv, IInv', MapInv', SetUpdated
    PROVE  KVS!Set(cmd.key, cmd.val) /\ cmd.key \in Key /\ cmd.val \in Value
<1>1. /\ pc = "find" /\ pc' = "idle" /\ AtKey /\ UNCHANGED <<live, key>>
      /\ val' = [val EXCEPT ![link[ptr]] = cmd.val]
      /\ reply' = [status |-> "UPDATED", key |-> cmd.key, val |-> NULL]
      /\ cmd.val \in Value
  BY DEF SetUpdated, Return, Answer, MapInv, Valued
<1>2. PICK x \in live : x = link[ptr] /\ key[x] = cmd.key /\ x \in Item
  BY <1>1, AtCell DEF AtKey
<1>3. \A y \in live : val'[y] = IF y = x THEN cmd.val ELSE val[y]
  BY <1>1, <1>2 DEF IInv, TypeOK
<1>4. \A y \in live : key[y] = cmd.key <=> y = x
  BY <1>2 DEF MapInv, UniqueKeys
<1>5. Stores(Map, live, key, val) /\ Stores(Map', live', key', val')
  BY <1>1, MapStores
<1>6. cmd.key \in Key /\ \A y \in live : key[y] \in Key
  BY <1>1 DEF IInv, Locals
<1> DEFINE N == [Map EXCEPT ![cmd.key] = cmd.val]
<1>7. Stores(N, live', key', val')
  <2>1. \A k \in Key : N[k] = IF k = cmd.key THEN cmd.val ELSE Map[k]
    BY <1>5 DEF Stores
  <2>2. N = [k \in Key |-> N[k]]
    BY <1>5 DEF Stores
  <2> HIDE DEF N
  <2>3. \A y \in live : N[key[y]] = val'[y]
    BY <1>3, <1>4, <1>5, <1>6, <2>1 DEF Stores
  <2>4. \A k \in Key : (\A y \in live : key[y] # k) => N[k] = NULL
    BY <1>2, <1>5, <2>1 DEF Stores
  <2> QED BY <1>1, <2>2, <2>3, <2>4 DEF Stores
<1>8. Map' = N
  <2> HIDE DEF N
  <2> QED BY <1>5, <1>7, StoresOne
<1> QED BY <1>1, <1>6, <1>8, AtKeyInMap DEF KVS!Set, KVS!Answer, KVS!Present

LEMMA SetInsertedRefines ==
    ASSUME IInv, MapInv, IInv', MapInv', SetInserted
    PROVE  KVS!Set(cmd.key, cmd.val) /\ cmd.key \in Key /\ cmd.val \in Value
<1>1. PICK x \in Item \ live :
        /\ live' = live \cup {x}
        /\ key' = [key EXCEPT ![x] = cmd.key]
        /\ val' = [val EXCEPT ![x] = cmd.val]
  BY DEF SetInserted
<1>2. /\ pc = "find" /\ pc' = "reorg" /\ AtEnd
      /\ reply' = [status |-> "INSERTED", key |-> cmd.key, val |-> NULL]
      /\ cmd.val \in Value /\ cmd.key \in Key
  BY DEF SetInserted, Answer, MapInv, Valued, IInv, Locals
<1>3. /\ \A y \in live : y # x /\ val'[y] = val[y] /\ key'[y] = key[y] /\ key[y] \in Key
      /\ val'[x] = cmd.val /\ key'[x] = cmd.key
  BY <1>1 DEF IInv, TypeOK, Locals
<1>4. \A y \in live : key[y] # cmd.key
  BY <1>2, EndMeansAbsent
<1>5. Stores(Map, live, key, val) /\ Stores(Map', live', key', val')
  BY <1>2, MapStores
<1> DEFINE N == [Map EXCEPT ![cmd.key] = cmd.val]
<1>6. Stores(N, live', key', val')
  <2>1. \A k \in Key : N[k] = IF k = cmd.key THEN cmd.val ELSE Map[k]
    BY <1>5 DEF Stores
  <2>2. N = [k \in Key |-> N[k]]
    BY <1>5 DEF Stores
  <2> HIDE DEF N
  <2>3. \A y \in live' : N[key'[y]] = val'[y]
    BY <1>1, <1>2, <1>3, <1>4, <1>5, <2>1 DEF Stores
  <2>4. \A k \in Key : (\A y \in live' : key'[y] # k) => N[k] = NULL
    BY <1>1, <1>3, <1>5, <2>1 DEF Stores
  <2> QED BY <2>2, <2>3, <2>4 DEF Stores
<1>7. Map' = N
  <2> HIDE DEF N
  <2> QED BY <1>5, <1>6, StoresOne
<1> QED BY <1>2, <1>7, AtKeyInMap DEF KVS!Set, KVS!Answer, KVS!Present

LEMMA DelRefines ==
    ASSUME IInv, MapInv, IInv', MapInv', DelDeleted \/ DelAlready
    PROVE  KVS!Del(cmd.key) /\ cmd.key \in Key
<1>1. CASE DelAlready
  <2>1. /\ pc = "find" /\ pc' = "idle" /\ AtEnd /\ UNCHANGED <<live, key, val>>
        /\ reply' = [status |-> "ALREADY", key |-> cmd.key, val |-> NULL]
    BY <1>1 DEF DelAlready, Return, Answer, heapVars
  <2>2. Map' = Map /\ Map[cmd.key] = NULL /\ cmd.key \in Key /\ Map = [k \in Key |-> Map[k]]
    BY <2>1, SameMap, AtKeyInMap
  <2>3. [Map EXCEPT ![cmd.key] = NULL] = Map
    BY <2>2
  <2> QED BY <2>1, <2>2, <2>3 DEF KVS!Del, KVS!Answer, KVS!Present
<1>2. CASE DelDeleted
  <2>1. PICK x \in live : x = link[ptr] /\ key[x] = cmd.key /\ x \in Item
    BY <1>2, AtCell DEF DelDeleted, AtKey
  <2>2. /\ pc = "find" /\ pc' = "reorg" /\ AtKey
        /\ live' = live \ {x}
        /\ key' = [key EXCEPT ![x] = NULL]
        /\ val' = [val EXCEPT ![x] = NULL]
        /\ reply' = [status |-> "DELETED", key |-> cmd.key, val |-> NULL]
    BY <1>2, <2>1 DEF DelDeleted, EraseCounted, Erase, Answer
  <2>3. /\ cmd.key \in Key
        /\ \A y \in live' : y \in live /\ y # x /\ val'[y] = val[y] /\ key'[y] = key[y] /\ key[y] \in Key
    BY <2>2 DEF IInv, TypeOK, Locals
  <2>4. \A y \in live : key[y] = cmd.key <=> y = x
    BY <2>1 DEF MapInv, UniqueKeys
  <2>5. Stores(Map, live, key, val) /\ Stores(Map', live', key', val')
    BY <2>2, MapStores
  <2> DEFINE N == [Map EXCEPT ![cmd.key] = NULL]
  <2>6. Stores(N, live', key', val')
    <3>1. \A k \in Key : N[k] = IF k = cmd.key THEN NULL ELSE Map[k]
      BY <2>5 DEF Stores
    <3>2. N = [k \in Key |-> N[k]]
      BY <2>5 DEF Stores
    <3> HIDE DEF N
    <3>3. \A y \in live' : N[key'[y]] = val'[y]
      BY <2>3, <2>4, <2>5, <3>1 DEF Stores
    <3>4. ASSUME NEW k \in Key, \A y \in live' : key'[y] # k PROVE N[k] = NULL
      <4>1. CASE k = cmd.key
        BY <3>1, <4>1
      <4>2. CASE k # cmd.key
        <5>1. \A y \in live : key[y] # k
          BY <2>1, <2>2, <2>3, <3>4, <4>2
        <5> QED BY <2>5, <3>1, <4>2, <5>1 DEF Stores
      <4> QED BY <4>1, <4>2
    <3> QED BY <3>2, <3>3, <3>4 DEF Stores
  <2>7. Map' = N
    <3> HIDE DEF N
    <3> QED BY <2>5, <2>6, StoresOne
  <2> QED BY <2>2, <2>3, <2>7, AtKeyInMap DEF KVS!Del, KVS!Answer, KVS!Present
<1> QED BY <1>1, <1>2

LEMMA ZapRefines ==
    ASSUME IInv, MapInv, Zap \/ ZapEmpty
    PROVE  KVS!Zap
<1>1. CASE Zap
  <2>1. /\ pc = "idle" /\ numberOfElms # 0 /\ pc' = "zap"
        /\ reply' = [status |-> "ZAPPED", key |-> NULL, val |-> NULL]
    BY <1>1 DEF Zap, Answer
  <2>2. PICK x \in live : TRUE
    BY <2>1, FS_EmptySet DEF IInv, CountExact
  <2>3. key[x] \in Key /\ Map[key[x]] # NULL
    BY <2>1, MapStores, AddressAssumption DEF Stores, IInv, Locals, MapInv, Valued
  <2> QED BY <2>1, <2>3, ZappedMap DEF KVS!Zap, KVS!Answer, KVS!Present
<1>2. CASE ZapEmpty
  <2>1. /\ live = {} /\ live' = {}
        /\ reply' = [status |-> "EMPTY", key |-> NULL, val |-> NULL]
    BY <1>2, NoneCounted DEF ZapEmpty, Return, Answer, heapVars
  <2>2. Map = [k \in Key |-> NULL] /\ Map' = [k \in Key |-> NULL]
    BY <2>1, ZappedMap
  <2>3. \A k \in Key : Map[k] = NULL
    BY <2>2
  <2> QED BY <2>1, <2>2, <2>3 DEF KVS!Zap, KVS!Answer, KVS!Present
<1> QED BY <1>1, <1>2

\* While zap deletes the items one by one, nobody can look.
LEMMA ZapStutters ==
    ASSUME IInv, IInv', MapInv, ZapStep
    PROVE  Map' = Map /\ reply' = reply
<1>1. pc \in {"zap", "zapTail"} /\ reply' = reply
  BY DEF ZapStep, ZapEmptySlot, ZapHead, ZapTail, ZapTailEnd, ZapUnchanged
<1>2. pc' \in {"zap", "zapTail"} \/ live' = {}
  <2>1. CASE ZapHead
    <3>1. pc' = "zapTail" \/ numberOfElms' = 0
      BY <2>1 DEF ZapHead, EraseCounted
    <3> QED BY <3>1, NoneCounted
  <2>2. CASE ZapTail
    BY <2>2 DEF ZapTail
  <2> QED BY <2>1, <2>2, ZapEmptySlotMap, ZapTailEndMap DEF ZapStep
<1> QED BY <1>1, <1>2, ZappedMap

\* The reply of a reorganisation; those of set, del and zap are decided.
LEMMA ReorgRefines ==
    ASSUME ReorgUnchanged \/ ReorgEnd
    PROVE  KVS!Reorg \/ (Map' = Map /\ reply' = reply)
<1>1. /\ pc \notin {"zap", "zapTail"} /\ pc' = "idle" /\ UNCHANGED <<live, key, val>>
      /\ reply' \in {ReorgReply("UNCHANGED"), ReorgReply("REORGANIZED")}
  BY DEF ReorgUnchanged, ReorgEnd, Return, heapVars
<1>2. Map' = Map
  BY <1>1, SameMap
<1> QED BY <1>1, <1>2 DEF ReorgReply, Answer, KVS!Reorg, KVS!Answer

\* Everything else is inside of a command.
InnerStep ==
    \/ \E k \in Key, v \in Value : Set(k, v)
    \/ \E k \in Key : Get(k) \/ Del(k)
    \/ \E m \in Method, r \in RequestedCapacity : Reorg(m, r)
    \/ \E m \in Method : SetMethod(m) \/ SetMethodRefused(m)
    \/ FindNext \/ SetOutOfMemory
    \/ ReorgStart \/ ReorgOutOfMemory \/ MoveStep \/ ShrinkOutOfMemory
    \/ Exited

LEMMA InnerStutters == ASSUME InnerStep PROVE Map' = Map /\ reply' = reply
<1>1. /\ UNCHANGED <<live, key, val, reply>>
      /\ pc \notin {"zap", "zapTail"} /\ pc' \notin {"zap", "zapTail"}
  BY DEF InnerStep, Set, Get, Del, StartFind, Reorg, SetMethod, SetMethodRefused, FindNext,
         SetOutOfMemory, ReorgStart, ReorgOutOfMemory, MoveStep, MoveNextSlot, MoveMarked,
         MoveItem, ShrinkOutOfMemory, Exited, Exit, vars, heapVars, tableVars, localVars
<1> QED BY <1>1, SameMap

LEMMA RefinementStep ==
    ASSUME IInv, IInv', MapInv, MapInv', [Next]_vars
    PROVE  [KVS!Next]_(KVS!vars)
<1>1. CASE GetProvided \/ GetNotFound
  BY <1>1, GetRefines DEF KVS!Next
<1>2. CASE SetUpdated \/ SetInserted
  BY <1>2, SetUpdatedRefines, SetInsertedRefines DEF KVS!Next
<1>3. CASE DelDeleted \/ DelAlready
  BY <1>3, DelRefines DEF KVS!Next
<1>4. CASE Zap \/ ZapEmpty
  BY <1>4, ZapRefines DEF KVS!Next
<1>5. CASE ZapStep
  BY <1>5, ZapStutters DEF KVS!vars, MapInv
<1>6. CASE ReorgUnchanged \/ ReorgEnd
  BY <1>6, ReorgRefines DEF KVS!Next, KVS!vars
<1>7. CASE InnerStep
  BY <1>7, InnerStutters DEF KVS!vars
<1>8. CASE UNCHANGED vars
  <2>1. UNCHANGED <<live, key, val, pc, reply>>
    BY <1>8 DEF vars, heapVars
  <2>2. Map' = Map
    BY <2>1, MapIsMapOf
  <2> QED BY <2>1, <2>2 DEF KVS!vars
<1> QED BY <1>1, <1>2, <1>3, <1>4, <1>5, <1>6, <1>7, <1>8
        DEF Next, StartCommand, RunCommand, Find, ReorgStep, InnerStep

\* Through pointers, resizes and re-hashing, the table answers and acts as a map
\* from keys to values, unless a reorganisation goes astray: every command is
\* one step of the map, and every other step of the table leaves the map alone.
THEOREM TableImplementsMap == Spec => ImplementsMap \/ <>Strays
<1>1. Init => KVS!Init
  <2> SUFFICES ASSUME Init PROVE KVS!Init
    OBVIOUS
  <2>1. live = {} /\ reply = [status |-> "UNCHANGED", key |-> NULL, val |-> NULL]
    BY DEF Init, Answer
  <2> QED BY <2>1, ZappedMap DEF KVS!Init, KVS!NoReply
<1>2. (IInv /\ MapInv) /\ (IInv /\ MapInv)' /\ [Next]_vars => [KVS!Next]_(KVS!vars)
  BY RefinementStep
<1> QED BY <1>1, <1>2, MapInvariance, PTL DEF Spec, ImplementsMap, KVS!Spec

=============================================================================
