------------------------------ MODULE HashTable ------------------------------
(***************************************************************************)
(* The chained hash table of the hashr server (server/src/HashTable.c over *)
(* server/src/HashItem.c), at the level of its pointers.                   *)
(*                                                                         *)
(* The daemon is one thread, and a command runs to its return before the   *)
(* next one starts.  What makes the table hard is inside a command: the    *)
(* walks over chains through a HashItem** while the chains are re-linked,  *)
(* and the order in which a reorganisation flips the mark, changes method  *)
(* and mask, resizes the array and moves the items.  So every iteration of *)
(* those loops is a step of its own, and pc says which loop is running;    *)
(* a new command can start in pc = "idle" only.                            *)
(*                                                                         *)
(* The memory.  An Item is the address of a HashItem; live holds those     *)
(* allocated.  The domain of link is every cell of memory that holds a     *)
(* HashItem*: the slots 0 .. slots-1 of the items array, and the next      *)
(* field of every item.  So a HashItem** of the code (&items[i], or        *)
(* &item->next) is an element of that domain, and *itemPtr is link[ptr].   *)
(***************************************************************************)
EXTENDS Integers, FiniteSets

CONSTANTS
    Item,               \* addresses malloc can return for a HashItem
    Key, Value,         \* byte strings, compared for equality only
    NULL,
    Method,             \* the hash methods
    DefaultMethod,      \* Hasher_METHOD_DEFAULT
    Hash,               \* Hash[m][k]: Hasher_hash(m, k), any int, before the mask
    CapacityMin,        \* HashTable_CAPACITY_MIN
    CapacityMax,        \* HashTable_CAPACITY_MAX
    RequestedCapacity,  \* values of the RCAP chunk of reorg; -1 when absent
    MemoryFails         \* TRUE if malloc and realloc may return NULL (but see
                        \* SetUpdated)

\* The powers of two a C int can hold.
PowersOfTwo ==
    { 1, 2, 4, 8, 16, 32, 64, 128, 256, 512, 1024, 2048, 4096, 8192, 16384,
      32768, 65536, 131072, 262144, 524288, 1048576, 2097152, 4194304,
      8388608, 16777216, 33554432, 67108864, 134217728, 268435456,
      536870912, 1073741824 }

LargestPower == 1073741824

ASSUME AddressAssumption ==
    /\ IsFiniteSet(Item)
    /\ Item \cap Int = {}
    /\ NULL \notin Item \cup Int \cup Key \cup Value \cup Method

\* Three times the number of items must not leave the int range.
ASSUME SizeAssumption == 3 * Cardinality(Item) \in 0 .. LargestPower

ASSUME HashAssumption ==
    /\ DefaultMethod \in Method
    /\ Hash \in [Method -> [Key -> Int]]

ASSUME CapacityAssumption ==
    /\ CapacityMin \in PowersOfTwo
    /\ CapacityMax \in PowersOfTwo
    /\ CapacityMin <= CapacityMax
    /\ RequestedCapacity \subseteq Int

ASSUME MemoryAssumption == MemoryFails \in BOOLEAN

VARIABLES
    \* the heap
    link,               \* items[i] and item->next
    slots,              \* length of the allocated items array
    live,               \* the HashItems that are allocated
    key, val, mark,     \* key, value and reorgMark of every item
    \* struct HashTable
    method, capacity, minCapacity, hashMask, numberOfElms,
    reorgMark, lastCommandEffect,
    \* the running command and its locals
    pc,                 \* the loop that is running
    cmd,                \* the command and its parameters
    ptr,                \* itemPtr
    next,               \* next, in performZap
    slot,               \* i
    processed,          \* processed, in moveItems
    reply               \* the last reply that was decided

heapVars  == <<link, slots, live, key, val, mark>>
tableVars == <<method, capacity, minCapacity, hashMask, numberOfElms,
               reorgMark, lastCommandEffect>>
localVars == <<ptr, next, slot, processed>>
vars      == <<heapVars, tableVars, localVars, pc, cmd, reply>>

Status == { "INSERTED", "UPDATED", "PROVIDED", "NOT_FOUND", "DELETED",
            "ALREADY", "ZAPPED", "EMPTY", "REORGANIZED", "UNCHANGED" }

Reply == [status : Status, key : Key \cup {NULL}, val : Value \cup {NULL}]

Answer(status, k, v) == [status |-> status, key |-> k, val |-> v]

Command == [op : {"none", "set", "get", "del", "zap", "reorg"},
            key : Key \cup {NULL}, val : Value \cup {NULL},
            method : Method \cup {NULL}]

NoCommand == [op |-> "none", key |-> NULL, val |-> NULL, method |-> NULL]

Slots(n) == 0 .. n - 1
Cell     == Slots(slots) \cup Item       \* the domain of link

(***************************************************************************)
(* Some definitions are preceded by a faulty variant of themselves, marked *)
(* "Faulty".  Nothing uses these: they are mistakes one could make in the  *)
(* code, each of which violates a property that the correct one satisfies. *)
(***************************************************************************)

-----------------------------------------------------------------------------
(* Sizes                                                                   *)

\* 0 for 0: the decrement gives a word of ones and the increment wraps it.
RoundUp2Power(v) ==
    IF v <= 0 THEN 0 ELSE CHOOSE p \in PowersOfTwo : v <= p /\ p < 2 * v

AtLeast(a, b) == IF a < b THEN b ELSE a
AtMost(a, b)  == IF a > b THEN b ELSE a

\* Faulty: a requested minimum is not rounded to a power of two.
LimitsUnrounded(c) == AtMost(AtLeast(c, CapacityMin), CapacityMax)

ApplyCapacityLimits(c) ==
    RoundUp2Power(AtMost(AtLeast(c, CapacityMin), CapacityMax))

\* Faulty: one slot per item is taken to be enough.
OptimalTight == RoundUp2Power(numberOfElms)

CalcOptimalCapacity ==
    RoundUp2Power(IF lastCommandEffect = "EXPAND"
                  THEN 2 * numberOfElms ELSE 3 * numberOfElms)

\* -1 stands for "no minimum requested" and keeps the present one.
CalcMinCapacity(requested) ==
    ApplyCapacityLimits(
        AtLeast(ApplyCapacityLimits(IF requested = -1 THEN minCapacity ELSE requested),
                CalcOptimalCapacity))

\* Faulty: capacity still has the old size when moveItems hashes the keys.
HashByCapacity(k) == Hash[method][k] % capacity

\* The mask is one less than a power of two, so "& mask" is a remainder.
HashOf(k) == Hash[method][k] % (hashMask + 1)

-----------------------------------------------------------------------------
(* Chains                                                                  *)

\* Faulty: the item stays in its chain; the item takes its followers along.
NotUnlinked(c)      == link
UnlinkedWithRest(c) == [link EXCEPT ![c] = NULL]

\* The links when the item at cell c is taken out of its chain.
Unlinked(c) == [link EXCEPT ![c] = link[link[c]]]

\* Faulty: the slot is assigned first, and the item made to follow itself.
LinkedBackwards(l, item, hash) == [l EXCEPT ![item] = item, ![hash] = item]

\* linkItem: the item becomes the head of the chain of slot hash.
Linked(l, item, hash) == [l EXCEPT ![item] = l[hash], ![hash] = item]

\* delete_HashItem: the address may be returned by a later malloc.
Erase(item, l) ==
    /\ live' = live \ {item}
    /\ key' = [key EXCEPT ![item] = NULL]
    /\ val' = [val EXCEPT ![item] = NULL]
    /\ mark' = [mark EXCEPT ![item] = 0]
    /\ link' = [l EXCEPT ![item] = NULL]
    /\ UNCHANGED slots

\* Faulty: the item is deleted and counted still.
EraseUncounted(item, l) == Erase(item, l) /\ UNCHANGED numberOfElms

EraseCounted(item, l) == Erase(item, l) /\ numberOfElms' = numberOfElms - 1

-----------------------------------------------------------------------------
(* Construction, the start of a command, and its return                    *)

Init ==
    /\ slots = ApplyCapacityLimits(CapacityMin)
    /\ link = [c \in Slots(slots) \cup Item |-> NULL]
    /\ live = {}
    /\ key = [x \in Item |-> NULL]
    /\ val = [x \in Item |-> NULL]
    /\ mark = [x \in Item |-> 0]
    /\ method = DefaultMethod
    /\ capacity = slots
    /\ minCapacity = slots
    /\ hashMask = slots - 1
    /\ numberOfElms = 0
    /\ reorgMark = 0
    /\ lastCommandEffect = "EXPAND"
    /\ pc = "idle"
    /\ cmd = NoCommand
    /\ ptr = NULL /\ next = NULL /\ slot = 0 /\ processed = 0
    /\ reply = Answer("UNCHANGED", NULL, NULL)

\* The locals are dead after a return.
Return(r) ==
    /\ pc' = "idle"
    /\ cmd' = NoCommand
    /\ ptr' = NULL /\ next' = NULL /\ slot' = 0 /\ processed' = 0
    /\ reply' = r

\* The logger reports a fatal error and the process ends; nothing that was
\* in its memory matters any more.
Exit ==
    /\ pc' = "exited"
    /\ UNCHANGED <<heapVars, tableVars, localVars, cmd, reply>>

\* set, get and del hash the key and look for it in its chain.
StartFind(c) ==
    /\ pc = "idle"
    /\ pc' = "find"
    /\ cmd' = c
    /\ ptr' = HashOf(c.key)
    /\ UNCHANGED <<heapVars, tableVars, next, slot, processed, reply>>

Set(k, v) == StartFind([NoCommand EXCEPT !.op = "set", !.key = k, !.val = v])
Get(k)    == StartFind([NoCommand EXCEPT !.op = "get", !.key = k])
Del(k)    == StartFind([NoCommand EXCEPT !.op = "del", !.key = k])

ZapEmpty ==
    /\ pc = "idle"
    /\ numberOfElms = 0
    /\ Return(Answer("EMPTY", NULL, NULL))
    /\ UNCHANGED <<heapVars, tableVars>>

Zap ==
    /\ pc = "idle"
    /\ numberOfElms # 0
    /\ pc' = "zap"
    /\ cmd' = [NoCommand EXCEPT !.op = "zap"]
    /\ slot' = 0
    /\ reply' = Answer("ZAPPED", NULL, NULL)
    /\ UNCHANGED <<heapVars, tableVars, ptr, next, processed>>

\* The reorg command: a new lower bound for the capacity, then performReorg.
Reorg(m, requested) ==
    /\ pc = "idle"
    /\ pc' = "reorg"
    /\ cmd' = [NoCommand EXCEPT !.op = "reorg", !.method = m]
    /\ minCapacity' = CalcMinCapacity(requested)
    /\ UNCHANGED <<heapVars, localVars, reply, method, capacity, hashMask,
                   numberOfElms, reorgMark, lastCommandEffect>>

\* Only on an empty table (2809 otherwise), where no item is in a slot that
\* the old method chose.
SetMethod(m) ==
    /\ pc = "idle"
    /\ numberOfElms = 0 \/ method = m
    /\ method' = m
    /\ UNCHANGED <<heapVars, localVars, pc, cmd, reply, capacity, minCapacity,
                   hashMask, numberOfElms, reorgMark, lastCommandEffect>>

SetMethodRefused(m) ==
    /\ pc = "idle"
    /\ numberOfElms # 0 /\ method # m
    /\ Exit

-----------------------------------------------------------------------------
(* findItem, and what set, get and del do with its answer                  *)

\* Faulty: the search looks at the head of the chain only.
AtEndOfSlot == link[ptr] = NULL \/ ptr \in Item

AtEnd == link[ptr] = NULL
AtKey == ~AtEnd /\ key[link[ptr]] = cmd.key

FindNext ==
    /\ pc = "find" /\ ~AtEnd /\ ~AtKey
    /\ ptr' = link[ptr]
    /\ UNCHANGED <<heapVars, tableVars, next, slot, processed, pc, cmd, reply>>

GetProvided ==
    /\ pc = "find" /\ cmd.op = "get" /\ AtKey
    /\ Return(Answer("PROVIDED", cmd.key, val[link[ptr]]))
    /\ UNCHANGED <<heapVars, tableVars>>

GetNotFound ==
    /\ pc = "find" /\ cmd.op = "get" /\ AtEnd
    /\ Return(Answer("NOT_FOUND", cmd.key, NULL))
    /\ UNCHANGED <<heapVars, tableVars>>

\* replaceValue; the buffer of the value, which it reallocates, and what
\* becomes of it are modelled in Command.
SetUpdated ==
    /\ pc = "find" /\ cmd.op = "set" /\ AtKey
    /\ val' = [val EXCEPT ![link[ptr]] = cmd.val]
    /\ Return(Answer("UPDATED", cmd.key, NULL))
    /\ UNCHANGED <<link, slots, live, key, mark, tableVars>>

\* A new item goes to the head of the chain of its key, and the table may
\* have to grow.
SetInserted ==
    /\ pc = "find" /\ cmd.op = "set" /\ AtEnd
    /\ \E item \in Item \ live :
          /\ live' = live \cup {item}
          /\ key' = [key EXCEPT ![item] = cmd.key]
          /\ val' = [val EXCEPT ![item] = cmd.val]
          /\ mark' = [mark EXCEPT ![item] = reorgMark]
          /\ link' = Linked(link, item, HashOf(cmd.key))
    /\ numberOfElms' = numberOfElms + 1
    /\ lastCommandEffect' = "EXPAND"
    /\ pc' = "reorg"
    /\ ptr' = NULL
    /\ reply' = Answer("INSERTED", cmd.key, NULL)
    /\ UNCHANGED <<slots, method, capacity, minCapacity, hashMask, reorgMark,
                   next, slot, processed, cmd>>

\* malloc finds no memory for the item, its key or its value.
SetOutOfMemory ==
    /\ pc = "find" /\ cmd.op = "set" /\ AtEnd
    /\ MemoryFails \/ live = Item
    /\ Exit

DelAlready ==
    /\ pc = "find" /\ cmd.op = "del" /\ AtEnd
    /\ Return(Answer("ALREADY", cmd.key, NULL))
    /\ UNCHANGED <<heapVars, tableVars>>

\* performDel looks for the predecessor of the item once more, from the head
\* of the chain: it is the cell where findItem stopped.
DelDeleted ==
    /\ pc = "find" /\ cmd.op = "del" /\ AtKey
    /\ EraseCounted(link[ptr], Unlinked(ptr))
    /\ lastCommandEffect' = "SHRINK"
    /\ pc' = "reorg"
    /\ ptr' = NULL
    /\ reply' = Answer("DELETED", cmd.key, NULL)
    /\ UNCHANGED <<method, capacity, minCapacity, hashMask, reorgMark,
                   next, slot, processed, cmd>>

-----------------------------------------------------------------------------
(* performZap: the chain of every slot, until no item is counted           *)

\* Faulty: the last slot is never reached.
LeaveZapSlotEarly(n) ==
    IF slot + 2 < capacity /\ n # 0
    THEN pc' = "zap" /\ slot' = slot + 1 /\ UNCHANGED lastCommandEffect
    ELSE pc' = "reorg" /\ slot' = 0 /\ lastCommandEffect' = "SHRINK"

\* On to slot i + 1, or out of the loop and into performReorg.
LeaveZapSlot(n) ==
    IF slot + 1 < capacity /\ n # 0
    THEN pc' = "zap" /\ slot' = slot + 1 /\ UNCHANGED lastCommandEffect
    ELSE pc' = "reorg" /\ slot' = 0 /\ lastCommandEffect' = "SHRINK"

ZapUnchanged == UNCHANGED <<method, capacity, minCapacity, hashMask, reorgMark,
                            ptr, processed, cmd, reply>>

\* An empty slot is passed without a look at the count.
ZapEmptySlot ==
    /\ pc = "zap" /\ link[slot] = NULL
    /\ LeaveZapSlot(1)
    /\ UNCHANGED <<heapVars, numberOfElms, next>> /\ ZapUnchanged

\* The head is deleted, and the rest of the chain hangs on next alone.
ZapHead ==
    /\ pc = "zap" /\ link[slot] # NULL
    /\ EraseCounted(link[slot], [link EXCEPT ![slot] = NULL])
    /\ IF numberOfElms - 1 = 0
       THEN next' = NULL /\ LeaveZapSlot(0)
       ELSE /\ next' = link[link[slot]]
            /\ pc' = "zapTail"
            /\ UNCHANGED <<slot, lastCommandEffect>>
    /\ ZapUnchanged

ZapTail ==
    /\ pc = "zapTail" /\ next # NULL
    /\ next' = link[next]
    /\ EraseCounted(next, link)
    /\ UNCHANGED <<pc, slot, lastCommandEffect>> /\ ZapUnchanged

ZapTailEnd ==
    /\ pc = "zapTail" /\ next = NULL
    /\ LeaveZapSlot(numberOfElms)
    /\ UNCHANGED <<heapVars, numberOfElms, next>> /\ ZapUnchanged

-----------------------------------------------------------------------------
(* performReorg, at the end of set, del and zap and for the reorg command  *)

NewMethod   == IF cmd.method = NULL THEN method ELSE cmd.method
NewCapacity == RoundUp2Power(AtLeast(CalcOptimalCapacity, minCapacity))

\* Faulty: the two comparisons of the sizes are swapped.
ReorgRefusedSwapped ==
    \/ NewMethod = method /\ NewCapacity = capacity
    \/ lastCommandEffect = "SHRINK" /\ NewCapacity < capacity
    \/ lastCommandEffect # "SHRINK" /\ NewCapacity > capacity

\* Nothing to do; or, whatever the method, a size that goes the other way
\* than the last command did.
ReorgRefused ==
    \/ NewMethod = method /\ NewCapacity = capacity
    \/ lastCommandEffect = "SHRINK" /\ NewCapacity > capacity
    \/ lastCommandEffect # "SHRINK" /\ NewCapacity < capacity

\* The reply of reorg is its result; set, del and zap have decided theirs.
ReorgReply(status) ==
    IF cmd.op = "reorg" THEN Answer(status, NULL, NULL) ELSE reply

ReorgUnchanged ==
    /\ pc = "reorg" /\ ReorgRefused
    /\ Return(ReorgReply("UNCHANGED"))
    /\ UNCHANGED <<heapVars, tableVars>>

\* Faulty: growing is left until the items have moved, as shrinking is.
ArrayAsItIs == slots

\* The length of the array while items move: the larger of old and new.
ArrayForMove == AtLeast(slots, NewCapacity)

\* The mark is flipped, so that every item carries the old one; a larger
\* array is there before the items move, and capacity is the old one still.
ReorgStart ==
    /\ pc = "reorg" /\ ~ReorgRefused
    /\ reorgMark' = 255 - reorgMark
    /\ method' = NewMethod
    /\ hashMask' = NewCapacity - 1
    /\ slots' = ArrayForMove
    /\ link' = [c \in Slots(slots') \cup Item |->
                  IF c \in Cell THEN link[c] ELSE NULL]
    /\ slot' = 0 /\ ptr' = 0 /\ processed' = 0
    /\ pc' = "move"
    /\ UNCHANGED <<live, key, val, mark, capacity, minCapacity, numberOfElms,
                   lastCommandEffect, next, cmd, reply>>

ReorgOutOfMemory ==
    /\ pc = "reorg" /\ ~ReorgRefused
    /\ MemoryFails /\ capacity < NewCapacity
    /\ Exit

\* moveItems, the end of the chain that ptr walks: the next slot.
MoveNextSlot ==
    /\ pc = "move" /\ AtEnd
    /\ IF slot + 1 < capacity
       THEN slot' = slot + 1 /\ ptr' = slot + 1 /\ UNCHANGED pc
       ELSE slot' = 0 /\ ptr' = NULL /\ pc' = "resize"
    /\ UNCHANGED <<heapVars, tableVars, next, processed, cmd, reply>>

\* Faulty: after an item that was moved already the walk starts again at the
\* head of the chain.
MoveMarkedFromHead ==
    /\ pc = "move" /\ ~AtEnd /\ mark[link[ptr]] = reorgMark
    /\ ptr' = slot
    /\ UNCHANGED <<heapVars, tableVars, next, slot, processed, pc, cmd, reply>>

\* An item that has come to this chain from an earlier slot is passed.
MoveMarked ==
    /\ pc = "move" /\ ~AtEnd /\ mark[link[ptr]] = reorgMark
    /\ ptr' = link[ptr]
    /\ UNCHANGED <<heapVars, tableVars, next, slot, processed, pc, cmd, reply>>

\* Faulty: the loop ends one item early.
AllButOneMoved(n) == n >= numberOfElms - 1

AllMoved(n) == n >= numberOfElms

\* One item: it stays where it is, or is taken out of the chain and put at
\* the head of the chain of its new hash.  In both cases ptr becomes the next
\* field of the item, which in the second case has been re-pointed by then to
\* the old head of the target chain.  The loop ends when as many items were
\* treated as the table counts.
MoveItem ==
    /\ pc = "move" /\ ~AtEnd /\ mark[link[ptr]] # reorgMark
    /\ LET item == link[ptr]
           hash == HashOf(key[item])
       IN  /\ mark' = [mark EXCEPT ![item] = reorgMark]
           /\ link' = IF hash = slot THEN link
                      ELSE Linked(Unlinked(ptr), item, hash)
           /\ IF AllMoved(processed + 1)
              THEN pc' = "resize" /\ slot' = 0 /\ ptr' = NULL
              ELSE UNCHANGED <<pc, slot>> /\ ptr' = item
    /\ processed' = processed + 1
    /\ UNCHANGED <<slots, live, key, val, tableVars, next, cmd, reply>>

\* A smaller array is cut after the move, with whatever its last slots hold.
ReorgEnd ==
    /\ pc = "resize"
    /\ slots' = hashMask + 1
    /\ link' = [c \in Slots(slots') \cup Item |-> link[c]]
    /\ capacity' = hashMask + 1
    /\ Return(ReorgReply("REORGANIZED"))
    /\ UNCHANGED <<live, key, val, mark, method, minCapacity, hashMask,
                   numberOfElms, reorgMark, lastCommandEffect>>

ShrinkOutOfMemory ==
    /\ pc = "resize"
    /\ MemoryFails /\ hashMask + 1 < capacity
    /\ Exit

-----------------------------------------------------------------------------

StartCommand ==
    \/ \E k \in Key, v \in Value : Set(k, v)
    \/ \E k \in Key : Get(k) \/ Del(k)
    \/ ZapEmpty \/ Zap
    \/ \E m \in Method, c \in RequestedCapacity : Reorg(m, c)
    \/ \E m \in Method : SetMethod(m) \/ SetMethodRefused(m)

Find == \/ FindNext
        \/ GetProvided \/ GetNotFound
        \/ SetUpdated \/ SetInserted \/ SetOutOfMemory
        \/ DelAlready \/ DelDeleted

ZapStep == ZapEmptySlot \/ ZapHead \/ ZapTail \/ ZapTailEnd

MoveStep == MoveNextSlot \/ MoveMarked \/ MoveItem

ReorgStep == \/ ReorgUnchanged \/ ReorgStart \/ ReorgOutOfMemory
             \/ MoveStep
             \/ ReorgEnd \/ ShrinkOutOfMemory

\* What a command does between its start and its return.
RunCommand == Find \/ ZapStep \/ ReorgStep

\* The process has ended.
Exited == pc = "exited" /\ UNCHANGED vars

Next == StartCommand \/ RunCommand \/ Exited

Spec == Init /\ [][Next]_vars

\* The thread runs: a command that has started is not suspended for ever.
\* Whether another command comes is up to the clients.
FairSpec == Spec /\ WF_vars(RunCommand)

-----------------------------------------------------------------------------
(* Invariants                                                              *)

\* Every variable has the type its C declaration and its use give it.
TypeOK ==
    /\ slots \in Nat \ {0}
    /\ link \in [Cell -> Item \cup {NULL}]
    /\ live \subseteq Item
    /\ key \in [Item -> Key \cup {NULL}]
    /\ val \in [Item -> Value \cup {NULL}]
    /\ mark \in [Item -> {0, 255}]
    /\ method \in Method
    /\ capacity \in PowersOfTwo
    /\ minCapacity \in PowersOfTwo
    /\ hashMask \in Nat /\ hashMask + 1 \in PowersOfTwo
    /\ numberOfElms \in 0 .. Cardinality(Item)
    /\ reorgMark \in {0, 255}
    /\ lastCommandEffect \in {"EXPAND", "SHRINK"}
    /\ pc \in {"idle", "find", "zap", "zapTail", "reorg", "move", "resize", "exited"}
    /\ cmd \in Command
    /\ ptr \in Cell \cup {NULL}
    /\ next \in Item \cup {NULL}
    /\ slot \in Slots(capacity)
    /\ processed \in Nat
    /\ reply \in Reply

\* No item hangs on two cells: the chains of the table never merge, whatever
\* order moveItems meets the items in, and nothing hangs on the item that zap
\* deletes next.  A merged chain would be freed twice.
NoSharing ==
    /\ \A c, d \in Cell : link[c] = link[d] /\ link[c] # NULL => c = d
    /\ \A c \in Cell : link[c] = next => next = NULL

\* No cell of the array or of an allocated item leads to freed memory, nor
\* does the rest of the chain that zap is about to delete.
NoDangling ==
    /\ \A c \in Slots(slots) \cup live : link[c] \in live \cup {NULL}
    /\ next \in live \cup {NULL}

\* No chain is a ring, so that every walk ends: any set of items has one
\* whose next is outside of the set.
NoCycle ==
    \A S \in SUBSET live : S # {} => \E x \in S : link[x] \notin S

\* The counter that sizes the table counts the allocated items, also while
\* zap deletes them and after a reorganisation that has lost some.
CountExact == numberOfElms = Cardinality(live)

\* Between commands the table is never more than half full, although reorg
\* refuses some of the sizes it computes.
LoadBound == pc = "idle" => 2 * numberOfElms <= capacity

\* The mask never reaches beyond the array: a slot computed with the new mask
\* exists while items move, and between commands mask, capacity and the
\* allocation agree.
ArrayBounds ==
    /\ hashMask < slots
    /\ capacity <= slots
    /\ pc \notin {"move", "resize", "exited"} =>
          capacity = slots /\ capacity = hashMask + 1

(* Action properties                                                       *)

\* The items that hang in some chain.
Hanging == {link[c] : c \in Cell} \ {NULL}

\* However moveItems wanders off into the chain of another slot, no step of
\* it drops an item from the chains or adds one: what a reorganisation loses
\* is still in memory, in a chain where nobody looks for it.
MoveConserves == [][MoveStep => Hanging' = Hanging]_vars

\* set can only expand the table, del and zap can only shrink it, whatever
\* minimum a reorg has asked for in between and refused to establish.
ResizeDirection ==
    [][capacity' # capacity =>
         /\ cmd.op = "set" => capacity' > capacity
         /\ cmd.op \in {"del", "zap"} => capacity' < capacity]_vars

(* Liveness                                                                *)

\* Every command returns: no walk goes round in circles, not even over chains
\* that are re-linked under it.
CommandsReturn == (pc \notin {"idle", "exited"}) ~> (pc \in {"idle", "exited"})
=============================================================================
