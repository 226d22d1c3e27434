# A TLA+ model of hashr

hashr is a small key-value server: a C daemon (`server/src`) that keeps an
in-memory hash table and serves it over TCP with a binary chunk protocol, and a
Python command line client (`client`). This directory holds TLA+ models of it,
TLC configurations that check them, and proofs checked by TLAPS.

Line numbers refer to the sources; `PROJECT.json` maps every definition of the
models to the lines it stands for.

## 1. The system

| Part | Sources | State | Operations |
|---|---|---|---|
| HashTable | `HashTable.c` | array of chain heads, method, mask, capacity, minimum, counter, reorganisation mark, effect of the last command | set, get, del, zap, search, reorg, setMethod, dump, collision percentage |
| HashItem | `HashItem.c` | key, value, next, mark of one item | create, delete, replace value, search bytes |
| Hasher | `Hasher.c` | none | ten hash methods by number, 0 for an unknown one |
| Utils | `Utils.c` | none | round up to a power of two, mask, big-endian ints, chunk ids |
| Search | `Search.c` | pattern, mode, limits, counters, lazily allocated results | reset, process one item, deliver results |
| Command | `Command.c` | current packet and table | one handler per request token: load chunks, call the table, compose a reply |
| Packet | `Packet.c` | one buffer of 20000 bytes for request *and* reply, length, counter | check header, scan and find chunks, dispatch, append |
| Connection | `Connection.c` | socket, session, packet | accept, reject, read, process, close |
| Server | `Server.c` | two slots, session counter, listening socket, running flag | select loop, accept, serve one client |
| main, Logger | `main.c`, `Logger.c` | global server and logger | start-up, signals, log file |
| Client | `client/*.py` | one socket, one parser and one counter, shared by two threads | commands of the user, a heartbeat each second |

How they interact: one thread runs `select`; a readable socket leads to one
`read`, whose bytes a `Packet` checks; a `Command` handler loads parameters as
pointers into the packet's buffer, calls one operation of the `HashTable`, and
the reply is composed in the same buffer and sent. Every set, del and zap ends
with a call of `performReorg`, as the reorg command does. Nothing is shared
between threads in the server; in the client everything is.

Where the behaviour is hard, and what makes each part correct:

* **Reorganisation.** `performReorg` flips the mark, changes method and mask,
  grows the array, walks all chains re-linking items *while walking*, cuts the
  array. Correct: chains stay disjoint, acyclic and made of allocated items; the
  counter is exact; mask, capacity and array agree; every item is treated; the
  answers of get, set and del do not change.
* **Sizes.** Three times or twice the count, a floor set by reorg, and a refusal
  of any change against the direction of the last command. Correct: never more
  than half full between commands; commands change the size in one direction.
* **Search.** Two limits and three counters on one scan, and an array whose size
  is computed in the middle of it. Correct: exactly the window asked for, the
  right total, no write outside of the array.
* **Server loop.** What select saw is old when the loop acts on it; clients close
  and reset at any time; signals arrive anywhere. Correct: slots and sockets
  agree, admission and refusal are right, replies are in order, a signal ends
  the loop, nobody waits without a reason.
* **Packet buffer.** Parameters point into the buffer the reply is written to, and behind
  a request lies what the one before has left. Correct: the table is called with what was
  asked for; a part of a request is never carried out; a reply can be parsed and has the
  counter of its request; only answers can outgrow the buffer.
* **Client.** Two threads, one socket, one parser, replies told apart by counter.

## 2. The modules

| Module | Models | Kind |
|---|---|---|
| `KeyValueStore` | what the table promises: a map | abstract specification |
| `LossyStore` | what is left of that promise when reorganisations lose items | abstract specification |
| `HashTable` | `HashTable.c` with `HashItem.c`, pointer by pointer | component |
| `HashTableMap` | the map that the memory of `HashTable` represents, the placement of items, and what is found and lost when they are misplaced | two refinements |
| `HashTableProofs` | inductive invariant of `HashTable` and the theorems | proofs |
| `HashTableMapProofs` | that `HashTable` implements `KeyValueStore`, with every item in its place, until a reorganisation goes astray | proofs |
| `Hasher` | the hash methods of `Hasher.c` and the sizes of `Utils.c`, bit by bit | pure functions |
| `Search` | `Search.c`, `HashTable_performSearch`, `Command_prepareSearch` | component |
| `SearchProofs` | the same for `Search` | proofs |
| `Packet` | `Packet.c`: one buffer, word by word | data structure |
| `Command` | `Connection_process`, `Packet_process` and the handlers of `Command.c`, from the chunks the client renders to those it gets back | component, on top of `Packet` |
| `PacketProofs` | what the scan and the search of `Packet` return, and how a buffer is composed | proofs |
| `MessageProofs` | requests, parts of requests and replies of `Command` in the buffer | proofs |
| `CommandProofs` | inductive invariant of `Command` and the theorems, and that it implements `LossyStore` | proofs |
| `Admission` | what the server promises to those who connect | abstract specification |
| `Server` | `Server.c`, `Connection.c`, signal handler, against clients and TCP | component |
| `ServerProofs` | the same for `Server`, and that it implements `Admission` | proofs |
| `Client` | the two threads of `client.py`, with what `parser.py` does to find a counter | component |
| `ClientProofs` | the same for `Client` | proofs |
| `MCHashTable`, `MCSearch`, `MCCommand`, `MCServer`, `MCClient` | small instances; `MCClient` also keeps the counters of an endless behaviour finite | model checking |

**HashTable.** An `Item` is an address; `live` is the allocated ones. `link` is
the memory that holds a `HashItem*`: its domain is the slots of the array
(numbers) and the `next` fields (items), so `HashItem** itemPtr` is an element
of that domain (`ptr`) and `*itemPtr` is `link[ptr]`. A command is a start
action (`Set`, `Get`, `Del`, `Zap`, `Reorg`, ...), then one action per iteration
of the loop it is in (`FindNext`, `ZapHead`, `ZapTail`, `MoveItem`, ...), with
`pc` naming the loop, then a return. The next command starts when `pc` is
`"idle"`, as in the single-threaded daemon. Keys and values are compared for
equality only; a hash method is an arbitrary function `Hash[m]`, which includes
every method of `Hasher.c` and the constant one of an unknown number, and the proofs hold
for all of them. The instances use real keys and the methods of `Hasher`. With
`MemoryFails` every checked allocation may end the process; what becomes of the
unchecked one of `replaceValue` is in `Command`.

**Hasher.** Words are pairs of 16-bit halves, so that the wrapping arithmetic stays within the
numbers of TLC; a hash is the signed int of the same bits. The definitions were compared with the
compiled functions on forty random keys in every method, and on the edges of the sizes. TLC
evaluates two assumptions in each run of the table: `SizesAreBitwise`, that the shifts of `Utils.c`
compute the power of two that `HashTable` works with, around every power, and `MethodsAgree`,
relations between the methods and a published value.

**Command.** The unit of the buffer is a word of four bytes; a word says what it is (an id, an int,
the code of a command or of a status, a piece of a key or value), so that one which is taken for another can
be told. A request is rendered by the client (`Requests`, `Rendered`), read whole or in two parts,
checked and dispatched (`Process`). Handlers are three steps, `Load` (pointers into the buffer),
`Begin` (the reply is begun over the request) and `Operate` (the table is called and the reply
completed), in the order in which each handler does them: reorg begins before it loads, the others load
first; the results of a search follow one by one (`ProvideResult`). The table is what `LossyStore`
makes of it: `items` are found, `lost` hang in some chain where nobody looks, and a reorganisation of more than
one item (`Rearranged`, by reorg or at the end of set and del) may deal them out anew, as the hashes that decide
it are not known here. Each value has its buffer as `HashItem.c` manages
it: `Broken` is an item whose buffer was freed by a reallocation to length 0. `Killed` is an access to the
address 0 (that item read, or an empty key hashed), `overrun` a reply that is longer than the buffer.

**Search.** The items a scan visits, as a sequence of the places in which the
pattern occurs; every iteration of the scan is a step. `numberOfElms` may exceed
the items visited, as it does after a reorganisation that lost some.

**Server.** A connection name stands for one TCP connection. `toServer` is the
stream to the server in pieces, two to a request; a read returns any non-empty
prefix. `pc` has a step for the turn of the loop (`buildFds`), one for `select`
and one for what follows; clients and signals act in between. A signal clears the flag wherever it
arrives; it ends the loop at once only while `select` is blocked (`EINTR`). In front of `select`, behind the
test of the flag, it interrupts nothing, and the loop goes on until `select` returns. `send` fails as TCP
does: the first send to a closed peer brings a reset, the next one either fails or
raises SIGPIPE. The first `accept` may fail, as `addrlen` is read uninitialised.

**Client.** Each statement on data that the two threads share (`mutex`, `counter`, the
stream, `parser`) is a step of its own, in the order of `performCommand`, `fireRequest` and
`waitResponse`; `pc[t]` names the next one. `parser` is the attribute `self.parser`: what
was received last by *any* thread, and the counter found in it, which is `NULL` between the
construction of the parser and its `parse()`. An exception that nobody catches (a comparison
with `None`, a reset connection, a reply cut inside a length) is `Dies`: it ends a thread,
and the process if it is the main thread. The server side is what the module `Server` says
of it: of the requests that one read returns the first is answered, or none if it was
split, and replies come in order. A reply that is too long for one `recv` travels as head and tail.

Some definitions have a faulty variant next to them, marked *Faulty*. They are
plausible mistakes in the code, one or more for every property; with the variant
in place of the definition TLC finds the property violated (`PROJECT.json`,
"mutants"). Nothing else uses them.

## 3. The runs

| Run | Instance | Shows |
|---|---|---|
| `structure` | 3 items and keys, 2 methods, capacity limits 2 and 4, allocations fail, fair (313,708 states) | chains sound (`NoSharing`, `NoDangling`, `NoCycle`), `CountExact`, `LoadBound`, `ArrayBounds`, `MoveConserves`, `ResizeDirection`, `CommandsReturn`: every walk ends; and `HashTable` implements `LossyStore`, whatever is lost |
| `map` | 4 items, one method, capacities 4 and 8, three keys in one chain and one alone | `UniqueKeys`, `ItemsFindable`, `MarksCurrent`, and `HashTable` implements `KeyValueStore` |
| `lost_items` | as `structure` | **violated**: after a reorganisation get answers "no such key" for a key that is stored |
| `search_window` | up to 4 items and one lost one, six start and five item limits | exact window, exact total, at most one result too many for the array |
| `search_room` | up to 3 items | **violated**: the array has room for the results |
| `requests` | a buffer of 29 words, keys of 0 and 1 word, values of 0, 19 and 20, one of which spells a request, every command with and without each parameter, in one piece or two, reorganisations that lose items | the table gets what was asked for, parts are refused unless the data spell the header, replies can be parsed, which replies outgrow the buffer, and `Command` implements `LossyStore` |
| `server_slots` | 3 clients, 2 slots, 3 sessions, 2 requests each, malformed ones too | slots match sockets, readiness is current, replies in order, `Server` implements `Admission` |
| `server_turns` | the same with malformed requests only, fair | a signal ends the loop, also one that interrupts nothing; a slot is served when all that goes before it is quiet |
| `requests_lost` | 1 client, 1 request, fair | **violated**: a request that arrives in two parts is never answered |
| `disconnect` | 2 clients, 1 slot | **violated**: a disconnection never ends the daemon |
| `client_threads` | any number of commands and beats, renumbered, at most one request (`MaxLate`) under way when a `select` times out, fair | counters are unique, the threads are never both blocked, and a user's command ends, however the beats go on, as long as there are any |
| `client_shown` | the same | **violated**: the user is shown the reply to the user's command |

Why the bounds are enough.

* The table's code compares sizes and follows pointers; three items give a chain
  with a head, a middle and an end, and a second chain to move into. The keys
  `Mixed` ("leap", "hash", "header") all share a slot under one method and capacity and separate
  under another capacity or method, where two of the hashes are negative; so chains are long when they are moved, and an
  item moves to slots that were treated before and to
  slots that are still to come, whose items are not treated yet. The limits 2 and 4 (in the code 256 and 1M) make every
  command able to change the size with three items, and requests below, at, between
  and beyond the limits are tried.
* `map` restricts the *data*, not the code: no item that moves has another one
  behind it in its chain. Outside of this condition the table does lose items, which is what
  `lost_items` shows; inside of it the table is a map, with resizing in both
  directions and chains of three.
* In `Command`, 29 words are the least that leave room for the longest request and make the reply to get
  both fit (a value of 19 words) and not fit (20); the buffer of the code has 5000. Methods are -1 (which
  passes for a missing one), 1 (which does not read the first byte of a short key) and the default. A
  request is cut inside its first chunk or inside a later one, in one case right in front of a value that has the
  words of a request to zap; the cut is tried on an empty table only, as whether
  a part is accepted does not depend on the table. Two keys can be found and lost in every combination;
  `MaxLost` bounds the entries that are lost at a time. Once something is lost, requests whose replies do not
  depend on it are not sent any more (`Complete`), as they are checked without. `search` stands for the three searches and `count` for
  the three counts. What is behind a *whole* request is forgotten when it is read, so leftovers are those
  of the packet just before.
* In `Search`, four items allow a window to begin and end before, at and after any match.
* In `Server`, one client more than slots makes rejection and reuse of slots possible, two
  requests in a stream make every way to split and join them possible. `MaxSession`
  and `MaxRequests` bound connections and requests. Malformed requests and rejected
  connections are not bounded, so an endlessly busy server is part of `server_turns`.
* In `Client`, nothing bounds how often the threads perform commands. The numbers that are in use somewhere are
  renumbered in their order after each step (`MCClient!Renumber`), and variables that are written before they are
  read again are reset; the statements compare counters only, so the behaviours are the same. The one bound is
  `MaxLate`: a `select` times out only with at most that many requests still under way to the server, so that at most
  three are. That is enough for a late reply, a beat in progress and a new command at the same time.

Fairness. `WF(RunCommand)`: the thread runs, so a command that has started goes
on; that a next command comes is not assumed. `WF(ServerStep)`: likewise for the
loop, whose select times out after a second. `WF(Receive)` is assumed in
`requests_lost` only, to exclude that the client ignores its reply. In `Client`,
`WF(Step)`: the threads run, `select` times out after four seconds; `WF(Begin("beat"))`: the beat comes
each second; `WF(Serve)`: the server reads what it has got, and `SF(ServeAnswering)`: not every request that it reads
is one that was split, so that it answers again and again (an answer to a beat will do); `SF(Acquire)`: the mutex is
held for three statements per command and free for most of a second, long enough for a thread that waits for it;
`SF(Recv)`: a thread that waits in `recv` is woken by data before a thread that has yet to call
it, so it is not overtaken for ever. That the reply to the user's own request ever comes is not assumed. Clients need
not do anything else, and signals need not come. A run that may deadlock by design is
`Search`: one request, then the end.

## 4. What disagrees with the documents

1. **Items are lost by a reorganisation** (`HashTable.c:452`, run `lost_items`). In the
   branch that moves an item, `itemPtr` is set to `&item->next`, and `linkItem`
   then points that field into the target chain. The walk continues there; the
   items behind the moved one stay in the old slot, where get does not look for
   them. Compiled, three keys with the same first byte, inserted under method
   debug0 and reorganised to debug1, give two "no such key" with a count of 3.
   `MoveConserves` says what remains true: the items are still in memory, in some chain.
   Consequences seen in the same instance: a shrinking table cuts off slots
   that still hold items (`HashTable.c:401`), and a zap then returns "all items
   deleted" with a count above zero; an item of the slot of the loop that is met in the other chain is marked and
   stays there (line 441), where it cannot be found either; and set inserts a twin of an item that is not found.
   `Strays` is the step in which any of this begins: section 5 proves that nothing is lost without it.
2. **The result array is one short** (`Search.c:153`, run `search_room`).
   `OverrunAtMostOne`, which holds, bounds the damage: one element, and never when the limit
   decides the size.
3. **A request in two segments is not answered** (`Connection.c:121`, run
   `requests_lost`), nor is the second of two that arrive together; the reply composed for
   a bad request (`Connection.c:150`) is not sent. Reproduced with the compiled daemon.
4. **A disconnection can end the daemon** (`Connection.c:160`, run `disconnect`) by
   SIGPIPE. Reproduced with the compiled daemon.
5. **The user is shown a reply to something else** (`client.py:178`, run `client_shown`):
   both threads keep the reply they receive in `self.parser`, and the display shows
   whatever is there.

Noticed, without a run of its own:

* The order of chunks matters. `man/protocol.txt:24-26` says that the lengths make it possible
  to "search for a specific type of chunk", wherever it is; but as reorg looks for its parameters behind the reply it has begun, a request with another chunk in front is
  carried out with the remains of that; with `AnyOrder = TRUE` TLC finds `ParametersIntact` violated. The
  client always sends the order that works.
* A request that is cut right in front of data which spell the header `HSHr` and a whole request is not refused: its rest is
  carried out as a request that nobody has sent (`OnlyWholeRequests` says that this is the only way). The run has
  such a value.
* A value updated to an empty one (`HashItem.c:138`) leaves an item whose next get or search reads the
  address 0; so does a set of an empty key (`Hasher.c:6`) in most methods. Both end the daemon (`Killed`).
* The reply to get can be longer than the buffer by up to four words, and that to a search by any length
  (`Packet.c:244`).
* A counter of -1 is treated as a missing one; a reorg with the method -1 gets a reply without status
  and end mark (`Command.c:593`); `new_Search() == NULL` sends the request back (`Command.c:424`).
* `man/commands.txt:95` says QVAL where AVAL is sent, line 161 QKEY where SPAT is wanted.
* In the client, a `recv` that follows a `select` which was true for both threads has no timeout, so if
  the other thread has taken the reply and ends on an exception (the tail of a long reply has no header,
  and `None` is compared with a number at `client.py:182`), no beat wakes the user's command any more:
  the disjunct `pc["beat"] = "dead"` of `CommandEnds` is needed.
* `reorg` answers "unchanged" and ignores the requested method when the size would have to go the other
  way than the last command (`HashTable.c:386-390`, against `man/error_codes.txt:138`).
* The manual allows 20 clients (`man/protocol.txt:9`), `Server.h:20` two; the manual calls the last chunk
  "cntr" (`man/protocol.txt:32`), the code "endm"; `addrlen` is not initialised (`Server.c:156`).
* Bernstein's method and adding the bytes choose the same slots in tables of up to 32 slots, and so do its
  modified form and xor (`MethodsAgree`), although the code offers them as different methods.

## 5. What is proved

`HashTableProofs` proves for *every* finite set of items, every set of keys, values
and methods, every hash function and all capacity limits that are powers of two:

| Theorem | Statement |
|---|---|
| `TypeCorrect` | `Spec => []TypeOK` |
| `NothingShared`, `NothingDangles`, `ChainsEnd` | `Spec => []NoSharing`, `[]NoDangling`, `[]NoCycle` |
| `CountCorrect` | `Spec => []CountExact` |
| `LoadBounded` | `Spec => []LoadBound` |
| `ArrayInBounds` | `Spec => []ArrayBounds` |
| `MovesConserve` | `Spec => MoveConserves` |
| `ResizesOneWay` | `Spec => ResizeDirection` |

Assumptions: the named `ASSUME`s of `HashTable`. `AddressAssumption` keeps addresses,
slots and NULL apart; `SizeAssumption` says that three times the number of items is at
most 2^30, so that no size computation overflows an int; `CapacityAssumption` says that
the limits are powers of two in order, as 256 and 1M are; `HashAssumption` that a hash
is an int. TLC evaluates them in every run.

The argument. None of the invariants is inductive alone. `IInv` strengthens them with:
what the locals are at each `pc` (where `ptr` points, that `next` is used by zap only),
that items that are not allocated lead nowhere, a bound on the load that holds *before*
the call of `performReorg` (one item more or fewer than between commands, by the last
effect), and the agreement of mask, capacity and array by `pc`. The crucial lemma
is `MoveLinks`: in one step of `moveItems`, whatever chain the pointer has got into, the
links change by taking the item out of where it hangs and putting it at the head of
another chain, a permutation of who points to whom. From it follow that no chain merges
or closes to a ring and that nothing is dropped - although the walk is wrong about where
it is. Acyclicity is stated without paths (`every set of items has one whose next is
outside`), so that no induction over chains is needed. Lemmas on counting and on
`RoundUp2Power` carry `CountExact` and `LoadBound`. `ResizesOneWay` needs a second invariant,
`Direction`: when sizes are compared the last effect is that of the running command, and from then
on the new size lies in its direction.

`HashTableMapProofs` proves, for the same constants and without any restriction on keys, hashes, methods and
reorganisations, that the table is a map until a reorganisation goes astray:

| Theorem | Statement |
|---|---|
| `KeysUnique` | `Spec => []UniqueKeys \/ <>Strays` |
| `MarksAreCurrent` | `Spec => []MarksCurrent \/ <>Strays` |
| `ItemsAreFindable` | `Spec => []ItemsFindable \/ <>Strays` |
| `TableImplementsMap` | `Spec => ImplementsMap \/ <>Strays` |

`Strays` (`HashTable.c:452`) is a condition on one state: `moveItems` is about to take an item out of a chain whose
other items are not all treated, or to leave one in a chain that is not that of its slot. As a behaviour of `Spec` may stop at any point, each
theorem says that before the first stray nothing has gone wrong: a prefix without a stray, continued by stuttering,
is a behaviour without one. `lost_items` shows that strays occur, and `structure` checks what the table is after one
(`ImplementsLossyStore`).

The argument. The *home* of an item is the slot in whose chain it hangs: that of the old size while it waits to be
moved, that of the new one from then on. `MapInv` says, cell by cell, that what leads to an item is its home or an item
with the same home (`Placed`); no step needs more than the two or three cells it writes to. That an item is then *in
the chain* of its home follows without induction along the chain. `Chain` is a recursive function; its defining
equation has a solution, the least sets closed under the links, and therefore `Chain` satisfies it (`ChainLaw`). An item
outside of the chain of its home has a predecessor outside of it too; so a set of such items is closed backwards, and
a finite set without rings or merged chains has no such subset but the empty one (`NoBackwardsClosed`, by counting).
While items move, the old method and the old size are no longer in the variables; so the homes are a function that the
invariant asserts to exist (`Moving`: some `home` with `MovingBy(home)`), which each step re-defines for the item
it treats. For `moveItems` the walk is either in the chain of its slot, with all that is to be treated there ahead of it (`Inside`),
or it has followed an item into the chain of its target, and then nothing is left to be treated in its slot
(`Astray`). That is what a state without `Strays` gives: an item that leaves was the last of its chain to be
treated, and one that stays is met in the chain of its slot. Items of other chains that the walk meets and treats on its
way go where they belong, or stay where they are; no assumption on hashes or sizes is needed (`MoveItemStays`, `MoveItemLeaves`).
As the invariant speaks of links cell by cell, it holds through any number of reorganisations, from and to any size and method.
For the refinement `Stores` characterises the map that a set of items represents; each answer of a command is
one step of `KeyValueStore`, and while zap deletes item by item the map is empty already.

`SearchProofs` proves for a table of any size, items lost or not, any pattern and any limits:

| Theorem | Statement |
|---|---|
| `SearchTypes` | `Spec => []TypeOK` |
| `OverrunBounded` | `Spec => []OverrunAtMostOne` |
| `WindowCorrect` | `Spec => []ResultsAreWindow` |
| `CountCorrect` | `Spec => []CountIsTotal` |

The window is stated by ranks: the rank of an item is the number of matches up to it. `Progress` says
that after `n` items `numberOfMatching` is the rank of `n`, and that what is stored are the matches whose
rank is above the start limit; the item limit then ends the scan where the rank has reached start plus
limit. For the array, `Allocation` says that it is as long as the limit or as the items that were left when
the first result was met, and that no more results came than items were checked since.

`ServerProofs` proves for any finite set of clients, any number of slots, sessions and requests:

| Theorem | Statement |
|---|---|
| `ServerTypes` | `Spec => []TypeOK` |
| `SlotsHoldOpenSockets` | `Spec => []SlotsMatchSockets` |
| `ReadinessStays` | `Spec => []ReadinessIsCurrent` |
| `RepliesKeepOrder` | `Spec => []RepliesInOrder` |
| `AdmissionImplemented` | `Spec => ImplementsAdmission` |

The invariant adds that a connection waits in the backlog once and without a session (`Waiting`), that the
open sockets are those with a session (`Sessions`), and that what select was given and has reported is open
(`Current`); readiness survives what clients do in between because only the server closes a socket or
takes from a stream. For the order of replies, `Ascending` puts what has arrived at the client, what is under way
to it and the pieces under way to the server in one line of ascending numbers; each action takes from the
front of one part and adds to the end of another. The refinement follows from counting: the sessions are as
many as the slots in use (`SameCardinality`), so there is a free slot exactly when `Admission` has a place.

`ClientProofs` proves for every number of commands (there is no bound on the counter):

| Theorem | Statement |
|---|---|
| `ClientTypes` | `Spec => []TypeOK` |
| `CountersAreUnique` | `Spec => []CountersUnique` |
| `OneCanGoOn` | `Spec => []NeverBothWaiting` |

Its invariant adds who holds the mutex, that a counter which was taken is the present one until it
is incremented and an old one from then on, and that one which is not sent yet is under way
nowhere; most steps are `Quiet`, and one lemma treats them all. `NeverBothWaiting` needs no
strengthening: whoever comes to `recv` has seen data, and whoever takes data leaves. The
assumptions are that `NULL` is neither a number, nor a thread, nor a parser.

`CommandProofs`, with `PacketProofs` and `MessageProofs` below it, proves for a buffer of any size from 29
words on, any keys, values, patterns, counters, methods and limits, and requests cut anywhere:

| Theorem | Statement |
|---|---|
| `SpecTypeOK` | `Spec => []TypeOK` |
| `SpecParametersIntact` | `Spec => []ParametersIntact` |
| `SpecOnlyWholeRequests` | `Spec => []OnlyWholeRequests` |
| `SpecRepliesWellFormed` | `Spec => []RepliesWellFormed` |
| `SpecOverrunByAnswersOnly` | `Spec => []OverrunByAnswersOnly` |
| `SpecImplementsStore` | `Spec => ImplementsStore` |

Each has the hypothesis `AnyOrder = FALSE`: the chunks come in the order in which the client renders them, the
command first. Without it `ParametersIntact` is false, as section 4 says. The assumptions are named in `Command`
and evaluated in the run: counters are natural numbers and the default method is one of those a client can ask
for (`RequestAssumption`), `NULL` is no data (`NullAssumption`), the buffer has the room that the longest reply
without data needs (`RoomAssumption`; 5000 words in the code), and keys, values and patterns are sequences of
words (`DataAssumption`): any words, the header `HSHr` and whole requests included.

The argument. `ScanFrom` and `FindFrom` are recursive functions over the buffer. That such a function exists
and unfolds to its equation is proved without induction: a least index from which on a solution exists is
chosen, and were it not 0 the solution could be extended by one (`RecursionFromTheEnd`, `ScanUnfolds`,
`FindUnfolds`). Where the chunks of a request lie is then a function of offsets (`InBuffer`), along which the
search steps from chunk to chunk; in a part of a request the same offsets lead the scan beyond the length
(`PartIsNotScanned`), so a first part is refused whatever is behind it, and what remains of a request has no header
(`OneHeader`) unless the data spell it (`Spells`), which is the exception that `OnlyWholeRequests` makes. A reply is a set of boundaries, from each of which a chunk leads to the next (`Composed`);
appending a chunk adds a boundary, and the end mark makes the whole readable (`ReplyCanBeRead`). The
inductive invariant `IInv` says what the packet carries at each `pc`: until the table is called, the request;
once the reply is begun, the reply in front and, at every pointer that a parameter was loaded to, the data of the request.
The reply that is begun has at most four words and no pointer is below the seventh, because the command, which
comes first, is never loaded as a parameter: that is why the parameters are intact, and for reorg,
which searches behind the begun reply, why the counter takes exactly the room of the command (`Carries`).
`OverrunByAnswersOnly` needs that what is stored came in a request that did fit (`ItemsFit`).
For the refinement each handler that gives an answer about the table is one step of `LossyStore`, with what
`Rearranged` deals out anew as its witness; all other
steps leave the table and the answer alone (`Silent`), the sending of a reply among them, as its answer is read off
the buffer before.

Checked by TLC only: liveness (`CommandsReturn`, `StopsAfterSignal`, `ServedInTurn`, `CommandEnds`),
which is out of the prover's reach, and `ImplementsLossyStore` of `HashTable`, whose order of items in a merged
chain would take an induction along it. Every other property of the passing runs is stated by a theorem; those of
`HashTableMapProofs` have the alternative `<>Strays` and those of `CommandProofs` the hypothesis on the order of
chunks, without which they are false.

## 6. What is not modelled

Wording and logging; `dump` and the collision percentage (they only read); option parsing, daemonizing
and start-up (sequential, either works or ends the process); the Catch tests and `harvest` (data). In
`Command`, a length inside of a chunk that does not fit its data, bytes that are no word, and allocations
that fail other than the reallocation to length 0 (a command on the map is one step there; failing
allocations are in `HashTable`). In `Server`, a send that blocks or is short because the client does not read, and
allocation failures for a connection, are left out. In `Client`, the set-up of the connection and the parsing
of the user's words are left out (sequential, one thread), a `parse()` is one step, and the tail of a long
reply follows its head without a pause.

The parts are composed by contract and not in one state space: `HashTable` and `Command` implement the
same `LossyStore`, one below and one above it, and `HashTable` implements `KeyValueStore`, its case without losses,
until a reorganisation goes astray; `Command` begins where `Server` has read a piece; and
`Client` assumes of the server what `Server` shows.

## 7. What is left

1. A repaired `moveItems` (the next pointer read before the item is re-linked): the theorems of
   `HashTableMapProofs` should then hold without the alternative `<>Strays`.
2. That `HashTable` implements `LossyStore` for every instance: a proof needs the order of the items in a
   chain, not only the set of them.
3. The value buffers of `Command` inside `HashTable`, so that a failing reallocation and a
   reorganisation meet in one instance.
