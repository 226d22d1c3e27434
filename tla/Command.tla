------------------------------- MODULE Command -------------------------------
(***************************************************************************)
(* A request and its reply (Connection_process in server/src/Connection.c, *)
(* Packet_process in Packet.c, the handlers in Command.c), from the chunks *)
(* that the client renders (client/command.py) to those it gets back.      *)
(*                                                                         *)
(* Request and reply share one buffer, and a parameter of a command is a   *)
(* pointer into it.  beginReply writes the header and the counter over the *)
(* request; what the handlers read before it and what they read after it   *)
(* is the question, so loading the parameters, beginning the reply and     *)
(* calling the table are steps of their own.                               *)
(*                                                                         *)
(* The table is what LossyStore makes of it: the items that are found, and *)
(* those that a reorganisation has left where nobody looks; with the buffer*)
(* of each value as HashItem.c manages it.  What a search finds is the     *)
(* subject of Search.                                                      *)
(***************************************************************************)
EXTENDS Packet, FiniteSets

CONSTANTS
    Key, Value, Pattern,    \* sequences of words, the empty one included
    Counter,                \* values of the cntr chunk
    Method,                 \* values of the RMET chunk
    DefaultMethod,          \* Hasher_METHOD_DEFAULT
    NullSafe,               \* the methods that do not read the first byte
    Minimum,                \* values of the RCAP chunk
    LimitStart, LimitItems, \* values of the LIMS and LIMI chunks
    Cut,                    \* lengths of the first part of a request
    AnyOrder,               \* TRUE: any chunk may be the first
    NULL

\* The client counts its requests from 0 on.
ASSUME RequestAssumption ==
    /\ Counter \subseteq Nat
    /\ Method \cup Minimum \cup LimitStart \cup LimitItems \subseteq Int
    /\ DefaultMethod \in Method
    /\ Cut \subseteq Nat \ {0} /\ AnyOrder \in BOOLEAN

\* Any words, those that a request is made of included.
ASSUME DataAssumption == Key \cup Value \cup Pattern \subseteq Seq(Word)

\* No reply without data is longer than the one to info.
ASSUME RoomAssumption == BUFLEN >= 29

ASSUME NullAssumption == NULL \notin Seq(Word)

VARIABLES
    packet,     \* the packet of the connection
    pc,
    token,      \* the command
    arg,        \* its parameters: integers, and pointers into the packet
    items,      \* the items that are found: of a key the value's buffer and its length
    lost,       \* the entries that hang in some chain and are not found
    strayed,    \* TRUE: some reorganisation has gone astray
    results,    \* the entries a search has met and that are still to be provided
    method,     \* hashTable->method
    request,    \* what the client has asked for
    piece,      \* what was read of it: the "whole", the "first" part, the "rest"
    rest        \* the words of it that are still to be read

tableVars   == <<items, lost, strayed, method>>
requestVars == <<request, piece, rest>>
vars == <<packet, pc, token, arg, tableVars, results, requestVars>>

-----------------------------------------------------------------------------
(* The client                                                              *)

Keyed    == {"get", "del"}
Searches == {"search"}      \* and ksearch and vsearch, which match less
Counts   == {"count"}       \* and kcount and vcount
Others   == {"beat", "info", "zap", "dump", "freebeer"}

\* The data of each chunk of a request; NULL where it has no such chunk.
NoChunks == [id \in RequestId |-> NULL]

Ask(op, c, params) ==
    [id \in RequestId |-> IF id = "CMND" THEN <<Token(op)>>
                         ELSE IF id = "cntr" THEN c
                         ELSE IF id \in DOMAIN params THEN params[id] ELSE NULL]

Ints(S) == {<<Integer(n)>> : n \in S} \cup {NULL}

\* Any parameter may be missing; a request without a command is one of them.
RequestsWith(c) ==
    {NoChunks}
      \cup {Ask(op, c, NoChunks) : op \in Others}
      \cup {Ask(op, c, [QKEY |-> k]) : op \in Keyed, k \in Key \cup {NULL}}
      \cup {Ask("set", c, [QKEY |-> k, QVAL |-> v]) :
              k \in Key \cup {NULL}, v \in Value \cup {NULL}}
      \cup {Ask(op, c, [SPAT |-> p]) : op \in Counts, p \in Pattern \cup {NULL}}
      \cup {Ask(op, c, [SPAT |-> p, LIMS |-> s, LIMI |-> n]) :
              op \in Searches, p \in Pattern \cup {NULL},
              s \in Ints(LimitStart), n \in Ints(LimitItems)}
      \cup {Ask("reorg", c, [RMET |-> m, RCAP |-> n]) :
              m \in Ints(Method), n \in Ints(Minimum)}

Requests == UNION {RequestsWith(c) : c \in Ints(Counter)}

\* The chunk a parameter is rendered to.
Rendered(r, id) == IF r[id] = NULL THEN <<>> ELSE Chunk(id, r[id])

\* The order of Command.render, which begins with the command; or with any
\* other chunk moved to the front.
First == IF AnyOrder THEN DOMAIN NoChunks ELSE {"CMND"}

Words(r, first) ==
    LET Behind(id) == IF id = first THEN <<>> ELSE Rendered(r, id)
    IN  <<Id("HSHr")>> \o Rendered(r, first)
          \o Behind("CMND") \o Behind("cntr") \o Behind("QKEY") \o Behind("QVAL") \o Behind("SPAT")
          \o Behind("LIMS") \o Behind("LIMI") \o Behind("RMET") \o Behind("RCAP") \o <<Id("endm")>>

-----------------------------------------------------------------------------
(* Connection_process and Packet_process                                   *)

Init ==
    /\ packet = NewPacket
    /\ pc = "idle"
    /\ token = "none"
    /\ arg = <<>>
    /\ items = <<>> /\ lost = {} /\ strayed = FALSE
    /\ results = {}
    /\ method = DefaultMethod
    /\ request = NoChunks /\ piece = "whole" /\ rest = <<>>

\* A read overwrites as much of the buffer as it returns.  Of what is behind a
\* whole request nothing is kept: what can be left behind the end of a part is
\* then the packet before it, not those before that one.
Read(words) ==
    LET p == IF piece' = "whole" THEN NewPacket ELSE packet
    IN  /\ packet' = Appended(PrepareForReply([p EXCEPT !.counter = packet.counter]), words)
        /\ pc' = "process"
        /\ UNCHANGED <<token, arg, tableVars, results>>

\* The request comes in one piece.
ReadPacket(r, first) ==
    /\ pc = "idle" /\ rest = <<>>
    /\ Len(Words(r, first)) <= BUFLEN
    /\ piece' = "whole"
    /\ Read(Words(r, first))
    /\ request' = r
    /\ UNCHANGED rest

\* Or a read returns its first words, and a second one the rest.  Whether it
\* is carried out does not depend on the table, so one table is enough.
ReadPart(r, n) ==
    /\ pc = "idle" /\ rest = <<>> /\ items = <<>> /\ ~strayed
    /\ LET words == Words(r, "CMND")
       IN  /\ n < Len(words) /\ Len(words) <= BUFLEN
           /\ piece' = "first"
           /\ Read(SubSeq(words, 1, n))
           /\ rest' = SubSeq(words, n + 1, Len(words))
    /\ request' = r

ReadRest ==
    /\ pc = "idle" /\ rest # <<>>
    /\ piece' = "rest"
    /\ Read(rest)
    /\ rest' = <<>>
    /\ UNCHANGED request

\* The next connection has a packet of its own.
Reconnect ==
    /\ pc \in {"idle", "unanswered"} /\ rest = <<>>
    /\ packet' = NewPacket
    /\ pc' = "idle"
    /\ UNCHANGED <<token, arg, tableVars, results, requestVars>>

\* An integer parameter; -1 if it is missing, and if it is -1.
LoadInt(p, id) ==
    LET at == FindChunk(p, id)
    IN  IF at = -1 THEN -1
        ELSE IF NumberAt(p, at - 1) < 1 THEN -1
        ELSE NumberAt(p, at)

\* A parameter of any length: where it is in the buffer, and how long.
LoadStr(p, id) ==
    LET at == FindChunk(p, id)
    IN  [at |-> at, length |-> IF at = -1 THEN 0 ELSE NumberAt(p, at - 1)]

Accepted ==
    /\ IsHeaderOk(packet)
    /\ ScanChunks(packet) # -1
    /\ FindChunk(packet, "CMND") # -1

\* Nothing remains of the command but what is left in the buffer.
Finish ==
    /\ token' = "none" /\ arg' = <<>>
    /\ request' = IF rest = <<>> THEN NoChunks ELSE request
    /\ piece' = "whole"
    /\ UNCHANGED <<tableVars, results, rest>>

\* "[bad request]" is composed and not sent, so that the client waits on.
ProcessBad ==
    /\ pc = "process" /\ ~Accepted
    /\ packet' = AppendEndmark(AppendChunk(AppendHeader(PrepareForReply(packet)),
                                           "ftal", <<Text, Text, Text>>))
    /\ pc' = IF rest = <<>> THEN "unanswered" ELSE "idle"
    /\ Finish

LoadFirst == Keyed \cup {"set"} \cup Searches \cup Counts

\* Faulty: the counter of an earlier request stays when there is none.
CounterKept ==
    IF FindChunk(packet, "cntr") = -1 THEN packet.counter
    ELSE LoadInt(packet, "cntr")

CounterOf == IF FindChunk(packet, "cntr") = -1 THEN -1
             ELSE NumberAt(packet, FindChunk(packet, "cntr"))

\* A number that is not the code of a command is that of none.
TokenOf ==
    LET word == packet.buffer[FindChunk(packet, "CMND")]
    IN  IF "token" \in DOMAIN word THEN word.token ELSE "freebeer"

\* What is accepted is carried out.  If it is not a whole request, it is not
\* the one that the client has sent, and is not followed any further.
Process ==
    /\ pc = "process" /\ Accepted
    /\ packet' = [packet EXCEPT !.counter = CounterOf]
    /\ token' = TokenOf
    /\ pc' = IF piece # "whole" THEN "spelled"
             ELSE IF token' \in LoadFirst THEN "load" ELSE "begin"
    /\ UNCHANGED <<arg, tableVars, results, requestVars>>

-----------------------------------------------------------------------------
(* The handlers: parameters and the beginning of the reply                 *)

Report(p, status) == AppendChunk(p, "STAT", <<Status(status), Text, Text, Text>>)

\* Faulty: a status is written before the table has been called.
BeginReported(p) ==
    Report(AppendCounter(AppendHeader(PrepareForReply(p))), "INSERTED")

BeginReply(p) == AppendCounter(AppendHeader(PrepareForReply(p)))

Respond(p) ==
    /\ packet' = AppendEndmark(p)
    /\ pc' = IF packet'.length > BUFLEN THEN "overrun" ELSE "reply"

Begin ==
    /\ pc = "begin"
    /\ packet' = BeginReply(packet)
    /\ pc' = IF token = "reorg" THEN "load" ELSE "operate"
    /\ UNCHANGED <<token, arg, tableVars, results, requestVars>>

StrParams ==
    CASE token \in Keyed -> {"QKEY"}
      [] token = "set" -> {"QKEY", "QVAL"}
      [] token \in Searches \cup Counts -> {"SPAT"}
      [] OTHER -> {}

IntParams ==
    CASE token \in Searches -> {"LIMS", "LIMI"}
      [] token = "reorg" -> {"RMET", "RCAP"}
      [] OTHER -> {}

Mandatory == StrParams \cup (IntParams \cap {"RMET"})

Missing == \E id \in Mandatory : FindChunk(packet, id) = -1

Load ==
    /\ pc = "load" /\ ~Missing
    /\ token = "reorg" => LoadInt(packet, "RMET") # -1
    /\ arg' = [id \in StrParams \cup IntParams |->
                 IF id \in StrParams THEN LoadStr(packet, id) ELSE LoadInt(packet, id)]
    /\ pc' = IF token = "reorg" THEN "operate" ELSE "begin"
    /\ UNCHANGED <<packet, token, tableVars, results, requestVars>>

LoadMissing ==
    /\ pc = "load" /\ Missing
    /\ Respond(Report(BeginReply(packet), "MISSING_PARAM"))
    /\ UNCHANGED <<token, arg, tableVars, results, requestVars>>

\* A method of -1 passes for a missing one after the complaint about that:
\* the reply ends where it was begun.
LoadMinusOne ==
    /\ pc = "load" /\ ~Missing /\ token = "reorg" /\ LoadInt(packet, "RMET") = -1
    /\ pc' = "reply"
    /\ UNCHANGED <<packet, token, arg, tableVars, results, requestVars>>

-----------------------------------------------------------------------------
(* The handlers: the call of the table and the rest of the reply           *)

\* Faulty: the pointer is to the length, which precedes the data.
DataAndLength(id) == SubSeq([i \in 1 .. BUFLEN |-> packet.buffer[i - 1]],
                            arg[id].at, arg[id].at + arg[id].length - 1)

\* The data of a parameter, as the table finds them behind the pointer.
DataOf(id) == SubSeq([i \in 1 .. BUFLEN |-> packet.buffer[i - 1]],
                     arg[id].at + 1, arg[id].at + arg[id].length)

\* An empty key is hashed as one byte at the address 0.
HashFails(k, m) == k = <<>> /\ m \notin NullSafe

\* An item whose value could not be replaced keeps the old length, and copying
\* from or to its value is a copy from or to the address 0.
Broken(item) == item.data = NULL

\* new_HashItem and setValue; replaceValue, which keeps a buffer of the right
\* length and reallocates any other.  A reallocation to length 0 frees the
\* buffer and returns NULL, which passes for a failure.
NewItem(v) == [data |-> v, length |-> Len(v)]

\* Faulty: a buffer that is long enough is kept, and so is its length.
Refilled(item, v) ==
    IF ~Broken(item) /\ Len(v) <= item.length
    THEN [item EXCEPT !.data = v \o SubSeq(@, Len(v) + 1, item.length)] ELSE NewItem(v)

Replaced(item, v) ==
    IF v = <<>> /\ item.length # 0 /\ ~Broken(item)
    THEN [item EXCEPT !.data = NULL] ELSE NewItem(v)

Stored(k, item) == [x \in DOMAIN items \cup {k} |-> IF x = k THEN item ELSE items[x]]

Handle(ops) ==
    /\ pc = "operate" /\ token \in ops
    /\ UNCHANGED <<token, arg, requestVars>>

\* The capacity is reported when the command has changed it.
WithCapacity(p) == AppendChunk(p, "CPTY", <<Integer(0)>>)

Entries(t) == {<<k, t[k]>> : k \in DOMAIN t}

\* performReorg, when it has something to do.  All items are hashed again and
\* moved; but when an item moves to a chain whose other items have not moved
\* yet, the walk goes on there and leaves its own chain unfinished.  What is
\* found afterwards, what hangs where nobody looks for it and what is cut off
\* with the array is a matter of the hashes, which are not known here; but
\* the first item that is treated is found, and items stay what they are.
Rearranged(t) ==
    LET all == Entries(t) \cup lost
    IN  \/ /\ items' = t /\ UNCHANGED <<lost, strayed>>
           /\ \A e \in all : ~HashFails(e[1], method')
        \/ /\ strayed \/ Cardinality(DOMAIN t) > 1
           /\ strayed' = TRUE
           /\ \E keys \in SUBSET {e[1] : e \in all} :
                 items' \in [keys -> {e[2] : e \in all}]
           /\ Entries(items') \subseteq all
           /\ lost' \in SUBSET all
           /\ Entries(items') \cap lost' \subseteq lost
           /\ strayed \/ items' # <<>>
           /\ \A k \in DOMAIN items' : ~HashFails(k, method')

SetUpdated ==
    /\ Handle({"set"})
    /\ LET k == DataOf("QKEY") v == DataOf("QVAL")
       IN  /\ ~HashFails(k, method) /\ k \in DOMAIN items
           /\ ~(Broken(items[k]) /\ items[k].length = Len(v))
           /\ items' = Stored(k, Replaced(items[k], v))
    /\ Respond(Report(packet, "UPDATED"))
    /\ UNCHANGED <<lost, strayed, method, results>>

SetInserted ==
    /\ Handle({"set"})
    /\ UNCHANGED <<method, results>>
    /\ LET k == DataOf("QKEY")
           stored == Stored(k, NewItem(DataOf("QVAL")))
           reply == Report(packet, "INSERTED")
       IN  /\ ~HashFails(k, method) /\ k \notin DOMAIN items
           /\ \/ Respond(reply) /\ items' = stored /\ UNCHANGED <<lost, strayed>>
              \/ Respond(WithCapacity(reply)) /\ Rearranged(stored)

\* Faulty: the reply to get repeats the key, as the one to search does.
FoundWithKey(k) ==
    AppendChunk(AppendChunk(Report(packet, "FOUND"), "AKEY", k), "AVAL", items[k].data)

Found(k) == AppendChunk(Report(packet, "FOUND"), "AVAL", items[k].data)

GetFound ==
    /\ Handle({"get"})
    /\ LET k == DataOf("QKEY")
       IN  /\ ~HashFails(k, method) /\ k \in DOMAIN items
           /\ ~Broken(items[k])
           /\ Respond(Found(k))
    /\ UNCHANGED <<tableVars, results>>

GetNotFound ==
    /\ Handle({"get"})
    /\ LET k == DataOf("QKEY") IN ~HashFails(k, method) /\ k \notin DOMAIN items
    /\ Respond(Report(packet, "NOT_FOUND"))
    /\ UNCHANGED <<tableVars, results>>

\* The chain without the first item that has the key: a second one, which was
\* lost behind it, may be found now.
Removed(k) ==
    /\ UNCHANGED strayed
    /\ \/ items' = [x \in DOMAIN items \ {k} |-> items[x]] /\ UNCHANGED lost
       \/ \E e \in lost : /\ e[1] = k
                        /\ items' = Stored(k, e[2]) /\ lost' \in {lost, lost \ {e}}

DelDeleted ==
    /\ Handle({"del"})
    /\ UNCHANGED <<method, results>>
    /\ LET k == DataOf("QKEY")
           reply == Report(packet, "DELETED")
       IN  /\ ~HashFails(k, method) /\ k \in DOMAIN items
           /\ \/ Respond(reply) /\ Removed(k)
              \/ /\ Respond(WithCapacity(reply))
                 /\ Rearranged([x \in DOMAIN items \ {k} |-> items[x]])

DelNotExists ==
    /\ Handle({"del"})
    /\ LET k == DataOf("QKEY") IN ~HashFails(k, method) /\ k \notin DOMAIN items
    /\ Respond(Report(packet, "NOT_EXISTS"))
    /\ UNCHANGED <<tableVars, results>>

\* What hangs in no chain is not deleted, and counted for ever.
Zap ==
    /\ Handle({"zap"})
    /\ items' = <<>> /\ lost' = {}
    /\ LET Zapped(status) == AppendChunk(Report(packet, status), "ZAPD", <<Integer(0)>>)
       IN  \/ items = <<>> /\ lost = {} /\ Respond(Zapped("EMPTY"))
           \/ /\ items # <<>> \/ lost # {} \/ strayed
              /\ \/ Respond(Zapped("ZAPPED"))
                 \/ Respond(WithCapacity(Zapped("ZAPPED")))
    /\ UNCHANGED <<strayed, method, results>>

\* A method is taken over when the table is reorganised.
Reorg ==
    /\ Handle({"reorg"})
    /\ LET Reorged(status) == AppendChunk(Report(packet, status), "METD", <<Integer(method')>>)
       IN  \/ /\ method' = method /\ UNCHANGED <<items, lost, strayed>>
              /\ Respond(WithCapacity(Reorged("UNCHANGED")))
           \/ /\ method' = arg["RMET"]
              /\ Respond(WithCapacity(Reorged("REORGANIZED")))
              /\ Rearranged(items)
    /\ UNCHANGED results

\* Which items are found is up to Search, which looks through all chains; those
\* that are broken cannot be copied.
SearchOrCount ==
    /\ Handle(Searches \cup Counts)
    /\ \E S \in SUBSET {e \in Entries(items) \cup lost : ~Broken(e[2])} :
         LET hits == AppendChunk(Report(packet, IF S = {} THEN "NO_MATCH" ELSE "MATCH_FOUND"),
                                 "SRES", <<Integer(Cardinality(S))>>)
         IN  IF token \in Counts \/ S = {}
             THEN Respond(hits) /\ UNCHANGED results
             ELSE packet' = hits /\ pc' = "results" /\ results' = S
    /\ UNCHANGED tableVars

\* One turn of the loop over the results, in whatever order Search has met them.
ProvideResult ==
    /\ pc = "results"
    /\ \E e \in results :
         LET pair == AppendChunk(AppendChunk(packet, "AKEY", e[1]), "AVAL", e[2].data)
         IN  /\ results' = results \ {e}
             /\ IF results' = {} THEN Respond(pair) ELSE packet' = pair /\ pc' = pc
    /\ UNCHANGED <<token, arg, tableVars, requestVars>>

Info ==
    /\ Handle({"info"})
    /\ LET Figure(p, id) == AppendChunk(p, id, <<Integer(0)>>)
           table == Figure(Figure(Figure(Report(packet, "INFO_PROVIDED"), "NCON"), "METD"), "MCAP")
       IN  Respond(Figure(Figure(Figure(table, "CPTY"), "NELM"), "COLP"))
    /\ UNCHANGED <<tableVars, results>>

Heartbeat ==
    /\ Handle({"beat"})
    /\ Respond(AppendChunk(packet, "beat", <<Text, Text, Text>>))
    /\ UNCHANGED <<tableVars, results>>

\* The dump goes to the terminal of the server, and the reply says nothing.
Dump ==
    /\ Handle({"dump"})
    /\ Respond(packet)
    /\ UNCHANGED <<tableVars, results>>

Unknown ==
    /\ Handle({"freebeer"})
    /\ Respond(Report(packet, "INVALID_COMMAND"))
    /\ UNCHANGED <<tableVars, results>>

\* The items that an automatic reorganisation would hash again, if it came to it.
Rehashed ==
    IF \/ token = "set" /\ DataOf("QKEY") \notin DOMAIN items
       \/ token = "del" /\ DataOf("QKEY") \in DOMAIN items
    THEN lost ELSE {}

\* The process reads or writes at the address 0, and ends.
Killed ==
    /\ pc = "operate"
    /\ LET Addressed == IF token \in Keyed \cup {"set"} THEN {DataOf("QKEY")} ELSE {}
           hanging == Entries(items) \cup lost
       IN  \/ \E k \in Addressed : HashFails(k, method)
           \/ \E k \in Addressed \cap DOMAIN items :
                /\ token # "del" /\ Broken(items[k])
                /\ token = "set" => items[k].length = Len(DataOf("QVAL"))
           \/ \E e \in Rehashed : HashFails(e[1], method)
           \/ token = "reorg" /\ \E e \in hanging : HashFails(e[1], arg["RMET"])
           \/ token \in Searches \cup Counts /\ \E e \in hanging : Broken(e[2])
    /\ pc' = "killed"
    /\ UNCHANGED <<packet, token, arg, tableVars, results, requestVars>>

Operate ==
    \/ SetUpdated \/ SetInserted \/ GetFound \/ GetNotFound \/ DelDeleted \/ DelNotExists
    \/ Zap \/ Reorg \/ SearchOrCount \/ Info \/ Heartbeat \/ Dump \/ Unknown
    \/ Killed \/ ProvideResult

-----------------------------------------------------------------------------
(* What the client makes of the reply                                      *)

StatusOf(p) ==
    LET at == FindChunk(p, "STAT") IN IF at = -1 THEN "none" ELSE p.buffer[at].status

\* The words of the chunk with the id; the client finds it as the server does.
Received(p, id) ==
    LET at == FindChunk(p, id)
    IN  IF at = -1 THEN NULL ELSE [i \in 1 .. NumberAt(p, at - 1) |-> p.buffer[at + i - 1]]

MapStatus == {"INSERTED", "UPDATED", "FOUND", "NOT_FOUND", "DELETED", "NOT_EXISTS",
              "ZAPPED", "EMPTY", "REORGANIZED", "UNCHANGED"}

\* The names that HashTable and LossyStore have for them.
StoreStatus(status) ==
    CASE status = "FOUND" -> "PROVIDED"
      [] status = "NOT_EXISTS" -> "ALREADY"
      [] OTHER -> status

NoAnswer == [status |-> "UNCHANGED", key |-> NULL, val |-> NULL]

\* What the client reads in a reply about the table.
Answer ==
    IF pc = "reply" /\ StatusOf(packet) \in MapStatus
    THEN [status |-> StoreStatus(StatusOf(packet)), key |-> request.QKEY,
          val |-> Received(packet, "AVAL")]
    ELSE NoAnswer

Send ==
    /\ pc = "reply"
    /\ pc' = "idle"
    /\ Finish
    /\ UNCHANGED packet

\* The process has ended, or goes on with other fields overwritten, or with a
\* request that nobody has sent.
Ended == pc \in {"killed", "overrun", "spelled"} /\ UNCHANGED vars

Next ==
    \/ \E r \in Requests :
         \/ \E first \in First : ReadPacket(r, first)
         \/ \E n \in Cut : ReadPart(r, n)
    \/ ReadRest \/ Reconnect
    \/ ProcessBad \/ Process
    \/ Begin \/ Load \/ LoadMissing \/ LoadMinusOne
    \/ Operate
    \/ Send
    \/ Ended

Spec == Init /\ [][Next]_vars

-----------------------------------------------------------------------------

\* The variables have their types, and what a search provides is in the table.
TypeOK ==
    /\ packet \in Packet
    /\ pc \in {"idle", "process", "load", "begin", "operate", "results", "reply",
              "unanswered", "overrun", "killed", "spelled"}
    /\ token \in Keyed \cup {"set", "reorg", "none"} \cup Searches \cup Counts \cup Others
    /\ \A e \in Entries(items) \cup lost :
          /\ e[1] \in Key
          /\ e[2].data \in Value \cup {NULL} /\ e[2].length \in Nat
    /\ strayed \in BOOLEAN /\ method \in Method
    /\ results \subseteq Entries(items) \cup lost
    /\ request \in Requests /\ piece \in {"whole", "first", "rest"}

\* Wherever its pointers point to by then, the table is called with what the
\* client has asked for, although the reply is being written over the request.
ParametersIntact ==
    pc = "operate" => \A id \in DOMAIN arg :
      IF id \in StrParams THEN DataOf(id) = request[id]
      ELSE arg[id] = IF request[id] = NULL THEN -1 ELSE Number(request[id][1])

\* Somewhere the data of the request have the word that a packet begins with.
Spells(r) ==
    \E id \in {"QKEY", "QVAL", "SPAT"} :
        r[id] # NULL /\ \E i \in DOMAIN r[id] : r[id][i] = Id("HSHr")

\* When a read returns only a part of a request, that part is carried out for
\* one reason only: it is the rest, and the data of the client have the header
\* at the very place where the request was cut.  What an earlier packet has left
\* in the buffer behind a part never completes it.
OnlyWholeRequests == pc = "spelled" => piece = "rest" /\ Spells(request)

\* A reply can be scanned to its end, and carries the counter of its request.
RepliesWellFormed ==
    pc = "reply" /\ ~(token = "reorg" /\ request.RMET = <<Integer(-1)>>) =>
      /\ IsHeaderOk(packet)
      /\ ScanChunks(packet) # -1
      /\ packet.buffer[packet.length - 1] = Id("endm")
      /\ Received(packet, "cntr") = request.cntr

\* A reply that does not fit into the buffer is the answer to a search, or to a
\* get, which then exceeds it by no more than the chunk of the counter and the
\* data of a key: the words by which the request that has stored the value was
\* longer.  A search has no such bound.
OverrunByAnswersOnly ==
    pc = "overrun" => token \in Searches \/ (token = "get" /\ packet.length <= BUFLEN + 4)

\* The value that get answers for an item: after a failed replacement the empty
\* one, which was to be stored.
Shown(item) == IF Broken(item) THEN <<>> ELSE item.data

Map == [k \in Key |-> IF k \in DOMAIN items THEN Shown(items[k]) ELSE NULL]

Lossy == INSTANCE LossyStore
            WITH found <- Map, lost <- {<<e[1], Shown(e[2])>> : e \in lost},
                 gone <- strayed, reply <- Answer

\* Every answer that reaches the client is the answer of LossyStore to the
\* command the client has sent, from the chunks of the request to those of the
\* reply: a value that get returns is one that was set for this very key, and
\* that no set has replaced and no del has removed since, unless that was done
\* to a twin that a reorganisation has let in by losing the item.
ImplementsStore == Lossy!Spec
=============================================================================
