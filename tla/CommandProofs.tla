---------------------------- MODULE CommandProofs ----------------------------
(***************************************************************************)
(* Theorems about Command: its invariants, and that it implements          *)
(* LossyStore.  What the buffer holds is in MessageProofs.                 *)
(***************************************************************************)
EXTENDS MessageProofs

USE DEF tableVars, requestVars

-----------------------------------------------------------------------------
(* The inductive invariant                                                 *)

Item == [data : Value \cup {NULL}, length : Nat]

\* What can be stored came in a request that did fit into the buffer.
FitEntry ==
    {e \in Key \X Item : Shown(e[2]) \in Value /\ Len(Shown(e[2])) <= BUFLEN - 9}

Fit(t, l) ==
    /\ t \in [DOMAIN t -> Item]
    /\ Entries(t) \cup l \subseteq FitEntry /\ IsFiniteSet(Entries(t) \cup l)

ItemsFit == Fit(items, lost)

Types ==
    /\ packet \in Packet
    /\ pc \in {"idle", "process", "load", "begin", "operate", "results", "reply",
              "unanswered", "overrun", "killed", "spelled"}
    /\ token \in CommandToken \cup {"none"}
    /\ strayed \in BOOLEAN /\ method \in Method
    /\ results \subseteq Entries(items) \cup lost
    /\ request \in Requests /\ piece \in {"whole", "first", "rest"}
    /\ rest \in Seq(Word)

\* The rest of a request does not look like one, unless the data do.
RestHeadless ==
    rest # <<>> => Len(rest) <= BUFLEN /\ (rest[1] = Id("HSHr") => Spells(request))

\* The packet to be processed is the request, or will not be accepted, unless
\* it is the rest and the data look like a header.
Expected ==
    /\ piece = "whole" => \E off : InBuffer(packet, request, off, 1)
    /\ piece = "first" => ~Accepted
    /\ piece = "rest"  => (Accepted => Spells(request))

\* The command is that of the request.
Asked ==
    /\ token \in CommandToken /\ request.CMND = <<Token(token)>>
    /\ packet.counter = CounterIn(request.cntr)

\* The parameters are those of the request; where one is a pointer, the chunk
\* that it points to begins behind the header and the counter of any reply.
Loaded ==
    /\ DOMAIN arg = StrParams \cup IntParams
    /\ \A id \in StrParams :
          /\ request[id] # NULL
          /\ Holds(packet, arg[id].at, request[id])
          /\ arg[id].at >= 6 /\ arg[id].length = Len(request[id])
    /\ \A id \in IntParams :
          arg[id] = IF request[id] = NULL THEN -1 ELSE Number(request[id][1])
    /\ token = "set" => Len(request.QVAL) <= BUFLEN - 9
    /\ token = "reorg" => request.RMET # NULL

ReplyBegun ==
    Counted(packet, request.cntr, {}) /\ packet.length = AfterCounter(request.cntr)

HitsReported ==
    /\ token \in Searches
    /\ Counted(packet, request.cntr, AnswerId)
    /\ Reported(packet, request.cntr, "MATCH_FOUND")
    /\ \A e \in results : ~Broken(e[2])

ReplyReadable ==
    ~(token = "reorg" /\ request.RMET = <<Integer(-1)>>) => Readable(packet, request.cntr)

Unloaded   == pc \in {"idle", "process", "unanswered"} => arg = <<>>
NoResults  == pc # "results" => results = {}
InProcess  == pc = "process" => Expected /\ packet.length \in 1 .. BUFLEN
InCommand  == pc \in {"load", "begin", "operate", "results"} => Asked
InLoad     == pc = "load" =>
                /\ Carries(packet, request) /\ token \in LoadFirst \cup {"reorg"}
                /\ token = "reorg" => ReplyBegun
InBegin    == pc = "begin" =>
                IF token = "reorg" THEN Carries(packet, request) ELSE Loaded
InOperate  == pc = "operate" => Loaded /\ ReplyBegun
InResults  == pc = "results" => HitsReported
InReply    == pc = "reply" => ReplyReadable

IInv ==
    /\ Types /\ ItemsFit /\ RestHeadless /\ Unloaded /\ NoResults
    /\ InProcess /\ InCommand /\ InLoad /\ InBegin /\ InOperate /\ InResults /\ InReply
    /\ OnlyWholeRequests /\ OverrunByAnswersOnly

-----------------------------------------------------------------------------
(* Reading                                                                 *)

LEMMA NoChunksIsRequest == NoChunks \in Requests
<1>1. NULL \in Ints(Counter) /\ NoChunks \in RequestsWith(NULL)
  BY DEF Ints, RequestsWith
<1> QED BY <1>1 DEF Requests

LEMMA InitIInv == Init => IInv
<1> SUFFICES ASSUME Init PROVE IInv
  OBVIOUS
<1>1. packet \in Packet /\ request \in Requests
  BY NewPacketIsPacket, NoChunksIsRequest DEF Init
<1>2. Types
  <2>1. rest \in Seq(Word) /\ piece = "whole" /\ token = "none" /\ strayed = FALSE /\ pc = "idle"
    BY DEF Init
  <2>2. results = {} /\ method \in Method /\ strayed \in BOOLEAN
    BY RequestAssumption DEF Init
  <2> QED BY <1>1, <2>1, <2>2 DEF Types
<1>3. ItemsFit
  <2>1. items = <<>> /\ DOMAIN items = {} /\ lost = {}
    BY DEF Init
  <2>2. Entries(items) \cup lost = {}
    BY <2>1 DEF Entries
  <2> QED BY <2>1, <2>2, FS_EmptySet DEF ItemsFit, Fit
<1> QED BY <1>2, <1>3 DEF Init, IInv, RestHeadless, Unloaded, NoResults, InProcess, InCommand,
                          InLoad, InBegin, InOperate, InResults, InReply, OnlyWholeRequests, OverrunByAnswersOnly

\* A step that touches neither the packet nor what it is about.
LEMMA StutterIInv == ASSUME IInv, UNCHANGED vars PROVE IInv'
BY DEF IInv, vars, Types, ItemsFit, RestHeadless, Unloaded, NoResults, InProcess, InCommand, InLoad,
       InBegin, InOperate, InResults, InReply, OnlyWholeRequests, OverrunByAnswersOnly, Expected, Accepted,
       Asked, Loaded, ReplyBegun, HitsReported, ReplyReadable, StrParams, IntParams, Received,
       StatusOf, Readable

LEMMA ItemsStay == ASSUME ItemsFit, UNCHANGED <<items, lost>> PROVE ItemsFit'
BY DEF ItemsFit

\* A packet has been read, and is to be processed.
LEMMA ReadIInv ==
    ASSUME IInv, UNCHANGED <<token, arg, items, lost, strayed, results, method>>, pc = "idle",
           pc' = "process", packet' \in Packet, request' \in Requests,
           piece' \in {"whole", "first", "rest"},
           rest' \in Seq(Word), RestHeadless', Expected', packet'.length \in 1 .. BUFLEN
    PROVE  IInv'
<1>1. Types'
  BY DEF IInv, Types
<1>2. ItemsFit'
  BY ItemsStay DEF IInv
<1>3. Unloaded' /\ NoResults' /\ InProcess'
  BY DEF IInv, Unloaded, NoResults, InProcess
<1>4. InCommand' /\ InLoad' /\ InBegin' /\ InOperate' /\ InResults' /\ InReply'
      /\ OnlyWholeRequests' /\ OverrunByAnswersOnly'
  BY DEF InCommand, InLoad, InBegin, InOperate, InResults, InReply, OnlyWholeRequests, OverrunByAnswersOnly
<1> QED BY <1>1, <1>2, <1>3, <1>4 DEF IInv

LEMMA ReadPacketIInv ==
    ASSUME IInv, NEW r \in Requests, ReadPacket(r, "CMND")
    PROVE  IInv'
<1> DEFINE words == Words(r, "CMND")
<1>1. Shape(r)
  BY RequestShape
<1>2. PICK off : Offsets(r, off) /\ Layout(r, off, words)
  BY <1>1, WordsInLayout
<1>3. words \in Seq(Word) /\ Len(words) <= BUFLEN
  BY <1>2 DEF Layout, ReadPacket
<1>4. packet.counter \in Int
  BY DEF IInv, Types, Packet
<1>5. packet' = Appended(PrepareForReply([NewPacket EXCEPT !.counter = packet.counter]), words)
  BY DEF ReadPacket, Read
<1> HIDE DEF words
<1>6. packet' \in Packet /\ HoldsAt(packet', 0, words) /\ packet'.length = Len(words)
  BY <1>3, <1>4, <1>5, NewPacketIsPacket, ReadWords
<1>7. InBuffer(packet', r, off, 1)
  BY <1>1, <1>2, <1>3, <1>6, WordsInBuffer
<1>8. piece' = "whole" /\ request' = r /\ rest' = rest /\ pc = "idle" /\ pc' = "process"
      /\ UNCHANGED <<token, arg, items, lost, strayed, results, method>>
  BY DEF ReadPacket, Read
<1>9. Expected'
  BY <1>7, <1>8 DEF Expected
<1>10. rest' \in Seq(Word) /\ RestHeadless'
  BY <1>8 DEF IInv, Types, RestHeadless, ReadPacket
<1>11. packet'.length \in 1 .. BUFLEN
  <2>1. Len(words) = off[10] + 1 /\ off[10] \in Nat
    BY <1>2 DEF Layout, Offsets
  <2> QED BY <1>3, <1>6, <2>1, BufferAssumption
<1> QED BY <1>6, <1>8, <1>9, <1>10, <1>11, ReadIInv

LEMMA SubSeqWords ==
    ASSUME NEW words \in Seq(Word), NEW m \in 1 .. Len(words), NEW n \in m .. Len(words)
    PROVE  /\ SubSeq(words, m, n) \in Seq(Word) /\ Len(SubSeq(words, m, n)) = n - m + 1
           /\ \A k \in 1 .. n - m + 1 : SubSeq(words, m, n)[k] = words[m + k - 1]
BY SubSeqProperties

LEMMA ReadPartIInv ==
    ASSUME IInv, NEW r \in Requests, NEW n \in Cut, ReadPart(r, n)
    PROVE  IInv'
<1> DEFINE words == Words(r, "CMND")
           part == SubSeq(words, 1, n)
           left == SubSeq(words, n + 1, Len(words))
<1>1. Shape(r)
  BY RequestShape
<1>2. PICK off : Offsets(r, off) /\ Layout(r, off, words)
  BY <1>1, WordsInLayout
<1>3. words \in Seq(Word) /\ Len(words) <= BUFLEN /\ n < Len(words) /\ n \in Nat /\ n >= 1
      /\ Len(words) \in Nat
  <2>1. words \in Seq(Word) /\ Len(words) <= BUFLEN /\ n < Len(words)
    BY <1>2 DEF Layout, ReadPart
  <2>2. n \in Nat /\ n >= 1
    BY RequestAssumption
  <2> HIDE DEF words
  <2> QED BY <2>1, <2>2
<1>4. packet.counter \in Int /\ packet \in Packet
  BY DEF IInv, Types, Packet
<1>5. packet' = Appended(PrepareForReply([packet EXCEPT !.counter = packet.counter]), part)
      /\ rest' = left /\ piece' = "first" /\ request' = r /\ pc = "idle" /\ pc' = "process"
      /\ UNCHANGED <<token, arg, items, lost, strayed, results, method>>
  BY DEF ReadPart, Read
<1> HIDE DEF words
<1>6. part \in Seq(Word) /\ Len(part) = n /\ \A k \in 1 .. n : part[k] = words[k]
  <2>1. 1 \in 1 .. Len(words) /\ n \in 1 .. Len(words) /\ n - 1 + 1 = n
        /\ \A k \in 1 .. n : 1 + k - 1 = k
    BY <1>3
  <2> QED BY <1>3, <2>1, SubSeqWords
<1>7. left \in Seq(Word) /\ Len(left) <= BUFLEN /\ left[1] = words[n + 1]
  <2> DEFINE N == Len(words)
             m == n + 1
  <2>1. m \in 1 .. N /\ N \in m .. N /\ N - m + 1 <= N /\ m + 1 - 1 = m /\ 1 \in 1 .. N - m + 1
        /\ N <= BUFLEN /\ N - m + 1 \in Nat /\ N \in Nat
    BY <1>3
  <2> HIDE DEF m
  <2>2. SubSeq(words, m, N) \in Seq(Word) /\ Len(SubSeq(words, m, N)) = N - m + 1
        /\ \A k \in 1 .. N - m + 1 : SubSeq(words, m, N)[k] = words[m + k - 1]
    BY <1>3, <2>1, SubSeqWords
  <2>3. SubSeq(words, m, N)[1] = words[m]
    BY <2>1, <2>2
  <2>4. Len(SubSeq(words, m, N)) <= BUFLEN
    <3> HIDE DEF N
    <3> QED BY <2>1, <2>2, BufferAssumption
  <2> QED BY <2>2, <2>3, <2>4 DEF m
<1> HIDE DEF part, left
<1>8. packet' \in Packet /\ packet'.length = n /\ HoldsAt(packet', 0, part)
  BY <1>3, <1>4, <1>5, <1>6, ReadWords, BufferAssumption
<1>9. \A k \in 1 .. n : packet'.buffer[k - 1] = words[k]
  <2> SUFFICES ASSUME NEW k \in 1 .. n PROVE packet'.buffer[k - 1] = words[k]
    OBVIOUS
  <2>1. k \in 1 .. Len(part) /\ 0 + k - 1 = k - 1
    BY <1>3, <1>6
  <2> QED BY <1>6, <1>8, <2>1 DEF HoldsAt
<1>10. ScanChunks(packet') = -1
  <2>1. n \in 1 .. Len(words) - 1
    BY <1>3
  <2> QED BY <1>1, <1>2, <1>3, <1>8, <1>9, <2>1, PartIsNotScanned
<1>11. Expected'
  BY <1>5, <1>10 DEF Expected, Accepted
<1>12. RestHeadless'
  <2>1. n + 1 \in 2 .. Len(words)
    BY <1>3
  <2>2. words[n + 1] = Id("HSHr") => Spells(r)
    BY <1>1, <1>2, <2>1, OneHeader
  <2> QED BY <1>5, <1>7, <2>2 DEF RestHeadless
<1>13. packet'.length \in 1 .. BUFLEN
  BY <1>3, <1>8, BufferAssumption
<1> QED BY <1>5, <1>7, <1>8, <1>11, <1>12, <1>13, ReadIInv

LEMMA ReadRestIInv == ASSUME IInv, ReadRest PROVE IInv'
<1>1. /\ rest # <<>> /\ rest \in Seq(Word) /\ Len(rest) <= BUFLEN
      /\ (rest[1] = Id("HSHr") => Spells(request))
      /\ packet.counter \in Int /\ packet \in Packet
  BY DEF IInv, Types, RestHeadless, Packet, ReadRest
<1>2. packet' = Appended(PrepareForReply([packet EXCEPT !.counter = packet.counter]), rest)
      /\ rest' = <<>> /\ piece' = "rest" /\ request' = request /\ pc = "idle" /\ pc' = "process"
      /\ UNCHANGED <<token, arg, items, lost, strayed, results, method>>
  BY DEF ReadRest, Read
<1>3. packet' \in Packet /\ HoldsAt(packet', 0, rest) /\ packet'.length = Len(rest)
  BY <1>1, <1>2, ReadWords
<1>4. packet'.buffer[0] = rest[1]
  <2>1. 1 \in 1 .. Len(rest) /\ 0 + 1 - 1 = 0
    BY <1>1
  <2> QED BY <1>3, <2>1 DEF HoldsAt
<1>5. Expected'
  BY <1>1, <1>2, <1>4 DEF Expected, Accepted, IsHeaderOk
<1>6. RestHeadless' /\ rest' \in Seq(Word) /\ request' \in Requests
  BY <1>2 DEF RestHeadless, IInv, Types
<1>7. packet'.length \in 1 .. BUFLEN
  <2>1. Len(rest) \in Nat /\ Len(rest) # 0
    BY <1>1
  <2> QED BY <1>1, <1>3, <2>1, BufferAssumption
<1> QED BY <1>2, <1>3, <1>5, <1>6, <1>7, ReadIInv

-----------------------------------------------------------------------------
(* Processing                                                              *)

LEMMA ReconnectIInv == ASSUME IInv, Reconnect PROVE IInv'
<1>1. Types'
  BY NewPacketIsPacket DEF Reconnect, IInv, Types
<1>2. ItemsFit'
  BY ItemsStay DEF IInv, Reconnect
<1>3. RestHeadless' /\ Unloaded' /\ NoResults'
  BY DEF Reconnect, IInv, RestHeadless, Unloaded, NoResults
<1>4. InProcess' /\ InCommand' /\ InLoad' /\ InBegin' /\ InOperate' /\ InResults' /\ InReply'
      /\ OnlyWholeRequests' /\ OverrunByAnswersOnly'
  BY DEF Reconnect, InProcess, InCommand, InLoad, InBegin, InOperate, InResults, InReply,
         OnlyWholeRequests, OverrunByAnswersOnly
<1> QED BY <1>1, <1>2, <1>3, <1>4 DEF IInv

\* After a reply, and after a packet that was not accepted.
LEMMA FinishIInv ==
    ASSUME IInv, Finish, pc \in {"process", "reply"}, pc' \in {"idle", "unanswered"},
           packet' \in Packet
    PROVE  IInv'
<1>1. request' \in Requests
  BY NoChunksIsRequest DEF IInv, Types, Finish
<1>2. Types'
  BY <1>1 DEF IInv, Types, Finish
<1>3. ItemsFit'
  BY ItemsStay DEF IInv, Finish
<1>4. RestHeadless' /\ Unloaded' /\ NoResults'
  BY DEF Finish, IInv, RestHeadless, Unloaded, NoResults
<1>5. InProcess' /\ InCommand' /\ InLoad' /\ InBegin' /\ InOperate' /\ InResults' /\ InReply'
      /\ OnlyWholeRequests' /\ OverrunByAnswersOnly'
  BY DEF InProcess, InCommand, InLoad, InBegin, InOperate, InResults, InReply,
         OnlyWholeRequests, OverrunByAnswersOnly
<1> QED BY <1>2, <1>3, <1>4, <1>5 DEF IInv

LEMMA ProcessBadIInv == ASSUME IInv, ProcessBad PROVE IInv'
<1> DEFINE e == PrepareForReply(packet)
           h == AppendHeader(e)
           w == <<Text, Text, Text>>
           b == AppendChunk(h, "ftal", w)
<1>1. e \in Packet /\ e.length = 0
  BY DEF IInv, Types, PrepareForReply, Packet
<1>2. <<Id("HSHr")>> \in Seq(Word) /\ <<Id("endm")>> \in Seq(Word) /\ w \in Seq(Word)
      /\ Len(<<Id("HSHr")>>) = 1
  BY IdIsWord, TextIsWord DEF Mark
<1>3. packet' = AppendEndmark(b)
  BY DEF ProcessBad
<1> HIDE DEF e, w
<1>4. h \in Packet /\ h.length \in Nat
  <2> DEFINE words == <<Id("HSHr")>>
  <2>1. h = Appended(e, words) /\ words \in Seq(Word) /\ Len(words) = 1
    BY <1>2 DEF AppendHeader
  <2> HIDE DEF h, words
  <2>2. Extends(h, e, words)
    BY <1>1, <2>1, AppendedWords
  <2> QED BY <1>1, <2>1, <2>2 DEF Extends
<1> HIDE DEF h
<1>5. b \in Packet /\ b.length \in Nat
  <2>1. "ftal" \in ChunkId /\ Len(w) \in Nat
    BY <1>2 DEF ChunkId, ReplyId
  <2>2. Extends(b, h, Chunk("ftal", w)) /\ b.length = h.length + 2 + Len(w)
    BY <1>2, <1>4, <2>1, AppendedChunk
  <2> HIDE DEF b
  <2> QED BY <1>4, <2>1, <2>2 DEF Extends
<1> HIDE DEF b
<1>6. packet' \in Packet
  BY <1>2, <1>3, <1>5, AppendedWords DEF AppendEndmark, Extends
<1>7. Finish /\ pc = "process" /\ pc' \in {"idle", "unanswered"}
  BY DEF ProcessBad
<1> QED BY <1>6, <1>7, FinishIInv

LEMMA AcceptedPacket ==
    ASSUME IInv, pc = "process", Accepted
    PROVE  CounterOf \in Int /\ TokenOf \in CommandToken
<1>1. packet \in Packet /\ packet.length \in 1 .. BUFLEN
  BY DEF IInv, Types, InProcess
<1>2. CounterOf \in Int
  BY <1>1, NumberAtType DEF CounterOf
<1>3. FindChunk(packet, "CMND") \in Index
  BY <1>1, FoundInside DEF Accepted
<1>4. packet.buffer[FindChunk(packet, "CMND")] \in Word
  BY <1>1, <1>3 DEF Packet, Index
<1>5. \A w \in Word : "token" \in DOMAIN w => w.token \in CommandToken
  BY DEF Word, Text, Junk
<1>6. "freebeer" \in CommandToken
  BY DEF CommandToken
<1> QED BY <1>2, <1>4, <1>5, <1>6 DEF TokenOf

\* What a request that is accepted looks like, and what is found in it.
LEMMA AcceptedRequest ==
    ASSUME IInv, pc = "process", Accepted, piece = "whole"
    PROVE  /\ Shape(request) /\ Carries(packet, request)
           /\ TokenOf \in CommandToken /\ request.CMND = <<Token(TokenOf)>>
           /\ CounterOf = CounterIn(request.cntr) /\ CounterOf \in Int
<1>1. packet \in Packet /\ request \in Requests
  BY DEF IInv, Types
<1>2. PICK off : InBuffer(packet, request, off, 1)
  BY <1>1 DEF IInv, InProcess, Expected
<1>3. Shape(request)
  BY <1>1, RequestShape
<1>4. request.CMND # NULL
  <2>1. "CMND" \in RequestId
    BY DEF RequestId
  <2>2. Given(packet, "CMND", request["CMND"])
    BY <1>1, <1>2, <1>3, <2>1, WholeRequestGiven
  <2> QED BY <2>2 DEF Given, Accepted
<1>5. Carries(packet, request) /\ FindChunk(packet, "CMND") = 3
      /\ packet.buffer[3] = request.CMND[1]
  BY <1>1, <1>2, <1>3, <1>4, WholeRequestCarries
<1>6. PICK op \in CommandToken : request.CMND = <<Token(op)>>
  BY <1>3, <1>4 DEF Shape
<1>7. TokenOf = op
  <2>1. packet.buffer[FindChunk(packet, "CMND")] = Token(op)
    BY <1>5, <1>6
  <2>2. "token" \in DOMAIN Token(op) /\ Token(op).token = op
    BY DEF Token
  <2> QED BY <2>1, <2>2 DEF TokenOf
<1>8. CounterOf = CounterIn(request.cntr) /\ CounterOf \in Int
  <2>1. "cntr" \in RequestId /\ request.cntr \in Ints(Counter)
    BY <1>3 DEF RequestId, Shape
  <2>2. Given(packet, "cntr", request["cntr"])
    BY <1>1, <1>2, <1>3, <2>1, WholeRequestGiven
  <2>3. CASE request.cntr = NULL
    BY <2>2, <2>3 DEF Given, CounterOf, CounterIn
  <2>4. CASE request.cntr # NULL
    <3> DEFINE at == FindChunk(packet, "cntr")
               c == request.cntr
    <3>1. Holds(packet, at, c)
      BY <2>2, <2>4 DEF Given
    <3>2. Len(c) = 1 /\ Number(c[1]) \in Nat
      BY <2>1, <2>4, CounterWords
    <3> HIDE DEF at, c
    <3>3. at \in 3 .. BUFLEN - 1 /\ packet.buffer[at + 1 - 1] = c[1]
      BY <3>1, <3>2 DEF Holds
    <3>4. at + 1 - 1 = at /\ at # -1 /\ at \in DOMAIN packet.buffer
      BY <1>1, <3>3, BufferAssumption DEF Packet
    <3>5. NumberAt(packet, at) = Number(c[1])
      BY <3>3, <3>4 DEF NumberAt
    <3> QED BY <2>4, <3>2, <3>4, <3>5 DEF CounterOf, CounterIn, at, c
  <2> QED BY <2>3, <2>4
<1> QED BY <1>1, <1>3, <1>5, <1>6, <1>7, <1>8

LEMMA CarriesBuffer ==
    ASSUME NEW p, NEW q, NEW r, Carries(p, r), q.buffer = p.buffer
    PROVE  Carries(q, r)
<1>1. \A i, words : HoldsAt(p, i, words) => HoldsAt(q, i, words)
  BY DEF HoldsAt
<1>2. \A off : InBuffer(p, r, off, 2) => InBuffer(q, r, off, 2)
  BY <1>1 DEF InBuffer
<1> QED BY <1>1, <1>2 DEF Carries

LEMMA EmptyDomain == DOMAIN <<>> = {}
OBVIOUS

LEMMA ProcessIInv == ASSUME IInv, Process PROVE IInv'
<1>1. /\ pc = "process" /\ Accepted
      /\ UNCHANGED <<arg, items, lost, strayed, results, method, request, piece, rest>>
      /\ packet' = [packet EXCEPT !.counter = CounterOf] /\ token' = TokenOf
      /\ pc' = IF piece # "whole" THEN "spelled"
               ELSE IF token' \in LoadFirst THEN "load" ELSE "begin"
  BY DEF Process
<1>2. CounterOf \in Int /\ TokenOf \in CommandToken /\ packet' \in Packet
      /\ packet'.buffer = packet.buffer /\ packet'.counter = CounterOf
  <2>1. packet \in Packet
    BY DEF IInv, Types
  <2>2. CounterOf \in Int /\ TokenOf \in CommandToken
    BY <1>1, <2>1, AcceptedPacket
  <2> QED BY <1>1, <2>1, <2>2 DEF Packet
<1>3. Types'
  BY <1>1, <1>2 DEF IInv, Types
<1>4. ItemsFit'
  BY <1>1, ItemsStay DEF IInv
<1>5. RestHeadless' /\ Unloaded' /\ NoResults'
  BY <1>1 DEF IInv, RestHeadless, Unloaded, NoResults
<1>6. InProcess' /\ InOperate' /\ InResults' /\ InReply' /\ OverrunByAnswersOnly'
  BY <1>1 DEF InProcess, InOperate, InResults, InReply, OverrunByAnswersOnly
<1>7. CASE piece # "whole"
  <2>1. InCommand' /\ InLoad' /\ InBegin'
    BY <1>1, <1>7 DEF InCommand, InLoad, InBegin
  <2>2. piece = "rest" /\ Spells(request)
    BY <1>1, <1>7 DEF IInv, Types, InProcess, Expected
  <2>3. OnlyWholeRequests'
    BY <1>1, <2>2 DEF OnlyWholeRequests
  <2> QED BY <1>3, <1>4, <1>5, <1>6, <2>1, <2>3 DEF IInv
<1>8. CASE piece = "whole"
  <2>1. /\ Shape(request) /\ Carries(packet, request) /\ request.CMND = <<Token(TokenOf)>>
        /\ CounterOf = CounterIn(request.cntr)
    BY <1>1, <1>8, AcceptedRequest
  <2>2. InCommand'
    BY <1>1, <1>2, <2>1 DEF InCommand, Asked
  <2>3. Carries(packet', request')
    BY <1>1, <1>2, <2>1, CarriesBuffer
  <2>4. InLoad' /\ OnlyWholeRequests'
    BY <1>1, <1>8, <2>3 DEF InLoad, OnlyWholeRequests, LoadFirst, Keyed, Searches, Counts
  <2>5. InBegin'
    <3>1. CASE token' = "reorg"
      BY <2>3, <3>1 DEF InBegin
    <3>2. CASE token' \in LoadFirst
      BY <1>1, <1>8, <3>2 DEF InBegin
    <3>3. CASE token' # "reorg" /\ token' \notin LoadFirst
      <4>1. StrParams' = {} /\ IntParams' = {}
        BY <3>3 DEF StrParams, IntParams, LoadFirst
      <4>2. DOMAIN arg' = {} /\ token' # "set"
        BY <1>1, <3>3, EmptyDomain DEF IInv, Unloaded, LoadFirst
      <4> QED BY <3>3, <4>1, <4>2 DEF InBegin, Loaded
    <3> QED BY <3>1, <3>2, <3>3
  <2> QED BY <1>3, <1>4, <1>5, <1>6, <2>2, <2>4, <2>5 DEF IInv
<1> QED BY <1>7, <1>8

-----------------------------------------------------------------------------
(* Loading the parameters and beginning the reply                          *)

LEMMA ParamsAreIds ==
    /\ StrParams \subseteq RequestId \ {"CMND", "cntr"}
    /\ IntParams \subseteq RequestId \ {"CMND", "cntr"}
    /\ StrParams \subseteq {"QKEY", "QVAL", "SPAT"}
    /\ IntParams \subseteq {"LIMS", "LIMI", "RMET", "RCAP"}
    /\ StrParams \cap IntParams = {}
BY DEF StrParams, IntParams, RequestId

LEMMA IntWords ==
    ASSUME NEW r, Shape(r), NEW id \in {"LIMS", "LIMI", "RMET", "RCAP"}, r[id] # NULL
    PROVE  Len(r[id]) = 1 /\ r[id] = <<Integer(Number(r[id][1]))>>
<1>1. \A S : \A x \in Ints(S) : x # NULL => Len(x) = 1 /\ x = <<Integer(Number(x[1]))>>
  BY NumberOfInteger DEF Ints
<1>2. \E S : r[id] \in Ints(S)
  BY DEF Shape
<1> QED BY <1>1, <1>2

LEMMA HoldsIsKept ==
    ASSUME NEW p \in Packet, NEW q \in Packet, NEW at, NEW d \in Seq(Word), Holds(p, at, d),
           at >= 6, \A j \in Index : j >= 4 => q.buffer[j] = p.buffer[j]
    PROVE  Holds(q, at, d)
<1>1. /\ at \in 3 .. BUFLEN - 1 /\ at + Len(d) < BUFLEN /\ NumberAt(p, at - 1) = Len(d)
      /\ \A k \in 1 .. Len(d) : p.buffer[at + k - 1] = d[k]
  BY DEF Holds
<1>2. at \in Int /\ Len(d) \in Nat
  BY <1>1, BufferAssumption
<1>3. at - 1 \in Index /\ at - 1 >= 4
  BY <1>1, <1>2, BufferAssumption DEF Index
<1>4. NumberAt(q, at - 1) = Len(d)
  BY <1>1, <1>3 DEF NumberAt, Packet, Index
<1>5. ASSUME NEW k \in 1 .. Len(d) PROVE q.buffer[at + k - 1] = d[k]
  <2>1. at + k - 1 \in Index /\ at + k - 1 >= 4
    BY <1>1, <1>2, BufferAssumption DEF Index
  <2> QED BY <1>1, <2>1
<1> QED BY <1>1, <1>4, <1>5 DEF Holds

\* The reply is written in front of the parameters.
LEMMA LoadedIsKept ==
    ASSUME Loaded, Shape(request), packet \in Packet, packet' \in Packet,
           UNCHANGED <<arg, token, request>>,
           \A j \in Index : j >= 4 => packet'.buffer[j] = packet.buffer[j]
    PROVE  Loaded'
<1>1. StrParams' = StrParams /\ IntParams' = IntParams
  BY DEF StrParams, IntParams
<1>2. ASSUME NEW id \in StrParams
      PROVE  /\ request[id] # NULL /\ Holds(packet', arg[id].at, request[id])
             /\ arg[id].at >= 6 /\ arg[id].length = Len(request[id])
  <2>1. /\ request[id] # NULL /\ Holds(packet, arg[id].at, request[id])
        /\ arg[id].at >= 6 /\ arg[id].length = Len(request[id])
    BY <1>2 DEF Loaded
  <2>2. request[id] \in Seq(Word)
    BY <2>1, ParamsAreIds, RequestWords
  <2>3. Holds(packet', arg[id].at, request[id])
    BY <2>1, <2>2, HoldsIsKept
  <2> QED BY <2>1, <2>3
<1>3. arg' = arg /\ token' = token /\ request' = request
  OBVIOUS
<1> QED BY <1>1, <1>2, <1>3 DEF Loaded

LEMMA BegunReply ==
    ASSUME packet \in Packet, Shape(request), Asked
    PROVE  LET q == BeginReply(packet)
           IN  /\ q \in Packet /\ Counted(q, request.cntr, {})
               /\ q.length = AfterCounter(request.cntr) /\ q.counter = packet.counter
               /\ \A j \in Index : j >= 4 => q.buffer[j] = packet.buffer[j]
<1> DEFINE q == BeginReply(packet)
           c == request.cntr
<1>1. c \in Ints(Counter) /\ packet.counter = CounterIn(c)
  BY DEF Shape, Asked
<1> HIDE DEF q, c
<1>2. /\ q \in Packet /\ Counted(q, c, {}) /\ q.length = AfterCounter(c)
      /\ q.counter = packet.counter
      /\ \A j \in Index : j >= AfterCounter(c) => q.buffer[j] = packet.buffer[j]
  BY <1>1, BeginReplyCounted DEF q
<1>3. \A j \in Index : j >= 4 => q.buffer[j] = packet.buffer[j]
  BY <1>2 DEF AfterCounter, Index
<1> QED BY <1>2, <1>3 DEF q, c

LEMMA BeginIInv == ASSUME IInv, Begin PROVE IInv'
<1>1. /\ pc = "begin" /\ packet' = BeginReply(packet)
      /\ pc' = IF token = "reorg" THEN "load" ELSE "operate"
      /\ UNCHANGED <<token, arg, items, lost, strayed, results, method, request, piece, rest>>
  BY DEF Begin
<1>2. packet \in Packet /\ Shape(request) /\ Asked
      /\ (IF token = "reorg" THEN Carries(packet, request) ELSE Loaded)
  BY <1>1, RequestShape DEF IInv, Types, InCommand, InBegin
<1>3. /\ packet' \in Packet /\ Counted(packet', request.cntr, {})
      /\ packet'.length = AfterCounter(request.cntr) /\ packet'.counter = packet.counter
      /\ \A j \in Index : j >= 4 => packet'.buffer[j] = packet.buffer[j]
  BY <1>1, <1>2, BegunReply
<1>4. Types'
  BY <1>1, <1>3 DEF IInv, Types
<1>5. ItemsFit'
  BY <1>1, ItemsStay DEF IInv
<1>6. RestHeadless' /\ Unloaded' /\ NoResults'
  BY <1>1 DEF IInv, RestHeadless, Unloaded, NoResults
<1>7. InProcess' /\ InBegin' /\ InResults' /\ InReply' /\ OnlyWholeRequests' /\ OverrunByAnswersOnly'
  BY <1>1 DEF InProcess, InBegin, InResults, InReply, OnlyWholeRequests, OverrunByAnswersOnly
<1>8. InCommand'
  BY <1>1, <1>2, <1>3 DEF InCommand, Asked
<1>9. ReplyBegun'
  BY <1>1, <1>3 DEF ReplyBegun
<1>10. CASE token = "reorg"
  <2>1. Carries(packet', request)
    <3>1. request.cntr \in Ints(Counter) /\ packet.counter = CounterIn(request.cntr)
      BY <1>2 DEF Shape, Asked
    <3>2. Carries(packet, request)
      BY <1>2, <1>10
    <3> QED BY <1>1, <1>2, <3>1, <3>2, CarriesIsKept
  <2>2. InLoad' /\ InOperate'
    BY <1>1, <1>9, <1>10, <2>1 DEF InLoad, InOperate
  <2> QED BY <1>4, <1>5, <1>6, <1>7, <1>8, <2>2 DEF IInv
<1>11. CASE token # "reorg"
  <2>1. Loaded'
    BY <1>1, <1>2, <1>3, <1>11, LoadedIsKept
  <2>2. InLoad' /\ InOperate'
    BY <1>1, <1>9, <1>11, <2>1 DEF InLoad, InOperate
  <2> QED BY <1>4, <1>5, <1>6, <1>7, <1>8, <2>2 DEF IInv
<1> QED BY <1>10, <1>11

\* An integer parameter is read as it was written.
LEMMA LoadedInt ==
    ASSUME packet \in Packet, Shape(request), Carries(packet, request),
           NEW id \in {"LIMS", "LIMI", "RMET", "RCAP"}
    PROVE  LoadInt(packet, id) = IF request[id] = NULL THEN -1 ELSE Number(request[id][1])
<1> DEFINE at == FindChunk(packet, id)
           d == request[id]
<1>1. Given(packet, id, d)
  BY CarriedRequestGiven DEF RequestId
<1>2. CASE d = NULL
  BY <1>1, <1>2 DEF Given, LoadInt
<1>3. CASE d # NULL
  <2>1. Len(d) = 1 /\ Holds(packet, at, d)
    BY <1>1, <1>3, IntWords DEF Given
  <2> HIDE DEF at, d
  <2>2. at \in 3 .. BUFLEN - 1 /\ NumberAt(packet, at - 1) = 1 /\ packet.buffer[at + 1 - 1] = d[1]
    BY <2>1 DEF Holds
  <2>3. at # -1 /\ at + 1 - 1 = at /\ at \in DOMAIN packet.buffer
    BY <2>2, BufferAssumption DEF Packet
  <2>4. NumberAt(packet, at) = Number(d[1])
    BY <2>2, <2>3 DEF NumberAt
  <2> QED BY <1>3, <2>2, <2>3, <2>4 DEF LoadInt, at, d
<1> QED BY <1>2, <1>3

\* A key and a value that are in the buffer leave no more room to each other.
LEMMA ValueFits ==
    ASSUME NEW p, NEW r, Shape(r), Carries(p, r), r.QKEY # NULL, r.QVAL # NULL
    PROVE  Len(r.QVAL) <= BUFLEN - 9
<1>1. PICK off : Offsets(r, off) /\ off[10] < BUFLEN /\ off[2] = 4
  BY DEF Carries, InBuffer
<1>2. /\ off[3] \in Nat /\ off[3] >= 4 /\ off[4] \in Nat /\ off[5] \in Nat /\ off[10] \in Nat
      /\ off[5] <= off[10]
  <2>1. \A k \in 1 .. 10 : off[k] \in Nat /\ off[k] <= off[10]
    BY <1>1, OrderedOffsets
  <2>2. \A k \in 2 .. 10 : off[2] <= off[k]
    BY <1>1, OrderedOffsets
  <2> QED BY <1>1, <2>1, <2>2
<1>3. Order[3] = "QKEY" /\ Order[4] = "QVAL"
  BY DEF Order
<1>4. Len(r.QKEY) \in Nat /\ Len(r.QVAL) \in Nat
  <2>1. r["QKEY"] \in Seq(Word) /\ r["QVAL"] \in Seq(Word)
    BY RequestWords DEF RequestId
  <2> QED BY <2>1
<1>5. off[3 + 1] = off[3] + (2 + Len(r.QKEY)) /\ off[4 + 1] = off[4] + (2 + Len(r.QVAL))
  <2>1. \A k \in 1 .. 9 : r[Order[k]] # NULL => off[k + 1] = off[k] + (2 + Len(r[Order[k]]))
    BY <1>1 DEF Offsets
  <2> DEFINE i == 3
             j == 4
  <2>2. i \in 1 .. 9 /\ j \in 1 .. 9 /\ r[Order[i]] = r.QKEY /\ r[Order[j]] = r.QVAL
    BY <1>3
  <2> HIDE DEF i, j
  <2>3. off[i + 1] = off[i] + (2 + Len(r.QKEY)) /\ off[j + 1] = off[j] + (2 + Len(r.QVAL))
    BY <2>1, <2>2
  <2> QED BY <2>3 DEF i, j
<1> DEFINE m == Len(r.QKEY)
           n == Len(r.QVAL)
           o3 == off[3]
           o4 == off[4]
           o5 == off[5]
           o10 == off[10]
<1>6. o4 = o3 + (2 + m) /\ o5 = o4 + (2 + n)
  BY <1>5
<1>7. m \in Nat /\ n \in Nat /\ o3 \in Nat /\ o3 >= 4 /\ o4 \in Nat /\ o5 \in Nat
      /\ o10 \in Nat /\ o5 <= o10 /\ o10 < BUFLEN
  BY <1>1, <1>2, <1>4
<1> HIDE DEF m, n, o3, o4, o5, o10
<1>8. n <= BUFLEN - 9
  BY <1>6, <1>7, BufferAssumption
<1> QED BY <1>8 DEF n

LEMMA MandatoryGiven ==
    ASSUME packet \in Packet, Shape(request), Carries(packet, request), ~Missing,
           NEW id \in Mandatory
    PROVE  request[id] # NULL
<1>1. id \in RequestId \ {"CMND", "cntr"}
  BY ParamsAreIds DEF Mandatory
<1>2. Given(packet, id, request[id])
  BY <1>1, CarriedRequestGiven
<1>3. FindChunk(packet, id) # -1
  BY DEF Missing
<1> QED BY <1>2, <1>3 DEF Given

LEMMA LoadIInv == ASSUME IInv, Load PROVE IInv'
<1>1. /\ pc = "load" /\ ~Missing
      /\ arg' = [id \in StrParams \cup IntParams |->
                   IF id \in StrParams THEN LoadStr(packet, id) ELSE LoadInt(packet, id)]
      /\ pc' = IF token = "reorg" THEN "operate" ELSE "begin"
      /\ UNCHANGED <<packet, token, items, lost, strayed, results, method, request, piece, rest>>
  BY DEF Load
<1>2. packet \in Packet /\ Shape(request) /\ Asked /\ Carries(packet, request)
      /\ (token = "reorg" => ReplyBegun)
  BY <1>1, RequestShape DEF IInv, Types, InCommand, InLoad
<1>3. StrParams' = StrParams /\ IntParams' = IntParams
  BY <1>1 DEF StrParams, IntParams
<1>4. \A id \in RequestId \ {"CMND", "cntr"} :
         Given(packet, id, request[id]) /\ (request[id] # NULL => FindChunk(packet, id) >= 6)
  BY <1>2, CarriedRequestGiven
<1>5. \A id \in Mandatory : request[id] # NULL
  BY <1>1, <1>2, MandatoryGiven
<1>6. ASSUME NEW id \in StrParams
      PROVE  /\ request[id] # NULL /\ Holds(packet, arg'[id].at, request[id])
             /\ arg'[id].at >= 6 /\ arg'[id].length = Len(request[id])
  <2>1. request[id] # NULL /\ id \in RequestId \ {"CMND", "cntr"}
    BY <1>5, ParamsAreIds DEF Mandatory
  <2>2. Holds(packet, FindChunk(packet, id), request[id]) /\ FindChunk(packet, id) >= 6
    BY <1>4, <2>1 DEF Given
  <2>3. FindChunk(packet, id) # -1
    BY <2>2 DEF Holds
  <2>4. arg'[id] = LoadStr(packet, id)
    BY <1>1
  <2>5. arg'[id].at = FindChunk(packet, id)
        /\ arg'[id].length = NumberAt(packet, FindChunk(packet, id) - 1)
    BY <2>3, <2>4 DEF LoadStr
  <2> QED BY <2>1, <2>2, <2>5 DEF Holds
<1>7. ASSUME NEW id \in IntParams
      PROVE  arg'[id] = IF request[id] = NULL THEN -1 ELSE Number(request[id][1])
  <2>1. arg'[id] = LoadInt(packet, id)
    BY <1>1, ParamsAreIds
  <2>2. id \in {"LIMS", "LIMI", "RMET", "RCAP"}
    BY ParamsAreIds
  <2> QED BY <1>2, <2>1, <2>2, LoadedInt
<1>8. token = "set" => Len(request.QVAL) <= BUFLEN - 9
  <2> SUFFICES ASSUME token = "set" PROVE Len(request.QVAL) <= BUFLEN - 9
    OBVIOUS
  <2>1. "QKEY" \in Mandatory /\ "QVAL" \in Mandatory
    <3>1. token \notin Keyed /\ token \notin Searches \cup Counts
      BY DEF Keyed, Searches, Counts
    <3>2. StrParams = {"QKEY", "QVAL"}
      BY <3>1 DEF StrParams
    <3> QED BY <3>2 DEF Mandatory
  <2>2. request.QKEY # NULL /\ request.QVAL # NULL
    BY <1>5, <2>1
  <2> QED BY <1>2, <2>2, ValueFits
<1>9. token = "reorg" => request.RMET # NULL
  BY <1>5 DEF Mandatory, IntParams, Searches
<1>10. Loaded'
  <2>1. DOMAIN arg' = StrParams \cup IntParams
    BY <1>1
  <2> QED BY <1>1, <1>3, <1>6, <1>7, <1>8, <1>9, <2>1 DEF Loaded
<1>11. Types'
  BY <1>1 DEF IInv, Types
<1>12. ItemsFit'
  BY <1>1, ItemsStay DEF IInv
<1>13. RestHeadless' /\ Unloaded' /\ NoResults'
  BY <1>1 DEF IInv, RestHeadless, Unloaded, NoResults
<1>14. InProcess' /\ InLoad' /\ InResults' /\ InReply' /\ OnlyWholeRequests' /\ OverrunByAnswersOnly'
  BY <1>1 DEF InProcess, InLoad, InResults, InReply, OnlyWholeRequests, OverrunByAnswersOnly
<1>15. InCommand'
  BY <1>1, <1>2 DEF InCommand, Asked
<1>16. InBegin' /\ InOperate'
  BY <1>1, <1>2, <1>10 DEF InBegin, InOperate, ReplyBegun
<1> QED BY <1>11, <1>12, <1>13, <1>14, <1>15, <1>16 DEF IInv

-----------------------------------------------------------------------------
(* Replies                                                                 *)

LEMMA EndmarkLength ==
    ASSUME NEW p \in Packet, p.length \in Nat
    PROVE  AppendEndmark(p) \in Packet /\ AppendEndmark(p).length = p.length + 1
<1> DEFINE words == <<Id("endm")>>
           q == AppendEndmark(p)
<1>1. words \in Seq(Word) /\ Len(words) = 1
  BY IdIsWord DEF Mark
<1>2. q = Appended(p, words)
  BY DEF AppendEndmark
<1> HIDE DEF words, q
<1>3. Extends(q, p, words)
  BY <1>1, <1>2, AppendedWords
<1>4. q \in Packet /\ q.length = p.length + 1
  BY <1>1, <1>3 DEF Extends
<1> QED BY <1>4 DEF q

\* A reply is complete, or has run over the end of the buffer.
LEMMA ReplyStep ==
    ASSUME IInv, pc \in {"load", "operate", "results"},
           UNCHANGED <<token, arg, request, piece, rest>>,
           ItemsFit', method' \in Method, strayed' \in BOOLEAN, results' = {},
           NEW p, NEW ids \in SUBSET AnswerId, Counted(p, request.cntr, ids), Respond(p),
           p.length > BUFLEN - 1 => token \in Searches \/ (token = "get" /\ p.length <= BUFLEN + 3)
    PROVE  IInv'
<1> DEFINE c == request.cntr
           q == AppendEndmark(p)
<1>1. packet' = q /\ pc' = IF q.length > BUFLEN THEN "overrun" ELSE "reply"
  BY DEF Respond
<1>2. c \in Ints(Counter) /\ Asked
  <2>1. Shape(request)
    BY RequestShape DEF IInv, Types
  <2> QED BY <2>1 DEF IInv, InCommand, Shape
<1>3. p \in Packet /\ p.length \in Nat /\ q \in Packet /\ q.length = p.length + 1
  BY CountedIsPacket, EndmarkLength
<1>4. pc' = "reply" => Readable(q, c)
  <2> SUFFICES ASSUME pc' = "reply" PROVE Readable(q, c)
    OBVIOUS
  <2>1. q.length <= BUFLEN
    BY <1>1, <1>3, BufferAssumption
  <2> QED BY <1>2, <2>1, CountedReply
<1> HIDE DEF q
<1>5. Types'
  BY <1>1, <1>3 DEF IInv, Types
<1>6. RestHeadless' /\ Unloaded' /\ NoResults'
  BY <1>1 DEF IInv, RestHeadless, Unloaded, NoResults
<1>7. InProcess' /\ InCommand' /\ InLoad' /\ InBegin' /\ InOperate' /\ InResults'
  BY <1>1 DEF InProcess, InCommand, InLoad, InBegin, InOperate, InResults
<1>8. InReply' /\ OnlyWholeRequests'
  BY <1>1, <1>2, <1>4 DEF InReply, ReplyReadable, OnlyWholeRequests
<1>9. OverrunByAnswersOnly'
  BY <1>1, <1>3, BufferAssumption DEF OverrunByAnswersOnly
<1> QED BY <1>5, <1>6, <1>7, <1>8, <1>9 DEF IInv

PlainId == AnswerId \ {"AKEY", "AVAL"}

\* A reply with a status and n words behind the counter, none of them data.
Plain(p, c, st, n) ==
    Counted(p, c, PlainId) /\ Reported(p, c, st) /\ p.length = AfterCounter(c) + n

LEMMA PlainReport ==
    ASSUME NEW p, NEW c \in Ints(Counter), Counted(p, c, {}), p.length = AfterCounter(c),
           NEW st \in CommandStatus
    PROVE  Plain(Report(p, st), c, st, 6)
<1>1. "STAT" \in PlainId /\ PlainId \in SUBSET AnswerId
  BY DEF PlainId, AnswerId, ReplyId
<1> QED BY <1>1, ReportReports DEF Plain

LEMMA PlainFigure ==
    ASSUME NEW p, NEW c \in Ints(Counter), NEW st \in CommandStatus, NEW n \in Nat,
           Plain(p, c, st, n), NEW id \in PlainId, NEW v \in Int
    PROVE  Plain(AppendChunk(p, id, <<Integer(v)>>), c, st, n + 3)
<1> DEFINE w == <<Integer(v)>>
           q == AppendChunk(p, id, w)
           ids == PlainId
<1>1. w \in Seq(Word) /\ Len(w) = 1
  BY IntegerIsWord
<1>2. ids \in SUBSET AnswerId /\ id \in ids
  BY DEF PlainId
<1>3. Counted(p, c, ids) /\ Reported(p, c, st) /\ p.length = AfterCounter(c) + n
  BY DEF Plain
<1> HIDE DEF w, ids
<1>4. Counted(q, c, ids) /\ q.length = p.length + 2 + Len(w)
  BY <1>1, <1>2, <1>3, CountedAppend
<1>5. Reported(q, c, st)
  BY <1>1, <1>2, <1>3, ReportedAppend
<1> HIDE DEF q
<1>6. q.length = AfterCounter(c) + (n + 3)
  BY <1>1, <1>3, <1>4, AfterCounterIsNumber
<1> QED BY <1>4, <1>5, <1>6 DEF Plain, ids, q, w

\* What the client will make of a reply without data.
Replied(st) ==
    pc' = "reply" /\ StatusOf(packet') = st /\ Received(packet', "AVAL") = NULL

LEMMA PlainStep ==
    ASSUME IInv, pc \in {"load", "operate", "results"},
           UNCHANGED <<token, arg, request, piece, rest>>,
           ItemsFit', method' \in Method, strayed' \in BOOLEAN, results' = {},
           NEW p, NEW st \in CommandStatus, NEW n \in 0 .. 24, Plain(p, request.cntr, st, n),
           Respond(p)
    PROVE  IInv' /\ Replied(st)
<1> DEFINE c == request.cntr
           ids == PlainId
<1>1. c \in Ints(Counter)
  <2>1. Shape(request)
    BY RequestShape DEF IInv, Types
  <2> QED BY <2>1 DEF Shape
<1>2. ids \in SUBSET AnswerId /\ "AVAL" \notin ids
  BY DEF PlainId
<1>3. Counted(p, c, ids) /\ Reported(p, c, st) /\ p.length = AfterCounter(c) + n
  BY DEF Plain
<1>4. p.length <= BUFLEN - 1
  BY <1>3, AfterCounterIsNumber, RoomAssumption, BufferAssumption
<1>5. p.length \in Nat
  BY <1>3, CountedIsPacket
<1>6. ~(p.length > BUFLEN - 1)
  BY <1>4, <1>5, BufferAssumption
<1> HIDE DEF c, ids
<1>7. IInv'
  BY <1>2, <1>3, <1>6, ReplyStep DEF c
<1>8. pc' = "reply" /\ StatusOf(packet') = st /\ Received(packet', "AVAL") = NULL
  <2> DEFINE q == AppendEndmark(p)
  <2>1. packet' = q /\ (pc' = IF q.length > BUFLEN THEN "overrun" ELSE "reply")
    BY DEF Respond
  <2>2. q.length = p.length + 1
    BY <1>2, <1>3, CountedIsPacket, EndmarkLength
  <2>3. q.length <= BUFLEN /\ ~(q.length > BUFLEN)
    BY <1>4, <1>5, <2>2, BufferAssumption
  <2>4. StatusOf(q) = st
    BY <1>1, <1>2, <1>3, <2>3, ReportedReply
  <2>5. FindChunk(q, "AVAL") = -1
    BY <1>1, <1>2, <1>3, <2>3, CountedReply
  <2> HIDE DEF q
  <2> QED BY <2>1, <2>3, <2>4, <2>5 DEF Received
<1> QED BY <1>7, <1>8 DEF Replied

LEMMA LoadMissingIInv ==
    ASSUME IInv, LoadMissing
    PROVE  IInv' /\ Replied("MISSING_PARAM")
<1> DEFINE b == BeginReply(packet)
           st == "MISSING_PARAM"
           c == request.cntr
<1>1. pc = "load" /\ Respond(Report(b, st))
      /\ UNCHANGED <<token, arg, items, lost, strayed, results, method, request, piece, rest>>
  BY DEF LoadMissing
<1>2. packet \in Packet /\ Shape(request) /\ Asked /\ c \in Ints(Counter) /\ st \in CommandStatus
  BY <1>1, RequestShape DEF IInv, Types, InCommand, Shape, CommandStatus
<1>3. Counted(b, c, {}) /\ b.length = AfterCounter(c)
  BY <1>2, BegunReply
<1>4. ItemsFit' /\ method' \in Method /\ strayed' \in BOOLEAN /\ results' = {}
  BY <1>1, ItemsStay DEF IInv, Types, NoResults
<1> HIDE DEF b, st
<1>5. Plain(Report(b, st), c, st, 6)
  BY <1>2, <1>3, PlainReport
<1>6. IInv' /\ Replied(st)
  BY <1>1, <1>2, <1>4, <1>5, PlainStep
<1> QED BY <1>6 DEF st

\* The reply to a method of -1, which is not complete.
LEMMA LoadMinusOneIInv ==
    ASSUME IInv, LoadMinusOne
    PROVE  IInv' /\ Carries(packet', request)
<1>1. pc = "load" /\ ~Missing /\ token = "reorg" /\ LoadInt(packet, "RMET") = -1 /\ pc' = "reply"
      /\ UNCHANGED <<packet, token, arg, items, lost, strayed, results, method, request, piece, rest>>
  BY DEF LoadMinusOne
<1>2. packet \in Packet /\ Shape(request) /\ Asked /\ Carries(packet, request)
  BY <1>1, RequestShape DEF IInv, Types, InCommand, InLoad
<1>3. request.RMET # NULL
  <2>1. "RMET" \in Mandatory
    BY <1>1 DEF Mandatory, IntParams, Searches
  <2> QED BY <1>1, <1>2, <2>1, MandatoryGiven
<1>4. request.RMET = <<Integer(-1)>>
  <2>1. LoadInt(packet, "RMET") = Number(request["RMET"][1])
    BY <1>2, <1>3, LoadedInt
  <2>2. request["RMET"] = <<Integer(Number(request["RMET"][1]))>>
    BY <1>2, <1>3, IntWords
  <2> QED BY <1>1, <2>1, <2>2
<1>5. Types'
  BY <1>1 DEF IInv, Types
<1>6. ItemsFit'
  BY <1>1, ItemsStay DEF IInv
<1>7. RestHeadless' /\ Unloaded' /\ NoResults'
  BY <1>1 DEF IInv, RestHeadless, Unloaded, NoResults
<1>8. InProcess' /\ InCommand' /\ InLoad' /\ InBegin' /\ InOperate' /\ InResults'
      /\ OnlyWholeRequests' /\ OverrunByAnswersOnly'
  BY <1>1 DEF InProcess, InCommand, InLoad, InBegin, InOperate, InResults, OnlyWholeRequests, OverrunByAnswersOnly
<1>9. InReply'
  BY <1>1, <1>2, <1>4 DEF InReply, ReplyReadable, Asked
<1> QED BY <1>1, <1>2, <1>5, <1>6, <1>7, <1>8, <1>9 DEF IInv

\* The capacity may be reported behind the status and another figure.
LEMMA CapacityStep ==
    ASSUME IInv, pc \in {"load", "operate", "results"},
           UNCHANGED <<token, arg, request, piece, rest>>,
           ItemsFit', method' \in Method, strayed' \in BOOLEAN, results' = {}, request.cntr \in Ints(Counter),
           NEW report, NEW st \in CommandStatus, NEW n \in 0 .. 21,
           Plain(report, request.cntr, st, n), Respond(report) \/ Respond(WithCapacity(report))
    PROVE  IInv' /\ Replied(st)
<1>1. n \in Nat /\ n \in 0 .. 24 /\ n + 3 \in 0 .. 24
  OBVIOUS
<1>2. CASE Respond(report)
  BY <1>1, <1>2, PlainStep
<1>3. CASE Respond(WithCapacity(report))
  <2> DEFINE id == "CPTY"
             v == 0
             m == n + 3
             p == AppendChunk(report, id, <<Integer(v)>>)
  <2>1. id \in PlainId /\ v \in Int
    BY DEF PlainId, AnswerId, ReplyId
  <2>2. Respond(p)
    BY <1>3 DEF WithCapacity
  <2> HIDE DEF id, v
  <2>3. Plain(p, request.cntr, st, n + 3)
    BY <1>1, <2>1, PlainFigure
  <2>4. m \in 0 .. 24 /\ Plain(p, request.cntr, st, m)
    BY <1>1, <2>3
  <2> HIDE DEF m, p
  <2> QED BY <2>2, <2>4, PlainStep
<1> QED BY <1>2, <1>3

-----------------------------------------------------------------------------
(* The table is called                                                     *)

\* What the table finds behind a pointer is what the client has sent.
LEMMA DataIsRequested ==
    ASSUME packet \in Packet, Shape(request), Loaded, NEW id \in StrParams
    PROVE  DataOf(id) = request[id] /\ request[id] # NULL
<1> DEFINE d == request[id]
           at == arg[id].at
           s == [i \in 1 .. BUFLEN |-> packet.buffer[i - 1]]
<1>1. d # NULL /\ Holds(packet, at, d) /\ at >= 6 /\ arg[id].length = Len(d)
  BY DEF Loaded
<1>2. d \in Seq(Word)
  BY <1>1, ParamsAreIds, RequestWords
<1>3. at \in 3 .. BUFLEN - 1 /\ at + Len(d) < BUFLEN
      /\ \A k \in 1 .. Len(d) : packet.buffer[at + k - 1] = d[k]
  BY <1>1 DEF Holds
<1>4. DataOf(id) = SubSeq(s, at + 1, at + Len(d))
  BY <1>1 DEF DataOf
<1>5. \A i \in 1 .. BUFLEN : s[i] = packet.buffer[i - 1]
  OBVIOUS
<1> HIDE DEF d, at, s
<1>6. \A i \in at + 1 .. at + Len(d) : s[i] = packet.buffer[i - 1] /\ s[i] \in Word
  <2> SUFFICES ASSUME NEW i \in at + 1 .. at + Len(d)
               PROVE  s[i] = packet.buffer[i - 1] /\ s[i] \in Word
    OBVIOUS
  <2>1. Len(d) \in Nat
    BY <1>2
  <2>2. i \in 1 .. BUFLEN /\ i - 1 \in 0 .. BUFLEN - 1
    BY <1>3, <2>1, BufferAssumption
  <2>3. s[i] = packet.buffer[i - 1]
    BY <1>5, <2>2
  <2>4. packet.buffer[i - 1] \in Word
    BY <2>2 DEF Packet
  <2> QED BY <2>3, <2>4
<1> DEFINE m == at + 1
           n == at + Len(d)
           t == SubSeq(s, m, n)
<1>7. m \in Int /\ n \in Int /\ \A i \in m .. n : s[i] \in Word
  BY <1>2, <1>3, <1>6, BufferAssumption
<1>8. n - m + 1 = Len(d) /\ (m <= n => n - m + 1 = Len(d)) /\ (~(m <= n) => Len(d) = 0)
      /\ (\A k \in 1 .. Len(d) : m + k - 1 = at + k /\ at + k \in at + 1 .. at + Len(d)
                                 /\ at + k - 1 = (at + k) - 1)
  BY <1>2, <1>3, BufferAssumption
<1> HIDE DEF m, n
<1>9. /\ t \in Seq(Word) /\ Len(t) = IF m <= n THEN n - m + 1 ELSE 0
      /\ \A k \in 1 .. n - m + 1 : t[k] = s[m + k - 1]
  BY <1>7, SubSeqProperties
<1>10. Len(t) = Len(d)
  BY <1>8, <1>9
<1>11. \A k \in 1 .. Len(t) : t[k] = d[k]
  <2> SUFFICES ASSUME NEW k \in 1 .. Len(d) PROVE t[k] = d[k]
    BY <1>10
  <2>1. t[k] = s[m + k - 1] /\ m + k - 1 = at + k
    BY <1>8, <1>9
  <2>2. s[at + k] = packet.buffer[(at + k) - 1]
    BY <1>6, <1>8
  <2>3. packet.buffer[at + k - 1] = d[k] /\ at + k - 1 = (at + k) - 1
    BY <1>3, <1>8
  <2> QED BY <2>1, <2>2, <2>3
<1>12. t = d
  BY <1>2, <1>9, <1>10, <1>11, SeqEqual
<1> QED BY <1>1, <1>4, <1>12 DEF m, n, d

LEMMA OperateFacts ==
    ASSUME IInv, pc = "operate"
    PROVE  /\ packet \in Packet /\ Shape(request) /\ request.cntr \in Ints(Counter)
           /\ Asked /\ Loaded /\ ReplyBegun /\ ItemsFit /\ results = {} /\ method \in Method /\ strayed \in BOOLEAN
           /\ \A st \in CommandStatus : Plain(Report(packet, st), request.cntr, st, 6)
           /\ \A id \in StrParams : DataOf(id) = request[id] /\ request[id] # NULL
<1>1. packet \in Packet /\ Shape(request) /\ request.cntr \in Ints(Counter)
      /\ Asked /\ Loaded /\ ReplyBegun /\ ItemsFit /\ results = {} /\ method \in Method /\ strayed \in BOOLEAN
  BY RequestShape DEF IInv, Types, InCommand, InOperate, NoResults, Shape
<1>2. ASSUME NEW st \in CommandStatus
      PROVE  Plain(Report(packet, st), request.cntr, st, 6)
  BY <1>1, PlainReport DEF ReplyBegun
<1>3. ASSUME NEW id \in StrParams
      PROVE  DataOf(id) = request[id] /\ request[id] # NULL
  BY <1>1, DataIsRequested
<1> QED BY <1>1, <1>2, <1>3

\* The key and the value of a command, from its request.
LEMMA KeyedParams ==
    ASSUME token \in Keyed \cup {"set"}
    PROVE  "QKEY" \in StrParams /\ (token = "set" => "QVAL" \in StrParams)
<1>1. token \in Keyed => StrParams = {"QKEY"}
  BY DEF StrParams, Keyed, Searches, Counts
<1>2. token = "set" => StrParams = {"QKEY", "QVAL"}
  BY DEF StrParams, Keyed, Searches, Counts
<1> QED BY <1>1, <1>2 DEF Keyed

LEMMA KeyAndValue ==
    ASSUME IInv, pc = "operate", token \in Keyed \cup {"set"}
    PROVE  /\ DataOf("QKEY") = request.QKEY /\ request.QKEY \in Key
           /\ token = "set" => /\ DataOf("QVAL") = request.QVAL /\ request.QVAL \in Value
                               /\ Len(request.QVAL) <= BUFLEN - 9
<1>1. Shape(request) /\ Loaded /\ \A id \in StrParams : DataOf(id) = request[id] /\ request[id] # NULL
  BY OperateFacts
<1>2. "QKEY" \in StrParams /\ (token = "set" => "QVAL" \in StrParams)
  BY KeyedParams
<1>3. DataOf("QKEY") = request.QKEY /\ request.QKEY # NULL
  BY <1>1, <1>2
<1>4. token = "set" => DataOf("QVAL") = request.QVAL /\ request.QVAL # NULL
  BY <1>1, <1>2
<1> QED BY <1>1, <1>3, <1>4 DEF Shape, Loaded

LEMMA DataAreWords ==
    /\ \A k \in Key : k \in Seq(Word)
    /\ \A v \in Value : v \in Seq(Word) /\ Len(v) \in Nat /\ v # NULL
    /\ NULL \notin Value
BY DataAssumption, NullAssumption

\* Entries are only dealt out anew, and one may be new.
LEMMA FitIsKept ==
    ASSUME NEW t, NEW l, Fit(t, l), NEW u, NEW m, u \in [DOMAIN u -> Item],
           NEW e \in FitEntry, Entries(u) \cup m \subseteq Entries(t) \cup l \cup {e}
    PROVE  Fit(u, m)
<1>1. IsFiniteSet(Entries(t) \cup l \cup {e})
  BY FS_AddElement DEF Fit
<1>2. IsFiniteSet(Entries(u) \cup m)
  BY <1>1, FS_Subset
<1> QED BY <1>2 DEF Fit

LEMMA FitIsDealt ==
    ASSUME NEW t, NEW l, Fit(t, l), NEW u, NEW m, u \in [DOMAIN u -> Item],
           Entries(u) \cup m \subseteq Entries(t) \cup l
    PROVE  Fit(u, m)
<1>1. IsFiniteSet(Entries(u) \cup m)
  BY FS_Subset DEF Fit
<1> QED BY <1>1 DEF Fit

LEMMA EntryIsFit ==
    ASSUME NEW k \in Key, NEW item \in Item, Shown(item) \in Value,
           Len(Shown(item)) <= BUFLEN - 9
    PROVE  <<k, item>> \in FitEntry
BY DEF FitEntry

LEMMA ItemIsFit ==
    ASSUME NEW t, NEW l, Fit(t, l), NEW k \in DOMAIN t
    PROVE  /\ k \in Key /\ t[k] \in Item
           /\ Shown(t[k]) \in Value /\ Len(Shown(t[k])) <= BUFLEN - 9
<1>1. <<k, t[k]>> \in Entries(t)
  BY DEF Entries
<1> QED BY <1>1 DEF Fit, FitEntry

LEMMA StoredIsFit ==
    ASSUME ItemsFit, NEW k, NEW item, <<k, item>> \in FitEntry
    PROVE  /\ Fit(Stored(k, item), lost) /\ DOMAIN Stored(k, item) = DOMAIN items \cup {k}
           /\ \A x \in DOMAIN items \cup {k} :
                 Stored(k, item)[x] = IF x = k THEN item ELSE items[x]
<1> DEFINE u == Stored(k, item)
           e == <<k, item>>
<1>1. DOMAIN u = DOMAIN items \cup {k}
      /\ \A x \in DOMAIN items \cup {k} : u[x] = IF x = k THEN item ELSE items[x]
  BY DEF Stored
<1>2. item \in Item /\ items \in [DOMAIN items -> Item] /\ Fit(items, lost)
  BY DEF FitEntry, ItemsFit, Fit
<1>3. u \in [DOMAIN u -> Item]
  BY <1>2 DEF Stored
<1> HIDE DEF u
<1>4. Entries(u) \cup lost \subseteq Entries(items) \cup lost \cup {e}
  BY <1>1 DEF Entries
<1>5. Fit(u, lost)
  BY <1>2, <1>3, <1>4, FitIsKept
<1> QED BY <1>1, <1>5 DEF u

LEMMA RearrangedIsFit ==
    ASSUME NEW t, Fit(t, lost), strayed \in BOOLEAN, Rearranged(t)
    PROVE  ItemsFit' /\ strayed' \in BOOLEAN
<1> DEFINE all == Entries(t) \cup lost
<1>1. CASE items' = t /\ UNCHANGED <<lost, strayed>>
  BY <1>1 DEF ItemsFit
<1>2. CASE /\ strayed' = TRUE
           /\ \E keys \in SUBSET {e[1] : e \in all} : items' \in [keys -> {e[2] : e \in all}]
           /\ Entries(items') \subseteq all /\ lost' \in SUBSET all
  <2>1. PICK keys : items' \in [keys -> {e[2] : e \in all}]
    BY <1>2
  <2>2. \A e \in all : e[2] \in Item
    BY DEF Fit, FitEntry
  <2>3. items' \in [DOMAIN items' -> Item]
    BY <2>1, <2>2
  <2>4. Entries(items') \cup lost' \subseteq Entries(t) \cup lost
    BY <1>2
  <2>5. Fit(items', lost')
    BY <2>3, <2>4, FitIsDealt
  <2> QED BY <1>2, <2>5 DEF ItemsFit
<1> QED BY <1>1, <1>2 DEF Rearranged

LEMMA NewItemFits ==
    ASSUME NEW k \in Key, NEW v \in Value, Len(v) <= BUFLEN - 9
    PROVE  /\ <<k, NewItem(v)>> \in FitEntry /\ Shown(NewItem(v)) = v
           /\ \A item \in Item : <<k, Replaced(item, v)>> \in FitEntry
                                /\ Shown(Replaced(item, v)) = v
<1>1. NewItem(v) \in Item /\ Shown(NewItem(v)) = v
  BY DataAreWords DEF NewItem, Item, Shown, Broken
<1>2. <<k, NewItem(v)>> \in FitEntry
  BY <1>1, EntryIsFit
<1>3. ASSUME NEW item \in Item
      PROVE  <<k, Replaced(item, v)>> \in FitEntry /\ Shown(Replaced(item, v)) = v
  <2> DEFINE new == [item EXCEPT !.data = NULL]
  <2>1. new \in Item /\ Broken(new)
    BY DEF Item, Broken
  <2> HIDE DEF new
  <2>2. CASE Replaced(item, v) = NewItem(v)
    BY <1>1, <1>2, <2>2
  <2>3. CASE v = <<>> /\ Replaced(item, v) = new
    <3>1. Shown(new) = v
      BY <2>1, <2>3 DEF Shown
    <3>2. <<k, new>> \in FitEntry
      BY <2>1, <3>1, EntryIsFit
    <3> QED BY <2>3, <3>1, <3>2
  <2> QED BY <2>2, <2>3 DEF Replaced, new
<1> QED BY <1>1, <1>2, <1>3

LEMMA SetUpdatedIInv ==
    ASSUME IInv, SetUpdated
    PROVE  /\ IInv' /\ Replied("UPDATED") /\ UNCHANGED <<lost, strayed>>
           /\ request.QKEY \in DOMAIN items /\ DOMAIN items' = DOMAIN items
           /\ \A x \in DOMAIN items :
                 Shown(items'[x]) = IF x = request.QKEY THEN request.QVAL ELSE Shown(items[x])
<1> DEFINE k == request.QKEY
           v == request.QVAL
           new == Replaced(items[k], v)
           st == "UPDATED"
           p == Report(packet, st)
           n == 6
<1>1. pc = "operate" /\ token \in {"set"} /\ UNCHANGED <<token, arg, request, piece, rest>>
      /\ DataOf("QKEY") \in DOMAIN items /\ UNCHANGED <<lost, strayed, method, results>>
      /\ items' = Stored(DataOf("QKEY"), Replaced(items[DataOf("QKEY")], DataOf("QVAL")))
      /\ Respond(p)
  BY DEF SetUpdated, Handle
<1>2. DataOf("QKEY") = k /\ k \in Key /\ DataOf("QVAL") = v /\ v \in Value /\ Len(v) <= BUFLEN - 9
  BY <1>1, KeyAndValue
<1>3. packet \in Packet /\ ItemsFit /\ results = {} /\ method \in Method /\ strayed \in BOOLEAN /\ n \in 0 .. 24
      /\ st \in CommandStatus /\ Plain(p, request.cntr, st, n)
  BY <1>1, OperateFacts DEF CommandStatus
<1> HIDE DEF k, v, p, st, n
<1>4. items' = Stored(k, new) /\ k \in DOMAIN items
  BY <1>1, <1>2
<1>5. items[k] \in Item
  BY <1>3, <1>4, ItemIsFit DEF ItemsFit
<1>6. <<k, new>> \in FitEntry /\ Shown(new) = v
  BY <1>2, <1>5, NewItemFits
<1> HIDE DEF new
<1>7. Fit(items', lost) /\ DOMAIN items' = DOMAIN items \cup {k}
      /\ \A x \in DOMAIN items \cup {k} : items'[x] = IF x = k THEN new ELSE items[x]
  BY <1>3, <1>4, <1>6, StoredIsFit
<1>8. ItemsFit'
  BY <1>1, <1>7 DEF ItemsFit
<1>9. IInv' /\ Replied(st)
  BY <1>1, <1>3, <1>8, PlainStep
<1>10. \A x \in DOMAIN items : Shown(items'[x]) = IF x = k THEN v ELSE Shown(items[x])
  BY <1>6, <1>7
<1> QED BY <1>1, <1>4, <1>7, <1>9, <1>10 DEF k, v, st

LEMMA SetInsertedIInv ==
    ASSUME IInv, SetInserted
    PROVE  /\ IInv' /\ Replied("INSERTED")
           /\ request.QKEY \notin DOMAIN items
           /\ \E t : /\ Fit(t, lost) /\ DOMAIN t = DOMAIN items \cup {request.QKEY}
                     /\ \A x \in DOMAIN t : Shown(t[x]) = IF x = request.QKEY THEN request.QVAL
                                                          ELSE Shown(items[x])
                     /\ (items' = t /\ UNCHANGED <<lost, strayed>>) \/ Rearranged(t)
<1> DEFINE k == request.QKEY
           v == request.QVAL
           new == NewItem(v)
           st == "INSERTED"
           report == Report(packet, st)
           t == Stored(k, new)
           n == 6
<1>1. pc = "operate" /\ token \in {"set"} /\ UNCHANGED <<token, arg, request, piece, rest>>
      /\ DataOf("QKEY") \notin DOMAIN items /\ UNCHANGED <<method, results>>
  BY DEF SetInserted, Handle
<1>2. DataOf("QKEY") = k /\ k \in Key /\ DataOf("QVAL") = v /\ v \in Value /\ Len(v) <= BUFLEN - 9
  BY <1>1, KeyAndValue
<1>3. \/ Respond(report) /\ items' = t /\ UNCHANGED <<lost, strayed>>
      \/ Respond(WithCapacity(report)) /\ Rearranged(t)
  BY <1>2 DEF SetInserted
<1>4. packet \in Packet /\ ItemsFit /\ results = {} /\ method \in Method /\ strayed \in BOOLEAN /\ n \in 0 .. 21
      /\ st \in CommandStatus /\ Plain(report, request.cntr, st, n)
      /\ request.cntr \in Ints(Counter)
  BY <1>1, OperateFacts DEF CommandStatus
<1> HIDE DEF k, v, report, st, n
<1>5. <<k, new>> \in FitEntry /\ Shown(new) = v
  BY <1>2, NewItemFits
<1> HIDE DEF new
<1>6. Fit(t, lost) /\ DOMAIN t = DOMAIN items \cup {k}
      /\ \A x \in DOMAIN t : Shown(t[x]) = IF x = k THEN v ELSE Shown(items[x])
  BY <1>4, <1>5, StoredIsFit
<1> HIDE DEF t
<1>7. ItemsFit' /\ strayed' \in BOOLEAN
  BY <1>3, <1>4, <1>6, RearrangedIsFit DEF ItemsFit
<1>8. IInv' /\ Replied(st)
  BY <1>1, <1>3, <1>4, <1>7, CapacityStep
<1> QED BY <1>1, <1>2, <1>3, <1>6, <1>8 DEF k, v, st

LEMMA GetFoundIInv ==
    ASSUME IInv, GetFound
    PROVE  /\ IInv' /\ UNCHANGED <<items, lost, strayed>>
           /\ request.QKEY \in DOMAIN items /\ ~Broken(items[request.QKEY])
           /\ pc' \in {"reply", "overrun"}
           /\ pc' = "reply" => /\ StatusOf(packet') = "FOUND"
                               /\ Received(packet', "AVAL") = items[request.QKEY].data
<1> DEFINE k == request.QKEY
           v == items[k].data
           c == request.cntr
           st == "FOUND"
           id == "AVAL"
           ids == {"STAT", "AVAL"}
           report == Report(packet, st)
           p == AppendChunk(report, id, v)
           q == AppendEndmark(p)
<1>1. pc = "operate" /\ token \in {"get"} /\ UNCHANGED <<token, arg, request, piece, rest>>
      /\ DataOf("QKEY") \in DOMAIN items /\ UNCHANGED <<items, lost, strayed, results, method>>
      /\ ~Broken(items[DataOf("QKEY")]) /\ Respond(Found(DataOf("QKEY")))
  BY DEF GetFound, Handle
<1>2. DataOf("QKEY") = k /\ k \in Key
  BY <1>1, KeyAndValue DEF Keyed
<1>3. packet \in Packet /\ ItemsFit /\ results = {} /\ method \in Method /\ strayed \in BOOLEAN
      /\ st \in CommandStatus /\ ReplyBegun /\ c \in Ints(Counter)
  BY <1>1, OperateFacts DEF CommandStatus
<1>4. Respond(p) /\ k \in DOMAIN items /\ ~Broken(items[k])
  BY <1>1, <1>2 DEF Found
<1>5. ids \in SUBSET AnswerId /\ "STAT" \in ids /\ id \in ids
  BY DEF AnswerId, ReplyId
<1> HIDE DEF st, id
<1>6. v \in Value /\ v \in Seq(Word) /\ Len(v) \in Nat /\ Len(v) <= BUFLEN - 9
  <2>1. Shown(items[k]) \in Value /\ Len(Shown(items[k])) <= BUFLEN - 9
    BY <1>3, <1>4, ItemIsFit DEF ItemsFit
  <2>2. Shown(items[k]) = v
    BY <1>4 DEF Shown
  <2> QED BY <2>1, <2>2, DataAreWords
<1> HIDE DEF k, v, c, ids
<1>7. Counted(report, c, ids) /\ Reported(report, c, st) /\ report.length = AfterCounter(c) + 6
  <2>1. Counted(packet, c, {}) /\ packet.length = AfterCounter(c)
    BY <1>3 DEF ReplyBegun, c
  <2> QED BY <1>3, <1>5, <2>1, ReportReports
<1> HIDE DEF report
<1>8. Counted(p, c, ids) /\ p.length = report.length + 2 + Len(v)
  BY <1>3, <1>5, <1>6, <1>7, CountedAppend
<1>9. p.length \in Nat /\ p \in Packet /\ p.length <= BUFLEN + 3
  <2>1. p \in Packet
    BY <1>8, CountedIsPacket
  <2> HIDE DEF p
  <2> QED BY <1>6, <1>7, <1>8, <2>1, AfterCounterIsNumber, BufferAssumption
<1>10. IInv'
  <2>1. ItemsFit' /\ method' \in Method /\ strayed' \in BOOLEAN /\ results' = {}
    BY <1>1, <1>3, ItemsStay
  <2>2. pc \in {"load", "operate", "results"} /\ token = "get"
        /\ UNCHANGED <<token, arg, request, piece, rest>>
    BY <1>1
  <2>3. Counted(p, request.cntr, ids)
    BY <1>8 DEF c
  <2> HIDE DEF p
  <2> QED BY <1>4, <1>5, <1>9, <2>1, <2>2, <2>3, ReplyStep
<1>11. packet' = q /\ pc' = IF q.length > BUFLEN THEN "overrun" ELSE "reply"
  BY <1>4 DEF Respond
<1>12. q.length \in Nat
  <2> HIDE DEF p
  <2>1. q.length = p.length + 1
    BY <1>9, EndmarkLength
  <2> HIDE DEF q
  <2> QED BY <1>9, <2>1
<1>13. ASSUME pc' = "reply" PROVE StatusOf(packet') = st /\ Received(packet', id) = v
  <2>1. q.length <= BUFLEN
    BY <1>11, <1>12, <1>13, BufferAssumption
  <2>2. StatusOf(q) = st
    <3>1. Reported(p, c, st)
      BY <1>3, <1>5, <1>6, <1>7, ReportedAppend
    <3> HIDE DEF p
    <3> QED BY <1>3, <1>5, <1>8, <2>1, <3>1, ReportedReply
  <2>3. Received(q, id) = v
    BY <1>3, <1>6, <1>7, <2>1, FoundReply DEF ids, id
  <2> QED BY <1>11, <2>2, <2>3
<1>14. pc' \in {"reply", "overrun"}
  BY <1>11
<1>15. UNCHANGED <<items, lost, strayed>>
  BY <1>1
<1> QED BY <1>4, <1>10, <1>13, <1>14, <1>15 DEF k, v, st, id

\* A reply with nothing but a status.
LEMMA ReportStep ==
    ASSUME IInv, pc = "operate", UNCHANGED <<token, arg, request, piece, rest>>,
           UNCHANGED <<items, lost, strayed, results, method>>, NEW st \in CommandStatus,
           Respond(Report(packet, st))
    PROVE  IInv' /\ Replied(st)
<1> DEFINE n == 6
           p == Report(packet, st)
<1>1. Plain(p, request.cntr, st, n) /\ ItemsFit /\ method \in Method /\ results = {}
      /\ strayed \in BOOLEAN
  BY OperateFacts
<1>2. ItemsFit' /\ method' \in Method /\ strayed' \in BOOLEAN /\ results' = {} /\ n \in 0 .. 24
      /\ pc \in {"load", "operate", "results"}
  BY <1>1, ItemsStay
<1> HIDE DEF n, p
<1>3. Respond(p)
  BY DEF p
<1> QED BY <1>1, <1>2, <1>3, PlainStep

LEMMA GetNotFoundIInv ==
    ASSUME IInv, GetNotFound
    PROVE  /\ IInv' /\ Replied("NOT_FOUND") /\ UNCHANGED <<items, lost, strayed>>
           /\ request.QKEY \in Key /\ request.QKEY \notin DOMAIN items
<1>1. pc = "operate" /\ token \in {"get"} /\ UNCHANGED <<token, arg, request, piece, rest>>
      /\ DataOf("QKEY") \notin DOMAIN items /\ UNCHANGED <<items, lost, strayed, results, method>>
      /\ Respond(Report(packet, "NOT_FOUND")) /\ "NOT_FOUND" \in CommandStatus
  BY DEF GetNotFound, Handle, CommandStatus
<1>2. DataOf("QKEY") = request.QKEY /\ request.QKEY \in Key
  BY <1>1, KeyAndValue DEF Keyed
<1>3. IInv' /\ Replied("NOT_FOUND")
  BY <1>1, ReportStep
<1> QED BY <1>1, <1>2, <1>3

LEMMA DelNotExistsIInv ==
    ASSUME IInv, DelNotExists
    PROVE  /\ IInv' /\ Replied("NOT_EXISTS") /\ UNCHANGED <<items, lost, strayed>>
           /\ request.QKEY \in Key /\ request.QKEY \notin DOMAIN items
<1>1. pc = "operate" /\ token \in {"del"} /\ UNCHANGED <<token, arg, request, piece, rest>>
      /\ DataOf("QKEY") \notin DOMAIN items /\ UNCHANGED <<items, lost, strayed, results, method>>
      /\ Respond(Report(packet, "NOT_EXISTS")) /\ "NOT_EXISTS" \in CommandStatus
  BY DEF DelNotExists, Handle, CommandStatus
<1>2. DataOf("QKEY") = request.QKEY /\ request.QKEY \in Key
  BY <1>1, KeyAndValue DEF Keyed
<1>3. IInv' /\ Replied("NOT_EXISTS")
  BY <1>1, ReportStep
<1> QED BY <1>1, <1>2, <1>3

LEMMA UnknownIInv == ASSUME IInv, Unknown PROVE IInv' /\ Replied("INVALID_COMMAND")
<1>1. pc = "operate" /\ UNCHANGED <<token, arg, request, piece, rest>>
      /\ UNCHANGED <<items, lost, strayed, results, method>>
      /\ Respond(Report(packet, "INVALID_COMMAND")) /\ "INVALID_COMMAND" \in CommandStatus
  BY DEF Unknown, Handle, CommandStatus
<1> QED BY <1>1, ReportStep

\* What is found without the item of a key, and what is found instead.
LEMMA RemovedIsFit ==
    ASSUME ItemsFit, NEW k
    PROVE  LET t == [x \in DOMAIN items \ {k} |-> items[x]]
           IN  /\ Fit(t, lost) /\ DOMAIN t = DOMAIN items \ {k}
               /\ \A x \in DOMAIN t : t[x] = items[x]
               /\ Removed(k) => ItemsFit'
<1> DEFINE t == [x \in DOMAIN items \ {k} |-> items[x]]
<1>1. DOMAIN t = DOMAIN items \ {k} /\ \A x \in DOMAIN t : t[x] = items[x]
  OBVIOUS
<1>2. Fit(items, lost) /\ items \in [DOMAIN items -> Item]
  BY DEF ItemsFit, Fit
<1>3. t \in [DOMAIN t -> Item]
  BY <1>2
<1>4. Removed(k) => \/ items' = t /\ UNCHANGED lost
                    \/ \E e \in lost : /\ e[1] = k
                                     /\ items' = Stored(k, e[2]) /\ lost' \in {lost, lost \ {e}}
  BY DEF Removed
<1> HIDE DEF t
<1>5. Fit(t, lost)
  <2>1. Entries(t) \cup lost \subseteq Entries(items) \cup lost
    BY <1>1 DEF Entries
  <2> QED BY <1>2, <1>3, <2>1, FitIsDealt
<1>6. CASE items' = t /\ UNCHANGED lost
  BY <1>1, <1>4, <1>5, <1>6 DEF t, ItemsFit
<1>7. ASSUME NEW e \in lost, e[1] = k, items' = Stored(k, e[2]), lost' \in {lost, lost \ {e}}
      PROVE  ItemsFit'
  <2>1. e \in FitEntry
    BY <1>2 DEF Fit
  <2>2. <<k, e[2]>> \in FitEntry
    BY <1>7, <2>1 DEF FitEntry
  <2>3. Fit(items', lost)
    BY <1>7, <2>2, StoredIsFit
  <2>4. Entries(items') \cup lost' \subseteq Entries(items') \cup lost
    BY <1>7
  <2>5. Fit(items', lost')
    BY <2>3, <2>4, FitIsDealt DEF Fit
  <2> QED BY <2>5 DEF ItemsFit
<1> QED BY <1>1, <1>4, <1>5, <1>6, <1>7 DEF t

LEMMA DelDeletedIInv ==
    ASSUME IInv, DelDeleted
    PROVE  /\ IInv' /\ Replied("DELETED")
           /\ request.QKEY \in DOMAIN items
           /\ \/ Removed(request.QKEY)
              \/ Rearranged([x \in DOMAIN items \ {request.QKEY} |-> items[x]])
<1> DEFINE k == request.QKEY
           st == "DELETED"
           report == Report(packet, st)
           t == [x \in DOMAIN items \ {k} |-> items[x]]
           n == 6
<1>1. pc = "operate" /\ token \in {"del"} /\ UNCHANGED <<token, arg, request, piece, rest>>
      /\ DataOf("QKEY") \in DOMAIN items /\ UNCHANGED <<method, results>>
  BY DEF DelDeleted, Handle
<1>2. DataOf("QKEY") = k
  BY <1>1, KeyAndValue DEF Keyed
<1>3. \/ Respond(report) /\ Removed(k)
      \/ Respond(WithCapacity(report)) /\ Rearranged(t)
  BY <1>2 DEF DelDeleted
<1>4. ItemsFit /\ results = {} /\ method \in Method /\ strayed \in BOOLEAN /\ n \in 0 .. 21
      /\ st \in CommandStatus /\ Plain(report, request.cntr, st, n)
      /\ request.cntr \in Ints(Counter)
  BY <1>1, OperateFacts DEF CommandStatus
<1> HIDE DEF k, report, st, n
<1>5. Fit(t, lost) /\ (Removed(k) => ItemsFit')
  BY <1>4, RemovedIsFit
<1> HIDE DEF t
<1>6. ItemsFit' /\ strayed' \in BOOLEAN
  BY <1>3, <1>4, <1>5, RearrangedIsFit DEF Removed
<1>7. IInv' /\ Replied(st)
  BY <1>1, <1>3, <1>4, <1>6, CapacityStep
<1> QED BY <1>1, <1>2, <1>3, <1>7 DEF k, st, t

LEMMA ZapIInv ==
    ASSUME IInv, Zap
    PROVE  /\ IInv' /\ token = "zap" /\ items' = <<>> /\ lost' = {} /\ UNCHANGED strayed
           /\ \/ items = <<>> /\ lost = {} /\ Replied("EMPTY")
              \/ (items # <<>> \/ lost # {} \/ strayed) /\ Replied("ZAPPED")
<1> DEFINE v == 0
           id == "ZAPD"
           zapped(st) == AppendChunk(Report(packet, st), id, <<Integer(v)>>)
           n == 6
           m == 9
<1>1. pc = "operate" /\ token \in {"zap"} /\ UNCHANGED <<token, arg, request, piece, rest>>
      /\ UNCHANGED <<strayed, method, results>> /\ items' = <<>> /\ lost' = {}
  BY DEF Zap, Handle
<1>2. PICK st \in {"EMPTY", "ZAPPED"} :
         /\ IF st = "EMPTY" THEN items = <<>> /\ lost = {}
            ELSE items # <<>> \/ lost # {} \/ strayed
         /\ Respond(zapped(st)) \/ Respond(WithCapacity(zapped(st)))
  BY DEF Zap
<1>3. ItemsFit /\ results = {} /\ method \in Method /\ strayed \in BOOLEAN /\ n \in Nat /\ m \in 0 .. 21 /\ n + 3 = m
      /\ st \in CommandStatus /\ Plain(Report(packet, st), request.cntr, st, n)
      /\ id \in PlainId /\ request.cntr \in Ints(Counter) /\ v \in Int
  BY <1>1, OperateFacts DEF CommandStatus, PlainId, AnswerId, ReplyId
<1> HIDE DEF v, id, n, m
<1>4. Plain(zapped(st), request.cntr, st, n + 3)
  BY <1>3, PlainFigure
<1>5. Plain(zapped(st), request.cntr, st, m)
  BY <1>3, <1>4
<1>6. ItemsFit'
  <2>1. Entries(items') \cup lost' = {} /\ items' \in [DOMAIN items' -> Item]
    BY <1>1 DEF Entries
  <2> QED BY <2>1, FS_EmptySet DEF ItemsFit, Fit
<1> DEFINE report == zapped(st)
<1>7. Respond(report) \/ Respond(WithCapacity(report))
  BY <1>2
<1>8. Plain(report, request.cntr, st, m)
  BY <1>5
<1> HIDE DEF report
<1>9. IInv' /\ Replied(st)
  BY <1>1, <1>3, <1>6, <1>7, <1>8, CapacityStep
<1> QED BY <1>1, <1>2, <1>9

LEMMA ReorgIInv ==
    ASSUME IInv, Reorg
    PROVE  /\ IInv' /\ token = "reorg"
           /\ \/ Replied("UNCHANGED") /\ UNCHANGED <<items, lost, strayed>>
              \/ Replied("REORGANIZED") /\ Rearranged(items)
<1> DEFINE id == "METD"
           v == method'
           figure(st) == AppendChunk(Report(packet, st), id, <<Integer(v)>>)
           n == 6
           m == 9
<1>1. pc = "operate" /\ token = "reorg" /\ UNCHANGED <<token, arg, request, piece, rest>>
      /\ UNCHANGED results
  BY DEF Reorg, Handle
<1>2. PICK st \in {"REORGANIZED", "UNCHANGED"} :
         /\ IF st = "UNCHANGED" THEN method' = method /\ UNCHANGED <<items, lost, strayed>>
            ELSE method' = arg["RMET"] /\ Rearranged(items)
         /\ Respond(WithCapacity(figure(st)))
  BY DEF Reorg
<1>3. ItemsFit /\ results = {} /\ method \in Method /\ strayed \in BOOLEAN /\ n \in Nat /\ m \in 0 .. 21 /\ n + 3 = m
      /\ st \in CommandStatus /\ Plain(Report(packet, st), request.cntr, st, n)
      /\ id \in PlainId /\ request.cntr \in Ints(Counter) /\ Loaded /\ Shape(request)
  BY <1>1, OperateFacts DEF CommandStatus, PlainId, AnswerId, ReplyId
<1>4. arg["RMET"] \in Method
  <2>1. "RMET" \in IntParams /\ request.RMET # NULL
    BY <1>1, <1>3 DEF IntParams, Searches, Loaded
  <2>2. arg["RMET"] = Number(request["RMET"][1])
    BY <1>3, <2>1 DEF Loaded
  <2>3. PICK w \in Method : request["RMET"] = <<Integer(w)>>
    BY <1>3, <2>1 DEF Shape, Ints
  <2> QED BY <2>2, <2>3, NumberOfInteger
<1>5. method' \in Method /\ v \in Int
  BY <1>2, <1>3, <1>4, RequestAssumption
<1>6. ItemsFit' /\ strayed' \in BOOLEAN
  BY <1>2, <1>3, ItemsStay, RearrangedIsFit DEF ItemsFit
<1> HIDE DEF id, v, n, m
<1>7. Plain(figure(st), request.cntr, st, n + 3)
  BY <1>3, <1>5, PlainFigure
<1> DEFINE report == figure(st)
<1>8. Plain(report, request.cntr, st, m) /\ Respond(WithCapacity(report))
  BY <1>2, <1>3, <1>7
<1>9. results' = {} /\ pc \in {"load", "operate", "results"}
  BY <1>1, <1>3
<1> HIDE DEF report
<1>10. IInv' /\ Replied(st)
  BY <1>1, <1>3, <1>5, <1>6, <1>8, <1>9, CapacityStep
<1> QED BY <1>1, <1>2, <1>10

LEMMA CounterIsKept ==
    ASSUME NEW p, NEW c, NEW ids \in SUBSET AnswerId, Counted(p, c, ids),
           NEW id \in ids, NEW payload \in Seq(Word)
    PROVE  AppendChunk(p, id, payload).counter = p.counter
<1>1. p \in Packet /\ p.length \in Nat
  BY CountedIsPacket
<1>2. id \in ChunkId
  BY DEF AnswerId, ChunkId
<1>3. Extends(AppendChunk(p, id, payload), p, Chunk(id, payload))
  BY <1>1, <1>2, AppendedChunk
<1> QED BY <1>3 DEF Extends

\* A search; nothing of its reply concerns the map.
LEMMA SearchOrCountIInv ==
    ASSUME IInv, SearchOrCount
    PROVE  /\ IInv' /\ UNCHANGED <<items, lost, strayed>>
           /\ pc' = "reply" => StatusOf(packet') \in {"NO_MATCH", "MATCH_FOUND"}
<1>1. pc = "operate" /\ token \in Searches \cup Counts
      /\ UNCHANGED <<token, arg, request, piece, rest>> /\ UNCHANGED <<items, lost, strayed, method>>
  BY DEF SearchOrCount, Handle
<1>2. PICK S \in SUBSET {e \in Entries(items) \cup lost : ~Broken(e[2])} :
         LET hits == AppendChunk(Report(packet, IF S = {} THEN "NO_MATCH" ELSE "MATCH_FOUND"),
                                 "SRES", <<Integer(Cardinality(S))>>)
         IN  IF token \in Counts \/ S = {}
             THEN Respond(hits) /\ UNCHANGED results
             ELSE packet' = hits /\ pc' = "results" /\ results' = S
  BY DEF SearchOrCount
<1> DEFINE st == IF S = {} THEN "NO_MATCH" ELSE "MATCH_FOUND"
           report == Report(packet, st)
           id == "SRES"
           v == Cardinality(S)
           hits == AppendChunk(report, id, <<Integer(v)>>)
           n == 6
           m == 9
<1>3. ItemsFit /\ results = {} /\ method \in Method /\ strayed \in BOOLEAN /\ n \in Nat /\ m \in 0 .. 24 /\ n + 3 = m
      /\ st \in CommandStatus /\ Plain(report, request.cntr, st, n) /\ id \in PlainId
      /\ request.cntr \in Ints(Counter) /\ packet \in Packet /\ Asked
  BY <1>1, OperateFacts DEF CommandStatus, PlainId, AnswerId, ReplyId
<1>4. v \in Int
  <2>1. IsFiniteSet(Entries(items) \cup lost) /\ S \subseteq Entries(items) \cup lost
    BY <1>3 DEF ItemsFit, Fit
  <2>2. IsFiniteSet(S)
    BY <2>1, FS_Subset
  <2> QED BY <2>2, FS_CardinalityType
<1>5. IF token \in Counts \/ S = {} THEN Respond(hits) /\ UNCHANGED results
      ELSE packet' = hits /\ pc' = "results" /\ results' = S /\ st = "MATCH_FOUND"
  BY <1>2
<1>6. st \in {"NO_MATCH", "MATCH_FOUND"}
  OBVIOUS
<1> HIDE DEF st, report, id, v, n, m
<1>7. Plain(hits, request.cntr, st, m)
  <2>1. Plain(hits, request.cntr, st, n + 3)
    BY <1>3, <1>4, PlainFigure
  <2> QED BY <1>3, <2>1
<1> HIDE DEF hits
<1>8. ItemsFit' /\ method' \in Method /\ strayed' \in BOOLEAN
  BY <1>1, <1>3, ItemsStay
<1>9. CASE token \in Counts \/ S = {}
  <2>1. Respond(hits) /\ results' = {} /\ pc \in {"load", "operate", "results"}
        /\ UNCHANGED <<token, arg, request, piece, rest>>
    BY <1>1, <1>3, <1>5, <1>9
  <2>2. IInv' /\ Replied(st)
    BY <1>3, <1>7, <1>8, <2>1, PlainStep
  <2> QED BY <1>1, <1>6, <2>2 DEF Replied
<1>10. CASE ~(token \in Counts \/ S = {})
  <2>1. packet' = hits /\ pc' = "results" /\ results' = S /\ st = "MATCH_FOUND"
    BY <1>5, <1>10
  <2>2. token \in Searches
    BY <1>1, <1>10
  <2>3. packet' \in Packet /\ packet'.counter = packet.counter
    <3>1. packet' \in Packet
      BY <1>7, <2>1, CountedIsPacket DEF Plain
    <3>2. Counted(report, request.cntr, PlainId) /\ PlainId \in SUBSET AnswerId
          /\ report.counter = packet.counter
      <4>1. Counted(packet, request.cntr, {}) /\ packet.length = AfterCounter(request.cntr)
        BY <1>1, OperateFacts DEF ReplyBegun
      <4>2. "STAT" \in PlainId /\ PlainId \in SUBSET AnswerId
        BY DEF PlainId, AnswerId, ReplyId
      <4> QED BY <1>3, <4>1, <4>2, ReportReports DEF report
    <3> DEFINE w == <<Integer(v)>>
    <3>3. w \in Seq(Word)
      BY <1>4, IntegerIsWord
    <3> HIDE DEF w
    <3>4. AppendChunk(report, id, w).counter = report.counter
      BY <1>3, <3>2, <3>3, CounterIsKept
    <3> QED BY <2>1, <3>1, <3>2, <3>4 DEF hits, w
  <2>4. HitsReported'
    <3>1. Counted(packet', request.cntr, AnswerId)
      BY <1>7, <2>1, CountedMore DEF Plain, PlainId
    <3>2. Reported(packet', request.cntr, "MATCH_FOUND")
      BY <1>7, <2>1 DEF Plain
    <3>3. \A e \in results' : ~Broken(e[2])
      BY <2>1
    <3> QED BY <1>1, <2>2, <3>1, <3>2, <3>3 DEF HitsReported
  <2>5. Types'
    BY <1>1, <1>8, <2>1, <2>3 DEF IInv, Types
  <2>6. RestHeadless' /\ Unloaded' /\ NoResults'
    BY <1>1, <2>1 DEF IInv, RestHeadless, Unloaded, NoResults
  <2>7. InProcess' /\ InLoad' /\ InBegin' /\ InOperate' /\ InReply' /\ OnlyWholeRequests' /\ OverrunByAnswersOnly'
    BY <2>1 DEF InProcess, InLoad, InBegin, InOperate, InReply, OnlyWholeRequests, OverrunByAnswersOnly
  <2>8. InCommand'
    BY <1>1, <1>3, <2>3 DEF InCommand, Asked
  <2>9. InResults'
    BY <2>4 DEF InResults
  <2> QED BY <1>1, <1>8, <2>1, <2>5, <2>6, <2>7, <2>8, <2>9 DEF IInv
<1> QED BY <1>9, <1>10

LEMMA ProvideResultIInv ==
    ASSUME IInv, ProvideResult
    PROVE  /\ IInv' /\ UNCHANGED <<items, lost, strayed>>
           /\ pc' = "reply" => StatusOf(packet') = "MATCH_FOUND"
<1>1. pc = "results" /\ UNCHANGED <<token, arg, items, lost, strayed, method, request, piece, rest>>
  BY DEF ProvideResult
<1>2. PICK e \in results :
         LET pair == AppendChunk(AppendChunk(packet, "AKEY", e[1]), "AVAL", e[2].data)
         IN  /\ results' = results \ {e}
             /\ IF results' = {} THEN Respond(pair) ELSE packet' = pair /\ pc' = pc
  BY DEF ProvideResult
<1> DEFINE c == request.cntr
           st == "MATCH_FOUND"
           ids == AnswerId
           key == "AKEY"
           val == "AVAL"
           k == e[1]
           d == e[2].data
           one == AppendChunk(packet, key, k)
           pair == AppendChunk(one, val, d)
<1>3. results' = results \ {e} /\ IF results' = {} THEN Respond(pair) ELSE packet' = pair /\ pc' = pc
  BY <1>2
<1>4. /\ c \in Ints(Counter) /\ Asked /\ ItemsFit /\ method \in Method /\ strayed \in BOOLEAN
      /\ results \subseteq Entries(items) \cup lost /\ HitsReported
  <2>1. Shape(request)
    BY RequestShape DEF IInv, Types
  <2> QED BY <1>1, <2>1 DEF IInv, Types, InCommand, InResults, Shape
<1>5. token \in Searches /\ Counted(packet, c, ids) /\ Reported(packet, c, st)
      /\ \A x \in results : ~Broken(x[2])
  BY <1>4 DEF HitsReported
<1>6. k \in Seq(Word) /\ d \in Seq(Word)
  <2>1. k \in Key /\ Shown(e[2]) \in Value
    BY <1>4 DEF ItemsFit, Fit, FitEntry
  <2>2. Shown(e[2]) = d
    BY <1>5 DEF Shown
  <2> QED BY <2>1, <2>2, DataAreWords
<1>7. ids \in SUBSET AnswerId /\ key \in ids /\ val \in ids /\ st \in CommandStatus
  BY DEF AnswerId, ReplyId, CommandStatus
<1> HIDE DEF c, st, ids, key, val, k, d
<1>8. Counted(one, c, ids) /\ one.counter = packet.counter
  BY <1>4, <1>5, <1>6, <1>7, CountedAppend, CounterIsKept
<1>9. Reported(one, c, st)
  BY <1>4, <1>5, <1>6, <1>7, ReportedAppend
<1> HIDE DEF one
<1>10. Counted(pair, c, ids) /\ pair.counter = one.counter
  BY <1>4, <1>6, <1>7, <1>8, CountedAppend, CounterIsKept
<1>11. Reported(pair, c, st)
  BY <1>4, <1>6, <1>7, <1>8, <1>9, ReportedAppend
<1> HIDE DEF pair
<1>12. ItemsFit' /\ method' \in Method /\ strayed' \in BOOLEAN
  BY <1>1, <1>4, ItemsStay
<1>13. CASE results' = {}
  <2>1. Respond(pair) /\ pc \in {"load", "operate", "results"}
        /\ UNCHANGED <<token, arg, request, piece, rest>>
    BY <1>1, <1>3, <1>13
  <2>2. IInv'
    BY <1>5, <1>7, <1>10, <1>12, <1>13, <2>1, ReplyStep DEF c
  <2>3. ASSUME pc' = "reply" PROVE StatusOf(packet') = st
    <3> DEFINE q == AppendEndmark(pair)
    <3>1. packet' = q /\ pc' = IF q.length > BUFLEN THEN "overrun" ELSE "reply"
      BY <2>1 DEF Respond
    <3>2. q.length \in Int
      BY <2>2, <3>1 DEF IInv, Types, Packet
    <3>3. q.length <= BUFLEN
      BY <2>3, <3>1, <3>2, BufferAssumption
    <3>4. StatusOf(q) = st
      BY <1>4, <1>7, <1>10, <1>11, <3>3, ReportedReply
    <3> QED BY <3>1, <3>4
  <2> QED BY <1>1, <2>2, <2>3 DEF st
<1>14. CASE results' # {}
  <2>1. packet' = pair /\ pc' = "results" /\ packet'.counter = packet.counter
    BY <1>1, <1>3, <1>8, <1>10, <1>14
  <2>2. packet' \in Packet
    BY <1>10, <2>1, CountedIsPacket
  <2>3. HitsReported'
    BY <1>1, <1>3, <1>5, <1>10, <1>11, <2>1 DEF HitsReported, c, st, ids
  <2>4. Types'
    BY <1>1, <1>3, <1>4, <1>12, <2>1, <2>2 DEF IInv, Types
  <2>5. RestHeadless' /\ Unloaded' /\ NoResults'
    BY <1>1, <2>1 DEF IInv, RestHeadless, Unloaded, NoResults
  <2>6. InProcess' /\ InLoad' /\ InBegin' /\ InOperate' /\ InReply' /\ OnlyWholeRequests' /\ OverrunByAnswersOnly'
    BY <2>1 DEF InProcess, InLoad, InBegin, InOperate, InReply, OnlyWholeRequests, OverrunByAnswersOnly
  <2>7. InCommand'
    BY <1>1, <1>4, <2>1 DEF InCommand, Asked
  <2>8. InResults'
    BY <2>3 DEF InResults
  <2> QED BY <1>1, <1>12, <2>1, <2>4, <2>5, <2>6, <2>7, <2>8 DEF IInv
<1> QED BY <1>13, <1>14

LEMMA InfoIInv == ASSUME IInv, Info PROVE IInv' /\ Replied("INFO_PROVIDED")
<1> DEFINE st == "INFO_PROVIDED"
           c == request.cntr
           v == 0
           Figure(p, id) == AppendChunk(p, id, <<Integer(v)>>)
           p0 == Report(packet, st)
           p1 == Figure(p0, "NCON")
           p2 == Figure(p1, "METD")
           p3 == Figure(p2, "MCAP")
           p4 == Figure(p3, "CPTY")
           p5 == Figure(p4, "NELM")
           p6 == Figure(p5, "COLP")
<1>1. pc = "operate" /\ UNCHANGED <<token, arg, request, piece, rest>>
      /\ UNCHANGED <<items, lost, strayed, results, method>> /\ Respond(p6)
  BY DEF Info, Handle
<1>2. ItemsFit /\ results = {} /\ method \in Method /\ strayed \in BOOLEAN /\ st \in CommandStatus
      /\ Plain(p0, c, st, 6) /\ c \in Ints(Counter)
  BY <1>1, OperateFacts DEF CommandStatus
<1>3. {"NCON", "METD", "MCAP", "CPTY", "NELM", "COLP"} \subseteq PlainId
  BY DEF PlainId, AnswerId, ReplyId
<1>4. v \in Int
  OBVIOUS
<1> HIDE DEF st, c, v, p0
<1>5. ASSUME NEW p, NEW n \in Nat, NEW id \in {"NCON", "METD", "MCAP", "CPTY", "NELM", "COLP"},
             Plain(p, c, st, n)
      PROVE  Plain(Figure(p, id), c, st, n + 3)
  BY <1>2, <1>3, <1>4, <1>5, PlainFigure
<1> HIDE DEF Figure
<1>6. Plain(p1, c, st, 9)
  BY <1>2, <1>5
<1> HIDE DEF p1
<1>7. Plain(p2, c, st, 12)
  BY <1>5, <1>6
<1> HIDE DEF p2
<1>8. Plain(p3, c, st, 15)
  BY <1>5, <1>7
<1> HIDE DEF p3
<1>9. Plain(p4, c, st, 18)
  BY <1>5, <1>8
<1> HIDE DEF p4
<1>10. Plain(p5, c, st, 21)
  BY <1>5, <1>9
<1> HIDE DEF p5
<1>11. Plain(p6, c, st, 24)
  BY <1>5, <1>10
<1> DEFINE n == 24
<1>12. n \in 0 .. 24 /\ Plain(p6, request.cntr, st, n) /\ ItemsFit' /\ method' \in Method /\ strayed' \in BOOLEAN
       /\ results' = {} /\ pc \in {"load", "operate", "results"}
  BY <1>1, <1>2, <1>11, ItemsStay DEF c
<1> HIDE DEF p6, n
<1>13. IInv' /\ Replied(st)
  BY <1>1, <1>2, <1>12, PlainStep
<1> QED BY <1>13 DEF st

\* A reply without a status.
LEMMA SilentStep ==
    ASSUME IInv, pc = "operate", UNCHANGED <<token, arg, request, piece, rest>>,
           UNCHANGED <<items, lost, strayed, results, method>>,
           NEW p, Counted(p, request.cntr, {"beat"}), p.length <= BUFLEN - 1, Respond(p)
    PROVE  IInv' /\ pc' = "reply" /\ StatusOf(packet') = "none"
<1> DEFINE c == request.cntr
           ids == {"beat"}
           q == AppendEndmark(p)
<1>1. ids \in SUBSET AnswerId /\ "STAT" \notin ids
  BY DEF AnswerId, ReplyId
<1>2. c \in Ints(Counter) /\ ItemsFit' /\ method' \in Method /\ strayed' \in BOOLEAN /\ results' = {}
      /\ pc \in {"load", "operate", "results"}
  BY OperateFacts, ItemsStay
<1>3. p \in Packet /\ p.length \in Nat /\ ~(p.length > BUFLEN - 1)
  <2>1. p \in Packet /\ p.length \in Nat
    BY CountedIsPacket
  <2> QED BY <2>1, BufferAssumption
<1>4. Counted(p, c, ids)
  OBVIOUS
<1> HIDE DEF c, ids
<1>5. IInv'
  BY <1>1, <1>2, <1>3, <1>4, ReplyStep DEF c
<1>6. packet' = q /\ pc' = IF q.length > BUFLEN THEN "overrun" ELSE "reply"
  BY DEF Respond
<1>7. q.length = p.length + 1
  BY <1>3, EndmarkLength
<1>8. q.length <= BUFLEN /\ ~(q.length > BUFLEN)
  BY <1>3, <1>7, BufferAssumption
<1>9. FindChunk(q, "STAT") = -1
  BY <1>1, <1>2, <1>4, <1>8, CountedReply
<1> HIDE DEF q
<1> QED BY <1>5, <1>6, <1>8, <1>9 DEF StatusOf

LEMMA HeartbeatIInv ==
    ASSUME IInv, Heartbeat
    PROVE  IInv' /\ pc' = "reply" /\ StatusOf(packet') = "none" /\ UNCHANGED <<items, lost, strayed>>
<1> DEFINE id == "beat"
           ids == {"beat"}
           w == <<Text, Text, Text>>
           p == AppendChunk(packet, id, w)
           c == request.cntr
<1>1. pc = "operate" /\ UNCHANGED <<token, arg, request, piece, rest>>
      /\ UNCHANGED <<items, lost, strayed, results, method>> /\ Respond(p)
  BY DEF Heartbeat, Handle
<1>2. c \in Ints(Counter) /\ Counted(packet, c, {}) /\ packet.length = AfterCounter(c)
      /\ packet \in Packet
  BY <1>1, OperateFacts DEF ReplyBegun
<1>3. ids \in SUBSET AnswerId /\ id \in ids /\ w \in Seq(Word) /\ Len(w) = 3 /\ {} \subseteq ids
  BY TextIsWord DEF AnswerId, ReplyId
<1> HIDE DEF id, w, c
<1>4. Counted(packet, c, ids)
  BY <1>2, CountedMore
<1> HIDE DEF ids
<1>5. Counted(p, c, ids) /\ p.length = packet.length + 2 + Len(w)
  BY <1>2, <1>3, <1>4, CountedAppend
<1> HIDE DEF p
<1>6. p.length <= BUFLEN - 1
  BY <1>2, <1>3, <1>5, AfterCounterIsNumber, RoomAssumption, BufferAssumption
<1> QED BY <1>1, <1>5, <1>6, SilentStep DEF c, ids

LEMMA DumpIInv ==
    ASSUME IInv, Dump
    PROVE  IInv' /\ pc' = "reply" /\ StatusOf(packet') = "none" /\ UNCHANGED <<items, lost, strayed>>
<1>1. pc = "operate" /\ UNCHANGED <<token, arg, request, piece, rest>>
      /\ UNCHANGED <<items, lost, strayed, results, method>> /\ Respond(packet)
  BY DEF Dump, Handle
<1>2. Counted(packet, request.cntr, {}) /\ packet.length = AfterCounter(request.cntr)
  BY <1>1, OperateFacts DEF ReplyBegun
<1>3. Counted(packet, request.cntr, {"beat"})
  BY <1>2, CountedMore
<1>4. packet.length <= BUFLEN - 1
  BY <1>2, AfterCounterIsNumber, RoomAssumption, BufferAssumption
<1> QED BY <1>1, <1>3, <1>4, SilentStep

LEMMA KilledIInv ==
    ASSUME IInv, Killed
    PROVE  IInv' /\ pc' = "killed" /\ UNCHANGED <<items, lost, strayed>>
<1>1. pc = "operate" /\ pc' = "killed"
      /\ UNCHANGED <<packet, token, arg, items, lost, strayed, results, method, request, piece, rest>>
  BY DEF Killed
<1>2. Types'
  BY <1>1 DEF IInv, Types
<1>3. ItemsFit'
  BY <1>1, ItemsStay DEF IInv
<1>4. RestHeadless' /\ Unloaded' /\ NoResults'
  BY <1>1 DEF IInv, RestHeadless, Unloaded, NoResults
<1>5. InProcess' /\ InCommand' /\ InLoad' /\ InBegin' /\ InOperate' /\ InResults' /\ InReply'
      /\ OnlyWholeRequests' /\ OverrunByAnswersOnly'
  BY <1>1 DEF InProcess, InCommand, InLoad, InBegin, InOperate, InResults, InReply,
              OnlyWholeRequests, OverrunByAnswersOnly
<1> QED BY <1>1, <1>2, <1>3, <1>4, <1>5 DEF IInv

LEMMA SendIInv == ASSUME IInv, Send PROVE IInv'
<1>1. pc = "reply" /\ pc' = "idle" /\ Finish /\ packet' = packet
  BY DEF Send
<1>2. packet' \in Packet
  BY <1>1 DEF IInv, Types
<1> QED BY <1>1, <1>2, FinishIInv

-----------------------------------------------------------------------------
(* The invariants                                                          *)

LEMMA NextIInv ==
    ASSUME AnyOrder = FALSE, IInv, [Next]_vars
    PROVE  IInv'
<1>1. First = {"CMND"}
  BY DEF First
<1>2. ASSUME NEW r \in Requests, NEW first \in First, ReadPacket(r, first) PROVE IInv'
  BY <1>1, <1>2, ReadPacketIInv
<1>3. ASSUME NEW r \in Requests, NEW n \in Cut, ReadPart(r, n) PROVE IInv'
  BY <1>3, ReadPartIInv
<1>4. CASE ReadRest
  BY <1>4, ReadRestIInv
<1>5. CASE Reconnect
  BY <1>5, ReconnectIInv
<1>6. CASE ProcessBad
  BY <1>6, ProcessBadIInv
<1>7. CASE Process
  BY <1>7, ProcessIInv
<1>8. CASE Begin
  BY <1>8, BeginIInv
<1>9. CASE Load
  BY <1>9, LoadIInv
<1>10. CASE LoadMissing
  BY <1>10, LoadMissingIInv
<1>11. CASE LoadMinusOne
  BY <1>11, LoadMinusOneIInv
<1>12. CASE SetUpdated
  BY <1>12, SetUpdatedIInv
<1>13. CASE SetInserted
  BY <1>13, SetInsertedIInv
<1>14. CASE GetFound
  BY <1>14, GetFoundIInv
<1>15. CASE GetNotFound
  BY <1>15, GetNotFoundIInv
<1>16. CASE DelDeleted
  BY <1>16, DelDeletedIInv
<1>17. CASE DelNotExists
  BY <1>17, DelNotExistsIInv
<1>18. CASE Zap
  BY <1>18, ZapIInv
<1>19. CASE Reorg
  BY <1>19, ReorgIInv
<1>20. CASE SearchOrCount
  BY <1>20, SearchOrCountIInv
<1>21. CASE ProvideResult
  BY <1>21, ProvideResultIInv
<1>22. CASE Info
  BY <1>22, InfoIInv
<1>23. CASE Heartbeat
  BY <1>23, HeartbeatIInv
<1>24. CASE Dump
  BY <1>24, DumpIInv
<1>25. CASE Unknown
  BY <1>25, UnknownIInv
<1>26. CASE Killed
  BY <1>26, KilledIInv
<1>27. CASE Send
  BY <1>27, SendIInv
<1>28. CASE Ended
  BY <1>28, StutterIInv DEF Ended
<1>29. CASE UNCHANGED vars
  BY <1>29, StutterIInv
<1> QED BY <1>2, <1>3, <1>4, <1>5, <1>6, <1>7, <1>8, <1>9, <1>10, <1>11, <1>12, <1>13, <1>14,
           <1>15, <1>16, <1>17, <1>18, <1>19, <1>20, <1>21, <1>22, <1>23, <1>24, <1>25, <1>26,
           <1>27, <1>28, <1>29 DEF Next, Operate

\* In the order in which the client of the repository renders a request, the
\* inductive invariant holds.
THEOREM SpecIInv == ASSUME AnyOrder = FALSE PROVE Spec => []IInv
<1>1. Init => IInv
  BY InitIInv
<1>2. IInv /\ [Next]_vars => IInv'
  BY NextIInv
<1> QED BY <1>1, <1>2, PTL DEF Spec

LEMMA IInvTypeOK == IInv => TypeOK
<1> SUFFICES ASSUME IInv PROVE TypeOK
  OBVIOUS
<1>1. \A e \in Entries(items) \cup lost :
         e[1] \in Key /\ e[2].data \in Value \cup {NULL} /\ e[2].length \in Nat
  BY DEF IInv, ItemsFit, Fit, FitEntry, Item
<1>2. CommandToken \cup {"none"}
        \subseteq Keyed \cup {"set", "reorg", "none"} \cup Searches \cup Counts \cup Others
  BY DEF CommandToken, Keyed, Searches, Counts, Others
<1> QED BY <1>1, <1>2 DEF IInv, Types, TypeOK

LEMMA IInvParametersIntact == IInv => ParametersIntact
<1> SUFFICES ASSUME IInv, pc = "operate", NEW id \in DOMAIN arg
             PROVE  IF id \in StrParams THEN DataOf(id) = request[id]
                    ELSE arg[id] = IF request[id] = NULL THEN -1 ELSE Number(request[id][1])
  BY DEF ParametersIntact
<1>1. Loaded /\ \A x \in StrParams : DataOf(x) = request[x]
  BY OperateFacts
<1>2. id \in StrParams \cup IntParams
  BY <1>1 DEF Loaded
<1>3. CASE id \in StrParams
  BY <1>1, <1>3
<1>4. CASE id \notin StrParams
  <2>1. id \in IntParams
    BY <1>2, <1>4
  <2>2. arg[id] = IF request[id] = NULL THEN -1 ELSE Number(request[id][1])
    BY <1>1, <2>1 DEF Loaded
  <2> QED BY <1>4, <2>2
<1> QED BY <1>3, <1>4

LEMMA IInvRepliesWellFormed == IInv => RepliesWellFormed
BY DEF IInv, InReply, ReplyReadable, Readable, RepliesWellFormed

LEMMA IInvOnlyWholeRequests == IInv => OnlyWholeRequests
BY DEF IInv

\* The variables keep their types.
THEOREM SpecTypeOK == ASSUME AnyOrder = FALSE PROVE Spec => []TypeOK
<1>1. Spec => []IInv
  BY SpecIInv
<1> QED BY <1>1, IInvTypeOK, PTL

\* Whatever the handlers of Command.c hand to the table is what the client has
\* sent: beginReply, which writes the header and the counter over the request
\* that the parameters point into, never reaches them.
THEOREM SpecParametersIntact == ASSUME AnyOrder = FALSE PROVE Spec => []ParametersIntact
<1>1. Spec => []IInv
  BY SpecIInv
<1> QED BY <1>1, IInvParametersIntact, PTL

\* For any data, those that spell a request included: a part of a request is
\* carried out only if it is the rest and begins with a header that the data
\* have there.  The first part ends within a chunk or without an end mark.
THEOREM SpecOnlyWholeRequests == ASSUME AnyOrder = FALSE PROVE Spec => []OnlyWholeRequests
<1>1. Spec => []IInv
  BY SpecIInv
<1> QED BY <1>1, IInvOnlyWholeRequests, PTL

\* A reply that is sent, but for the one to a method of -1, can be scanned to
\* its end mark, and the counter found in it is that of the request.
THEOREM SpecRepliesWellFormed == ASSUME AnyOrder = FALSE PROVE Spec => []RepliesWellFormed
<1>1. Spec => []IInv
  BY SpecIInv
<1> QED BY <1>1, IInvRepliesWellFormed, PTL

\* No reply runs over the end of the buffer but those to a search, and those
\* to a get by at most four words.
THEOREM SpecOverrunByAnswersOnly == ASSUME AnyOrder = FALSE PROVE Spec => []OverrunByAnswersOnly
<1>1. Spec => []IInv
  BY SpecIInv
<1>2. IInv => OverrunByAnswersOnly
  BY DEF IInv
<1> QED BY <1>1, <1>2, PTL

-----------------------------------------------------------------------------
(* The store                                                               *)

ShownOf(l) == {<<e[1], Shown(e[2])>> : e \in l}

MapOf(t) == [k \in Key |-> IF k \in DOMAIN t THEN Shown(t[k]) ELSE NULL]

Lost == ShownOf(lost)

\* A reorganisation as LossyStore has it, about what is found, lost and gone
\* before (f, l, s) and afterwards (g, m, u).
Dealt(f, l, s, g, m, u) ==
    \/ g = f /\ m = l /\ u = s
    \/ LET all == Lossy!Pairs(f) \cup l
       IN  /\ g \in [Key -> Value \cup {NULL}] /\ Lossy!Pairs(g) \subseteq all
           /\ m \subseteq all
           /\ Lossy!Pairs(g) \cap m \subseteq l
           /\ u \in BOOLEAN /\ (s => u)
           /\ all \subseteq Lossy!Pairs(g) \cup m \/ u

Turned(f) == Dealt(f, Lost, strayed, Map', Lost', strayed')

LEMMA MapIsMapOf == Map = MapOf(items) /\ Map' = MapOf(items')
BY DEF Map, MapOf

LEMMA LostIsShown == Lost = ShownOf(lost) /\ Lost' = ShownOf(lost')
BY DEF Lost, ShownOf

LEMMA ShownEntries ==
    ASSUME NEW t
    PROVE  ShownOf(Entries(t)) = {<<k, Shown(t[k])>> : k \in DOMAIN t}
<1> DEFINE S == {<<k, Shown(t[k])>> : k \in DOMAIN t}
<1>1. ASSUME NEW x \in S PROVE x \in ShownOf(Entries(t))
  <2>1. PICK k \in DOMAIN t : x = <<k, Shown(t[k])>>
    OBVIOUS
  <2> DEFINE e == <<k, t[k]>>
  <2>2. e \in Entries(t)
    BY DEF Entries
  <2>3. x = <<e[1], Shown(e[2])>>
    BY <2>1
  <2> HIDE DEF e
  <2> QED BY <2>2, <2>3 DEF ShownOf
<1>2. ASSUME NEW x \in ShownOf(Entries(t)) PROVE x \in S
  <2>1. PICK e \in Entries(t) : x = <<e[1], Shown(e[2])>>
    BY DEF ShownOf
  <2>2. PICK k \in DOMAIN t : e = <<k, t[k]>>
    BY DEF Entries
  <2>3. e[1] = k /\ e[2] = t[k]
    BY <2>2
  <2> QED BY <2>1, <2>3
<1> QED BY <1>1, <1>2

\* What the client sees of a key.
LEMMA MapOfItems ==
    ASSUME NEW t, NEW l, Fit(t, l)
    PROVE  /\ DOMAIN t \subseteq Key /\ MapOf(t) \in [Key -> Value \cup {NULL}]
           /\ \A k \in Key : /\ MapOf(t)[k] = IF k \in DOMAIN t THEN Shown(t[k]) ELSE NULL
                             /\ MapOf(t)[k] # NULL <=> k \in DOMAIN t
           /\ Lossy!Pairs(MapOf(t)) = ShownOf(Entries(t))
<1>1. \A k \in DOMAIN t : k \in Key /\ Shown(t[k]) \in Value /\ Shown(t[k]) # NULL
  BY ItemIsFit, DataAreWords
<1>2. \A k \in Key : /\ MapOf(t)[k] = IF k \in DOMAIN t THEN Shown(t[k]) ELSE NULL
                     /\ MapOf(t)[k] # NULL <=> k \in DOMAIN t
  BY <1>1 DEF MapOf
<1>3. MapOf(t) \in [Key -> Value \cup {NULL}]
  BY <1>1 DEF MapOf
<1>4. Lossy!Pairs(MapOf(t)) = {<<k, MapOf(t)[k]>> : k \in DOMAIN t}
  <2>1. {k \in Key : MapOf(t)[k] # NULL} = DOMAIN t
    BY <1>1, <1>2
  <2> QED BY <2>1 DEF Lossy!Pairs
<1>5. ShownOf(Entries(t)) = {<<k, Shown(t[k])>> : k \in DOMAIN t}
  BY ShownEntries
<1>6. {<<k, MapOf(t)[k]>> : k \in DOMAIN t} = {<<k, Shown(t[k])>> : k \in DOMAIN t}
  BY <1>1, <1>2
<1> QED BY <1>1, <1>2, <1>3, <1>4, <1>5, <1>6

\* A reorganisation of the table is one of the store.  What is found and lost
\* afterwards was lost before: of two entries that show the same, at most one
\* was found, or they were the same.
LEMMA RearrangedRearranges ==
    ASSUME NEW t, Fit(t, lost), strayed \in BOOLEAN, Rearranged(t)
    PROVE  Turned(MapOf(t))
<1> DEFINE all == Entries(t) \cup lost
           f == MapOf(t)
           found == ShownOf(Entries(items'))
<1>1. CASE items' = t /\ UNCHANGED <<lost, strayed>>
  <2>1. Map' = f /\ Lost' = Lost /\ strayed' = strayed
    BY <1>1, MapIsMapOf, LostIsShown
  <2> QED BY <2>1 DEF Turned, Dealt
<1>2. CASE /\ strayed' = TRUE /\ Entries(items') \subseteq all /\ lost' \in SUBSET all
           /\ Entries(items') \cap lost' \subseteq lost
  <2>1. Fit(items', lost')
    BY RearrangedIsFit DEF ItemsFit
  <2>2. Map' \in [Key -> Value \cup {NULL}] /\ Lossy!Pairs(Map') = found
    BY <2>1, MapIsMapOf, MapOfItems
  <2>3. Lossy!Pairs(f) \cup Lost = ShownOf(all)
    <3>1. Lossy!Pairs(f) = ShownOf(Entries(t))
      BY MapOfItems
    <3>2. ShownOf(all) = ShownOf(Entries(t)) \cup ShownOf(lost)
      BY DEF ShownOf
    <3> QED BY <3>1, <3>2, LostIsShown
  <2>4. found \subseteq ShownOf(all) /\ Lost' \subseteq ShownOf(all)
    BY <1>2, LostIsShown DEF ShownOf
  <2>5. ASSUME NEW x \in found, x \in Lost'
        PROVE  x \in Lost
    <3>1. PICK k \in DOMAIN items' : x = <<k, Shown(items'[k])>>
      BY DEF ShownOf, Entries
    <3>2. PICK e \in lost' : x = <<e[1], Shown(e[2])>>
      BY <2>5, LostIsShown DEF ShownOf
    <3> DEFINE d == <<k, items'[k]>>
    <3>3. d \in Entries(items') /\ x = <<d[1], Shown(d[2])>>
      BY <3>1 DEF Entries
    <3>4. CASE d \in lost \/ e \in lost
      <4>1. x \in ShownOf(lost)
        BY <3>2, <3>3, <3>4 DEF ShownOf
      <4> QED BY <4>1, LostIsShown
    <3>5. CASE d \notin lost /\ e \notin lost
      <4>1. d \in Entries(t) /\ e \in Entries(t)
        BY <1>2, <3>2, <3>3, <3>5
      <4>2. e[1] = k
        BY <3>1, <3>2
      <4>3. d = e
        <5>1. PICK i \in DOMAIN t : d = <<i, t[i]>>
          BY <4>1 DEF Entries
        <5>2. PICK j \in DOMAIN t : e = <<j, t[j]>>
          BY <4>1 DEF Entries
        <5>3. i = k /\ j = k
          BY <4>2, <5>1, <5>2
        <5> HIDE DEF d
        <5> QED BY <5>1, <5>2, <5>3
      <4> QED BY <1>2, <3>2, <3>3, <3>5, <4>3
    <3> QED BY <3>4, <3>5
  <2>6. Lossy!Pairs(f) \cup Lost = ShownOf(all) /\ strayed' \in BOOLEAN
    BY <1>2, <2>3
  <2> HIDE DEF f, found, all
  <2>7. Dealt(f, Lost, strayed, Map', Lost', strayed')
    BY <1>2, <2>2, <2>4, <2>5, <2>6 DEF Dealt
  <2> QED BY <2>7 DEF Turned, f
<1> HIDE DEF f, found
<1>3. \/ items' = t /\ UNCHANGED <<lost, strayed>>
      \/ /\ strayed' = TRUE /\ Entries(items') \subseteq all /\ lost' \in SUBSET all
         /\ Entries(items') \cap lost' \subseteq lost
  BY DEF Rearranged
<1> QED BY <1>1, <1>2, <1>3

\* A step that neither changes the table nor brings an answer about it.
Silent ==
    /\ UNCHANGED <<items, lost, strayed>> /\ pc # "reply"
    /\ pc' = "reply" => StatusOf(packet') \notin MapStatus

LEMMA SilentStutters == ASSUME Silent PROVE UNCHANGED Lossy!vars
<1>1. Map' = Map /\ Lost' = Lost /\ strayed' = strayed
  BY MapIsMapOf, LostIsShown DEF Silent
<1>2. Answer = NoAnswer /\ Answer' = NoAnswer
  BY DEF Silent, Answer
<1> QED BY <1>1, <1>2 DEF Lossy!vars, Lost, ShownOf

\* A reply that is an answer to the client.
LEMMA AnswerReplied ==
    ASSUME NEW st \in MapStatus, Replied(st), request' = request
    PROVE  Answer' = [status |-> StoreStatus(st), key |-> request.QKEY, val |-> NULL]
BY DEF Answer, Replied

LEMMA TableFits ==
    ASSUME IInv, IInv'
    PROVE  /\ Fit(items, lost) /\ Fit(items', lost') /\ strayed \in BOOLEAN
           /\ Map \in [Key -> Value \cup {NULL}]
           /\ \A k \in Key : /\ Map[k] = IF k \in DOMAIN items THEN Shown(items[k]) ELSE NULL
                             /\ Map[k] # NULL <=> k \in DOMAIN items
           /\ \A k \in Key : /\ Map'[k] = IF k \in DOMAIN items' THEN Shown(items'[k]) ELSE NULL
                             /\ Map'[k] # NULL <=> k \in DOMAIN items'
<1>1. Fit(items, lost) /\ Fit(items', lost') /\ strayed \in BOOLEAN
  BY DEF IInv, ItemsFit, Types
<1> QED BY <1>1, MapIsMapOf, MapOfItems

LEMMA SetUpdatedSets == ASSUME IInv, SetUpdated PROVE Lossy!Next
<1> DEFINE k == request.QKEY
           v == request.QVAL
<1>1. pc = "operate" /\ token = "set" /\ request' = request
  BY DEF SetUpdated, Handle
<1>2. k \in Key /\ v \in Value
  BY <1>1, KeyAndValue
<1>3. /\ IInv' /\ Replied("UPDATED") /\ UNCHANGED <<lost, strayed>>
      /\ k \in DOMAIN items /\ DOMAIN items' = DOMAIN items
      /\ \A x \in DOMAIN items : Shown(items'[x]) = IF x = k THEN v ELSE Shown(items[x])
  BY SetUpdatedIInv
<1>4. Answer' = [status |-> "UPDATED", key |-> k, val |-> NULL]
  BY <1>1, <1>3, AnswerReplied DEF MapStatus, StoreStatus
<1> HIDE DEF k, v
<1>5. Map[k] # NULL /\ Map \in [Key -> Value \cup {NULL}]
      /\ \A x \in Key : Map'[x] = IF x = k THEN v ELSE Map[x]
  BY <1>2, <1>3, TableFits
<1>6. Map' = [Map EXCEPT ![k] = v]
  BY <1>5, MapIsMapOf DEF MapOf
<1>7. Lost' = Lost
  BY <1>3, LostIsShown
<1>8. Lossy!SetUpdated(k, v)
  BY <1>3, <1>4, <1>5, <1>6, <1>7
     DEF Lossy!SetUpdated, Lossy!Present, Lossy!Answer, Lost, ShownOf
<1> QED BY <1>2, <1>8 DEF Lossy!Next

LEMMA SetInsertedSets == ASSUME IInv, SetInserted PROVE Lossy!Next
<1> DEFINE k == request.QKEY
           v == request.QVAL
<1>1. pc = "operate" /\ token = "set" /\ request' = request
  BY DEF SetInserted, Handle
<1>2. k \in Key /\ v \in Value
  BY <1>1, KeyAndValue
<1>3. IInv' /\ Replied("INSERTED") /\ k \notin DOMAIN items
  BY SetInsertedIInv
<1>4. PICK t : /\ Fit(t, lost) /\ DOMAIN t = DOMAIN items \cup {k}
               /\ \A x \in DOMAIN t : Shown(t[x]) = IF x = k THEN v ELSE Shown(items[x])
               /\ (items' = t /\ UNCHANGED <<lost, strayed>>) \/ Rearranged(t)
  BY SetInsertedIInv
<1>5. Answer' = [status |-> "INSERTED", key |-> k, val |-> NULL]
  BY <1>1, <1>3, AnswerReplied DEF MapStatus, StoreStatus
<1> HIDE DEF k, v
<1>6. /\ Map[k] = NULL /\ Map \in [Key -> Value \cup {NULL}] /\ strayed \in BOOLEAN
      /\ \A x \in Key : MapOf(t)[x] = IF x = k THEN v ELSE Map[x]
  <2>1. \A x \in Key : MapOf(t)[x] = IF x \in DOMAIN t THEN Shown(t[x]) ELSE NULL
    BY <1>4, MapOfItems
  <2> QED BY <1>2, <1>3, <1>4, <2>1, TableFits
<1>7. MapOf(t) = [Map EXCEPT ![k] = v]
  BY <1>6, MapIsMapOf DEF MapOf
<1>8. Turned(MapOf(t))
  <2>1. CASE items' = t /\ UNCHANGED <<lost, strayed>>
    <3>1. Map' = MapOf(t) /\ Lost' = Lost /\ strayed' = strayed
      BY <2>1, MapIsMapOf, LostIsShown
    <3> QED BY <3>1 DEF Turned, Dealt
  <2>2. CASE Rearranged(t)
    BY <1>4, <1>6, <2>2, RearrangedRearranges
  <2> QED BY <1>4, <2>1, <2>2
<1>9. PICK j, w : j = k /\ w = v
  OBVIOUS
<1>10. Lossy!SetInserted(j, w)
  <2>1. Dealt([Map EXCEPT ![j] = w], Lost, strayed, Map', Lost', strayed')
    BY <1>7, <1>8, <1>9 DEF Turned
  <2>2. Map[j] = NULL /\ Answer' = [status |-> "INSERTED", key |-> j, val |-> NULL]
    BY <1>5, <1>6, <1>9
  <2> QED BY <2>1, <2>2
         DEF Lossy!SetInserted, Lossy!Present, Lossy!Answer, Lossy!Rearranged, Lossy!Pairs, Dealt,
             Lost, ShownOf
<1>11. j \in Key /\ w \in Value
  BY <1>2, <1>9
<1> QED BY <1>10, <1>11 DEF Lossy!Next

\* The client has got the value, or no answer at all.
LEMMA GetFoundGets == ASSUME IInv, GetFound PROVE Lossy!Next \/ Silent
<1> DEFINE k == request.QKEY
<1>1. pc = "operate" /\ token = "get" /\ request' = request
  BY DEF GetFound, Handle
<1>2. k \in Key
  BY <1>1, KeyAndValue DEF Keyed
<1>3. /\ IInv' /\ UNCHANGED <<items, lost, strayed>> /\ k \in DOMAIN items /\ ~Broken(items[k])
      /\ pc' \in {"reply", "overrun"}
      /\ pc' = "reply" => /\ StatusOf(packet') = "FOUND"
                          /\ Received(packet', "AVAL") = items[k].data
  BY GetFoundIInv
<1>4. Map' = Map /\ Lost' = Lost
  BY <1>3, MapIsMapOf, LostIsShown
<1>5. Map[k] # NULL /\ Map[k] = items[k].data
  BY <1>2, <1>3, TableFits DEF Shown
<1>6. CASE pc' = "reply"
  <2>1. Answer' = [status |-> "PROVIDED", key |-> k, val |-> items[k].data]
    BY <1>1, <1>3, <1>6 DEF Answer, MapStatus, StoreStatus
  <2> HIDE DEF k
  <2>2. Lossy!Get(k)
    BY <1>3, <1>4, <1>5, <2>1 DEF Lossy!Get, Lossy!Present, Lossy!Answer, Lost, ShownOf
  <2> QED BY <1>2, <2>2 DEF Lossy!Next
<1>7. CASE pc' # "reply"
  BY <1>1, <1>3, <1>7 DEF Silent
<1> QED BY <1>6, <1>7

LEMMA GetNotFoundGets == ASSUME IInv, GetNotFound PROVE Lossy!Next
<1> DEFINE k == request.QKEY
<1>1. request' = request
  BY DEF GetNotFound, Handle
<1>2. IInv' /\ Replied("NOT_FOUND") /\ UNCHANGED <<items, lost, strayed>> /\ k \in Key
      /\ k \notin DOMAIN items
  BY GetNotFoundIInv
<1>3. Map' = Map /\ Lost' = Lost
  BY <1>2, MapIsMapOf, LostIsShown
<1>4. Answer' = [status |-> "NOT_FOUND", key |-> k, val |-> NULL]
  BY <1>1, <1>2, AnswerReplied DEF MapStatus, StoreStatus
<1> HIDE DEF k
<1>5. Map[k] = NULL
  BY <1>2, TableFits
<1>6. Lossy!Get(k)
  BY <1>2, <1>3, <1>4, <1>5 DEF Lossy!Get, Lossy!Present, Lossy!Answer, Lost, ShownOf
<1> QED BY <1>2, <1>6 DEF Lossy!Next

\* A second item of the key may be found instead of the one that is deleted.
LEMMA RemovedRearranges ==
    ASSUME ItemsFit, ItemsFit', NEW k \in Key, strayed \in BOOLEAN, Removed(k)
    PROVE  Turned([Map EXCEPT ![k] = NULL])
<1> DEFINE t == [x \in DOMAIN items \ {k} |-> items[x]]
           f == [Map EXCEPT ![k] = NULL]
<1>1. Fit(t, lost) /\ DOMAIN t = DOMAIN items \ {k} /\ \A x \in DOMAIN t : t[x] = items[x]
  BY RemovedIsFit
<1>2. Fit(items, lost) /\ Fit(items', lost')
  BY DEF ItemsFit
<1>3. UNCHANGED strayed
      /\ \/ items' = t /\ UNCHANGED lost
         \/ \E e \in lost : /\ e[1] = k
                          /\ items' = Stored(k, e[2]) /\ lost' \in {lost, lost \ {e}}
  BY DEF Removed
<1> HIDE DEF t
<1>4. f = MapOf(t)
  <2>1. /\ \A x \in Key : MapOf(t)[x] = IF x \in DOMAIN t THEN Shown(t[x]) ELSE NULL
        /\ \A x \in Key : MapOf(items)[x] = IF x \in DOMAIN items THEN Shown(items[x]) ELSE NULL
    BY <1>1, <1>2, MapOfItems
  <2>2. \A x \in Key : MapOf(t)[x] = IF x = k THEN NULL ELSE MapOf(items)[x]
    BY <1>1, <2>1
  <2> QED BY <2>2, MapIsMapOf DEF MapOf
<1>5. CASE items' = t /\ UNCHANGED lost
  <2>1. Map' = f /\ Lost' = Lost /\ strayed' = strayed
    BY <1>3, <1>4, <1>5, MapIsMapOf, LostIsShown
  <2> QED BY <2>1 DEF Turned, Dealt
<1>6. ASSUME NEW e \in lost, e[1] = k, items' = Stored(k, e[2]), lost' \in {lost, lost \ {e}}
      PROVE  Turned(f)
  <2> DEFINE old == ShownOf(Entries(t))
             new == <<k, Shown(e[2])>>
  <2>1. Lossy!Pairs(f) = old /\ Lossy!Pairs(Map') = ShownOf(Entries(items'))
        /\ Map' \in [Key -> Value \cup {NULL}]
    BY <1>1, <1>2, <1>4, MapIsMapOf, MapOfItems
  <2>2. ShownOf(Entries(items')) = old \cup {new}
    <3>1. DOMAIN items' = DOMAIN t \cup {k} /\ k \notin DOMAIN t
          /\ \A x \in DOMAIN items' : items'[x] = IF x = k THEN e[2] ELSE t[x]
      BY <1>1, <1>6 DEF Stored
    <3>2. ShownOf(Entries(items')) = {<<x, Shown(items'[x])>> : x \in DOMAIN items'}
      BY ShownEntries
    <3>3. old = {<<x, Shown(t[x])>> : x \in DOMAIN t}
      BY ShownEntries
    <3> HIDE DEF old
    <3> QED BY <3>1, <3>2, <3>3
  <2>3. new \in Lost /\ Lost' \subseteq Lost /\ Lost \subseteq Lost' \cup {new}
    <3>1. new \in ShownOf(lost) /\ ShownOf(lost') \subseteq ShownOf(lost)
          /\ ShownOf(lost) \subseteq ShownOf(lost') \cup {new}
      BY <1>6 DEF ShownOf
    <3> QED BY <3>1, LostIsShown
  <2>4. \A x \in Lossy!Pairs(f) : \A j : x[1] = j => f[j] # NULL
    BY DEF Lossy!Pairs
  <2>5. Lossy!Pairs(Map') \subseteq Lossy!Pairs(f) \cup Lost
        /\ Lost' \subseteq Lossy!Pairs(f) \cup Lost
        /\ Lossy!Pairs(Map') \cap Lost' \subseteq Lost
        /\ Lossy!Pairs(f) \cup Lost \subseteq Lossy!Pairs(Map') \cup Lost'
    BY <2>1, <2>2, <2>3
  <2> HIDE DEF f, old, new
  <2> QED BY <1>3, <2>1, <2>5 DEF Turned, Dealt
<1> QED BY <1>3, <1>5, <1>6

LEMMA DelDeletedDels == ASSUME IInv, DelDeleted PROVE Lossy!Next
<1> DEFINE k == request.QKEY
           t == [x \in DOMAIN items \ {k} |-> items[x]]
           f == [Map EXCEPT ![k] = NULL]
<1>1. pc = "operate" /\ token = "del" /\ request' = request
  BY DEF DelDeleted, Handle
<1>2. k \in Key
  BY <1>1, KeyAndValue DEF Keyed
<1>3. IInv' /\ Replied("DELETED") /\ k \in DOMAIN items /\ (Removed(k) \/ Rearranged(t))
  BY DelDeletedIInv
<1>4. Answer' = [status |-> "DELETED", key |-> k, val |-> NULL]
  BY <1>1, <1>3, AnswerReplied DEF MapStatus, StoreStatus
<1>5. ItemsFit /\ ItemsFit' /\ strayed \in BOOLEAN
  BY <1>3 DEF IInv, Types
<1>6. Fit(t, lost) /\ DOMAIN t = DOMAIN items \ {k} /\ \A x \in DOMAIN t : t[x] = items[x]
  BY <1>5, RemovedIsFit
<1> HIDE DEF k, t
<1>7. Map[k] # NULL
  BY <1>2, <1>3, TableFits
<1>8. f = MapOf(t)
  <2>1. /\ \A x \in Key : MapOf(t)[x] = IF x \in DOMAIN t THEN Shown(t[x]) ELSE NULL
        /\ \A x \in Key : MapOf(items)[x] = IF x \in DOMAIN items THEN Shown(items[x]) ELSE NULL
    BY <1>5, <1>6, MapOfItems DEF ItemsFit
  <2>2. \A x \in Key : MapOf(t)[x] = IF x = k THEN NULL ELSE MapOf(items)[x]
    BY <1>6, <2>1
  <2> QED BY <2>2, MapIsMapOf DEF MapOf
<1>9. Turned(f)
  <2>1. CASE Removed(k)
    BY <1>2, <1>5, <2>1, RemovedRearranges
  <2>2. CASE Rearranged(t)
    <3>1. Turned(MapOf(t))
      BY <1>5, <1>6, <2>2, RearrangedRearranges
    <3> QED BY <1>8, <3>1 DEF Turned
  <2> QED BY <1>3, <2>1, <2>2
<1>10. PICK j : j = k
  OBVIOUS
<1>11. Lossy!DelDeleted(j)
  <2>1. Dealt([Map EXCEPT ![j] = NULL], Lost, strayed, Map', Lost', strayed')
    BY <1>9, <1>10 DEF Turned, f
  <2>2. Map[j] # NULL /\ Answer' = [status |-> "DELETED", key |-> j, val |-> NULL]
    BY <1>4, <1>7, <1>10
  <2> QED BY <2>1, <2>2
         DEF Lossy!DelDeleted, Lossy!Present, Lossy!Answer, Lossy!Rearranged, Lossy!Pairs, Dealt,
             Lost, ShownOf
<1> QED BY <1>2, <1>10, <1>11 DEF Lossy!Next

LEMMA DelNotExistsDels == ASSUME IInv, DelNotExists PROVE Lossy!Next
<1> DEFINE k == request.QKEY
<1>1. request' = request
  BY DEF DelNotExists, Handle
<1>2. IInv' /\ Replied("NOT_EXISTS") /\ UNCHANGED <<items, lost, strayed>> /\ k \in Key
      /\ k \notin DOMAIN items
  BY DelNotExistsIInv
<1>3. Map' = Map /\ Lost' = Lost
  BY <1>2, MapIsMapOf, LostIsShown
<1>4. Answer' = [status |-> "ALREADY", key |-> k, val |-> NULL]
  BY <1>1, <1>2, AnswerReplied DEF MapStatus, StoreStatus
<1> HIDE DEF k
<1>5. Map[k] = NULL
  BY <1>2, TableFits
<1>6. Lossy!DelAlready(k)
  BY <1>2, <1>3, <1>4, <1>5 DEF Lossy!DelAlready, Lossy!Present, Lossy!Answer, Lost, ShownOf
<1> QED BY <1>2, <1>6 DEF Lossy!Next

\* The commands without a key say nothing of one.
LEMMA KeylessRequest ==
    ASSUME IInv, pc = "operate", token \in {"zap", "reorg"}
    PROVE  request.QKEY = NULL
<1>1. Shape(request) /\ request.CMND = <<Token(token)>>
  BY OperateFacts DEF Asked
<1> QED BY <1>1 DEF Shape

LEMMA ZapZaps == ASSUME IInv, Zap PROVE Lossy!Next
<1>1. pc = "operate" /\ request' = request
  BY DEF Zap, Handle
<1>2. /\ IInv' /\ token = "zap" /\ items' = <<>> /\ lost' = {} /\ UNCHANGED strayed
      /\ \/ items = <<>> /\ lost = {} /\ Replied("EMPTY")
         \/ (items # <<>> \/ lost # {} \/ strayed) /\ Replied("ZAPPED")
  BY ZapIInv
<1>3. request.QKEY = NULL
  BY <1>1, <1>2, KeylessRequest
<1>4. Map' = [k \in Key |-> NULL] /\ Lost' = {}
  BY <1>2, MapIsMapOf, LostIsShown DEF MapOf, ShownOf
<1>5. Fit(items, lost)
  BY DEF IInv, ItemsFit
<1>6. Lossy!Pairs(Map) = ShownOf(Entries(items))
  BY <1>5, MapIsMapOf, MapOfItems
<1>7. Lossy!Pairs(Map) = {} <=> items = <<>>
  <2>1. ShownOf(Entries(items)) = {} <=> DOMAIN items = {}
    BY DEF ShownOf, Entries
  <2>2. DOMAIN items = {} <=> items = <<>>
    BY <1>5, EmptyDomain DEF Fit
  <2> QED BY <1>6, <2>1, <2>2
<1>8. Lost = {} <=> lost = {}
  BY LostIsShown DEF ShownOf
<1>9. \/ Lossy!Pairs(Map) \cup Lost = {} /\ Replied("EMPTY")
      \/ (Lossy!Pairs(Map) \cup Lost # {} \/ strayed) /\ Replied("ZAPPED")
  BY <1>2, <1>7, <1>8
<1>10. ASSUME NEW st \in {"EMPTY", "ZAPPED"}, Replied(st)
       PROVE  Answer' = [status |-> st, key |-> NULL, val |-> NULL]
  BY <1>1, <1>3, <1>10, AnswerReplied DEF MapStatus, StoreStatus
<1>11. Lossy!Zap
  BY <1>2, <1>4, <1>9, <1>10 DEF Lossy!Zap, Lossy!Answer, Lossy!Pairs, Lost, ShownOf
<1> QED BY <1>11 DEF Lossy!Next

LEMMA ReorgReorgs == ASSUME IInv, Reorg PROVE Lossy!Next
<1>1. pc = "operate" /\ request' = request
  BY DEF Reorg, Handle
<1>2. /\ IInv' /\ token = "reorg"
      /\ \/ Replied("UNCHANGED") /\ UNCHANGED <<items, lost, strayed>>
         \/ Replied("REORGANIZED") /\ Rearranged(items)
  BY ReorgIInv
<1>3. request.QKEY = NULL
  BY <1>1, <1>2, KeylessRequest
<1>4. ASSUME NEW st \in {"UNCHANGED", "REORGANIZED"}, Replied(st)
      PROVE  Answer' = [status |-> st, key |-> NULL, val |-> NULL]
  BY <1>1, <1>3, <1>4, AnswerReplied DEF MapStatus, StoreStatus
<1>5. CASE Replied("UNCHANGED") /\ UNCHANGED <<items, lost, strayed>>
  <2>1. Map' = Map /\ Lost' = Lost /\ strayed' = strayed
    BY <1>5, MapIsMapOf, LostIsShown
  <2>2. Lossy!Reorg
    BY <1>4, <1>5, <2>1 DEF Lossy!Reorg, Lossy!Answer, Lost, ShownOf
  <2> QED BY <2>2 DEF Lossy!Next
<1>6. CASE Replied("REORGANIZED") /\ Rearranged(items)
  <2>1. Turned(Map)
    <3>1. Fit(items, lost) /\ strayed \in BOOLEAN
      BY DEF IInv, ItemsFit, Types
    <3>2. PICK t : t = items
      OBVIOUS
    <3>3. Turned(MapOf(t))
      BY <1>6, <3>1, <3>2, RearrangedRearranges DEF Rearranged
    <3> QED BY <3>2, <3>3, MapIsMapOf DEF Turned
  <2>2. Lossy!Reorg
    BY <1>4, <1>6, <2>1
       DEF Lossy!Reorg, Lossy!Answer, Lossy!Rearranged, Lossy!Pairs, Turned, Dealt, Lost, ShownOf
  <2> QED BY <2>2 DEF Lossy!Next
<1> QED BY <1>2, <1>5, <1>6

\* Everything else.
LEMMA OtherStepsAreSilent ==
    ASSUME IInv,
           \/ \E r \in Requests, first \in First : ReadPacket(r, first)
           \/ \E r \in Requests, n \in Cut : ReadPart(r, n)
           \/ ReadRest \/ Reconnect \/ ProcessBad \/ Process \/ Begin \/ Load
           \/ LoadMissing \/ LoadMinusOne \/ SearchOrCount \/ ProvideResult \/ Info \/ Heartbeat
           \/ Dump \/ Unknown \/ Killed
    PROVE  Silent
<1>1. ASSUME NEW r \in Requests, NEW first \in First, ReadPacket(r, first) PROVE Silent
  BY <1>1 DEF ReadPacket, Read, Silent
<1>2. ASSUME NEW r \in Requests, NEW n \in Cut, ReadPart(r, n) PROVE Silent
  BY <1>2 DEF ReadPart, Read, Silent
<1>3. CASE ReadRest
  BY <1>3 DEF ReadRest, Read, Silent
<1>4. CASE Reconnect
  BY <1>4 DEF Reconnect, Silent
<1>5. CASE ProcessBad
  BY <1>5 DEF ProcessBad, Finish, Silent
<1>6. CASE Process
  BY <1>6 DEF Process, Silent
<1>7. CASE Begin
  BY <1>7 DEF Begin, Silent
<1>8. CASE Load
  BY <1>8 DEF Load, Silent
<1>9. CASE LoadMissing
  <2>1. Replied("MISSING_PARAM")
    BY <1>9, LoadMissingIInv
  <2> QED BY <1>9, <2>1 DEF LoadMissing, Replied, MapStatus, Silent
<1>10. CASE LoadMinusOne
  <2>1. IInv' /\ Carries(packet', request) /\ request' = request
    BY <1>10, LoadMinusOneIInv DEF LoadMinusOne
  <2>2. packet' \in Packet /\ Shape(request)
    BY <2>1, RequestShape DEF IInv, Types
  <2>3. FindChunk(packet', "STAT") = -1
    BY <2>1, <2>2, CarriedRequestGiven DEF RequestId
  <2> QED BY <1>10, <2>3 DEF LoadMinusOne, StatusOf, MapStatus, Silent
<1>11. CASE SearchOrCount
  <2>1. UNCHANGED <<items, lost, strayed>> /\ (pc' = "reply" => StatusOf(packet') \in {"NO_MATCH", "MATCH_FOUND"})
    BY <1>11, SearchOrCountIInv
  <2> QED BY <1>11, <2>1 DEF SearchOrCount, Handle, MapStatus, Silent
<1>12. CASE ProvideResult
  <2>1. UNCHANGED <<items, lost, strayed>> /\ (pc' = "reply" => StatusOf(packet') = "MATCH_FOUND")
    BY <1>12, ProvideResultIInv
  <2> QED BY <1>12, <2>1 DEF ProvideResult, MapStatus, Silent
<1>13. CASE Info
  <2>1. Replied("INFO_PROVIDED")
    BY <1>13, InfoIInv
  <2>2. UNCHANGED <<items, lost, strayed>> /\ pc = "operate"
    BY <1>13 DEF Info, Handle
  <2> QED BY <2>1, <2>2 DEF Replied, MapStatus, Silent
<1>14. CASE Heartbeat
  <2>1. StatusOf(packet') = "none"
    BY <1>14, HeartbeatIInv
  <2> QED BY <1>14, <2>1 DEF Heartbeat, Handle, MapStatus, Silent
<1>15. CASE Dump
  <2>1. StatusOf(packet') = "none"
    BY <1>15, DumpIInv
  <2> QED BY <1>15, <2>1 DEF Dump, Handle, MapStatus, Silent
<1>16. CASE Unknown
  <2>1. Replied("INVALID_COMMAND")
    BY <1>16, UnknownIInv
  <2> QED BY <1>16, <2>1 DEF Unknown, Handle, Replied, MapStatus, Silent
<1>17. CASE Killed
  BY <1>17 DEF Killed, Silent
<1> QED BY <1>1, <1>2, <1>3, <1>4, <1>5, <1>6, <1>7, <1>8, <1>9, <1>10, <1>11, <1>12, <1>13,
           <1>14, <1>15, <1>16, <1>17

\* The client has read the answer.
LEMMA SendTakes == ASSUME Send PROVE Lossy!Next
<1>1. Map' = Map /\ Lost' = Lost /\ strayed' = strayed
  BY MapIsMapOf, LostIsShown DEF Send, Finish
<1>2. Answer' = NoAnswer
  BY DEF Send, Answer
<1>3. Lossy!Taken
  BY <1>1, <1>2 DEF Lossy!Taken, Lossy!NoReply, NoAnswer, Lost, ShownOf
<1> QED BY <1>3 DEF Lossy!Next

LEMMA NothingStutters == ASSUME UNCHANGED vars PROVE UNCHANGED Lossy!vars
<1>1. Map' = Map /\ Lost' = Lost /\ strayed' = strayed
  BY MapIsMapOf, LostIsShown DEF vars
<1>2. Answer' = Answer
  BY DEF vars, Answer, StatusOf, Received
<1> QED BY <1>1, <1>2 DEF Lossy!vars, Lost, ShownOf

LEMMA StepImplements ==
    ASSUME IInv, [Next]_vars
    PROVE  [Lossy!Next]_(Lossy!vars)
<1>1. CASE Send
  BY <1>1, SendTakes
<1>2. CASE Ended \/ UNCHANGED vars
  BY <1>2, NothingStutters DEF Ended
<1>3. CASE \/ SetUpdated \/ SetInserted \/ GetNotFound \/ DelDeleted \/ DelNotExists
           \/ Zap \/ Reorg
  BY <1>3, SetUpdatedSets, SetInsertedSets, GetNotFoundGets, DelDeletedDels, DelNotExistsDels,
     ZapZaps, ReorgReorgs
<1>4. CASE GetFound
  BY <1>4, GetFoundGets, SilentStutters
<1>5. CASE \/ \E r \in Requests, first \in First : ReadPacket(r, first)
           \/ \E r \in Requests, n \in Cut : ReadPart(r, n)
           \/ ReadRest \/ Reconnect \/ ProcessBad \/ Process \/ Begin \/ Load
           \/ LoadMissing \/ LoadMinusOne \/ SearchOrCount \/ ProvideResult \/ Info \/ Heartbeat
           \/ Dump \/ Unknown \/ Killed
  BY <1>5, OtherStepsAreSilent, SilentStutters
<1> QED BY <1>1, <1>2, <1>3, <1>4, <1>5 DEF Next, Operate

LEMMA InitImplements == ASSUME Init PROVE Lossy!Init
<1>1. Map = [k \in Key |-> NULL] /\ Lost = {} /\ strayed = FALSE
  BY MapIsMapOf, LostIsShown, EmptyDomain DEF Init, MapOf, ShownOf
<1>2. Answer = NoAnswer
  BY DEF Init, Answer
<1> QED BY <1>1, <1>2 DEF Lossy!Init, Lossy!NoReply, NoAnswer, Lost, ShownOf

\* What the clients are told of the table, from the chunks of their requests to
\* those of the replies, is what LossyStore answers, whatever the reorganisations
\* of the table leave behind.
THEOREM SpecImplementsStore == ASSUME AnyOrder = FALSE PROVE Spec => ImplementsStore
<1>1. Spec => []IInv
  BY SpecIInv
<1>2. Init => Lossy!Init
  BY InitImplements
<1>3. IInv /\ [Next]_vars => [Lossy!Next]_(Lossy!vars)
  BY StepImplements
<1> QED BY <1>1, <1>2, <1>3, PTL DEF Spec, ImplementsStore, Lossy!Spec
==============================================================================
