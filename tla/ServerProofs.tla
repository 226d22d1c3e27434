---------------------------- MODULE ServerProofs ----------------------------
(***************************************************************************)
(* Proofs about Server: any number of slots and connections, any number of *)
(* sessions and requests, well-behaved clients or not.                     *)
(*                                                                         *)
(* The inductive invariant adds to the slots what keeps them right: no     *)
(* connection waits twice to be accepted, none waits that has been         *)
(* accepted or rejected before, and what select has said stays true until  *)
(* the loop has acted on it, as only the loop itself closes its sockets.   *)
(***************************************************************************)
EXTENDS Server, FiniteSetTheorems, SequenceTheorems, TLAPS

\* A connection waits once, before it has a session or a refusal.
Waiting ==
    /\ session + Len(backlog) <= MaxSession
    /\ \A i, j \in 1 .. Len(backlog) : i # j => backlog[i] # backlog[j]
    /\ \A i \in 1 .. Len(backlog) :
         peer[backlog[i]] # "none" /\ outcome[backlog[i]] = NULL

\* The sockets that are open are those of the sessions.
Sessions ==
    /\ \A c \in Conn : c \in open <=> outcome[c] \notin {NULL, 0}
    /\ \A c \in Conn : peer[c] = "none" => outcome[c] = NULL

\* What select was given, and what it said.
Current ==
    /\ pc = "select" => watched \subseteq open
    /\ pc = "dispatch" => ready \subseteq open
    /\ pc = "dispatch" /\ mainReady => backlog # <<>>
    /\ pc = "dispatch" /\ ~mainReady => ready # {}

IInv == TypeOK /\ SlotsMatchSockets /\ Waiting /\ Sessions /\ Current

LEMMA FirstIsLeast ==
    ASSUME NEW S \in SUBSET Nat, S # {}
    PROVE  First(S) \in S /\ \A j \in S : First(S) <= j
<1> DEFINE T == {0 .. s : s \in S}
<1>1. T \subseteq FiniteSubsetsOf(Nat)
  <2> SUFFICES ASSUME NEW s \in S PROVE 0 .. s \in FiniteSubsetsOf(Nat)
      OBVIOUS
  <2> QED BY FS_Interval DEF FiniteSubsetsOf
<1>2. PICK x \in T : \A y \in T : <<y, x>> \notin StrictSubsetOrdering(Nat)
  <2> T # {}  OBVIOUS
  <2> QED BY <1>1, FS_StrictSubsetOrderingWellFounded, WFMin
<1>3. PICK m \in S : x = 0 .. m
    BY <1>2
<1>4. ASSUME NEW j \in S, j < m
      PROVE  FALSE
  <2>1. 0 .. j \in T /\ 0 .. j \subseteq 0 .. m
      BY <1>4
  <2>2. m \in 0 .. m /\ m \notin 0 .. j
      BY <1>4
  <2>3. <<0 .. j, 0 .. m>> \in StrictSubsetOrdering(Nat)
      BY <2>1, <2>2, <1>4 DEF StrictSubsetOrdering
  <2> QED BY <1>2, <1>3, <2>1, <2>3
<1>5. \E i \in S : \A j \in S : i <= j
    BY <1>4
<1> QED BY <1>5 DEF First

LEMMA FreeSlot == Free # {} => First(Free) \in Free
    BY FirstIsLeast, ServerAssumption DEF Free, Slot

LEMMA InitIInv == Init => IInv
<1> SUFFICES ASSUME Init PROVE IInv  OBVIOUS
<1>1. TypeOK
  <2>1. /\ backlog \in Seq(Conn)
        /\ toServer \in [Conn -> Seq(Piece)]
        /\ toClient \in [Conn -> Seq(Greeting \cup Reply)]
        /\ received \in [Conn -> Seq(1 .. MaxRequests)]
      BY EmptySeq DEF Init
  <2>2. /\ session \in 0 .. MaxSession /\ sent \in [Conn -> 0 .. MaxRequests]
        /\ outcome \in [Conn -> 0 .. MaxSession \cup {NULL}]
        /\ greeted \in [Conn -> 0 .. MaxSession \cup {NULL}]
        /\ peer \in [Conn -> {"none", "open", "closed", "reset"}]
        /\ connections \in [Slot -> Conn \cup {NULL}]
      BY ServerAssumption DEF Init
  <2> QED BY <2>1, <2>2 DEF Init, TypeOK
<1>2. SlotsMatchSockets
    BY DEF Init, SlotsMatchSockets
<1>3. Waiting /\ Sessions /\ Current
    BY ServerAssumption DEF Init, Waiting, Sessions, Current
<1> QED BY <1>1, <1>2, <1>3 DEF IInv

(* Types *)

LEMMA SendToTypes ==
    ASSUME TypeOK, NEW c \in Conn, NEW m \in Greeting \cup Reply, SendTo(c, m)
    PROVE  /\ peer' \in [Conn -> {"none", "open", "closed", "reset"}]
           /\ toClient' \in [Conn -> Seq(Greeting \cup Reply)]
           /\ pc' \in {"loop", "killed"}
           /\ \A d \in Conn : peer'[d] = "none" <=> peer[d] = "none"
<1>1. Append(toClient[c], m) \in Seq(Greeting \cup Reply)
    BY AppendProperties DEF TypeOK
<1> QED BY ZenonT(30), <1>1 DEF SendTo, TypeOK

LEMMA ForgetTypes ==
    ASSUME TypeOK, NEW c \in Conn, Forget(c)
    PROVE  /\ outcome' \in [Conn -> 0 .. MaxSession \cup {NULL}]
           /\ peer' \in [Conn -> {"none", "open", "closed", "reset"}]
           /\ greeted' \in [Conn -> 0 .. MaxSession \cup {NULL}]
           /\ sent' \in [Conn -> 0 .. MaxRequests]
           /\ received' \in [Conn -> Seq(1 .. MaxRequests)]
           /\ toServer' \in [Conn -> Seq(Piece)]
           /\ toClient' \in [Conn -> Seq(Greeting \cup Reply)]
    BY ServerAssumption DEF Forget, TypeOK

LEMMA BacklogOf ==
    ASSUME TypeOK
    PROVE  Len(backlog) \in Nat /\ \A i \in 1 .. Len(backlog) : backlog[i] \in Conn
    BY DEF TypeOK

\* The first in the backlog, and the others.
LEMMA HeadWaits ==
    ASSUME TypeOK, Waiting, backlog # <<>>
    PROVE  /\ Head(backlog) \in Conn /\ Head(backlog) = backlog[1]
           /\ outcome[Head(backlog)] = NULL /\ peer[Head(backlog)] # "none"
           /\ Tail(backlog) \in Seq(Conn) /\ Len(Tail(backlog)) = Len(backlog) - 1
           /\ \A i \in 1 .. Len(Tail(backlog)) :
                Tail(backlog)[i] = backlog[i + 1] /\ Tail(backlog)[i] # Head(backlog)
           /\ session + 1 \in 1 .. MaxSession
<1>1. Len(backlog) \in Nat \ {0}
    BY DEF TypeOK
<1>2. /\ Head(backlog) \in Conn /\ Head(backlog) = backlog[1]
      /\ Tail(backlog) \in Seq(Conn) /\ Len(Tail(backlog)) = Len(backlog) - 1
      /\ \A i \in 1 .. Len(Tail(backlog)) : Tail(backlog)[i] = backlog[i + 1]
    BY HeadTailProperties DEF TypeOK
<1> QED BY <1>1, <1>2, ServerAssumption DEF TypeOK, Waiting

(* What the clients do *)

LEMMA ConnectIInv == ASSUME IInv, NEW c \in Conn, Connect(c) PROVE IInv'
<1>t. TypeOK /\ SlotsMatchSockets /\ Waiting /\ Sessions /\ Current
    BY DEF IInv
<1>1. /\ backlog' \in Seq(Conn) /\ Len(backlog') = Len(backlog) + 1
      /\ \A i \in 1 .. Len(backlog) : backlog'[i] = backlog[i]
      /\ backlog'[Len(backlog) + 1] = c
      /\ backlog' # <<>>
  <2>1. backlog' = Append(backlog, c) /\ backlog \in Seq(Conn)
      BY <1>t DEF TypeOK, Connect
  <2> QED BY <2>1, AppendProperties
<1>2. TypeOK'
    BY <1>t, <1>1 DEF TypeOK, Connect, loopVars, streams
<1>3. Waiting'
  <2>1. Len(backlog) \in Nat
      BY <1>t DEF TypeOK
  <2>2. \A i \in 1 .. Len(backlog) : backlog[i] # c
      BY <1>t DEF Connect, Waiting
  <2>3. \A i, j \in 1 .. Len(backlog') : i # j => backlog'[i] # backlog'[j]
      BY <1>t, <1>1, <2>1, <2>2 DEF Waiting
  <2>4. \A i \in 1 .. Len(backlog') :
           peer'[backlog'[i]] # "none" /\ outcome'[backlog'[i]] = NULL
    <3>1. /\ peer'[c] = "open" /\ outcome'[c] = NULL
          /\ \A d \in Conn : d # c => peer'[d] = peer[d] /\ outcome'[d] = outcome[d]
        BY <1>t DEF Sessions, Connect, TypeOK
    <3> QED BY <1>t, <1>1, <2>1, <2>2, <3>1, BacklogOf DEF Waiting
  <2>5. (session + Len(backlog) <= MaxSession)'
      BY <1>t, <1>1, <2>1, ServerAssumption DEF Connect, TypeOK
  <2> QED BY <2>3, <2>4, <2>5 DEF Waiting
<1>4. SlotsMatchSockets' /\ Current'
    BY <1>t, <1>1 DEF SlotsMatchSockets, Current, Connect, loopVars
<1>5. Sessions'
    BY <1>t DEF TypeOK, Sessions, Connect
<1> QED BY <1>2, <1>3, <1>4, <1>5 DEF IInv

LEMMA ReceiveIInv == ASSUME IInv, NEW c \in Conn, Receive(c) PROVE IInv'
<1>t. TypeOK /\ SlotsMatchSockets /\ Waiting /\ Sessions /\ Current
    BY DEF IInv
<1>1. /\ Head(toClient[c]) \in Greeting \cup Reply
      /\ Tail(toClient[c]) \in Seq(Greeting \cup Reply)
    BY <1>t, HeadTailProperties DEF TypeOK, Receive
<1>2. /\ greeted' \in [Conn -> 0 .. MaxSession \cup {NULL}]
      /\ received' \in [Conn -> Seq(1 .. MaxRequests)]
  <2>1. CASE Head(toClient[c]).kind = "session"
      BY <1>t, <1>1, <2>1 DEF TypeOK, Receive, Greeting, Reply
  <2>2. CASE Head(toClient[c]).kind # "session"
    <3>1. Head(toClient[c]).n \in 1 .. MaxRequests
        BY <1>1, <2>2 DEF Greeting, Reply
    <3>2. Append(received[c], Head(toClient[c]).n) \in Seq(1 .. MaxRequests)
        BY <1>t, <3>1, AppendProperties DEF TypeOK
    <3> QED BY <1>t, <2>2, <3>2 DEF TypeOK, Receive
  <2> QED BY <2>1, <2>2
<1>3. TypeOK'
    BY <1>t, <1>1, <1>2 DEF TypeOK, Receive, loopVars, slotVars
<1>4. (SlotsMatchSockets /\ Waiting /\ Sessions /\ Current)'
    BY <1>t DEF SlotsMatchSockets, Waiting, Sessions, Current, Receive, loopVars, slotVars
<1> QED BY <1>3, <1>4 DEF IInv

LEMMA SendIInv == ASSUME IInv, NEW c \in Conn, Send(c) PROVE IInv'
<1>t. TypeOK /\ SlotsMatchSockets /\ Waiting /\ Sessions /\ Current
    BY DEF IInv
<1>1. sent' \in [Conn -> 0 .. MaxRequests] /\ sent'[c] \in 1 .. MaxRequests
    BY <1>t, ServerAssumption DEF TypeOK, Send
<1>2. Request(sent'[c]) \in Seq(Piece)
    BY <1>1 DEF Request, Piece
<1>3. toServer' \in [Conn -> Seq(Piece)]
    BY <1>t, <1>2, ConcatProperties DEF TypeOK, Send
<1>4. TypeOK'
    BY <1>t, <1>1, <1>3 DEF TypeOK, Send, loopVars, slotVars
<1>5. (SlotsMatchSockets /\ Waiting /\ Sessions /\ Current)'
    BY <1>t DEF SlotsMatchSockets, Waiting, Sessions, Current, Send, loopVars, slotVars
<1> QED BY <1>4, <1>5 DEF IInv

LEMMA SendMalformedIInv == ASSUME IInv, NEW c \in Conn, SendMalformed(c) PROVE IInv'
<1>t. TypeOK /\ SlotsMatchSockets /\ Waiting /\ Sessions /\ Current
    BY DEF IInv
<1>1. Malformed \in Seq(Piece)
    BY DEF Malformed, Piece
<1>2. toServer' \in [Conn -> Seq(Piece)]
    BY <1>t, <1>1, ConcatProperties DEF TypeOK, SendMalformed
<1>3. TypeOK'
    BY <1>t, <1>2 DEF TypeOK, SendMalformed, loopVars, slotVars, peerVars
<1>4. (SlotsMatchSockets /\ Waiting /\ Sessions /\ Current)'
    BY <1>t DEF SlotsMatchSockets, Waiting, Sessions, Current, SendMalformed,
                loopVars, slotVars, peerVars
<1> QED BY <1>3, <1>4 DEF IInv

\* A client that was rejected is not in the backlog any more.
LEMMA CloseIInv == ASSUME IInv, NEW c \in Conn, Close(c) PROVE IInv'
<1>t. TypeOK /\ SlotsMatchSockets /\ Waiting /\ Sessions /\ Current
    BY DEF IInv
<1>1. CASE outcome[c] = 0 /\ Forget(c)
  <2>1. TypeOK'
      BY <1>t, <1>1, ForgetTypes DEF TypeOK, Close, loopVars
  <2>2. \A i \in 1 .. Len(backlog) : backlog[i] # c
      BY <1>t, <1>1, ServerAssumption DEF Waiting
  <2>3. Waiting' /\ Sessions'
    <3>1. /\ peer'[c] = "none" /\ outcome'[c] = NULL
          /\ \A d \in Conn : d # c => peer'[d] = peer[d] /\ outcome'[d] = outcome[d]
          /\ UNCHANGED <<backlog, session, open>>
        BY <1>t, <1>1 DEF TypeOK, Close, Forget
    <3>2. Waiting'
        BY <1>t, <2>2, <3>1, BacklogOf DEF Waiting
    <3>3. Sessions'
        BY <1>t, <1>1, <3>1, ServerAssumption DEF Sessions
    <3> QED BY <3>2, <3>3
  <2>4. SlotsMatchSockets' /\ Current'
      BY <1>t DEF SlotsMatchSockets, Current, Close, loopVars
  <2> QED BY <2>1, <2>3, <2>4 DEF IInv
<1>2. CASE outcome[c] # 0
  <2>1. /\ peer' \in [Conn -> {"none", "open", "closed", "reset"}]
        /\ toClient' \in [Conn -> Seq(Greeting \cup Reply)]
        /\ \A d \in Conn : peer'[d] = "none" <=> peer[d] = "none"
    <3>1. \/ peer' = [peer EXCEPT ![c] = "closed"]
          \/ peer' = [peer EXCEPT ![c] = "reset"]
        BY <1>2 DEF Close
    <3>2. peer[c] = "open" /\ toClient' = [toClient EXCEPT ![c] = <<>>]
        BY <1>2 DEF Close
    <3> QED BY <1>t, <3>1, <3>2, EmptySeq DEF TypeOK
  <2>2. TypeOK'
      BY <1>t, <1>2, <2>1 DEF TypeOK, Close, loopVars
  <2>3. Waiting' /\ Sessions'
    <3>1. /\ UNCHANGED <<backlog, session, open, outcome>>
          /\ peer[c] = "open" /\ \A d \in Conn \ {c} : peer'[d] = peer[d]
        BY <1>t, <1>2 DEF TypeOK, Close
    <3>2. Waiting'
        BY <1>t, <2>1, <3>1, BacklogOf DEF Waiting
    <3>3. Sessions'
        BY <1>t, <2>1, <3>1 DEF Sessions
    <3> QED BY <3>2, <3>3
  <2>4. SlotsMatchSockets' /\ Current'
      BY <1>t DEF SlotsMatchSockets, Current, Close, loopVars
  <2> QED BY <2>2, <2>3, <2>4 DEF IInv
<1> QED BY <1>1, <1>2 DEF Close

LEMMA SignalIInv == ASSUME IInv, Signal PROVE IInv'
<1>t. TypeOK /\ SlotsMatchSockets /\ Waiting /\ Sessions /\ Current
    BY DEF IInv
<1>1. TypeOK'
    BY <1>t DEF TypeOK, Signal, slotVars, peerVars, streams
<1>2. (SlotsMatchSockets /\ Waiting /\ Sessions /\ Current)'
    BY <1>t DEF SlotsMatchSockets, Waiting, Sessions, Current, Signal, slotVars, peerVars
<1> QED BY <1>1, <1>2 DEF IInv

(* The loop *)

LEMMA TurnIInv == ASSUME IInv, Turn PROVE IInv'
<1>t. TypeOK /\ SlotsMatchSockets /\ Waiting /\ Sessions /\ Current
    BY DEF IInv
<1>1. ToWatch = open /\ open \subseteq Conn
    BY <1>t DEF SlotsMatchSockets, ToWatch, TypeOK
<1>2. TypeOK'
    BY <1>t, <1>1 DEF TypeOK, Turn, slotVars, peerVars, streams
<1>3. (SlotsMatchSockets /\ Waiting /\ Sessions /\ Current)'
    BY <1>t, <1>1 DEF SlotsMatchSockets, Waiting, Sessions, Current, Turn, slotVars, peerVars
<1> QED BY <1>2, <1>3 DEF IInv

LEMMA SelectIInv == ASSUME IInv, Select PROVE IInv'
<1>t. TypeOK /\ SlotsMatchSockets /\ Waiting /\ Sessions /\ Current
    BY DEF IInv
<1>1. ready' \subseteq open /\ ready' \subseteq Conn /\ mainReady' \in BOOLEAN
    BY <1>t DEF Current, Select, TypeOK
<1>2. TypeOK'
    BY <1>t, <1>1 DEF TypeOK, Select, slotVars, peerVars, streams
<1>3. (SlotsMatchSockets /\ Waiting /\ Sessions)'
    BY <1>t DEF SlotsMatchSockets, Waiting, Sessions, Select, slotVars, peerVars
<1>4. Current'
  <2>1. pc' # "select" /\ mainReady' = (backlog # <<>>) /\ backlog' = backlog /\ open' = open
      BY DEF Select, slotVars
  <2>2. pc' = "dispatch" => mainReady' \/ ready' # {}
      BY DEF Select
  <2> QED BY <1>1, <2>1, <2>2 DEF Current
<1> QED BY <1>2, <1>3, <1>4 DEF IInv

LEMMA AcceptErrorIInv == ASSUME IInv, AcceptError PROVE IInv'
<1>t. TypeOK /\ SlotsMatchSockets /\ Waiting /\ Sessions /\ Current
    BY DEF IInv
<1>1. TypeOK'
    BY <1>t DEF TypeOK, AcceptError, Served, slotVars, peerVars, streams
<1>2. (SlotsMatchSockets /\ Waiting /\ Sessions /\ Current)'
    BY <1>t DEF SlotsMatchSockets, Waiting, Sessions, Current, AcceptError,
                Served, slotVars, peerVars
<1> QED BY <1>1, <1>2 DEF IInv

\* The session number is new, and the first free slot gets the connection.
LEMMA AcceptIInv == ASSUME IInv, AcceptConnection PROVE IInv'
<1>t. TypeOK /\ SlotsMatchSockets /\ Waiting /\ Sessions /\ Current
    BY DEF IInv
<1> DEFINE c == Head(backlog)
           s == First(Free)
<1>1. backlog # <<>>
    BY <1>t DEF Current, AcceptConnection, Accepting
<1>2. /\ connections' = [connections EXCEPT ![s] = c]
      /\ session' = session + 1
      /\ open' = open \cup {c}
      /\ outcome' = [outcome EXCEPT ![c] = session + 1]
      /\ SendTo(c, Greet(session + 1))
      /\ backlog' = Tail(backlog)
      /\ addrlenSet' = TRUE /\ mainReady' = FALSE /\ ready' = {}
      /\ UNCHANGED <<runningFlag, watched, greeted, sent, received, toServer>>
    BY DEF AcceptConnection, Served, Installed
<1>3. s \in Slot /\ connections[s] = NULL
    BY FreeSlot DEF AcceptConnection, Free
<1>4. /\ c \in Conn /\ outcome[c] = NULL /\ peer[c] # "none"
      /\ backlog' \in Seq(Conn) /\ Len(backlog') = Len(backlog) - 1
      /\ \A i \in 1 .. Len(backlog') : backlog'[i] = backlog[i + 1] /\ backlog'[i] # c
      /\ session + 1 \in 1 .. MaxSession
    BY <1>t, <1>1, <1>2, HeadWaits
<1>5. Greet(session + 1) \in Greeting \cup Reply
    BY <1>4 DEF Greet, Greeting
<1>6. /\ peer' \in [Conn -> {"none", "open", "closed", "reset"}]
      /\ toClient' \in [Conn -> Seq(Greeting \cup Reply)]
      /\ pc' \in {"loop", "killed"}
      /\ \A d \in Conn : peer'[d] = "none" <=> peer[d] = "none"
    BY <1>t, <1>2, <1>4, <1>5, SendToTypes
<1> HIDE DEF c, s
<1>7. /\ connections' \in [Slot -> Conn \cup {NULL}]
      /\ outcome' \in [Conn -> 0 .. MaxSession \cup {NULL}]
    BY SMTT(30), <1>t, <1>2, <1>3, <1>4 DEF TypeOK
<1>8. TypeOK'
  <2>1. session' \in 0 .. MaxSession /\ open' \subseteq Conn
      BY <1>t, <1>2, <1>4 DEF TypeOK
  <2> QED BY <1>t, <1>2, <1>4, <1>6, <1>7, <2>1 DEF TypeOK
<1>9. SlotsMatchSockets'
  <2>1. c \notin open /\ c # NULL
      BY <1>t, <1>4, ServerAssumption DEF Sessions
  <2>2. connections'[s] = c /\ \A i \in Slot \ {s} : connections'[i] = connections[i]
      BY <1>t, <1>2, <1>3 DEF TypeOK
  <2>3. open' = {connections'[i] : i \in Slot} \ {NULL}
      BY <1>t, <1>2, <1>3, <2>1, <2>2 DEF SlotsMatchSockets
  <2>4. \A i \in Slot : connections[i] # c
      BY <1>t, <2>1 DEF SlotsMatchSockets
  <2>5. \A i, j \in Slot :
           connections'[i] = connections'[j] /\ i # j => connections'[i] = NULL
      BY <1>t, <2>2, <2>4 DEF SlotsMatchSockets
  <2> QED BY <2>3, <2>5 DEF SlotsMatchSockets
<1>10. Waiting'
  <2>1. \A d \in Conn : d # c => outcome'[d] = outcome[d]
      BY <1>t, <1>2 DEF TypeOK
  <2>2. \A i \in 1 .. Len(backlog') : backlog'[i] \in Conn /\ i + 1 \in 1 .. Len(backlog)
      BY <1>t, <1>4, BacklogOf
  <2>3. (session + Len(backlog) <= MaxSession)'
      BY <1>t, <1>2, <1>4, ServerAssumption DEF TypeOK, Waiting
  <2>4. \A i, j \in 1 .. Len(backlog') : i # j => backlog'[i] # backlog'[j]
      BY SMTT(30), <1>t, <1>4, <2>2 DEF Waiting
  <2>5. \A i \in 1 .. Len(backlog') :
           peer'[backlog'[i]] # "none" /\ outcome'[backlog'[i]] = NULL
    <3> SUFFICES ASSUME NEW i \in 1 .. Len(backlog')
                 PROVE  peer'[backlog'[i]] # "none" /\ outcome'[backlog'[i]] = NULL
        OBVIOUS
    <3>1. peer[backlog'[i]] # "none" /\ outcome[backlog'[i]] = NULL
        BY <1>t, <1>4, <2>2 DEF Waiting
    <3> QED BY <1>4, <1>6, <2>1, <2>2, <3>1
  <2> QED BY <2>3, <2>4, <2>5 DEF Waiting
<1>11. Sessions'
  <2>1. outcome'[c] = session + 1 /\ \A d \in Conn : d # c => outcome'[d] = outcome[d]
      BY <1>t, <1>2, <1>4 DEF TypeOK
  <2>2. session + 1 \notin {NULL, 0}
      BY <1>4, ServerAssumption
  <2> QED BY <1>t, <1>2, <1>4, <1>6, <2>1, <2>2 DEF Sessions
<1>12. Current'
    BY <1>6 DEF Current
<1> QED BY <1>8, <1>9, <1>10, <1>11, <1>12 DEF IInv

LEMMA RejectIInv == ASSUME IInv, RejectConnection PROVE IInv'
<1>t. TypeOK /\ SlotsMatchSockets /\ Waiting /\ Sessions /\ Current
    BY DEF IInv
<1> DEFINE c == Head(backlog)
<1>1. backlog # <<>>
    BY <1>t DEF Current, RejectConnection, Accepting
<1>2. /\ \/ /\ peer[c] = "open"
            /\ outcome' = [outcome EXCEPT ![c] = 0]
            /\ toClient' = [toClient EXCEPT ![c] = Append(@, Greet(0))]
            /\ UNCHANGED <<peer, greeted, sent, received, toServer>>
         \/ Forget(c)
      /\ pc' = "loop"
      /\ backlog' = Tail(backlog)
      /\ addrlenSet' = TRUE /\ mainReady' = FALSE /\ ready' = {}
      /\ UNCHANGED <<runningFlag, watched, connections, session, open>>
    BY DEF RejectConnection, Served
<1>3. /\ c \in Conn /\ outcome[c] = NULL /\ peer[c] # "none"
      /\ backlog' \in Seq(Conn) /\ Len(backlog') = Len(backlog) - 1
      /\ \A i \in 1 .. Len(backlog') : backlog'[i] = backlog[i + 1] /\ backlog'[i] # c
    BY <1>t, <1>1, <1>2, HeadWaits
<1> HIDE DEF c
<1>4. /\ outcome' \in [Conn -> 0 .. MaxSession \cup {NULL}]
      /\ peer' \in [Conn -> {"none", "open", "closed", "reset"}]
      /\ greeted' \in [Conn -> 0 .. MaxSession \cup {NULL}]
      /\ sent' \in [Conn -> 0 .. MaxRequests]
      /\ received' \in [Conn -> Seq(1 .. MaxRequests)]
      /\ toServer' \in [Conn -> Seq(Piece)]
      /\ toClient' \in [Conn -> Seq(Greeting \cup Reply)]
  <2>1. CASE Forget(c)
      BY <1>t, <1>3, <2>1, ForgetTypes
  <2>2. CASE /\ outcome' = [outcome EXCEPT ![c] = 0]
             /\ toClient' = [toClient EXCEPT ![c] = Append(@, Greet(0))]
             /\ UNCHANGED <<peer, greeted, sent, received, toServer>>
    <3>1. Greet(0) \in Greeting \cup Reply
        BY ServerAssumption DEF Greet, Greeting
    <3>2. Append(toClient[c], Greet(0)) \in Seq(Greeting \cup Reply)
        BY <1>t, <1>3, <3>1, AppendProperties DEF TypeOK
    <3>3. outcome' \in [Conn -> 0 .. MaxSession \cup {NULL}]
      <4>1. 0 \in 0 .. MaxSession
          BY ServerAssumption
      <4> QED BY <1>t, <2>2, <4>1 DEF TypeOK
    <3>4. toClient' \in [Conn -> Seq(Greeting \cup Reply)]
        BY <1>t, <2>2, <3>2 DEF TypeOK
    <3> QED BY <1>t, <2>2, <3>3, <3>4 DEF TypeOK
  <2> QED BY <1>2, <2>1, <2>2
<1>5. TypeOK'
    BY <1>t, <1>2, <1>3, <1>4 DEF TypeOK
<1>6. \A d \in Conn : d # c => outcome'[d] = outcome[d] /\ peer'[d] = peer[d]
    BY <1>t, <1>2 DEF TypeOK, Forget
<1>7. /\ outcome'[c] \in {NULL, 0}
      /\ peer'[c] = "none" => outcome'[c] = NULL
    BY <1>t, <1>2, <1>3 DEF TypeOK, Forget
<1>8. Waiting'
  <2>1. \A i \in 1 .. Len(backlog') : backlog'[i] \in Conn /\ i + 1 \in 1 .. Len(backlog)
      BY <1>t, <1>3, BacklogOf
  <2>2. (session + Len(backlog) <= MaxSession)'
      BY <1>t, <1>2, <1>3, ServerAssumption DEF TypeOK, Waiting
  <2>3. \A i, j \in 1 .. Len(backlog') : i # j => backlog'[i] # backlog'[j]
      BY <1>t, <1>3, <2>1 DEF Waiting
  <2>4. \A i \in 1 .. Len(backlog') :
           peer'[backlog'[i]] # "none" /\ outcome'[backlog'[i]] = NULL
      BY <1>t, <1>3, <1>6, <2>1 DEF Waiting
  <2> QED BY <2>2, <2>3, <2>4 DEF Waiting
<1>9. Sessions'
    BY <1>t, <1>2, <1>3, <1>6, <1>7 DEF Sessions
<1>10. SlotsMatchSockets' /\ Current'
    BY <1>t, <1>2 DEF SlotsMatchSockets, Current
<1> QED BY <1>5, <1>8, <1>9, <1>10 DEF IInv

\* Whatever part of the stream a read returns.
LEMMA RemainingTypes ==
    ASSUME TypeOK, NEW c \in Conn, NEW n \in 1 .. Len(toServer[c]),
           toServer' = [toServer EXCEPT ![c] = Remaining(c, n)]
    PROVE  /\ toServer' \in [Conn -> Seq(Piece)]
           /\ Len(toServer'[c]) = Len(toServer[c]) - n
           /\ \A i \in 1 .. Len(toServer'[c]) : toServer'[c][i] = toServer[c][n + i]
<1>1. toServer[c] \in Seq(Piece) /\ Len(toServer[c]) \in Nat
      /\ \A i \in 1 .. Len(toServer[c]) : toServer[c][i] \in Piece
    BY DEF TypeOK
<1>2. /\ Remaining(c, n) \in Seq(Piece)
      /\ Len(Remaining(c, n)) = Len(toServer[c]) - n
      /\ \A i \in 1 .. Len(toServer[c]) - n : Remaining(c, n)[i] = toServer[c][n + i]
    BY SMTT(30), <1>1, SubSeqProperties DEF Remaining
<1> QED BY <1>2 DEF TypeOK

LEMMA ReadRequestIInv ==
    ASSUME IInv, NEW i \in Slot, NEW c \in Conn, ReadRequest(i, c) PROVE IInv'
<1>t. TypeOK /\ SlotsMatchSockets /\ Waiting /\ Sessions /\ Current
    BY DEF IInv
<1>1. PICK n \in 1 .. Len(toServer[c]) :
         /\ toServer' = [toServer EXCEPT ![c] = Remaining(c, n)]
         /\ Complete(c, n)
         /\ SendTo(c, Answer(toServer[c][1].id))
    BY DEF ReadRequest
<1>2. toServer' \in [Conn -> Seq(Piece)]
    BY <1>t, <1>1, RemainingTypes
<1>3. Answer(toServer[c][1].id) \in Greeting \cup Reply
  <2>1. toServer[c][1] \in Piece
      BY <1>t, <1>1 DEF TypeOK
  <2> QED BY <1>1, <2>1 DEF Complete, Answer, Piece, Reply
<1>4. /\ peer' \in [Conn -> {"none", "open", "closed", "reset"}]
      /\ toClient' \in [Conn -> Seq(Greeting \cup Reply)]
      /\ pc' \in {"loop", "killed"}
      /\ \A d \in Conn : peer'[d] = "none" <=> peer[d] = "none"
    BY <1>t, <1>1, <1>3, SendToTypes
<1>5. TypeOK'
    BY <1>t, <1>2, <1>4 DEF TypeOK, ReadRequest, Served, slotVars
<1>u. /\ backlog' = backlog /\ session' = session
      /\ outcome' = outcome /\ open' = open
    BY DEF ReadRequest, slotVars
<1>6. Waiting' /\ Sessions'
  <2>0. \A j \in 1 .. Len(backlog) : peer'[backlog[j]] # "none"
      BY <1>4, <1>t, BacklogOf DEF Waiting
  <2>1. Waiting'
      BY <1>t, <1>u, <2>0 DEF Waiting
  <2>2. Sessions'
      BY <1>t, <1>4, <1>u DEF Sessions
  <2> QED BY <2>1, <2>2
<1>7. SlotsMatchSockets' /\ Current'
    BY <1>t, <1>4 DEF SlotsMatchSockets, Current, ReadRequest, slotVars
<1> QED BY <1>5, <1>6, <1>7 DEF IInv

LEMMA ReadBadRequestIInv ==
    ASSUME IInv, NEW i \in Slot, NEW c \in Conn, ReadBadRequest(i, c) PROVE IInv'
<1>t. TypeOK /\ SlotsMatchSockets /\ Waiting /\ Sessions /\ Current
    BY DEF IInv
<1>1. toServer' \in [Conn -> Seq(Piece)]
    BY <1>t, RemainingTypes DEF ReadBadRequest
<1>2. TypeOK'
    BY <1>t, <1>1 DEF TypeOK, ReadBadRequest, Served, slotVars, peerVars
<1>3. (Waiting /\ Sessions /\ SlotsMatchSockets /\ Current)'
    BY <1>t DEF Waiting, Sessions, SlotsMatchSockets, Current, ReadBadRequest,
                slotVars, peerVars
<1> QED BY <1>2, <1>3 DEF IInv

\* The slot and the socket go together, and nobody waits under that name.
LEMMA DisconnectIInv ==
    ASSUME IInv, NEW i \in Slot, NEW c \in Conn, Disconnect(i, c) PROVE IInv'
<1>t. TypeOK /\ SlotsMatchSockets /\ Waiting /\ Sessions /\ Current
    BY DEF IInv
<1>1. /\ c = connections[i]
      /\ connections' = [connections EXCEPT ![i] = NULL]
      /\ open' = open \ {c}
      /\ Forget(c)
      /\ pc' = "loop" /\ mainReady' = FALSE /\ ready' = {}
      /\ UNCHANGED <<runningFlag, watched, session, addrlenSet, backlog>>
    BY DEF Disconnect, Handle, Served, Released
<1>2. c # NULL /\ c \in open
    BY <1>t, <1>1, ServerAssumption DEF SlotsMatchSockets
<1>3. /\ outcome' \in [Conn -> 0 .. MaxSession \cup {NULL}]
      /\ peer' \in [Conn -> {"none", "open", "closed", "reset"}]
      /\ greeted' \in [Conn -> 0 .. MaxSession \cup {NULL}]
      /\ sent' \in [Conn -> 0 .. MaxRequests]
      /\ received' \in [Conn -> Seq(1 .. MaxRequests)]
      /\ toServer' \in [Conn -> Seq(Piece)]
      /\ toClient' \in [Conn -> Seq(Greeting \cup Reply)]
    BY <1>t, <1>1, ForgetTypes
<1>4. TypeOK'
    BY <1>t, <1>1, <1>3 DEF TypeOK
<1>5. SlotsMatchSockets'
  <2>1. connections'[i] = NULL /\ \A j \in Slot \ {i} : connections'[j] = connections[j]
      BY <1>t, <1>1 DEF TypeOK
  <2>2. \A j \in Slot \ {i} : connections[j] # c
      BY <1>t, <1>1, <1>2 DEF SlotsMatchSockets
  <2>3. open' = {connections'[j] : j \in Slot} \ {NULL}
      BY <1>t, <1>1, <2>1, <2>2 DEF SlotsMatchSockets
  <2>4. \A j, k \in Slot :
           connections'[j] = connections'[k] /\ j # k => connections'[j] = NULL
      BY <1>t, <2>1 DEF SlotsMatchSockets
  <2> QED BY <2>3, <2>4 DEF SlotsMatchSockets
<1>6. /\ peer'[c] = "none" /\ outcome'[c] = NULL
      /\ \A d \in Conn : d # c => peer'[d] = peer[d] /\ outcome'[d] = outcome[d]
    BY <1>t, <1>1 DEF TypeOK, Forget
<1>7. \A j \in 1 .. Len(backlog) : backlog[j] # c
    BY <1>t, <1>2 DEF Waiting, Sessions
<1>8. Waiting'
    BY <1>t, <1>1, <1>6, <1>7, BacklogOf DEF Waiting
<1>9. Sessions'
    BY <1>t, <1>1, <1>6 DEF Sessions
<1>10. Current'
    BY <1>1 DEF Current
<1> QED BY <1>4, <1>5, <1>8, <1>9, <1>10 DEF IInv

LEMMA NextIInv == IInv /\ [Next]_vars => IInv'
<1> SUFFICES ASSUME IInv, [Next]_vars PROVE IInv'  OBVIOUS
<1>1. CASE ServerStep
    BY <1>1, TurnIInv, SelectIInv, AcceptErrorIInv, AcceptIInv, RejectIInv,
       ReadRequestIInv, ReadBadRequestIInv, DisconnectIInv DEF ServerStep
<1>2. CASE ClientStep
    BY <1>2, ConnectIInv, ReceiveIInv, SendIInv, SendMalformedIInv, CloseIInv DEF ClientStep
<1>3. CASE UNCHANGED vars
    BY <1>3 DEF IInv, TypeOK, SlotsMatchSockets, Waiting, Sessions, Current,
                vars, loopVars, slotVars, peerVars, streams
<1> QED BY <1>1, <1>2, <1>3, SignalIInv DEF Next, Ended

LEMMA Invariance == Spec => []IInv
    BY InitIInv, NextIInv, PTL DEF Spec

\* Every variable of the loop, the slots, the clients and the streams keeps
\* its type.
THEOREM ServerTypes == Spec => []TypeOK
    BY Invariance, PTL DEF IInv

\* No socket is left open without a slot, no slot keeps a closed one, and none
\* is in two slots, for any number of slots and of clients.
THEOREM SlotsHoldOpenSockets == Spec => []SlotsMatchSockets
    BY Invariance, PTL DEF IInv

\* Select is given open sockets only, and what it says is served by a slot,
\* whatever the clients do in between.
THEOREM ReadinessStays == Spec => []ReadinessIsCurrent
<1>1. IInv => ReadinessIsCurrent
  <2> SUFFICES ASSUME IInv, pc = "dispatch", ~mainReady PROVE ReadySlots # {}
      BY DEF IInv, Current, ReadinessIsCurrent
  <2>1. PICK c \in ready : c \in open
      BY DEF IInv, Current
  <2>2. PICK i \in Slot : connections[i] = c
      BY <2>1 DEF IInv, SlotsMatchSockets
  <2> QED BY <2>1, <2>2 DEF ReadySlots
<1> QED BY <1>1, Invariance, PTL

(* Admission *)

\* As many sessions as slots in use.
LEMMA SlotsCounted ==
    ASSUME IInv
    PROVE  /\ Cardinality(Places!Admitted) <= MAX_CLIENT_NUMBER
           /\ Cardinality(Places!Admitted) = MAX_CLIENT_NUMBER <=> Free = {}
           /\ Cardinality(Places!Admitted) \in Nat
<1> DEFINE Used == {i \in Slot : connections[i] # NULL}
           f == [i \in Used |-> connections[i]]
<1>1. Places!Admitted = open
    BY DEF IInv, Sessions, TypeOK, Places!Admitted
<1>2. f \in Bijection(Used, open)
  <2>1. f \in [Used -> open]
      BY DEF IInv, SlotsMatchSockets
  <2>2. \A i, j \in Used : f[i] = f[j] => i = j
      BY DEF IInv, SlotsMatchSockets
  <2>3. \A c \in open : \E i \in Used : f[i] = c
      BY DEF IInv, SlotsMatchSockets
  <2> QED BY <2>1, <2>2, <2>3 DEF Bijection, Injection, Surjection, IsInjective
<1>3. IsFiniteSet(Slot) /\ Cardinality(Slot) = MAX_CLIENT_NUMBER
    BY FS_Interval, ServerAssumption DEF Slot
<1>4. /\ IsFiniteSet(Used) /\ Cardinality(Used) <= MAX_CLIENT_NUMBER
      /\ Cardinality(Used) = MAX_CLIENT_NUMBER => Used = Slot
    BY <1>3, FS_Subset
<1>5. Cardinality(open) = Cardinality(Used) /\ Cardinality(Used) \in Nat
    BY <1>2, <1>4, FS_Bijection, FS_CardinalityType DEF ExistsBijection
<1>6. Used = Slot <=> Free = {}
    BY DEF Free
<1> QED BY <1>1, <1>3, <1>4, <1>5, <1>6

\* The instance has a copy of the operator.
LEMMA SameCardinality == \A S : Places!Cardinality(S) = Cardinality(S)
    BY DEF Places!Cardinality, Cardinality, Places!IsFiniteSet, IsFiniteSet

\* A step of the server or of a client admits, refuses, ends one session, or
\* leaves all of them alone.
LEMMA StepAdmits ==
    ASSUME IInv, [Next]_vars
    PROVE  [Places!Next]_<<outcome, session>>
<1>t. TypeOK /\ SlotsMatchSockets /\ Waiting /\ Sessions /\ Current
    BY DEF IInv
<1>1. CASE AcceptConnection
  <2> DEFINE c == Head(backlog)
  <2>1. backlog # <<>> /\ Free # {}
      BY <1>t, <1>1 DEF Current, AcceptConnection, Accepting
  <2>2. c \in Conn /\ outcome[c] = NULL
      BY <1>t, <2>1, HeadWaits
  <2>3. Cardinality(Places!Admitted) < MAX_CLIENT_NUMBER
      BY <2>1, SlotsCounted, ServerAssumption
  <2>4. session' = session + 1 /\ outcome' = [outcome EXCEPT ![c] = session']
      BY <1>1 DEF AcceptConnection
  <2>5. Places!Admit(c)
      BY <2>2, <2>3, <2>4, SameCardinality DEF Places!Admit
  <2> QED BY <2>2, <2>5 DEF Places!Next
<1>2. CASE RejectConnection
  <2> DEFINE c == Head(backlog)
  <2>1. backlog # <<>> /\ Free = {} /\ session' = session
      BY <1>t, <1>2 DEF Current, RejectConnection, Accepting
  <2>2. c \in Conn /\ outcome[c] = NULL
      BY <1>t, <2>1, HeadWaits
  <2>3. Cardinality(Places!Admitted) = MAX_CLIENT_NUMBER
      BY <2>1, SlotsCounted
  <2>4. \/ outcome' = [outcome EXCEPT ![c] = 0]
        \/ outcome' = [outcome EXCEPT ![c] = NULL]
      BY <1>2 DEF RejectConnection, Forget
  <2>5. outcome' = [outcome EXCEPT ![c] = NULL] => outcome' = outcome
      BY <1>t, <2>2 DEF TypeOK
  <2>6. CASE outcome' = [outcome EXCEPT ![c] = 0]
    <3>1. Places!Refuse(c)
        BY <2>1, <2>2, <2>3, <2>6, SameCardinality DEF Places!Refuse
    <3> QED BY <2>2, <3>1 DEF Places!Next
  <2> QED BY <2>1, <2>4, <2>5, <2>6
<1>3. ASSUME NEW i \in Slot, NEW c \in Conn, Disconnect(i, c)
      PROVE  [Places!Next]_<<outcome, session>>
  <2>1. c \in open
      BY <1>t, <1>3, ServerAssumption DEF Disconnect, Handle, SlotsMatchSockets
  <2>2. outcome[c] # NULL /\ session' = session /\ outcome' = [outcome EXCEPT ![c] = NULL]
      BY <1>t, <1>3, <2>1 DEF Sessions, Disconnect, Forget
  <2> QED BY <2>2 DEF Places!Next, Places!Leave
<1>4. ASSUME NEW c \in Conn, Close(c)
      PROVE  [Places!Next]_<<outcome, session>>
  <2>1. CASE outcome[c] = 0
    <3>1. outcome[c] # NULL /\ session' = session /\ outcome' = [outcome EXCEPT ![c] = NULL]
        BY <1>4, <2>1, ServerAssumption DEF Close, Forget
    <3> QED BY <3>1 DEF Places!Next, Places!Leave
  <2>2. CASE outcome[c] # 0
      BY <1>4, <2>2 DEF Close
  <2> QED BY <2>1, <2>2
<1>5. CASE UNCHANGED <<outcome, session>>
    BY <1>5
<1>6. ASSUME NEW c \in Conn, Connect(c) \/ Receive(c) \/ Send(c) \/ SendMalformed(c)
      PROVE  UNCHANGED <<outcome, session>>
    BY <1>6 DEF Connect, Receive, Send, SendMalformed, slotVars
<1>7. Signal \/ Turn \/ Select \/ AcceptError \/ UNCHANGED vars => UNCHANGED <<outcome, session>>
    BY DEF Signal, Turn, Select, AcceptError, slotVars, vars
<1>8. ASSUME NEW i \in Slot, NEW c \in Conn, ReadRequest(i, c) \/ ReadBadRequest(i, c)
      PROVE  UNCHANGED <<outcome, session>>
    BY <1>8 DEF ReadRequest, ReadBadRequest, slotVars
<1>9. CASE ServerStep
    BY <1>1, <1>2, <1>3, <1>5, <1>7, <1>8, <1>9 DEF ServerStep
<1>10. CASE ClientStep
    BY <1>4, <1>5, <1>6, <1>10 DEF ClientStep
<1> QED BY <1>5, <1>7, <1>9, <1>10 DEF Next, Ended

\* The server implements Admission: a session number is new and given out
\* only while fewer sessions than slots exist, the number 0 only when all
\* slots are taken, and a place is free again when its session is over.
THEOREM AdmissionImplemented == Spec => ImplementsAdmission
<1>1. Init => Places!Init
    BY DEF Init, Places!Init
<1>2. IInv /\ [Next]_vars => [Places!Next]_<<outcome, session>>
    BY StepAdmits
<1> QED BY <1>1, <1>2, Invariance, PTL DEF Spec, ImplementsAdmission, Places!Spec

(* The order of the replies *)

\* The replies r that arrived, the messages t on the way to the client and
\* the pieces q on the way to the server, in one connection, n requests after
\* it began: their numbers ascend, from what arrived to what was sent last.
Ascending(r, t, q, n) ==
    LET reply(i) == t[i].kind = "reply"
        first(i) == q[i].part = 1
    IN  /\ \A i, j \in 1 .. Len(r) : i < j => r[i] < r[j]
        /\ \A i, j \in 1 .. Len(t) : reply(i) /\ reply(j) /\ i < j => t[i].n < t[j].n
        /\ \A i, j \in 1 .. Len(q) : first(i) /\ first(j) /\ i < j => q[i].id < q[j].id
        /\ \A i \in 1 .. Len(r), j \in 1 .. Len(t) : reply(j) => r[i] < t[j].n
        /\ \A i \in 1 .. Len(r), j \in 1 .. Len(q) : first(j) => r[i] < q[j].id
        /\ \A i \in 1 .. Len(t), j \in 1 .. Len(q) : reply(i) /\ first(j) => t[i].n < q[j].id
        /\ \A i \in 1 .. Len(r) : r[i] <= n
        /\ \A i \in 1 .. Len(t) : reply(i) => t[i].n <= n
        /\ \A i \in 1 .. Len(q) : first(i) => q[i].id <= n

AllAscending ==
    \A c \in Conn : Ascending(received[c], toClient[c], toServer[c], sent[c])

\* Nothing on the way, and nothing has arrived.
LEMMA EmptyAscending ==
    ASSUME NEW n \in Nat PROVE Ascending(<<>>, <<>>, <<>>, n)
    BY DEF Ascending

\* The client takes the first message.
LEMMA TakeAscending ==
    ASSUME NEW r \in Seq(1 .. MaxRequests), NEW t \in Seq(Greeting \cup Reply),
           NEW q \in Seq(Piece), NEW n \in Nat, t # <<>>, Ascending(r, t, q, n)
    PROVE  /\ Head(t).kind # "session" => Ascending(Append(r, Head(t).n), Tail(t), q, n)
           /\ Ascending(r, Tail(t), q, n)
<1>1. /\ Len(t) \in Nat \ {0} /\ Head(t) = t[1] /\ Head(t) \in Greeting \cup Reply
      /\ Tail(t) \in Seq(Greeting \cup Reply) /\ Len(Tail(t)) = Len(t) - 1
      /\ \A i \in 1 .. Len(Tail(t)) : Tail(t)[i] = t[i + 1] /\ i + 1 \in 1 .. Len(t)
    BY HeadTailProperties
<1>2. Ascending(r, Tail(t), q, n)
    BY <1>1 DEF Ascending
<1>3. ASSUME Head(t).kind # "session"
      PROVE  Ascending(Append(r, Head(t).n), Tail(t), q, n)
  <2>1. t[1].kind = "reply" /\ Head(t).n \in 1 .. MaxRequests
      BY <1>1, <1>3 DEF Greeting, Reply
  <2> DEFINE a == Append(r, Head(t).n)
  <2>2. /\ Len(r) \in Nat /\ Len(a) = Len(r) + 1 /\ a[Len(r) + 1] = t[1].n
        /\ \A i \in 1 .. Len(r) : a[i] = r[i]
      BY <1>1, <2>1, AppendProperties
  <2> HIDE DEF a
  <2>3. \A i \in 1 .. Len(a) : i \in 1 .. Len(r) \/ i = Len(r) + 1
      BY <2>2
  <2> QED BY <1>1, <1>2, <2>1, <2>2, <2>3 DEF Ascending, a
<1> QED BY <1>2, <1>3

\* A message from the server: a greeting, or the answer to the first piece.
LEMMA GreetAscending ==
    ASSUME NEW r \in Seq(1 .. MaxRequests), NEW t \in Seq(Greeting \cup Reply),
           NEW q \in Seq(Piece), NEW n \in Nat, NEW m \in Greeting, Ascending(r, t, q, n)
    PROVE  Ascending(r, Append(t, m), q, n)
<1>1. /\ Len(t) \in Nat /\ Len(Append(t, m)) = Len(t) + 1
      /\ Append(t, m)[Len(t) + 1] = m /\ m.kind # "reply"
      /\ \A i \in 1 .. Len(t) : Append(t, m)[i] = t[i]
    BY AppendProperties DEF Greeting
<1>2. \A i \in 1 .. Len(Append(t, m)) : i \in 1 .. Len(t) \/ i = Len(t) + 1
    BY <1>1
<1> QED BY <1>1, <1>2 DEF Ascending

LEMMA ReadAscending ==
    ASSUME NEW r \in Seq(1 .. MaxRequests), NEW t \in Seq(Greeting \cup Reply),
           NEW q \in Seq(Piece), NEW n \in Nat, Ascending(r, t, q, n),
           NEW p \in Seq(Piece), NEW k \in 1 .. Len(q), Len(p) = Len(q) - k,
           \A i \in 1 .. Len(p) : p[i] = q[k + i]
    PROVE  Ascending(r, t, p, n)
<1>1. Len(q) \in Nat /\ \A i \in 1 .. Len(p) : k + i \in 1 .. Len(q)
    OBVIOUS
<1>2. \A i, j \in 1 .. Len(p) : p[i].part = 1 /\ p[j].part = 1 /\ i < j => p[i].id < p[j].id
  <2> SUFFICES ASSUME NEW i \in 1 .. Len(p), NEW j \in 1 .. Len(p),
                      p[i].part = 1, p[j].part = 1, i < j
               PROVE  p[i].id < p[j].id
      OBVIOUS
  <2>1. p[i] = q[k + i] /\ p[j] = q[k + j] /\ k + i < k + j
      BY <1>1
  <2> QED BY <1>1, <2>1 DEF Ascending
<1>3. \A j \in 1 .. Len(p) : p[j].part = 1 =>
         /\ \A i \in 1 .. Len(r) : r[i] < p[j].id
         /\ \A i \in 1 .. Len(t) : t[i].kind = "reply" => t[i].n < p[j].id
         /\ p[j].id <= n
  <2> SUFFICES ASSUME NEW j \in 1 .. Len(p), p[j].part = 1
               PROVE  /\ \A i \in 1 .. Len(r) : r[i] < p[j].id
                      /\ \A i \in 1 .. Len(t) : t[i].kind = "reply" => t[i].n < p[j].id
                      /\ p[j].id <= n
      OBVIOUS
  <2>1. p[j] = q[k + j] /\ k + j \in 1 .. Len(q)
      BY <1>1
  <2> QED BY <2>1 DEF Ascending
<1> QED BY <1>2, <1>3 DEF Ascending

LEMMA AnswerAscending ==
    ASSUME NEW r \in Seq(1 .. MaxRequests), NEW t \in Seq(Greeting \cup Reply),
           NEW q \in Seq(Piece), NEW n \in Nat, Ascending(r, t, q, n),
           NEW p \in Seq(Piece), NEW k \in 1 .. Len(q), Len(p) = Len(q) - k,
           \A i \in 1 .. Len(p) : p[i] = q[k + i],
           q[1].part = 1, Answer(q[1].id) \in Reply
    PROVE  Ascending(r, Append(t, Answer(q[1].id)), p, n)
<1> DEFINE a == Append(t, Answer(q[1].id))
<1>1. /\ Len(q) \in Nat /\ 1 \in 1 .. Len(q)
      /\ \A i \in 1 .. Len(p) : k + i \in 1 .. Len(q) /\ 1 < k + i
    OBVIOUS
<1>2. /\ Len(t) \in Nat /\ Len(a) = Len(t) + 1
      /\ a[Len(t) + 1] = Answer(q[1].id)
      /\ \A i \in 1 .. Len(t) : a[i] = t[i]
    BY AppendProperties
<1>3. Answer(q[1].id).n = q[1].id
    BY DEF Answer
<1>4. Ascending(r, t, p, n)
    BY ReadAscending
<1> HIDE DEF a
<1>5. \A i \in 1 .. Len(a) : i \in 1 .. Len(t) \/ i = Len(t) + 1
    BY <1>2
<1>6. \A i \in 1 .. Len(a) : a[i].kind = "reply" =>
         \/ i \in 1 .. Len(t) /\ a[i] = t[i]
         \/ i = Len(t) + 1 /\ a[i].n = q[1].id
    BY <1>2, <1>3, <1>5
<1>7. /\ \A i \in 1 .. Len(r) : r[i] < q[1].id
      /\ \A i \in 1 .. Len(t) : t[i].kind = "reply" => t[i].n < q[1].id
      /\ q[1].id <= n
      /\ \A j \in 1 .. Len(p) : p[j].part = 1 => q[1].id < p[j].id
    BY <1>1 DEF Ascending
<1>8. \A i, j \in 1 .. Len(a) :
         a[i].kind = "reply" /\ a[j].kind = "reply" /\ i < j => a[i].n < a[j].n
  <2> SUFFICES ASSUME NEW i \in 1 .. Len(a), NEW j \in 1 .. Len(a),
                      a[i].kind = "reply", a[j].kind = "reply", i < j
               PROVE  a[i].n < a[j].n
      OBVIOUS
  <2>1. i \in 1 .. Len(t) /\ a[i] = t[i]
      BY <1>2, <1>6
  <2> QED BY <1>4, <1>6, <1>7, <2>1 DEF Ascending
<1>9. /\ \A i \in 1 .. Len(r), j \in 1 .. Len(a) : a[j].kind = "reply" => r[i] < a[j].n
      /\ \A i \in 1 .. Len(a), j \in 1 .. Len(p) :
           a[i].kind = "reply" /\ p[j].part = 1 => a[i].n < p[j].id
      /\ \A i \in 1 .. Len(a) : a[i].kind = "reply" => a[i].n <= n
    BY <1>4, <1>6, <1>7 DEF Ascending
<1> QED BY <1>4, <1>8, <1>9 DEF Ascending, a

\* A request from the client, or what is none.
LEMMA AskAscending ==
    ASSUME NEW r \in Seq(1 .. MaxRequests), NEW t \in Seq(Greeting \cup Reply),
           NEW q \in Seq(Piece), NEW n \in Nat, Ascending(r, t, q, n),
           n < MaxRequests
    PROVE  Ascending(r, t, q \o Request(n + 1), n + 1)
<1> DEFINE b == Request(n + 1)
           a == q \o b
<1>1. /\ b \in Seq(Piece) /\ Len(b) = 2
      /\ b[1].id = n + 1 /\ b[1].part = 1 /\ b[2].part = 2
    BY ServerAssumption DEF Request, Piece
<1> HIDE DEF b
<1>2. /\ Len(q) \in Nat /\ Len(a) = Len(q) + 2
      /\ \A i \in 1 .. Len(q) : a[i] = q[i]
      /\ a[Len(q) + 1].id = n + 1 /\ a[Len(q) + 1].part = 1
      /\ a[Len(q) + 2].part = 2
  <2>1. /\ Len(a) = Len(q) + Len(b)
        /\ \A i \in 1 .. Len(q) + Len(b) :
             a[i] = IF i <= Len(q) THEN q[i] ELSE b[i - Len(q)]
      BY <1>1, ConcatProperties
  <2> HIDE DEF a
  <2>2. Len(q) \in Nat /\ Len(q) + 1 - Len(q) = 1 /\ Len(q) + 2 - Len(q) = 2
      OBVIOUS
  <2>3. Len(a) = Len(q) + 2 /\ \A i \in 1 .. Len(q) : a[i] = q[i]
      BY <1>1, <2>1, <2>2
  <2>4. a[Len(q) + 1] = b[1]
    <3>1. Len(q) + 1 \in 1 .. Len(q) + Len(b) /\ ~(Len(q) + 1 <= Len(q))
        BY <1>1, <2>2
    <3>2. a[Len(q) + 1] = b[Len(q) + 1 - Len(q)]
        BY <2>1, <3>1
    <3> QED BY <2>2, <3>2
  <2>5. a[Len(q) + 2] = b[2]
      BY SMTT(30), <1>1, <2>1, <2>2
  <2> QED BY <1>1, <2>2, <2>3, <2>4, <2>5
<1> HIDE DEF a
<1>3. \A i \in 1 .. Len(a) : i \in 1 .. Len(q) \/ i = Len(q) + 1 \/ i = Len(q) + 2
    BY <1>2
<1>4. \A i \in 1 .. Len(a) : a[i].part = 1 =>
         \/ i \in 1 .. Len(q) /\ a[i] = q[i]
         \/ i = Len(q) + 1 /\ a[i].id = n + 1
    BY <1>2, <1>3
<1>5. \A i \in 1 .. Len(r) : r[i] \in Nat
    BY ServerAssumption
<1>6. \A i \in 1 .. Len(t) : t[i].kind = "reply" => t[i].n \in Nat
    BY ServerAssumption DEF Greeting, Reply
<1>7. \A i \in 1 .. Len(q) : q[i].part = 1 => q[i].id \in Nat
    BY ServerAssumption DEF Piece
<1>8. \A i, j \in 1 .. Len(a) :
         a[i].part = 1 /\ a[j].part = 1 /\ i < j => a[i].id < a[j].id
  <2> SUFFICES ASSUME NEW i \in 1 .. Len(a), NEW j \in 1 .. Len(a),
                      a[i].part = 1, a[j].part = 1, i < j
               PROVE  a[i].id < a[j].id
      OBVIOUS
  <2>1. i \in 1 .. Len(q) /\ a[i] = q[i] /\ q[i].id <= n /\ q[i].id \in Nat
      BY <1>2, <1>4, <1>7 DEF Ascending
  <2> QED BY <1>4, <2>1 DEF Ascending
<1>9. /\ \A i \in 1 .. Len(r) : r[i] <= n /\ r[i] < n + 1
      /\ \A i \in 1 .. Len(t) : t[i].kind = "reply" => t[i].n <= n /\ t[i].n < n + 1
      /\ \A i \in 1 .. Len(q) : q[i].part = 1 => q[i].id <= n /\ q[i].id < n + 1
    BY <1>5, <1>6, <1>7 DEF Ascending
<1>10. \A j \in 1 .. Len(a) : a[j].part = 1 =>
          /\ \A i \in 1 .. Len(r) : r[i] < a[j].id
          /\ \A i \in 1 .. Len(t) : t[i].kind = "reply" => t[i].n < a[j].id
          /\ a[j].id <= n + 1
  <2> SUFFICES ASSUME NEW j \in 1 .. Len(a), a[j].part = 1
               PROVE  /\ \A i \in 1 .. Len(r) : r[i] < a[j].id
                      /\ \A i \in 1 .. Len(t) : t[i].kind = "reply" => t[i].n < a[j].id
                      /\ a[j].id <= n + 1
      OBVIOUS
  <2>1. CASE j \in 1 .. Len(q) /\ a[j] = q[j]
    <3>1. a[j].id < n + 1
        BY <1>9, <2>1
    <3>2. /\ \A i \in 1 .. Len(r) : r[i] < q[j].id
          /\ \A i \in 1 .. Len(t) : t[i].kind = "reply" => t[i].n < q[j].id
        BY <2>1 DEF Ascending
    <3> QED BY <1>7, <2>1, <3>1, <3>2
  <2>2. CASE a[j].id = n + 1
      BY <1>9, <2>2
  <2> QED BY <1>4, <2>1, <2>2
<1>11. Ascending(r, t, a, n + 1)
    BY <1>5, <1>6, <1>8, <1>9, <1>10 DEF Ascending
<1> QED BY <1>11 DEF a, b

LEMMA MalformedAscending ==
    ASSUME NEW r \in Seq(1 .. MaxRequests), NEW t \in Seq(Greeting \cup Reply),
           NEW q \in Seq(Piece), NEW n \in Nat, Ascending(r, t, q, n)
    PROVE  Ascending(r, t, q \o Malformed, n)
<1> DEFINE a == q \o Malformed
<1>1. Malformed \in Seq(Piece) /\ Len(Malformed) = 1 /\ Malformed[1].part = 0
    BY DEF Malformed, Piece
<1>2. /\ Len(q) \in Nat /\ Len(a) = Len(q) + 1
      /\ \A i \in 1 .. Len(q) : a[i] = q[i]
      /\ a[Len(q) + 1].part = 0
  <2>1. /\ Len(q) \in Nat /\ Len(a) = Len(q) + 1
        /\ \A i \in 1 .. Len(q) + 1 :
             a[i] = IF i <= Len(q) THEN q[i] ELSE Malformed[i - Len(q)]
    <3>1. Len(a) = Len(q) + Len(Malformed)
        BY <1>1, ConcatProperties
    <3>2. \A i \in 1 .. Len(q) + Len(Malformed) :
             a[i] = IF i <= Len(q) THEN q[i] ELSE Malformed[i - Len(q)]
        BY <1>1, ConcatProperties
    <3> HIDE DEF a
    <3> QED BY <1>1, <3>1, <3>2
  <2> HIDE DEF a
  <2> QED BY <1>1, <2>1
<1> HIDE DEF a
<1>3. \A i \in 1 .. Len(a) : a[i].part = 1 => i \in 1 .. Len(q) /\ a[i] = q[i]
    BY <1>2
<1>4. \A i, j \in 1 .. Len(a) :
         a[i].part = 1 /\ a[j].part = 1 /\ i < j => a[i].id < a[j].id
    BY <1>3 DEF Ascending
<1>5. /\ \A i \in 1 .. Len(r), j \in 1 .. Len(a) : a[j].part = 1 => r[i] < a[j].id
      /\ \A i \in 1 .. Len(t), j \in 1 .. Len(a) :
           t[i].kind = "reply" /\ a[j].part = 1 => t[i].n < a[j].id
      /\ \A i \in 1 .. Len(a) : a[i].part = 1 => a[i].id <= n
    BY <1>3 DEF Ascending
<1>6. Ascending(r, t, a, n)
    BY <1>4, <1>5 DEF Ascending
<1> QED BY <1>6 DEF a

LEMMA InitAscending == Init => AllAscending
<1> SUFFICES ASSUME Init, NEW c \in Conn
             PROVE  Ascending(received[c], toClient[c], toServer[c], sent[c])
    BY DEF AllAscending
<1>1. received[c] = <<>> /\ toClient[c] = <<>> /\ toServer[c] = <<>> /\ sent[c] = 0
    BY DEF Init
<1> QED BY <1>1, EmptyAscending

\* One connection at a time changes.
LEMMA OnlyOneAscending ==
    ASSUME AllAscending, NEW c \in Conn,
           Ascending(received[c], toClient[c], toServer[c], sent[c])',
           \A d \in Conn \ {c} :
             /\ received'[d] = received[d] /\ toClient'[d] = toClient[d]
             /\ toServer'[d] = toServer[d] /\ sent'[d] = sent[d]
    PROVE  AllAscending'
<1> SUFFICES ASSUME NEW d \in Conn
             PROVE  Ascending(received[d], toClient[d], toServer[d], sent[d])'
    BY DEF AllAscending
<1>1. CASE d = c
    BY <1>1
<1>2. CASE d # c
  <2>1. Ascending(received[d], toClient[d], toServer[d], sent[d])
      BY DEF AllAscending
  <2> QED BY <1>2, <2>1
<1> QED BY <1>1, <1>2

LEMMA ForgetAscending ==
    ASSUME TypeOK, AllAscending, NEW c \in Conn, Forget(c) PROVE AllAscending'
<1>1. /\ received'[c] = <<>> /\ toClient'[c] = <<>> /\ toServer'[c] = <<>> /\ sent'[c] = 0
      /\ \A d \in Conn \ {c} :
           /\ received'[d] = received[d] /\ toClient'[d] = toClient[d]
           /\ toServer'[d] = toServer[d] /\ sent'[d] = sent[d]
    BY DEF TypeOK, Forget
<1>2. Ascending(received[c], toClient[c], toServer[c], sent[c])'
    BY <1>1, EmptyAscending
<1> QED BY <1>1, <1>2, OnlyOneAscending

\* What send leaves in the stream to the client.
LEMMA SendToStream ==
    ASSUME TypeOK, NEW c \in Conn, NEW m, SendTo(c, m)
    PROVE  /\ toClient'[c] \in {toClient[c], Append(toClient[c], m)}
           /\ \A d \in Conn \ {c} : toClient'[d] = toClient[d]
    BY DEF TypeOK, SendTo

LEMMA NextAscending == IInv /\ AllAscending /\ [Next]_vars => AllAscending'
<1> SUFFICES ASSUME IInv, AllAscending, [Next]_vars PROVE AllAscending'  OBVIOUS
<1>t. TypeOK /\ Current /\ Waiting
    BY DEF IInv
<1>a. \A c \in Conn : Ascending(received[c], toClient[c], toServer[c], sent[c])
    BY DEF AllAscending
<1>s. \A c \in Conn : /\ received[c] \in Seq(1 .. MaxRequests)
                      /\ toClient[c] \in Seq(Greeting \cup Reply)
                      /\ toServer[c] \in Seq(Piece)
                      /\ sent[c] \in Nat /\ sent[c] <= MaxRequests
    BY <1>t, ServerAssumption DEF TypeOK
<1>0. CASE UNCHANGED <<received, toClient, toServer, sent>>
    BY <1>0, <1>a DEF AllAscending
<1>1. ASSUME NEW c \in Conn, Receive(c)
      PROVE  AllAscending'
  <2>1. /\ toClient[c] # <<>> /\ toClient'[c] = Tail(toClient[c])
        /\ toServer' = toServer /\ sent' = sent
        /\ \A d \in Conn \ {c} : toClient'[d] = toClient[d] /\ received'[d] = received[d]
        /\ \/ received'[c] = received[c]
           \/ /\ Head(toClient[c]).kind # "session"
              /\ received'[c] = Append(received[c], Head(toClient[c]).n)
      BY <1>t, <1>1 DEF Receive, TypeOK
  <2>2. Ascending(received[c], toClient[c], toServer[c], sent[c])'
      BY <1>a, <1>s, <2>1, TakeAscending
  <2> QED BY <2>1, <2>2, OnlyOneAscending
<1>2. ASSUME NEW c \in Conn, Send(c)
      PROVE  AllAscending'
  <2>1. /\ sent[c] < MaxRequests /\ sent'[c] = sent[c] + 1
        /\ toServer'[c] = toServer[c] \o Request(sent[c] + 1)
        /\ received' = received /\ toClient' = toClient
        /\ \A d \in Conn \ {c} : toServer'[d] = toServer[d] /\ sent'[d] = sent[d]
      BY <1>t, <1>2 DEF Send, TypeOK
  <2>2. Ascending(received[c], toClient[c], toServer[c], sent[c])'
      BY <1>a, <1>s, <2>1, AskAscending
  <2> QED BY <2>1, <2>2, OnlyOneAscending
<1>3. ASSUME NEW c \in Conn, SendMalformed(c)
      PROVE  AllAscending'
  <2>1. /\ toServer'[c] = toServer[c] \o Malformed
        /\ received' = received /\ toClient' = toClient /\ sent' = sent
        /\ \A d \in Conn \ {c} : toServer'[d] = toServer[d]
      BY <1>t, <1>3 DEF SendMalformed, peerVars, TypeOK
  <2>2. Ascending(received[c], toClient[c], toServer[c], sent[c])'
      BY <1>a, <1>s, <2>1, MalformedAscending
  <2> QED BY <2>1, <2>2, OnlyOneAscending
<1>4. ASSUME NEW c \in Conn, Close(c)
      PROVE  AllAscending'
  <2>1. CASE Forget(c)
      BY <1>t, <2>1, ForgetAscending
  <2>2. CASE /\ toClient' = [toClient EXCEPT ![c] = <<>>]
             /\ UNCHANGED <<sent, received, toServer>>
    <3>1. toClient'[c] = <<>> /\ \A d \in Conn \ {c} : toClient'[d] = toClient[d]
        BY <1>t, <2>2 DEF TypeOK
    <3>2. Ascending(received[c], toClient[c], toServer[c], sent[c])'
        BY <1>a, <2>2, <3>1 DEF Ascending
    <3> QED BY <2>2, <3>1, <3>2, OnlyOneAscending
  <2> QED BY <1>4, <2>1, <2>2 DEF Close
<1>5. CASE AcceptConnection
  <2>1. PICK c \in Conn : c = Head(backlog) /\ session + 1 \in 1 .. MaxSession
      BY <1>t, <1>5, HeadWaits DEF AcceptConnection, Accepting, Current
  <2>2. SendTo(c, Greet(session + 1)) /\ UNCHANGED <<sent, received, toServer>>
      BY <1>5, <2>1 DEF AcceptConnection
  <2>3. Greet(session + 1) \in Greeting
      BY <2>1 DEF Greet, Greeting
  <2>4. Ascending(received[c], toClient[c], toServer[c], sent[c])'
    <3>1. Ascending(received[c], Append(toClient[c], Greet(session + 1)), toServer[c], sent[c])
        BY <1>a, <1>s, <2>3, GreetAscending
    <3>2. toClient'[c] \in {toClient[c], Append(toClient[c], Greet(session + 1))}
        BY <1>t, <2>2, SendToStream
    <3>3. Ascending(received[c], toClient[c], toServer[c], sent[c])
        BY <1>a
    <3> QED BY <2>2, <3>1, <3>2, <3>3
  <2> QED BY <1>t, <2>1, <2>2, <2>4, SendToStream, OnlyOneAscending
<1>6. CASE RejectConnection
  <2>1. PICK c \in Conn : c = Head(backlog)
      BY <1>t, <1>6, HeadWaits DEF RejectConnection, Accepting, Current
  <2>2. CASE Forget(c)
      BY <1>t, <2>1, <2>2, ForgetAscending
  <2>3. CASE /\ toClient' = [toClient EXCEPT ![c] = Append(@, Greet(0))]
             /\ UNCHANGED <<sent, received, toServer>>
    <3>1. Greet(0) \in Greeting
        BY ServerAssumption DEF Greet, Greeting
    <3>2. /\ toClient'[c] = Append(toClient[c], Greet(0))
          /\ \A d \in Conn \ {c} : toClient'[d] = toClient[d]
        BY <1>t, <2>1, <2>3 DEF TypeOK
    <3>3. Ascending(received[c], toClient[c], toServer[c], sent[c])'
      <4>1. Ascending(received[c], Append(toClient[c], Greet(0)), toServer[c], sent[c])
          BY <1>a, <1>s, <3>1, GreetAscending
      <4> QED BY <2>3, <3>2, <4>1
    <3> QED BY <2>1, <2>3, <3>2, <3>3, OnlyOneAscending
  <2> QED BY <1>6, <2>1, <2>2, <2>3 DEF RejectConnection
<1>7. ASSUME NEW i \in Slot, NEW c \in Conn, ReadRequest(i, c) \/ ReadBadRequest(i, c)
      PROVE  AllAscending'
  <2>1. PICK n \in 1 .. Len(toServer[c]) :
          /\ toServer' = [toServer EXCEPT ![c] = Remaining(c, n)]
          /\ \/ Complete(c, n) /\ SendTo(c, Answer(toServer[c][1].id))
             \/ UNCHANGED toClient
      BY <1>7 DEF ReadRequest, ReadBadRequest
  <2>2. received' = received /\ sent' = sent
      BY <1>7 DEF ReadRequest, ReadBadRequest, peerVars
  <2>3. /\ toServer'[c] \in Seq(Piece)
        /\ Len(toServer'[c]) = Len(toServer[c]) - n
        /\ \A k \in 1 .. Len(toServer'[c]) : toServer'[c][k] = toServer[c][n + k]
        /\ \A d \in Conn \ {c} : toServer'[d] = toServer[d]
      BY ZenonT(30), <1>t, <2>1, RemainingTypes DEF TypeOK
  <2>4. CASE toClient'[c] = toClient[c]
    <3>1. Ascending(received[c], toClient[c], toServer'[c], sent[c])
        BY <1>a, <1>s, <2>3, ReadAscending
    <3> QED BY <1>t, <2>1, <2>2, <2>3, <2>4, <3>1, SendToStream, OnlyOneAscending
  <2>5. CASE /\ Complete(c, n) /\ SendTo(c, Answer(toServer[c][1].id))
             /\ toClient'[c] = Append(toClient[c], Answer(toServer[c][1].id))
    <3>1. toServer[c][1] \in Piece /\ toServer[c][1].part = 1
        BY <1>s, <2>5 DEF Complete
    <3>2. Answer(toServer[c][1].id) \in Reply
        BY <3>1 DEF Answer, Piece, Reply
    <3>3. Ascending(received[c], toClient'[c], toServer'[c], sent[c])
        BY ZenonT(30), <1>a, <1>s, <2>3, <2>5, <3>1, <3>2, AnswerAscending
    <3> QED BY <1>t, <2>2, <2>3, <2>5, <3>3, SendToStream, OnlyOneAscending
  <2> QED BY <1>t, <2>1, <2>4, <2>5, SendToStream
<1>8. ASSUME NEW i \in Slot, NEW c \in Conn, Disconnect(i, c)
      PROVE  AllAscending'
    BY <1>t, <1>8, ForgetAscending DEF Disconnect
<1>9. CASE ServerStep
  <2>1. Turn \/ Select \/ AcceptError => UNCHANGED <<received, toClient, toServer, sent>>
      BY DEF Turn, Select, AcceptError, peerVars, streams
  <2> QED BY <1>0, <1>5, <1>6, <1>7, <1>8, <1>9, <2>1 DEF ServerStep
<1>10. CASE ClientStep
  <2>1. ASSUME NEW c \in Conn, Connect(c)
        PROVE  UNCHANGED <<received, toClient, toServer, sent>>
      BY <2>1 DEF Connect, streams
  <2> QED BY <1>0, <1>1, <1>2, <1>3, <1>4, <1>10, <2>1 DEF ClientStep
<1>11. Signal \/ UNCHANGED vars => UNCHANGED <<received, toClient, toServer, sent>>
    BY DEF Signal, vars, peerVars, streams
<1> QED BY <1>0, <1>9, <1>10, <1>11 DEF Next, Ended

\* However the streams are cut into reads, and whoever closes when: the
\* replies come in the order of the requests, none of them twice.
THEOREM RepliesKeepOrder == Spec => []RepliesInOrder
<1>1. IInv /\ AllAscending => RepliesInOrder
  <2> SUFFICES ASSUME IInv, AllAscending, NEW c \in Conn
               PROVE  LET pending == {i \in DOMAIN toClient[c] : toClient[c][i].kind = "reply"}
                      IN  /\ \A i, j \in DOMAIN received[c] : i < j => received[c][i] < received[c][j]
                          /\ \A i, j \in pending : i < j => toClient[c][i].n < toClient[c][j].n
                          /\ \A i \in DOMAIN received[c], j \in pending :
                               received[c][i] < toClient[c][j].n
                          /\ \A i \in DOMAIN received[c] : received[c][i] <= sent[c]
                          /\ \A i \in pending : toClient[c][i].n <= sent[c]
      BY DEF RepliesInOrder
  <2>1. /\ DOMAIN received[c] = 1 .. Len(received[c])
        /\ DOMAIN toClient[c] = 1 .. Len(toClient[c])
      BY DEF IInv, TypeOK
  <2>2. Ascending(received[c], toClient[c], toServer[c], sent[c])
      BY DEF AllAscending
  <2> QED BY <2>1, <2>2 DEF Ascending
<1> QED BY <1>1, InitIInv, NextIInv, InitAscending, NextAscending, PTL DEF Spec
=============================================================================
