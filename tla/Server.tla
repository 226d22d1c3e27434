------------------------------- MODULE Server -------------------------------
(***************************************************************************)
(* The loop of the hashr daemon and its connections (server/src/Server.c,  *)
(* Connection.c, the signal handler in main.c), against clients that       *)
(* connect, send, receive and close at any moment, and the TCP streams in  *)
(* between.                                                                *)
(*                                                                         *)
(* One thread: select over the listening socket and the client sockets,    *)
(* then one accept, or one read with the processing of what it returned.   *)
(* What select saw is old when the loop acts on it, so the two are steps   *)
(* of their own.                                                           *)
(*                                                                         *)
(* A connection c is a TCP connection from connect to close; its name can  *)
(* be used again when both ends are closed.  A stream to the server is a   *)
(* sequence of pieces: a request is a first and a second piece, and read   *)
(* returns any part of the stream from its start on, as TCP may deliver    *)
(* half a request, or more than one.                                       *)
(***************************************************************************)
EXTENDS Integers, Sequences, FiniteSets, SequencesExt

CONSTANTS
    Conn,               \* connections
    MAX_CLIENT_NUMBER,
    MaxSession,         \* bound: sessions
    MaxRequests,        \* bound: well-formed requests in one session
    WellBehaved,        \* TRUE: no client sends a malformed request
    NULL

ASSUME ServerAssumption ==
    /\ WellBehaved \in BOOLEAN
    /\ MAX_CLIENT_NUMBER \in Nat \ {0}
    /\ MaxSession \in Nat /\ MaxRequests \in Nat
    /\ NULL \notin Conn \cup Nat

VARIABLES
    \* struct Server
    connections,        \* the slots
    session,            \* the last session number
    runningFlag,
    addrlenSet,         \* FALSE: addrlen has not been written to yet
    \* the loop
    pc,
    watched,            \* the client sockets buildFds put into the set
    mainReady, ready,   \* what select left in the set
    \* the server's ends of the connections
    backlog,            \* completed by TCP, not accepted
    open,               \* accepted, and the socket is not closed
    outcome,            \* session number; 0: rejected; NULL: neither
    \* the clients and the streams
    peer,               \* the client's end: none, open, closed, reset
    greeted,            \* the session number the client received, or NULL
    sent,               \* well-formed requests sent in this session
    received,           \* the replies that arrived, in order
    toServer, toClient

loopVars == <<pc, watched, mainReady, ready>>
slotVars == <<connections, session, addrlenSet, backlog, open, outcome>>
peerVars == <<peer, greeted, sent, received>>
streams  == <<toServer, toClient>>
vars     == <<runningFlag, loopVars, slotVars, peerVars, streams>>

Slot == 1 .. MAX_CLIENT_NUMBER

\* Faulty: the search for a free slot leaves out the last one.
FreeButLast == {i \in Slot \ {MAX_CLIENT_NUMBER} : connections[i] = NULL}

Free == {i \in Slot : connections[i] = NULL}

First(S) == CHOOSE i \in S : \A j \in S : i <= j

Piece    == [id : 1 .. MaxRequests, part : {1, 2}] \cup {[id |-> 0, part |-> 0]}
Greeting == [kind : {"session"}, n : 0 .. MaxSession]
Reply    == [kind : {"reply"}, n : 1 .. MaxRequests]

Greet(n)  == [kind |-> "session", n |-> n]
Answer(n) == [kind |-> "reply", n |-> n]

\* A request as it travels, and one that no header or chunk scan accepts.
Request(n) == <<[id |-> n, part |-> 1], [id |-> n, part |-> 2]>>
Malformed  == <<[id |-> 0, part |-> 0]>>

Alive == pc \in {"loop", "select", "dispatch"}

-----------------------------------------------------------------------------

Init ==
    /\ connections = [i \in Slot |-> NULL]
    /\ session = 0
    /\ runningFlag = TRUE
    /\ addrlenSet = FALSE
    /\ pc = "loop"
    /\ watched = {} /\ mainReady = FALSE /\ ready = {}
    /\ backlog = <<>>
    /\ open = {}
    /\ outcome = [c \in Conn |-> NULL]
    /\ peer = [c \in Conn |-> "none"]
    /\ greeted = [c \in Conn |-> NULL]
    /\ sent = [c \in Conn |-> 0]
    /\ received = [c \in Conn |-> <<>>]
    /\ toServer = [c \in Conn |-> <<>>]
    /\ toClient = [c \in Conn |-> <<>>]

(* The clients *)

Connect(c) ==
    /\ Alive
    /\ peer[c] = "none"
    /\ session + Len(backlog) < MaxSession
    /\ peer' = [peer EXCEPT ![c] = "open"]
    /\ backlog' = Append(backlog, c)
    /\ UNCHANGED <<runningFlag, loopVars, connections, session, addrlenSet,
                   open, outcome, greeted, sent, received, streams>>

\* A client waits for its session number before it sends anything.
Receive(c) ==
    /\ peer[c] = "open" /\ toClient[c] # <<>>
    /\ LET m == Head(toClient[c])
       IN  IF m.kind = "session"
           THEN greeted' = [greeted EXCEPT ![c] = m.n] /\ UNCHANGED received
           ELSE received' = [received EXCEPT ![c] = Append(@, m.n)] /\ UNCHANGED greeted
    /\ toClient' = [toClient EXCEPT ![c] = Tail(@)]
    /\ UNCHANGED <<runningFlag, loopVars, slotVars, peer, sent, toServer>>

Send(c) ==
    /\ peer[c] = "open" /\ c \in open /\ greeted[c] # NULL
    /\ sent[c] < MaxRequests
    /\ sent' = [sent EXCEPT ![c] = @ + 1]
    /\ toServer' = [toServer EXCEPT ![c] = @ \o Request(sent'[c])]
    /\ UNCHANGED <<runningFlag, loopVars, slotVars, peer, greeted, received, toClient>>

\* One at a time, but as many as it likes.
SendMalformed(c) ==
    /\ ~WellBehaved
    /\ peer[c] = "open" /\ c \in open /\ greeted[c] # NULL
    /\ ~Contains(toServer[c], Malformed[1])
    /\ toServer' = [toServer EXCEPT ![c] = @ \o Malformed]
    /\ UNCHANGED <<runningFlag, loopVars, slotVars, peerVars, toClient>>

\* c is as if it had never been used.
Forget(c) ==
    /\ peer' = [peer EXCEPT ![c] = "none"]
    /\ greeted' = [greeted EXCEPT ![c] = NULL]
    /\ sent' = [sent EXCEPT ![c] = 0]
    /\ received' = [received EXCEPT ![c] = <<>>]
    /\ toServer' = [toServer EXCEPT ![c] = <<>>]
    /\ toClient' = [toClient EXCEPT ![c] = <<>>]
    /\ outcome' = [outcome EXCEPT ![c] = NULL]

\* A client that closes with something unread resets the connection.
Close(c) ==
    /\ peer[c] = "open"
    /\ IF outcome[c] = 0
       THEN Forget(c)
       ELSE /\ peer' = [peer EXCEPT ![c] = IF toClient[c] = <<>> THEN "closed" ELSE "reset"]
            /\ toClient' = [toClient EXCEPT ![c] = <<>>]
            /\ UNCHANGED <<greeted, sent, received, toServer, outcome>>
    /\ UNCHANGED <<runningFlag, loopVars, connections, session, addrlenSet,
                   backlog, open>>

\* A socket is ready also when its peer is gone.
Readable(c) == toServer[c] # <<>> \/ peer[c] \in {"closed", "reset"}

\* SIGINT, SIGTERM or SIGHUP, as often as one likes.  Server_run returns when it
\* interrupts select, which is blocked only as long as nothing is ready.  In
\* front of select, behind the test of the flag, it interrupts nothing.
Signal ==
    /\ Alive
    /\ runningFlag' = FALSE
    /\ \/ UNCHANGED pc
       \/ /\ pc = "select" /\ backlog = <<>> /\ \A c \in watched : ~Readable(c)
          /\ pc' = "stopped"
    /\ UNCHANGED <<watched, mainReady, ready, slotVars, peerVars, streams>>

-----------------------------------------------------------------------------
(* The loop                                                                *)

\* Faulty: the loop goes on until a signal interrupts its select.
RunEndless == TRUE

KeepRunning == runningFlag

\* Faulty: the loop over the slots ends at the first one that is free.
WatchedUpToGap ==
    {connections[i] : i \in {j \in Slot : \A h \in 1 .. j : connections[h] # NULL}}

\* buildFds: every client socket, on every turn.
ToWatch == {connections[i] : i \in Slot} \ {NULL}

Turn ==
    /\ pc = "loop"
    /\ IF KeepRunning
       THEN pc' = "select" /\ watched' = ToWatch
       ELSE pc' = "stopped" /\ UNCHANGED watched
    /\ UNCHANGED <<runningFlag, mainReady, ready, slotVars, peerVars, streams>>

\* With nothing ready, select times out.  A socket that is closed already
\* makes it fail (1005).
Select ==
    /\ pc = "select"
    /\ mainReady' = (backlog # <<>>)
    /\ ready' = {c \in watched : Readable(c)}
    /\ watched' = {}
    /\ pc' = IF ~(watched \subseteq open) THEN "fatal1005"
             ELSE IF mainReady' \/ ready' # {} THEN "dispatch" ELSE "loop"
    /\ UNCHANGED <<runningFlag, slotVars, peerVars, streams>>

\* What select has said is used once.
Served == mainReady' = FALSE /\ ready' = {} /\ UNCHANGED <<runningFlag, watched>>

\* send to the client: a peer that has closed answers with a reset; after a
\* reset send either fails, which is logged, or raises SIGPIPE, which nobody
\* handles.
SendTo(c, message) ==
    \/ /\ peer[c] = "open"
       /\ toClient' = [toClient EXCEPT ![c] = Append(@, message)]
       /\ pc' = "loop"
       /\ UNCHANGED peer
    \/ /\ peer[c] = "closed"
       /\ peer' = [peer EXCEPT ![c] = "reset"]
       /\ pc' = "loop"
       /\ UNCHANGED toClient
    \/ /\ peer[c] = "reset"
       /\ pc' \in {"loop", "killed"}
       /\ UNCHANGED <<peer, toClient>>

\* The listening socket comes first, whatever else is ready.
Accepting == pc = "dispatch" /\ mainReady

\* accept fails if the value it finds in addrlen is negative, and nobody
\* writes to addrlen before the first accept does.
AcceptError ==
    /\ Accepting /\ ~addrlenSet
    /\ pc' = "fatal1006"
    /\ Served
    /\ UNCHANGED <<slotVars, peerVars, streams>>

\* Faulty: the search for a free slot goes on after the first one.
InstalledEverywhere(c) ==
    [i \in Slot |-> IF connections[i] = NULL THEN c ELSE connections[i]]

Installed(c) == [connections EXCEPT ![First(Free)] = c]

AcceptConnection ==
    /\ Accepting /\ Free # {}
    /\ LET c == Head(backlog)
       IN  /\ connections' = Installed(c)
           /\ session' = session + 1
           /\ open' = open \cup {c}
           /\ outcome' = [outcome EXCEPT ![c] = session']
           /\ SendTo(c, Greet(session'))
    /\ backlog' = Tail(backlog)
    /\ addrlenSet' = TRUE
    /\ Served
    /\ UNCHANGED <<greeted, sent, received, toServer>>

\* The socket is closed after the rejection; a client that is gone by then
\* leaves nothing behind.
RejectConnection ==
    /\ Accepting /\ Free = {}
    /\ LET c == Head(backlog)
       IN  IF peer[c] = "open"
           THEN /\ outcome' = [outcome EXCEPT ![c] = 0]
                /\ toClient' = [toClient EXCEPT ![c] = Append(@, Greet(0))]
                /\ UNCHANGED <<peer, greeted, sent, received, toServer>>
           ELSE Forget(c)
    /\ pc' = "loop"
    /\ backlog' = Tail(backlog)
    /\ addrlenSet' = TRUE
    /\ Served
    /\ UNCHANGED <<connections, session, open>>

\* Faulty: the last slot is never looked at.
ReadySlotsButLast == {i \in Slot \ {MAX_CLIENT_NUMBER} : connections[i] \in ready}

ReadySlots == {i \in Slot : connections[i] \in ready}

\* handleOldClient serves the first slot that is ready; if there is none, a
\* socket was ready that no slot holds (1008).
Handle(i, c) ==
    /\ pc = "dispatch" /\ ~mainReady
    /\ ReadySlots # {}
    /\ i = First(ReadySlots)
    /\ c = connections[i]

\* Faulty: what was processed stays at the start of the buffer.
NothingConsumed(c, n) == toServer[c]

\* The stream after a read of n pieces; process looks at the first request
\* in the buffer only, and the next read overwrites all of it.
Remaining(c, n) == SubSeq(toServer[c], n + 1, Len(toServer[c]))

\* Faulty: neither header nor chunks are looked at.
TakenForRequest(c, n) == n >= 1

\* The buffer starts with a whole request.
Complete(c, n) == toServer[c][1].part = 1 /\ n >= 2

ReadRequest(i, c) ==
    /\ Handle(i, c)
    /\ \E n \in 1 .. Len(toServer[c]) :
          /\ toServer' = [toServer EXCEPT ![c] = Remaining(c, n)]
          /\ Complete(c, n)
          /\ SendTo(c, Answer(toServer[c][1].id))
    /\ Served
    /\ UNCHANGED <<slotVars, greeted, sent, received>>

\* No header, half a request, or the end of one.  A reply that says
\* "[bad request]" is composed in the buffer, and the function returns.
ReadBadRequest(i, c) ==
    /\ Handle(i, c)
    /\ \E n \in 1 .. Len(toServer[c]) :
          /\ toServer' = [toServer EXCEPT ![c] = Remaining(c, n)]
          /\ ~Complete(c, n)
    /\ pc' = "loop"
    /\ Served
    /\ UNCHANGED <<slotVars, peerVars, toClient>>

Released(i) == [connections EXCEPT ![i] = NULL]

\* read returns 0 after the last byte, or -1 on a reset, and then the bytes
\* that were not read yet may be lost.
Disconnect(i, c) ==
    /\ Handle(i, c)
    /\ \/ peer[c] = "closed" /\ toServer[c] = <<>>
       \/ peer[c] = "reset"
    /\ connections' = Released(i)
    /\ open' = open \ {c}
    /\ Forget(c)
    /\ pc' = "loop"
    /\ Served
    /\ UNCHANGED <<session, addrlenSet, backlog>>

ServerStep ==
    \/ Turn \/ Select
    \/ AcceptError \/ AcceptConnection \/ RejectConnection
    \/ \E i \in Slot, c \in Conn :
          ReadRequest(i, c) \/ ReadBadRequest(i, c) \/ Disconnect(i, c)

ClientStep ==
    \E c \in Conn : Connect(c) \/ Receive(c) \/ Send(c) \/ SendMalformed(c) \/ Close(c)

Ended == ~Alive /\ UNCHANGED vars

Next == ServerStep \/ ClientStep \/ Signal \/ Ended

Spec == Init /\ [][Next]_vars

\* The daemon runs, and select returns after a second if nothing happens.
FairSpec == Spec /\ WF_vars(ServerStep)

\* The clients read what they are sent; they need not do anything else.
FairClients == FairSpec /\ \A c \in Conn : WF_vars(Receive(c))

-----------------------------------------------------------------------------

\* Every variable has the type its C declaration and its use give it.
TypeOK ==
    /\ connections \in [Slot -> Conn \cup {NULL}]
    /\ session \in 0 .. MaxSession
    /\ runningFlag \in BOOLEAN /\ addrlenSet \in BOOLEAN
    /\ pc \in {"loop", "select", "dispatch", "stopped", "killed", "fatal1005", "fatal1006"}
    /\ watched \subseteq Conn /\ mainReady \in BOOLEAN /\ ready \subseteq Conn
    /\ backlog \in Seq(Conn)
    /\ open \subseteq Conn
    /\ outcome \in [Conn -> 0 .. MaxSession \cup {NULL}]
    /\ peer \in [Conn -> {"none", "open", "closed", "reset"}]
    /\ greeted \in [Conn -> 0 .. MaxSession \cup {NULL}]
    /\ sent \in [Conn -> 0 .. MaxRequests]
    /\ received \in [Conn -> Seq(1 .. MaxRequests)]
    /\ toServer \in [Conn -> Seq(Piece)]
    /\ toClient \in [Conn -> Seq(Greeting \cup Reply)]

\* The slots hold exactly the accepted connections whose sockets are open,
\* each one once: no socket is left open without a slot, no slot keeps a
\* deleted connection, and "info" reports their number.
SlotsMatchSockets ==
    /\ open = {connections[i] : i \in Slot} \ {NULL}
    /\ \A i, j \in Slot : connections[i] = connections[j] /\ i # j => connections[i] = NULL

\* What the loop acts on is never out of date: no closed socket is given to
\* select (1005), and when the listening socket is not ready, a slot is found
\* for the socket that is (1008), although clients close in between.
ReadinessIsCurrent ==
    /\ pc = "select" => watched \subseteq open
    /\ pc = "dispatch" /\ ~mainReady => ReadySlots # {}

\* The replies a client has received or is about to are answers to requests
\* of this session, in the order of the requests, none twice; which of them
\* are answered is up to the reads.
RepliesInOrder ==
    \A c \in Conn :
      LET pending == {i \in DOMAIN toClient[c] : toClient[c][i].kind = "reply"}
      IN  /\ \A i, j \in DOMAIN received[c] : i < j => received[c][i] < received[c][j]
          /\ \A i, j \in pending : i < j => toClient[c][i].n < toClient[c][j].n
          /\ \A i \in DOMAIN received[c], j \in pending : received[c][i] < toClient[c][j].n
          /\ \A i \in DOMAIN received[c] : received[c][i] <= sent[c]
          /\ \A i \in pending : toClient[c][i].n <= sent[c]

\* Places, sessions and refusals are as Admission promises.
Places == INSTANCE Admission WITH Places <- MAX_CLIENT_NUMBER, issued <- session

ImplementsAdmission == Places!Spec

\* After a signal the process ends, wherever in the loop it arrives: if it comes
\* between the test of the flag and select, too late for the one and too early
\* for the other, select returns by its timeout or for a client, however busy
\* they are, and the flag is tested again.
StopsAfterSignal == ~runningFlag ~> ~Alive

SlotReadable(i) == connections[i] # NULL /\ Readable(connections[i])

\* A slot is served if no more connections wait and the slots before it have
\* become quiet, as everything ahead of it can keep it waiting: what has
\* arrived is read, and a disconnection is noticed.
ServedInTurn ==
    \A i \in Slot :
      (<>[](backlog = <<>> /\ \A j \in 1 .. i - 1 : ~SlotReadable(j)))
        => (SlotReadable(i) ~> (~Alive \/ ~SlotReadable(i)))

(* What the documents say of requests and of disconnection, which does not *)
(* always hold                                                             *)

\* "The client sends a request packet to the server, the server performs the
\* operation, then sends back the reply packet."
RequestsAnswered ==
    \A c \in Conn, n \in 1 .. MaxRequests :
      (c \in open /\ sent[c] >= n)
        ~> (~Alive \/ peer[c] # "open" \/ Contains(received[c], n))

\* "Client is disconnected, connection slot will be available for other
\* client connections": a disconnection never ends the daemon.
DisconnectSurvived == pc # "killed"
=============================================================================
