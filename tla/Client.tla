------------------------------- MODULE Client -------------------------------
(***************************************************************************)
(* The command line client (client/client.py, with the counter that        *)
(* client/parser.py finds in a reply), against the server and the stream   *)
(* between them.                                                           *)
(*                                                                         *)
(* In the interactive mode two threads perform commands: the main thread   *)
(* those of the user, a daemon thread a "beat" each second.  They share    *)
(* the socket, the counter (under commandMutex) and the parser (under      *)
(* nothing), and a thread can be suspended between any two statements.  In *)
(* single-shot mode the main thread performs one command and leaves.       *)
(*                                                                         *)
(* A request is its counter and its sender.  A reply travels as one piece, *)
(* or as head and tail if it is too long for one recv; the counter is in   *)
(* the head.                                                               *)
(***************************************************************************)
EXTENDS Integers, Sequences

CONSTANT NULL

Thread == {"user", "beat"}

ASSUME ClientAssumption == NULL \notin Nat \cup Thread

VARIABLES
    mode,           \* "interactive" or "single"
    pc,             \* what a thread does next
    counter,        \* self.counter
    mutex,          \* commandMutex: the thread that holds it, or NULL
    parser,         \* self.parser: its data and its counter; NULL: not there
    req,            \* the counter of the command a thread performs
    response,       \* what recv returned to a thread
    interrupted,    \* SIGINT is on its way to the main thread
    serverUp, requests, replies

shared  == <<counter, mutex, parser, interrupted>>
locals  == <<req, response>>
network == <<serverUp, requests, replies>>
vars    == <<mode, pc, shared, locals, network>>

Request == [n : Nat, by : Thread]
Piece   == [n : Nat, part : {"whole", "head", "tail"}]
EOF     == [n |-> 0, part |-> "nothing"]     \* recv returned no bytes
Data    == Piece \cup {EOF}
Parser  == [data : Data, counter : Nat \cup {NULL}]

ASSUME ParserAssumption == NULL \notin Parser

Init ==
    /\ mode \in {"interactive", "single"}
    /\ pc = [t \in Thread |-> IF t = "beat" /\ mode = "single" THEN "dead" ELSE "idle"]
    /\ counter = 0
    /\ mutex = NULL
    /\ parser = NULL
    /\ req = [t \in Thread |-> 0]
    /\ response = [t \in Thread |-> EOF]
    /\ interrupted = FALSE
    /\ serverUp = TRUE /\ requests = <<>> /\ replies = <<>>

-----------------------------------------------------------------------------
(* The flow of a thread                                                    *)

At(t, here)       == pc[t] = here
Goes(t, to)       == pc' = [pc EXCEPT ![t] = to]

\* An exception that nobody catches.  The process ends with its main thread.
Dies(t) == IF t = "user" THEN pc' = [u \in Thread |-> "dead"] ELSE Goes(t, "dead")

\* performCommand returns: the user sees a reply if there is one, and in
\* single-shot mode anyway; the heartbeat does not look at it.
Returns(t, found) ==
    Goes(t, IF t = "user" /\ (found \/ mode = "single") THEN "show" ELSE "idle")

\* The user enters a command, or a second has passed.
Begin(t) ==
    /\ At(t, "idle")
    /\ Goes(t, "lock")
    /\ UNCHANGED <<mode, shared, locals, network>>

\* Faulty: the mutex is not asked for.
AcquireUnguarded(t) ==
    /\ At(t, "lock")
    /\ mutex' = t
    /\ Goes(t, "stamp")
    /\ UNCHANGED <<mode, counter, parser, interrupted, locals, network>>

Acquire(t) ==
    /\ At(t, "lock") /\ mutex = NULL
    /\ mutex' = t
    /\ Goes(t, "stamp")
    /\ UNCHANGED <<mode, counter, parser, interrupted, locals, network>>

\* Faulty: the counter is incremented first.
StampNext(t) ==
    /\ At(t, "stamp")
    /\ req' = [req EXCEPT ![t] = counter + 1]
    /\ Goes(t, "bump")
    /\ UNCHANGED <<mode, shared, response, network>>

Stamp(t) ==
    /\ At(t, "stamp")
    /\ req' = [req EXCEPT ![t] = counter]
    /\ Goes(t, "bump")
    /\ UNCHANGED <<mode, shared, response, network>>

Bump(t) ==
    /\ At(t, "bump")
    /\ counter' = counter + 1
    /\ Goes(t, "release")
    /\ UNCHANGED <<mode, mutex, parser, interrupted, locals, network>>

Release(t) ==
    /\ At(t, "release")
    /\ mutex' = NULL
    /\ Goes(t, "send")
    /\ UNCHANGED <<mode, counter, parser, interrupted, locals, network>>

\* fireRequest.  When the server is gone, the bytes are lost; or send raises
\* BrokenPipeError, which is caught, and the command goes on after fatal has
\* sent the process a SIGINT; or it raises a reset, which is not caught.
Send(t) ==
    /\ At(t, "send")
    /\ IF serverUp
       THEN /\ requests' = Append(requests, [n |-> req[t], by |-> t])
            /\ Goes(t, "select")
            /\ UNCHANGED interrupted
       ELSE /\ UNCHANGED requests
            /\ \/ Goes(t, "select") /\ interrupted' \in {interrupted, TRUE}
               \/ Dies(t) /\ UNCHANGED interrupted
    /\ UNCHANGED <<mode, counter, mutex, parser, locals, serverUp, replies>>

Readable == replies # <<>> \/ ~serverUp

\* Faulty: recv is called without a look at the socket.
SelectAlways(t) ==
    /\ At(t, "select")
    /\ Goes(t, "recv")
    /\ UNCHANGED <<mode, shared, locals, network>>

SelectReady(t) ==
    /\ At(t, "select") /\ Readable
    /\ Goes(t, "recv")
    /\ UNCHANGED <<mode, shared, locals, network>>

SelectTimeout(t) ==
    /\ At(t, "select") /\ ~Readable
    /\ Returns(t, FALSE)
    /\ UNCHANGED <<mode, shared, locals, network>>

\* What was readable for select may be gone: then recv blocks.  It returns
\* everything up to some point, of which the parser will see the first reply.
Recv(t) ==
    /\ At(t, "recv") /\ replies # <<>>
    /\ \E n \in 1 .. Len(replies) :
          /\ response' = [response EXCEPT ![t] =
                            IF replies[1].part = "head" /\ n > 1
                            THEN [replies[1] EXCEPT !.part = "whole"] ELSE replies[1]]
          /\ replies' = SubSeq(replies, n + 1, Len(replies))
    /\ Goes(t, "assign")
    /\ UNCHANGED <<mode, shared, req, serverUp, requests>>

RecvEnd(t) ==
    /\ At(t, "recv") /\ replies = <<>> /\ ~serverUp
    /\ \/ response' = [response EXCEPT ![t] = EOF] /\ Goes(t, "assign")
       \/ Dies(t) /\ UNCHANGED response
    /\ UNCHANGED <<mode, shared, req, network>>

Assign(t) ==
    /\ At(t, "assign")
    /\ parser' = [data |-> response[t], counter |-> NULL]
    /\ Goes(t, "parse")
    /\ UNCHANGED <<mode, counter, mutex, interrupted, locals, network>>

\* Without the magic number there is no counter, not even one from before.
CounterIn(data) == IF data.part \in {"whole", "head"} THEN data.n ELSE NULL

\* self.parser, whoever has put it there.  A cut in the middle of a length
\* raises IndexError.
Parse(t) ==
    /\ At(t, "parse")
    /\ parser' = [parser EXCEPT !.counter = CounterIn(parser.data)]
    /\ (Goes(t, "compare") \/ (parser.data.part = "head" /\ Dies(t)))
    /\ UNCHANGED <<mode, counter, mutex, interrupted, locals, network>>

\* Faulty: every reply but one's own is passed over, newer ones too.
CompareForOwn(t) ==
    /\ At(t, "compare")
    /\ \/ parser.counter = NULL /\ Dies(t)
       \/ parser.counter # NULL /\ req[t] # parser.counter /\ Goes(t, "select")
       \/ parser.counter = req[t] /\ Returns(t, TRUE)
    /\ UNCHANGED <<mode, shared, locals, network>>

\* None cannot be compared with a number; a newer reply ends the wait, an
\* older one is passed over.
Compare(t) ==
    /\ At(t, "compare")
    /\ \/ parser.counter = NULL /\ Dies(t)
       \/ parser.counter # NULL /\ req[t] < parser.counter /\ Returns(t, FALSE)
       \/ parser.counter # NULL /\ req[t] > parser.counter /\ Goes(t, "select")
       \/ parser.counter = req[t] /\ Returns(t, TRUE)
    /\ UNCHANGED <<mode, shared, locals, network>>

\* The render of cliLoop and of performSingleShot, which parses once more.
\* In single-shot mode there may be no parser to call.
Show ==
    /\ At("user", "show") /\ parser # NULL
    /\ parser' = [parser EXCEPT !.counter = CounterIn(parser.data)]
    /\ \/ mode = "interactive" /\ Goes("user", "idle")
       \/ (mode = "single" \/ parser.data.part = "head") /\ Dies("user")
    /\ UNCHANGED <<mode, counter, mutex, interrupted, locals, network>>

ShowNothing ==
    /\ At("user", "show") /\ parser = NULL
    /\ Dies("user")
    /\ UNCHANGED <<mode, shared, locals, network>>

\* quit, end of input, or Ctrl-C at the prompt.
Quit ==
    /\ At("user", "idle") /\ mode = "interactive"
    /\ Dies("user")
    /\ UNCHANGED <<mode, shared, locals, network>>

\* The SIGINT of fatal reaches the main thread, wherever it is.
Interrupt ==
    /\ interrupted /\ ~At("user", "dead")
    /\ Dies("user")
    /\ UNCHANGED <<mode, shared, locals, network>>

-----------------------------------------------------------------------------
(* The server: it reads some of what has arrived and answers the first     *)
(* request of it, or none if it has got half a request.                    *)

Answers(r) ==
    {<<[n |-> r.n, part |-> "whole"]>>} \cup
    (IF r.by = "user"
     THEN {<<[n |-> r.n, part |-> "head"], [n |-> r.n, part |-> "tail"]>>} ELSE {})

ServeWith(answers) ==
    /\ serverUp /\ requests # <<>>
    /\ \E k \in 1 .. Len(requests) : requests' = SubSeq(requests, k + 1, Len(requests))
    /\ \E a \in answers : replies' = replies \o a
    /\ UNCHANGED <<mode, pc, shared, locals, serverUp>>

ServeAnswering == ServeWith(Answers(requests[1]))

Serve == ServeAnswering \/ ServeWith({<<>>})

ServerEnds ==
    /\ serverUp
    /\ serverUp' = FALSE /\ requests' = <<>>
    /\ UNCHANGED <<mode, pc, shared, locals, replies>>

Step(t) ==
    \/ Acquire(t) \/ Stamp(t) \/ Bump(t) \/ Release(t)
    \/ Send(t)
    \/ SelectReady(t) \/ SelectTimeout(t)
    \/ Recv(t) \/ RecvEnd(t)
    \/ Assign(t) \/ Parse(t) \/ Compare(t)
    \/ t = "user" /\ (Show \/ ShowNothing)

\* The process has ended.
Ended == At("user", "dead") /\ UNCHANGED vars

Next ==
    \/ \E t \in Thread : Begin(t) \/ Step(t)
    \/ Quit \/ Interrupt
    \/ Serve \/ ServerEnds
    \/ Ended

Spec == Init /\ [][Next]_vars

\* Both threads run and the beat comes every second.  In between the mutex is
\* free, long enough for a thread that waits for it; and a thread that waits in
\* recv is not for ever overtaken by one that only comes to it: the kernel wakes
\* it first.  The server reads what has arrived, and not every request that it
\* reads is one that was split.
Fairness ==
    /\ \A t \in Thread : WF_vars(Step(t)) /\ SF_vars(Acquire(t)) /\ SF_vars(Recv(t))
    /\ WF_vars(Begin("beat")) /\ WF_vars(Interrupt)
    /\ WF_vars(Serve) /\ SF_vars(ServeAnswering)

FairSpec == Spec /\ Fairness

-----------------------------------------------------------------------------

\* Every variable has the type its use gives it.
TypeOK ==
    /\ mode \in {"interactive", "single"}
    /\ pc \in [Thread -> {"idle", "lock", "stamp", "bump", "release", "send", "select",
                          "recv", "assign", "parse", "compare", "show", "dead"}]
    /\ counter \in Nat
    /\ mutex \in Thread \cup {NULL}
    /\ parser \in Parser \cup {NULL}
    /\ req \in [Thread -> 0 .. counter]
    /\ response \in [Thread -> Data]
    /\ interrupted \in BOOLEAN /\ serverUp \in BOOLEAN
    /\ requests \in Seq(Request)
    /\ replies \in Seq(Piece)

Stamped(t) == pc[t] \notin {"idle", "lock", "stamp", "dead"}

\* Replies can be told apart: no two commands in progress have the same
\* counter, nor has a request or a reply under way one that is still to come.
CountersUnique ==
    /\ Stamped("user") /\ Stamped("beat") => req["user"] # req["beat"]
    /\ \A i, j \in DOMAIN requests : i # j => requests[i].n # requests[j].n
    /\ \A i \in DOMAIN requests : requests[i].n < counter
    /\ \A i \in DOMAIN replies : replies[i].n < counter

Waiting(t) == At(t, "recv") /\ replies = <<>> /\ serverUp

\* A thread that was told by select that there is a reply, and was too late,
\* blocks in recv without a timeout; but never do both, so that one of them
\* can still send the request whose reply wakes the other.
NeverBothWaiting == ~(Waiting("user") /\ Waiting("beat"))

\* As long as there is a heartbeat, every command of the user comes back,
\* however many beats come in between: its reply may be lost, late or taken by
\* the other thread, those of the beats may be met in its place, and it may be
\* blocked in recv without a timeout until one of them wakes it.
CommandEnds ==
    (mode = "interactive" /\ pc["user"] \notin {"idle", "dead"})
      ~> (pc["user"] \in {"idle", "dead"} \/ pc["beat"] = "dead")

\* "This can be used for pairing responses for requests on client side": what
\* is shown to the user is the reply to the user's command.
ShownIsOwn ==
    [][mode = "interactive" /\ (Show \/ ShowNothing) =>
         parser.data.n = req["user"] /\ parser.data.part # "nothing"]_vars
=============================================================================
