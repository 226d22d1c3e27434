--------------------------- MODULE ClientProofs ---------------------------
(***************************************************************************)
(* Proofs about the client: for every number of commands, counters are     *)
(* unique and the two threads never wait for each other's data.            *)
(***************************************************************************)
EXTENDS Client, SequenceTheorems, TLAPS

-----------------------------------------------------------------------------
(* The inductive invariant                                                 *)

\* Whoever is between acquire and release holds the mutex.
LockHeld == \A t \in Thread : pc[t] \in {"stamp", "bump", "release"} => mutex = t

\* A counter that was taken is the present one until it is incremented, and
\* an old one from then on.
Taken ==
    \A t \in Thread : /\ pc[t] = "bump" => req[t] = counter
                      /\ Stamped(t) /\ pc[t] # "bump" => req[t] < counter

\* What is not sent yet is not under way.
Unsent ==
    \A t \in Thread : pc[t] \in {"bump", "release", "send"} =>
       \A i \in DOMAIN requests : requests[i].n # req[t]

LockInv == LockHeld /\ Taken /\ Unsent /\ CountersUnique

\* There is a parser where one is used.
HasParser == \A t \in Thread : pc[t] \in {"parse", "compare"} => parser # NULL

IInv == TypeOK /\ LockInv /\ HasParser /\ NeverBothWaiting

-----------------------------------------------------------------------------
(* Lemmas                                                                  *)

\* Where a thread can be after its request was sent.
Later == {"select", "recv", "assign", "parse", "compare", "show"}

\* A step in which every thread stays, goes on beyond the sending, or leaves,
\* and which takes no counter and sends nothing.
Quiet ==
    /\ UNCHANGED <<counter, mutex, req>>
    /\ \A t \in Thread :
          \/ pc'[t] = pc[t]
          \/ pc'[t] \in {"idle", "lock", "dead"}
          \/ pc'[t] \in Later /\ Stamped(t) /\ pc[t] # "bump"

\* A quiet step keeps what is said of the counters, if the requests lose
\* nothing but a beginning.
LEMMA QuietKeepsLock ==
    ASSUME LockInv, Quiet, TypeOK,
           \/ requests' = requests
           \/ requests' = <<>>
           \/ \E k \in 1 .. Len(requests) : requests' = SubSeq(requests, k + 1, Len(requests)),
           \A i \in DOMAIN replies' : replies'[i].n < counter
    PROVE  LockInv'
<1>1. /\ LockHeld' /\ Taken'
    BY DEF LockInv, Quiet, LockHeld, Taken, Stamped, Later
<1>2. \A i \in DOMAIN requests' : \E j \in DOMAIN requests : requests'[i] = requests[j]
  <2>1. CASE requests' = requests \/ requests' = <<>>
      BY <2>1
  <2>2. ASSUME NEW k \in 1 .. Len(requests), requests' = SubSeq(requests, k + 1, Len(requests))
        PROVE  \A i \in DOMAIN requests' : requests'[i] = requests[k + i] /\ k + i \in DOMAIN requests
      BY <2>2, SubSeqProperties DEF TypeOK
  <2> QED BY <2>1, <2>2
<1>3. \A i, j \in DOMAIN requests' : i # j => requests'[i].n # requests'[j].n
  <2>1. CASE requests' = requests \/ requests' = <<>>
      BY <2>1 DEF LockInv, CountersUnique
  <2>2. ASSUME NEW k \in 1 .. Len(requests), requests' = SubSeq(requests, k + 1, Len(requests))
        PROVE  \A i, j \in DOMAIN requests' : i # j => requests'[i].n # requests'[j].n
    <3>1. \A i \in DOMAIN requests' :
             i \in Nat /\ requests'[i] = requests[k + i] /\ k + i \in DOMAIN requests
        BY <2>2, SubSeqProperties DEF TypeOK
    <3> QED BY <3>1 DEF LockInv, CountersUnique
  <2> QED BY <2>1, <2>2
<1>4. Unsent'
    BY <1>2 DEF LockInv, Unsent, Quiet, Later
<1>5. \A i \in DOMAIN requests' : requests'[i].n < counter'
    BY <1>2 DEF LockInv, CountersUnique, Quiet
<1>6. Stamped("user")' /\ Stamped("beat")' => req'["user"] # req'["beat"]
    BY DEF LockInv, CountersUnique, Quiet, Stamped, Later, Thread
<1>7. \A i \in DOMAIN replies' : replies'[i].n < counter'
    BY DEF Quiet
<1> QED BY <1>1, <1>3, <1>4, <1>5, <1>6, <1>7 DEF LockInv, CountersUnique

\* Without a change of the replies, a quiet step is one that keeps LockInv.
LEMMA QuietLocal ==
    ASSUME LockInv, Quiet, TypeOK, UNCHANGED <<requests, replies>>
    PROVE  LockInv'
<1>1. \A i \in DOMAIN replies' : replies'[i].n < counter
    BY DEF LockInv, CountersUnique
<1> QED BY <1>1, QuietKeepsLock

Pcs == {"idle", "lock", "stamp", "bump", "release", "send", "select",
        "recv", "assign", "parse", "compare", "show", "dead"}

\* What an answer of the server consists of.
LEMMA AnswerPieces ==
    ASSUME NEW r \in Request, NEW a \in Answers(r) \cup {<<>>}
    PROVE  a \in Seq(Piece) /\ \A i \in DOMAIN a : a[i].n = r.n
<1>1. CASE a = <<>>
    BY <1>1
<1>2. CASE a = <<[n |-> r.n, part |-> "whole"]>>
    BY <1>2 DEF Request, Piece
<1>3. CASE a = <<[n |-> r.n, part |-> "head"], [n |-> r.n, part |-> "tail"]>>
    BY <1>3 DEF Request, Piece
<1> QED BY <1>1, <1>2, <1>3 DEF Answers

LEMMA NumbersUnderWay ==
    ASSUME TypeOK
    PROVE  /\ \A i \in DOMAIN requests : requests[i].n \in Nat
           /\ \A i \in DOMAIN replies : replies[i].n \in Nat
<1>1. /\ \A i \in DOMAIN requests : requests[i] \in Request
      /\ \A i \in DOMAIN replies : replies[i] \in Piece
    BY ElementOfSeq, LenProperties DEF TypeOK
<1>2. /\ \A r \in Request : r.n \in Nat
      /\ \A r \in Piece : r.n \in Nat
    BY ClientAssumption DEF Request, Piece
<1> QED BY <1>1, <1>2

-----------------------------------------------------------------------------
(* Types                                                                   *)

LEMMA TypeStep ==
    ASSUME IInv, Next
    PROVE  TypeOK'
<1> USE ClientAssumption DEF Thread
<1>1. ASSUME NEW t \in Thread, Begin(t)  PROVE TypeOK'
    BY <1>1 DEF IInv, TypeOK, Begin, Goes, shared, locals, network
<1>2. ASSUME NEW t \in Thread, Acquire(t)  PROVE TypeOK'
    BY <1>2 DEF IInv, TypeOK, Acquire, Goes, locals, network
<1>3. ASSUME NEW t \in Thread, Stamp(t)  PROVE TypeOK'
    BY <1>3 DEF IInv, LockInv, TypeOK, Stamp, At, Goes, shared, network
<1>4. ASSUME NEW t \in Thread, Bump(t)  PROVE TypeOK'
    BY <1>4 DEF IInv, LockInv, TypeOK, Bump, At, Goes, locals, network
<1>5. ASSUME NEW t \in Thread, Release(t)  PROVE TypeOK'
    BY <1>5 DEF IInv, TypeOK, Release, Goes, locals, network
<1>6. ASSUME NEW t \in Thread, Send(t)  PROVE TypeOK'
  <2>1. requests' \in Seq(Request)
    <3>1. [n |-> req[t], by |-> t] \in Request
        BY DEF IInv, TypeOK, Request
    <3>2. requests' = requests \/ requests' = Append(requests, [n |-> req[t], by |-> t])
        BY <1>6 DEF Send
    <3>3. requests \in Seq(Request)
        BY DEF IInv, TypeOK
    <3> QED BY ONLY <3>1, <3>2, <3>3, AppendProperties
  <2> QED BY <2>1, <1>6 DEF IInv, TypeOK, Send, Goes, Dies, locals
<1>7. ASSUME NEW t \in Thread, SelectReady(t) \/ SelectTimeout(t)  PROVE TypeOK'
    BY <1>7 DEF IInv, TypeOK, SelectReady, SelectTimeout, Goes, Returns, shared, locals, network
<1>8. ASSUME NEW t \in Thread, Recv(t)  PROVE TypeOK'
  <2>1. replies[1] \in Piece
      BY <1>8 DEF IInv, TypeOK, Recv
  <2>2. replies' \in Seq(Piece)
    <3>1. PICK n \in 1 .. Len(replies) : replies' = SubSeq(replies, n + 1, Len(replies))
        BY <1>8 DEF Recv
    <3> QED BY <3>1, SubSeqProperties DEF IInv, TypeOK
  <2>3. response' \in [Thread -> Data]
    <3>1. [replies[1] EXCEPT !.part = "whole"] \in Piece
        BY <2>1 DEF Piece
    <3> QED BY <2>1, <3>1, <1>8 DEF IInv, TypeOK, Recv, Data
  <2> QED BY <2>2, <2>3, <1>8 DEF IInv, TypeOK, Recv, Goes, shared
<1>9. ASSUME NEW t \in Thread, RecvEnd(t)  PROVE TypeOK'
    BY <1>9 DEF IInv, TypeOK, RecvEnd, Goes, Dies, Data, shared, network
<1>10. ASSUME NEW t \in Thread, Assign(t)  PROVE TypeOK'
    BY <1>10 DEF IInv, TypeOK, Parser, Assign, Goes, locals, network
<1>11. ASSUME parser # NULL  PROVE CounterIn(parser.data) \in Nat \cup {NULL}
    BY <1>11 DEF IInv, TypeOK, Parser, CounterIn, Data, Piece, EOF
<1>12. ASSUME NEW t \in Thread, Parse(t)  PROVE TypeOK'
  <2>1. parser # NULL
      BY <1>12 DEF IInv, HasParser, Parse, At
  <2> QED BY <2>1, <1>11, <1>12 DEF IInv, TypeOK, Parser, Parse, Goes, Dies, locals, network
<1>13. ASSUME NEW t \in Thread, Compare(t)  PROVE TypeOK'
    BY <1>13 DEF IInv, TypeOK, Compare, Goes, Dies, Returns, shared, locals, network
<1>14. CASE Show
    BY <1>11, <1>14 DEF IInv, TypeOK, Parser, Show, Goes, Dies, locals, network
<1>15. CASE ShowNothing \/ Quit \/ Interrupt
  <2>1. CASE ShowNothing
      BY <2>1 DEF IInv, TypeOK, ShowNothing, Dies, shared, locals, network
  <2>2. CASE Quit
      BY <2>2 DEF IInv, TypeOK, Quit, Dies, shared, locals, network
  <2>3. CASE Interrupt
      BY <2>3 DEF IInv, TypeOK, Interrupt, Dies, shared, locals, network
  <2> QED BY <1>15, <2>1, <2>2, <2>3
<1>16. CASE Serve
  <2>1. requests' \in Seq(Request)
    <3>1. PICK k \in 1 .. Len(requests) : requests' = SubSeq(requests, k + 1, Len(requests))
        BY <1>16 DEF Serve, ServeAnswering, ServeWith
    <3> QED BY <3>1, SubSeqProperties DEF IInv, TypeOK
  <2>2. requests[1] \in Request
      BY <1>16 DEF IInv, TypeOK, Serve, ServeAnswering, ServeWith
  <2>3. replies' \in Seq(Piece)
    <3>1. PICK a \in Answers(requests[1]) \cup {<<>>} : replies' = replies \o a
        BY <1>16 DEF Serve, ServeAnswering, ServeWith
    <3>2. a \in Seq(Piece) /\ replies \in Seq(Piece)
        BY <2>2, AnswerPieces DEF IInv, TypeOK
    <3> QED BY ONLY <3>1, <3>2, ConcatProperties
  <2> QED BY <2>1, <2>3, <1>16 DEF IInv, TypeOK, Serve, ServeAnswering, ServeWith, shared, locals
<1>17. CASE ServerEnds
  <2>1. requests' \in Seq(Request)
      BY <1>17, EmptySeq DEF ServerEnds
  <2> QED BY <2>1, <1>17 DEF IInv, TypeOK, ServerEnds, shared, locals
<1>18. CASE Ended
    BY <1>18 DEF IInv, TypeOK, Ended, vars, shared, locals, network
<1> QED BY <1>1, <1>2, <1>3, <1>4, <1>5, <1>6, <1>7, <1>8, <1>9, <1>10, <1>12,
           <1>13, <1>14, <1>15, <1>16, <1>17, <1>18 DEF Next, Step

-----------------------------------------------------------------------------
(* The counters                                                            *)

LEMMA AcquireKeepsLock ==
    ASSUME IInv, NEW t \in Thread, Acquire(t)
    PROVE  LockInv'
<1>1. /\ pc[t] = "lock" /\ pc' = [pc EXCEPT ![t] = "stamp"]
      /\ mutex = NULL /\ mutex' = t
      /\ UNCHANGED <<counter, req, requests, replies>>
    BY DEF Acquire, At, Goes, locals, network
<1>2. pc \in [Thread -> Pcs]
    BY DEF IInv, TypeOK, Pcs
<1>3. \A u \in Thread : u # t => pc[u] \notin {"stamp", "bump", "release"}
    BY <1>1, ClientAssumption DEF IInv, LockInv, LockHeld, Thread
<1>4. LockHeld'
    BY <1>1, <1>2, <1>3 DEF LockHeld
<1>5. Taken' /\ Unsent'
    BY <1>1, <1>2 DEF IInv, LockInv, Taken, Unsent, Stamped
<1>6. CountersUnique'
    BY <1>1, <1>2 DEF IInv, LockInv, CountersUnique, Stamped, Thread
<1> QED BY <1>4, <1>5, <1>6 DEF LockInv

LEMMA StampKeepsLock ==
    ASSUME IInv, NEW t \in Thread, Stamp(t)
    PROVE  LockInv'
<1>1. /\ pc[t] = "stamp" /\ pc' = [pc EXCEPT ![t] = "bump"]
      /\ req' = [req EXCEPT ![t] = counter]
      /\ UNCHANGED <<counter, mutex, requests, replies>>
    BY DEF Stamp, At, Goes, shared, network
<1>2. pc \in [Thread -> Pcs] /\ req \in [Thread -> 0 .. counter] /\ counter \in Nat
    BY ClientAssumption DEF IInv, TypeOK, Pcs
<1>3. \A u \in Thread : u # t => pc[u] \notin {"stamp", "bump", "release"}
    BY <1>1 DEF IInv, LockInv, LockHeld
<1>4. LockHeld'
    BY <1>1, <1>2 DEF IInv, LockInv, LockHeld
<1>5. Taken'
    BY <1>1, <1>2 DEF IInv, LockInv, Taken, Stamped
<1>6. Unsent'
  <2>1. \A i \in DOMAIN requests : requests[i].n \in Nat /\ requests[i].n < counter
      BY NumbersUnderWay DEF IInv, LockInv, CountersUnique
  <2> QED BY <1>1, <1>2, <2>1 DEF IInv, LockInv, Unsent
<1>7. \A u \in Thread : u # t /\ Stamped(u) => req[u] < counter
    BY <1>3 DEF IInv, LockInv, Taken
<1>8. Stamped("user")' /\ Stamped("beat")' => req'["user"] # req'["beat"]
  <2>1. \A u \in Thread : u # t /\ Stamped(u)' => req'[u] = req[u] /\ req[u] < counter /\ req[u] \in Int
      BY <1>1, <1>2, <1>7 DEF Stamped
  <2>2. req'[t] = counter
      BY <1>1, <1>2
  <2>3. \A u \in Thread : u # t /\ Stamped(u)' => req'[u] # req'[t]
      BY <1>2, <2>1, <2>2
  <2> QED BY <2>3 DEF Thread
<1> QED BY <1>1, <1>4, <1>5, <1>6, <1>8 DEF IInv, LockInv, CountersUnique

LEMMA BumpKeepsLock ==
    ASSUME IInv, NEW t \in Thread, Bump(t)
    PROVE  LockInv'
<1>1. /\ pc[t] = "bump" /\ pc' = [pc EXCEPT ![t] = "release"]
      /\ counter' = counter + 1
      /\ UNCHANGED <<mutex, req, requests, replies>>
    BY DEF Bump, At, Goes, locals, network
<1>2. /\ pc \in [Thread -> Pcs] /\ req \in [Thread -> 0 .. counter] /\ counter \in Nat
      /\ \A i \in DOMAIN requests : requests[i].n \in Nat
      /\ \A i \in DOMAIN replies : replies[i].n \in Nat
    BY NumbersUnderWay, ClientAssumption DEF IInv, TypeOK, Pcs
<1>3. \A u \in Thread : u # t => pc[u] \notin {"stamp", "bump", "release"}
    BY <1>1 DEF IInv, LockInv, LockHeld
<1>4. LockHeld'
    BY <1>1, <1>2, <1>3 DEF IInv, LockInv, LockHeld
<1>5. Taken' /\ Unsent'
    BY <1>1, <1>2, <1>3 DEF IInv, LockInv, Taken, Unsent, Stamped
<1>6. CountersUnique'
    BY <1>1, <1>2 DEF IInv, LockInv, CountersUnique, Stamped, Thread
<1> QED BY <1>4, <1>5, <1>6 DEF LockInv

LEMMA ReleaseKeepsLock ==
    ASSUME IInv, NEW t \in Thread, Release(t)
    PROVE  LockInv'
<1>1. /\ pc[t] = "release" /\ pc' = [pc EXCEPT ![t] = "send"]
      /\ UNCHANGED <<counter, req, requests, replies>>
    BY DEF Release, At, Goes, locals, network
<1>2. pc \in [Thread -> Pcs]
    BY DEF IInv, TypeOK, Pcs
<1>3. \A u \in Thread : u # t => pc[u] \notin {"stamp", "bump", "release"}
    BY <1>1 DEF IInv, LockInv, LockHeld
<1>4. LockHeld'
    BY <1>1, <1>2, <1>3 DEF LockHeld
<1>5. Taken' /\ Unsent'
    BY <1>1, <1>2 DEF IInv, LockInv, Taken, Unsent, Stamped
<1>6. CountersUnique'
    BY <1>1, <1>2 DEF IInv, LockInv, CountersUnique, Stamped, Thread
<1> QED BY <1>4, <1>5, <1>6 DEF LockInv

\* A request that is sent has a counter that is under way nowhere else.
LEMMA SendKeepsLock ==
    ASSUME IInv, NEW t \in Thread, Send(t)
    PROVE  LockInv'
<1>1. /\ pc[t] = "send" /\ UNCHANGED <<counter, mutex, req, replies>>
    BY DEF Send, At, locals
<1>2. pc \in [Thread -> Pcs] /\ requests \in Seq(Request)
    BY DEF IInv, TypeOK, Pcs
<1>3. Quiet
    BY <1>1, <1>2 DEF Send, Goes, Dies, Quiet, Later, Stamped
<1>4. CASE requests' = requests
    BY <1>1, <1>3, <1>4, QuietLocal DEF IInv
<1>5. CASE requests' # requests
  <2> DEFINE r == [n |-> req[t], by |-> t]
  <2>1. requests' = Append(requests, r) /\ pc' = [pc EXCEPT ![t] = "select"]
      BY <1>5 DEF Send, Goes
  <2>2. r \in Request /\ r.n = req[t]
      BY DEF IInv, TypeOK, Request
  <2>3. /\ DOMAIN requests' = 1 .. Len(requests) + 1 /\ Len(requests) \in Nat
        /\ DOMAIN requests = 1 .. Len(requests)
        /\ \A i \in 1 .. Len(requests) : requests'[i] = requests[i]
        /\ requests'[Len(requests) + 1] = r
      BY <1>2, <2>1, <2>2, AppendProperties, LenProperties
  <2>4. /\ \A i \in DOMAIN requests : requests[i].n # req[t]
        /\ req[t] < counter
      BY <1>1 DEF IInv, LockInv, Unsent, Taken, Stamped
  <2>5. LockHeld' /\ Taken'
      BY <1>1, <1>3 DEF IInv, LockInv, Quiet, LockHeld, Taken, Stamped, Later
  <2>6. \A i, j \in DOMAIN requests' : i # j => requests'[i].n # requests'[j].n
    <3>1. \A i, j \in DOMAIN requests : i # j => requests[i].n # requests[j].n
        BY DEF IInv, LockInv, CountersUnique
    <3> QED BY <2>2, <2>3, <2>4, <3>1
  <2>7. \A i \in DOMAIN requests' : requests'[i].n < counter'
    <3>1. \A i \in DOMAIN requests : requests[i].n < counter
        BY DEF IInv, LockInv, CountersUnique
    <3> QED BY <1>1, <2>2, <2>3, <2>4, <3>1
  <2>8. Stamped("user")' /\ Stamped("beat")' => req'["user"] # req'["beat"]
      BY <1>1, <1>3 DEF IInv, LockInv, CountersUnique, Quiet, Stamped, Later, Thread
  <2>9. \A u \in Thread : u # t /\ Stamped(u) => req[u] # req[t]
      BY <1>1 DEF IInv, LockInv, CountersUnique, Stamped, Thread
  <2>10. Unsent'
    <3>1. ASSUME NEW u \in Thread, pc'[u] \in {"bump", "release", "send"}
          PROVE  \A i \in DOMAIN requests' : requests'[i].n # req'[u]
      <4>1. u # t /\ pc[u] \in {"bump", "release", "send"}
          BY <1>2, <2>1, <3>1
      <4>2. req[u] # req[t]
          BY <2>9, <4>1 DEF Stamped
      <4>3. \A i \in DOMAIN requests : requests[i].n # req[u]
          BY <4>1 DEF IInv, LockInv, Unsent
      <4> QED BY <1>1, <2>2, <2>3, <4>2, <4>3
    <3> QED BY <3>1 DEF Unsent
  <2>11. \A i \in DOMAIN replies' : replies'[i].n < counter'
      BY <1>1 DEF IInv, LockInv, CountersUnique
  <2> QED BY <2>5, <2>6, <2>7, <2>8, <2>10, <2>11 DEF LockInv, CountersUnique
<1> QED BY <1>4, <1>5

LEMMA LockStep ==
    ASSUME IInv, Next
    PROVE  LockInv'
<1>0. pc \in [Thread -> Pcs] /\ TypeOK /\ LockInv
    BY DEF IInv, TypeOK, Pcs
<1>1. ASSUME NEW t \in Thread, Begin(t)  PROVE LockInv'
  <2>1. Quiet /\ UNCHANGED <<requests, replies>>
      BY <1>0, <1>1 DEF Begin, At, Goes, Quiet, shared, locals, network
  <2> QED BY <1>0, <2>1, QuietLocal
<1>2. ASSUME NEW t \in Thread,
             \/ Acquire(t) \/ Stamp(t) \/ Bump(t) \/ Release(t) \/ Send(t)
      PROVE  LockInv'
    BY <1>2, AcquireKeepsLock, StampKeepsLock, BumpKeepsLock, ReleaseKeepsLock, SendKeepsLock
<1>3. ASSUME NEW t \in Thread,
             SelectReady(t) \/ SelectTimeout(t) \/ RecvEnd(t) \/ Assign(t)
      PROVE  LockInv'
  <2>1. Quiet
      BY <1>0, <1>3 DEF SelectReady, SelectTimeout, RecvEnd, Assign, At, Goes, Dies,
                        Returns, Quiet, Later, Stamped, shared, locals, network
  <2>2. UNCHANGED <<requests, replies>>
      BY <1>3 DEF SelectReady, SelectTimeout, RecvEnd, Assign, network
  <2> QED BY <1>0, <2>1, <2>2, QuietLocal
<1>4. ASSUME NEW t \in Thread, Parse(t) \/ Compare(t)
      PROVE  LockInv'
  <2>1. Quiet
      BY <1>0, <1>4 DEF Parse, Compare, At, Goes, Dies, Returns,
                        Quiet, Later, Stamped, shared, locals
  <2>2. UNCHANGED <<requests, replies>>
      BY <1>4 DEF Parse, Compare, network
  <2> QED BY <1>0, <2>1, <2>2, QuietLocal
<1>5. CASE Show \/ ShowNothing \/ Quit \/ Interrupt
  <2>1. Quiet
      BY <1>0, <1>5 DEF Show, ShowNothing, Quit, Interrupt, Goes, Dies, Quiet, shared, locals
  <2>2. UNCHANGED <<requests, replies>>
      BY <1>5 DEF Show, ShowNothing, Quit, Interrupt, network
  <2> QED BY <1>0, <2>1, <2>2, QuietLocal
<1>6. ASSUME NEW t \in Thread, Recv(t)  PROVE LockInv'
  <2>1. Quiet /\ requests' = requests
      BY <1>0, <1>6 DEF Recv, At, Goes, Quiet, Later, Stamped, shared
  <2>2. PICK n \in 1 .. Len(replies) : replies' = SubSeq(replies, n + 1, Len(replies))
      BY <1>6 DEF Recv
  <2>3. \A i \in DOMAIN replies' : n + i \in DOMAIN replies /\ replies'[i] = replies[n + i]
      BY <1>0, <2>2, SubSeqProperties DEF TypeOK
  <2>4. \A i \in DOMAIN replies' : replies'[i].n < counter
      BY <1>0, <2>3 DEF LockInv, CountersUnique
  <2> QED BY <1>0, <2>1, <2>4, QuietKeepsLock
<1>7. CASE Serve
  <2>1. Quiet
      BY <1>7 DEF Serve, ServeAnswering, ServeWith, Quiet, shared, locals
  <2>2. requests[1] \in Request /\ requests[1].n < counter
      BY <1>0, <1>7 DEF Serve, ServeAnswering, ServeWith, TypeOK, LockInv, CountersUnique
  <2>3. PICK a \in Answers(requests[1]) \cup {<<>>} : replies' = replies \o a
      BY <1>7 DEF Serve, ServeAnswering, ServeWith
  <2>4. a \in Seq(Piece) /\ \A i \in DOMAIN a : a[i].n = requests[1].n
      BY <2>2, AnswerPieces
  <2>5. ASSUME NEW i \in DOMAIN replies' PROVE replies'[i].n < counter
    <3>1. /\ replies \in Seq(Piece) /\ Len(replies) \in Nat /\ Len(a) \in Nat
          /\ DOMAIN replies = 1 .. Len(replies) /\ DOMAIN a = 1 .. Len(a)
        BY <1>0, <2>4, LenProperties DEF TypeOK
    <3>2. /\ i \in 1 .. Len(replies) + Len(a)
          /\ replies'[i] = IF i <= Len(replies) THEN replies[i] ELSE a[i - Len(replies)]
        BY <2>3, <2>4, <3>1, ConcatProperties, LenProperties
    <3>3. CASE i <= Len(replies)
        BY <1>0, <3>1, <3>2, <3>3 DEF LockInv, CountersUnique
    <3>4. CASE i > Len(replies)
      <4>1. i - Len(replies) \in DOMAIN a
          BY <3>1, <3>2, <3>4
      <4> QED BY <2>2, <2>4, <3>1, <3>2, <3>4, <4>1
    <3> QED BY <3>1, <3>2, <3>3, <3>4
  <2>6. \E k \in 1 .. Len(requests) : requests' = SubSeq(requests, k + 1, Len(requests))
      BY <1>7 DEF Serve, ServeAnswering, ServeWith
  <2> QED BY <1>0, <2>1, <2>5, <2>6, QuietKeepsLock
<1>8. CASE ServerEnds
  <2>1. Quiet /\ requests' = <<>> /\ replies' = replies
      BY <1>8 DEF ServerEnds, Quiet, shared, locals
  <2>2. \A i \in DOMAIN replies' : replies'[i].n < counter
      BY <1>0, <2>1 DEF LockInv, CountersUnique
  <2> QED BY <1>0, <2>1, <2>2, QuietKeepsLock
<1>9. CASE Ended
  <2>1. Quiet /\ UNCHANGED <<requests, replies>>
      BY <1>9 DEF Ended, Quiet, vars, shared, locals, network
  <2> QED BY <1>0, <2>1, QuietLocal
<1> QED BY <1>1, <1>2, <1>3, <1>4, <1>5, <1>6, <1>7, <1>8, <1>9 DEF Next, Step

-----------------------------------------------------------------------------
(* The parser, and the threads that wait                                   *)

\* A parser is never taken away again.
LEMMA ParserStep ==
    ASSUME IInv, Next
    PROVE  HasParser'
<1>0. /\ pc \in [Thread -> Pcs] /\ HasParser
      /\ response \in [Thread -> Data] /\ parser \in Parser \cup {NULL}
    BY DEF IInv, TypeOK, Pcs
<1>1. parser # NULL => parser' # NULL
    <2>1. parser' \in {parser} \cup Parser
      <3>1. ASSUME NEW t \in Thread, Assign(t) PROVE parser' \in Parser
          BY <1>0, <3>1 DEF Assign, Parser
      <3>2. parser # NULL => [parser EXCEPT !.counter = CounterIn(parser.data)] \in Parser
          BY <1>0 DEF Parser, CounterIn, Data, Piece, EOF
      <3>3. ASSUME NEW t \in Thread, Parse(t) PROVE parser' \in Parser
          BY <1>0, <3>2, <3>3 DEF Parse, At, HasParser
      <3>4. CASE Show
          BY <3>2, <3>4 DEF Show
      <3>5. ASSUME NEW t \in Thread, Begin(t) \/ Acquire(t) \/ Stamp(t) \/ Bump(t) \/ Release(t)
                                     \/ Send(t) \/ SelectReady(t) \/ SelectTimeout(t)
            PROVE  parser' = parser
          BY <3>5 DEF Begin, Acquire, Stamp, Bump, Release, Send, SelectReady, SelectTimeout, shared
      <3>6. ASSUME NEW t \in Thread, Recv(t) \/ RecvEnd(t) \/ Compare(t)
            PROVE  parser' = parser
          BY <3>6 DEF Recv, RecvEnd, Compare, shared
      <3>7. ASSUME ShowNothing \/ Quit \/ Interrupt \/ Serve \/ ServerEnds \/ Ended
            PROVE  parser' = parser
          BY <3>7 DEF ShowNothing, Quit, Interrupt, Serve, ServeAnswering, ServeWith, ServerEnds, Ended, vars, shared
      <3> QED BY <3>1, <3>3, <3>4, <3>5, <3>6, <3>7 DEF Next, Step
    <2> QED BY <2>1, ParserAssumption
<1>2. ASSUME NEW t \in Thread, pc'[t] \in {"parse", "compare"},
             pc[t] \notin {"parse", "compare"}
      PROVE  Assign(t)
  <2>1. ASSUME NEW u \in Thread, Begin(u) \/ Acquire(u) \/ Stamp(u) \/ Bump(u) \/ Release(u)
                                 \/ SelectReady(u)
        PROVE  FALSE
      BY <1>0, <1>2, <2>1 DEF Begin, Acquire, Stamp, Bump, Release, SelectReady, Goes
  <2>2. ASSUME NEW u \in Thread, Send(u) \/ SelectTimeout(u) \/ Recv(u) \/ RecvEnd(u) \/ Compare(u)
        PROVE  FALSE
      BY <1>0, <1>2, <2>2 DEF Send, SelectTimeout, Recv, RecvEnd, Compare, Goes, Dies, Returns
  <2>3. ASSUME NEW u \in Thread, Parse(u) PROVE FALSE
      BY <1>0, <1>2, <2>3 DEF Parse, At, Goes, Dies
  <2>4. ASSUME Show \/ ShowNothing \/ Quit \/ Interrupt PROVE FALSE
      BY <1>0, <1>2, <2>4 DEF Show, ShowNothing, Quit, Interrupt, Goes, Dies
  <2>5. ASSUME Serve \/ ServerEnds \/ Ended PROVE FALSE
      BY <1>2, <2>5 DEF Serve, ServeAnswering, ServeWith, ServerEnds, Ended, vars
  <2>6. ASSUME NEW u \in Thread, Assign(u) PROVE u = t
      BY <1>0, <1>2, <2>6 DEF Assign, Goes
  <2> QED BY <2>1, <2>2, <2>3, <2>4, <2>5, <2>6 DEF Next, Step
<1>3. ASSUME NEW t \in Thread, Assign(t)  PROVE parser' # NULL
  <2>1. parser' \in Parser
      BY <1>0, <1>3 DEF Assign, Parser
  <2> QED BY <2>1, ParserAssumption
<1> QED BY <1>0, <1>1, <1>2, <1>3 DEF HasParser

\* A thread comes to recv only when there is something to read, and one that
\* takes it leaves recv.
LEMMA WaitingStep ==
    ASSUME IInv, Next
    PROVE  NeverBothWaiting'
<1>0. pc \in [Thread -> Pcs] /\ NeverBothWaiting
    BY DEF IInv, TypeOK, Pcs
<1>1. SUFFICES ASSUME pc'["user"] = "recv", pc'["beat"] = "recv", serverUp', replies' = <<>>
               PROVE  FALSE
    BY DEF NeverBothWaiting, Waiting, At
<1>2. ASSUME NEW t \in Thread, Begin(t) \/ Acquire(t) \/ Stamp(t) \/ Bump(t) \/ Release(t)
      PROVE  FALSE
    BY <1>0, <1>1, <1>2 DEF Begin, Acquire, Stamp, Bump, Release, Goes, network, Thread,
                            NeverBothWaiting, Waiting, At
<1>3. ASSUME NEW t \in Thread, Send(t) \/ SelectTimeout(t) \/ RecvEnd(t) \/ Compare(t)
      PROVE  FALSE
    BY <1>0, <1>1, <1>3 DEF Send, SelectTimeout, RecvEnd, Compare, Goes, Dies, Returns, Thread
<1>4. ASSUME NEW t \in Thread, SelectReady(t)  PROVE FALSE
    BY <1>1, <1>4 DEF SelectReady, Readable, network
<1>5. ASSUME NEW t \in Thread, Recv(t) \/ Assign(t) \/ Parse(t)  PROVE FALSE
    BY <1>0, <1>1, <1>5 DEF Recv, Assign, Parse, At, Goes, Dies, Thread
<1>6. CASE Show \/ ShowNothing \/ Quit \/ Interrupt
    BY <1>0, <1>1, <1>6 DEF Show, ShowNothing, Quit, Interrupt, Goes, Dies, Thread
<1>7. CASE Serve
  <2>1. replies = <<>>
    <3>1. PICK a \in Answers(requests[1]) \cup {<<>>} : replies' = replies \o a
        BY <1>7 DEF Serve, ServeAnswering, ServeWith
    <3>2. requests[1] \in Request
        BY <1>7 DEF IInv, TypeOK, Serve, ServeAnswering, ServeWith
    <3>3. a \in Seq(Piece) /\ replies \in Seq(Piece)
        BY <3>2, AnswerPieces DEF IInv, TypeOK
    <3> QED BY ONLY <1>1, <3>1, <3>3, ConcatSimplifications
  <2> QED BY <1>0, <1>1, <1>7, <2>1 DEF Serve, ServeAnswering, ServeWith, NeverBothWaiting, Waiting, At
<1>8. CASE ServerEnds \/ Ended
    BY <1>0, <1>1, <1>8 DEF ServerEnds, Ended, vars, network, NeverBothWaiting, Waiting, At
<1> QED BY <1>2, <1>3, <1>4, <1>5, <1>6, <1>7, <1>8 DEF Next, Step

-----------------------------------------------------------------------------
(* Theorems                                                                *)

LEMMA Initially == Init => IInv
<1> SUFFICES ASSUME Init PROVE IInv
    OBVIOUS
<1>1. TypeOK
  <2>1. requests \in Seq(Request) /\ replies \in Seq(Piece)
      BY EmptySeq DEF Init
  <2>2. counter \in Nat /\ req \in [Thread -> 0 .. counter]
      BY ClientAssumption DEF Init
  <2>3. /\ mode \in {"interactive", "single"} /\ pc \in [Thread -> Pcs]
        /\ mutex = NULL /\ parser = NULL
        /\ response \in [Thread -> Data]
        /\ interrupted \in BOOLEAN /\ serverUp \in BOOLEAN
      BY DEF Init, Data, Pcs
  <2> QED BY <2>1, <2>2, <2>3 DEF TypeOK, Pcs
<1>2. LockInv /\ HasParser /\ NeverBothWaiting
    BY DEF Init, LockInv, LockHeld, Taken, Unsent, Stamped, CountersUnique,
           HasParser, NeverBothWaiting, Waiting, At, Thread
<1> QED BY <1>1, <1>2 DEF IInv

LEMMA Stuttering == IInv /\ UNCHANGED vars => IInv'
    BY DEF IInv, TypeOK, LockInv, LockHeld, Taken, Unsent, Stamped, CountersUnique,
           HasParser, NeverBothWaiting, Waiting, At, vars, shared, locals, network

THEOREM Invariance == Spec => []IInv
<1>1. Init => IInv
    BY Initially
<1>2. IInv /\ [Next]_vars => IInv'
    BY TypeStep, LockStep, ParserStep, WaitingStep, Stuttering DEF IInv
<1> QED BY <1>1, <1>2, PTL DEF Spec

\* Every variable keeps its type.
THEOREM ClientTypes == Spec => []TypeOK
<1>1. IInv => TypeOK  BY DEF IInv
<1> QED BY <1>1, Invariance, PTL

\* However long the client runs, replies can be told apart by their counter.
THEOREM CountersAreUnique == Spec => []CountersUnique
<1>1. IInv => CountersUnique  BY DEF IInv, LockInv
<1> QED BY <1>1, Invariance, PTL

\* The two threads are never both blocked in recv.
THEOREM OneCanGoOn == Spec => []NeverBothWaiting
<1>1. IInv => NeverBothWaiting  BY DEF IInv
<1> QED BY <1>1, Invariance, PTL
=============================================================================
