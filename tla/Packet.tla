------------------------------- MODULE Packet -------------------------------
(***************************************************************************)
(* The packet of a connection of the hashr server (server/src/Packet.c):   *)
(* the one buffer that holds a request when it has been read, and the      *)
(* reply to it when that is composed.                                      *)
(*                                                                         *)
(* The unit of the buffer is a word of four bytes: the id of a chunk, its  *)
(* length and an integer are a word each, and the data of a chunk are      *)
(* whole words.  A length is in bytes in the code and in words here.       *)
(***************************************************************************)
EXTENDS Integers, Sequences

CONSTANT BUFLEN         \* Packet_BUFLEN

ASSUME BufferAssumption == BUFLEN \in Nat \ {0}

(* Words *)

Id(s)     == [id |-> s]             \* of a chunk, of the header, or "endm"
Integer(n) == [int |-> n]
Token(t)  == [token |-> t]          \* an integer, the code of a command
Status(s) == [status |-> s]         \* an integer, the code of a status
Data(d)   == [data |-> d]           \* of a key, a value or a pattern
Text      == [text |-> "message"]   \* four characters of a message
Junk      == [junk |-> "malloc"]    \* memory nobody has written to

RequestId == {"CMND", "cntr", "QKEY", "QVAL", "SPAT", "LIMS", "LIMI", "RMET", "RCAP"}
ReplyId   == {"cntr", "STAT", "AKEY", "AVAL", "SRES", "ZAPD", "beat", "ftal",
              "NCON", "METD", "MCAP", "CPTY", "NELM", "COLP"}
Mark      == {"HSHr", "endm"}

CommandToken  == {"beat", "get", "set", "del", "info", "zap", "search", "count", "reorg",
                  "dump", "freebeer"}
CommandStatus == {"INFO_PROVIDED", "INSERTED", "UPDATED", "FOUND", "NOT_FOUND", "DELETED",
                  "NOT_EXISTS", "EMPTY", "ZAPPED", "NO_MATCH", "MATCH_FOUND", "UNCHANGED",
                  "REORGANIZED", "INVALID_COMMAND", "MISSING_PARAM"}

Word == [id : RequestId \cup ReplyId \cup Mark] \cup [int : Int] \cup [token : CommandToken]
          \cup [status : CommandStatus] \cup [data : STRING] \cup {Text, Junk}

\* Utils_getBufInt: four bytes of anything else are some large number.
Number(w) == IF "int" \in DOMAIN w THEN w.int ELSE BUFLEN

(***************************************************************************)
(* The fields of struct Packet that matter.  A length beyond BUFLEN means  *)
(* that the last append has run over the end of the buffer.                *)
(***************************************************************************)
Packet == [buffer : [0 .. BUFLEN - 1 -> Word], length : Int, counter : Int]

NewPacket == [buffer |-> [i \in 0 .. BUFLEN - 1 |-> Junk], length |-> -1, counter |-> -1]

NumberAt(p, i) == IF i \in DOMAIN p.buffer THEN Number(p.buffer[i]) ELSE BUFLEN

(* Reading *)

IsHeaderOk(p) == p.buffer[0] = Id("HSHr")

\* Faulty: the scan goes on to the words that an earlier packet has left
\* behind the end of this one.
ScanUnlimited(p) ==
    LET scan[i \in 0 .. BUFLEN] ==
          IF i >= BUFLEN THEN -1
          ELSE IF p.buffer[i] = Id("endm") THEN 0
          ELSE LET next == i + 2 + NumberAt(p, i + 1)
               IN  IF next \notin i + 2 .. BUFLEN \/ scan[next] = -1 THEN -1
                   ELSE scan[next] + 1
    IN  scan[1]

\* From an index on, the number of chunks, or -1.  What was read ends at the
\* length; a length that leads beyond it ends the scan on its next turn.
ScanFrom(p) ==
    LET scan[i \in 0 .. p.length] ==
          IF p.length < i + 1 THEN -1
          ELSE IF p.buffer[i] = Id("endm") THEN 0
          ELSE LET next == i + 2 + NumberAt(p, i + 1)
               IN  IF next \notin i + 2 .. p.length \/ scan[next] = -1 THEN -1
                   ELSE scan[next] + 1
    IN  scan

ScanChunks(p) == ScanFrom(p)[1]

\* From an index on, the index of the data of the first chunk with the id, or
\* -1.  Nothing but an end mark stops the search; there is one wherever the
\* server searches, so that it never leads out of the buffer.
FindFrom(p, id) ==
    LET find[i \in DOMAIN p.buffer] ==
          IF p.buffer[i] = Id("endm") THEN -1
          ELSE IF p.buffer[i] = Id(id) THEN i + 2
          ELSE LET next == i + 2 + NumberAt(p, i + 1)
               IN  IF next \notin i + 2 .. BUFLEN - 1 THEN -1 ELSE find[next]
    IN  find

FindChunk(p, id) == FindFrom(p, id)[1]

(* Composing *)

Chunk(id, payload) == <<Id(id), Integer(Len(payload))>> \o payload

\* memcpy to the end of what is there.
Appended(p, words) ==
    LET At(i) == i - p.length + 1
    IN  [p EXCEPT !.buffer = [i \in DOMAIN @ |-> IF At(i) \in DOMAIN words
                                                 THEN words[At(i)] ELSE @[i]],
                  !.length = @ + Len(words)]

\* beginChunk, the payload, and endChunk, which goes back to the length.
AppendChunk(p, id, payload) == Appended(p, Chunk(id, payload))

\* The reply will be written from the start of the same buffer.
PrepareForReply(p) == [p EXCEPT !.length = 0]

AppendHeader(p) == Appended(p, <<Id("HSHr")>>)

AppendCounter(p) ==
    IF p.counter = -1 THEN p ELSE AppendChunk(p, "cntr", <<Integer(p.counter)>>)

AppendEndmark(p) == Appended(p, <<Id("endm")>>)
=============================================================================
