----------------------------- MODULE Connection -----------------------------
(***************************************************************************)
(* One client connection as the polling loop sees it: the client writes    *)
(* messages into a socket, receiver_poll (src/src/server/receiver.c) reads *)
(* them piecewise through a deserializer and hands complete ones over to   *)
(* the workers.                                                            *)
(*                                                                         *)
(* A byte is its position in the stream, so that a message handed over is  *)
(* a range of positions and can be compared with the range the client      *)
(* wrote.  A read returns any number of bytes up to what was asked for and *)
(* is there.  A client may die in the middle of a message.                 *)
(***************************************************************************)
EXTENDS Deserializer, Integers, Sequences

CONSTANTS
  Length,        \* payload lengths
  MaxMessages    \* bound: messages a client writes

ASSUME LengthAssumption == Length \subseteq Nat /\ MaxMessages \in Nat

VARIABLES
  stream,   \* the messages written: first position, payload length, its magic code
  total,    \* the position after the last message
  written,  \* bytes in the socket, less than total when the client died early
  closed,   \* "open", or "closed" once the client has gone
  offset,   \* bytes read from the socket
  size,     \* size_in_bytes of the deserializer
  handed,   \* the messages handed over: first position and size
  conn      \* "polled", or "dropped" once the receiver has closed the connection

vars == <<stream, total, written, closed, offset, size, handed, conn>>

Init ==
  /\ stream = <<>> /\ total = 0 /\ written = 0 /\ closed = "open"
  /\ offset = 0 /\ size = EmptyDeserializer /\ handed = <<>> /\ conn = "polled"

-----------------------------------------------------------------------------
(* The client. *)

Write(l, magic, n) ==
  /\ closed = "open" /\ Len(stream) < MaxMessages
  /\ stream' = Append(stream, [at |-> total, length |-> l, magic |-> magic])
  /\ total' = total + HEADER_SIZE_IN_BYTES + l
  /\ written' = written + n
  /\ UNCHANGED <<offset, size, handed, conn>>

Send(l, magic) == Write(l, magic, HEADER_SIZE_IN_BYTES + l) /\ UNCHANGED closed

Die(l, magic) ==
  /\ \E n \in 0 .. HEADER_SIZE_IN_BYTES + l - 1 : Write(l, magic, n)
  /\ closed' = "closed"

-----------------------------------------------------------------------------
(* The receiver. *)

\* What the bytes at position p and after it decode to: the header the client wrote
\* there, or any header where no message begins.
Decoded(p) ==
  IF \E i \in 1 .. Len(stream) : stream[i].at = p
  THEN {[length |-> stream[i].length, magic |-> stream[i].magic] :
          i \in {j \in 1 .. Len(stream) : stream[j].at = p}}
  ELSE [length: Length, magic: {"right", "wrong"}]

Front == offset - size

\* The connection is dropped because the buffered bytes are not valid, because poll
\* reports more than POLLIN once the client has gone, or because it has gone and
\* nothing is left to read.
Drop ==
  /\ conn = "polled"
  /\ \/ \E h \in Decoded(Front) : ~Validate(size, h)
     \/ closed = "closed"
  /\ conn' = "dropped"
  /\ UNCHANGED <<stream, total, written, closed, offset, size, handed>>

Read_unvalidated(n) ==
  /\ conn = "polled"
  /\ \E h \in Decoded(Front) :
       /\ n <= Missing(size, h)
       /\ offset' = offset + n
       /\ IF Complete(size + n, h)
          THEN /\ handed' = Append(handed, [at |-> Front, size |-> size + n])
               /\ size' = EmptyDeserializer
          ELSE size' = size + n /\ UNCHANGED handed
  /\ UNCHANGED <<stream, total, written, closed, conn>>

\* Every connection is validated before any is read; then n bytes arrive, and a
\* complete message goes to a worker.
Read(n) ==
  /\ conn = "polled"
  /\ \E h \in Decoded(Front) :
       /\ Validate(size, h)
       /\ n <= Missing(size, h)
       /\ offset' = offset + n
       /\ IF Complete(size + n, h)
          THEN /\ handed' = Append(handed, [at |-> Front, size |-> size + n])
               /\ size' = EmptyDeserializer
          ELSE size' = size + n /\ UNCHANGED handed
  /\ UNCHANGED <<stream, total, written, closed, conn>>

ReadSome == \E n \in 1 .. written - offset : Read(n)

Receive == ReadSome \/ Drop

Next ==
  \/ \E l \in Length, magic \in {"right", "wrong"} : Send(l, magic) \/ Die(l, magic)
  \/ Receive

Spec == Init /\ [][Next]_vars
=============================================================================
