--------------------------- MODULE ConnectionProps ---------------------------
(***************************************************************************)
(* What the deserializer promises, for the specification of Connection.    *)
(***************************************************************************)
EXTENDS Connection

Message == [at: Nat, length: Length, magic: {"right", "wrong"}]

\* Every variable stays within its type; in particular the reader is never ahead of the
\* bytes that are there.
TypeOK ==
  /\ stream \in Seq(Message) /\ handed \in Seq([at: Nat, size: Nat])
  /\ total \in Nat /\ written \in Nat /\ offset \in Nat /\ size \in Nat
  /\ written <= total /\ offset <= written
  /\ closed \in {"open", "closed"} /\ conn \in {"polled", "dropped"}

\* The messages handed over are the messages written, whole and in the order of
\* writing, however the reads cut the stream (deserializer_detach).
Framing ==
  /\ Len(handed) <= Len(stream)
  /\ \A i \in 1 .. Len(handed) :
       handed[i] = [at |-> stream[i].at, size |-> HEADER_SIZE_IN_BYTES + stream[i].length]

\* "Incomplete messages always need a positive number of bytes!" (receiver.c:181-182):
\* the size_t difference of deserializer_missing is neither zero nor below zero whenever
\* receiver_poll asks for it.
MissingPositive == \A h \in Decoded(Front) : Missing(size, h) > 0

\* A message with a payload is handed over only if its magic code is right: a round of
\* validation always falls between the header and the last byte.  (A bare header can slip
\* through; worker_handle_message ignores it.)
OnlyValidated ==
  \A i \in 1 .. Len(handed) :
    i <= Len(stream) /\ handed[i].size > HEADER_SIZE_IN_BYTES => stream[i].magic = "right"

-----------------------------------------------------------------------------
(* What makes Framing inductive. *)

End(i) == stream[i].at + HEADER_SIZE_IN_BYTES + stream[i].length

\* Where the i-th message begins, or will begin.
Start(i) == IF i <= Len(stream) THEN stream[i].at ELSE total

\* The messages follow one another without a gap.
Contiguous == \A i \in 1 .. Len(stream) : End(i) = Start(i + 1)

\* No two messages begin at the same position.
Ascending == \A i, j \in 1 .. Len(stream) : i < j => stream[i].at < stream[j].at

\* The buffer holds the beginning of the first message that is not handed over yet.
Aligned ==
  /\ Front = Start(Len(handed) + 1)
  /\ size > 0 => Len(handed) < Len(stream) /\ offset < End(Len(handed) + 1)

\* A client that is still there has written its messages whole.
Flushed == closed = "open" => written = total

FramingInv == TypeOK /\ Contiguous /\ Ascending /\ Framing /\ Aligned /\ Flushed

-----------------------------------------------------------------------------
Fairness == WF_vars(ReadSome) /\ WF_vars(Drop)
FairSpec == Spec /\ Fairness

\* A message that is valid, like the ones before it, is handed over unless the client
\* goes away: a message never waits for bytes of the next one.
EveryMessageHandedOver ==
  \A k \in 1 .. MaxMessages :
    (Len(stream) >= k /\ (\A i \in 1 .. Len(stream) : stream[i].magic = "right"))
      ~> (Len(handed) >= k \/ closed = "closed" \/ (\E i \in 1 .. Len(stream) : stream[i].magic = "wrong"))
=============================================================================
