---------------------------- MODULE ReceiverProps ----------------------------
(***************************************************************************)
(* What the polling loop promises, for the specification of Receiver.      *)
(***************************************************************************)
EXTENDS Receiver

\* At the end of a stream the loop overwrites the descriptor with -1 (receiver.c:187-192), so
\* receiver_cleanup closes descriptor 1, and the connection's own stays open.  What the loop
\* promises about descriptors, it promises until then.
Intact == file[1] = "stdout" /\ \A k \in DOMAIN sockets : sockets[k].fd # -1

\* A deserializer only ever gets bytes of the connection it was created for, although
\* receiver_cleanup moves connections about in two arrays and the kernel gives closed
\* descriptors out again.
BytesFollowSocket ==
  Intact => \A k \in DOMAIN sockets :
    sockets[k].fd > 0 => file[sockets[k].fd] = sockets[k].de.of

Uses(n) == {k \in DOMAIN sockets : sockets[k].fd \in {n, -n}}

\* No descriptor leaks and none is closed twice: the connections in the array are
\* exactly the accepted ones, dead ones included until receiver_cleanup closes them.
DescriptorsTracked ==
  Intact => \A n \in Fd : IF file[n] \in Client THEN \E k \in Uses(n) : Uses(n) = {k}
                          ELSE Uses(n) = {}

\* "Remove all dead connections before polling" (receiver.c:134): none is left when the
\* loop blocks, although receiver_cleanup does not look at the connection it moves.
NoDeadConnectionPolled ==
  Intact /\ pc = "poll" => \A k \in DOMAIN sockets : sockets[k].fd > 0

\* What makes these three inductive.  A connection is served under its own descriptor until
\* it is dropped or at its end; a round of the loop drops at most one connection, after those
\* it found at their end; and only the reading loop leaves dead connections behind.
Socket == [fd: Int, revents: {"none", "POLLIN", "POLLHUP"}, de: [of: Client, size: Int]]

TypeOK ==
  /\ backlog \in Seq(Client) /\ listening \in BOOLEAN /\ (listening => backlog # <<>>)
  /\ file \in [Fd -> Client \cup {"stdout", "free"}]
  /\ sockets \in Seq(Socket) /\ i \in Nat \ {0}
  /\ pc \in {"check", "poll", "accept", "validate", "read", "detect", "exit"}

Number(k) == IF sockets[k].fd < 0 THEN -sockets[k].fd ELSE sockets[k].fd
AtEnd(k) == sockets[k].fd = -1

OwnDescriptor ==
  \A k \in DOMAIN sockets :
    AtEnd(k) \/ (Number(k) \in Fd \ {1} /\ file[Number(k)] = sockets[k].de.of)
NoneShared == \A k, m \in DOMAIN sockets : Number(k) = Number(m) => k = m \/ AtEnd(k)
NoneLeaked == Intact => \A n \in Fd : file[n] \in Client => \E k \in DOMAIN sockets : Number(k) = n
DroppedLast ==
  \A k, m \in DOMAIN sockets : sockets[k].fd < 0 /\ sockets[m].fd < 0 /\ k < m => AtEnd(k)
DeadBehind ==
  /\ pc \in {"poll", "accept", "validate"} => \A k \in DOMAIN sockets : sockets[k].fd > 0
  /\ pc = "read" => \A k \in DOMAIN sockets : sockets[k].fd > 0 \/ (AtEnd(k) /\ k < i)

ReceiverInv ==
  /\ TypeOK
  /\ file[1] = "stdout" => OwnDescriptor /\ NoneShared /\ NoneLeaked /\ DroppedLast /\ DeadBehind

Fairness == WF_vars(Main)
FairSpec == Spec /\ Fairness

AllRight(c) == \A k \in DOMAIN sent[c] : sent[c][k].magic = "right"

\* A client that sends valid messages and stays has every one of them handed over, no
\* matter which other clients hang up, stop in the middle of a message or send wrong ones.
EveryMessageHandedOver ==
  \A c \in Client, k \in 1 .. MaxMessages :
    (Len(sent[c]) >= k) ~> (handed[c] >= k \/ conn[c] = "closed" \/ ~AllRight(c)
                              \/ soft = 1 \/ hard = 1 \/ ~Intact)

\* A soft signal that finds the loop blocked in poll without a connection ends it.
SoftShutdownWhenAlone == (pc = "detect" /\ soft = 1 /\ sockets = <<>>) ~> pc = "exit"
=============================================================================
