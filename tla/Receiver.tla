------------------------------ MODULE Receiver ------------------------------
(***************************************************************************)
(* The polling loop of the server, run by the main thread alone:           *)
(* src/src/server/receiver.c and the loop of inner_main in main.c, with    *)
(* the signal handlers that ask it to stop.                                *)
(*                                                                         *)
(* Its environment is the kernel, modelled from how the loop uses it: the  *)
(* descriptor table, the queue of connections to accept, the bytes in      *)
(* every socket, and poll, which reports at one moment what the loop acts  *)
(* upon later.  A round of the loop is therefore several steps, between    *)
(* which clients connect, write and go away and signals arrive.            *)
(*                                                                         *)
(* The bytes of a connection are those of its first message that has not   *)
(* been handed over; module Connection shows that a deserializer never     *)
(* holds bytes of a later one.  What becomes of a message that is handed   *)
(* over is the subject of WorkloadQueue and HTable.                        *)
(***************************************************************************)
EXTENDS Deserializer, Integers, Sequences, FiniteSetsExt

CONSTANTS
  Client,        \* connections that clients make
  Fd,            \* descriptors that are free at first, and 1, which is stdout
  Length,        \* payload lengths
  MaxMessages,   \* bound: messages a client writes
  Signals,       \* the signals that may arrive, each at most once
  Hangup         \* the clients of which poll reports POLLHUP once they are gone, not POLLIN

ASSUME ReceiverAssumption ==
  /\ Fd \subseteq Nat \ {0} /\ 1 \in Fd
  /\ Length \subseteq Nat /\ MaxMessages \in Nat
  /\ Signals \subseteq {"soft", "hard"}
  /\ Hangup \subseteq Client
  /\ "stdout" \notin Client /\ "free" \notin Client

VARIABLES
  conn,       \* per client: "new", "open" (to the client) or "closed"
  backlog,    \* connections that wait for accept
  sent,       \* per client: the messages it wrote; size counts the bytes in the socket
  handed,     \* per client: how many of its messages were handed over
  file,       \* the descriptor table
  sockets,    \* active_sockets and deserializers, from index 1 on
  listening,  \* whether active_sockets[0] has POLLIN
  accepting,  \* accept_new_connections
  soft, hard, \* the shutdown flags
  pc, i       \* where the main thread is, and the index of its reading loop

clients == <<conn, sent>>
vars == <<conn, backlog, sent, handed, file, sockets, listening, accepting, soft, hard, pc, i>>

Init ==
  /\ conn = [c \in Client |-> "new"] /\ backlog = <<>>
  /\ sent = [c \in Client |-> <<>>] /\ handed = [c \in Client |-> 0]
  /\ file = [n \in Fd |-> IF n = 1 THEN "stdout" ELSE "free"]
  /\ sockets = <<>> /\ listening = FALSE /\ accepting = TRUE
  /\ soft = 0 /\ hard = 0
  /\ pc = "check" /\ i = 1

-----------------------------------------------------------------------------
(* Clients and signals. *)

Connect(c) ==
  /\ conn[c] = "new" /\ pc # "exit"
  /\ conn' = [conn EXCEPT ![c] = "open"]
  /\ backlog' = Append(backlog, c)
  /\ UNCHANGED <<sent, handed, file, sockets, listening, accepting, soft, hard, pc, i>>

Write(c, l, magic, n) ==
  /\ conn[c] = "open" /\ Len(sent[c]) < MaxMessages
  /\ sent' = [sent EXCEPT ![c] = Append(@, [length |-> l, magic |-> magic, size |-> n])]
  /\ UNCHANGED <<backlog, handed, file, sockets, listening, accepting, soft, hard, pc, i>>

Send(c) ==
  /\ \E l \in Length, magic \in {"right", "wrong"} : Write(c, l, magic, HEADER_SIZE_IN_BYTES + l)
  /\ UNCHANGED conn

\* The client goes away, between two messages or in the middle of one.
Close(c) ==
  /\ conn[c] = "open"
  /\ conn' = [conn EXCEPT ![c] = "closed"]
  /\ \/ UNCHANGED <<sent, backlog, handed, file, sockets, listening, accepting, soft, hard, pc, i>>
     \/ \E l \in Length, magic \in {"right", "wrong"} :
          \E n \in 1 .. HEADER_SIZE_IN_BYTES + l - 1 : Write(c, l, magic, n)

\* The handlers set a flag; the poll that they interrupt fails with EINTR.
Signal ==
  /\ pc # "exit"
  /\ \/ "soft" \in Signals /\ soft = 0 /\ soft' = 1 /\ UNCHANGED hard
     \/ "hard" \in Signals /\ hard = 0 /\ hard' = 1 /\ UNCHANGED soft
  /\ pc' = IF pc = "poll" THEN "detect" ELSE pc
  /\ UNCHANGED <<clients, backlog, handed, file, sockets, listening, accepting, i>>

-----------------------------------------------------------------------------
(* The main thread. *)

\* receiver_is_dead: active_sockets_count is Len(sockets) + 1.
IsDead_needs_socket == ~accepting /\ Len(sockets) = 1

IsDead == ~accepting /\ Len(sockets) + 1 <= 1

\* One pass of the loop of receiver_cleanup: the last connection takes the place of a dead
\* one, and is not looked at again there.  The loop runs to last_i, which it moves.
CleanupAt_keeps_deserializers(r, k) ==
  IF k > r.last \/ r.sockets[k].fd > 0 THEN r
  ELSE [sockets |-> [r.sockets EXCEPT ![k] =
                       [r.sockets[r.last] EXCEPT !.de = r.sockets[k].de]],
        last |-> r.last - 1,
        closed |-> r.closed \cup {-r.sockets[k].fd}]

CleanupAt_without_close(r, k) ==
  IF k > r.last \/ r.sockets[k].fd > 0 THEN r
  ELSE [sockets |-> [r.sockets EXCEPT ![k] = r.sockets[r.last]],
        last |-> r.last - 1,
        closed |-> {}]

CleanupAt(r, k) ==
  IF k > r.last \/ r.sockets[k].fd > 0 THEN r
  ELSE [sockets |-> [r.sockets EXCEPT ![k] = r.sockets[r.last]],
        last |-> r.last - 1,
        closed |-> r.closed \cup {-r.sockets[k].fd}]

\* receiver_cleanup.
Cleanup ==
  LET pass[k \in 0 .. Len(sockets)] ==
        IF k = 0 THEN [sockets |-> sockets, last |-> Len(sockets), closed |-> {}]
        ELSE CleanupAt(pass[k - 1], k)
  IN  pass[Len(sockets)]

\* The head of the loop in inner_main, and receiver_poll up to poll.
Check ==
  /\ pc = "check"
  /\ \/ /\ IsDead
        /\ pc' = "exit" /\ hard' = 1
        /\ UNCHANGED <<file, sockets>>
     \/ /\ ~IsDead
        /\ sockets' = SubSeq(Cleanup.sockets, 1, Cleanup.last)
        /\ file' = [n \in Fd |-> IF n \in Cleanup.closed THEN "free" ELSE file[n]]
        /\ pc' = "poll" /\ UNCHANGED hard
  /\ UNCHANGED <<clients, backlog, handed, listening, accepting, soft, i>>

NoMessage == [length |-> 0, magic |-> "right", size |-> 0]

\* The message that a deserializer is in the middle of.
Current(de) ==
  IF handed[de.of] < Len(sent[de.of]) THEN sent[de.of][handed[de.of] + 1] ELSE NoMessage

\* The number of its bytes that wait in the socket.
Waiting(de) == Current(de).size - de.size

\* poll ignores a negative descriptor; of a closed one it reports POLLNVAL, which the
\* loop treats like POLLHUP.
Event(s) ==
  CASE s.fd < 0 \/ file[s.fd] = "stdout" -> "none"
    [] s.fd >= 0 /\ file[s.fd] = "free" -> "POLLHUP"
    [] OTHER -> IF conn[file[s.fd]] = "closed" THEN (IF file[s.fd] \in Hangup THEN "POLLHUP" ELSE "POLLIN")
                ELSE IF Waiting(s.de) > 0 THEN "POLLIN" ELSE "none"

Ready == backlog # <<>> \/ \E k \in DOMAIN sockets : Event(sockets[k]) # "none"

\* poll returns once something is ready.
Poll ==
  /\ pc = "poll" /\ Ready
  /\ listening' = (backlog # <<>>)
  /\ sockets' = [k \in DOMAIN sockets |-> [sockets[k] EXCEPT !.revents = Event(sockets[k])]]
  /\ pc' = "accept"
  /\ UNCHANGED <<clients, backlog, handed, file, accepting, soft, hard, i>>

FreeFds == {n \in Fd : file[n] = "free"}

\* receiver_add_new_connection: accept takes the lowest free descriptor, or fails.
Accept ==
  /\ pc = "accept"
  /\ \/ /\ listening /\ accepting /\ FreeFds # {}
        /\ LET fd == CHOOSE n \in FreeFds : \A m \in FreeFds : n <= m
               c == Head(backlog)
           IN  /\ file' = [file EXCEPT ![fd] = c]
               /\ sockets' = Append(sockets,
                    [fd |-> fd, revents |-> "none", de |-> [of |-> c, size |-> EmptyDeserializer]])
        /\ backlog' = Tail(backlog)
     \/ /\ ~(listening /\ accepting /\ FreeFds # {})
        /\ UNCHANGED <<file, sockets, backlog>>
  /\ listening' = FALSE
  /\ pc' = "validate"
  /\ UNCHANGED <<clients, handed, accepting, soft, hard, i>>

Invalid == {k \in DOMAIN sockets : ~Validate(sockets[k].de.size, Current(sockets[k].de))}

DropAt_nothing(k) == sockets

\* A dropped connection is marked by a negative descriptor.
DropAt(k) == [sockets EXCEPT ![k].fd = -@]

ValidateAll_every_one ==
  /\ pc = "validate"
  /\ sockets' = [k \in DOMAIN sockets |-> IF k \in Invalid THEN DropAt(k)[k] ELSE sockets[k]]
  /\ pc' = (IF Invalid = {} THEN "read" ELSE "detect")
  /\ i' = 1
  /\ UNCHANGED <<clients, backlog, handed, file, listening, accepting, soft, hard>>

\* The first connection that is not valid is dropped, and the round ends.
ValidateAll ==
  /\ pc = "validate"
  /\ \/ /\ Invalid = {}
        /\ pc' = "read" /\ i' = 1
        /\ UNCHANGED sockets
     \/ /\ Invalid # {}
        /\ sockets' = DropAt(CHOOSE k \in Invalid : \A m \in Invalid : k <= m)
        /\ pc' = "detect" /\ UNCHANGED i
  /\ UNCHANGED <<clients, backlog, handed, file, listening, accepting, soft, hard>>

\* The reading loop stands at connection i, of which poll reported an event, or none.
Reading(event) == pc = "read" /\ i <= Len(sockets) /\ sockets[i].revents = event

ReadNothing ==
  /\ Reading("none")
  /\ i' = i + 1
  /\ UNCHANGED <<clients, backlog, handed, file, sockets, listening, accepting, soft, hard, pc>>

\* A round ends early at the first connection that hangs up.
ReadHangup ==
  /\ Reading("POLLHUP")
  /\ sockets' = DropAt(i)
  /\ pc' = "detect"
  /\ UNCHANGED <<clients, backlog, handed, file, listening, accepting, soft, hard, i>>

\* At the end of a stream the descriptor is overwritten.
ReadEof ==
  /\ Reading("POLLIN") /\ Waiting(sockets[i].de) = 0
  /\ sockets' = [sockets EXCEPT ![i].fd = -1, ![i].revents = "none"]
  /\ i' = i + 1
  /\ UNCHANGED <<clients, backlog, handed, file, listening, accepting, soft, hard, pc>>

\* n bytes arrive, and a complete message is handed over.
ReadBytes(n) ==
  /\ Reading("POLLIN")
  /\ LET de == sockets[i].de
         m == Current(de)
         done == Complete(de.size + n, m)
     IN  /\ n <= Waiting(de) /\ n <= Missing(de.size, m)
         /\ sockets' = [sockets EXCEPT ![i].revents = "none",
              ![i].de.size = IF done THEN EmptyDeserializer ELSE de.size + n]
         /\ handed' = IF done THEN [handed EXCEPT ![de.of] = @ + 1] ELSE handed
  /\ i' = i + 1
  /\ UNCHANGED <<clients, backlog, file, listening, accepting, soft, hard, pc>>

\* No read asks for more than this.
LargestRead == HEADER_SIZE_IN_BYTES + Max(Length \cup {0})

ReadDone ==
  /\ pc = "read" /\ i > Len(sockets)
  /\ pc' = "detect"
  /\ UNCHANGED <<clients, backlog, handed, file, sockets, listening, accepting, soft, hard, i>>

\* poll fails, and no signal is the reason: the loop ends unless one has arrived.
PollFails ==
  /\ pc = "poll"
  /\ \/ soft = 0 /\ hard = 0 /\ pc' = "exit" /\ hard' = 1
     \/ (soft = 1 \/ hard = 1) /\ pc' = "detect" /\ UNCHANGED hard
  /\ UNCHANGED <<clients, backlog, handed, file, sockets, listening, accepting, soft, i>>

\* The end of the loop in inner_main.
Detect ==
  /\ pc = "detect"
  /\ \/ hard = 1 /\ pc' = "exit" /\ UNCHANGED accepting
     \/ hard = 0 /\ soft = 1 /\ accepting' = FALSE /\ pc' = "check"
     \/ hard = 0 /\ soft = 0 /\ pc' = "check" /\ UNCHANGED accepting
  /\ UNCHANGED <<clients, backlog, handed, file, sockets, listening, soft, hard, i>>

Main ==
  \/ Check \/ Poll \/ Accept \/ ValidateAll
  \/ ReadNothing \/ ReadHangup \/ ReadEof \/ (\E n \in 1 .. LargestRead : ReadBytes(n)) \/ ReadDone
  \/ Detect

Next == (\E c \in Client : Connect(c) \/ Send(c) \/ Close(c)) \/ Signal \/ PollFails \/ Main

Spec == Init /\ [][Next]_vars
=============================================================================
