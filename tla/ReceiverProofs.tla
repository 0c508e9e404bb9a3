--------------------------- MODULE ReceiverProofs ---------------------------
(***************************************************************************)
(* Proofs about the polling loop, for any number of clients, descriptors,  *)
(* messages and bytes.                                                     *)
(***************************************************************************)
EXTENDS ReceiverProps, ProofLemmas

USE ReceiverAssumption, HeaderAssumption DEF ReceiverAssumption, HeaderAssumption

-----------------------------------------------------------------------------
(* What receiver_cleanup computes. *)

CleanupStart == [sockets |-> sockets, last |-> Len(sockets), closed |-> {}]

\* g is the sequence of the passes of the loop.
Passes(g) ==
  /\ g[0] = CleanupStart
  /\ \A n \in 1 .. Len(sockets) : g[n] = CleanupAt(g[n - 1], n)
  /\ Cleanup = g[Len(sockets)]

LEMMA CleanupRule ==
  ASSUME sockets \in Seq(Socket)
  PROVE  \E g : Passes(g)
<1> DEFINE L == Len(sockets)
           A == [sockets: [1 .. L -> Socket], last: 0 .. L, closed: SUBSET Int]
           step == [n \in 1 .. L |-> [r \in A |-> CleanupAt(r, n)]]
           pass[k \in 0 .. L] == IF k = 0 THEN CleanupStart ELSE CleanupAt(pass[k - 1], k)
<1>1. L \in Nat /\ sockets \in [1 .. L -> Socket]
  OBVIOUS
<1>2. CleanupStart \in A
  BY <1>1 DEF CleanupStart
<1>3. ASSUME NEW n \in 1 .. L, NEW r \in A PROVE CleanupAt(r, n) \in A
  <2>1. CASE n > r.last \/ r.sockets[n].fd > 0
    BY <2>1 DEF CleanupAt
  <2>2. CASE ~(n > r.last \/ r.sockets[n].fd > 0)
    <3>1. r.last \in 1 .. L /\ r.last - 1 \in 0 .. L
      BY <1>1, <2>2
    <3>2. r.sockets[r.last] \in Socket /\ r.sockets[n] \in Socket
      BY <3>1
    <3>3. [r.sockets EXCEPT ![n] = r.sockets[r.last]] \in [1 .. L -> Socket]
      BY <3>2
    <3>4. r.closed \cup {-r.sockets[n].fd} \in SUBSET Int
      BY <3>2 DEF Socket
    <3> QED
      BY <2>2, <3>1, <3>3, <3>4 DEF CleanupAt
  <2> QED
    BY <2>1, <2>2
<1>4. step \in [1 .. L -> [A -> A]]
  BY <1>3
<1>5. \A n \in 1 .. L, r \in A : step[n][r] = CleanupAt(r, n)
  OBVIOUS
<1>6. L \in Nat
  BY <1>1
<1>7. Cleanup = pass[L]
  BY DEF Cleanup, CleanupStart
<1> HIDE DEF L, A, step
<1>8. PICK g \in [0 .. L -> A] :
        g[0] = CleanupStart /\ \A n \in 1 .. L : g[n] = step[n][g[n - 1]]
  <2>1. \E g : RecursionRule(A, CleanupStart, step, L, g)
    BY <1>2, <1>4, <1>6, Recursion
  <2> QED
    BY <2>1 DEF RecursionRule
<1>9. \A n \in 1 .. L : g[n] = CleanupAt(g[n - 1], n)
  <2>1. \A n \in 1 .. L : n - 1 \in 0 .. L
    BY <1>6
  <2> QED
    BY <1>5, <1>8, <2>1
<1>10. \A n \in 0 .. L : n = 0 \/ n \in 1 .. L
  BY <1>6
<1>11. g = [k \in 0 .. L |-> IF k = 0 THEN CleanupStart ELSE CleanupAt(g[k - 1], k)]
  BY <1>8, <1>9, <1>10
<1>12. pass = [k \in 0 .. L |-> IF k = 0 THEN CleanupStart ELSE CleanupAt(pass[k - 1], k)]
  BY <1>11
<1>13. PICK h : h = pass
  OBVIOUS
<1>14. Cleanup = h[L]
  BY <1>7, <1>13
<1> HIDE DEF pass
<1>15. h = [k \in 0 .. L |-> IF k = 0 THEN CleanupStart ELSE CleanupAt(h[k - 1], k)]
  BY <1>12, <1>13
<1>16. h[0] = CleanupStart /\ \A n \in 1 .. L : h[n] = CleanupAt(h[n - 1], n)
  <2>1. 0 \in 0 .. L /\ \A n \in 1 .. L : n \in 0 .. L /\ n # 0
    BY <1>6
  <2> QED
    BY <1>15, <2>1
<1> QED
  BY <1>14, <1>16 DEF Passes, L

\* Without a dead connection it changes nothing.
LEMMA CleanupNothing ==
  ASSUME sockets \in Seq(Socket), \A k \in DOMAIN sockets : sockets[k].fd > 0
  PROVE  Cleanup = CleanupStart
<1> DEFINE L == Len(sockets)
<1>1. PICK g : Passes(g)
  BY CleanupRule
<1>2. L \in Nat /\ DOMAIN sockets = 1 .. L
  OBVIOUS
<1> DEFINE S == {n \in 0 .. L : g[n] = CleanupStart}
<1>3. 0 \in S
  BY <1>1, <1>2 DEF Passes
<1>4. ASSUME NEW n \in 1 .. L, n - 1 \in S PROVE n \in S
  <2>1. g[n] = CleanupAt(CleanupStart, n) /\ n \in 0 .. L
    BY <1>1, <1>2, <1>4 DEF Passes
  <2>2. CleanupStart.sockets[n].fd > 0
    BY <1>2 DEF CleanupStart
  <2> QED
    BY <2>1, <2>2 DEF CleanupAt
<1>5. 0 .. L \subseteq S
  <2> HIDE DEF S, L
  <2> QED
    BY <1>2, <1>3, <1>4, UpTo
<1> QED
  BY <1>1, <1>2, <1>5 DEF Passes

\* The passes up to the first dead connection, and that one.
LEMMA FirstDead ==
  ASSUME sockets \in Seq(Socket), NEW d \in DOMAIN sockets, sockets[d].fd < 0,
         \A k \in DOMAIN sockets : k < d => sockets[k].fd > 0, NEW g, Passes(g)
  PROVE  g[d] = [sockets |-> [sockets EXCEPT ![d] = sockets[Len(sockets)]],
                 last |-> Len(sockets) - 1, closed |-> {-sockets[d].fd}]
<1> DEFINE L == Len(sockets)
<1>1. L \in Nat /\ DOMAIN sockets = 1 .. L /\ sockets[d].fd \in Int
  <2>1. L \in Nat /\ DOMAIN sockets = 1 .. L /\ sockets[d] \in Socket
    OBVIOUS
  <2> QED
    BY <2>1 DEF Socket
<1>2. d \in 1 .. L /\ d - 1 \in Nat
  BY <1>1
<1> DEFINE S == {n \in 0 .. d - 1 : g[n] = CleanupStart}
<1>3. 0 \in S
  BY <1>2 DEF Passes
<1>4. ASSUME NEW n \in 1 .. d - 1, n - 1 \in S PROVE n \in S
  <2>1. n \in 1 .. L /\ n < d
    BY <1>1, <1>2
  <2>2. g[n] = CleanupAt(CleanupStart, n) /\ n \in 0 .. d - 1
    BY <1>4, <1>2, <2>1 DEF Passes
  <2>3. CleanupStart.sockets[n].fd > 0
    BY <1>1, <2>1 DEF CleanupStart
  <2> QED
    BY <2>2, <2>3 DEF CleanupAt
<1>5. 0 .. d - 1 \subseteq S
  <2> HIDE DEF S
  <2> QED
    BY <1>2, <1>3, <1>4, UpTo
<1>6. g[d - 1] = CleanupStart
  <2>1. d - 1 \in 0 .. d - 1
    BY <1>2
  <2> QED
    BY <1>5, <2>1
<1>7. g[d] = CleanupAt(CleanupStart, d)
  BY <1>2, <1>6 DEF Passes
<1>8. ~(d > CleanupStart.last \/ CleanupStart.sockets[d].fd > 0)
  BY <1>1, <1>2 DEF CleanupStart
<1> QED
  BY <1>7, <1>8 DEF CleanupAt, CleanupStart

\* With one dead connection, the last one takes its place, and its descriptor is closed.
LEMMA CleanupOne ==
  ASSUME sockets \in Seq(Socket), NEW d \in DOMAIN sockets, sockets[d].fd < 0,
         \A k \in DOMAIN sockets \ {d} : sockets[k].fd > 0
  PROVE  Cleanup = [sockets |-> [sockets EXCEPT ![d] = sockets[Len(sockets)]],
                    last |-> Len(sockets) - 1, closed |-> {-sockets[d].fd}]
<1> DEFINE L == Len(sockets)
           X == [sockets |-> [sockets EXCEPT ![d] = sockets[L]],
                 last |-> L - 1, closed |-> {-sockets[d].fd}]
<1>1. PICK g : Passes(g)
  BY CleanupRule
<1>2. L \in Nat /\ DOMAIN sockets = 1 .. L /\ d \in 1 .. L
  OBVIOUS
<1>3. g[d] = X
  BY <1>1, <1>2, FirstDead
<1> DEFINE S == {n \in 0 .. L : n >= d => g[n] = X}
<1>4. 0 \in S
  BY <1>2
<1>5. ASSUME NEW n \in 1 .. L, n - 1 \in S PROVE n \in S
  <2>1. CASE n = d
    BY <1>3, <2>1
  <2>2. CASE n < d
    BY <1>2, <2>2
  <2>3. CASE n > d
    <3>1. g[n] = CleanupAt(X, n)
      BY <1>1, <1>2, <1>5, <2>3 DEF Passes
    <3>2. X.sockets[n].fd > 0
      BY <1>2, <2>3
    <3> QED
      BY <3>1, <3>2 DEF CleanupAt
  <2> QED
    BY <1>2, <2>1, <2>2, <2>3
<1>6. 0 .. L \subseteq S
  <2> HIDE DEF S, L
  <2> QED
    BY <1>2, <1>4, <1>5, UpTo
<1>7. L \in S /\ L >= d
  <2> HIDE DEF S, X
  <2> QED
    BY <1>2, <1>6
<1>8. g[L] = X
  BY <1>7
<1> HIDE DEF S
<1> QED
  BY <1>1, <1>8 DEF Passes

\* If the first dead connection was at its end, descriptor 1 is closed.
LEMMA CleanupCloses ==
  ASSUME sockets \in Seq(Socket), NEW d \in DOMAIN sockets, AtEnd(d),
         \A k \in DOMAIN sockets : k < d => sockets[k].fd > 0
  PROVE  1 \in Cleanup.closed
<1> DEFINE L == Len(sockets)
<1>1. PICK g : Passes(g)
  BY CleanupRule
<1>2. L \in Nat /\ DOMAIN sockets = 1 .. L /\ d \in 1 .. L /\ sockets[d].fd = -1
  BY DEF AtEnd
<1>3. 1 \in g[d].closed
  <2>1. g[d] = [sockets |-> [sockets EXCEPT ![d] = sockets[L]],
                last |-> L - 1, closed |-> {-sockets[d].fd}]
    BY <1>1, <1>2, FirstDead
  <2>2. g[d].closed = {-sockets[d].fd}
    BY ONLY <2>1
  <2>3. -sockets[d].fd = 1
    <3>1. \A x \in Int : x + 1 = 0 => -x = 1
      OBVIOUS
    <3>2. sockets[d].fd \in Int /\ sockets[d].fd + 1 = 0
      BY ONLY <1>2
    <3> QED
      BY ONLY <3>1, <3>2
  <2> QED
    BY ONLY <2>2, <2>3
<1> DEFINE S == {n \in 0 .. L : n >= d => 1 \in g[n].closed}
<1>4. 0 \in S
  BY <1>2
<1>5. ASSUME NEW n \in 1 .. L, n - 1 \in S PROVE n \in S
  <2>1. CASE n = d
    BY <1>3, <2>1
  <2>2. CASE n < d
    BY <1>2, <2>2
  <2>3. CASE n > d
    <3>1. g[n] = CleanupAt(g[n - 1], n) /\ 1 \in g[n - 1].closed
      BY <1>1, <1>2, <1>5, <2>3 DEF Passes
    <3> QED
      BY <3>1 DEF CleanupAt
  <2> QED
    BY <1>2, <2>1, <2>2, <2>3
<1>6. 0 .. L \subseteq S
  <2> HIDE DEF S, L
  <2> QED
    BY <1>2, <1>4, <1>5, UpTo
<1> QED
  BY <1>1, <1>2, <1>6 DEF Passes

-----------------------------------------------------------------------------
(* Types. *)

LEMMA SocketFields ==
  ASSUME TypeOK, NEW k \in DOMAIN sockets
  PROVE  /\ sockets[k] \in Socket /\ sockets[k].fd \in Int /\ sockets[k].de.of \in Client
         /\ sockets[k].de.size \in Int /\ Number(k) \in Nat /\ k \in Nat
<1>1. sockets[k] \in Socket /\ k \in Nat
  BY DEF TypeOK
<1>2. sockets[k].fd \in Int /\ sockets[k].de \in [of: Client, size: Int]
  BY <1>1 DEF Socket
<1>3. Number(k) \in Nat
  BY <1>2 DEF Number
<1> QED
  BY <1>1, <1>2, <1>3

LEMMA SocketUpdate ==
  ASSUME TypeOK, NEW k \in DOMAIN sockets, NEW r \in Socket, sockets' = [sockets EXCEPT ![k] = r]
  PROVE  /\ sockets' \in Seq(Socket) /\ Len(sockets') = Len(sockets)
         /\ DOMAIN sockets' = DOMAIN sockets /\ sockets'[k] = r
         /\ \A m \in DOMAIN sockets \ {k} : sockets'[m] = sockets[m]
<1>1. sockets \in Seq(Socket)
  BY DEF TypeOK
<1> QED
  BY <1>1

\* What a step replaces the record of a connection by.
LEMMA SocketRecords ==
  ASSUME NEW s \in Socket, NEW e \in {"none", "POLLIN", "POLLHUP"}, NEW n \in Int
  PROVE  /\ [s EXCEPT !.fd = -@] \in Socket /\ [s EXCEPT !.fd = -@].fd = -s.fd
         /\ [s EXCEPT !.fd = -@].de = s.de
         /\ [s EXCEPT !.revents = e] \in Socket /\ [s EXCEPT !.revents = e].fd = s.fd
         /\ [s EXCEPT !.revents = e].de = s.de
         /\ [s EXCEPT !.fd = -1, !.revents = e] \in Socket
         /\ [s EXCEPT !.fd = -1, !.revents = e].fd = -1
         /\ [s EXCEPT !.fd = -1, !.revents = e].de = s.de
         /\ [s EXCEPT !.revents = e, !.de.size = n] \in Socket
         /\ [s EXCEPT !.revents = e, !.de.size = n].fd = s.fd
         /\ [s EXCEPT !.revents = e, !.de.size = n].de.of = s.de.of
<1>1. s.fd \in Int /\ s.de \in [of: Client, size: Int] /\ -s.fd \in Int /\ -1 \in Int
  BY DEF Socket
<1>2. /\ [s EXCEPT !.fd = -@] \in Socket /\ [s EXCEPT !.fd = -@].fd = -s.fd
      /\ [s EXCEPT !.fd = -@].de = s.de
  BY <1>1 DEF Socket
<1>3. /\ [s EXCEPT !.revents = e] \in Socket /\ [s EXCEPT !.revents = e].fd = s.fd
      /\ [s EXCEPT !.revents = e].de = s.de
  BY <1>1 DEF Socket
<1>4. /\ [s EXCEPT !.fd = -1, !.revents = e] \in Socket
      /\ [s EXCEPT !.fd = -1, !.revents = e].fd = -1
      /\ [s EXCEPT !.fd = -1, !.revents = e].de = s.de
  BY <1>1 DEF Socket
<1>5. /\ [s EXCEPT !.revents = e, !.de.size = n] \in Socket
      /\ [s EXCEPT !.revents = e, !.de.size = n].fd = s.fd
      /\ [s EXCEPT !.revents = e, !.de.size = n].de.of = s.de.of
  BY <1>1 DEF Socket
<1> QED
  BY <1>2, <1>3, <1>4, <1>5

LEMMA EventType == ASSUME NEW s PROVE Event(s) \in {"none", "POLLIN", "POLLHUP"}
  BY DEF Event

\* A step that leaves the connections and their descriptors as they are.
SameSockets ==
  /\ file' = file /\ sockets' \in Seq(Socket) /\ DOMAIN sockets' = DOMAIN sockets
  /\ \A k \in DOMAIN sockets : sockets'[k].fd = sockets[k].fd /\ sockets'[k].de.of = sockets[k].de.of

LEMMA UnchangedSockets ==
  ASSUME TypeOK, file' = file, sockets' = sockets PROVE SameSockets
  BY DEF SameSockets, TypeOK

\* A step that replaces the record of one connection.
Replaced(k, fd) ==
  /\ file' = file /\ sockets' \in Seq(Socket) /\ DOMAIN sockets' = DOMAIN sockets
  /\ sockets'[k].fd = fd /\ sockets'[k].de.of = sockets[k].de.of
  /\ \A m \in DOMAIN sockets \ {k} : sockets'[m] = sockets[m]

LEMMA PollSame == ASSUME TypeOK, Poll PROVE SameSockets
<1>1. sockets \in Seq(Socket) /\ file' = file
  BY DEF TypeOK, Poll, clients
<1>2. ASSUME NEW k \in DOMAIN sockets
      PROVE  /\ [sockets[k] EXCEPT !.revents = Event(sockets[k])] \in Socket
             /\ [sockets[k] EXCEPT !.revents = Event(sockets[k])].fd = sockets[k].fd
             /\ [sockets[k] EXCEPT !.revents = Event(sockets[k])].de = sockets[k].de
  <2>1. sockets[k] \in Socket /\ 0 \in Int
    BY SocketFields
  <2>2. Event(sockets[k]) \in {"none", "POLLIN", "POLLHUP"}
    BY EventType
  <2> QED
    BY <2>1, <2>2, SocketRecords, ZenonT(30)
<1>3. sockets' = [k \in DOMAIN sockets |-> [sockets[k] EXCEPT !.revents = Event(sockets[k])]]
  BY DEF Poll
<1>4. DOMAIN sockets = 1 .. Len(sockets) /\ Len(sockets) \in Nat
  BY <1>1
<1>5. sockets' \in Seq(Socket) /\ DOMAIN sockets' = DOMAIN sockets
  <2>1. sockets' \in [1 .. Len(sockets) -> Socket]
    BY <1>2, <1>3, <1>4
  <2> QED
    BY <1>4, <2>1
<1> QED
  BY <1>1, <1>2, <1>3, <1>5 DEF SameSockets

LEMMA DropReplaces ==
  ASSUME TypeOK, NEW k \in DOMAIN sockets, sockets' = DropAt(k), file' = file
  PROVE  Replaced(k, -sockets[k].fd)
<1>1. sockets[k] \in Socket /\ "none" \in {"none", "POLLIN", "POLLHUP"} /\ 0 \in Int
  BY SocketFields
<1>2. DropAt(k) = [sockets EXCEPT ![k] = [sockets[k] EXCEPT !.fd = -@]]
  BY DEF DropAt
<1>3. /\ [sockets[k] EXCEPT !.fd = -@] \in Socket /\ [sockets[k] EXCEPT !.fd = -@].fd = -sockets[k].fd
      /\ [sockets[k] EXCEPT !.fd = -@].de = sockets[k].de
  BY <1>1, SocketRecords
<1> QED
  BY <1>2, <1>3, SocketUpdate DEF Replaced

LEMMA ReadEofReplaces == ASSUME TypeOK, ReadEof PROVE i \in DOMAIN sockets /\ Replaced(i, -1)
<1>1. i \in DOMAIN sockets
  BY DEF ReadEof, Reading, TypeOK
<1>2. sockets[i] \in Socket /\ 0 \in Int
  BY <1>1, SocketFields
<1>3. sockets' = [sockets EXCEPT ![i] = [sockets[i] EXCEPT !.fd = -1, !.revents = "none"]]
      /\ file' = file
  BY <1>1, <1>2 DEF ReadEof, TypeOK
<1>4. /\ [sockets[i] EXCEPT !.fd = -1, !.revents = "none"] \in Socket
      /\ [sockets[i] EXCEPT !.fd = -1, !.revents = "none"].fd = -1
      /\ [sockets[i] EXCEPT !.fd = -1, !.revents = "none"].de = sockets[i].de
  BY <1>2, SocketRecords
<1> QED
  BY <1>1, <1>3, <1>4, SocketUpdate DEF Replaced

LEMMA ReadBytesSame == ASSUME TypeOK, NEW n \in Int, ReadBytes(n) PROVE SameSockets
<1>1. i \in DOMAIN sockets
  BY DEF ReadBytes, Reading, TypeOK
<1>2. sockets[i] \in Socket /\ sockets[i].de.size + n \in Int /\ EmptyDeserializer \in Int
  BY <1>1, SocketFields DEF EmptyDeserializer
<1>3. PICK z \in Int : sockets' = [sockets EXCEPT ![i].revents = "none", ![i].de.size = z]
  BY <1>2 DEF ReadBytes
<1>4. sockets' = [sockets EXCEPT ![i] = [sockets[i] EXCEPT !.revents = "none", !.de.size = z]]
      /\ file' = file
  BY <1>1, <1>2, <1>3 DEF ReadBytes, TypeOK
<1>5. /\ [sockets[i] EXCEPT !.revents = "none", !.de.size = z] \in Socket
      /\ [sockets[i] EXCEPT !.revents = "none", !.de.size = z].fd = sockets[i].fd
      /\ [sockets[i] EXCEPT !.revents = "none", !.de.size = z].de.of = sockets[i].de.of
  BY <1>2, SocketRecords, ZenonT(30)
<1> QED
  BY <1>1, <1>4, <1>5, SocketUpdate DEF SameSockets

\* accept takes a free descriptor.
LEMMA AcceptAppends ==
  ASSUME TypeOK, Accept
  PROVE  \/ SameSockets /\ backlog' = backlog
         \/ \E c \in Client, n \in Fd, r \in Socket :
              /\ file[n] = "free" /\ file' = [file EXCEPT ![n] = c]
              /\ r.fd = n /\ r.de.of = c /\ sockets' = Append(sockets, r)
              /\ backlog' \in Seq(Client)
<1>1. CASE listening /\ accepting /\ FreeFds # {}
  <2> DEFINE fd == CHOOSE n \in FreeFds : \A m \in FreeFds : n <= m
             c == Head(backlog)
             r == [fd |-> fd, revents |-> "none", de |-> [of |-> c, size |-> EmptyDeserializer]]
  <2>1. FreeFds \in SUBSET Nat
    BY DEF FreeFds
  <2>2. \E n \in FreeFds : \A m \in FreeFds : n <= m
    BY <1>1, <2>1, Least
  <2>3. fd \in FreeFds
    BY <2>2
  <2>4. backlog \in Seq(Client) /\ backlog # <<>>
    BY <1>1 DEF TypeOK
  <2>5. c \in Client /\ Tail(backlog) \in Seq(Client)
    BY <2>4
  <2>6. file' = [file EXCEPT ![fd] = c] /\ sockets' = Append(sockets, r) /\ backlog' = Tail(backlog)
    BY <1>1 DEF Accept
  <2> HIDE DEF fd, c
  <2>7. r \in Socket /\ r.fd = fd /\ r.de.of = c
    BY <2>1, <2>3, <2>5 DEF Socket, EmptyDeserializer
  <2>8. fd \in Fd /\ file[fd] = "free"
    BY <2>3 DEF FreeFds
  <2> HIDE DEF r
  <2> QED
    BY <2>5, <2>6, <2>7, <2>8
<1>2. CASE ~(listening /\ accepting /\ FreeFds # {})
  BY <1>2, UnchangedSockets DEF Accept
<1> QED
  BY <1>1, <1>2

LEMMA ValidateReplaces ==
  ASSUME TypeOK, ValidateAll
  PROVE  \/ SameSockets /\ pc' = "read" /\ i' = 1
         \/ \E k \in DOMAIN sockets : Replaced(k, -sockets[k].fd) /\ pc' = "detect" /\ i' = i
<1>1. CASE Invalid = {}
  BY <1>1, UnchangedSockets DEF ValidateAll
<1>2. CASE Invalid # {}
  <2> DEFINE k == CHOOSE k \in Invalid : \A m \in Invalid : k <= m
  <2>1. Invalid \in SUBSET Nat /\ Invalid \subseteq DOMAIN sockets
    BY DEF Invalid, TypeOK
  <2>2. \E n \in Invalid : \A m \in Invalid : n <= m
    BY <1>2, <2>1, Least
  <2>3. k \in DOMAIN sockets
    BY <2>1, <2>2
  <2>4. sockets' = DropAt(k) /\ file' = file /\ pc' = "detect" /\ i' = i
    BY <1>2 DEF ValidateAll
  <2> HIDE DEF k
  <2> QED
    BY <2>3, <2>4, DropReplaces
<1> QED
  BY <1>1, <1>2

-----------------------------------------------------------------------------
(* What the head of the loop does. *)

LEMMA CleanupType ==
  ASSUME sockets \in Seq(Socket)
  PROVE  /\ SubSeq(Cleanup.sockets, 1, Cleanup.last) \in Seq(Socket)
         /\ Cleanup.closed \in SUBSET Int
<1> DEFINE L == Len(sockets)
           A == [sockets: [1 .. L -> Socket], last: 0 .. L, closed: SUBSET Int]
<1>1. L \in Nat /\ sockets \in [1 .. L -> Socket]
  OBVIOUS
<1>2. CleanupStart \in A
  BY <1>1 DEF CleanupStart
<1>3. ASSUME NEW n \in 1 .. L, NEW r \in A PROVE CleanupAt(r, n) \in A
  <2>1. CASE n > r.last \/ r.sockets[n].fd > 0
    BY <2>1 DEF CleanupAt
  <2>2. CASE ~(n > r.last \/ r.sockets[n].fd > 0)
    <3>1. r.last \in 1 .. L /\ r.last - 1 \in 0 .. L
      BY <1>1, <2>2
    <3>2. r.sockets[r.last] \in Socket /\ r.sockets[n] \in Socket
      BY <3>1
    <3>3. [r.sockets EXCEPT ![n] = r.sockets[r.last]] \in [1 .. L -> Socket]
      BY <3>2
    <3>4. r.closed \cup {-r.sockets[n].fd} \in SUBSET Int
      BY <3>2 DEF Socket
    <3> QED
      BY <2>2, <3>1, <3>3, <3>4 DEF CleanupAt
  <2> QED
    BY <2>1, <2>2
<1>4. PICK g : Passes(g)
  BY CleanupRule
<1> HIDE DEF A
<1> DEFINE S == {n \in 0 .. L : g[n] \in A}
<1>5. 0 \in S
  BY <1>1, <1>2, <1>4 DEF Passes
<1>6. ASSUME NEW n \in 1 .. L, n - 1 \in S PROVE n \in S
  BY <1>1, <1>3, <1>4, <1>6 DEF Passes
<1>7. 0 .. L \subseteq S
  <2> HIDE DEF S, L
  <2> QED
    BY <1>1, <1>5, <1>6, UpTo
<1>8. Cleanup \in A
  BY <1>1, <1>4, <1>7 DEF Passes
<1>9. Cleanup.sockets \in [1 .. L -> Socket] /\ Cleanup.last \in 0 .. L /\ Cleanup.closed \in SUBSET Int
  BY <1>8 DEF A
<1>10. Cleanup.sockets \in Seq(Socket) /\ Len(Cleanup.sockets) = L
  BY <1>1, <1>9
<1> HIDE DEF L
<1>11. SubSeq(Cleanup.sockets, 1, Cleanup.last) \in Seq(Socket)
  <2>1. \A k \in 1 .. Cleanup.last : Cleanup.sockets[k] \in Socket
    BY <1>1, <1>9
  <2> QED
    BY <1>1, <1>9, <1>10, <2>1
<1> QED
  BY <1>9, <1>11

\* With one dead connection, every other one stays, under its number or under the dead one's.
LEMMA RemovedOne ==
  ASSUME TypeOK, NEW d \in DOMAIN sockets, sockets[d].fd < 0,
         \A k \in DOMAIN sockets \ {d} : sockets[k].fd > 0,
         sockets' = SubSeq(Cleanup.sockets, 1, Cleanup.last)
  PROVE  /\ DOMAIN sockets' = 1 .. Len(sockets) - 1
         /\ \A k \in 1 .. Len(sockets) - 1 :
              sockets'[k] = IF k = d THEN sockets[Len(sockets)] ELSE sockets[k]
<1> DEFINE L == Len(sockets)
           s == [sockets EXCEPT ![d] = sockets[L]]
<1>1. sockets \in Seq(Socket) /\ L \in Nat /\ DOMAIN sockets = 1 .. L
  BY DEF TypeOK
<1>2. Cleanup = [sockets |-> s, last |-> L - 1, closed |-> {-sockets[d].fd}]
  BY <1>1, CleanupOne
<1>3. s \in Seq(Socket) /\ Len(s) = L
  BY <1>1
<1>4. \A k \in 1 .. L - 1 : s[k] = IF k = d THEN sockets[L] ELSE sockets[k]
  BY <1>1
<1>5. sockets' = SubSeq(s, 1, L - 1)
  BY <1>2
<1> HIDE DEF s, L
<1>6. L >= 1
  BY <1>1
<1>7. DOMAIN SubSeq(s, 1, L - 1) = 1 .. L - 1 /\ \A k \in 1 .. L - 1 : SubSeq(s, 1, L - 1)[k] = s[k]
  BY <1>1, <1>3, <1>6
<1> QED
  BY <1>4, <1>5, <1>7 DEF L

Good == OwnDescriptor /\ NoneShared /\ NoneLeaked /\ DroppedLast

LEMMA SameKeeps == ASSUME TypeOK, SameSockets, Good PROVE Good'
<1>1. \A k \in DOMAIN sockets : Number(k)' = Number(k) /\ (AtEnd(k)' <=> AtEnd(k))
  BY DEF SameSockets, Number, AtEnd
<1>2. Intact' <=> Intact
  BY DEF Intact, SameSockets
<1>3. OwnDescriptor' /\ NoneShared'
  BY <1>1 DEF OwnDescriptor, NoneShared, SameSockets, Good
<1>4. NoneLeaked'
  BY <1>1, <1>2 DEF NoneLeaked, SameSockets, Good
<1>5. DroppedLast'
  BY <1>1 DEF DroppedLast, SameSockets, Good
<1> QED
  BY <1>3, <1>4, <1>5 DEF Good

\* A living connection is dropped, and those that are dead were at their end before it.
LEMMA DropKeeps ==
  ASSUME TypeOK, Good, NEW k \in DOMAIN sockets, Replaced(k, -sockets[k].fd), sockets[k].fd > 0,
         \A m \in DOMAIN sockets : sockets[m].fd > 0 \/ (AtEnd(m) /\ m < k)
  PROVE  Good'
<1>1. \A m \in DOMAIN sockets : sockets[m].fd \in Int /\ m \in Nat /\ sockets[m].fd # 0
  BY SocketFields DEF Good, OwnDescriptor, AtEnd, Number
<1>2. sockets[k].fd # 1 /\ ~AtEnd(k)
  BY <1>1 DEF Good, OwnDescriptor, AtEnd, Number
<1>3. \A m \in DOMAIN sockets : Number(m)' = Number(m) /\ (AtEnd(m)' <=> AtEnd(m))
                                /\ sockets'[m].de.of = sockets[m].de.of
  BY <1>1, <1>2 DEF Replaced, Number, AtEnd
<1>4. DOMAIN sockets' = DOMAIN sockets /\ file' = file
  BY DEF Replaced
<1>5. Intact' <=> Intact
  BY <1>3, <1>4 DEF Intact, AtEnd
<1>6. OwnDescriptor' /\ NoneShared'
  BY <1>3, <1>4 DEF OwnDescriptor, NoneShared, Good
<1>7. NoneLeaked'
  BY <1>3, <1>4, <1>5 DEF NoneLeaked, Good
<1>8. DroppedLast'
  <2>1. \A m \in DOMAIN sockets : m # k => sockets'[m].fd = sockets[m].fd
    BY DEF Replaced
  <2> QED
    BY <1>1, <1>3, <1>4, <2>1 DEF DroppedLast, AtEnd
<1> QED
  BY <1>6, <1>7, <1>8 DEF Good

\* A living connection is found at its end.
LEMMA EofKeeps ==
  ASSUME TypeOK, Good, NEW k \in DOMAIN sockets, Replaced(k, -1),
         \A m \in DOMAIN sockets : sockets[m].fd > 0 \/ AtEnd(m)
  PROVE  Good'
<1>1. \A m \in DOMAIN sockets : sockets[m].fd \in Int /\ m \in Nat
  BY SocketFields
<1>2. DOMAIN sockets' = DOMAIN sockets /\ file' = file
  BY DEF Replaced
<1>3. AtEnd(k)'
  BY DEF Replaced, AtEnd
<1>4. \A m \in DOMAIN sockets \ {k} : Number(m)' = Number(m) /\ (AtEnd(m)' <=> AtEnd(m))
                                      /\ sockets'[m] = sockets[m]
  BY DEF Replaced, Number, AtEnd
<1>5. Number(k)' = 1
  <2>1. sockets'[k].fd \in Int /\ sockets'[k].fd + 1 = 0
    BY DEF Replaced
  <2>2. \A x \in Int : x + 1 = 0 => x < 0 /\ -x = 1
    OBVIOUS
  <2> QED
    BY <2>1, <2>2 DEF Number
<1>6. ~Intact'
  BY <1>2, <1>3 DEF Intact, AtEnd
<1>7. OwnDescriptor'
  BY <1>2, <1>3, <1>4 DEF OwnDescriptor, Good
<1>8. NoneShared'
  <2>1. \A m \in DOMAIN sockets : Number(m) = 1 => AtEnd(m)
    BY DEF Good, OwnDescriptor
  <2> QED
    BY <1>2, <1>3, <1>4, <1>5, <2>1 DEF NoneShared, Good
<1>9. NoneLeaked'
  BY <1>6 DEF NoneLeaked
<1>10. DroppedLast'
  <2>1. \A m \in DOMAIN sockets : sockets'[m].fd > 0 \/ AtEnd(m)'
    BY <1>3, <1>4
  <2>2. \A m \in DOMAIN sockets : sockets'[m].fd \in Int
    BY <1>1, <1>3, <1>4 DEF AtEnd
  <2> QED
    BY <1>2, <2>1, <2>2 DEF DroppedLast
<1> QED
  BY <1>7, <1>8, <1>9, <1>10 DEF Good

\* A new connection joins under a descriptor that none uses.
LEMMA AcceptKeeps ==
  ASSUME TypeOK, Good, file[1] = "stdout", NEW c \in Client, NEW n \in Fd, NEW r \in Socket,
         file[n] = "free", file' = [file EXCEPT ![n] = c], r.fd = n, r.de.of = c,
         sockets' = Append(sockets, r), \A k \in DOMAIN sockets : sockets[k].fd > 0
  PROVE  /\ Good' /\ file'[1] = "stdout" /\ file' \in [Fd -> Client \cup {"stdout", "free"}]
         /\ sockets' \in Seq(Socket) /\ \A k \in DOMAIN sockets' : sockets'[k].fd > 0
<1>0. PICK L \in Nat : L = Len(sockets)
  BY DEF TypeOK
<1>1. sockets \in Seq(Socket) /\ L \in Nat /\ DOMAIN sockets = 1 .. L
      /\ file \in [Fd -> Client \cup {"stdout", "free"}]
  BY <1>0 DEF TypeOK
<1>2. /\ sockets' \in Seq(Socket) /\ DOMAIN sockets' = 1 .. L + 1 /\ sockets'[L + 1] = r
      /\ \A k \in 1 .. L : sockets'[k] = sockets[k]
  BY <1>1
<1>3. n \in Nat \ {0} /\ n # 1 /\ n > 0 /\ ~(n < 0) /\ 1 \in Fd
  <2>1. n \in Nat \ {0} /\ 1 \in Fd
    BY ReceiverAssumption
  <2>2. n # 1
    OBVIOUS
  <2> QED
    BY <2>1, <2>2
<1>4. /\ file' \in [Fd -> Client \cup {"stdout", "free"}] /\ file'[1] = "stdout" /\ file'[n] = c
      /\ \A m \in Fd \ {n} : file'[m] = file[m]
  BY <1>1, <1>3
<1>5. \A k \in 1 .. L : Number(k)' = Number(k) /\ ~AtEnd(k)' /\ ~AtEnd(k) /\ sockets[k].fd \in Int
                        /\ sockets[k].fd = Number(k)
  <2>1. \A k \in 1 .. L : sockets[k].fd \in Int /\ sockets[k].fd > 0 /\ sockets'[k].fd = sockets[k].fd
    BY <1>1, <1>2, SocketFields
  <2>2. \A x \in Int : x > 0 => ~(x < 0) /\ x # -1
    OBVIOUS
  <2> QED
    BY ONLY <2>1, <2>2 DEF Number, AtEnd
<1>6. Number(L + 1)' = n /\ ~AtEnd(L + 1)'
  BY <1>2, <1>3 DEF Number, AtEnd
<1>7. \A k \in 1 .. L : /\ Number(k) \in Fd \ {1} /\ file[Number(k)] = sockets[k].de.of
                        /\ sockets[k].de.of \in Client /\ Number(k) # n
  <2>1. \A k \in 1 .. L : Number(k) \in Fd \ {1} /\ file[Number(k)] = sockets[k].de.of
    BY <1>1, <1>5 DEF Good, OwnDescriptor
  <2>2. \A k \in 1 .. L : sockets[k].de.of \in Client
    BY <1>1, SocketFields
  <2> QED
    BY <2>1, <2>2
<1>8. \A k \in 1 .. L + 1 : k \in 1 .. L \/ k = L + 1
  BY <1>1
<1>9. OwnDescriptor'
  <2>1. ASSUME NEW k \in 1 .. L + 1
        PROVE  Number(k)' \in Fd \ {1} /\ file'[Number(k)'] = sockets'[k].de.of
    <3>1. CASE k \in 1 .. L
      BY <1>2, <1>4, <1>5, <1>7, <3>1
    <3>2. CASE k = L + 1
      BY <1>2, <1>3, <1>4, <1>6, <3>2
    <3> QED
      BY <1>8, <3>1, <3>2
  <2> QED
    BY <1>2, <2>1 DEF OwnDescriptor
<1>10. NoneShared'
  <2>1. \A k, m \in 1 .. L : Number(k)' = Number(m)' => k = m
    BY <1>1, <1>5 DEF Good, NoneShared
  <2>2. \A k \in 1 .. L : Number(k)' # Number(L + 1)'
    BY <1>5, <1>6, <1>7
  <2>3. \A k, m \in 1 .. L + 1 : Number(k)' = Number(m)' => k = m
    BY <1>8, <2>1, <2>2
  <2> QED
    BY <1>2, <2>3 DEF NoneShared
<1>11. NoneLeaked'
  <2>1. Intact
    BY <1>1, <1>5 DEF Intact, AtEnd
  <2>2. ASSUME NEW m \in Fd, file'[m] \in Client PROVE \E k \in 1 .. L + 1 : Number(k)' = m
    <3>1. CASE m = n
      BY <1>1, <1>6, <3>1
    <3>2. CASE m # n
      <4>1. file[m] \in Client
        BY <1>4, <2>2, <3>2
      <4>2. PICK k \in 1 .. L : Number(k) = m
        BY <1>1, <2>1, <4>1 DEF Good, NoneLeaked
      <4>3. k \in 1 .. L + 1
        BY <1>1
      <4> QED
        BY <1>5, <4>2, <4>3
    <3> QED
      BY <3>1, <3>2
  <2> QED
    BY <1>2, <2>2 DEF NoneLeaked
<1>12. \A k \in 1 .. L + 1 : sockets'[k].fd > 0
  <2>1. \A k \in 1 .. L : sockets'[k].fd > 0
    BY <1>1, <1>2
  <2>2. sockets'[L + 1].fd > 0
    BY <1>2, <1>3
  <2> QED
    BY <1>8, <2>1, <2>2
<1>13. DroppedLast'
  <2>1. \A k \in 1 .. L + 1 : ~(sockets'[k].fd < 0)
    <3>1. \A k \in 1 .. L + 1 : sockets'[k].fd \in Int
      <4>1. \A k \in 1 .. L : sockets'[k].fd \in Int
        BY <1>2, <1>5
      <4>2. sockets'[L + 1].fd \in Int
        BY <1>2, <1>3
      <4> QED
        BY <1>8, <4>1, <4>2
    <3>2. \A x \in Int : x > 0 => ~(x < 0)
      OBVIOUS
    <3> QED
      BY <1>12, <3>1, <3>2
  <2> QED
    BY <1>2, <2>1 DEF DroppedLast
<1> QED
  BY <1>2, <1>4, <1>9, <1>10, <1>11, <1>12, <1>13 DEF Good

\* receiver_cleanup closes the descriptor of the one dead connection.
LEMMA RemoveKeeps ==
  ASSUME TypeOK, Good, file[1] = "stdout", NEW d \in DOMAIN sockets, sockets[d].fd < 0,
         \A k \in DOMAIN sockets : ~AtEnd(k),
         \A k \in DOMAIN sockets \ {d} : sockets[k].fd > 0,
         sockets' = SubSeq(Cleanup.sockets, 1, Cleanup.last),
         file' = [n \in Fd |-> IF n \in Cleanup.closed THEN "free" ELSE file[n]]
  PROVE  Good' /\ \A k \in DOMAIN sockets' : sockets'[k].fd > 0
<1>0. PICK L \in Nat : L = Len(sockets)
  BY DEF TypeOK
<1> DEFINE o == [k \in 1 .. L - 1 |-> IF k = d THEN L ELSE k]
<1>1. sockets \in Seq(Socket) /\ L \in Nat /\ DOMAIN sockets = 1 .. L /\ d \in 1 .. L
      /\ file \in [Fd -> Client \cup {"stdout", "free"}]
  BY <1>0 DEF TypeOK
<1>2. DOMAIN sockets' = 1 .. L - 1 /\ \A k \in 1 .. L - 1 : sockets'[k] = sockets[o[k]]
  BY <1>0, RemovedOne, ZenonT(30)
<1>3. \A k \in 1 .. L - 1 : o[k] \in 1 .. L /\ o[k] # d
  BY <1>1
<1>4. \A k, m \in 1 .. L - 1 : o[k] = o[m] => k = m
  BY <1>1
<1>5. \A m \in 1 .. L : m # d => \E k \in 1 .. L - 1 : o[k] = m
  <2> SUFFICES ASSUME NEW m \in 1 .. L, m # d PROVE \E k \in 1 .. L - 1 : o[k] = m
    OBVIOUS
  <2>1. CASE m = L
    <3>1. d \in 1 .. L - 1
      BY <1>1, <2>1
    <3> QED
      BY <2>1, <3>1
  <2>2. CASE m # L
    <3>1. m \in 1 .. L - 1
      BY <1>1, <2>2
    <3> QED
      BY <3>1
  <2> QED
    BY <2>1, <2>2
<1> HIDE DEF o
<1>6. \A k \in 1 .. L : sockets[k].fd \in Int /\ Number(k) \in Fd \ {1}
                        /\ file[Number(k)] = sockets[k].de.of /\ sockets[k].de.of \in Client
  BY <1>1, SocketFields DEF Good, OwnDescriptor
<1>7. Cleanup.closed = {Number(d)}
  <2>1. Cleanup = [sockets |-> [sockets EXCEPT ![d] = sockets[Len(sockets)]],
                   last |-> Len(sockets) - 1, closed |-> {-sockets[d].fd}]
    BY <1>1, CleanupOne
  <2>2. Cleanup.closed = {-sockets[d].fd}
    BY ONLY <2>1
  <2> QED
    BY <2>2 DEF Number
<1>8. \A n \in Fd : file'[n] = IF n = Number(d) THEN "free" ELSE file[n]
  BY <1>7
<1>9. \A k, m \in 1 .. L : Number(k) = Number(m) => k = m
  BY <1>1 DEF Good, NoneShared
<1>10. \A k \in 1 .. L - 1 : Number(k)' = Number(o[k]) /\ ~AtEnd(k)'
                             /\ sockets'[k].fd > 0 /\ sockets'[k].fd \in Int
  <2>1. \A k \in 1 .. L - 1 : Number(k)' = Number(o[k]) /\ (AtEnd(k)' <=> AtEnd(o[k]))
    BY <1>2 DEF Number, AtEnd
  <2>2. \A k \in 1 .. L - 1 : o[k] \in DOMAIN sockets \ {d}
    BY <1>1, <1>3
  <2>3. \A k \in 1 .. L - 1 : sockets[o[k]].fd > 0 /\ ~AtEnd(o[k])
    BY <2>2
  <2>4. \A k \in 1 .. L - 1 : sockets[o[k]].fd \in Int
    BY <1>3, <1>6
  <2>5. \A k \in 1 .. L - 1 : sockets'[k].fd = sockets[o[k]].fd
    BY <1>2
  <2>6. \A k \in 1 .. L - 1 : sockets'[k].fd > 0 /\ sockets'[k].fd \in Int
    BY <2>3, <2>4, <2>5
  <2>7. \A k \in 1 .. L - 1 : ~AtEnd(k)'
    BY <2>1, <2>3
  <2> QED
    BY <2>1, <2>6, <2>7
<1>11. OwnDescriptor'
  <2>1. ASSUME NEW k \in 1 .. L - 1
        PROVE  Number(k)' \in Fd \ {1} /\ file'[Number(k)'] = sockets'[k].de.of
    <3>1. o[k] \in 1 .. L /\ Number(o[k]) # Number(d)
      BY <1>1, <1>3, <1>9
    <3>2. Number(k)' = Number(o[k]) /\ sockets'[k].de.of = sockets[o[k]].de.of
      BY <1>2, <1>10
    <3>3. Number(o[k]) \in Fd \ {1} /\ file[Number(o[k])] = sockets[o[k]].de.of
      BY <1>6, <3>1
    <3>4. file'[Number(o[k])] = file[Number(o[k])]
      BY <1>8, <3>1, <3>3
    <3> QED
      BY <3>2, <3>3, <3>4
  <2> QED
    BY <1>2, <2>1 DEF OwnDescriptor
<1>12. NoneShared'
  <2>1. \A k, m \in 1 .. L - 1 : Number(k)' = Number(m)' => k = m
    BY <1>3, <1>4, <1>9, <1>10
  <2> QED
    BY <1>2, <2>1 DEF NoneShared
<1>13. NoneLeaked'
  <2>1. Intact
    BY DEF Intact, AtEnd
  <2>2. ASSUME NEW n \in Fd, file'[n] \in Client PROVE \E k \in 1 .. L - 1 : Number(k)' = n
    <3>1. file[n] \in Client /\ n # Number(d)
      BY <1>8, <2>2
    <3>2. PICK m \in 1 .. L : Number(m) = n
      BY <1>1, <2>1, <3>1 DEF Good, NoneLeaked
    <3>3. PICK k \in 1 .. L - 1 : o[k] = m
      BY <1>5, <3>1, <3>2
    <3> QED
      BY <1>10, <3>2, <3>3
  <2> QED
    BY <1>2, <2>2 DEF NoneLeaked
<1>14. DroppedLast'
  <2>1. \A k \in 1 .. L - 1 : ~(sockets'[k].fd < 0)
    <3>1. \A x \in Int : x > 0 => ~(x < 0)
      OBVIOUS
    <3> QED
      BY <1>10, <3>1
  <2> QED
    BY <1>2, <2>1 DEF DroppedLast
<1> QED
  BY <1>2, <1>10, <1>11, <1>12, <1>13, <1>14 DEF Good

\* The descriptors that receiver_cleanup does not close stay as they are.
LEMMA CheckKeeps ==
  ASSUME TypeOK, Good, file[1] = "stdout", Check, pc' # "exit"
  PROVE  file'[1] = "stdout" => Good' /\ \A k \in DOMAIN sockets' : sockets'[k].fd > 0
<1>1. /\ sockets' = SubSeq(Cleanup.sockets, 1, Cleanup.last)
      /\ file' = [n \in Fd |-> IF n \in Cleanup.closed THEN "free" ELSE file[n]]
  BY DEF Check
<1>2. sockets \in Seq(Socket) /\ file \in [Fd -> Client \cup {"stdout", "free"}] /\ Len(sockets) \in Nat
      /\ DOMAIN sockets = 1 .. Len(sockets) /\ 1 \in Fd
  BY DEF TypeOK
<1>3. \A k \in DOMAIN sockets : sockets[k].fd \in Int /\ k \in Nat /\ (sockets[k].fd > 0 \/ sockets[k].fd < 0)
  <2>1. \A k \in DOMAIN sockets : sockets[k].fd \in Int /\ k \in Nat
    BY SocketFields
  <2>2. \A k \in DOMAIN sockets : sockets[k].fd # 0
    <3>1. \A n \in Fd : n # 0
      OBVIOUS
    <3> QED
      BY <2>1, <3>1 DEF Good, OwnDescriptor, AtEnd, Number
  <2>3. \A x \in Int : x # 0 => x > 0 \/ x < 0
    OBVIOUS
  <2> QED
    BY <2>1, <2>2, <2>3
<1>4. CASE \A k \in DOMAIN sockets : sockets[k].fd > 0
  <2>1. Cleanup = CleanupStart
    BY <1>2, <1>4, CleanupNothing
  <2>2. Cleanup.sockets = sockets /\ Cleanup.last = Len(sockets) /\ Cleanup.closed = {}
    BY ONLY <2>1 DEF CleanupStart
  <2>3. sockets' = sockets /\ file' = file
    BY <1>1, <1>2, <2>2
  <2>4. SameSockets
    BY <2>3, UnchangedSockets
  <2> QED
    BY <1>4, <2>3, <2>4, SameKeeps
<1>5. CASE \E k \in DOMAIN sockets : sockets[k].fd < 0
  <2> DEFINE D == {k \in DOMAIN sockets : sockets[k].fd < 0}
  <2>1. D \subseteq Nat /\ D # {}
    BY <1>3, <1>5
  <2>2. PICK d \in D : \A k \in D : d <= k
    BY <2>1, Least
  <2>3. d \in DOMAIN sockets /\ sockets[d].fd < 0 /\ \A k \in DOMAIN sockets : k < d => sockets[k].fd > 0
    <3>1. \A k \in DOMAIN sockets : k < d => k \notin D
      BY <1>3, <2>2
    <3> QED
      BY <1>3, <3>1
  <2>4. CASE AtEnd(d)
    <3>1. 1 \in Cleanup.closed
      BY <1>2, <2>3, <2>4, CleanupCloses
    <3>2. file'[1] = "free"
      BY <1>1, <1>2, <3>1
    <3> QED
      BY <3>2
  <2>5. CASE ~AtEnd(d)
    <3>1. \A k \in DOMAIN sockets \ {d} : sockets[k].fd > 0
      <4> SUFFICES ASSUME NEW k \in DOMAIN sockets \ {d}, sockets[k].fd < 0 PROVE FALSE
        BY <1>3
      <4>1. d < k
        BY <1>3, <2>2, <2>3
      <4> QED
        BY <2>3, <2>5, <4>1 DEF Good, DroppedLast
    <3>2. \A k \in DOMAIN sockets : ~AtEnd(k)
      BY <1>3, <2>5, <3>1 DEF AtEnd
    <3> QED
      BY <1>1, <2>3, <3>1, <3>2, RemoveKeeps
  <2> QED
    BY <2>4, <2>5
<1> QED
  BY <1>3, <1>4, <1>5

LEMMA ReadSize == \A n \in 1 .. LargestRead : n \in Int
  OBVIOUS

Pc == {"check", "poll", "accept", "validate", "read", "detect", "exit"}

\* Steps of which the connections are left as they are.
LEMMA QuietStep ==
  ASSUME ReceiverInv, SameSockets, backlog' \in Seq(Client), listening' \in BOOLEAN,
         listening' => backlog' # <<>>, i' \in Nat \ {0}, pc' \in Pc,
         Good => (DeadBehind => DeadBehind')
  PROVE  ReceiverInv'
<1>1. TypeOK /\ (file[1] = "stdout" => Good /\ DeadBehind)
  BY DEF ReceiverInv, Good
<1>2. sockets' \in Seq(Socket) /\ file' = file
  BY DEF SameSockets
<1>3. TypeOK'
  BY <1>1, <1>2 DEF TypeOK, Pc
<1>4. file'[1] = "stdout" => Good' /\ DeadBehind'
  BY <1>1, <1>2, SameKeeps
<1> QED
  BY <1>3, <1>4 DEF ReceiverInv, Good

\* Where the loop stands tells what dead connections there may be.
LEMMA SameDead ==
  ASSUME TypeOK, SameSockets, DeadBehind,
         \/ pc' = pc /\ i' = i
         \/ pc' \in {"check", "detect", "exit"}
         \/ pc' = "accept" /\ pc = "poll"
         \/ pc' = "validate" /\ pc = "accept"
         \/ pc' = "read" /\ pc = "validate"
         \/ pc' = "read" /\ pc = "read" /\ i' = i + 1
  PROVE  DeadBehind'
<1>1. \A k \in DOMAIN sockets : k \in Nat /\ sockets[k].fd \in Int /\ sockets'[k].fd = sockets[k].fd
                                /\ (AtEnd(k)' <=> AtEnd(k))
  BY SocketFields DEF SameSockets, AtEnd
<1>2. DOMAIN sockets' = DOMAIN sockets /\ i \in Nat
  BY DEF SameSockets, TypeOK
<1>3. \A k \in Nat : k < i => k < i + 1
  BY <1>2
<1>4. CASE pc' \in {"poll", "accept", "validate"}
  <2>1. pc \in {"poll", "accept", "validate"}
    BY <1>4
  <2>2. \A k \in DOMAIN sockets' : sockets'[k].fd > 0
    BY <1>1, <1>2, <2>1 DEF DeadBehind
  <2> QED
    BY <1>4, <2>2 DEF DeadBehind
<1>5. CASE pc' = "read" /\ pc = "read"
  <2>1. \A k \in DOMAIN sockets : sockets[k].fd > 0 \/ (AtEnd(k) /\ k < i)
    BY <1>5 DEF DeadBehind
  <2>2. i' = i \/ i' = i + 1
    BY <1>5
  <2>3. \A k \in DOMAIN sockets' : sockets'[k].fd > 0 \/ (AtEnd(k)' /\ k < i')
    BY <1>1, <1>2, <1>3, <2>1, <2>2
  <2> QED
    BY <1>5, <2>3 DEF DeadBehind
<1>6. CASE pc' = "read" /\ pc # "read"
  <2>1. pc = "validate"
    BY <1>6
  <2>2. \A k \in DOMAIN sockets' : sockets'[k].fd > 0
    BY <1>1, <1>2, <2>1 DEF DeadBehind
  <2> QED
    BY <1>6, <2>2 DEF DeadBehind
<1>7. CASE pc' \notin {"poll", "accept", "validate", "read"}
  BY <1>7 DEF DeadBehind
<1> QED
  BY <1>4, <1>5, <1>6, <1>7

\* Clients, signals, and the steps of the loop that change no connection.
LEMMA IdleStep ==
  ASSUME ReceiverInv, file' = file, sockets' = sockets, listening' = listening,
         backlog' = backlog \/ \E c \in Client : backlog' = Append(backlog, c),
         \/ pc' = pc /\ i' = i
         \/ pc' \in {"check", "detect", "exit"} /\ i' = i
         \/ pc' = "read" /\ pc = "read" /\ i' = i + 1
  PROVE  ReceiverInv'
<1>1. TypeOK
  BY DEF ReceiverInv
<1>2. SameSockets
  BY <1>1, UnchangedSockets
<1>3. backlog \in Seq(Client) /\ listening \in BOOLEAN /\ i \in Nat \ {0} /\ pc \in Pc
      /\ (listening => backlog # <<>>)
  BY <1>1 DEF TypeOK, Pc
<1>4. backlog' \in Seq(Client) /\ (listening' => backlog' # <<>>)
  <2>1. CASE backlog' = backlog
    BY <1>3, <2>1
  <2>2. CASE \E c \in Client : backlog' = Append(backlog, c)
    BY <1>3, <2>2
  <2> QED
    BY <2>1, <2>2
<1>5. i' \in Nat \ {0} /\ pc' \in Pc
  BY <1>3 DEF Pc
<1>6. DeadBehind => DeadBehind'
  BY <1>1, <1>2, SameDead
<1> QED
  BY <1>2, <1>3, <1>4, <1>5, <1>6, QuietStep

LEMMA ClientStep ==
  ASSUME ReceiverInv, (\E c \in Client : Connect(c) \/ Send(c) \/ Close(c)) \/ Signal \/ PollFails
                        \/ ReadNothing \/ ReadDone \/ Detect \/ UNCHANGED vars
  PROVE  ReceiverInv'
<1>1. ASSUME NEW c \in Client, Connect(c) PROVE ReceiverInv'
  BY <1>1, IdleStep DEF Connect
<1>2. ASSUME NEW c \in Client, Send(c) PROVE ReceiverInv'
  BY <1>2, IdleStep DEF Send, Write
<1>3. ASSUME NEW c \in Client, Close(c) PROVE ReceiverInv'
  BY <1>3, IdleStep DEF Close, Write
<1>4. CASE Signal
  BY <1>4, IdleStep DEF Signal
<1>5. CASE PollFails
  BY <1>5, IdleStep DEF PollFails
<1>6. CASE ReadNothing
  BY <1>6, IdleStep DEF ReadNothing, Reading
<1>7. CASE ReadDone
  BY <1>7, IdleStep DEF ReadDone
<1>8. CASE Detect
  BY <1>8, IdleStep DEF Detect
<1>9. CASE UNCHANGED vars
  BY <1>9, IdleStep DEF vars
<1> QED
  BY <1>1, <1>2, <1>3, <1>4, <1>5, <1>6, <1>7, <1>8, <1>9

LEMMA PollStep == ASSUME ReceiverInv, Poll PROVE ReceiverInv'
<1>1. TypeOK
  BY DEF ReceiverInv
<1>2. SameSockets
  BY <1>1, PollSame
<1>3. /\ backlog' \in Seq(Client) /\ listening' \in BOOLEAN /\ (listening' => backlog' # <<>>)
      /\ i' \in Nat \ {0} /\ pc' \in Pc /\ pc' = "accept" /\ pc = "poll"
  BY <1>1 DEF Poll, TypeOK, Pc
<1>4. DeadBehind => DeadBehind'
  BY <1>1, <1>2, <1>3, SameDead
<1> QED
  BY <1>2, <1>3, <1>4, QuietStep

LEMMA ReadBytesStep == ASSUME ReceiverInv, NEW n \in 1 .. LargestRead, ReadBytes(n) PROVE ReceiverInv'
<1>1. TypeOK /\ n \in Int
  BY ReadSize DEF ReceiverInv
<1>2. SameSockets
  BY <1>1, ReadBytesSame
<1>3. /\ backlog' = backlog /\ listening' = listening /\ i' = i + 1 /\ pc' = "read" /\ pc = "read"
  BY DEF ReadBytes, Reading
<1>4. /\ backlog' \in Seq(Client) /\ listening' \in BOOLEAN /\ (listening' => backlog' # <<>>)
      /\ i' \in Nat \ {0} /\ pc' \in Pc
  BY <1>1, <1>3 DEF TypeOK, Pc
<1>5. DeadBehind => DeadBehind'
  BY <1>1, <1>2, <1>3, SameDead
<1> QED
  BY <1>2, <1>4, <1>5, QuietStep

\* The steps that change connections keep the types of the rest.
LEMMA StepType ==
  ASSUME TypeOK, file' \in [Fd -> Client \cup {"stdout", "free"}], sockets' \in Seq(Socket),
         backlog' \in Seq(Client), listening' \in BOOLEAN, listening' => backlog' # <<>>,
         i' \in Nat \ {0}, pc' \in Pc,
         file'[1] = "stdout" => Good' /\ DeadBehind'
  PROVE  ReceiverInv'
  BY DEF TypeOK, ReceiverInv, Good, Pc

LEMMA AcceptStep == ASSUME ReceiverInv, Accept PROVE ReceiverInv'
<1>1. TypeOK /\ (file[1] = "stdout" => Good /\ DeadBehind)
  BY DEF ReceiverInv, Good
<1>2. listening' = FALSE /\ pc' = "validate" /\ pc = "accept" /\ i' = i
  BY DEF Accept
<1>3. i' \in Nat \ {0} /\ pc' \in Pc /\ listening' \in BOOLEAN
  BY <1>1, <1>2 DEF TypeOK, Pc
<1>4. CASE SameSockets /\ backlog' = backlog
  <2>1. backlog' \in Seq(Client)
    BY <1>1, <1>4 DEF TypeOK
  <2>2. DeadBehind => DeadBehind'
    BY <1>1, <1>2, <1>4, SameDead
  <2> QED
    BY <1>2, <1>3, <1>4, <2>1, <2>2, QuietStep
<1>5. CASE \E c \in Client, n \in Fd, r \in Socket :
              /\ file[n] = "free" /\ file' = [file EXCEPT ![n] = c]
              /\ r.fd = n /\ r.de.of = c /\ sockets' = Append(sockets, r)
              /\ backlog' \in Seq(Client)
  <2>1. PICK c \in Client, n \in Fd, r \in Socket :
              /\ file[n] = "free" /\ file' = [file EXCEPT ![n] = c]
              /\ r.fd = n /\ r.de.of = c /\ sockets' = Append(sockets, r)
              /\ backlog' \in Seq(Client)
    BY <1>5
  <2>2. file' \in [Fd -> Client \cup {"stdout", "free"}] /\ sockets' \in Seq(Socket)
    BY <1>1, <2>1 DEF TypeOK
  <2>3. file'[1] = "stdout" => file[1] = "stdout"
    BY <1>1, <2>1 DEF TypeOK
  <2>4. ASSUME file[1] = "stdout" PROVE Good' /\ DeadBehind'
    <3>1. Good /\ \A k \in DOMAIN sockets : sockets[k].fd > 0
      BY <1>1, <1>2, <2>4 DEF DeadBehind
    <3>2. Good' /\ \A k \in DOMAIN sockets' : sockets'[k].fd > 0
      BY <1>1, <2>1, <2>4, <3>1, AcceptKeeps
    <3> QED
      BY <1>2, <3>2 DEF DeadBehind
  <2> QED
    BY <1>1, <1>2, <1>3, <2>1, <2>2, <2>3, <2>4, StepType
<1> QED
  BY <1>1, <1>4, <1>5, AcceptAppends

\* A connection is dropped, and the round ends.
LEMMA DropStep ==
  ASSUME ReceiverInv, NEW k \in DOMAIN sockets, Replaced(k, -sockets[k].fd),
         backlog' = backlog, listening' = listening, i' = i, pc' = "detect",
         pc = "validate" \/ (pc = "read" /\ k = i)
  PROVE  ReceiverInv'
<1>1. TypeOK /\ (file[1] = "stdout" => Good /\ DeadBehind)
  BY DEF ReceiverInv, Good
<1>2. /\ file' = file /\ file' \in [Fd -> Client \cup {"stdout", "free"}] /\ sockets' \in Seq(Socket)
      /\ backlog' \in Seq(Client) /\ listening' \in BOOLEAN /\ (listening' => backlog' # <<>>)
      /\ i' \in Nat \ {0} /\ pc' \in Pc /\ i \in Nat
  BY <1>1 DEF Replaced, TypeOK, Pc
<1>3. ASSUME file[1] = "stdout" PROVE Good' /\ DeadBehind'
  <2>1. sockets[k].fd > 0 /\ \A m \in DOMAIN sockets : sockets[m].fd > 0 \/ (AtEnd(m) /\ m < k)
    <3>1. CASE pc = "validate"
      BY <1>1, <1>3, <3>1 DEF DeadBehind
    <3>2. CASE pc = "read" /\ k = i
      <4>1. \A m \in DOMAIN sockets : sockets[m].fd > 0 \/ (AtEnd(m) /\ m < k)
        BY <1>1, <1>3, <3>2 DEF DeadBehind
      <4>2. ~(k < k)
        BY <1>2, <3>2
      <4> QED
        BY <4>1, <4>2
    <3> QED
      BY <3>1, <3>2
  <2>2. Good'
    BY <1>1, <1>3, <2>1, DropKeeps
  <2>3. DeadBehind'
    BY DEF DeadBehind
  <2> QED
    BY <2>2, <2>3
<1> QED
  BY <1>1, <1>2, <1>3, StepType

LEMMA ValidateStep == ASSUME ReceiverInv, ValidateAll PROVE ReceiverInv'
<1>1. TypeOK
  BY DEF ReceiverInv
<1>2. backlog' = backlog /\ listening' = listening /\ pc = "validate"
  BY DEF ValidateAll
<1>3. CASE SameSockets /\ pc' = "read" /\ i' = 1
  <2>1. /\ backlog' \in Seq(Client) /\ listening' \in BOOLEAN /\ (listening' => backlog' # <<>>)
        /\ i' \in Nat \ {0} /\ pc' \in Pc
    BY <1>1, <1>2, <1>3 DEF TypeOK, Pc
  <2>2. DeadBehind => DeadBehind'
    BY <1>1, <1>2, <1>3, SameDead
  <2> QED
    BY <1>3, <2>1, <2>2, QuietStep
<1>4. CASE \E k \in DOMAIN sockets : Replaced(k, -sockets[k].fd) /\ pc' = "detect" /\ i' = i
  BY <1>2, <1>4, DropStep
<1> QED
  BY <1>1, <1>3, <1>4, ValidateReplaces

LEMMA ReadHangupStep == ASSUME ReceiverInv, ReadHangup PROVE ReceiverInv'
<1>1. TypeOK
  BY DEF ReceiverInv
<1>2. /\ pc = "read" /\ i <= Len(sockets) /\ sockets' = DropAt(i) /\ pc' = "detect"
      /\ file' = file /\ backlog' = backlog /\ listening' = listening /\ i' = i
  BY DEF ReadHangup, Reading
<1>3. i \in DOMAIN sockets
  BY <1>1, <1>2 DEF TypeOK
<1>4. Replaced(i, -sockets[i].fd)
  BY <1>1, <1>2, <1>3, DropReplaces
<1> QED
  BY <1>2, <1>3, <1>4, DropStep

LEMMA ReadEofStep == ASSUME ReceiverInv, ReadEof PROVE ReceiverInv'
<1>1. TypeOK /\ (file[1] = "stdout" => Good /\ DeadBehind)
  BY DEF ReceiverInv, Good
<1>2. i \in DOMAIN sockets /\ Replaced(i, -1)
  BY <1>1, ReadEofReplaces
<1>3. pc = "read" /\ pc' = pc /\ backlog' = backlog /\ listening' = listening /\ i' = i + 1
  BY DEF ReadEof, Reading
<1>4. /\ file' = file /\ file' \in [Fd -> Client \cup {"stdout", "free"}] /\ sockets' \in Seq(Socket)
      /\ backlog' \in Seq(Client) /\ listening' \in BOOLEAN /\ (listening' => backlog' # <<>>)
      /\ i' \in Nat \ {0} /\ pc' \in Pc /\ i \in Nat
  BY <1>1, <1>2, <1>3 DEF Replaced, TypeOK, Pc
<1>5. ASSUME file[1] = "stdout" PROVE Good' /\ DeadBehind'
  <2>1. \A m \in DOMAIN sockets : sockets[m].fd > 0 \/ (AtEnd(m) /\ m < i)
    BY <1>1, <1>3, <1>5 DEF DeadBehind
  <2>2. Good'
    BY <1>1, <1>2, <1>5, <2>1, EofKeeps
  <2>3. \A m \in DOMAIN sockets : m \in Nat
    BY <1>1, SocketFields
  <2> PICK k \in DOMAIN sockets : k = i
    BY <1>2
  <2>4. /\ DOMAIN sockets' = DOMAIN sockets /\ AtEnd(k)'
        /\ \A m \in DOMAIN sockets \ {k} : sockets'[m].fd = sockets[m].fd /\ (AtEnd(m)' <=> AtEnd(m))
    BY <1>2 DEF Replaced, AtEnd
  <2>5. i < i' /\ \A m \in Nat : m < i => m < i'
    BY <1>3, <1>4
  <2>6. \A m \in DOMAIN sockets' : sockets'[m].fd > 0 \/ (AtEnd(m)' /\ m < i')
    BY <2>1, <2>3, <2>4, <2>5
  <2>7. DeadBehind'
    BY <1>3, <2>6 DEF DeadBehind
  <2> QED
    BY <2>2, <2>7
<1> QED
  BY <1>1, <1>4, <1>5, StepType

LEMMA CheckStep == ASSUME ReceiverInv, Check PROVE ReceiverInv'
<1>1. TypeOK /\ (file[1] = "stdout" => Good /\ DeadBehind)
  BY DEF ReceiverInv, Good
<1>2. backlog' = backlog /\ listening' = listening /\ i' = i /\ pc = "check"
  BY DEF Check
<1>3. CASE pc' = "exit"
  BY <1>2, <1>3, IdleStep DEF Check
<1>4. CASE pc' # "exit"
  <2>1. /\ sockets' = SubSeq(Cleanup.sockets, 1, Cleanup.last) /\ pc' = "poll"
        /\ file' = [n \in Fd |-> IF n \in Cleanup.closed THEN "free" ELSE file[n]]
    BY <1>4 DEF Check
  <2>2. sockets \in Seq(Socket) /\ file \in [Fd -> Client \cup {"stdout", "free"}]
    BY <1>1 DEF TypeOK
  <2>3. /\ file' \in [Fd -> Client \cup {"stdout", "free"}] /\ sockets' \in Seq(Socket)
        /\ backlog' \in Seq(Client) /\ listening' \in BOOLEAN /\ (listening' => backlog' # <<>>)
        /\ i' \in Nat \ {0} /\ pc' \in Pc
    <3>1. sockets' \in Seq(Socket)
      BY <2>1, <2>2, CleanupType
    <3>2. file' \in [Fd -> Client \cup {"stdout", "free"}]
      BY <2>1, <2>2
    <3> QED
      BY <1>1, <1>2, <2>1, <3>1, <3>2 DEF TypeOK, Pc
  <2>4. file'[1] = "stdout" => file[1] = "stdout"
    BY <2>1
  <2>5. ASSUME file'[1] = "stdout" PROVE Good' /\ DeadBehind'
    <3>1. Good /\ file[1] = "stdout"
      BY <1>1, <2>4, <2>5
    <3>2. Good' /\ \A k \in DOMAIN sockets' : sockets'[k].fd > 0
      BY <1>1, <1>4, <2>5, <3>1, CheckKeeps
    <3> QED
      BY <2>1, <3>2 DEF DeadBehind
  <2> QED
    BY <1>1, <2>3, <2>5, StepType
<1> QED
  BY <1>3, <1>4

\* What the loop keeps about connections, descriptors and the dead is kept by every step.
LEMMA ReceiverInvStep == ReceiverInv /\ [Next]_vars => ReceiverInv'
<1> SUFFICES ASSUME ReceiverInv, [Next]_vars PROVE ReceiverInv'
  OBVIOUS
<1>1. CASE Check
  BY <1>1, CheckStep
<1>2. CASE Poll
  BY <1>2, PollStep
<1>3. CASE Accept
  BY <1>3, AcceptStep
<1>4. CASE ValidateAll
  BY <1>4, ValidateStep
<1>5. CASE ReadHangup
  BY <1>5, ReadHangupStep
<1>6. CASE ReadEof
  BY <1>6, ReadEofStep
<1>7. ASSUME NEW n \in 1 .. LargestRead, ReadBytes(n) PROVE ReceiverInv'
  BY <1>7, ReadBytesStep
<1>8. CASE (\E c \in Client : Connect(c) \/ Send(c) \/ Close(c)) \/ Signal \/ PollFails
            \/ ReadNothing \/ ReadDone \/ Detect \/ UNCHANGED vars
  BY <1>8, ClientStep
<1> QED
  BY <1>1, <1>2, <1>3, <1>4, <1>5, <1>6, <1>7, <1>8 DEF Next, Main

LEMMA ReceiverInvInit == Init => ReceiverInv
<1> SUFFICES ASSUME Init PROVE ReceiverInv
  OBVIOUS
<1>1. sockets = <<>> /\ DOMAIN sockets = {} /\ sockets \in Seq(Socket) /\ backlog \in Seq(Client)
  BY DEF Init
<1>2. file \in [Fd -> Client \cup {"stdout", "free"}] /\ \A n \in Fd : file[n] \notin Client
  BY DEF Init
<1>3. TypeOK
  BY <1>1, <1>2 DEF Init, TypeOK
<1>4. OwnDescriptor /\ NoneShared /\ NoneLeaked /\ DroppedLast /\ DeadBehind
  BY <1>1, <1>2 DEF OwnDescriptor, NoneShared, NoneLeaked, DroppedLast, DeadBehind
<1> QED
  BY <1>3, <1>4 DEF ReceiverInv

LEMMA ReceiverInvHolds == Spec => []ReceiverInv
  BY ReceiverInvInit, ReceiverInvStep, PTL DEF Spec

-----------------------------------------------------------------------------
(* The theorems. *)

\* Bytes are never given to the deserializer of another connection, however receiver_cleanup
\* moved the connections (receiver.c:84-104) and the kernel reused their descriptors.
THEOREM BytesAreDelivered == Spec => []BytesFollowSocket
<1>1. ReceiverInv => BytesFollowSocket
  <2> SUFFICES ASSUME ReceiverInv, Intact, NEW k \in DOMAIN sockets, sockets[k].fd > 0
               PROVE  file[sockets[k].fd] = sockets[k].de.of
    BY DEF BytesFollowSocket
  <2>1. TypeOK /\ OwnDescriptor
    BY DEF ReceiverInv, Intact
  <2>2. sockets[k].fd \in Int
    BY <2>1, SocketFields
  <2>3. Number(k) = sockets[k].fd /\ ~AtEnd(k)
    BY <2>2 DEF Number, AtEnd
  <2> QED
    BY <2>1, <2>3 DEF OwnDescriptor
<1> QED
  BY <1>1, ReceiverInvHolds, PTL

\* Every accepted connection has one place in the arrays until receiver_cleanup closes it,
\* and no place is left for a descriptor that is closed.
THEOREM DescriptorsAreTracked == Spec => []DescriptorsTracked
<1>1. ReceiverInv => DescriptorsTracked
  <2> SUFFICES ASSUME ReceiverInv, Intact, NEW n \in Fd
               PROVE  IF file[n] \in Client THEN \E k \in Uses(n) : Uses(n) = {k} ELSE Uses(n) = {}
    BY DEF DescriptorsTracked
  <2>1. TypeOK /\ OwnDescriptor /\ NoneShared /\ NoneLeaked /\ file[1] = "stdout"
        /\ \A k \in DOMAIN sockets : ~AtEnd(k)
    BY DEF ReceiverInv, Intact, AtEnd
  <2>2. \A x \in Int, y \in Nat \ {0} : x \in {y, -y} <=> (IF x < 0 THEN -x ELSE x) = y
    OBVIOUS
  <2>3. n \in Nat \ {0}
    OBVIOUS
  <2>4. \A k \in DOMAIN sockets : sockets[k].fd \in Int /\ sockets[k].de.of \in Client
    BY <2>1, SocketFields
  <2>5. Uses(n) = {k \in DOMAIN sockets : Number(k) = n}
    BY <2>2, <2>3, <2>4 DEF Uses, Number
  <2>6. CASE file[n] \in Client
    <3>1. PICK k \in DOMAIN sockets : Number(k) = n
      BY <2>1, <2>6 DEF NoneLeaked
    <3>2. \A m \in DOMAIN sockets : Number(m) = n => m = k
      BY <2>1, <3>1 DEF NoneShared
    <3> QED
      BY <2>5, <2>6, <3>1, <3>2
  <2>7. CASE file[n] \notin Client
    <3>1. \A k \in DOMAIN sockets : Number(k) # n
      BY <2>1, <2>4, <2>7 DEF OwnDescriptor
    <3> QED
      BY <2>5, <2>7, <3>1
  <2> QED
    BY <2>6, <2>7
<1> QED
  BY <1>1, ReceiverInvHolds, PTL

\* One call of receiver_cleanup removes every dead connection before poll (receiver.c:134),
\* although it does not look at the one that it moves: no round leaves more than one behind.
THEOREM NoDeadAreLeft == Spec => []NoDeadConnectionPolled
<1>1. ReceiverInv => NoDeadConnectionPolled
  BY DEF ReceiverInv, NoDeadConnectionPolled, Intact, DeadBehind
<1> QED
  BY <1>1, ReceiverInvHolds, PTL
=============================================================================
