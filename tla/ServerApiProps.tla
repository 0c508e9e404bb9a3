--------------------------- MODULE ServerApiProps ---------------------------
(***************************************************************************)
(* Properties of the API between clients and workers.                      *)
(***************************************************************************)
EXTENDS ServerApi

\* Between two functions, on a connection to a server that runs, without bytes that the
\* client has not asked for: it has never been told to wait for a lock, it was not given
\* the descriptor of a client with unfinished requests, and it has not given up in the
\* middle of a response.
AtRest(c) == stage[c] = "idle" /\ c \notin strayed /\ alive

\* Every function of serverapi.c that returns has read exactly the response to its own
\* request: nothing is left in the socket for the next function to take for a response,
\* and nothing is still on its way from the queues or the workers.
InStep ==
  \A c \in Client : AtRest(c) =>
    /\ inbox[c] = <<>> /\ wire[c] = NULL
    /\ \A r \in queue : r.from # c
    /\ \A w \in Worker : \A i \in DOMAIN response[w] : at[response[w][i].fd] # c

\* What a function returns is true of the storage: 0 from openFile, closeFile or
\* unlockFile means that the request was performed and succeeded, -1 that it was
\* performed and failed; no function returns before its request was performed.
ResultsAreTrue ==
  \A c \in Client : AtRest(c) /\ asked[c] # NULL =>
    /\ done[c] # NULL
    /\ asked[c].op \in Opening \cup {"CLOSE_FILE", "UNLOCK_FILE", "READ_FILE"} =>
         (ret[c] = 0 <=> done[c] = "OK")

\* When writeFile returns 0 with a directory for evicted files, that directory has got
\* exactly the files that left the storage because of this write.
EvictedFilesSaved ==
  \A c \in Client : AtRest(c) /\ asked[c] # NULL /\ asked[c].op = "WRITE_FILE" =>
    (ret[c] = 0 => saved[c] = owed[c])

\* A client that has opened a file with O_LOCK keeps the lock, whatever other clients
\* ask for, until it unlocks or removes the file, or the file is evicted.
OpenLockKept ==
  \A c \in Client : AtRest(c) => \A k \in holds[c] :
    files[k] # NULL /\ files[k].is_locked /\ at[files[k].fd_owner] = c

\* lockFile returns 0 only to the one client that may use the file.
MutualExclusion ==
  \A c, d \in Client : \A k \in holds[c] :
    c # d /\ AtRest(c) /\ stage[d] = "idle" /\ asked[d] # NULL =>
      ~(asked[d].op = "LOCK_FILE" /\ asked[d].key = k /\ ret[d] = 0)

Unanswered(c) == asked[c] # NULL /\ asked[c].op \in {"APPEND_TO_FILE", "READ_N_FILES"}

Underway(c) ==
  /\ stage[c] \notin {"start", "idle"} \cup Gone
  /\ stage[c] = "connecting" => c \in Timed
  /\ ~Unanswered(c)

\* openConnection ends, at the latest at abstime if that is positive; and every other function
\* but appendToFile and readNFiles ends, with a response, with the end of the server or with
\* that of the client, unless its message is replaced in the queue (workload_queue.c:75), a
\* bucket's mutex is never given back (htable.c:506) or stray bytes come.
EveryCallReturns ==
  \A c \in Client :
    Underway(c) ~> stage[c] \in {"idle"} \cup Gone \/ c \in strayed \cup lost \/ kept

-----------------------------------------------------------------------------
(* What OpenLockKept rests on, in every state.                             *)

Stage == {"start", "connecting", "idle", "code", "length", "contents", "count", "lengths",
          "body"} \cup Gone

TypeOK ==
  /\ files \in Files
  /\ call \in [Worker -> Task \cup {NULL}] /\ serving \in [Worker -> Task \cup {NULL}]
  /\ evicting \subseteq Worker /\ queue \subseteq Task
  /\ at \in [Fd -> Client \cup {NULL}] /\ stage \in [Client -> Stage]
  /\ wire \in [Client -> Request \cup {NULL}]
  /\ DOMAIN response = Worker
  /\ \A w \in Worker : Len(response[w]) \in 0 .. 2 /\ response[w] \in Seq(Range(response[w]))
  /\ holds \in [Client -> SUBSET Key] /\ strayed \subseteq Client

\* A worker has one message at a time, of which it performs the request, then evicts, then
\* writes the responses.
OneAtATime ==
  \A w \in Worker :
    /\ call[w] # NULL => call[w] = serving[w] /\ w \notin evicting /\ response[w] = <<>>
    /\ w \in evicting => serving[w] # NULL /\ response[w] = <<>>
    /\ response[w] # <<>> => serving[w] # NULL

\* The messages that the polling loop has handed over and that are not answered.
InHand == queue \cup (Range(serving) \ {NULL})

Before == {"start", "connecting"}

\* While the sender of a message is connected, its descriptor leads to it; and a message
\* that came from a descriptor is from the client at its other end, if that one has not
\* been given the descriptor of a client with unfinished requests.
SendersKnown ==
  \A r \in InHand :
    /\ stage[r.from] \notin Before
    /\ Connected(r.from) => at[r.fd] = r.from
    /\ at[r.fd] # NULL /\ Connected(at[r.fd]) /\ at[r.fd] \notin strayed => at[r.fd] = r.from

\* Who has not connected has no descriptor and no lock.
NothingBefore == \A c \in Client : stage[c] \in Before => ~Accepted(c) /\ holds[c] = {}

\* OpenLockKept also in the middle of a function and at the end of the server.
LocksHeld ==
  \A c \in Client : Connected(c) /\ c \notin strayed => \A k \in holds[c] :
    files[k] # NULL /\ files[k].is_locked /\ at[files[k].fd_owner] = c

LockInv == OneAtATime /\ SendersKnown /\ NothingBefore /\ LocksHeld

-----------------------------------------------------------------------------
(* What InStep, ResultsAreTrue and EvictedFilesSaved rest on.              *)

Evicted == [key: Key, len: Nat]
Paths(ev) == {Path(ev[i].key) : i \in DOMAIN ev}
Contents(n) == [i \in 1..n |-> Content]

\* The files of a response, without their number.
FilesBytes(ev) == Seqs!FlattenSeq([i \in DOMAIN ev |-> FileBytes(ev[i].key, ev[i].len)])

\* The byte sequence b is the whole response that the last request of c has to get.
Reply(c, b) ==
  /\ done[c] # NULL
  /\ asked[c].op = "WRITE_FILE" =>
       \E ev \in Seq(Evicted) : b = WriteResponse(ev) /\ owed[c] = Paths(ev)
  /\ asked[c].op = "READ_FILE" => \E n \in Nat : b = ReadResponse(done[c], n)
  /\ asked[c].op = "LOCK_FILE" => b = <<RESPONSE_OK>>
  /\ asked[c].op \in Op \ {"WRITE_FILE", "READ_FILE", "LOCK_FILE"} => b = ResponseByte(done[c])
  /\ asked[c].op # "APPEND_TO_FILE"

\* Whoever is connected at the descriptor must be prepared for bytes it has not asked for.
Loose(fd) == at[fd] # NULL /\ Connected(at[fd]) => at[fd] \in strayed

\* The first response of w is the one to the request it serves.
Answering(w) == response[w] # <<>> /\ response[w][1].fd = serving[w].fd

\* Worker w has a request of c and has not answered it.
Owes(w, c) ==
  /\ serving[w] # NULL /\ serving[w].from = c
  /\ call[w] # NULL \/ w \in evicting \/ Answering(w)

Sent(c) == stage[c] = "code" /\ inbox[c] = <<>> /\ asked[c] \in Request

\* Nothing of c's last request is between its call and its socket.
Arrived(c) ==
  wire[c] = NULL /\ (\A r \in queue : r.from # c) /\ \A w \in Worker : ~Owes(w, c)

\* What c has got out of the response and what it has left to read, at each point of its
\* functions.
Returned(c) ==
  /\ inbox[c] = <<>>
  /\ asked[c] # NULL =>
       /\ done[c] # NULL
       /\ asked[c].op \in Opening \cup {"CLOSE_FILE", "UNLOCK_FILE", "READ_FILE"} =>
            (ret[c] = 0 <=> done[c] = "OK")
       /\ asked[c].op = "WRITE_FILE" /\ ret[c] = 0 => saved[c] = owed[c]

AwaitsCode(c) ==
  /\ asked[c] \in Request
  /\ ((asked[c].op = "APPEND_TO_FILE" \/ c \in lost) /\ inbox[c] = <<>>) \/ Reply(c, inbox[c])

ReadingFile(c) == asked[c] # NULL /\ asked[c].op = "READ_FILE" /\ done[c] = "OK"

AwaitsLength(c) ==
  ReadingFile(c) /\ \E n \in Nat : inbox[c] = U64ToBigEndian(n) \o Contents(n)

AwaitsContents(c) ==
  ReadingFile(c) /\ need[c][2] \in Nat /\ inbox[c] = Contents(need[c][2])

WritingFile(c) == asked[c] # NULL /\ asked[c].op = "WRITE_FILE" /\ done[c] # NULL

AwaitsCount(c) ==
  /\ WritingFile(c) /\ saved[c] = {}
  /\ \E ev \in Seq(Evicted) :
       inbox[c] = U64ToBigEndian(Len(ev)) \o FilesBytes(ev) /\ owed[c] = Paths(ev)

AwaitsLengths(c) ==
  /\ WritingFile(c)
  /\ \E ev \in Seq(Evicted) :
       /\ inbox[c] = FilesBytes(ev) /\ left[c] = Len(ev) /\ ev # <<>>
       /\ owed[c] = saved[c] \cup Paths(ev)

AwaitsBody(c) ==
  /\ WritingFile(c)
  /\ \E ev \in Seq(Evicted), k \in Key, n \in Nat :
       /\ need[c] = <<1, n>> /\ left[c] = Len(ev) + 1
       /\ inbox[c] = Path(k) \o Contents(n) \o FilesBytes(ev)
       /\ owed[c] = saved[c] \cup {Path(k)} \cup Paths(ev)

Decoded(c) ==
  /\ stage[c] = "idle" => Returned(c)
  /\ stage[c] = "code" => AwaitsCode(c)
  /\ stage[c] = "length" => AwaitsLength(c)
  /\ stage[c] = "contents" => AwaitsContents(c)
  /\ stage[c] = "count" => AwaitsCount(c)
  /\ stage[c] = "lengths" => AwaitsLengths(c)
  /\ stage[c] = "body" => AwaitsBody(c)

\* The one request of c is in one place, and what it has to get is on its way.
Exchange(c) ==
  /\ stage[c] = "code" => saved[c] = {}
  /\ wire[c] # NULL =>
       /\ Sent(c) /\ owed[c] = {} /\ wire[c] = asked[c]
       /\ (\A r \in queue : r.from # c) /\ \A w \in Worker : ~Owes(w, c)
  /\ \A r \in queue : r.from = c =>
       /\ Sent(c) /\ owed[c] = {} /\ r.op = asked[c].op
       /\ (\A q \in queue : q.from = c => q = r) /\ \A w \in Worker : ~Owes(w, c)
  /\ \A w \in Worker : Owes(w, c) =>
       /\ Sent(c) /\ serving[w].op = asked[c].op
       /\ \A v \in Worker : Owes(v, c) => v = w
       /\ call[w] # NULL => owed[c] = {}
       /\ w \in evicting => done[c] # NULL /\ owed[c] = Paths(evicted[w])
       /\ Answering(w) => Reply(c, response[w][1].bytes)
  /\ Arrived(c) => Decoded(c)

\* Only subscribers, and clients that have been given one's descriptor, get bytes from
\* others; only writes evict.
Destinations ==
  /\ \A k \in Stored(files) : \A fd \in Range(files[k].subs) : Loose(fd)
  /\ \A w \in Worker : \A i \in DOMAIN response[w] :
       /\ response[w][i].fd \in Fd
       /\ Loose(response[w][i].fd) \/ (i = 1 /\ response[w][1].fd = serving[w].fd)

Evictions ==
  \A w \in Worker :
    /\ evicted[w] \in Seq(Evicted) /\ (evicted[w] # <<>> => w \in evicting)
    /\ serving[w] # NULL => serving[w].op # "APPEND_TO_FILE"
    /\ w \in evicting => serving[w].op = "WRITE_FILE"

Fresh ==
  \A c \in Client : stage[c] \in Before => inbox[c] = <<>> /\ wire[c] = NULL /\ asked[c] = NULL

\* No client calls readNFiles, whose response its caller cannot decode.
NoReadN == \A c \in Client : \A r \in Api[c] : r.op # "READ_N_FILES"

Answerable ==
  /\ \A r \in InHand : r.op # "READ_N_FILES"
  /\ \A c \in Client : asked[c] \in Api[c] \cup {NULL} /\ wire[c] \in {NULL, asked[c]}

Indexed ==
  /\ DOMAIN inbox = Client /\ DOMAIN asked = Client /\ DOMAIN done = Client
  /\ DOMAIN owed = Client /\ DOMAIN saved = Client /\ DOMAIN ret = Client
  /\ DOMAIN left = Client /\ DOMAIN need = Client /\ DOMAIN evicted = Worker

Exchanges == alive => \A c \in Client : Connected(c) /\ c \notin strayed => Exchange(c)

ProtocolInv == Indexed /\ Answerable /\ Destinations /\ Evictions /\ Fresh /\ Exchanges
=============================================================================
