----------------------------- MODULE ServerApi ------------------------------
(***************************************************************************)
(* Clients that use the functions of src/src/serverapi.c against the       *)
(* request handlers of src/src/server/worker.c, byte by byte: the client   *)
(* decodes the stream of its socket, the worker performs requests on the   *)
(* FileStore and writes responses to descriptor numbers.                   *)
(*                                                                         *)
(* The server has one worker thread (num-workers = 1, as in src/src/       *)
(* config/test1.toml), for which the table is the atomic store that        *)
(* HTableRefinement shows; with more of them htable_create_file loses      *)
(* files, and no promise about a file holds.  With one worker there is one *)
(* queue, which workload_queue_add leaves with the newest message and no   *)
(* other (see WorkloadQueue; what its write through a dangling pointer may *)
(* hit is there, too).                                                     *)
(*                                                                         *)
(* The polling loop is reduced to what it does for whole messages (see     *)
(* Receiver).  A path is one byte long, a number is eight bytes of which   *)
(* only the last is not zero, and a response is written in one step.  A    *)
(* client program connects once.                                           *)
(***************************************************************************)
EXTENDS FileOps, Functions

Seqs == INSTANCE SequencesExt

CONSTANTS
  Client,    \* client processes
  Worker,    \* the worker thread
  Api,       \* Api[c]: the requests [op, key, arg] that client c may make
  HasDir,    \* clients that pass a directory for evicted files
  Timed,     \* clients that pass a positive abstime to openConnection
  MaxCalls   \* bound on the calls of all clients

VARIABLES
  files, call, result, evicting, alive,   \* the store: see FileStore
  listening, \* whether the server has called listen
  queue,     \* the message in the worker's queue, if any
  serving,   \* per worker: the message that it handles
  evicted,   \* per worker: the files that its write has evicted
  response,  \* per worker: the responses that it has yet to write
  at,        \* the client at the other end of each descriptor of the server
  kept,      \* whether a bucket's mutex may have been kept for ever
  stage,     \* per client: where it stands in the current function
  due,       \* clients whose openConnection has passed abstime
  asked,     \* per client: the request of the current or last function
  wire,      \* per client: a message that the server has not read yet
  inbox,     \* per client: bytes that it has not read yet
  left,      \* per client: files that the current response still holds
  need,      \* per client: lengths of the path and contents to be read next
  saved,     \* per client: files that the current function has written to dirname
  ret,       \* per client: what the last function returned
  \* history
  done,      \* per client: the result of its current or last request in the store
  owed,      \* per client: files evicted by its current or last request
  holds,     \* per client: files that it has opened with O_LOCK and not given up
  strayed,   \* clients to whom bytes may come that they have not asked for
  lost,      \* clients whose message another one has replaced in the queue
  calls      \* calls so far

store == <<files, call, result, evicting, alive>>
server == <<listening, queue, serving, evicted, response, at, kept>>
client == <<stage, due, asked, wire, inbox, left, need, saved, ret>>
history == <<done, owed, holds, strayed, lost, calls>>
vars == <<store, server, client, history>>

Store == INSTANCE FileStore WITH Request <- [w \in Worker |-> {}], RunsDry <- FALSE

RESPONSE_OK == 0
RESPONSE_ERR == 1

\* A byte of the contents of a file.
Content == 99

U64 == 8
Huge == 1000

\* u64_to_big_endian, for numbers below 256.
U64ToBigEndian(n) == [i \in 1..U64 |-> IF i = U64 THEN n ELSE 0]

\* big_endian_to_u64; all numbers above 255 are as good as one.
BigEndianToU64(b) == IF \E i \in 1..U64 - 1 : b[i] # 0 THEN Huge ELSE b[U64]

Zeros(n) == [i \in 1..n |-> 0]
Path(k) == <<k>>

-----------------------------------------------------------------------------
(* Connections                                                             *)

Gone == {"closed", "killed", "refused"}
Connected(c) == stage[c] \notin {"start", "connecting"} \cup Gone
Accepted(c) == \E fd \in Fd : at[fd] = c

\* The server has closed its end: the process has ended.
HungUp == ~alive

Init ==
  /\ Store!Init
  /\ listening = FALSE /\ queue = {}
  /\ serving = [w \in Worker |-> NULL]
  /\ evicted = [w \in Worker |-> <<>>] /\ response = [w \in Worker |-> <<>>]
  /\ at = [fd \in Fd |-> NULL] /\ kept = FALSE
  /\ stage = [c \in Client |-> "start"] /\ due = {}
  /\ asked = [c \in Client |-> NULL] /\ wire = [c \in Client |-> NULL]
  /\ inbox = [c \in Client |-> <<>>]
  /\ left = [c \in Client |-> 0] /\ need = [c \in Client |-> <<0, 0>>]
  /\ saved = [c \in Client |-> {}] /\ ret = [c \in Client |-> NULL]
  /\ done = [c \in Client |-> NULL] /\ owed = [c \in Client |-> {}]
  /\ holds = [c \in Client |-> {}] /\ strayed = {} /\ lost = {} /\ calls = 0

\* listen_for_connections.
Listen ==
  /\ alive /\ ~listening /\ listening' = TRUE
  /\ UNCHANGED <<store, queue, serving, evicted, response, at, kept, client, history>>

OpenConnection(c) ==
  /\ stage[c] = "start"
  /\ stage' = [stage EXCEPT ![c] = "connecting"]
  /\ UNCHANGED <<store, server, due, asked, wire, inbox, left, need, saved, ret, history>>

\* The clock passes the second of abstime, if abstime.tv_sec > 0.
Tick(c) ==
  /\ stage[c] = "connecting" /\ c \in Timed \ due /\ due' = due \cup {c}
  /\ UNCHANGED <<store, server, stage, asked, wire, inbox, left, need, saved, ret, history>>

\* One round of openConnection's loop that ends it; a failed attempt changes nothing.
Attempt(c) ==
  /\ stage[c] = "connecting"
  /\ \/ c \in due /\ stage' = [stage EXCEPT ![c] = "refused"] /\ ret' = [ret EXCEPT ![c] = -1]
     \/ c \notin due /\ listening /\ alive
        /\ stage' = [stage EXCEPT ![c] = "idle"] /\ ret' = [ret EXCEPT ![c] = 0]
  /\ UNCHANGED <<store, server, due, asked, wire, inbox, left, need, saved, history>>

\* Descriptors to which a worker may still write, or that wait for a lock.
InUse ==
  {r.fd : r \in queue} \cup {serving[w].fd : w \in {v \in Worker : serving[v] # NULL}}
    \cup (UNION {{response[w][i].fd : i \in DOMAIN response[w]} : w \in Worker})
    \cup (UNION {Range(files[k].subs) : k \in Stored(files)})

\* receiver_add_new_connection: accept gives the lowest free descriptor.
Accept(c) ==
  /\ alive /\ listening /\ Connected(c) /\ ~Accepted(c)
  /\ \E fd \in Fd :
       /\ at[fd] = NULL /\ \A g \in Fd : at[g] = NULL => fd <= g
       /\ at' = [at EXCEPT ![fd] = c]
       /\ strayed' = IF fd \in InUse THEN strayed \cup {c} ELSE strayed
  /\ UNCHANGED <<store, listening, queue, serving, evicted, response, kept, client, done, owed, holds,
                 lost, calls>>

\* The polling loop finds that the client is gone and closes the descriptor.
Drop(fd) ==
  /\ alive /\ at[fd] # NULL /\ stage[at[fd]] \in Gone
  /\ at' = [at EXCEPT ![fd] = NULL]
  /\ UNCHANGED <<store, listening, queue, serving, evicted, response, kept, client, history>>

\* The client's end of the socket is closed, and its memory is gone.  A message that the
\* polling loop has not read is lost: it looks at the hang-up first.
Leave(c, s) ==
  /\ stage' = [stage EXCEPT ![c] = s]
  /\ wire' = [wire EXCEPT ![c] = NULL] /\ inbox' = [inbox EXCEPT ![c] = <<>>]
  /\ asked' = [asked EXCEPT ![c] = NULL] /\ ret' = [ret EXCEPT ![c] = NULL]
  /\ left' = [left EXCEPT ![c] = 0] /\ need' = [need EXCEPT ![c] = <<0, 0>>]
  /\ saved' = [saved EXCEPT ![c] = {}]
  /\ done' = [done EXCEPT ![c] = NULL] /\ owed' = [owed EXCEPT ![c] = {}]
  /\ holds' = [holds EXCEPT ![c] = {}] /\ strayed' = strayed \ {c}
  /\ UNCHANGED <<store, server, due, lost, calls>>

\* closeConnection, by a client that is not in the middle of another function.
CloseConnection(c) == stage[c] = "idle" /\ Leave(c, "closed")

\* The client process ends in the middle of a function.
Die(c) == Connected(c) /\ stage[c] # "idle" /\ Leave(c, "killed")

-----------------------------------------------------------------------------
(* The functions of the API: the request                                   *)

Opening == {"OPEN_FILE", "OPEN_FILE_CREATE", "OPEN_FILE_LOCK", "OPEN_FILE_CREATE_LOCK"}
Locking == {"OPEN_FILE_LOCK", "OPEN_FILE_CREATE_LOCK"}
WithFiles == {"WRITE_FILE", "APPEND_TO_FILE", "READ_N_FILES"}

\* enum ApiOp, without the two for the connection itself, which send no message.
Op == Opening \cup WithFiles
        \cup {"READ_FILE", "LOCK_FILE", "UNLOCK_FILE", "CLOSE_FILE", "REMOVE_FILE"}

Request == [op: Op, key: Key, arg: Nat]

\* A message as the workers have it: with its sender and the descriptor it came from.
Task == [op: Op, key: Key, arg: Nat, fd: Fd, from: Client]

\* num-workers = 1.
ASSUME OneWorker == \A v, w \in Worker : v = w

ASSUME ServerApiAssumption ==
  /\ Api \in [Client -> SUBSET Request]
  /\ NULL \notin Client \cup Request \cup Task \cup File \cup HTableError

\* make_simple_request, make_request_with_two_args and the request of readNFiles.  A
\* write to a socket whose other end is closed raises SIGPIPE.
Call(c) ==
  /\ stage[c] = "idle" /\ calls < MaxCalls
  /\ IF HungUp THEN Leave(c, "killed")
     ELSE /\ \E r \in Api[c] :
               wire' = [wire EXCEPT ![c] = r] /\ asked' = [asked EXCEPT ![c] = r]
          /\ stage' = [stage EXCEPT ![c] = "code"] /\ ret' = [ret EXCEPT ![c] = NULL]
          /\ saved' = [saved EXCEPT ![c] = {}]
          /\ done' = [done EXCEPT ![c] = NULL] /\ owed' = [owed EXCEPT ![c] = {}]
          /\ calls' = calls + 1
          /\ UNCHANGED <<store, server, due, inbox, left, need, holds, strayed, lost>>

-----------------------------------------------------------------------------
(* The server: the handlers and their responses                            *)

\* hand_over_buf_to_worker and workload_queue_add, for a message that the polling loop has
\* read completely: a message that waits in the queue is not seen again.
HandOver(fd) ==
  /\ alive /\ at[fd] # NULL /\ Connected(at[fd]) /\ wire[at[fd]] # NULL
  /\ LET c == at[fd] r == wire[c] IN
     /\ queue' = {[op |-> r.op, key |-> r.key, arg |-> r.arg, fd |-> fd, from |-> c]}
     /\ lost' = lost \cup {m.from : m \in queue}
     /\ wire' = [wire EXCEPT ![c] = NULL]
  /\ UNCHANGED <<store, listening, serving, evicted, response, at, kept, stage, due, asked, inbox, left,
                 need, saved, ret, done, owed, holds, strayed, calls>>

\* worker_handle_message: no handler knows API_OP_APPEND_TO_FILE.
Dispatch(w) ==
  /\ alive /\ serving[w] = NULL
  /\ \E r \in queue :
       /\ queue' = queue \ {r}
       /\ IF r.op = "APPEND_TO_FILE" THEN UNCHANGED <<serving, call>>
          ELSE serving' = [serving EXCEPT ![w] = r] /\ call' = [call EXCEPT ![w] = r]
  /\ UNCHANGED <<files, result, evicting, alive, listening, evicted, response, at, kept, client, history>>

\* The bytes for a file in a response: lengths, path and contents.
FileBytes(k, n) == U64ToBigEndian(1) \o U64ToBigEndian(n) \o Path(k) \o [i \in 1..n |-> Content]

ResponseByte_always_ok(err) == <<RESPONSE_OK>>

\* write_response_byte.
ResponseByte(err) == <<IF err = "OK" THEN RESPONSE_OK ELSE RESPONSE_ERR>>

WriteResponse_without_files(ev) == <<RESPONSE_OK>> \o U64ToBigEndian(0)

\* worker_handle_write_file: the code does not depend on the result.
WriteResponse(ev) ==
  <<RESPONSE_OK>> \o U64ToBigEndian(Len(ev))
    \o Seqs!FlattenSeq([i \in DOMAIN ev |-> FileBytes(ev[i].key, ev[i].len)])

ReadResponse_silent(err, n) ==
  IF err = "OK" THEN <<RESPONSE_OK>> \o U64ToBigEndian(n) \o [i \in 1..n |-> Content] ELSE <<>>

\* worker_handle_read_file.
ReadResponse(err, n) ==
  IF err = "OK" THEN <<RESPONSE_OK>> \o U64ToBigEndian(n) \o [i \in 1..n |-> Content]
  ELSE ResponseByte(err)

\* worker_handle_read_n_files: neither a code nor a count, and eight zeros at the end.
ReadNResponse(visited) ==
  Seqs!FlattenSeq([i \in DOMAIN visited |->
                     FileBytes(visited[i], files[visited[i]].length_in_bytes)]) \o Zeros(U64)

\* worker_handle_lock_file: no member of enum HTableError is negative.
LockResponse(err) == <<RESPONSE_OK>>

Message(fd, bytes) == [fd |-> fd, bytes |-> bytes]

\* The responses to r whose result is err, and for an unlock, the byte that the new owner
\* of the lock gets.
Responses(r, err) ==
  LET one(bytes) == <<Message(r.fd, bytes)>> IN
  CASE r.op = "WRITE_FILE" -> {one(WriteResponse(<<>>))}
    [] r.op = "READ_FILE" ->
         {one(ReadResponse(err, IF err = "OK" THEN files[r.key].length_in_bytes ELSE 0))}
    [] r.op = "READ_N_FILES" ->
         {one(ReadNResponse(Seqs!SetToSortSeq(S, <))) : S \in SUBSET Stored(files)}
    [] r.op = "LOCK_FILE" -> {one(LockResponse(err))}
    [] r.op = "UNLOCK_FILE" /\ err = "OK" /\ files[r.key].subs # <<>> ->
         {one(ResponseByte(err))
            \o <<Message(Heir(files[r.key]), ResponseByte("OK"))>>}
    [] OTHER -> {one(ResponseByte(err))}

\* The files that the sender of r has opened with O_LOCK, once r has succeeded.
HoldsAfter(r) ==
  CASE r.op \in Locking -> holds[r.from] \cup {r.key}
    [] r.op \in {"UNLOCK_FILE", "REMOVE_FILE", "OPEN_FILE"} -> holds[r.from] \ {r.key}
    [] OTHER -> holds[r.from]

\* A handler's call of the hash table takes effect; a write goes on to evict.  A visit that
\* reaches the end of a list keeps the mutex of that bucket (htable.c:504-507).
Handle(w) ==
  /\ Store!Perform(w)
  /\ LET r == serving[w] err == Do(files, r).err IN
     /\ kept' \in IF r.op = "READ_N_FILES" THEN {kept, TRUE} ELSE {kept}
     /\ IF w \in evicting' THEN UNCHANGED response
        ELSE \E m \in Responses(r, err) : response' = [response EXCEPT ![w] = m]
     /\ IF Connected(r.from)
        THEN /\ done' = [done EXCEPT ![r.from] = err]
             /\ strayed' = IF r.op = "LOCK_FILE" /\ err = "OK_WAIT" THEN strayed \cup {r.from}
                           ELSE strayed
             /\ holds' = IF err = "OK" THEN [holds EXCEPT ![r.from] = HoldsAfter(r)] ELSE holds
        ELSE UNCHANGED <<done, strayed, holds>>
  /\ UNCHANGED <<listening, queue, serving, evicted, at, client, owed, lost, calls>>

\* One round of htable_evict_files.
EvictFile(w, k) ==
  /\ Store!Evict(w, k)
  /\ evicted' = [evicted EXCEPT ![w] = Append(@, [key |-> k, len |-> files[k].length_in_bytes])]
  /\ LET c == serving[w].from IN
     owed' = IF Connected(c) THEN [owed EXCEPT ![c] = @ \cup {Path(k)}] ELSE owed
  /\ holds' = [c \in Client |-> holds[c] \ {k}]
  /\ UNCHANGED <<listening, queue, serving, response, at, kept, client, done, strayed, lost, calls>>

EvictEnd(w) ==
  /\ Store!EvictEnd(w)
  /\ LET r == serving[w] IN
     response' = [response EXCEPT ![w] = <<Message(r.fd, WriteResponse(evicted[w]))>>]
  /\ evicted' = [evicted EXCEPT ![w] = <<>>]
  /\ UNCHANGED <<listening, queue, serving, at, kept, client, history>>

\* A worker writes a response to a descriptor, whoever is at its other end by now;
\* SIGPIPE is ignored and errors are logged.
Respond(w) ==
  /\ alive /\ response[w] # <<>>
  /\ LET m == Head(response[w]) c == at[m.fd] IN
     inbox' = IF c # NULL /\ Connected(c) THEN [inbox EXCEPT ![c] = @ \o m.bytes] ELSE inbox
  /\ response' = [response EXCEPT ![w] = Tail(@)]
  /\ serving' = IF Len(response[w]) = 1 THEN [serving EXCEPT ![w] = NULL] ELSE serving
  /\ UNCHANGED <<store, listening, queue, evicted, at, kept, stage, due, asked, wire, left, need,
                 saved, ret, history>>

Crash(w) == Store!Fail(w) /\ UNCHANGED <<server, client, history>>

\* A hard shutdown: the worker has served all that was handed over.
Stop ==
  /\ alive /\ listening /\ queue = {} /\ \A w \in Worker : serving[w] = NULL
  /\ alive' = FALSE
  /\ UNCHANGED <<files, call, result, evicting, server, client, history>>

-----------------------------------------------------------------------------
(* The functions of the API: the response                                  *)

\* read_bytes with n bytes; at the end of the stream the rest of the buffer keeps the
\* zeros it was initialised with.
CanRead(c, n) == Len(inbox[c]) >= n \/ HungUp
Bytes(c, n) == SubSeq(inbox[c] \o Zeros(n), 1, n)

\* The process ended with a message of this client unread: a read fails.
Reset(c) == HungUp /\ wire[c] # NULL /\ inbox[c] = <<>>

Consume(c, n) == inbox' = [inbox EXCEPT ![c] = SubSeq(@, n + 1, Len(@))]

Enter(c, s) == stage' = [stage EXCEPT ![c] = s] /\ UNCHANGED ret
Return(c, v) == stage' = [stage EXCEPT ![c] = "idle"] /\ ret' = [ret EXCEPT ![c] = v]

Reading(c, s) ==
  /\ stage[c] = s
  /\ UNCHANGED <<store, server, due, asked, wire, done, owed, holds, lost, calls>>

\* The response code.
ReadCode(c) ==
  /\ Reading(c, "code") /\ CanRead(c, 1) /\ Consume(c, 1)
  /\ CASE Reset(c) \/ Bytes(c, 1)[1] = RESPONSE_ERR -> Return(c, -1)
       [] ~Reset(c) /\ Bytes(c, 1)[1] # RESPONSE_ERR ->
            IF asked[c].op \in WithFiles THEN Enter(c, "count")
            ELSE IF asked[c].op = "READ_FILE" THEN Enter(c, "length") ELSE Return(c, 0)
  /\ UNCHANGED <<left, need, saved, strayed>>

ReadLength_only(c) ==
  /\ Reading(c, "length") /\ CanRead(c, U64) /\ Consume(c, U64)
  /\ need' = [need EXCEPT ![c] = <<0, BigEndianToU64(Bytes(c, U64))>>]
  /\ Return(c, 0)
  /\ UNCHANGED <<left, saved, strayed>>

\* readFile: the length, and the allocation of the buffer.
ReadLength(c) ==
  /\ Reading(c, "length") /\ CanRead(c, U64) /\ Consume(c, U64)
  /\ need' = [need EXCEPT ![c] = <<0, BigEndianToU64(Bytes(c, U64))>>]
  /\ Enter(c, "contents")
  /\ UNCHANGED <<left, saved, strayed>>

\* readFile: the contents.
ReadContents(c) ==
  /\ Reading(c, "contents") /\ CanRead(c, need[c][2]) /\ Consume(c, need[c][2])
  /\ Return(c, 0)
  /\ UNCHANGED <<left, need, saved, strayed>>

\* handle_response_with_files: the number of files.
ReadCount(c) ==
  /\ Reading(c, "count") /\ CanRead(c, U64) /\ Consume(c, U64)
  /\ LET n == BigEndianToU64(Bytes(c, U64)) IN
     /\ left' = [left EXCEPT ![c] = n]
     /\ IF n = 0 THEN Return(c, 0) ELSE Enter(c, "lengths")
  /\ UNCHANGED <<need, saved, strayed>>

\* handle_response_with_files: the lengths of the next file.
ReadLengths(c) ==
  /\ Reading(c, "lengths") /\ CanRead(c, 2 * U64) /\ Consume(c, 2 * U64)
  /\ LET b == Bytes(c, 2 * U64) IN
     need' = [need EXCEPT ![c] = <<BigEndianToU64(b), BigEndianToU64(SubSeq(b, U64 + 1, 2 * U64))>>]
  /\ Enter(c, "body")
  /\ UNCHANGED <<left, saved, strayed>>

\* write_file_to_dir cannot open the directory itself, and fails if fwrite writes nothing.
Writable(c) == need[c][1] > 0 /\ need[c][2] > 0

\* handle_response_with_files: the path and the contents of the next file.
ReadBody(c) ==
  LET n == need[c][1] + need[c][2] IN
  /\ Reading(c, "body") /\ CanRead(c, n) /\ Consume(c, n) /\ c \in HasDir
  /\ left' = [left EXCEPT ![c] = @ - 1]
  /\ IF ~Writable(c)
     THEN Return(c, -1) /\ strayed' = strayed \cup {c} /\ UNCHANGED saved
     ELSE /\ saved' = [saved EXCEPT ![c] = @ \cup {Bytes(c, need[c][1])}]
          /\ IF left[c] = 1 THEN Return(c, 0) ELSE Enter(c, "lengths")
          /\ UNCHANGED strayed
  /\ UNCHANGED need

\* The ends of a client that are in its own code: a file arrives and there is no directory
\* to write it to (strlen of a null pointer), or the buffer it asks for is too large.
Abort(c) ==
  /\ \/ stage[c] = "body" /\ CanRead(c, need[c][1] + need[c][2]) /\ c \notin HasDir
     \/ stage[c] \in {"contents", "body"} /\ need[c][1] + need[c][2] >= Huge
  /\ Leave(c, "killed")

-----------------------------------------------------------------------------

ClientStep(c) ==
  \/ ReadCode(c) \/ ReadLength(c) \/ ReadContents(c) \/ ReadCount(c) \/ ReadLengths(c)
  \/ ReadBody(c)

WorkerStep(w) ==
  \/ Dispatch(w) \/ Handle(w) \/ EvictEnd(w) \/ Respond(w) \/ Crash(w)
  \/ \E k \in Key : EvictFile(w, k)

Next ==
  \/ Listen \/ Stop
  \/ \E c \in Client :
       \/ OpenConnection(c) \/ Tick(c) \/ Attempt(c) \/ Accept(c) \/ Call(c)
       \/ ClientStep(c) \/ Abort(c) \/ CloseConnection(c) \/ Die(c)
  \/ \E fd \in Fd : HandOver(fd) \/ Drop(fd)
  \/ \E w \in Worker : WorkerStep(w)

Spec == Init /\ [][Next]_vars

\* The polling loop goes on, a client goes on reading and attempting, and so does the worker
\* until it may meet a mutex that is never given back.
FairSpec ==
  /\ Spec
  /\ \A w \in Worker : WF_vars(~kept /\ WorkerStep(w))
  /\ \A fd \in Fd : WF_vars(HandOver(fd)) /\ WF_vars(Drop(fd))
  /\ \A c \in Client : WF_vars(Accept(c)) /\ WF_vars(ClientStep(c) \/ Abort(c))
                         /\ WF_vars(Attempt(c)) /\ WF_vars(Tick(c))
=============================================================================
