# A TLA+ model of uni-file-storage

uni-file-storage is a file storage server and its client library, in C. Clients
talk to the server over a Unix socket; the server keeps files in memory, up to a
number of files and of bytes, and evicts files when a limit is passed. This
project models the server (the storage, the threads and queues that feed it, the
polling loop that reads requests, the shutdown), the client library with the bytes that
pass between the two, and the client program. `PROJECT.json` maps every definition to
the lines it models.

## 1. Inventory

| Component | State | Operations | Interacts with |
|---|---|---|---|
| hash table, `server/htable.c` | buckets (mutex, doubly linked list), items (length, owner, open, locked, subscribers), counters and their mutex, FIFO of keys | lock, unlock, open, create, close, remove, replace/append contents, evict, visit | called by all workers at once |
| workload queues, `server/workload_queue.c` | per worker: mutex, condition variable, `next_incoming`, `last_incoming` | init, add, pull, signal all, free | main thread adds, one worker pulls |
| workers, `server/worker.c` | thread ids, the message in hand | entry point, one handler per request, spawn, join | queues, hash table, client sockets |
| receiver, `server/receiver.c` | array of polled descriptors, array of deserializers, `accept_new_connections` | poll, accept, cleanup, hand over, is_dead | kernel, deserializers, queues |
| deserializer, `server/deserializer.c` | buffered bytes | create, buffer, missing, validate, detach | receiver |
| main and global state, `server/main.c`, `global_state.c` | flags `soft` and `hard`, thread counter, log mutex | signal handlers, polling loop, shutdown | all of the above |
| configuration, `server/config.c` | limits, policy, number of workers | parse once at start | constants of the model |
| client API, `serverapi.c` | one connection | one function per request; waits for each response | server |
| client program, `client/*.c` | list of actions | parse options, run actions in order | client API |

What is hard here:

- *Interleavings.* Each call on the table is several critical sections under two
  kinds of mutexes, and two places read a list's head without one. Counters lag
  behind the table. The eviction loop takes bucket mutexes under the counters' mutex.
- *Condition variables and flags.* The shutdown flag is set without the mutex
  that protects the wait.
- *Memory.* Items and messages are freed while pointers to them are kept.
- *Streams.* Reads cut messages anywhere; clients vanish in the middle of one;
  descriptors are closed and given out again; entries move in two arrays.
- *Signals* that arrive at any moment of a round of the polling loop.
- *A protocol without framing of responses.* A client knows where a response ends only by
  decoding it; one byte too many or too few, a byte it has not asked for, or a response
  to the descriptor's previous owner shifts everything after it.
- *Partial failure.* Clients die in the middle of a call, the server ends before it
  answers, one of the several requests behind one action fails.

What makes each part correct: lists are whole and every stored file is found;
counters agree with the table; limits hold at rest; no circular wait; a file's
lock moves only by its owner's hand; no wake-up is lost; every request is
handled once or known to be replaced in its queue, also across a shutdown; the messages handed over are those written; what a
function of the API returns is true of the storage, and nothing is left for the next one
to read; a command line is parsed as written, and no file that the client stored is lost.
`PROJECT.json` lists the hazards line by line with the properties that watch them.

## 2. Modules

    HTable <- HTableProps <- HTableRefinement <- MCHTable           (TLC)
                          <- HTableProofs     <- HTableListProofs   (TLAPS; extends
                                                 HTableRefinement as well)
    FileOps <- FileStore     (instantiated by HTableRefinement and ServerApi)
            <- ServerApi <- ServerApiProps <- MCServerApi, ServerApiProofs
            <- Client    <- ClientProps    <- MCClient, ClientProofs
    WorkloadQueue <- WorkloadQueueProps <- WorkloadQueueProofs
    Deserializer <- Connection <- ConnectionProps <- ConnectionProofs
                 <- Receiver   <- ReceiverProps   <- ReceiverProofs
    ProofLemmas <- all of these proofs but ConnectionProofs

(`A <- B`: B extends A.) In every module, an operator with a lower-case suffix after an
underscore (`OpenFile_keeps_mutex`) is a faulty variant of the operator below
it. No specification uses it; it is there to see that a property fails when the
code has that fault.

**HTable.** One step is one critical section, or what a worker does between two.
`pc[w]` names the next one: a write is `write` (bucket's mutex), `write_stats`
(counters' mutex), `evict_lock`, `evict`; a creation is `create`, `create_item`
(without a mutex), `create_link`, `create_stats`. A mutex is a variable (`guard`,
`stats_guard`) because readers, visitors and the eviction loop keep one across
steps. Lists are the pointers of the code on a heap of addresses, so that a stale
`next` or a freed item is a state of the model; `Fetch` walks a list as
`htable_fetch_item` does. Where the code has no defined continuation (freed or
null pointer, failed assertion, `exit`) the step sets `fault` and the behaviour ends. Contents
are their length; `size_t` counters count modulo `Word`. The request of a worker
is chosen by `Begin` from `Api[w]`, which stands for the dispatch of `worker.c`.
`worker.c` has no case for `APPEND_TO_FILE`; the run `visit` includes it to check
`htable_append_to_file_contents` as a function of the table.

**WorkloadQueue.** The queues with the worker loop, the signal handlers and the
end of `inner_main`. A queue's mutex is a variable from the check of the flag to
`pthread_cond_wait`. A message is the number of its allocation; `next`, `next_incoming` and
`last_incoming` are what the code leaves in them. `workload_queue_add` replaces a message that waits
(`lost`), and writes through `last_incoming` although that message may have been freed
(`AfterDangling`): the write hits free memory, which nothing reads, or memory that `malloc` has given out again
(`fault = "wild_write"`, after which the behaviour is not defined). A handler returns, ends the process (`Crash`),
or never returns, once some handler may have kept a mutex of the table (`KeepMutex`). Any client
that is connected may send at any time, since nothing in the server makes it wait for its response. A
wake-up without a signal is a step.

**Deserializer** has the functions of `deserializer.c` as operators on the number
of buffered bytes and the header at their front. **Connection** uses them on one
stream whose bytes are positions, so that a message handed over can be compared
with the one written. **Receiver** uses them in the polling loop with many
connections: a round is `check`, `poll`, `accept`, `validate`, `read`, `detect`,
and clients, signals and the kernel act between any two. Because Connection shows
that a deserializer never holds bytes of a later message, Receiver keeps
per connection only the current message. The kernel (descriptor table, `poll`,
`accept`, `read`) is modelled from how `receiver.c` uses it. `Hangup` is the set of clients
whose end `poll` reports as `POLLHUP`, as Linux does when a Unix socket is closed; the end
of the others is a read of zero bytes, as after a shutdown of the sending half.

**FileOps** says what each request does to a map from paths to files, one operator per
function of `htable.h`. **FileStore** makes a concurrent specification of them: a request takes
effect in one step (`Perform`) between its call and its return; a write is followed by
evictions, one file at a time, exactly while a limit is exceeded. **HTableRefinement** maps
HTable to it: the file under a path is what `Fetch` returns, a request is pending until the critical
section that changes or reads its item (for a creation the one that links it), a worker at
`write_stats`, `evict_lock` or `evict` is evicting, and the counters are invisible. `FileOf` is
what a client sees of an item, `FilesBar`, `CallBar`, `ResultBar` and `EvictingBar` are the mapping. It
says nothing about *which* file is evicted; `RunsDry` allows the `fifo` policy to fail.

**ServerApi** composes FileStore with the handlers of `worker.c`, the functions of
`serverapi.c` and the descriptors of the server. The server has *one* worker (`OneWorker`; `num-workers` is 1 in
`config/test1.toml`): only with one is the table the atomic store that HTableRefinement shows,
since creations by two of them overlap and lose or shadow files (run `v_reachable`), so that no promise about
a file would hold. `Call` writes a request, `HandOver` puts it into the worker's queue, which keeps the
newest message and no other, as `workload_queue_add` leaves it; the clients whose message was
replaced are `lost`. `Dispatch` takes it out, `Handle` performs the request and makes the response of its handler as a
sequence of bytes, `Respond` writes it to a descriptor number, and `ReadCode`, `ReadLength`,
`ReadContents`, `ReadCount`, `ReadLengths`, `ReadBody` are the reads of the client, each of which
takes what the code takes from the socket and goes where the code goes. At the end of a
stream `read_bytes` leaves the zeros of the buffer. A `readNFiles` may leave a bucket's mutex taken
(`kept`), after which nothing makes the worker go on. Clients connect (with retries until
`abstime`, if that is positive: `Timed`), leave and die at any point, the server stops or crashes, descriptors are given
out again. A path is one byte, a number below 256 in eight bytes, a response is
written in one step. `done`, `owed`, `holds`, `strayed` and `lost` are history variables that only the
properties read: `strayed` are the clients to which bytes may come that they have not asked for.

**Client** is the program: `ParseOption` is a round of `cli_args_parse` for whatever option
`getopt` returns next, `NextAction` and `ActionDone` the loop of `main`, and the other actions one
API call each. A call is one step with the results that ServerApi allows (`Replies`): the
server performs it and evicts, or ends first. The server has one worker here, too, so that
other clients' requests happen one by one between those of this one: `Interfere` is such a request with the
evictions of its write. `NoAnswer` is a call that waits for ever (`pc = "waits"`), because another client's message
replaced this one's in the queue or its `readNFiles` kept a mutex; an unlock that passes the lock to this
client sends it a byte too many (`PassesToMe`, `pc = "stray"`), and what follows is not modelled.
The descriptor of its connection is assumed not to be one that a former client
still has requests for. The stack of `write_dir` is a variable because its activations share one limit.

## 3. Runs

`tlc -config <cfg> <module>`; all bounds are constants of the `.cfg` files.

| Run | Instance | What it shows |
|---|---|---|
| `two` | 2 workers that create, write, remove; 2 colliding keys; 4 calls | Counters equal the table give or take the calls in progress (`ItemsAccounted`, `SpaceAccounted`), storage limit at rest. It holds in spite of the race below: the counters do not depend on the lists being right. |
| `readers` | 1 worker that creates, writes and removes, 1 that opens, closes, reads, locks, unlocks; 2 clients; every write evicts | `ImplementsStore`: the table is an atomic store. `NoCircularWait`: with a reader that keeps a bucket's mutex and an eviction that asks for it, nobody waits in a circle. Lists stay whole, no crash, subscribers wait only behind a lock, the lock moves by its owner, mutexes are given back, every call ends. |
| `visit` | 1 worker with every request but visits under `fifo`, 1 visitor; 3 keys in 2 buckets; 4 calls | A visitor always holds the mutex of its bucket and respects its bound, the first eviction finds a file unless one was removed. Deadlock is not checked: a visit may keep a mutex for ever (section 5). |
| `v_reachable` | as `two` | Violation: creations that overlap. |
| `queues` | 2 workers, 2 clients, 3 requests | `NoLostWakeup`: nobody sleeps on a queue that has a message, or once the shutdown has passed its signal. `RequestsAccounted`: every request is handled once or was replaced in its queue, also when two meet in one queue. `ShutdownDrains`, `RequestsHandled`, `ShutdownCompletes`: none is left behind, and the shutdown ends, unless a handler crashes or waits for ever. |
| `v_lost` | 1 worker, 2 clients, 3 requests | Violation: a queued message is overwritten. |
| `frames` | header 16/8 as in the code, payloads 0, 1, 5; 2 messages | Framing, the assertion of `receiver_poll`, validation before hand-over, progress. |
| `serve` | 2 clients, one of which ends in `POLLHUP` and one in a read of 0 bytes; soft signal | Bytes follow their socket, descriptors neither leak nor are closed twice (until the zero-byte branch closes descriptor 1, `Intact`), no dead connection is polled, clients that stay are served, a soft signal ends a loop without connections. |
| `api` | 2 clients with 12 requests to choose from, 3 calls, 1 worker, 2 descriptors, `abstime` positive for one of them, 2 paths, 1 file fits | `InStep`: a function that returns has read exactly its response. `ResultsAreTrue`, `EvictedFilesSaved`, `OpenLockKept` relate what it returns to the storage, `EveryCallReturns` is its liveness: it leaves out, by name, the calls that the code leaves without an answer. |
| `v_mutex` | as `api` | Violation: `lockFile` succeeds on a locked file. |
| `client` | every command line of up to 4 out of 17 options, 1 request of another client, 1 file of at most 2 bytes fits | `ParsedAsWritten` compares the actions with a definition on the whole line; `NothingLost`, `LimitShared`, `EveryRunEnds` are about running them. |
| `v_limit` | as `client`, up to 2 options | Violation: `-w dirname,n=2`, as the help text has it, sends three files. |

Why the bounds are enough for the cases that matter: two colliding keys make
lists whose head, last and only item are removed and evicted, a second bucket is
always empty so that the segmented policy must retry; two workers give every pair
of overlapping calls, and four calls fill, evict and refill the table. Two clients
reach every order of lock, wait, unlock. Two workers and a queue each reach every
race of add, wait, signal and flag, and three requests the case of two in one queue while a third is handled, or is
added after the last one was freed. Two messages show the boundary between
messages, and payload 0 the message that is only a header. Two connections are
enough for `receiver_cleanup` to move one, dead or alive, and for a descriptor
to be reused; in `serve` the header is two bytes, one of them the magic code. Three calls
of two clients create a locked file, disturb it and use it, or create, overfill and
evict; two descriptors for two clients that leave are enough for one to be given out again
while the worker still has a response for its previous owner. Four options are a socket, an
action with its directory and one more action, or any two actions with something between them.

Symmetry is used on the addresses of the hash table, and only in runs without liveness properties.

**Fairness.** HTable: weak fairness of every worker's step: the scheduler runs
every thread, and clients read what is sent to them, without which `readFile`
holds its bucket for as long as the client likes. WorkloadQueue: the main thread once it
leaves its loop, and every worker, but a handler only while none can have kept a mutex (`stuck`); nothing makes clients send, signals arrive or waits end by
themselves. Connection and Receiver: the main thread goes on when it can.
ServerApi: the worker until a mutex may be `kept`, the polling loop, and a client that is in the middle of a
function go on; nobody has to call, leave or die, and the server has to listen or to stop only if it likes.
Client: the program goes on, and the server answers every call but `readNFiles` and those of
`NoAnswer` (`EveryCallReturns`). Deadlock is not checked in Connection, Receiver, ServerApi and Client,
where everybody may be done, or wait for clients that have nothing to say.

## 4. Proofs

TLAPS proves, for all values of the constants under the named assumptions of the
modules (each evaluated by TLC), 32 theorems: the 28 invariants that the passing runs
check, the action properties `LockStaysWithOwner` and `ShutdownDrains`, the refinement `ImplementsStore`, and, for
one writer, the `EveryFileReachable` that the run `v_reachable` refutes for two. The assumptions say that limits and
lengths are natural numbers, that threads and the addresses of the heap are finitely many,
that NULL is none of the values it is told apart from (nor a file, `StoreNullAssumption`), that descriptor 1 is standard output, that
requests are of `enum ApiOp`, that `getopt` gives an option the argument it asks for, that the lists
of an action are lists of names, and that the descriptors of other clients are others, and that
the server of ServerApi has one worker.

The inductive invariants are in the `Props` modules, next to the properties they are for, and
TLC has checked each of them on the run's instance before its proof.

- `HTableProofs!TypeCorrect`: `Spec => []TypeOK`. Needs `HasRequest` (a worker that is not idle
  has a request), and the fact that `Fetch` yields a live address, NULL or WILD.
- `NobodyWaitsInACircle` and `MutexesGivenBack`: without `READ_N_FILES`, `NoCircularWait`
  and `GuardsReleased` hold. `MutexInv` says who keeps which mutex where (`LockOrder`), and that a reader
  holds the mutex of its request's bucket and no other: without it, giving that one back
  would not show that none is left.
- `VisitorsAreGuarded`, `VisitorsStopInTime`, with any number of visitors among all other
  requests. `VisitInv` adds that who gives a mutex back holds it, and that a visitor
  leaves a bucket for the next only while it may visit one more file.
- `LocksAreRespected`: `Spec => LockStaysWithOwner`, step by step; no invariant but the types, since
  every function compares `fd_owner` in the critical section in which it changes it.
- `NobodyWaitsInVain`: `SubscribersBehindLock`, and that the assertion at `htable.c:210` never
  fails, where every open asks for the lock (`OpensLock`). The hypothesis is necessary: see section 5.
- `ItemsAreCounted`, `BytesAreCounted`: the counters equal the table, modulo `Word`, give
  or take the calls in progress. `DebtsInv` adds which steps of a call owe the
  counters something. The number of bytes is a sum over the heap, the debts are a sum over the workers, so the
  proofs need what a sum becomes when one summand changes.
- `LimitIsKept`: `WithinSpaceAtRest` under `[]BytesFit`, that is, while `size_t` can hold the bytes that
  the counter stands for. If the counter wraps, the eviction loop compares a small number with the
  limit, so the hypothesis cannot be dropped; a 64-bit server meets it. `LimitInv` adds
  that the limit can be exceeded only while a write is on its way to evict.
- `HTableListProofs` is about servers in which one worker is given the requests that change the
  lists (`OneWriter`: create, write, append, remove). Any number of others open, close, lock, unlock, read
  and, where not excluded, visit. Every server configured with one worker is such a server. The
  hypothesis cannot be dropped: creations that overlap make the lists wrong (run `v_reachable`).
  - `ListsStayWellFormed`, `EveryFileIsFound`: `ListsWellFormed` and `EveryFileReachable`. `ListInv` adds that
    a list stays in its bucket (`OwnBucket`), that it ends (`NoCycle`: some ranking of the addresses grows along
    `next`), that no key is linked twice (`KeysOnce`), and that the item between `create_item` and
    `create_link` fits into its list as it still is then (`NewItemFits`): the code reads `head` for the
    item's `next` before it takes the mutex. `Fetch` is a bounded walk, and is shown to return the
    linked item of its key by following the rank; removal and eviction are shown to keep a rank.
  - `ServerSurvives`: `NeverCrashes`, from `SoundInv` (`ListInv`, the counters, `SubscribersBehindLock`, and
    `WritesSize`: lengths written are those of `Size`). Its hypotheses name, one by one, what the code does not
    survive: visits (`NoVisits`: the head read at `htable.c:483` may be freed), opens without the lock
    (`OpensLock`), empty writes (`0 \notin Size`) and the FIFO (`Policy`), see section 5; `ItemsCountable`
    says that `size_t` can count the items memory has room for. The instance of `readers` satisfies them.
  - `FirstEvictionFindsFile`: `FirstVictimFound`, with visitors and every policy. `VictimInv` adds that
    before the first eviction an empty FIFO lists all files but those which a creation is about to add.
  - `StorageIsAtomic`: `Spec /\ []BytesFit => ImplementsStore`, without visits. Every step of a worker is one
    step of FileStore or hidden: one lemma per action (`LockSimulates`, `UnlockSimulates`, `CreateLinkSimulates`,
    ...), on top of lemmas on what an action does to the mapping (`RewriteReturns`, `RefusedPerforms`,
    `WorkerBars`). `StoreInv` is `ListInv` with the counters; `NewItemFresh` adds that nobody has changed
    a new item before it is linked, so that the file which appears is the one that the creation asked for.
    The counters matter in spite of being invisible: an eviction may happen in FileStore only
    while a limit is exceeded by the *files*, and the code looks at the counters (`LimitsKnown`), which is
    also why they must not wrap (`ItemsCountable`, `BytesFit`).
    A visitor would break it: with one, TLC finds the use of a freed item, which FileStore does not have.
- `WorkloadQueueProofs!TypeCorrect` and `NoWakeupIsLost`. `SleepInv` adds that
  threads have distinct numbers below the counter, of which exactly the unnumbered threads are left
  (so that `ts_counter` stays within the queues and nobody else pulls from a
  worker's queue), that the main thread signals only after it set the flag, and that a worker on its way
  to sleep holds the mutex and was not passed over.
- `EveryRequestIsAccountedFor`: `RequestsAccounted`, for any number of clients, workers and requests. `MessagesKept`
  adds that a queue has at most one message, the last one added (`QueuesHold`), which no other queue
  (`LastsDiffer`) and no worker (`WorkersHold`) has, and that a message which was neither handled nor replaced is somewhere
  (`NothingForgotten`). `last_incoming` may point to a freed message; `NotUsedAfterFree` says that
  nothing else does, so that the write in `workload_queue_add` is the only use of one.
- `NothingIsLeftBehind`: `ShutdownDrains`, as generally. `Drained` adds that once a
  worker has ended nobody adds messages any more, and that the queue it found empty stays empty; since threads
  have distinct numbers, every queue is somebody's.
- `ConnectionProofs!WholeMessages`, `AssertionHolds`, `PayloadsValidated`: `Framing`,
  `MissingPositive`, `OnlyValidated` for every header size, payload and number of
  messages. `FramingInv` adds that messages in the stream are contiguous and
  ascending, and that the buffer begins where the first message not handed over
  begins and ends before that message does.
- `ReceiverProofs!BytesAreDelivered`, `DescriptorsAreTracked`, `NoDeadAreLeft`, for any number of
  connections. `ReceiverInv` adds that a connection keeps its own descriptor until it is
  dropped, that no two share one, that a round drops at most one connection (so that the
  entry which `receiver_cleanup` moves and does not look at is alive), and that dead entries are left only by the
  reading loop. `Cleanup` is a loop over the arrays, and
  the invariant is carried through it by induction on the index (`CleanupAt` is one turn of it).
- `ClientProofs!CommandLineIsFollowed`: `ParsedAsWritten` for lines of any length. `ParserInv` adds
  what `cli_args_parse` remembers of the options before the current one. `LimitIsObeyed`: `LimitShared` for trees of
  any depth; `LimitInv` adds that files sent and the shared counter add up to the limit.
- `ClientProofs!NoFileIsLost`: `NothingLost` for any command line, storage and number of requests of other clients,
  on a server with one worker. `KeptInv` adds
  that what is left to do is a suffix of the command line, that the files of the current list which are behind
  it are safe, and that the one in hand is locked since `openFile` and complete since `writeFile`. The
  lemma under it, `DoSpares`, says of each request what becomes of a file that this client has locked. The hypothesis
  `OnlyMeWrites` is necessary: `htable_replace_file_contents` does not look at the lock, so another client's write
  changes a file this one holds. The instance of the run `client` satisfies it.
- `ServerApiProofs!OpenLocksAreKept`: `OpenLockKept` for any number of clients and
  descriptors, with every request, on a server with one worker. `LockInv` adds that the worker has one message at a time
  (`OneAtATime`), that the descriptor of a message leads to its sender as long as that one is connected
  (`SendersKnown`), and that who is not connected has neither descriptor nor lock.
- `FunctionsStayInStep`, `ResultsAreReported`, `EvictedFilesAreSaved`: `InStep`, `ResultsAreTrue`,
  `EvictedFilesSaved`. `ProtocolInv` follows a request from the call to the last byte of
  its response: `Exchange(c)` says that it is in exactly one place (socket, queue, worker, response) unless it was replaced in the queue, that
  the response a worker has ready is the one for it (`Reply`), and, once it has arrived, that what is
  left in the socket is exactly what the current stage of the decoder expects (`Decoded`: a length and
  its contents, a count and its files, or nothing). `Destinations` says that all other bytes go to
  clients that have `strayed`. The hypothesis `NoReadN` leaves out `readNFiles`: its response
  has neither code nor count, so that no stage of the decoder fits it; its reader finds a count of
  256 or more in the lengths of the first file, and a storage with enough files would let it return out of step.
  The run `api` contains the request, on a storage in which it waits for ever instead. A number is its
  last byte here as in the model: the proofs are about the order and number of bytes, not
  about the codec.

**ProofLemmas** has the facts about data that the others share: induction over the natural numbers and over
finite sets, stated with a set in the place of the predicate (derived from well-foundedness,
since the library's rules have an operator as a parameter); the values of a function defined by
recursion; sums over a finite set, and how they change with one summand; arithmetic modulo `Word`.

Proving changed the model in a few places. `StoredBytes` is a sum of a function over the heap, and `Cleanup`
a recursive function over `CleanupAt`, to have something to reason about; the arms of the `CASE` in `Unlock` were made exclusive,
and `ParsedAsWritten` is stated of every prefix of a line, not only of finished ones. The mapping of the refinement
became operators of its own, and `StoredSpace` in FileOps the sum of a function, like `StoredBytes`.

Only model-checked:

- What the theorems exclude by a hypothesis: the run `visit` checks the first eviction with a visitor, `api` has
  `readNFiles` among its requests. `BytesFit` is a hypothesis and no invariant: it fails when more
  bytes are written than `size_t` counts.
- All liveness (`CallsFinish`, `RequestsHandled`, `ShutdownCompletes`, `EveryMessageHandedOver`,
  `SoftShutdownWhenAlone`, `EveryCallReturns`, `EveryRunEnds`): leads-to under fairness is out of
  the prover's reach.

## 5. Where the code does not do what it says

Four runs show a disagreement (`findings` of `PROJECT.json`): overlapping
creations (`htable.c:277`), the overwritten message (`workload_queue.c:75`), `lockFile`, which
always succeeds (`worker.c:221`), and `-w dirname,n=N`, which has no limit (`cli.c:52`).
Further limits met while modelling, and why some properties are stated for part
of the requests only:

- After the first eviction under `fifo`, or after a removal, the FIFO has no entry or one for a
  file that is gone, and `htable_evict_files` follows a null pointer (`htable.c:594-600`, `:691`):
  `FirstVictimFound` is about the first eviction.
- When the last client leaves after a soft signal, the loop asks `receiver_is_dead` before
  the dead connection is removed, and then blocks in `poll` (`main.c:133`):
  `SoftShutdownWhenAlone` is about a loop without connections.
- At the end of a stream `receiver_poll` overwrites the descriptor with -1, so descriptor 1 is
  closed and the connection's own leaks (`receiver.c:189`): what Receiver promises of descriptors holds before that.
- `htable_visitor_next` returns NULL at the end of a list with the bucket's mutex
  held, and so does a failed write (`htable.c:506`, `worker.c:115`): mutexes are
  given back only where no worker visits.
- `htable_open_file` sets `is_locked` from its argument (`htable.c:262`): with
  `OPEN_FILE` requests `SubscribersBehindLock` fails, and then the assertion at `htable.c:210`.
- `htable_remove_file` returns OK for a file that another client locks (`htable.c:364`), forgets
  the subscribers of the file it removes, as eviction does (`htable.c:385`), and decrements `open_count` even
  for a closed file, so that it wraps (`htable.c:392`). `htable_create_file` never evicts
  (`htable.c:306`): the number of files is over its limit until the next write.
- The segmented policy spins for ever when a second worker has unlinked the last
  item and waits for the counters' mutex (`htable.c:641`): `CallsFinish` is
  claimed for one worker that changes lists.
- A second empty write ends the process (`htable.c:414`, `utilities.c:113`).
- `last_incoming` outlives its message, and `workload_queue_add` writes through it (`workload_queue.c:76-78`): what
  that overwrites, if the memory has been given out again, is not defined. `RequestsAccounted` says
  that no message is used after it was freed in any other way, and where every request is up to there.
- `unlockFile` sends a byte to the next owner of the lock, whose `lockFile` was answered long
  before (`worker.c:244`); a response goes to whoever has the descriptor by then
  (`worker.c:55`). Both shift the stream of a client: `InStep`, `ResultsAreTrue` and the others
  are claimed of clients that have not `strayed`.
- `appendToFile` is never answered (`worker.c:332`), and the response to `readNFiles` has not
  the form its reader expects (`worker.c:120`, `serverapi.c:368-379`): `EveryCallReturns` leaves both out,
  and with them the calls whose message is replaced in the queue (`lost`), those after a mutex was `kept`, and an
  `openConnection` whose `abstime` is not positive, which may try for ever (`serverapi.c:285`).
- The end of the stream is read as success (`serverapi.c:223`): results are true while the server runs.
- `-w dir,n=2` has no limit (run `v_limit`), `-w dir,x=2` has one (`cli.c:52`); without `-t` the time between
  actions is not initialised (`cli.c:237-251`), and a negative one never passes
  (`utilities.c:16`); `-w` writes files it has not opened, which the server does not
  store, and crashes at the first eviction (`run_action.c:122`), as `-W` without `-D`
  does (`serverapi.c:136`), and `-r` and `-R` without `-d` at the first file (`run_action.c:179`); `-l`, `-u` and `-c` do not make
  their paths absolute (`run_action.c:29`).
- A signal between the check of the flags and `poll` is noticed only at the next event (`main.c:141`).
  The signal handlers log, and wait for ever when the thread they interrupt holds the log mutex (`main.c:34`).
- `print_summary` visits the table after the workers have ended (`main.c:86`), and blocks at a bucket
  whose mutex a visit or a failed write has kept.

## 6. What is not modelled

The log mutex, which every log call takes and gives back; `htable_free`, `receiver_free`,
`print_summary`, which run after all workers have ended; `receiver_add`, which
nothing calls; the parsing of the configuration, done once by a vendored parser; help
texts and error messages; local files that cannot be read or written; the last part of a
path as the name under which a file is saved; sockets that `openConnection` leaves open;
messages of a malformed length, which `serverapi.c` does not produce. Signals
arrive at most once each. A response is written in one step.

Several workers in ServerApi and Client: creations that overlap make the table lose or shadow files (run
`v_reachable`), so what these modules promise of files is false of such a server, and a model of it would
need the critical sections of HTable in place of FileStore. HTable and WorkloadQueue have any number of workers.

## 7. Plan

1. *Done:* HTable, WorkloadQueue, Deserializer, Connection, Receiver; type
   correctness, mutex discipline, wake-ups and framing proved.
2. *Done:* FileStore and the refinement; ServerApi; Client.
3. *Done:* the counters, limits, visitors and locks of HTable, the messages of
   WorkloadQueue, Receiver, Client, ServerApi proved.
4. *Done:* the lists, the absence of crashes and the refinement of FileStore proved for one
   worker that changes the lists.
5. *Done:* the queues with the requests that get lost, handlers that do not return and several clients; the API and
   the client program against a server with one worker and lossy queue.
6. Not planned: `ImplementsStore` for a table whose creations keep the mutex from the lookup to the link,
   which is what the code would need for several writers.
