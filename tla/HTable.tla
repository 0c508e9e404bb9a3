------------------------------- MODULE HTable -------------------------------
(***************************************************************************)
(* The storage of the server, src/src/server/htable.c: a hash table whose  *)
(* collision lists are guarded by one mutex per bucket and whose counters  *)
(* are guarded by one more mutex, called by the worker threads.            *)
(*                                                                         *)
(* A section of code that runs under a mutex is one step, enabled when the *)
(* mutex is free; what a worker does between two such sections is a step   *)
(* of its own, so every interleaving the mutexes allow is a behaviour.  A  *)
(* mutex appears in the state when it is kept across steps: by a reader    *)
(* that sends a file, by a visitor, and by the eviction loop.  Collision   *)
(* lists are kept as the pointers the code keeps, because htable_create_   *)
(* file and htable_visit read bucket->head without the mutex.              *)
(*                                                                         *)
(* Contents are abstracted to their length, paths to keys, XXH64 modulo    *)
(* the number of buckets to the constant Hash.  A step whose code has no   *)
(* defined continuation (a freed or null pointer dereferenced, a failed    *)
(* assertion, exit()) sets fault and ends the behaviour.                   *)
(*                                                                         *)
(* worker.c answers no APPEND_TO_FILE request: an instance whose Api has   *)
(* it checks htable_append_to_file_contents as a function of the table.    *)
(*                                                                         *)
(* An operator whose name ends in a lower-case suffix after an underscore  *)
(* is a faulty variant of the operator below it; the project uses it to    *)
(* see that a property notices the fault, and no specification calls it.   *)
(***************************************************************************)
EXTENDS Integers, Sequences, FiniteSets

CONSTANTS
  Worker,        \* worker threads
  Fd,            \* descriptors of client connections
  Key,           \* paths
  BucketsCount,  \* number of buckets
  Hash,          \* bucket of every key
  Size,          \* lengths of the contents clients send
  Visits,        \* values of n in readNFiles
  MaxItems,      \* max-files
  MaxSpace,      \* max-storage
  Policy,        \* cache-eviction-policy: "fifo" or "segmented-fifo"
  Addr,          \* addresses xmalloc may return for a struct HTableItem
  NodeAddr,      \* addresses xmalloc may return for a struct FifoItem
  NULL,
  WILD,          \* what a walk over a corrupted list ends in
  Word,          \* size_t counts modulo Word
  Api,           \* Api[w]: the requests worker w is given
  MaxCalls       \* bound: requests handled in a behaviour

Bucket == 0 .. BucketsCount - 1
Pointer == Addr \cup {NULL}
NodePointer == NodeAddr \cup {NULL}

ApiOp == {"OPEN_FILE", "OPEN_FILE_CREATE", "OPEN_FILE_LOCK", "OPEN_FILE_CREATE_LOCK",
          "READ_FILE", "READ_N_FILES", "WRITE_FILE", "APPEND_TO_FILE", "LOCK_FILE",
          "UNLOCK_FILE", "CLOSE_FILE", "REMOVE_FILE"}

ASSUME HTableAssumption ==
  /\ BucketsCount \in Nat \ {0} /\ Hash \in [Key -> Bucket]
  /\ MaxItems \in Nat /\ MaxSpace \in Nat /\ Size \subseteq Nat /\ Visits \subseteq Nat
  /\ Policy \in {"fifo", "segmented-fifo"}
  /\ NULL \notin Addr \cup NodeAddr \cup Worker /\ WILD \notin Addr \cup {NULL}
  /\ IsFiniteSet(Addr) /\ IsFiniteSet(Worker)
  /\ Word \in Nat /\ Word > MaxSpace /\ Word > MaxItems
  /\ Api \in [Worker -> SUBSET ApiOp]
  /\ MaxCalls \in Nat

\* struct File and the links of struct HTableItem.  `contents' says whether the
\* buffer was ever allocated, subs lists the subscribers, newest first.
Item == [key: Key, next: Pointer, prev: Pointer, length_in_bytes: Nat, contents: BOOLEAN,
         fd_owner: Fd, is_open: BOOLEAN, is_locked: BOOLEAN, subs: Seq(Fd)]

Request == [op: ApiOp, key: Key, fd: Fd, arg: Nat]

\* A null pointer is no struct.
ASSUME NullAssumption == NULL \notin Item \cup Request

HTableError == {"OK", "OK_WAIT", "ALREADY_OPEN", "ALREADY_CREATED", "ALREADY_CLOSED",
                "ALREADY_UNLOCKED", "FILE_NOT_FOUND", "CANT_OPEN", "CANT_CLOSE"}

VARIABLES
  heap,         \* the item at an address, NULL while the chunk is free
  head, last,   \* the ends of every bucket's list
  guard,        \* holder of a bucket's mutex
  stats_guard,  \* holder of the mutex of the counters
  stats,        \* struct HTableStats
  fifo,         \* struct Fifo and its nodes
  pc, req, ret, \* per worker: next step, request in progress, last result
  ref,          \* per worker: the new item, or the visitor's next item
  delta,        \* per worker: bytes still to be added to the counters
  visit,        \* per worker: the visitor's bucket_i and visits
  calls,        \* requests begun so far
  fault         \* how the process ended, "none" while it runs

table == <<heap, head, last>>
locals == <<ref, delta, visit>>
vars == <<heap, head, last, guard, stats_guard, stats, fifo, pc, req, ret, ref, delta,
          visit, calls, fault>>

Live == {a \in Addr : heap[a] # NULL}

Init ==
  /\ heap = [a \in Addr |-> NULL]
  /\ head = [b \in Bucket |-> NULL] /\ last = [b \in Bucket |-> NULL]
  /\ guard = [b \in Bucket |-> NULL] /\ stats_guard = NULL
  /\ stats = [items_count |-> 0, open_count |-> 0, total_space |-> 0,
              max_items |-> 0, max_space |-> 0, num_evictions |-> 0]
  /\ fifo = [head |-> NULL, last |-> NULL, node |-> [a \in NodeAddr |-> NULL]]
  /\ pc = [w \in Worker |-> "idle"] /\ req = [w \in Worker |-> NULL]
  /\ ret = [w \in Worker |-> NULL] /\ ref = [w \in Worker |-> NULL]
  /\ delta = [w \in Worker |-> 0]
  /\ visit = [w \in Worker |-> [bucket_i |-> 0, visits |-> 0]]
  /\ calls = 0 /\ fault = "none"

-----------------------------------------------------------------------------
(* Steps of a worker: where it goes next, how it returns, how the process dies. *)

Goto(w, label) == pc' = [pc EXCEPT ![w] = label] /\ UNCHANGED <<req, ret, calls, fault>>

Return(w, err) ==
  /\ pc' = [pc EXCEPT ![w] = "idle"]
  /\ req' = [req EXCEPT ![w] = NULL]
  /\ ret' = [ret EXCEPT ![w] = err]
  /\ ref' = [ref EXCEPT ![w] = NULL]
  /\ delta' = [delta EXCEPT ![w] = 0]
  /\ visit' = [visit EXCEPT ![w] = [bucket_i |-> 0, visits |-> 0]]
  /\ UNCHANGED <<calls, fault>>

Crash(how) ==
  /\ fault' = how
  /\ UNCHANGED <<table, guard, stats_guard, stats, fifo, pc, req, ret, locals, calls>>

At(w, label) == pc[w] = label /\ fault = "none"

EntryPoint(op) ==
  CASE op \in {"OPEN_FILE", "OPEN_FILE_LOCK"} -> "open"
    [] op \in {"OPEN_FILE_CREATE", "OPEN_FILE_CREATE_LOCK"} -> "create"
    [] op = "READ_FILE" -> "read"
    [] op = "READ_N_FILES" -> "visit"
    [] op \in {"WRITE_FILE", "APPEND_TO_FILE"} -> "write"
    [] op = "LOCK_FILE" -> "lock"
    [] op = "UNLOCK_FILE" -> "unlock"
    [] op = "CLOSE_FILE" -> "close"
    [] op = "REMOVE_FILE" -> "remove"

Args(op) ==
  CASE op \in {"WRITE_FILE", "APPEND_TO_FILE"} -> Size
    [] op = "READ_N_FILES" -> Visits
    [] OTHER -> {0}

\* A worker takes the request that it pulled from its queue.
Begin(w) ==
  /\ At(w, "idle") /\ calls < MaxCalls
  /\ \E op \in Api[w], k \in Key, fd \in Fd : \E arg \in Args(op) :
       /\ req' = [req EXCEPT ![w] = [op |-> op, key |-> k, fd |-> fd, arg |-> arg]]
       /\ pc' = [pc EXCEPT ![w] = EntryPoint(op)]
  /\ calls' = calls + 1
  /\ ret' = [ret EXCEPT ![w] = NULL]
  /\ UNCHANGED <<table, guard, stats_guard, stats, fifo, locals, fault>>

WithLock(op) == op \in {"OPEN_FILE_LOCK", "OPEN_FILE_CREATE_LOCK"}
BucketOf(w) == Hash[req[w].key]
Free(b) == guard[b] = NULL

\* htable_fetch_item: the first item of the key's list that carries the key, NULL
\* if the list ends first, WILD if it runs into a freed chunk or into itself.
Fetch(k) ==
  LET after == [p \in Pointer |-> IF p \in Live /\ heap[p].key # k THEN heap[p].next ELSE p]
      walk[n \in 0 .. Cardinality(Addr)] ==
        IF n = 0 THEN head[Hash[k]] ELSE after[walk[n - 1]]
      end == walk[Cardinality(Addr)]
  IN  IF end = NULL \/ (end \in Live /\ heap[end].key = k) THEN end ELSE WILD

\* The step of worker w that looks its key up ends the call or the process.
NotFound(w) ==
  \/ /\ Fetch(req[w].key) = NULL
     /\ Return(w, "FILE_NOT_FOUND")
     /\ UNCHANGED <<table, guard, stats_guard, stats, fifo>>
  \/ Fetch(req[w].key) = WILD /\ Crash("use_after_free")

-----------------------------------------------------------------------------
(* Locking, opening and closing a file. *)

\* htable_lock_file.  The assertion is the one on a file that nobody locks.
LockFile(w) ==
  /\ At(w, "lock") /\ Free(BucketOf(w))
  /\ LET p == Fetch(req[w].key) IN
     \/ NotFound(w)
     \/ /\ p \in Live /\ heap[p].is_locked
        /\ heap' = [heap EXCEPT ![p].subs = <<req[w].fd>> \o @]
        /\ Return(w, "OK_WAIT")
        /\ UNCHANGED <<head, last, guard, stats_guard, stats, fifo>>
     \/ /\ p \in Live /\ ~heap[p].is_locked /\ heap[p].subs # <<>>
        /\ Crash("assert_no_subscribers")
     \/ /\ p \in Live /\ ~heap[p].is_locked /\ heap[p].subs = <<>>
        /\ heap' = [heap EXCEPT ![p].is_locked = TRUE, ![p].fd_owner = req[w].fd]
        /\ Return(w, "OK")
        /\ UNCHANGED <<head, last, guard, stats_guard, stats, fifo>>

Owns_anybody(p, fd) == TRUE

Owns(p, fd) == heap[p].fd_owner = fd

AfterUnlock_nobody(p) == [heap EXCEPT ![p].is_locked = FALSE]

\* The lock of the file at p passes to its newest subscriber.
AfterUnlock(p) ==
  IF heap[p].subs = <<>>
  THEN [heap EXCEPT ![p].is_locked = FALSE]
  ELSE [heap EXCEPT ![p].fd_owner = Head(heap[p].subs), ![p].subs = Tail(@)]

\* htable_unlock_file.
UnlockFile(w) ==
  /\ At(w, "unlock") /\ Free(BucketOf(w))
  /\ LET p == Fetch(req[w].key) IN
     \/ NotFound(w)
     \/ /\ p \in Live /\ (~heap[p].is_locked \/ ~Owns(p, req[w].fd))
        /\ Return(w, IF heap[p].is_locked THEN "OK_WAIT" ELSE "ALREADY_UNLOCKED")
        /\ UNCHANGED <<table, guard, stats_guard, stats, fifo>>
     \/ /\ p \in Live /\ heap[p].is_locked /\ Owns(p, req[w].fd)
        /\ heap' = AfterUnlock(p)
        /\ Return(w, "OK")
        /\ UNCHANGED <<head, last, guard, stats_guard, stats, fifo>>

HeldByOther(p, fd) == heap[p].is_locked /\ heap[p].fd_owner # fd

OpenFile_keeps_mutex(w) ==
  /\ At(w, "open") /\ Free(BucketOf(w))
  /\ LET p == Fetch(req[w].key) IN
     \/ NotFound(w)
     \/ /\ p \in Live /\ (heap[p].is_open \/ HeldByOther(p, req[w].fd))
        /\ Return(w, IF heap[p].is_open THEN "ALREADY_OPEN" ELSE "CANT_OPEN")
        /\ UNCHANGED <<table, guard, stats_guard, stats, fifo>>
     \/ /\ p \in Live /\ ~heap[p].is_open /\ ~HeldByOther(p, req[w].fd)
        /\ heap' = [heap EXCEPT ![p].is_open = TRUE, ![p].fd_owner = req[w].fd,
                                ![p].is_locked = WithLock(req[w].op)]
        /\ guard' = [guard EXCEPT ![BucketOf(w)] = w]
        /\ Goto(w, "open_stats")
        /\ UNCHANGED <<head, last, stats_guard, stats, fifo, locals>>

\* htable_open_file, up to the counters.
OpenFile(w) ==
  /\ At(w, "open") /\ Free(BucketOf(w))
  /\ LET p == Fetch(req[w].key) IN
     \/ NotFound(w)
     \/ /\ p \in Live /\ (heap[p].is_open \/ HeldByOther(p, req[w].fd))
        /\ Return(w, IF heap[p].is_open THEN "ALREADY_OPEN" ELSE "CANT_OPEN")
        /\ UNCHANGED <<table, guard, stats_guard, stats, fifo>>
     \/ /\ p \in Live /\ ~heap[p].is_open /\ ~HeldByOther(p, req[w].fd)
        /\ heap' = [heap EXCEPT ![p].is_open = TRUE, ![p].fd_owner = req[w].fd,
                                ![p].is_locked = WithLock(req[w].op)]
        /\ Goto(w, "open_stats")
        /\ UNCHANGED <<head, last, guard, stats_guard, stats, fifo, locals>>

\* htable_close_file, up to the counters.
CloseFile(w) ==
  /\ At(w, "close") /\ Free(BucketOf(w))
  /\ LET p == Fetch(req[w].key) IN
     \/ NotFound(w)
     \/ /\ p \in Live /\ (~heap[p].is_open \/ HeldByOther(p, req[w].fd))
        /\ Return(w, IF heap[p].is_open THEN "CANT_CLOSE" ELSE "ALREADY_CLOSED")
        /\ UNCHANGED <<table, guard, stats_guard, stats, fifo>>
     \/ /\ p \in Live /\ heap[p].is_open /\ ~HeldByOther(p, req[w].fd)
        /\ heap' = [heap EXCEPT ![p].is_open = FALSE]
        /\ Goto(w, "close_stats")
        /\ UNCHANGED <<head, last, guard, stats_guard, stats, fifo, locals>>

\* size_t arithmetic.
Plus_unbounded(x, n) == x + n

Plus(x, n) == (x + n) % Word
Larger(x, y) == IF x > y THEN x ELSE y

OpenCloseStats(w) ==
  /\ \/ At(w, "open_stats") /\ stats' = [stats EXCEPT !.open_count = Plus(@, 1)]
     \/ At(w, "close_stats") /\ stats' = [stats EXCEPT !.open_count = Plus(@, -1)]
  /\ stats_guard = NULL
  /\ Return(w, "OK")
  /\ UNCHANGED <<table, guard, stats_guard, fifo>>

-----------------------------------------------------------------------------
(* Creating and removing a file. *)

\* htable_create_file looks the key up and gives the bucket's mutex back.
CreateFetch(w) ==
  /\ At(w, "create") /\ Free(BucketOf(w))
  /\ LET p == Fetch(req[w].key) IN
     \/ /\ p \in Live
        /\ Return(w, "ALREADY_CREATED")
        /\ UNCHANGED <<table, guard, stats_guard, stats, fifo>>
     \/ /\ p = NULL
        /\ Goto(w, "create_item")
        /\ UNCHANGED <<table, guard, stats_guard, stats, fifo, locals>>
     \/ p = WILD /\ Crash("use_after_free")

\* It then fills in the new item; its `next' is bucket->head, read without the mutex.
CreateItem(w) ==
  /\ At(w, "create_item")
  /\ \E a \in Addr \ Live :
       /\ heap' = [heap EXCEPT ![a] =
            [key |-> req[w].key, next |-> head[BucketOf(w)], prev |-> NULL,
             length_in_bytes |-> 0, contents |-> FALSE, fd_owner |-> req[w].fd,
             is_open |-> TRUE, is_locked |-> WithLock(req[w].op), subs |-> <<>>]]
       /\ ref' = [ref EXCEPT ![w] = a]
  /\ Goto(w, "create_link")
  /\ UNCHANGED <<head, last, guard, stats_guard, stats, fifo, delta, visit>>

\* It takes the mutex again and makes the item the head of the list.
CreateLink(w) ==
  /\ At(w, "create_link") /\ Free(BucketOf(w))
  /\ LET b == BucketOf(w) IN
     \/ /\ head[b] \in Live \cup {NULL}
        /\ heap' = IF head[b] # NULL THEN [heap EXCEPT ![head[b]].prev = ref[w]] ELSE heap
        /\ head' = [head EXCEPT ![b] = ref[w]]
        /\ last' = IF last[b] = NULL THEN [last EXCEPT ![b] = ref[w]] ELSE last
        /\ Goto(w, "create_stats")
        /\ UNCHANGED <<guard, stats_guard, stats, fifo, locals>>
     \/ head[b] \notin Live \cup {NULL} /\ Crash("use_after_free")

FifoAdd_without_last(f, a, k) ==
  [head |-> a, last |-> f.last, node |-> [f.node EXCEPT ![a] = [key |-> k, prev |-> f.head]]]

\* fifo_add_file: the new node points to the one added before it.
FifoAdd(f, a, k) ==
  [head |-> a, last |-> IF f.last = NULL THEN a ELSE f.last,
   node |-> [f.node EXCEPT ![a] = [key |-> k, prev |-> f.head]]]

CreateStats(w) ==
  /\ At(w, "create_stats") /\ stats_guard = NULL
  /\ stats' = [stats EXCEPT !.open_count = Plus(@, 1), !.items_count = Plus(@, 1),
                            !.max_items = Larger(@, Plus(stats.items_count, 1))]
  /\ IF Policy = "fifo"
     THEN \E a \in {x \in NodeAddr : fifo.node[x] = NULL} :
            fifo' = FifoAdd(fifo, a, req[w].key)
     ELSE UNCHANGED fifo
  /\ Return(w, "OK")
  /\ UNCHANGED <<table, guard, stats_guard>>

\* "Chain together the previous and next nodes", then free the item.
SafeToUnlink(p) == {heap[p].prev, heap[p].next} \subseteq Live \cup {NULL}

Unlink_keeps_last(p, b) ==
  LET before == heap[p].prev
      after == heap[p].next
      bypass == IF before # NULL THEN [heap EXCEPT ![before].next = after] ELSE heap
      chained == IF after # NULL THEN [bypass EXCEPT ![after].prev = before] ELSE bypass
  IN  /\ heap' = [chained EXCEPT ![p] = NULL]
      /\ head' = IF before = NULL THEN [head EXCEPT ![b] = after] ELSE head
      /\ UNCHANGED last

Unlink(p, b) ==
  LET before == heap[p].prev
      after == heap[p].next
      bypass == IF before # NULL THEN [heap EXCEPT ![before].next = after] ELSE heap
      chained == IF after # NULL THEN [bypass EXCEPT ![after].prev = before] ELSE bypass
  IN  /\ heap' = [chained EXCEPT ![p] = NULL]
      /\ head' = IF before = NULL THEN [head EXCEPT ![b] = after] ELSE head
      /\ last' = IF after = NULL THEN [last EXCEPT ![b] = before] ELSE last

\* htable_remove_file.  A file that another client locks stays, and the result is OK.
RemoveFile(w) ==
  /\ At(w, "remove") /\ Free(BucketOf(w))
  /\ LET p == Fetch(req[w].key) IN
     \/ NotFound(w)
     \/ /\ p \in Live /\ HeldByOther(p, req[w].fd)
        /\ Return(w, "OK")
        /\ UNCHANGED <<table, guard, stats_guard, stats, fifo>>
     \/ /\ p \in Live /\ ~HeldByOther(p, req[w].fd) /\ SafeToUnlink(p)
        /\ Unlink(p, BucketOf(w))
        /\ delta' = [delta EXCEPT ![w] = -heap[p].length_in_bytes]
        /\ Goto(w, "remove_stats")
        /\ UNCHANGED <<guard, stats_guard, stats, fifo, ref, visit>>
     \/ /\ p \in Live /\ ~HeldByOther(p, req[w].fd) /\ ~SafeToUnlink(p)
        /\ Crash("use_after_free")

RemoveStats_space_only(w) ==
  /\ At(w, "remove_stats") /\ stats_guard = NULL
  /\ stats' = [stats EXCEPT !.total_space = Plus(@, delta[w])]
  /\ Return(w, "OK")
  /\ UNCHANGED <<table, guard, stats_guard, fifo>>

RemoveStats(w) ==
  /\ At(w, "remove_stats") /\ stats_guard = NULL
  /\ stats' = [stats EXCEPT !.open_count = Plus(@, -1), !.items_count = Plus(@, -1),
                            !.total_space = Plus(@, delta[w])]
  /\ Return(w, "OK")
  /\ UNCHANGED <<table, guard, stats_guard, fifo>>

-----------------------------------------------------------------------------
(* Writing, and the eviction that follows every write. *)

NewLength(w, p) ==
  req[w].arg + IF req[w].op = "WRITE_FILE" THEN 0 ELSE heap[p].length_in_bytes

\* The critical section of htable_replace_file_contents and of htable_append_to_
\* file_contents.  realloc(p, 0) frees p and returns NULL, on which xrealloc exits.
WriteContents(w) ==
  /\ At(w, "write") /\ Free(BucketOf(w))
  /\ LET p == Fetch(req[w].key) IN
     \/ NotFound(w)
     \/ /\ p \in Live /\ NewLength(w, p) = 0 /\ heap[p].contents
        /\ Crash("realloc_exit")
     \/ /\ p \in Live /\ ~(NewLength(w, p) = 0 /\ heap[p].contents)
        /\ heap' = [heap EXCEPT ![p].length_in_bytes = NewLength(w, p),
                                ![p].contents = TRUE]
        /\ delta' = [delta EXCEPT ![w] = NewLength(w, p) - heap[p].length_in_bytes]
        /\ Goto(w, "write_stats")
        /\ UNCHANGED <<head, last, guard, stats_guard, stats, fifo, ref, visit>>

WriteStats(w) ==
  /\ At(w, "write_stats") /\ stats_guard = NULL
  /\ LET space == Plus(stats.total_space, delta[w]) IN
     stats' = [stats EXCEPT !.total_space = space, !.max_space = Larger(@, space)]
  /\ delta' = [delta EXCEPT ![w] = 0]
  /\ Goto(w, "evict_lock")
  /\ UNCHANGED <<table, guard, stats_guard, fifo, ref, visit>>

\* htable_evict_files takes the mutex of the counters for the whole loop.
EvictLock(w) ==
  /\ At(w, "evict_lock") /\ stats_guard = NULL
  /\ stats_guard' = w
  /\ Goto(w, "evict")
  /\ UNCHANGED <<table, guard, stats, fifo, locals>>

OverLimit_items_only == stats.items_count > MaxItems

OverLimit == stats.items_count > MaxItems \/ stats.total_space > MaxSpace

EvictDone(w) ==
  /\ At(w, "evict") /\ ~OverLimit
  /\ stats_guard' = NULL
  /\ Return(w, "OK")
  /\ UNCHANGED <<table, guard, stats, fifo>>

EvictStats_no_space(item) ==
  stats' = [stats EXCEPT !.open_count = Plus(@, IF item.is_open THEN -1 ELSE 0),
                         !.items_count = Plus(@, -1), !.num_evictions = @ + 1]

\* "Update all stats" for the evicted item.
EvictStats(item) ==
  stats' = [stats EXCEPT !.open_count = Plus(@, IF item.is_open THEN -1 ELSE 0),
                         !.items_count = Plus(@, -1),
                         !.total_space = Plus(@, -item.length_in_bytes),
                         !.num_evictions = @ + 1]

\* htable_evict_single_file_segmented_fifo: one pass of its loop, on the bucket that
\* rand() picks.  An empty bucket is tried again.
EvictSegmented(w, b) ==
  /\ At(w, "evict") /\ OverLimit /\ Policy = "segmented-fifo"
  /\ \/ stats.items_count = 0 /\ Crash("assert_items_count")
     \/ /\ stats.items_count # 0 /\ Free(b) /\ last[b] = NULL
        /\ IF head[b] = NULL THEN UNCHANGED vars ELSE Crash("assert_empty_bucket")
     \/ /\ stats.items_count # 0 /\ Free(b) /\ last[b] # NULL
        /\ \/ /\ last[b] \in Live /\ heap[last[b]].prev \in Live \cup {NULL}
              /\ LET p == last[b]
                     before == heap[p].prev
                     cut == IF before # NULL THEN [heap EXCEPT ![before].next = NULL] ELSE heap
                 IN  /\ heap' = [cut EXCEPT ![p] = NULL]
                     /\ last' = [last EXCEPT ![b] = before]
                     /\ head' = IF before = NULL THEN [head EXCEPT ![b] = NULL] ELSE head
                     /\ EvictStats(heap[p])
              /\ UNCHANGED <<guard, stats_guard, fifo, pc, req, ret, locals, calls, fault>>
           \/ /\ last[b] \notin Live \/ heap[last[b]].prev \notin Live \cup {NULL}
              /\ Crash("use_after_free")

\* fifo_evict: the node at `last' leaves the list, which continues at its prev.
FifoEvict(f) ==
  [head |-> f.head, last |-> f.node[f.last].prev, node |-> [f.node EXCEPT ![f.last] = NULL]]

\* htable_evict_single_file_fifo.  With an empty list, or a key no longer in the table,
\* it returns NULL, which htable_evict_files dereferences.
EvictFifo(w) ==
  /\ At(w, "evict") /\ OverLimit /\ Policy = "fifo"
  /\ \/ fifo.last = NULL /\ Crash("null_dereference")
     \/ fifo.last # NULL /\ fifo.node[fifo.last] = NULL /\ Crash("use_after_free")
     \/ /\ fifo.last # NULL /\ fifo.node[fifo.last] # NULL
        /\ LET k == fifo.node[fifo.last].key
               p == Fetch(k)
           IN  /\ Free(Hash[k])
               /\ \/ p = NULL /\ Crash("null_dereference")
                  \/ p = WILD /\ Crash("use_after_free")
                  \/ p \in Live /\ ~SafeToUnlink(p) /\ Crash("use_after_free")
                  \/ /\ p \in Live /\ SafeToUnlink(p)
                     /\ Unlink(p, Hash[k])
                     /\ EvictStats(heap[p])
                     /\ fifo' = FifoEvict(fifo)
                     /\ UNCHANGED <<guard, stats_guard, pc, req, ret, locals, calls, fault>>

-----------------------------------------------------------------------------
(* Reading one file, and visiting many. *)

\* worker_handle_read_file keeps the bucket's mutex while it writes to the socket.
ReadFetch(w) ==
  /\ At(w, "read") /\ Free(BucketOf(w))
  /\ \/ NotFound(w)
     \/ /\ Fetch(req[w].key) \in Live
        /\ guard' = [guard EXCEPT ![BucketOf(w)] = w]
        /\ Goto(w, "read_send")
        /\ UNCHANGED <<table, stats_guard, stats, fifo, locals>>

ReadRelease_keeps_mutex(w) ==
  /\ At(w, "read_send")
  /\ Return(w, "OK")
  /\ UNCHANGED <<table, guard, stats_guard, stats, fifo>>

ReadRelease(w) ==
  /\ At(w, "read_send")
  /\ guard' = [guard EXCEPT ![BucketOf(w)] = NULL]
  /\ Return(w, "OK")
  /\ UNCHANGED <<table, stats_guard, stats, fifo>>

\* htable_visit reads the head of the first bucket, then locks that bucket.
VisitHead(w) ==
  /\ At(w, "visit")
  /\ ref' = [ref EXCEPT ![w] = head[0]]
  /\ Goto(w, "visit_lock")
  /\ UNCHANGED <<table, guard, stats_guard, stats, fifo, delta, visit>>

VisitLock(w) ==
  /\ At(w, "visit_lock") /\ Free(0)
  /\ guard' = [guard EXCEPT ![0] = w]
  /\ Goto(w, "visit_next")
  /\ UNCHANGED <<table, stats_guard, stats, fifo, locals>>

\* "Check if we have visited enough items already."
VisitComplete_off_by_one(w) == req[w].arg # 0 /\ visit[w].visits > req[w].arg

VisitComplete(w) == req[w].arg # 0 /\ visit[w].visits >= req[w].arg

\* htable_visitor_next.  Once it stands on an item it steps to the item's successor;
\* at the end of the list that is NULL, and so is the address it returns.
VisitNext(w) ==
  /\ At(w, "visit_next")
  /\ LET v == visit[w]
         enough == VisitComplete(w)
         release == guard' = [guard EXCEPT ![v.bucket_i] = NULL]
     IN
     \/ /\ enough
        /\ release
        /\ Return(w, "OK")
        /\ UNCHANGED <<table, stats_guard, stats, fifo>>
     \/ /\ ~enough /\ ref[w] \in Live
        /\ LET p == heap[ref[w]].next IN
           \/ /\ p = NULL
              /\ Return(w, "OK")
              /\ UNCHANGED <<table, guard, stats_guard, stats, fifo>>
           \/ /\ p \in Live
              /\ ref' = [ref EXCEPT ![w] = p]
              /\ visit' = [visit EXCEPT ![w].visits = @ + 1]
              /\ Goto(w, "visit_send")
              /\ UNCHANGED <<table, guard, stats_guard, stats, fifo, delta>>
           \/ p \notin Live \cup {NULL} /\ Crash("use_after_free")
     \/ ~enough /\ ref[w] \notin Live \cup {NULL} /\ Crash("use_after_free")
     \/ /\ ~enough /\ ref[w] = NULL
        /\ release
        /\ \/ /\ v.bucket_i + 1 = BucketsCount
              /\ Return(w, "OK")
           \/ /\ v.bucket_i + 1 # BucketsCount
              /\ visit' = [visit EXCEPT ![w].bucket_i = @ + 1]
              /\ Goto(w, "visit_bucket")
              /\ UNCHANGED <<ref, delta>>
        /\ UNCHANGED <<table, stats_guard, stats, fifo>>

VisitBucket_without_mutex(w) ==
  /\ At(w, "visit_bucket") /\ Free(visit[w].bucket_i)
  /\ ref' = [ref EXCEPT ![w] = head[visit[w].bucket_i]]
  /\ Goto(w, "visit_next")
  /\ UNCHANGED <<table, guard, stats_guard, stats, fifo, delta, visit>>

VisitBucket(w) ==
  /\ At(w, "visit_bucket") /\ Free(visit[w].bucket_i)
  /\ LET p == head[visit[w].bucket_i] IN
     \/ /\ p \in Live \cup {NULL}
        /\ guard' = [guard EXCEPT ![visit[w].bucket_i] = w]
        /\ ref' = [ref EXCEPT ![w] = p]
        /\ visit' = IF p = NULL THEN visit ELSE [visit EXCEPT ![w].visits = @ + 1]
        /\ Goto(w, IF p = NULL THEN "visit_next" ELSE "visit_send")
        /\ UNCHANGED <<table, stats_guard, stats, fifo, delta>>
     \/ p \notin Live \cup {NULL} /\ Crash("use_after_free")

\* worker_handle_read_n_files sends the file; it leaves the loop when a write fails.
VisitSend(w) ==
  /\ At(w, "visit_send")
  /\ \/ Goto(w, "visit_next") /\ UNCHANGED locals
     \/ Return(w, "OK")
  /\ UNCHANGED <<table, guard, stats_guard, stats, fifo>>

-----------------------------------------------------------------------------
Step(w) ==
  \/ LockFile(w) \/ UnlockFile(w) \/ OpenFile(w) \/ CloseFile(w) \/ OpenCloseStats(w)
  \/ CreateFetch(w) \/ CreateItem(w) \/ CreateLink(w) \/ CreateStats(w)
  \/ RemoveFile(w) \/ RemoveStats(w)
  \/ WriteContents(w) \/ WriteStats(w) \/ EvictLock(w) \/ EvictDone(w)
  \/ (\E b \in Bucket : EvictSegmented(w, b)) \/ EvictFifo(w)
  \/ ReadFetch(w) \/ ReadRelease(w)
  \/ VisitHead(w) \/ VisitLock(w) \/ VisitNext(w) \/ VisitBucket(w) \/ VisitSend(w)

\* The behaviour may end when the process has, or when every request was handled.
Terminated ==
  /\ fault # "none" \/ (calls = MaxCalls /\ \A w \in Worker : pc[w] = "idle")
  /\ UNCHANGED vars

Next == (\E w \in Worker : Begin(w) \/ Step(w)) \/ Terminated

Spec == Init /\ [][Next]_vars
=============================================================================
