----------------------------- MODULE HTableProps -----------------------------
(***************************************************************************)
(* What the storage promises, for the specification of module HTable.      *)
(***************************************************************************)
EXTENDS HTable, FiniteSetsExt

Running == fault = "none"
Idle == \A w \in Worker : pc[w] = "idle"

Labels == {"idle", "lock", "unlock", "open", "open_stats", "close", "close_stats", "create",
           "create_item", "create_link", "create_stats", "remove", "remove_stats", "write",
           "write_stats", "evict_lock", "evict", "read", "read_send", "visit", "visit_lock",
           "visit_next", "visit_bucket", "visit_send"}

Faults == {"none", "use_after_free", "null_dereference", "realloc_exit",
           "assert_no_subscribers", "assert_items_count", "assert_empty_bucket"}

SizeT == 0 .. Word - 1

TableTypeOK ==
  /\ heap \in [Addr -> Item \cup {NULL}]
  /\ head \in [Bucket -> Pointer] /\ last \in [Bucket -> Pointer]

MutexTypeOK ==
  /\ guard \in [Bucket -> Worker \cup {NULL}] /\ stats_guard \in Worker \cup {NULL}

CountersTypeOK ==
  /\ stats \in [items_count: SizeT, open_count: SizeT, total_space: SizeT,
                max_items: SizeT, max_space: SizeT, num_evictions: Nat]
  /\ fifo \in [head: NodePointer, last: NodePointer,
               node: [NodeAddr -> [key: Key, prev: NodePointer] \cup {NULL}]]

WorkerTypeOK ==
  /\ pc \in [Worker -> Labels]
  /\ req \in [Worker -> Request \cup {NULL}]
  /\ ret \in [Worker -> HTableError \cup {NULL}]
  /\ ref \in [Worker -> Pointer]
  /\ delta \in [Worker -> Int]
  /\ visit \in [Worker -> [bucket_i: Bucket, visits: Nat]]
  /\ calls \in Nat
  /\ fault \in Faults

\* Every variable stays within its type; in particular no counter leaves size_t.
TypeOK == TableTypeOK /\ MutexTypeOK /\ CountersTypeOK /\ WorkerTypeOK

\* A worker that is not idle has a request in hand.
HasRequest == \A w \in Worker : pc[w] # "idle" => req[w] \in Request

\* The steps of a request.
LabelsOf(op) ==
  CASE op \in {"OPEN_FILE", "OPEN_FILE_LOCK"} -> {"open", "open_stats"}
    [] op \in {"OPEN_FILE_CREATE", "OPEN_FILE_CREATE_LOCK"} ->
         {"create", "create_item", "create_link", "create_stats"}
    [] op = "READ_FILE" -> {"read", "read_send"}
    [] op = "READ_N_FILES" -> {"visit", "visit_lock", "visit_next", "visit_bucket", "visit_send"}
    [] op \in {"WRITE_FILE", "APPEND_TO_FILE"} -> {"write", "write_stats", "evict_lock", "evict"}
    [] op = "LOCK_FILE" -> {"lock"}
    [] op = "UNLOCK_FILE" -> {"unlock"}
    [] op = "CLOSE_FILE" -> {"close", "close_stats"}
    [] op = "REMOVE_FILE" -> {"remove", "remove_stats"}

\* A worker that is not idle handles one of the requests it is given.
Dispatched ==
  \A w \in Worker : pc[w] # "idle" => req[w].op \in Api[w] /\ pc[w] \in LabelsOf(req[w].op)

-----------------------------------------------------------------------------
(* The mutexes. *)

\* The workers that hold a mutex which the next step of w takes, or may take: the eviction
\* loop takes the mutex of the bucket that rand() picks, or of the oldest file's bucket.
TakesFile == {"lock", "unlock", "open", "close", "create", "create_link", "remove", "write", "read"}
TakesCounters == {"open_stats", "close_stats", "create_stats", "remove_stats", "write_stats",
                  "evict_lock"}

BucketsTaken(w) ==
  CASE pc[w] \in TakesFile -> {BucketOf(w)}
    [] pc[w] = "visit_lock" -> {0}
    [] pc[w] = "visit_bucket" -> {visit[w].bucket_i}
    [] pc[w] = "evict" /\ OverLimit /\ Policy = "segmented-fifo" -> Bucket
    [] pc[w] = "evict" /\ OverLimit /\ Policy = "fifo" ->
         {Hash[fifo.node[n].key] : n \in {m \in {fifo.last} \ {NULL} : fifo.node[m] # NULL}}
    [] OTHER -> {}

WaitsFor(w) ==
  ({guard[b] : b \in BucketsTaken(w)} \cup (IF pc[w] \in TakesCounters THEN {stats_guard} ELSE {}))
    \ {NULL}

\* No circular wait over the mutexes of the buckets and of the counters, and nobody waits for
\* a mutex he holds himself: in every set of workers one waits for none of them.  The eviction
\* loop asks for buckets while it keeps the mutex of the counters (htable.c:644), so whoever
\* asks for that mutex must have given his bucket back (htable.c:266, 306, 391, 420, 673).
NoCircularWait == \A S \in (SUBSET Worker) \ {{}} : \E w \in S : WaitsFor(w) \cap S = {}

\* What makes it inductive where no worker is asked to visit the files: who keeps a bucket's
\* mutex sends a file, who keeps that of the counters evicts, and a reader keeps one mutex.
LockOrder ==
  \A w \in Worker :
    /\ (\E b \in Bucket : guard[b] = w) => pc[w] \in {"read_send", "visit_next", "visit_send"}
    /\ stats_guard = w <=> pc[w] = "evict"

NoVisits == \A w \in Worker : "READ_N_FILES" \notin Api[w]

ReaderHoldsOneMutex ==
  \A w \in Worker :
    /\ pc[w] \notin {"visit", "visit_lock", "visit_next", "visit_bucket", "visit_send"}
    /\ pc[w] = "read_send" => \A b \in Bucket : guard[b] = w => b = BucketOf(w)

MutexInv == TypeOK /\ HasRequest /\ LockOrder /\ ReaderHoldsOneMutex

\* The bucket's mutex is given back by the end of every call, as htable.h:96-100 asks.
GuardsReleased == \A w \in Worker, b \in Bucket : guard[b] = w => pc[w] # "idle"

-----------------------------------------------------------------------------
(* The counters against the table, with calls in progress at any point. *)

Pending(labels) == Cardinality({w \in Worker : pc[w] \in labels})

\* items_count counts the allocated items, give or take the workers that stand
\* between the list and the counters in htable_create_file and htable_remove_file.
ItemsAccounted ==
  Running => Plus(stats.items_count, Pending({"create_link", "create_stats"})
                    - Pending({"remove_stats"}) - Cardinality(Live)) = 0

Bytes == [a \in Addr |-> IF a \in Live THEN heap[a].length_in_bytes ELSE 0]
StoredBytes == SumFunction(Bytes)

\* total_space_in_bytes is the number of stored bytes, give or take the lengths that
\* writers and removers have not yet reported.
SpaceAccounted ==
  Running => Plus(stats.total_space, SumFunction(delta) - StoredBytes) = 0

\* A worker owes the counters bytes only between its critical section and the next one.
\* With SpaceAccounted and ItemsAccounted this is inductive.
DebtsInv ==
  Running => \A w \in Worker :
    /\ pc[w] \notin {"write_stats", "remove_stats"} => delta[w] = 0
    /\ pc[w] = "remove_stats" => delta[w] <= 0

\* size_t is wide enough for the bytes that total_space_in_bytes stands for.
BytesFit == StoredBytes - SumFunction(delta) < Word

\* Unless a write is on its way to evict, the limit is kept: what makes the next one inductive.
LimitInv ==
  Running /\ (\A w \in Worker : pc[w] \notin {"write_stats", "evict_lock", "evict"})
    => StoredBytes - SumFunction(delta) <= MaxSpace

\* The storage limit of the configuration: at rest, no more than MaxSpace bytes are
\* stored, whatever writes, removals and evictions overlapped before.
WithinSpaceAtRest == Running /\ Idle => StoredBytes <= MaxSpace

-----------------------------------------------------------------------------
(* The lists. *)

Linked == Live \ {ref[w] : w \in {v \in Worker : pc[v] = "create_link"}}

\* Every stored file is found under its key: no item is lost from its list, no key is
\* stored twice (htable_fetch_item walks the list from its head).
EveryFileReachable == Running => \A a \in Linked : Fetch(heap[a].key) = a

\* Both directions of every list agree, and head and last are its ends; the segmented
\* policy evicts from `last', all lookups start from `head'.
ListsWellFormed ==
  Running =>
    /\ \A b \in Bucket :
         /\ head[b] = NULL <=> last[b] = NULL
         /\ head[b] # NULL => head[b] \in Linked /\ heap[head[b]].prev = NULL
         /\ last[b] # NULL => last[b] \in Linked /\ heap[last[b]].next = NULL
    /\ \A a \in Linked :
         LET n == heap[a].next  p == heap[a].prev  b == Hash[heap[a].key] IN
         /\ IF n = NULL THEN last[b] = a ELSE n \in Linked /\ heap[n].prev = a
         /\ IF p = NULL THEN head[b] = a ELSE p \in Linked /\ heap[p].next = a

\* The requests that change the lists, and the servers in which one worker is given them
\* all, as every server with one worker is.  (With two, htable_create_file loses items: it
\* reads bucket->head before it takes the mutex, htable.c:296-318.)
ListOps == {"OPEN_FILE_CREATE", "OPEN_FILE_CREATE_LOCK", "WRITE_FILE", "APPEND_TO_FILE",
            "REMOVE_FILE"}
OneWriter ==
  \A v, w \in Worker : Api[v] \cap ListOps # {} /\ Api[w] \cap ListOps # {} => v = w

\* What makes ListsWellFormed inductive there: a list stays within its bucket and ends, ...
OwnBucket ==
  /\ \A b \in Bucket : \A a \in {head[b], last[b]} \ {NULL} : Hash[heap[a].key] = b
  /\ \A a \in Linked : heap[a].next # NULL => Hash[heap[heap[a].next].key] = Hash[heap[a].key]
NoCycle ==
  \E rank \in [Addr -> Nat] :
    \A a \in Linked : heap[a].next # NULL => rank[a] < rank[heap[a].next]

\* ... no path is stored twice, and an item that is not yet linked fits the list as it is.
KeysOnce == \A a, c \in Linked : heap[a].key = heap[c].key => a = c
NewItemFits ==
  \A w \in Worker :
    /\ pc[w] \in {"create_item", "create_link"} => \A a \in Linked : heap[a].key # req[w].key
    /\ pc[w] = "create_link" =>
         LET a == ref[w] IN
         /\ a \in Live /\ heap[a].key = req[w].key
         /\ heap[a].prev = NULL /\ heap[a].next = head[BucketOf(w)]

ListInv == ListsWellFormed /\ (Running => OwnBucket /\ NoCycle /\ KeysOnce /\ NewItemFits)

-----------------------------------------------------------------------------
(* Locks on files. *)

\* A client waits for a file only while somebody holds it; htable_lock_file asserts it.
SubscribersBehindLock ==
  Running => \A a \in Live : heap[a].subs # <<>> => heap[a].is_locked

\* Every request to open a file asks for its lock.  (An open without it, by the client that
\* holds the lock, would release the lock under the subscribers, htable.c:260-263.)
OpensLock == \A w \in Worker : "OPEN_FILE" \notin Api[w]

\* A file that is locked and stays in the table changes hands only when its owner
\* gives it up: no step takes the lock away on behalf of another descriptor.
LockStaysWithOwner ==
  [][\A a \in Addr :
       (/\ heap[a] # NULL /\ heap'[a] # NULL
        /\ heap[a].is_locked
        /\ (heap'[a].fd_owner # heap[a].fd_owner \/ ~heap'[a].is_locked))
       => \E w \in Worker : /\ pc[w] \in {"unlock", "open"}
                            /\ req[w].fd = heap[a].fd_owner /\ req[w].key = heap[a].key]_vars

-----------------------------------------------------------------------------
(* Visiting the files. *)

\* Whenever a visitor reads a list or sends a file it holds the mutex of the bucket it
\* stands in, although htable_visitor_next gives one mutex back and takes the next one on
\* its way through the buckets (htable.c:510-520).
VisitorHoldsItsMutex ==
  \A w \in Worker :
    pc[w] \in {"visit_next", "visit_send"} => guard[visit[w].bucket_i] = w

\* "up to, but not exceeding, `max_visits` items" (htable.h:130-132): the visitor stops
\* in time in the middle of a list as well as on the way to the next bucket.
VisitsBounded ==
  \A w \in Worker : req[w] # NULL /\ req[w].op = "READ_N_FILES" /\ req[w].arg # 0
                     => visit[w].visits <= req[w].arg

\* What makes these two inductive: who gives a mutex back holds it, a visitor counts from
\* zero, and it is on its way to another bucket only while it may visit one more file.
VisitInv ==
  \A w \in Worker :
    /\ pc[w] \in {"visit_next", "visit_send"} => guard[visit[w].bucket_i] = w
    /\ pc[w] = "read_send" => guard[BucketOf(w)] = w
    /\ pc[w] \notin {"visit_next", "visit_bucket", "visit_send"}
         => visit[w] = [bucket_i |-> 0, visits |-> 0]
    /\ pc[w] \in {"visit_next", "visit_send"} /\ req[w].arg # 0
         => visit[w].visits <= req[w].arg
    /\ pc[w] = "visit_bucket" /\ req[w].arg # 0 => visit[w].visits < req[w].arg

-----------------------------------------------------------------------------
(* Eviction and progress. *)

\* No sequence of requests ends the process: no freed or null pointer is followed and no
\* assertion of htable.c fails.
NeverCrashes == Running

\* What makes it inductive with one writer: whoever writes has the length that the client
\* sent.  size_t counts every item that memory can hold.
WritesSize == \A w \in Worker : pc[w] = "write" => req[w].arg \in Size
ItemsCountable == Cardinality(Addr) < Word

\* The first eviction under the fifo policy finds a file, unless one was removed that the
\* FIFO still lists: whatever was created, opened and written before, the entry that
\* fifo_evict takes is in the table.  (Later evictions do not: fifo_evict moves towards
\* older entries, of which there are none, htable.c:594-600.)
FirstVictimFound ==
  fault = "null_dereference" =>
    \/ stats.num_evictions > 0
    \/ \E n \in NodeAddr : fifo.node[n] # NULL /\ Fetch(fifo.node[n].key) = NULL

\* Until an eviction moves its end, an empty FIFO lists all files but those on their way to it.
VictimInv ==
  Running /\ Policy = "fifo" /\ stats.num_evictions = 0 /\ fifo.last = NULL
    => \A a \in Live : \E w \in Worker : pc[w] \in {"create_link", "create_stats"} /\ ref[w] = a

Fairness == \A w \in Worker : WF_vars(Step(w))
FairSpec == Spec /\ Fairness

\* Every request that a worker begins comes to an end.
CallsFinish == \A w \in Worker : pc[w] # "idle" ~> (pc[w] = "idle" \/ ~Running)
=============================================================================
