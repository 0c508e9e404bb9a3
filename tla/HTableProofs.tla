---------------------------- MODULE HTableProofs ----------------------------
(***************************************************************************)
(* Proofs about the storage, for any number of threads, clients, keys,     *)
(* buckets and requests, and for both eviction policies.                   *)
(***************************************************************************)
EXTENDS HTableProps, ProofLemmas

USE HTableAssumption DEF HTableAssumption

LEMMA NullIsNoItem == NULL \notin Item
  BY NullAssumption DEF NullAssumption

\* Arithmetic on size_t stays within size_t.
LEMMA PlusType == ASSUME NEW x \in Int, NEW n \in Int PROVE Plus(x, n) \in SizeT
  BY DEF Plus, SizeT

LEMMA LargerType == ASSUME NEW x \in SizeT, NEW y \in SizeT PROVE Larger(x, y) \in SizeT
  BY DEF Larger, SizeT

\* Every request has an entry point and an argument.
LEMMA EntryPointType == ASSUME NEW op \in ApiOp PROVE EntryPoint(op) \in Labels \ {"idle"}
  BY DEF EntryPoint, ApiOp, Labels

LEMMA ArgsType == ASSUME NEW op \in ApiOp PROVE Args(op) \subseteq Nat
  BY DEF Args, ApiOp

\* The ways a step of a worker ends.
LEMMA ReturnType ==
  ASSUME WorkerTypeOK, NEW w \in Worker, NEW err \in HTableError, Return(w, err)
  PROVE  WorkerTypeOK'
  BY DEF Return, WorkerTypeOK, Labels, Pointer, Bucket

LEMMA GotoType ==
  ASSUME WorkerTypeOK, NEW w \in Worker, NEW label \in Labels, Goto(w, label),
         (ref \in [Worker -> Pointer] /\ delta \in [Worker -> Int]
          /\ visit \in [Worker -> [bucket_i: Bucket, visits: Nat]])'
  PROVE  WorkerTypeOK'
  BY DEF Goto, WorkerTypeOK

LEMMA CrashType ==
  ASSUME TypeOK, NEW how \in Faults, Crash(how)
  PROVE  TypeOK'
  BY DEF Crash, TypeOK, TableTypeOK, MutexTypeOK, CountersTypeOK, WorkerTypeOK, table, locals

LEMMA LiveItem == ASSUME TableTypeOK, NEW p \in Live PROVE p \in Addr /\ heap[p] \in Item
  BY DEF Live, TableTypeOK

\* Replacing the item at an address keeps the type of the heap.
LEMMA HeapUpdate ==
  ASSUME NEW h \in [Addr -> Item \cup {NULL}], NEW p \in Addr, NEW x \in Item \cup {NULL}
  PROVE  [h EXCEPT ![p] = x] \in [Addr -> Item \cup {NULL}]
  OBVIOUS

LEMMA LinkType ==
  ASSUME NEW r \in Item, NEW q \in Pointer
  PROVE  [r EXCEPT !.next = q] \in Item /\ [r EXCEPT !.prev = q] \in Item
  BY DEF Item

LEMMA FieldType ==
  ASSUME NEW r \in Item, NEW fd \in Fd, NEW b \in BOOLEAN, NEW q \in Seq(Fd), NEW n \in Nat
  PROVE  /\ [r EXCEPT !.subs = q] \in Item
         /\ [r EXCEPT !.is_locked = b] \in Item
         /\ [r EXCEPT !.is_open = b] \in Item
         /\ [r EXCEPT !.is_locked = b, !.fd_owner = fd] \in Item
         /\ [r EXCEPT !.fd_owner = fd, !.subs = q] \in Item
         /\ [r EXCEPT !.is_open = TRUE, !.fd_owner = fd, !.is_locked = b] \in Item
         /\ [r EXCEPT !.length_in_bytes = n, !.contents = TRUE] \in Item
  BY DEF Item

\* The request of a worker that is not idle.
LEMMA RequestType ==
  ASSUME WorkerTypeOK, HasRequest, NEW w \in Worker, pc[w] # "idle"
  PROVE  req[w] \in Request /\ req[w].key \in Key /\ req[w].fd \in Fd /\ req[w].arg \in Nat
         /\ BucketOf(w) \in Bucket
<1>1. req[w] \in Request
  BY DEF WorkerTypeOK, HasRequest
<1> QED
  BY <1>1 DEF Request, BucketOf

LEMMA NotFoundType ==
  ASSUME TypeOK, NEW w \in Worker, NotFound(w)
  PROVE  TypeOK'
<1>1. CASE Fetch(req[w].key) = WILD /\ Crash("use_after_free")
  BY <1>1, CrashType DEF Faults
<1>2. CASE Return(w, "FILE_NOT_FOUND") /\ UNCHANGED <<table, guard, stats_guard, stats, fifo>>
  <2>1. WorkerTypeOK'
    BY <1>2, ReturnType DEF TypeOK, HTableError
  <2> QED
    BY <1>2, <2>1 DEF TypeOK, TableTypeOK, MutexTypeOK, CountersTypeOK, table
<1> QED
  BY <1>1, <1>2 DEF NotFound

\* A step that returns and changes at most the heap.
LEMMA HeapReturnType ==
  ASSUME TypeOK, NEW w \in Worker, NEW err \in HTableError, Return(w, err),
         heap' \in [Addr -> Item \cup {NULL}],
         UNCHANGED <<head, last, guard, stats_guard, stats, fifo>>
  PROVE  TypeOK'
<1>1. WorkerTypeOK'
  BY ReturnType DEF TypeOK
<1> QED
  BY <1>1 DEF TypeOK, TableTypeOK, MutexTypeOK, CountersTypeOK

\* A step that goes on and changes at most the heap.
LEMMA HeapGotoType ==
  ASSUME TypeOK, NEW w \in Worker, NEW label \in Labels, Goto(w, label),
         heap' \in [Addr -> Item \cup {NULL}],
         UNCHANGED <<head, last, guard, stats_guard, stats, fifo, locals>>
  PROVE  TypeOK'
<1>1. WorkerTypeOK'
  BY GotoType DEF TypeOK, WorkerTypeOK, locals
<1> QED
  BY <1>1 DEF TypeOK, TableTypeOK, MutexTypeOK, CountersTypeOK

LEMMA LockFileType ==
  ASSUME TypeOK, HasRequest, NEW w \in Worker, LockFile(w)
  PROVE  TypeOK'
<1> DEFINE p == Fetch(req[w].key)
<1>1. req[w].fd \in Fd
  BY RequestType DEF LockFile, At, TypeOK
<1>2. CASE NotFound(w)
  BY <1>2, NotFoundType
<1>3. CASE p \in Live /\ Crash("assert_no_subscribers")
  BY <1>3, CrashType DEF Faults
<1>4. CASE /\ p \in Live
           /\ heap' = [heap EXCEPT ![p].subs = <<req[w].fd>> \o @]
           /\ Return(w, "OK_WAIT")
           /\ UNCHANGED <<head, last, guard, stats_guard, stats, fifo>>
  <2>1. p \in Addr /\ heap[p] \in Item
    BY <1>4, LiveItem DEF TypeOK
  <2>2. <<req[w].fd>> \o heap[p].subs \in Seq(Fd)
    BY <1>1, <2>1 DEF Item
  <2>3. [heap[p] EXCEPT !.subs = <<req[w].fd>> \o @] \in Item
    BY <2>1, <2>2, FieldType, <1>1
  <2>4. heap' \in [Addr -> Item \cup {NULL}]
    BY <1>4, <2>1, <2>3 DEF TypeOK, TableTypeOK
  <2> QED
    BY <1>4, <2>4, HeapReturnType DEF HTableError
<1>5. CASE /\ p \in Live
           /\ heap' = [heap EXCEPT ![p].is_locked = TRUE, ![p].fd_owner = req[w].fd]
           /\ Return(w, "OK")
           /\ UNCHANGED <<head, last, guard, stats_guard, stats, fifo>>
  <2>1. p \in Addr /\ heap[p] \in Item
    BY <1>5, LiveItem DEF TypeOK
  <2>2. [heap[p] EXCEPT !.is_locked = TRUE, !.fd_owner = req[w].fd] \in Item
    BY <1>1, <2>1 DEF Item
  <2>3. heap' \in [Addr -> Item \cup {NULL}]
    BY <1>5, <2>1, <2>2 DEF TypeOK, TableTypeOK
  <2> QED
    BY <1>5, <2>3, HeapReturnType DEF HTableError
<1> QED
  BY <1>2, <1>3, <1>4, <1>5 DEF LockFile

LEMMA UnlockFileType ==
  ASSUME TypeOK, HasRequest, NEW w \in Worker, UnlockFile(w)
  PROVE  TypeOK'
<1> DEFINE p == Fetch(req[w].key)
<1>1. CASE NotFound(w)
  BY <1>1, NotFoundType
<1>2. CASE /\ Return(w, IF heap[p].is_locked THEN "OK_WAIT" ELSE "ALREADY_UNLOCKED")
           /\ UNCHANGED <<table, guard, stats_guard, stats, fifo>>
  <2>1. (IF heap[p].is_locked THEN "OK_WAIT" ELSE "ALREADY_UNLOCKED") \in HTableError
    BY DEF HTableError
  <2>2. heap' \in [Addr -> Item \cup {NULL}] /\ UNCHANGED <<head, last>>
    BY <1>2 DEF TypeOK, TableTypeOK, table
  <2> QED
    BY <1>2, <2>1, <2>2, HeapReturnType
<1>3. CASE /\ p \in Live
           /\ heap' = IF heap[p].subs = <<>>
                      THEN [heap EXCEPT ![p].is_locked = FALSE]
                      ELSE [heap EXCEPT ![p].fd_owner = Head(heap[p].subs),
                                        ![p].subs = Tail(@)]
           /\ Return(w, "OK")
           /\ UNCHANGED <<head, last, guard, stats_guard, stats, fifo>>
  <2>1. p \in Addr /\ heap[p] \in Item
    BY <1>3, LiveItem DEF TypeOK
  <2>2. CASE heap[p].subs = <<>>
    <3>1. [heap[p] EXCEPT !.is_locked = FALSE] \in Item
      BY <2>1 DEF Item
    <3>2. heap' \in [Addr -> Item \cup {NULL}]
      BY <1>3, <2>1, <2>2, <3>1 DEF TypeOK, TableTypeOK
    <3> QED
      BY <1>3, <3>2, HeapReturnType DEF HTableError
  <2>3. CASE heap[p].subs # <<>>
    <3>1. Head(heap[p].subs) \in Fd /\ Tail(heap[p].subs) \in Seq(Fd)
      BY <2>1, <2>3 DEF Item
    <3>2. [heap[p] EXCEPT !.fd_owner = Head(heap[p].subs), !.subs = Tail(@)] \in Item
      BY <2>1, <3>1 DEF Item
    <3>3. heap' \in [Addr -> Item \cup {NULL}]
      BY <1>3, <2>1, <2>3, <3>2 DEF TypeOK, TableTypeOK
    <3> QED
      BY <1>3, <3>3, HeapReturnType DEF HTableError
  <2> QED
    BY <2>2, <2>3
<1> QED
  BY <1>1, <1>2, <1>3 DEF UnlockFile, AfterUnlock

\* A step that only returns.
LEMMA PlainReturnType ==
  ASSUME TypeOK, NEW w \in Worker, NEW err \in HTableError, Return(w, err),
         UNCHANGED <<table, guard, stats_guard, stats, fifo>>
  PROVE  TypeOK'
<1>1. heap' \in [Addr -> Item \cup {NULL}] /\ UNCHANGED <<head, last>>
  BY DEF TypeOK, TableTypeOK, table
<1> QED
  BY <1>1, HeapReturnType

LEMMA OpenFileType ==
  ASSUME TypeOK, HasRequest, NEW w \in Worker, OpenFile(w)
  PROVE  TypeOK'
<1> DEFINE p == Fetch(req[w].key)
<1>1. CASE NotFound(w)
  BY <1>1, NotFoundType
<1>2. CASE /\ Return(w, IF heap[p].is_open THEN "ALREADY_OPEN" ELSE "CANT_OPEN")
           /\ UNCHANGED <<table, guard, stats_guard, stats, fifo>>
  <2>1. (IF heap[p].is_open THEN "ALREADY_OPEN" ELSE "CANT_OPEN") \in HTableError
    BY DEF HTableError
  <2> QED
    BY <1>2, <2>1, PlainReturnType
<1>3. CASE /\ p \in Live
           /\ heap' = [heap EXCEPT ![p].is_open = TRUE, ![p].fd_owner = req[w].fd,
                                   ![p].is_locked = WithLock(req[w].op)]
           /\ Goto(w, "open_stats")
           /\ UNCHANGED <<head, last, guard, stats_guard, stats, fifo, locals>>
  <2>1. p \in Addr /\ heap[p] \in Item
    BY <1>3, LiveItem DEF TypeOK
  <2>2. req[w].fd \in Fd
    BY RequestType DEF OpenFile, At, TypeOK
  <2>3. WithLock(req[w].op) \in BOOLEAN
    BY DEF WithLock
  <2>4. [heap[p] EXCEPT !.is_open = TRUE, !.fd_owner = req[w].fd,
                        !.is_locked = WithLock(req[w].op)] \in Item
    BY <2>1, <2>2, <2>3 DEF Item
  <2>5. heap' \in [Addr -> Item \cup {NULL}]
    BY <1>3, <2>1, <2>4 DEF TypeOK, TableTypeOK
  <2> QED
    BY <1>3, <2>5, HeapGotoType DEF Labels
<1> QED
  BY <1>1, <1>2, <1>3 DEF OpenFile

LEMMA CloseFileType ==
  ASSUME TypeOK, HasRequest, NEW w \in Worker, CloseFile(w)
  PROVE  TypeOK'
<1> DEFINE p == Fetch(req[w].key)
<1>1. CASE NotFound(w)
  BY <1>1, NotFoundType
<1>2. CASE /\ Return(w, IF heap[p].is_open THEN "CANT_CLOSE" ELSE "ALREADY_CLOSED")
           /\ UNCHANGED <<table, guard, stats_guard, stats, fifo>>
  <2>1. (IF heap[p].is_open THEN "CANT_CLOSE" ELSE "ALREADY_CLOSED") \in HTableError
    BY DEF HTableError
  <2> QED
    BY <1>2, <2>1, PlainReturnType
<1>3. CASE /\ p \in Live
           /\ heap' = [heap EXCEPT ![p].is_open = FALSE]
           /\ Goto(w, "close_stats")
           /\ UNCHANGED <<head, last, guard, stats_guard, stats, fifo, locals>>
  <2>1. p \in Addr /\ heap[p] \in Item
    BY <1>3, LiveItem DEF TypeOK
  <2>2. [heap[p] EXCEPT !.is_open = FALSE] \in Item
    BY <2>1 DEF Item
  <2>3. heap' \in [Addr -> Item \cup {NULL}]
    BY <1>3, <2>1, <2>2 DEF TypeOK, TableTypeOK
  <2> QED
    BY <1>3, <2>3, HeapGotoType DEF Labels
<1> QED
  BY <1>1, <1>2, <1>3 DEF CloseFile

\* A step that returns and changes at most the counters.
LEMMA StatsReturnType ==
  ASSUME TypeOK, NEW w \in Worker, Return(w, "OK"), CountersTypeOK',
         UNCHANGED <<table, guard, stats_guard>>
  PROVE  TypeOK'
<1>1. WorkerTypeOK'
  BY ReturnType DEF TypeOK, HTableError
<1> QED
  BY <1>1 DEF TypeOK, TableTypeOK, MutexTypeOK, table

LEMMA StatsPlusType ==
  ASSUME TypeOK, NEW n \in Int
  PROVE  /\ Plus(stats.open_count, n) \in SizeT /\ Plus(stats.items_count, n) \in SizeT
         /\ Plus(stats.total_space, n) \in SizeT
<1>1. stats.open_count \in Int /\ stats.items_count \in Int /\ stats.total_space \in Int
  BY DEF TypeOK, CountersTypeOK, SizeT
<1> QED
  BY <1>1, PlusType

LEMMA OpenCloseStatsType ==
  ASSUME TypeOK, NEW w \in Worker, OpenCloseStats(w)
  PROVE  TypeOK'
<1>1. Plus(stats.open_count, 1) \in SizeT /\ Plus(stats.open_count, -1) \in SizeT
  BY StatsPlusType
<1>2. CountersTypeOK'
  BY <1>1 DEF OpenCloseStats, TypeOK, CountersTypeOK
<1> QED
  BY <1>2, StatsReturnType DEF OpenCloseStats

LEMMA CreateFetchType ==
  ASSUME TypeOK, NEW w \in Worker, CreateFetch(w)
  PROVE  TypeOK'
<1>1. CASE Return(w, "ALREADY_CREATED") /\ UNCHANGED <<table, guard, stats_guard, stats, fifo>>
  BY <1>1, PlainReturnType DEF HTableError
<1>2. CASE Goto(w, "create_item") /\ UNCHANGED <<table, guard, stats_guard, stats, fifo, locals>>
  <2>1. heap' \in [Addr -> Item \cup {NULL}] /\ UNCHANGED <<head, last>>
    BY <1>2 DEF TypeOK, TableTypeOK, table
  <2> QED
    BY <1>2, <2>1, HeapGotoType DEF Labels
<1>3. CASE Crash("use_after_free")
  BY <1>3, CrashType DEF Faults
<1> QED
  BY <1>1, <1>2, <1>3 DEF CreateFetch

LEMMA CreateItemType ==
  ASSUME TypeOK, HasRequest, NEW w \in Worker, CreateItem(w)
  PROVE  TypeOK'
<1> DEFINE x == [key |-> req[w].key, next |-> head[BucketOf(w)], prev |-> NULL,
                 length_in_bytes |-> 0, contents |-> FALSE, fd_owner |-> req[w].fd,
                 is_open |-> TRUE, is_locked |-> WithLock(req[w].op), subs |-> <<>>]
<1>1. PICK a \in Addr \ Live : heap' = [heap EXCEPT ![a] = x] /\ ref' = [ref EXCEPT ![w] = a]
  BY DEF CreateItem
<1>2. req[w].key \in Key /\ req[w].fd \in Fd /\ BucketOf(w) \in Bucket
  BY RequestType DEF CreateItem, At, TypeOK
<1>3. WithLock(req[w].op) \in BOOLEAN /\ head[BucketOf(w)] \in Pointer /\ NULL \in Pointer
  BY <1>2 DEF WithLock, TypeOK, TableTypeOK, Pointer
<1>4. x \in Item
  BY <1>2, <1>3 DEF Item
<1> HIDE DEF x
<1>5. TableTypeOK'
  BY <1>1, <1>4 DEF CreateItem, TypeOK, TableTypeOK
<1>6. ref' \in [Worker -> Pointer]
  BY <1>1 DEF TypeOK, WorkerTypeOK, Pointer
<1>7. WorkerTypeOK'
  BY <1>6, GotoType DEF CreateItem, TypeOK, WorkerTypeOK, Labels
<1> QED
  BY <1>5, <1>7 DEF CreateItem, TypeOK, MutexTypeOK, CountersTypeOK

LEMMA CreateLinkType ==
  ASSUME TypeOK, HasRequest, NEW w \in Worker, CreateLink(w)
  PROVE  TypeOK'
<1> DEFINE b == BucketOf(w)
<1>1. CASE Crash("use_after_free")
  BY <1>1, CrashType DEF Faults
<1>2. CASE /\ head[b] \in Live \cup {NULL}
           /\ heap' = IF head[b] # NULL THEN [heap EXCEPT ![head[b]].prev = ref[w]] ELSE heap
           /\ head' = [head EXCEPT ![b] = ref[w]]
           /\ last' = IF last[b] = NULL THEN [last EXCEPT ![b] = ref[w]] ELSE last
           /\ Goto(w, "create_stats")
           /\ UNCHANGED <<guard, stats_guard, stats, fifo, locals>>
  <2>1. ref[w] \in Pointer
    BY DEF TypeOK, WorkerTypeOK
  <2>2. heap' \in [Addr -> Item \cup {NULL}]
    <3>1. CASE head[b] = NULL
      BY <1>2, <3>1 DEF TypeOK, TableTypeOK
    <3>2. CASE head[b] # NULL
      <4>1. head[b] \in Addr /\ heap[head[b]] \in Item
        BY <1>2, <3>2, LiveItem DEF TypeOK
      <4>2. [heap[head[b]] EXCEPT !.prev = ref[w]] \in Item
        BY <2>1, <4>1, LinkType
      <4> QED
        BY <1>2, <3>2, <4>1, <4>2 DEF TypeOK, TableTypeOK
    <3> QED
      BY <3>1, <3>2
  <2>3. head' \in [Bucket -> Pointer] /\ last' \in [Bucket -> Pointer]
    BY <1>2, <2>1 DEF TypeOK, TableTypeOK
  <2>4. WorkerTypeOK'
    BY <1>2, GotoType DEF TypeOK, WorkerTypeOK, Labels, locals
  <2> QED
    BY <1>2, <2>2, <2>3, <2>4 DEF TypeOK, TableTypeOK, MutexTypeOK, CountersTypeOK
<1> QED
  BY <1>1, <1>2 DEF CreateLink

LEMMA CreateStatsType ==
  ASSUME TypeOK, HasRequest, NEW w \in Worker, CreateStats(w)
  PROVE  TypeOK'
<1>1. stats.max_items \in SizeT
  BY DEF TypeOK, CountersTypeOK
<1>2. Plus(stats.items_count, 1) \in SizeT /\ Plus(stats.open_count, 1) \in SizeT
  BY StatsPlusType
<1>3. Larger(stats.max_items, Plus(stats.items_count, 1)) \in SizeT
  BY <1>1, <1>2, LargerType
<1>4. stats' \in [items_count: SizeT, open_count: SizeT, total_space: SizeT,
                 max_items: SizeT, max_space: SizeT, num_evictions: Nat]
  BY <1>2, <1>3 DEF CreateStats, TypeOK, CountersTypeOK
<1>5. fifo' \in [head: NodePointer, last: NodePointer,
                node: [NodeAddr -> [key: Key, prev: NodePointer] \cup {NULL}]]
  <2>1. CASE Policy # "fifo"
    BY <2>1 DEF CreateStats, TypeOK, CountersTypeOK
  <2>2. CASE Policy = "fifo"
    <3>1. PICK a \in NodeAddr : fifo' = FifoAdd(fifo, a, req[w].key)
      BY <2>2 DEF CreateStats
    <3>2. req[w].key \in Key
      BY RequestType DEF CreateStats, At, TypeOK
    <3>3. fifo.head \in NodePointer /\ fifo.last \in NodePointer /\ a \in NodePointer
          /\ fifo.node \in [NodeAddr -> [key: Key, prev: NodePointer] \cup {NULL}]
      BY DEF TypeOK, CountersTypeOK, NodePointer
    <3>4. [key |-> req[w].key, prev |-> fifo.head] \in [key: Key, prev: NodePointer]
      BY <3>2, <3>3
    <3> QED
      BY <3>1, <3>3, <3>4 DEF FifoAdd
  <2> QED
    BY <2>1, <2>2
<1>6. CountersTypeOK'
  BY <1>4, <1>5 DEF CountersTypeOK
<1> QED
  BY <1>6, StatsReturnType DEF CreateStats

\* Taking an item out of its list keeps the types of the lists.
LEMMA UnlinkType ==
  ASSUME TypeOK, NEW p \in Live, NEW b \in Bucket, SafeToUnlink(p), Unlink(p, b)
  PROVE  TableTypeOK'
<1> DEFINE before == heap[p].prev
           after == heap[p].next
           bypass == IF before # NULL THEN [heap EXCEPT ![before].next = after] ELSE heap
           chained == IF after # NULL THEN [bypass EXCEPT ![after].prev = before] ELSE bypass
<1>1. p \in Addr /\ heap[p] \in Item /\ before \in Pointer /\ after \in Pointer
  BY LiveItem DEF TypeOK, Item
<1>2. before \in Live \cup {NULL} /\ after \in Live \cup {NULL}
  BY DEF SafeToUnlink
<1>3. bypass \in [Addr -> Item \cup {NULL}]
  <2>1. CASE before = NULL
    BY <2>1 DEF TypeOK, TableTypeOK
  <2>2. CASE before # NULL
    <3>1. before \in Addr /\ heap[before] \in Item
      BY <1>2, <2>2, LiveItem DEF TypeOK
    <3>2. [heap[before] EXCEPT !.next = after] \in Item
      BY <1>1, <3>1, LinkType
    <3> QED
      BY <2>2, <3>1, <3>2 DEF TypeOK, TableTypeOK
  <2> QED
    BY <2>1, <2>2
<1>4. \A a \in Live : bypass[a] \in Item
  <2> SUFFICES ASSUME NEW a \in Live PROVE bypass[a] \in Item
    OBVIOUS
  <2>1. a \in Addr /\ heap[a] \in Item
    BY LiveItem DEF TypeOK
  <2>2. [heap[a] EXCEPT !.next = after] \in Item
    BY <1>1, <2>1, LinkType
  <2>3. heap \in [Addr -> Item \cup {NULL}]
    BY DEF TypeOK, TableTypeOK
  <2> QED
    BY <2>1, <2>2, <2>3
<1>5. chained \in [Addr -> Item \cup {NULL}]
  <2>1. CASE after = NULL
    BY <1>3, <2>1
  <2>2. CASE after # NULL
    <3>1. after \in Addr /\ bypass[after] \in Item
      BY <1>2, <1>4, <2>2, LiveItem DEF TypeOK
    <3>2. [bypass[after] EXCEPT !.prev = before] \in Item
      BY <1>1, <3>1, LinkType
    <3> HIDE DEF bypass
    <3> QED
      BY <1>3, <2>2, <3>1, <3>2
  <2> QED
    BY <2>1, <2>2
<1>6. /\ heap' = [chained EXCEPT ![p] = NULL]
      /\ head' = IF before = NULL THEN [head EXCEPT ![b] = after] ELSE head
      /\ last' = IF after = NULL THEN [last EXCEPT ![b] = before] ELSE last
  BY DEF Unlink
<1>7. head' \in [Bucket -> Pointer] /\ last' \in [Bucket -> Pointer]
  BY <1>1, <1>6 DEF TypeOK, TableTypeOK
<1> HIDE DEF chained
<1>8. heap' \in [Addr -> Item \cup {NULL}]
  BY <1>5, <1>6
<1> QED
  BY <1>7, <1>8 DEF TableTypeOK

LEMMA RemoveFileType ==
  ASSUME TypeOK, HasRequest, NEW w \in Worker, RemoveFile(w)
  PROVE  TypeOK'
<1> DEFINE p == Fetch(req[w].key)
<1>1. CASE NotFound(w)
  BY <1>1, NotFoundType
<1>2. CASE Return(w, "OK") /\ UNCHANGED <<table, guard, stats_guard, stats, fifo>>
  BY <1>2, PlainReturnType DEF HTableError
<1>3. CASE Crash("use_after_free")
  BY <1>3, CrashType DEF Faults
<1>4. CASE /\ p \in Live /\ SafeToUnlink(p)
           /\ Unlink(p, BucketOf(w))
           /\ delta' = [delta EXCEPT ![w] = -heap[p].length_in_bytes]
           /\ Goto(w, "remove_stats")
           /\ UNCHANGED <<guard, stats_guard, stats, fifo, ref, visit>>
  <2>1. BucketOf(w) \in Bucket
    BY RequestType DEF RemoveFile, At, TypeOK
  <2>2. TableTypeOK'
    BY <1>4, <2>1, UnlinkType
  <2>3. -heap[p].length_in_bytes \in Int
    BY <1>4, LiveItem DEF TypeOK, Item
  <2>4. delta' \in [Worker -> Int]
    BY <1>4, <2>3 DEF TypeOK, WorkerTypeOK
  <2>5. WorkerTypeOK'
    BY <1>4, <2>4, GotoType DEF TypeOK, WorkerTypeOK, Labels
  <2> QED
    BY <1>4, <2>2, <2>5 DEF TypeOK, MutexTypeOK, CountersTypeOK
<1> QED
  BY <1>1, <1>2, <1>3, <1>4 DEF RemoveFile

LEMMA RemoveStatsType ==
  ASSUME TypeOK, NEW w \in Worker, RemoveStats(w)
  PROVE  TypeOK'
<1>1. Plus(stats.open_count, -1) \in SizeT /\ Plus(stats.items_count, -1) \in SizeT
  BY StatsPlusType
<1>2. Plus(stats.total_space, delta[w]) \in SizeT
  BY StatsPlusType DEF TypeOK, WorkerTypeOK
<1>3. CountersTypeOK'
  BY <1>1, <1>2 DEF RemoveStats, TypeOK, CountersTypeOK
<1> QED
  BY <1>3, StatsReturnType DEF RemoveStats

LEMMA WriteContentsType ==
  ASSUME TypeOK, HasRequest, NEW w \in Worker, WriteContents(w)
  PROVE  TypeOK'
<1> DEFINE p == Fetch(req[w].key)
<1>1. CASE NotFound(w)
  BY <1>1, NotFoundType
<1>2. CASE Crash("realloc_exit")
  BY <1>2, CrashType DEF Faults
<1>3. CASE /\ p \in Live
           /\ heap' = [heap EXCEPT ![p].length_in_bytes = NewLength(w, p),
                                   ![p].contents = TRUE]
           /\ delta' = [delta EXCEPT ![w] = NewLength(w, p) - heap[p].length_in_bytes]
           /\ Goto(w, "write_stats")
           /\ UNCHANGED <<head, last, guard, stats_guard, stats, fifo, ref, visit>>
  <2>1. p \in Addr /\ heap[p] \in Item
    BY <1>3, LiveItem DEF TypeOK
  <2>2. heap[p].length_in_bytes \in Nat
    BY <2>1 DEF Item
  <2>3. req[w].arg \in Nat
    BY RequestType DEF WriteContents, At, TypeOK
  <2>4. NewLength(w, p) \in Nat
    BY <2>2, <2>3 DEF NewLength
  <2>5. [heap[p] EXCEPT !.length_in_bytes = NewLength(w, p), !.contents = TRUE] \in Item
    BY <2>1, <2>4 DEF Item
  <2>6. heap' \in [Addr -> Item \cup {NULL}]
    BY <1>3, <2>1, <2>5 DEF TypeOK, TableTypeOK
  <2>7. NewLength(w, p) - heap[p].length_in_bytes \in Int
    BY <2>2, <2>4
  <2>8. delta' \in [Worker -> Int]
    BY <1>3, <2>7 DEF TypeOK, WorkerTypeOK
  <2>9. WorkerTypeOK'
    BY <1>3, <2>8, GotoType DEF TypeOK, WorkerTypeOK, Labels
  <2> QED
    BY <1>3, <2>6, <2>9 DEF TypeOK, TableTypeOK, MutexTypeOK, CountersTypeOK
<1> QED
  BY <1>1, <1>2, <1>3 DEF WriteContents

LEMMA WriteStatsType ==
  ASSUME TypeOK, NEW w \in Worker, WriteStats(w)
  PROVE  TypeOK'
<1> DEFINE space == Plus(stats.total_space, delta[w])
<1>1. space \in SizeT
  BY StatsPlusType DEF TypeOK, WorkerTypeOK
<1>2. Larger(stats.max_space, space) \in SizeT
  BY <1>1, LargerType DEF TypeOK, CountersTypeOK
<1>3. stats' = [stats EXCEPT !.total_space = space, !.max_space = Larger(@, space)]
  BY DEF WriteStats
<1> HIDE DEF space
<1>4. CountersTypeOK'
  BY <1>1, <1>2, <1>3 DEF WriteStats, TypeOK, CountersTypeOK
<1>5. WorkerTypeOK'
  BY GotoType DEF WriteStats, TypeOK, WorkerTypeOK, Labels
<1> QED
  BY <1>4, <1>5 DEF WriteStats, TypeOK, TableTypeOK, MutexTypeOK, table

LEMMA EvictLockDoneType ==
  ASSUME TypeOK, NEW w \in Worker, EvictLock(w) \/ EvictDone(w)
  PROVE  TypeOK'
<1>1. CASE EvictLock(w)
  <2>1. WorkerTypeOK'
    BY <1>1, GotoType DEF EvictLock, TypeOK, WorkerTypeOK, Labels, locals
  <2> QED
    BY <1>1, <2>1 DEF EvictLock, TypeOK, TableTypeOK, MutexTypeOK, CountersTypeOK, table
<1>2. CASE EvictDone(w)
  <2>1. WorkerTypeOK'
    BY <1>2, ReturnType DEF EvictDone, TypeOK, HTableError
  <2> QED
    BY <1>2, <2>1 DEF EvictDone, TypeOK, TableTypeOK, MutexTypeOK, CountersTypeOK, table
<1> QED
  BY <1>1, <1>2

LEMMA EvictStatsType ==
  ASSUME TypeOK, NEW item \in Item, EvictStats(item)
  PROVE  stats' \in [items_count: SizeT, open_count: SizeT, total_space: SizeT,
                    max_items: SizeT, max_space: SizeT, num_evictions: Nat]
<1> DEFINE n == IF item.is_open THEN -1 ELSE 0
<1>1. n \in Int /\ -item.length_in_bytes \in Int
  BY DEF Item
<1>2. /\ Plus(stats.open_count, n) \in SizeT
      /\ Plus(stats.items_count, -1) \in SizeT
      /\ Plus(stats.total_space, -item.length_in_bytes) \in SizeT
  BY <1>1, StatsPlusType
<1> DEFINE opened == Plus(stats.open_count, n)
           items == Plus(stats.items_count, -1)
           space == Plus(stats.total_space, -item.length_in_bytes)
<1>3. stats' = [stats EXCEPT !.open_count = opened, !.items_count = items,
                             !.total_space = space, !.num_evictions = stats.num_evictions + 1]
  BY DEF EvictStats, TypeOK, CountersTypeOK
<1>4. opened \in SizeT /\ items \in SizeT /\ space \in SizeT
  BY <1>2
<1> HIDE DEF opened, items, space, n
<1>5. /\ stats.num_evictions + 1 \in Nat
      /\ stats \in [items_count: SizeT, open_count: SizeT, total_space: SizeT,
                    max_items: SizeT, max_space: SizeT, num_evictions: Nat]
  BY DEF TypeOK, CountersTypeOK
<1> QED
  BY <1>3, <1>4, <1>5

LEMMA EvictSegmentedType ==
  ASSUME TypeOK, NEW w \in Worker, NEW b \in Bucket, EvictSegmented(w, b)
  PROVE  TypeOK'
<1> DEFINE p == last[b]
           before == heap[p].prev
           cut == IF before # NULL THEN [heap EXCEPT ![before].next = NULL] ELSE heap
<1>1. CASE Crash("assert_items_count") \/ Crash("assert_empty_bucket") \/ Crash("use_after_free")
  BY <1>1, CrashType DEF Faults
<1>2. CASE UNCHANGED vars
  BY <1>2 DEF vars, TypeOK, TableTypeOK, MutexTypeOK, CountersTypeOK, WorkerTypeOK
<1>3. CASE /\ p \in Live /\ before \in Live \cup {NULL}
           /\ heap' = [cut EXCEPT ![p] = NULL]
           /\ last' = [last EXCEPT ![b] = before]
           /\ head' = IF before = NULL THEN [head EXCEPT ![b] = NULL] ELSE head
           /\ EvictStats(heap[p])
           /\ UNCHANGED <<guard, stats_guard, fifo, pc, req, ret, locals, calls, fault>>
  <2>1. p \in Addr /\ heap[p] \in Item /\ before \in Pointer /\ NULL \in Pointer
    BY <1>3, LiveItem DEF TypeOK, Item, Pointer
  <2>2. cut \in [Addr -> Item \cup {NULL}]
    <3>1. CASE before = NULL
      BY <3>1 DEF TypeOK, TableTypeOK
    <3>2. CASE before # NULL
      <4>1. before \in Addr /\ heap[before] \in Item
        BY <1>3, <3>2, LiveItem DEF TypeOK
      <4>2. [heap[before] EXCEPT !.next = NULL] \in Item
        BY <2>1, <4>1, LinkType
      <4> QED
        BY <3>2, <4>1, <4>2 DEF TypeOK, TableTypeOK
    <3> QED
      BY <3>1, <3>2
  <2>3. head' \in [Bucket -> Pointer] /\ last' \in [Bucket -> Pointer]
    BY <1>3, <2>1 DEF TypeOK, TableTypeOK
  <2>4. stats' \in [items_count: SizeT, open_count: SizeT, total_space: SizeT,
                   max_items: SizeT, max_space: SizeT, num_evictions: Nat]
    BY <1>3, <2>1, EvictStatsType
  <2> HIDE DEF cut
  <2>5. heap' \in [Addr -> Item \cup {NULL}]
    BY <1>3, <2>2
  <2> QED
    BY <1>3, <2>3, <2>4, <2>5
       DEF TypeOK, TableTypeOK, MutexTypeOK, CountersTypeOK, WorkerTypeOK, locals
<1> QED
  BY <1>1, <1>2, <1>3 DEF EvictSegmented

LEMMA EvictFifoType ==
  ASSUME TypeOK, NEW w \in Worker, EvictFifo(w)
  PROVE  TypeOK'
<1> DEFINE n == fifo.node[fifo.last]
           p == Fetch(n.key)
<1>1. CASE Crash("null_dereference") \/ Crash("use_after_free")
  BY <1>1, CrashType DEF Faults
<1>2. CASE /\ fifo.last # NULL /\ n # NULL
           /\ p \in Live /\ SafeToUnlink(p)
           /\ Unlink(p, Hash[n.key])
           /\ EvictStats(heap[p])
           /\ fifo' = FifoEvict(fifo)
           /\ UNCHANGED <<guard, stats_guard, pc, req, ret, locals, calls, fault>>
  <2>1. /\ fifo.head \in NodePointer /\ fifo.last \in NodeAddr
        /\ fifo.node \in [NodeAddr -> [key: Key, prev: NodePointer] \cup {NULL}]
    BY <1>2 DEF TypeOK, CountersTypeOK, NodePointer
  <2>2. n \in [key: Key, prev: NodePointer]
    BY <1>2, <2>1
  <2>3. Hash[n.key] \in Bucket /\ n.prev \in NodePointer
    BY <2>2
  <2>4. TableTypeOK'
    BY <1>2, <2>3, UnlinkType
  <2>5. heap[p] \in Item
    BY <1>2, LiveItem DEF TypeOK
  <2>6. stats' \in [items_count: SizeT, open_count: SizeT, total_space: SizeT,
                   max_items: SizeT, max_space: SizeT, num_evictions: Nat]
    BY <1>2, <2>5, EvictStatsType
  <2>7. fifo' \in [head: NodePointer, last: NodePointer,
                  node: [NodeAddr -> [key: Key, prev: NodePointer] \cup {NULL}]]
    BY <1>2, <2>1, <2>3 DEF FifoEvict
  <2> QED
    BY <1>2, <2>4, <2>6, <2>7 DEF TypeOK, MutexTypeOK, CountersTypeOK, WorkerTypeOK, locals
<1> QED
  BY <1>1, <1>2 DEF EvictFifo

LEMMA ReadType ==
  ASSUME TypeOK, HasRequest, NEW w \in Worker, ReadFetch(w) \/ ReadRelease(w)
  PROVE  TypeOK'
<1>1. CASE NotFound(w)
  BY <1>1, NotFoundType
<1>2. CASE /\ guard' = [guard EXCEPT ![BucketOf(w)] = w]
           /\ Goto(w, "read_send")
           /\ UNCHANGED <<table, stats_guard, stats, fifo, locals>>
  <2>1. WorkerTypeOK'
    BY <1>2, GotoType DEF TypeOK, WorkerTypeOK, Labels, locals
  <2> QED
    BY <1>2, <2>1 DEF TypeOK, TableTypeOK, MutexTypeOK, CountersTypeOK, table
<1>3. CASE ReadRelease(w)
  <2>1. WorkerTypeOK'
    BY <1>3, ReturnType DEF ReadRelease, TypeOK, HTableError
  <2> QED
    BY <1>3, <2>1 DEF ReadRelease, TypeOK, TableTypeOK, MutexTypeOK, CountersTypeOK, table
<1> QED
  BY <1>1, <1>2, <1>3 DEF ReadFetch

LEMMA BeginType ==
  ASSUME TypeOK, NEW w \in Worker, Begin(w)
  PROVE  TypeOK'
<1>0. PICK op \in Api[w], k \in Key, fd \in Fd : \E arg \in Args(op) :
        /\ req' = [req EXCEPT ![w] = [op |-> op, key |-> k, fd |-> fd, arg |-> arg]]
        /\ pc' = [pc EXCEPT ![w] = EntryPoint(op)]
  BY DEF Begin
<1>1. PICK arg \in Args(op) :
        /\ req' = [req EXCEPT ![w] = [op |-> op, key |-> k, fd |-> fd, arg |-> arg]]
        /\ pc' = [pc EXCEPT ![w] = EntryPoint(op)]
  BY <1>0
<1>2. op \in ApiOp
  OBVIOUS
<1>3. arg \in Nat /\ EntryPoint(op) \in Labels
  BY <1>2, ArgsType, EntryPointType
<1>4. [op |-> op, key |-> k, fd |-> fd, arg |-> arg] \in Request
  BY <1>2, <1>3 DEF Request
<1>5. req' \in [Worker -> Request \cup {NULL}]
  BY <1>1, <1>4 DEF TypeOK, WorkerTypeOK
<1>6. pc' \in [Worker -> Labels]
  BY <1>1, <1>3 DEF TypeOK, WorkerTypeOK
<1>7. WorkerTypeOK'
  BY <1>5, <1>6 DEF Begin, TypeOK, WorkerTypeOK, locals
<1> QED
  BY <1>7 DEF Begin, TypeOK, TableTypeOK, MutexTypeOK, CountersTypeOK, table

LEMMA VisitLockType ==
  ASSUME TypeOK, NEW w \in Worker, VisitHead(w) \/ VisitLock(w)
  PROVE  TypeOK'
<1> 0 \in Bucket
  BY DEF Bucket
<1>1. CASE VisitHead(w)
  <2>1. ref' \in [Worker -> Pointer]
    BY <1>1 DEF VisitHead, TypeOK, TableTypeOK, WorkerTypeOK
  <2>2. WorkerTypeOK'
    BY <1>1, <2>1, GotoType DEF VisitHead, TypeOK, WorkerTypeOK, Labels
  <2> QED
    BY <1>1, <2>2 DEF VisitHead, TypeOK, TableTypeOK, MutexTypeOK, CountersTypeOK, table
<1>2. CASE VisitLock(w)
  <2>1. WorkerTypeOK'
    BY <1>2, GotoType DEF VisitLock, TypeOK, WorkerTypeOK, Labels, locals
  <2> QED
    BY <1>2, <2>1 DEF VisitLock, TypeOK, TableTypeOK, MutexTypeOK, CountersTypeOK, table
<1> QED
  BY <1>1, <1>2

LEMMA VisitSendType ==
  ASSUME TypeOK, NEW w \in Worker, VisitSend(w)
  PROVE  TypeOK'
<1>1. WorkerTypeOK'
  BY GotoType, ReturnType DEF VisitSend, TypeOK, WorkerTypeOK, Labels, HTableError, locals
<1> QED
  BY <1>1 DEF VisitSend, TypeOK, TableTypeOK, MutexTypeOK, CountersTypeOK, table

\* A visitor that moves on: what it stands on and where it stands stay typed.
LEMMA VisitStepType ==
  ASSUME TypeOK, NEW w \in Worker, NEW label \in Labels, Goto(w, label),
         guard' \in [Bucket -> Worker \cup {NULL}],
         ref' \in [Worker -> Pointer],
         visit' \in [Worker -> [bucket_i: Bucket, visits: Nat]],
         UNCHANGED <<table, stats_guard, stats, fifo, delta>>
  PROVE  TypeOK'
<1>1. WorkerTypeOK'
  BY GotoType DEF TypeOK, WorkerTypeOK
<1> QED
  BY <1>1 DEF TypeOK, TableTypeOK, MutexTypeOK, CountersTypeOK, table

LEMMA VisitReturnType ==
  ASSUME TypeOK, NEW w \in Worker, Return(w, "OK"),
         guard' \in [Bucket -> Worker \cup {NULL}],
         UNCHANGED <<table, stats_guard, stats, fifo>>
  PROVE  TypeOK'
<1>1. WorkerTypeOK'
  BY ReturnType DEF TypeOK, HTableError
<1> QED
  BY <1>1 DEF TypeOK, TableTypeOK, MutexTypeOK, CountersTypeOK, table

LEMMA VisitNextType ==
  ASSUME TypeOK, NEW w \in Worker, VisitNext(w)
  PROVE  TypeOK'
<1> DEFINE v == visit[w]
<1>1. /\ v \in [bucket_i: Bucket, visits: Nat]
      /\ v.bucket_i \in Bucket /\ v.visits + 1 \in Nat
      /\ guard \in [Bucket -> Worker \cup {NULL}]
      /\ ref \in [Worker -> Pointer]
      /\ visit \in [Worker -> [bucket_i: Bucket, visits: Nat]]
  BY DEF TypeOK, MutexTypeOK, WorkerTypeOK
<1>2. [guard EXCEPT ![v.bucket_i] = NULL] \in [Bucket -> Worker \cup {NULL}]
  BY <1>1
<1>3. CASE Crash("use_after_free")
  BY <1>3, CrashType DEF Faults
<1>4. CASE /\ guard' = [guard EXCEPT ![v.bucket_i] = NULL] \/ guard' = guard
           /\ Return(w, "OK")
           /\ UNCHANGED <<table, stats_guard, stats, fifo>>
  <2>1. guard' \in [Bucket -> Worker \cup {NULL}]
    BY <1>1, <1>2, <1>4
  <2> QED
    BY <1>4, <2>1, VisitReturnType
<1>5. CASE \E p \in Live :
             /\ ref' = [ref EXCEPT ![w] = p]
             /\ visit' = [visit EXCEPT ![w].visits = @ + 1]
             /\ Goto(w, "visit_send")
             /\ UNCHANGED <<table, guard, stats_guard, stats, fifo, delta>>
  <2>1. ref' \in [Worker -> Pointer]
    BY <1>1, <1>5 DEF Live, Pointer
  <2>2. [v EXCEPT !.visits = @ + 1] \in [bucket_i: Bucket, visits: Nat]
    BY <1>1
  <2>3. visit' \in [Worker -> [bucket_i: Bucket, visits: Nat]]
    BY <1>1, <1>5, <2>2
  <2> QED
    BY <1>1, <1>5, <2>1, <2>3, VisitStepType DEF Labels
<1>6. CASE /\ guard' = [guard EXCEPT ![v.bucket_i] = NULL]
           /\ v.bucket_i + 1 # BucketsCount
           /\ visit' = [visit EXCEPT ![w].bucket_i = @ + 1]
           /\ Goto(w, "visit_bucket")
           /\ UNCHANGED <<ref, delta>>
           /\ UNCHANGED <<table, stats_guard, stats, fifo>>
  <2>1. v.bucket_i + 1 \in Bucket
    BY <1>1, <1>6 DEF Bucket
  <2>2. [v EXCEPT !.bucket_i = @ + 1] \in [bucket_i: Bucket, visits: Nat]
    BY <1>1, <2>1
  <2>3. visit' \in [Worker -> [bucket_i: Bucket, visits: Nat]]
    BY <1>1, <1>6, <2>2
  <2> QED
    BY <1>1, <1>2, <1>6, <2>3, VisitStepType DEF Labels
<1> QED
  BY <1>3, <1>4, <1>5, <1>6 DEF VisitNext

LEMMA VisitBucketType ==
  ASSUME TypeOK, NEW w \in Worker, VisitBucket(w)
  PROVE  TypeOK'
<1> DEFINE v == visit[w]
           p == head[v.bucket_i]
<1>1. /\ v \in [bucket_i: Bucket, visits: Nat]
      /\ v.bucket_i \in Bucket /\ v.visits + 1 \in Nat
      /\ p \in Pointer
      /\ guard \in [Bucket -> Worker \cup {NULL}]
      /\ ref \in [Worker -> Pointer]
      /\ visit \in [Worker -> [bucket_i: Bucket, visits: Nat]]
  BY DEF TypeOK, TableTypeOK, MutexTypeOK, WorkerTypeOK
<1>2. CASE Crash("use_after_free")
  BY <1>2, CrashType DEF Faults
<1>3. CASE /\ guard' = [guard EXCEPT ![v.bucket_i] = w]
           /\ ref' = [ref EXCEPT ![w] = p]
           /\ visit' = IF p = NULL THEN visit ELSE [visit EXCEPT ![w].visits = @ + 1]
           /\ Goto(w, IF p = NULL THEN "visit_next" ELSE "visit_send")
           /\ UNCHANGED <<table, stats_guard, stats, fifo, delta>>
  <2>1. /\ guard' \in [Bucket -> Worker \cup {NULL}]
        /\ ref' \in [Worker -> Pointer]
    BY <1>1, <1>3
  <2>2. [v EXCEPT !.visits = @ + 1] \in [bucket_i: Bucket, visits: Nat]
    BY <1>1
  <2>3. visit' \in [Worker -> [bucket_i: Bucket, visits: Nat]]
    BY <1>1, <1>3, <2>2
  <2>4. (IF p = NULL THEN "visit_next" ELSE "visit_send") \in Labels
    BY DEF Labels
  <2> QED
    BY <1>3, <2>1, <2>3, <2>4, VisitStepType
<1> QED
  BY <1>2, <1>3 DEF VisitBucket

-----------------------------------------------------------------------------
(* Every action preserves the types; the requests in hand stay in hand. *)

LEMMA NextType == ASSUME TypeOK, HasRequest, [Next]_vars PROVE TypeOK'
<1>1. CASE UNCHANGED vars \/ Terminated
  BY <1>1 DEF Terminated, vars, TypeOK, TableTypeOK, MutexTypeOK, CountersTypeOK, WorkerTypeOK
<1>2. ASSUME NEW w \in Worker, Begin(w) PROVE TypeOK'
  BY <1>2, BeginType
<1>3. ASSUME NEW w \in Worker, Step(w) PROVE TypeOK'
  <2>1. CASE LockFile(w) \/ UnlockFile(w) \/ OpenFile(w) \/ CloseFile(w) \/ OpenCloseStats(w)
    BY <2>1, LockFileType, UnlockFileType, OpenFileType, CloseFileType, OpenCloseStatsType
  <2>2. CASE CreateFetch(w) \/ CreateItem(w) \/ CreateLink(w) \/ CreateStats(w)
    BY <2>2, CreateFetchType, CreateItemType, CreateLinkType, CreateStatsType
  <2>3. CASE RemoveFile(w) \/ RemoveStats(w) \/ WriteContents(w) \/ WriteStats(w)
    BY <2>3, RemoveFileType, RemoveStatsType, WriteContentsType, WriteStatsType
  <2>4. CASE EvictLock(w) \/ EvictDone(w) \/ EvictFifo(w)
    BY <2>4, EvictLockDoneType, EvictFifoType
  <2>5. CASE \E b \in Bucket : EvictSegmented(w, b)
    BY <2>5, EvictSegmentedType
  <2>6. CASE ReadFetch(w) \/ ReadRelease(w) \/ VisitHead(w) \/ VisitLock(w)
    BY <2>6, ReadType, VisitLockType
  <2>7. CASE VisitNext(w) \/ VisitBucket(w) \/ VisitSend(w)
    BY <2>7, VisitNextType, VisitBucketType, VisitSendType
  <2> QED
    BY <1>3, <2>1, <2>2, <2>3, <2>4, <2>5, <2>6, <2>7 DEF Step
<1> QED
  BY <1>1, <1>2, <1>3 DEF Next

\* How a step of worker w moves the workers: it goes on with its request, it ends its
\* request, or nothing moves.
Moves(w) ==
  \/ /\ pc[w] # "idle"
     /\ \E label \in Labels : pc' = [pc EXCEPT ![w] = label]
     /\ req' = req
  \/ pc' = [pc EXCEPT ![w] = "idle"] /\ req' = [req EXCEPT ![w] = NULL]
  \/ pc' = pc /\ req' = req

LEMMA StepMoves == ASSUME NEW w \in Worker, Step(w) PROVE Moves(w)
<1>1. ASSUME NEW label \in Labels, Goto(w, label), pc[w] # "idle" PROVE Moves(w)
  BY <1>1 DEF Goto, Moves
<1>2. ASSUME NEW err, Return(w, err) PROVE Moves(w)
  BY <1>2 DEF Return, Moves
<1>3. ASSUME NEW how, Crash(how) PROVE Moves(w)
  BY <1>3 DEF Crash, Moves
<1>4. ASSUME NotFound(w) PROVE Moves(w)
  BY <1>2, <1>3, <1>4 DEF NotFound
<1>5. CASE LockFile(w) \/ UnlockFile(w)
  BY <1>2, <1>3, <1>4, <1>5 DEF LockFile, UnlockFile
<1>6. CASE OpenFile(w) \/ CloseFile(w)
  BY <1>1, <1>2, <1>4, <1>6 DEF OpenFile, CloseFile, At, Labels
<1>7. CASE OpenCloseStats(w) \/ CreateStats(w) \/ RemoveStats(w) \/ EvictDone(w) \/ ReadRelease(w)
  BY <1>2, <1>7 DEF OpenCloseStats, CreateStats, RemoveStats, EvictDone, ReadRelease
<1>8. CASE CreateFetch(w) \/ CreateItem(w) \/ CreateLink(w)
  BY <1>1, <1>2, <1>3, <1>8 DEF CreateFetch, CreateItem, CreateLink, At, Labels
<1>9. CASE RemoveFile(w) \/ WriteContents(w)
  BY <1>1, <1>2, <1>3, <1>4, <1>9 DEF RemoveFile, WriteContents, At, Labels
<1>10. CASE WriteStats(w) \/ EvictLock(w) \/ ReadFetch(w)
  BY <1>1, <1>4, <1>10 DEF WriteStats, EvictLock, ReadFetch, At, Labels
<1>11. CASE \E b \in Bucket : EvictSegmented(w, b)
  BY <1>3, <1>11 DEF EvictSegmented, vars, Moves
<1>12. CASE EvictFifo(w)
  BY <1>3, <1>12 DEF EvictFifo, Moves
<1>13. CASE VisitHead(w) \/ VisitLock(w) \/ VisitSend(w)
  BY <1>1, <1>2, <1>13 DEF VisitHead, VisitLock, VisitSend, At, Labels
<1>14. CASE VisitNext(w)
  BY <1>1, <1>2, <1>3, <1>14 DEF VisitNext, At, Labels
<1>15. CASE VisitBucket(w)
  BY <1>1, <1>3, <1>15 DEF VisitBucket, At, Labels
<1> QED
  BY <1>5, <1>6, <1>7, <1>8, <1>9, <1>10, <1>11, <1>12, <1>13, <1>14, <1>15 DEF Step

LEMMA NextHasRequest == ASSUME TypeOK, HasRequest, [Next]_vars PROVE HasRequest'
<1>1. CASE UNCHANGED vars \/ Terminated
  BY <1>1 DEF Terminated, vars, HasRequest
<1>2. ASSUME NEW w \in Worker, Begin(w) PROVE HasRequest'
  <2>0. PICK op \in Api[w], k \in Key, fd \in Fd : \E arg \in Args(op) :
          /\ req' = [req EXCEPT ![w] = [op |-> op, key |-> k, fd |-> fd, arg |-> arg]]
          /\ pc' = [pc EXCEPT ![w] = EntryPoint(op)]
    BY <1>2 DEF Begin
  <2>1. PICK arg \in Args(op) :
          /\ req' = [req EXCEPT ![w] = [op |-> op, key |-> k, fd |-> fd, arg |-> arg]]
          /\ pc' = [pc EXCEPT ![w] = EntryPoint(op)]
    BY <2>0
  <2>2. op \in ApiOp /\ arg \in Nat
    BY ArgsType
  <2>3. [op |-> op, key |-> k, fd |-> fd, arg |-> arg] \in Request
    BY <2>2 DEF Request
  <2> QED
    BY <2>1, <2>3 DEF HasRequest, TypeOK, WorkerTypeOK
<1>3. ASSUME NEW w \in Worker, Step(w) PROVE HasRequest'
  BY <1>3, StepMoves DEF Moves, HasRequest, TypeOK, WorkerTypeOK
<1> QED
  BY <1>1, <1>2, <1>3 DEF Next

LEMMA InitType == Init => TypeOK /\ HasRequest
<1> SUFFICES ASSUME Init PROVE TypeOK /\ HasRequest
  OBVIOUS
<1> USE DEF Init
<1>1. TableTypeOK
  BY DEF TableTypeOK, Pointer
<1>2. MutexTypeOK
  BY DEF MutexTypeOK
<1>3. 0 \in SizeT /\ 0 \in Bucket
  BY DEF SizeT, Bucket
<1>4. CountersTypeOK
  BY <1>3 DEF CountersTypeOK, NodePointer
<1>5. WorkerTypeOK /\ HasRequest
  BY <1>3 DEF WorkerTypeOK, HasRequest, Labels, Faults, Pointer
<1> QED
  BY <1>1, <1>2, <1>4, <1>5 DEF TypeOK

\* Every variable of the storage keeps its type, whatever the workers are asked to do: no
\* counter leaves size_t and no pointer leaves the heap (the counters of struct HTableStats,
\* the links of struct HTableItem).
THEOREM TypeCorrect == Spec => []TypeOK
<1>1. Init => TypeOK /\ HasRequest
  BY InitType
<1>2. TypeOK /\ HasRequest /\ [Next]_vars => (TypeOK /\ HasRequest)'
  BY NextType, NextHasRequest
<1> QED
  BY <1>1, <1>2, PTL DEF Spec

-----------------------------------------------------------------------------
(* The mutexes: MutexInv is inductive when nobody visits the files. *)

\* The labels at which a worker keeps no mutex.
Unlocked == {"lock", "unlock", "open", "open_stats", "close", "close_stats", "create",
             "create_item", "create_link", "create_stats", "remove", "remove_stats", "write",
             "write_stats", "evict_lock", "read"}

Mutexes == <<guard, stats_guard>>

\* What a step of worker w does to the mutexes.
MutexMoves(w) ==
  \/ /\ pc[w] \in Unlocked /\ UNCHANGED Mutexes
     /\ \/ pc' = [pc EXCEPT ![w] = "idle"] /\ req' = [req EXCEPT ![w] = NULL]
        \/ req' = req /\ \E label \in Unlocked : pc' = [pc EXCEPT ![w] = label]
  \/ UNCHANGED <<pc, req, guard, stats_guard>>
  \/ /\ pc[w] = "evict_lock" /\ stats_guard = NULL /\ stats_guard' = w
     /\ pc' = [pc EXCEPT ![w] = "evict"] /\ UNCHANGED <<req, guard>>
  \/ /\ pc[w] = "evict" /\ stats_guard' = NULL
     /\ pc' = [pc EXCEPT ![w] = "idle"] /\ req' = [req EXCEPT ![w] = NULL]
     /\ UNCHANGED guard
  \/ /\ pc[w] = "read" /\ Free(BucketOf(w))
     /\ guard' = [guard EXCEPT ![BucketOf(w)] = w]
     /\ pc' = [pc EXCEPT ![w] = "read_send"] /\ UNCHANGED <<req, stats_guard>>
  \/ /\ pc[w] = "read_send"
     /\ guard' = [guard EXCEPT ![BucketOf(w)] = NULL]
     /\ pc' = [pc EXCEPT ![w] = "idle"] /\ req' = [req EXCEPT ![w] = NULL]
     /\ UNCHANGED stats_guard

LEMMA StepMutexMoves ==
  ASSUME ReaderHoldsOneMutex, NEW w \in Worker, Step(w)
  PROVE  MutexMoves(w)
<1>0. pc[w] \notin {"visit", "visit_lock", "visit_next", "visit_bucket", "visit_send"}
  BY DEF ReaderHoldsOneMutex
<1>1. ASSUME NEW label \in Unlocked, Goto(w, label), pc[w] \in Unlocked, UNCHANGED Mutexes
      PROVE  MutexMoves(w)
  BY <1>1 DEF Goto, MutexMoves
<1>2. ASSUME NEW err, Return(w, err), pc[w] \in Unlocked, UNCHANGED Mutexes
      PROVE  MutexMoves(w)
  BY <1>2 DEF Return, MutexMoves
<1>3. ASSUME NEW how, Crash(how) PROVE MutexMoves(w)
  BY <1>3 DEF Crash, MutexMoves
<1>4. ASSUME NotFound(w), pc[w] \in Unlocked PROVE MutexMoves(w)
  BY <1>2, <1>3, <1>4 DEF NotFound, Mutexes
<1> HIDE DEF MutexMoves
<1>5. CASE LockFile(w) \/ UnlockFile(w)
  BY <1>2, <1>3, <1>4, <1>5 DEF LockFile, UnlockFile, At, Unlocked, Mutexes
<1>6. CASE OpenFile(w) \/ CloseFile(w)
  BY <1>1, <1>2, <1>4, <1>6 DEF OpenFile, CloseFile, At, Unlocked, Mutexes
<1>7. CASE OpenCloseStats(w) \/ CreateStats(w) \/ RemoveStats(w)
  BY <1>2, <1>7 DEF OpenCloseStats, CreateStats, RemoveStats, At, Unlocked, Mutexes
<1>8. CASE CreateFetch(w) \/ CreateItem(w) \/ CreateLink(w)
  BY <1>1, <1>2, <1>3, <1>8 DEF CreateFetch, CreateItem, CreateLink, At, Unlocked, Mutexes
<1>9. CASE RemoveFile(w) \/ WriteContents(w) \/ WriteStats(w)
  BY <1>1, <1>2, <1>3, <1>4, <1>9
     DEF RemoveFile, WriteContents, WriteStats, At, Unlocked, Mutexes
<1>10. CASE EvictLock(w) \/ EvictDone(w)
  BY <1>10 DEF EvictLock, EvictDone, Goto, Return, At, MutexMoves
<1>11. CASE \E b \in Bucket : EvictSegmented(w, b)
  BY <1>3, <1>11 DEF EvictSegmented, vars, MutexMoves
<1>12. CASE EvictFifo(w)
  BY <1>3, <1>12 DEF EvictFifo, MutexMoves
<1>13. CASE ReadFetch(w)
  BY <1>4, <1>13 DEF ReadFetch, Goto, At, Unlocked, MutexMoves
<1>14. CASE ReadRelease(w)
  BY <1>14 DEF ReadRelease, Return, At, MutexMoves
<1> QED
  BY <1>0, <1>5, <1>6, <1>7, <1>8, <1>9, <1>10, <1>11, <1>12, <1>13, <1>14
     DEF Step, VisitHead, VisitLock, VisitNext, VisitBucket, VisitSend, At

LEMMA EntryUnlocked ==
  ASSUME NEW op \in ApiOp \ {"READ_N_FILES"} PROVE EntryPoint(op) \in Unlocked
  BY DEF EntryPoint, ApiOp, Unlocked

LEMMA StepLockOrder ==
  ASSUME MutexInv, NEW w \in Worker, MutexMoves(w)
  PROVE  LockOrder' /\ ReaderHoldsOneMutex'
<1> USE DEF MutexInv, TypeOK, MutexTypeOK, WorkerTypeOK
<1>1. /\ pc \in [Worker -> Labels] /\ guard \in [Bucket -> Worker \cup {NULL}]
      /\ req \in [Worker -> Request \cup {NULL}]
      /\ LockOrder /\ ReaderHoldsOneMutex
  OBVIOUS
<1>2. pc[w] # "idle" => BucketOf(w) \in Bucket
  BY RequestType DEF BucketOf
<1>3. CASE /\ pc[w] \in Unlocked /\ UNCHANGED Mutexes
           /\ \/ pc' = [pc EXCEPT ![w] = "idle"] /\ req' = [req EXCEPT ![w] = NULL]
              \/ req' = req /\ \E label \in Unlocked : pc' = [pc EXCEPT ![w] = label]
  BY <1>1, <1>3 DEF LockOrder, ReaderHoldsOneMutex, Unlocked, Mutexes, BucketOf
<1>4. CASE UNCHANGED <<pc, req, guard, stats_guard>>
  BY <1>1, <1>4 DEF LockOrder, ReaderHoldsOneMutex, BucketOf
<1>5. CASE /\ pc[w] = "evict_lock" /\ stats_guard = NULL /\ stats_guard' = w
           /\ pc' = [pc EXCEPT ![w] = "evict"] /\ UNCHANGED <<req, guard>>
  BY <1>1, <1>5 DEF LockOrder, ReaderHoldsOneMutex, BucketOf
<1>6. CASE /\ pc[w] = "evict" /\ stats_guard' = NULL
           /\ pc' = [pc EXCEPT ![w] = "idle"] /\ req' = [req EXCEPT ![w] = NULL]
           /\ UNCHANGED guard
  BY <1>1, <1>6 DEF LockOrder, ReaderHoldsOneMutex, BucketOf
<1>7. CASE /\ pc[w] = "read" /\ Free(BucketOf(w))
           /\ guard' = [guard EXCEPT ![BucketOf(w)] = w]
           /\ pc' = [pc EXCEPT ![w] = "read_send"] /\ UNCHANGED <<req, stats_guard>>
  BY <1>1, <1>2, <1>7 DEF LockOrder, ReaderHoldsOneMutex, BucketOf, Free
<1>8. CASE /\ pc[w] = "read_send"
           /\ guard' = [guard EXCEPT ![BucketOf(w)] = NULL]
           /\ pc' = [pc EXCEPT ![w] = "idle"] /\ req' = [req EXCEPT ![w] = NULL]
           /\ UNCHANGED stats_guard
  BY <1>1, <1>2, <1>8 DEF LockOrder, ReaderHoldsOneMutex, BucketOf
<1> QED
  BY <1>3, <1>4, <1>5, <1>6, <1>7, <1>8 DEF MutexMoves

LEMMA BeginLockOrder ==
  ASSUME MutexInv, NoVisits, NEW w \in Worker, Begin(w)
  PROVE  LockOrder' /\ ReaderHoldsOneMutex'
<1>1. PICK op \in Api[w], k \in Key, fd \in Fd : \E arg \in Args(op) :
        /\ req' = [req EXCEPT ![w] = [op |-> op, key |-> k, fd |-> fd, arg |-> arg]]
        /\ pc' = [pc EXCEPT ![w] = EntryPoint(op)]
  BY DEF Begin
<1>2. EntryPoint(op) \in Unlocked
  BY EntryUnlocked DEF NoVisits
<1>3. PICK r : req' = [req EXCEPT ![w] = r]
  BY <1>1
<1>4. /\ pc[w] = "idle" /\ pc' = [pc EXCEPT ![w] = EntryPoint(op)]
      /\ UNCHANGED <<guard, stats_guard>>
  BY <1>1 DEF Begin, At
<1>5. /\ pc \in [Worker -> Labels] /\ req \in [Worker -> Request \cup {NULL}]
      /\ LockOrder /\ ReaderHoldsOneMutex
  BY DEF MutexInv, TypeOK, WorkerTypeOK
<1> QED
  BY <1>2, <1>3, <1>4, <1>5 DEF LockOrder, ReaderHoldsOneMutex, Unlocked, BucketOf

LEMMA InductiveMutexInv ==
  ASSUME NoVisits, MutexInv, [Next]_vars PROVE MutexInv'
<1>1. TypeOK' /\ HasRequest'
  BY NextType, NextHasRequest DEF MutexInv
<1>2. CASE UNCHANGED vars \/ Terminated
  BY <1>1, <1>2 DEF Terminated, vars, MutexInv, LockOrder, ReaderHoldsOneMutex, BucketOf
<1>3. ASSUME NEW w \in Worker, Begin(w) PROVE MutexInv'
  BY <1>1, <1>3, BeginLockOrder DEF MutexInv
<1>4. ASSUME NEW w \in Worker, Step(w) PROVE MutexInv'
  BY <1>1, <1>4, StepMutexMoves, StepLockOrder DEF MutexInv
<1> QED
  BY <1>2, <1>3, <1>4 DEF Next

LEMMA InitMutexInv == Init => MutexInv
<1>1. Init => LockOrder /\ ReaderHoldsOneMutex
  BY DEF Init, LockOrder, ReaderHoldsOneMutex
<1> QED
  BY <1>1, InitType DEF MutexInv

\* Who holds a mutex of a bucket waits for nobody, and who waits for such a holder holds at most
\* the mutex of the counters.
LEMMA OrderedLocks == MutexInv => NoCircularWait
<1> SUFFICES ASSUME MutexInv, NEW S \in SUBSET Worker, S # {}
             PROVE  \E w \in S : WaitsFor(w) \cap S = {}
  BY DEF NoCircularWait
<1> USE DEF MutexInv
<1>1. ASSUME NEW w \in Worker, pc[w] = "read_send" PROVE WaitsFor(w) = {}
  BY <1>1 DEF WaitsFor, BucketsTaken, TakesFile, TakesCounters
<1>2. ASSUME NEW w \in Worker, NEW b \in BucketsTaken(w), guard[b] \in Worker
      PROVE  pc[guard[b]] = "read_send"
  <2>1. b \in Bucket
    <3>1. pc[w] \notin {"visit", "visit_lock", "visit_next", "visit_bucket", "visit_send"}
      BY DEF ReaderHoldsOneMutex
    <3>2. CASE pc[w] \in TakesFile
      <4>1. b = BucketOf(w) /\ req[w] \in Request
        BY <1>2, <3>2 DEF BucketsTaken, HasRequest, TakesFile
      <4> QED
        BY <4>1, HTableAssumption DEF BucketOf, Request
    <3>3. CASE pc[w] = "evict" /\ OverLimit /\ Policy = "segmented-fifo"
      BY <1>2, <3>3 DEF BucketsTaken, TakesFile
    <3>4. CASE pc[w] = "evict" /\ OverLimit /\ Policy = "fifo"
      <4>1. PICK n \in {fifo.last} \ {NULL} : fifo.node[n] # NULL /\ b = Hash[fifo.node[n].key]
        BY <1>2, <3>4 DEF BucketsTaken, TakesFile
      <4>2. fifo.node[n].key \in Key
        <5>1. fifo.last \in NodePointer /\ fifo.node \in [NodeAddr -> [key: Key, prev: NodePointer] \cup {NULL}]
          BY DEF TypeOK, CountersTypeOK
        <5>2. n \in NodeAddr
          BY <4>1, <5>1 DEF NodePointer
        <5>3. fifo.node[n] \in [key: Key, prev: NodePointer]
          BY <4>1, <5>1, <5>2
        <5> QED
          BY <5>3
      <4> QED
        BY <4>1, <4>2, HTableAssumption
    <3> QED
      BY <1>2, <3>1, <3>2, <3>3, <3>4 DEF BucketsTaken
  <2> QED
    BY <1>2, <2>1 DEF LockOrder, ReaderHoldsOneMutex
<1>3. CASE \E w \in S : pc[w] = "read_send"
  BY <1>1, <1>3
<1>4. CASE \A w \in S : pc[w] # "read_send"
  <2>1. ASSUME NEW w \in S, NEW b \in BucketsTaken(w) PROVE guard[b] \notin S
    BY <1>2, <1>4, <2>1
  <2>2. CASE \E w \in S : pc[w] = "evict"
    <3>1. PICK w \in S : pc[w] = "evict"
      BY <2>2
    <3>2. WaitsFor(w) \cap S = {}
      BY <2>1, <3>1 DEF WaitsFor, TakesCounters
    <3> QED
      BY <3>2
  <2>3. CASE \A w \in S : pc[w] # "evict"
    <3>1. stats_guard \notin S
      BY <2>3 DEF LockOrder
    <3>2. \A w \in S : WaitsFor(w) \cap S = {}
      BY <2>1, <3>1 DEF WaitsFor
    <3> QED
      BY <3>2
  <2> QED
    BY <2>2, <2>3
<1> QED
  BY <1>3, <1>4

\* Where no worker visits the files, the workers never wait for each other in a circle, over
\* the mutexes of the buckets and of the counters: the owner of a bucket's mutex is sending
\* a file (worker.c:73-87), and the counters are locked by the eviction loop alone
\* (htable.c:673-704).
THEOREM NobodyWaitsInACircle == ASSUME NoVisits PROVE Spec => []NoCircularWait
<1>1. Init => MutexInv
  BY InitMutexInv
<1>2. MutexInv /\ [Next]_vars => MutexInv'
  BY InductiveMutexInv
<1> QED
  BY <1>1, <1>2, OrderedLocks, PTL DEF Spec

\* Where no worker visits the files, no call ends with a bucket's mutex in its hands: every
\* path of htable.c and of worker_handle_read_file reaches htable_release_file.
THEOREM MutexesGivenBack == ASSUME NoVisits PROVE Spec => []GuardsReleased
<1>1. Init => MutexInv
  BY InitMutexInv
<1>2. MutexInv /\ [Next]_vars => MutexInv'
  BY InductiveMutexInv
<1>3. MutexInv => GuardsReleased
  BY DEF MutexInv, LockOrder, GuardsReleased
<1> QED
  BY <1>1, <1>2, <1>3, PTL DEF Spec

-----------------------------------------------------------------------------
(* The visitor: VisitInv is inductive, whatever the workers are asked to do. *)

\* The labels at which VisitInv says something of a worker's mutex or of its visits.
Visiting == {"visit_next", "visit_bucket", "visit_send"}
Keeping == Visiting \cup {"read_send"}
NotVisiting == [bucket_i |-> 0, visits |-> 0]

\* A step that neither visits a file nor sends one.
Aside(w) ==
  /\ pc[w] \notin Keeping /\ guard' = guard
  /\ \E label \in Labels \ Keeping : pc' = [pc EXCEPT ![w] = label]
  /\ req' = req \/ req' = [req EXCEPT ![w] = NULL]
  /\ visit' = visit \/ visit' = [visit EXCEPT ![w] = NotVisiting]

Sends(w) ==
  /\ pc[w] = "read" /\ Free(BucketOf(w))
  /\ guard' = [guard EXCEPT ![BucketOf(w)] = w]
  /\ pc' = [pc EXCEPT ![w] = "read_send"] /\ UNCHANGED <<req, visit>>

LEMMA StepAside ==
  ASSUME NEW w \in Worker, Step(w)
  PROVE  \/ Aside(w) \/ Sends(w) \/ UNCHANGED <<pc, req, guard, visit>>
         \/ ReadRelease(w) \/ VisitLock(w) \/ VisitNext(w) \/ VisitBucket(w) \/ VisitSend(w)
<1> DEFINE Stays == UNCHANGED <<pc, req, guard, visit>>
<1>1. ASSUME NEW label \in Labels \ Keeping, Goto(w, label), pc[w] \notin Keeping,
             UNCHANGED <<guard, visit>>
      PROVE  Aside(w)
  BY <1>1 DEF Goto, Aside
<1>2. ASSUME NEW err, Return(w, err), pc[w] \notin Keeping, guard' = guard PROVE Aside(w)
  BY <1>2 DEF Return, Aside, NotVisiting, Keeping, Visiting, Labels
<1>3. ASSUME NEW how, Crash(how) PROVE Stays
  BY <1>3 DEF Crash, locals
<1>4. ASSUME NotFound(w), pc[w] \notin Keeping PROVE Aside(w) \/ Stays
  BY <1>2, <1>3, <1>4 DEF NotFound
<1> HIDE DEF Stays
<1>5. /\ {"open_stats", "close_stats", "create_item", "create_link", "create_stats",
          "remove_stats", "write_stats", "evict_lock", "evict", "visit_lock"}
            \subseteq Labels \ Keeping
      /\ {"lock", "unlock", "open", "open_stats", "close", "close_stats", "create",
          "create_item", "create_link", "create_stats", "remove", "remove_stats", "write",
          "write_stats", "evict_lock", "evict", "read", "visit"} \cap Keeping = {}
  BY DEF Keeping, Visiting, Labels
<1>6. CASE LockFile(w) \/ UnlockFile(w)
  <2>1. pc[w] \notin Keeping
    BY <1>5, <1>6 DEF LockFile, UnlockFile, At
  <2>2. Aside(w) \/ Stays
    BY <1>2, <1>3, <1>4, <1>6, <2>1 DEF LockFile, UnlockFile
  <2> QED
    BY <2>2 DEF Stays
<1>7. CASE OpenFile(w) \/ CloseFile(w)
  <2>1. pc[w] \notin Keeping
    BY <1>5, <1>7 DEF OpenFile, CloseFile, At
  <2>2. Aside(w) \/ Stays
    BY <1>1, <1>2, <1>4, <1>5, <1>7, <2>1 DEF OpenFile, CloseFile, locals
  <2> QED
    BY <2>2 DEF Stays
<1>8. CASE OpenCloseStats(w) \/ CreateStats(w) \/ RemoveStats(w) \/ EvictDone(w)
  BY <1>2, <1>5, <1>8 DEF OpenCloseStats, CreateStats, RemoveStats, EvictDone, At
<1>9. CASE CreateFetch(w) \/ CreateItem(w) \/ CreateLink(w)
  <2>1. pc[w] \notin Keeping
    BY <1>5, <1>9 DEF CreateFetch, CreateItem, CreateLink, At
  <2>2. Aside(w) \/ Stays
    BY <1>1, <1>2, <1>3, <1>5, <1>9, <2>1 DEF CreateFetch, CreateItem, CreateLink, locals
  <2> QED
    BY <2>2 DEF Stays
<1>10. CASE RemoveFile(w) \/ WriteContents(w)
  <2>1. pc[w] \notin Keeping
    BY <1>5, <1>10 DEF RemoveFile, WriteContents, At
  <2>2. Aside(w) \/ Stays
    BY <1>1, <1>2, <1>3, <1>4, <1>5, <1>10, <2>1 DEF RemoveFile, WriteContents
  <2> QED
    BY <2>2 DEF Stays
<1>11. CASE WriteStats(w) \/ EvictLock(w) \/ VisitHead(w)
  BY <1>1, <1>5, <1>11 DEF WriteStats, EvictLock, VisitHead, At, locals
<1>12. CASE \E b \in Bucket : EvictSegmented(w, b)
  BY <1>3, <1>12 DEF EvictSegmented, vars, Stays, locals
<1>13. CASE EvictFifo(w)
  BY <1>3, <1>13 DEF EvictFifo, Stays, locals
<1>14. CASE ReadFetch(w)
  <2>1. pc[w] \notin Keeping
    BY <1>5, <1>14 DEF ReadFetch, At
  <2>2. NotFound(w) \/ Sends(w)
    BY <1>14 DEF ReadFetch, Sends, Goto, At, locals
  <2> QED
    BY <1>4, <2>1, <2>2 DEF Stays
<1> QED
  BY <1>6, <1>7, <1>8, <1>9, <1>10, <1>11, <1>12, <1>13, <1>14 DEF Step

VisitIInv == TypeOK /\ HasRequest /\ VisitInv

\* What VisitInv says of one worker, and that nobody else can disturb it.
LEMMA VisitInvElsewhere ==
  ASSUME VisitIInv, NEW w \in Worker, NEW u \in Worker, u # w,
         pc'[u] = pc[u], req'[u] = req[u], visit'[u] = visit[u],
         \A b \in Bucket : guard[b] = u => guard'[b] = u
  PROVE  /\ pc'[u] \in {"visit_next", "visit_send"} => guard'[visit'[u].bucket_i] = u
         /\ pc'[u] = "read_send" => guard'[BucketOf(u)'] = u
         /\ pc'[u] \notin {"visit_next", "visit_bucket", "visit_send"}
              => visit'[u] = [bucket_i |-> 0, visits |-> 0]
         /\ pc'[u] \in {"visit_next", "visit_send"} /\ req'[u].arg # 0
              => visit'[u].visits <= req'[u].arg
         /\ pc'[u] = "visit_bucket" /\ req'[u].arg # 0 => visit'[u].visits < req'[u].arg
<1>1. visit[u].bucket_i \in Bucket
  BY DEF VisitIInv, TypeOK, WorkerTypeOK
<1>2. pc[u] = "read_send" => BucketOf(u) \in Bucket
  BY RequestType DEF VisitIInv, TypeOK
<1> QED
  BY <1>1, <1>2 DEF VisitIInv, VisitInv, BucketOf

LEMMA StepVisitInv ==
  ASSUME VisitIInv, NEW w \in Worker, Step(w)
  PROVE  VisitInv'
<1>0. /\ pc \in [Worker -> Labels] /\ req \in [Worker -> Request \cup {NULL}]
      /\ guard \in [Bucket -> Worker \cup {NULL}]
      /\ visit \in [Worker -> [bucket_i: Bucket, visits: Nat]]
      /\ visit[w].bucket_i \in Bucket /\ visit[w].visits \in Nat /\ w # NULL
  BY DEF VisitIInv, TypeOK, MutexTypeOK, WorkerTypeOK
<1>1. pc[w] # "idle" => BucketOf(w) \in Bucket /\ req[w].arg \in Nat
  BY RequestType DEF VisitIInv, TypeOK
<1>2. /\ pc[w] \in {"visit_next", "visit_send"} => guard[visit[w].bucket_i] = w
      /\ pc[w] = "read_send" => guard[BucketOf(w)] = w
      /\ pc[w] \notin Visiting => visit[w] = NotVisiting
      /\ pc[w] \in {"visit_next", "visit_send"} /\ req[w].arg # 0
           => visit[w].visits <= req[w].arg
      /\ pc[w] = "visit_bucket" /\ req[w].arg # 0 => visit[w].visits < req[w].arg
  BY DEF VisitIInv, VisitInv, Visiting, NotVisiting
<1> DEFINE Good ==
      /\ pc'[w] \in {"visit_next", "visit_send"} => guard'[visit'[w].bucket_i] = w
      /\ pc'[w] = "read_send" => guard'[BucketOf(w)'] = w
      /\ pc'[w] \notin {"visit_next", "visit_bucket", "visit_send"}
           => visit'[w] = [bucket_i |-> 0, visits |-> 0]
      /\ pc'[w] \in {"visit_next", "visit_send"} /\ req'[w].arg # 0
           => visit'[w].visits <= req'[w].arg
      /\ pc'[w] = "visit_bucket" /\ req'[w].arg # 0 => visit'[w].visits < req'[w].arg
<1>3. ASSUME Good,
             \A u \in Worker \ {w} : pc'[u] = pc[u] /\ req'[u] = req[u] /\ visit'[u] = visit[u],
             \A u \in Worker \ {w} : \A b \in Bucket : guard[b] = u => guard'[b] = u
      PROVE  VisitInv'
  <2> SUFFICES ASSUME NEW u \in Worker
               PROVE  /\ pc'[u] \in {"visit_next", "visit_send"} => guard'[visit'[u].bucket_i] = u
                      /\ pc'[u] = "read_send" => guard'[BucketOf(u)'] = u
                      /\ pc'[u] \notin {"visit_next", "visit_bucket", "visit_send"}
                           => visit'[u] = [bucket_i |-> 0, visits |-> 0]
                      /\ pc'[u] \in {"visit_next", "visit_send"} /\ req'[u].arg # 0
                           => visit'[u].visits <= req'[u].arg
                      /\ pc'[u] = "visit_bucket" /\ req'[u].arg # 0
                           => visit'[u].visits < req'[u].arg
    BY DEF VisitInv
  <2>1. CASE u = w
    BY <1>3, <2>1
  <2>2. CASE u # w
    BY <1>3, <2>2, VisitInvElsewhere
  <2> QED
    BY <2>1, <2>2
<1>4. CASE Aside(w)
  <2>1. Good
    BY <1>0, <1>2, <1>4 DEF Aside, Keeping, Visiting, NotVisiting
  <2> QED
    BY <1>0, <1>3, <1>4, <2>1 DEF Aside
<1>5. CASE Sends(w)
  <2>1. Good
    BY <1>0, <1>1, <1>2, <1>5 DEF Sends, BucketOf, Visiting, NotVisiting
  <2> QED
    BY <1>0, <1>1, <1>3, <1>5, <2>1 DEF Sends, Free
<1>6. CASE UNCHANGED <<pc, req, guard, visit>>
  <2>1. Good
    BY <1>2, <1>6 DEF BucketOf, Visiting, NotVisiting
  <2> QED
    BY <1>0, <1>3, <1>6, <2>1
<1>7. CASE ReadRelease(w)
  <2>1. Good
    BY <1>0, <1>7 DEF ReadRelease, Return
  <2> QED
    BY <1>0, <1>1, <1>2, <1>3, <1>7, <2>1 DEF ReadRelease, Return, At
<1>8. CASE VisitLock(w)
  <2>1. 0 \in Bucket
    BY DEF Bucket
  <2>2. Good
    BY <1>0, <1>1, <1>2, <1>8, <2>1 DEF VisitLock, Goto, At, locals, Visiting, NotVisiting
  <2> QED
    BY <1>0, <1>3, <1>8, <2>1, <2>2 DEF VisitLock, Goto, Free, locals
<1>9. CASE VisitSend(w)
  <2>1. Good
    BY <1>0, <1>2, <1>9 DEF VisitSend, Goto, Return, At, locals
  <2> QED
    BY <1>0, <1>3, <1>9, <2>1 DEF VisitSend, Goto, Return, locals
<1>10. CASE VisitBucket(w)
  <2>1. CASE Crash("use_after_free")
    BY <1>6, <2>1 DEF Crash, locals
  <2>2. CASE ~Crash("use_after_free")
    <3>1. Good
      BY <1>0, <1>1, <1>2, <1>10, <2>2 DEF VisitBucket, Goto, At
    <3> QED
      BY <1>0, <1>3, <1>10, <2>2, <3>1 DEF VisitBucket, Goto, Free
  <2> QED
    BY <2>1, <2>2
<1>11. CASE VisitNext(w)
  <2>1. CASE Crash("use_after_free")
    BY <1>6, <2>1 DEF Crash, locals
  <2>2. CASE Return(w, "OK") /\ (guard' = guard \/ guard' = [guard EXCEPT ![visit[w].bucket_i] = NULL])
    <3>1. Good
      BY <1>0, <2>2 DEF Return
    <3> QED
      BY <1>0, <1>2, <1>3, <1>11, <2>2, <3>1 DEF VisitNext, At, Return
  <2>3. CASE /\ ~VisitComplete(w)
             /\ visit' = [visit EXCEPT ![w].visits = @ + 1]
             /\ Goto(w, "visit_send") /\ guard' = guard
    <3>1. Good
      BY <1>0, <1>1, <1>2, <1>11, <2>3 DEF VisitNext, VisitComplete, Goto, At
    <3> QED
      BY <1>0, <1>3, <2>3, <3>1 DEF Goto
  <2>4. CASE /\ ~VisitComplete(w)
             /\ guard' = [guard EXCEPT ![visit[w].bucket_i] = NULL]
             /\ visit' = [visit EXCEPT ![w].bucket_i = @ + 1]
             /\ Goto(w, "visit_bucket")
    <3>1. Good
      BY <1>0, <1>1, <1>2, <1>11, <2>4 DEF VisitNext, VisitComplete, Goto, At
    <3> QED
      BY <1>0, <1>2, <1>3, <1>11, <2>4, <3>1 DEF VisitNext, Goto, At
  <2> QED
    BY <1>11, <2>1, <2>2, <2>3, <2>4 DEF VisitNext
<1> QED
  BY <1>4, <1>5, <1>6, <1>7, <1>8, <1>9, <1>10, <1>11, StepAside

LEMMA BeginVisitInv ==
  ASSUME VisitIInv, NEW w \in Worker, Begin(w)
  PROVE  VisitInv'
<1>1. PICK op \in Api[w], k \in Key, fd \in Fd : \E arg \in Args(op) :
        /\ req' = [req EXCEPT ![w] = [op |-> op, key |-> k, fd |-> fd, arg |-> arg]]
        /\ pc' = [pc EXCEPT ![w] = EntryPoint(op)]
  BY DEF Begin
<1>2. EntryPoint(op) \notin Keeping
  BY DEF EntryPoint, ApiOp, Keeping, Visiting
<1>3. PICK r : req' = [req EXCEPT ![w] = r]
  BY <1>1
<1>4. /\ pc[w] = "idle" /\ pc' = [pc EXCEPT ![w] = EntryPoint(op)]
      /\ UNCHANGED <<guard, visit>>
  BY <1>1 DEF Begin, At, locals
<1>5. pc \in [Worker -> Labels] /\ req \in [Worker -> Request \cup {NULL}] /\ VisitInv
  BY DEF VisitIInv, TypeOK, WorkerTypeOK
<1> QED
  BY <1>2, <1>3, <1>4, <1>5 DEF VisitInv, Keeping, Visiting, BucketOf

LEMMA InductiveVisitInv == ASSUME VisitIInv, [Next]_vars PROVE VisitIInv'
<1>1. TypeOK' /\ HasRequest'
  BY NextType, NextHasRequest DEF VisitIInv
<1>2. CASE UNCHANGED vars \/ Terminated
  BY <1>1, <1>2 DEF Terminated, vars, VisitIInv, VisitInv, BucketOf
<1> QED
  BY <1>1, <1>2, BeginVisitInv, StepVisitInv DEF Next, VisitIInv

LEMMA VisitInvariant == Spec => []VisitIInv
<1>1. Init => VisitIInv
  BY InitType DEF Init, VisitIInv, VisitInv
<1> QED
  BY <1>1, InductiveVisitInv, PTL DEF Spec

\* However many threads visit, write and evict at the same time, a visitor that reads a
\* list or sends a file holds the mutex of the bucket it stands in (htable.c:474-524).
THEOREM VisitorsAreGuarded == Spec => []VisitorHoldsItsMutex
<1>1. VisitIInv => VisitorHoldsItsMutex
  BY DEF VisitIInv, VisitInv, VisitorHoldsItsMutex
<1> QED
  BY <1>1, VisitInvariant, PTL

\* No visitor is handed more files than the client asked for (htable.h:130-132).
THEOREM VisitorsStopInTime == Spec => []VisitsBounded
<1>1. VisitIInv => VisitsBounded
  <2> SUFFICES ASSUME VisitIInv, NEW w \in Worker, req[w] # NULL, req[w].arg # 0
               PROVE  visit[w].visits <= req[w].arg
    BY DEF VisitsBounded
  <2>1. req[w] \in Request /\ visit[w].visits \in Nat
    BY DEF VisitIInv, TypeOK, WorkerTypeOK
  <2>2. req[w].arg \in Nat
    BY <2>1 DEF Request
  <2> QED
    BY <2>1, <2>2 DEF VisitIInv, VisitInv
<1> QED
  BY <1>1, VisitInvariant, PTL

-----------------------------------------------------------------------------
(* What a lookup returns. *)

\* The item that a lookup returns carries the key, and a lookup that does not return an item
\* ends in NULL or in WILD.
LEMMA FetchKey ==
  ASSUME TableTypeOK, NEW k \in Key
  PROVE  /\ Fetch(k) \in Live => heap[Fetch(k)].key = k
         /\ Fetch(k) \in Live \cup {NULL, WILD}
<1> DEFINE after == [p \in Pointer |-> IF p \in Live /\ heap[p].key # k THEN heap[p].next ELSE p]
           walk[n \in 0 .. Cardinality(Addr)] ==
             IF n = 0 THEN head[Hash[k]] ELSE after[walk[n - 1]]
           end == walk[Cardinality(Addr)]
<1>1. WILD \notin Live
  BY DEF Live
<1>2. Fetch(k) = IF end = NULL \/ (end \in Live /\ heap[end].key = k) THEN end ELSE WILD
  BY DEF Fetch
<1> HIDE DEF after, walk, end
<1>3. CASE end = NULL \/ (end \in Live /\ heap[end].key = k)
  <2>1. Fetch(k) = end
    BY <1>2, <1>3
  <2> QED
    BY <1>3, <2>1 DEF Live
<1>4. CASE ~(end = NULL \/ (end \in Live /\ heap[end].key = k))
  <2>1. Fetch(k) = WILD
    BY <1>2, <1>4
  <2> QED
    BY <1>1, <2>1
<1> QED
  BY <1>3, <1>4

-----------------------------------------------------------------------------
(* What the steps do to the files, their links aside. *)

SameFile(r, s) ==
  /\ r.key = s.key /\ r.length_in_bytes = s.length_in_bytes /\ r.contents = s.contents
  /\ r.fd_owner = s.fd_owner /\ r.is_open = s.is_open /\ r.is_locked = s.is_locked
  /\ r.subs = s.subs

\* At most the links of what is at address a change.
Relinked(a) ==
  IF heap[a] = NULL THEN heap'[a] = NULL ELSE heap'[a] # NULL /\ SameFile(heap[a], heap'[a])

\* The lists after an item was taken out.
LEMMA UnlinkRule ==
  ASSUME TypeOK, NEW p \in Live, NEW b \in Bucket, SafeToUnlink(p), Unlink(p, b)
  PROVE  /\ heap'[p] = NULL
         /\ \A a \in Addr \ {p} : Relinked(a)
         /\ \A a \in Live \ {p} :
              /\ heap'[a].next = IF a = heap[p].prev THEN heap[p].next ELSE heap[a].next
              /\ heap'[a].prev = IF a = heap[p].next THEN heap[p].prev ELSE heap[a].prev
<1> DEFINE before == heap[p].prev
           after == heap[p].next
           bypass == IF before # NULL THEN [heap EXCEPT ![before].next = after] ELSE heap
           chained == IF after # NULL THEN [bypass EXCEPT ![after].prev = before] ELSE bypass
<1>1. heap' = [chained EXCEPT ![p] = NULL]
  BY DEF Unlink
<1>2. before \in Live \cup {NULL} /\ after \in Live \cup {NULL} /\ p \in Addr
  BY LiveItem DEF SafeToUnlink, TypeOK
<1>3. heap \in [Addr -> Item \cup {NULL}] /\ NULL \notin Addr
  BY DEF TypeOK, TableTypeOK
<1>4. /\ DOMAIN bypass = Addr
      /\ \A a \in Addr : bypass[a] = IF a = before THEN [heap[a] EXCEPT !.next = after] ELSE heap[a]
  BY <1>2, <1>3 DEF Live
<1> HIDE DEF bypass
<1>5. /\ DOMAIN chained = Addr
      /\ \A a \in Addr :
           chained[a] = IF a = after THEN [bypass[a] EXCEPT !.prev = before] ELSE bypass[a]
  <2>1. CASE after = NULL
    BY <1>3, <1>4, <2>1
  <2>2. CASE after # NULL
    BY <1>2, <1>4, <2>2 DEF Live
  <2> QED
    BY <2>1, <2>2
<1> HIDE DEF chained
<1>6. heap'[p] = NULL /\ \A a \in Addr \ {p} : heap'[a] = chained[a]
  BY <1>1, <1>2, <1>5
<1>7. \A a \in Addr \ {p} : heap[a] = NULL => heap'[a] = NULL
  BY <1>2, <1>4, <1>5, <1>6 DEF Live
<1>8. ASSUME NEW a \in Live \ {p}
      PROVE  /\ heap'[a] # NULL /\ SameFile(heap[a], heap'[a])
             /\ heap'[a].next = IF a = before THEN after ELSE heap[a].next
             /\ heap'[a].prev = IF a = after THEN before ELSE heap[a].prev
  <2>1. a \in Addr /\ heap[a] \in Item
    BY LiveItem DEF TypeOK
  <2>2. before \in Pointer /\ after \in Pointer
    BY <1>2 DEF Live, Pointer
  <2>3. /\ bypass[a] \in Item /\ SameFile(heap[a], bypass[a])
        /\ bypass[a].next = (IF a = before THEN after ELSE heap[a].next)
        /\ bypass[a].prev = heap[a].prev
    BY <1>4, <2>1, <2>2 DEF Item, SameFile
  <2>4. /\ chained[a] \in Item /\ SameFile(bypass[a], chained[a])
        /\ chained[a].prev = (IF a = after THEN before ELSE bypass[a].prev)
        /\ chained[a].next = bypass[a].next
    BY <1>5, <2>1, <2>2, <2>3 DEF Item, SameFile
  <2>5. heap'[a] = chained[a]
    BY <1>6, <2>1
  <2> QED
    BY <2>3, <2>4, <2>5, NullIsNoItem DEF SameFile
<1> QED
  BY <1>6, <1>7, <1>8 DEF Relinked, Live

\* The lists after the last item of a bucket was evicted.
LEMMA CutRule ==
  ASSUME TypeOK, NEW p \in Live, NEW before, before = heap[p].prev, before \in Live \cup {NULL},
         heap' = [(IF before # NULL THEN [heap EXCEPT ![before].next = NULL] ELSE heap)
                   EXCEPT ![p] = NULL]
  PROVE  /\ heap'[p] = NULL
         /\ \A a \in Addr \ {p} : Relinked(a)
         /\ \A a \in Live \ {p} :
              /\ heap'[a].next = IF a = before THEN NULL ELSE heap[a].next
              /\ heap'[a].prev = heap[a].prev
<1> DEFINE cut == IF before # NULL THEN [heap EXCEPT ![before].next = NULL] ELSE heap
<1>1. heap \in [Addr -> Item \cup {NULL}] /\ NULL \notin Addr /\ p \in Addr
  BY DEF TypeOK, TableTypeOK, Live
<1>2. /\ DOMAIN cut = Addr
      /\ \A a \in Addr : cut[a] = IF a = before THEN [heap[a] EXCEPT !.next = NULL] ELSE heap[a]
  BY <1>1 DEF Live
<1>3. heap' = [cut EXCEPT ![p] = NULL]
  OBVIOUS
<1> HIDE DEF cut
<1>4. heap'[p] = NULL /\ \A a \in Addr \ {p} : heap'[a] = cut[a]
  BY <1>1, <1>2, <1>3
<1>5. \A a \in Addr \ {p} : heap[a] = NULL => heap'[a] = NULL
  BY <1>1, <1>2, <1>4 DEF Live
<1>6. ASSUME NEW a \in Live \ {p}
      PROVE  /\ heap'[a] # NULL /\ SameFile(heap[a], heap'[a])
             /\ heap'[a].next = IF a = before THEN NULL ELSE heap[a].next
             /\ heap'[a].prev = heap[a].prev
  <2>1. a \in Addr /\ heap[a] \in Item
    BY LiveItem DEF TypeOK
  <2>2. /\ cut[a] \in Item /\ SameFile(heap[a], cut[a])
        /\ cut[a].next = (IF a = before THEN NULL ELSE heap[a].next)
        /\ cut[a].prev = heap[a].prev
    BY <1>2, <2>1 DEF Item, SameFile, Pointer
  <2> QED
    BY <1>4, <2>1, <2>2, NullIsNoItem
<1> QED
  BY <1>4, <1>5, <1>6 DEF Relinked, Live

Freed(p) == heap'[p] = NULL /\ \A a \in Addr \ {p} : Relinked(a)

\* The item at p is replaced by r.
Rewritten(p, r) == heap' = [heap EXCEPT ![p] = r]

LEMMA HeapUnchanged == ASSUME heap' = heap PROVE \A a \in Addr : Relinked(a)
  BY DEF Relinked, SameFile

\* The requests that rewrite the item of their key.
LEMMA RewriteSteps ==
  ASSUME TypeOK, HasRequest, NEW w \in Worker,
         \/ LockFile(w) \/ UnlockFile(w) \/ OpenFile(w) \/ CloseFile(w) \/ WriteContents(w)
  PROVE  \/ heap' = heap /\ delta'[w] = 0 /\ pc'[w] = "idle"
         \/ heap' = heap /\ delta' = delta /\ fault' # "none"
         \/ LET p == Fetch(req[w].key)  old == heap[p]  r == req[w] IN
            /\ p \in Live /\ fault' = fault
            /\ \/ /\ pc[w] = "lock" /\ old.is_locked /\ delta'[w] = 0
                  /\ Rewritten(p, [old EXCEPT !.subs = <<r.fd>> \o @])
               \/ /\ pc[w] = "lock" /\ ~old.is_locked /\ old.subs = <<>> /\ delta'[w] = 0
                  /\ Rewritten(p, [old EXCEPT !.is_locked = TRUE, !.fd_owner = r.fd])
               \/ /\ pc[w] = "unlock" /\ old.is_locked /\ old.fd_owner = r.fd /\ delta'[w] = 0
                  /\ IF old.subs = <<>> THEN Rewritten(p, [old EXCEPT !.is_locked = FALSE])
                     ELSE Rewritten(p, [old EXCEPT !.fd_owner = Head(old.subs), !.subs = Tail(@)])
               \/ /\ pc[w] = "open" /\ ~(old.is_locked /\ old.fd_owner # r.fd) /\ delta' = delta
                  /\ Rewritten(p, [old EXCEPT !.is_open = TRUE, !.fd_owner = r.fd,
                                              !.is_locked = WithLock(r.op)])
               \/ pc[w] = "close" /\ delta' = delta /\ Rewritten(p, [old EXCEPT !.is_open = FALSE])
               \/ /\ pc[w] = "write"
                  /\ delta' = [delta EXCEPT ![w] = NewLength(w, p) - old.length_in_bytes]
                  /\ Rewritten(p, [old EXCEPT !.length_in_bytes = NewLength(w, p),
                                              !.contents = TRUE])
<1> DEFINE p == Fetch(req[w].key)
           Returned == heap' = heap /\ delta'[w] = 0 /\ pc'[w] = "idle"
           Died == heap' = heap /\ delta' = delta /\ fault' # "none"
<1>0. heap \in [Addr -> Item \cup {NULL}] /\ delta \in [Worker -> Int] /\ pc \in [Worker -> Labels]
  BY DEF TypeOK, TableTypeOK, WorkerTypeOK
<1>1. ASSUME NEW err, Return(w, err) PROVE delta'[w] = 0 /\ pc'[w] = "idle" /\ fault' = fault
  BY <1>0, <1>1 DEF Return
<1>2. ASSUME NEW how \in Faults \ {"none"}, Crash(how) PROVE Died
  BY <1>2 DEF Crash, table, locals
<1>3. ASSUME NotFound(w) PROVE Returned \/ Died
  BY <1>1, <1>2, <1>3 DEF NotFound, table, Faults
<1>4. p \in Live => p \in Addr /\ heap[p] \in Item
  BY LiveItem DEF TypeOK
<1>5. "assert_no_subscribers" \in Faults \ {"none"} /\ "realloc_exit" \in Faults \ {"none"}
  BY DEF Faults
<1>6. ASSUME NEW label, Goto(w, label) PROVE fault' = fault
  BY <1>6 DEF Goto
<1> HIDE DEF Returned, Died
<1>7. CASE LockFile(w)
  <2>1. \/ Returned \/ Died
        \/ /\ p \in Live /\ heap[p].is_locked
           /\ heap' = [heap EXCEPT ![p].subs = <<req[w].fd>> \o @] /\ Return(w, "OK_WAIT")
        \/ /\ p \in Live /\ ~heap[p].is_locked /\ heap[p].subs = <<>>
           /\ heap' = [heap EXCEPT ![p].is_locked = TRUE, ![p].fd_owner = req[w].fd]
           /\ Return(w, "OK")
    BY <1>2, <1>3, <1>5, <1>7 DEF LockFile
  <2>2. pc[w] = "lock"
    BY <1>7 DEF LockFile, At
  <2> HIDE DEF p
  <2>3. p \in Live =>
          /\ [heap EXCEPT ![p].subs = <<req[w].fd>> \o @]
               = [heap EXCEPT ![p] = [heap[p] EXCEPT !.subs = <<req[w].fd>> \o @]]
          /\ [heap EXCEPT ![p].is_locked = TRUE, ![p].fd_owner = req[w].fd]
               = [heap EXCEPT ![p] = [heap[p] EXCEPT !.is_locked = TRUE, !.fd_owner = req[w].fd]]
    BY <1>0, <1>4 DEF Item
  <2> QED
    BY <1>1, <2>1, <2>2, <2>3 DEF Rewritten, Returned, Died, p
<1>8. CASE UnlockFile(w)
  <2>1. \/ Returned \/ Died
        \/ /\ p \in Live /\ heap[p].is_locked /\ heap[p].fd_owner = req[w].fd
           /\ heap' = AfterUnlock(p) /\ Return(w, "OK")
    BY <1>1, <1>2, <1>3, <1>8 DEF UnlockFile, Owns, table, Returned
  <2>2. pc[w] = "unlock"
    BY <1>8 DEF UnlockFile, At
  <2> HIDE DEF p
  <2>3. p \in Live =>
          AfterUnlock(p) =
            IF heap[p].subs = <<>> THEN [heap EXCEPT ![p] = [heap[p] EXCEPT !.is_locked = FALSE]]
            ELSE [heap EXCEPT ![p] =
                   [heap[p] EXCEPT !.fd_owner = Head(heap[p].subs), !.subs = Tail(@)]]
    BY <1>0, <1>4 DEF Item, AfterUnlock
  <2> QED
    BY <1>1, <2>1, <2>2, <2>3 DEF Rewritten, Returned, Died, p
<1>9. CASE OpenFile(w)
  <2>1. \/ Returned \/ Died
        \/ /\ p \in Live /\ ~HeldByOther(p, req[w].fd)
           /\ heap' = [heap EXCEPT ![p].is_open = TRUE, ![p].fd_owner = req[w].fd,
                                   ![p].is_locked = WithLock(req[w].op)]
           /\ Goto(w, "open_stats") /\ delta' = delta
    BY <1>1, <1>2, <1>3, <1>9 DEF OpenFile, table, locals, Returned
  <2>2. pc[w] = "open"
    BY <1>9 DEF OpenFile, At
  <2> HIDE DEF p
  <2>3. p \in Live =>
          [heap EXCEPT ![p].is_open = TRUE, ![p].fd_owner = req[w].fd,
                       ![p].is_locked = WithLock(req[w].op)]
            = [heap EXCEPT ![p] = [heap[p] EXCEPT !.is_open = TRUE, !.fd_owner = req[w].fd,
                                                  !.is_locked = WithLock(req[w].op)]]
    BY <1>0, <1>4 DEF Item
  <2> QED
    BY <1>6, <2>1, <2>2, <2>3 DEF Rewritten, Returned, Died, HeldByOther, p
<1>10. CASE CloseFile(w)
  <2>1. \/ Returned \/ Died
        \/ /\ p \in Live /\ heap' = [heap EXCEPT ![p].is_open = FALSE]
           /\ Goto(w, "close_stats") /\ delta' = delta
    BY <1>1, <1>2, <1>3, <1>10 DEF CloseFile, table, locals, Returned
  <2>2. pc[w] = "close"
    BY <1>10 DEF CloseFile, At
  <2> HIDE DEF p
  <2>3. p \in Live => [heap EXCEPT ![p].is_open = FALSE]
                        = [heap EXCEPT ![p] = [heap[p] EXCEPT !.is_open = FALSE]]
    BY <1>0, <1>4 DEF Item
  <2> QED
    BY <1>6, <2>1, <2>2, <2>3 DEF Rewritten, Returned, Died, p
<1>11. CASE WriteContents(w)
  <2>1. \/ Returned \/ Died
        \/ /\ p \in Live
           /\ heap' = [heap EXCEPT ![p].length_in_bytes = NewLength(w, p), ![p].contents = TRUE]
           /\ delta' = [delta EXCEPT ![w] = NewLength(w, p) - heap[p].length_in_bytes]
           /\ Goto(w, "write_stats")
    BY <1>2, <1>3, <1>5, <1>11 DEF WriteContents
  <2>2. pc[w] = "write"
    BY <1>11 DEF WriteContents, At
  <2> HIDE DEF p
  <2>3. p \in Live =>
          [heap EXCEPT ![p].length_in_bytes = NewLength(w, p), ![p].contents = TRUE]
            = [heap EXCEPT ![p] = [heap[p] EXCEPT !.length_in_bytes = NewLength(w, p),
                                                  !.contents = TRUE]]
    BY <1>0, <1>4 DEF Item
  <2> QED
    BY <1>6, <2>1, <2>2, <2>3 DEF Rewritten, Returned, Died, p
<1> QED
  BY <1>7, <1>8, <1>9, <1>10, <1>11

\* Every step of a worker keeps the files, rewrites one, adds one or frees one.
LEMMA StepFiles ==
  ASSUME TypeOK, HasRequest, NEW w \in Worker, Step(w)
  PROVE  \/ \A a \in Addr : Relinked(a)
         \/ LockFile(w) \/ UnlockFile(w) \/ OpenFile(w) \/ CloseFile(w) \/ WriteContents(w)
         \/ CreateItem(w)
         \/ \E p \in Live : Freed(p)
<1> DEFINE Kept == \A a \in Addr : Relinked(a)
<1>0. ASSUME heap' = heap PROVE Kept
  BY <1>0, HeapUnchanged
<1>1. ASSUME NEW how, Crash(how) PROVE Kept
  BY <1>0, <1>1 DEF Crash, table
<1> HIDE DEF Kept
<1>2. CASE NotFound(w)
  BY <1>0, <1>1, <1>2 DEF NotFound, table, Kept
<1>3. CASE OpenCloseStats(w) \/ CreateStats(w) \/ RemoveStats(w) \/ WriteStats(w)
           \/ EvictLock(w) \/ EvictDone(w)
  BY <1>0, <1>3 DEF OpenCloseStats, CreateStats, RemoveStats, WriteStats, EvictLock, EvictDone,
                    table, Kept
<1>4. CASE CreateFetch(w)
  BY <1>0, <1>1, <1>4 DEF CreateFetch, table, Kept
<1>5. CASE CreateLink(w)
  <2> DEFINE b == BucketOf(w)
  <2>1. CASE head[b] \in Live /\ heap' = [heap EXCEPT ![head[b]].prev = ref[w]]
    <3>1. heap[head[b]] \in Item /\ head[b] \in Addr /\ ref[w] \in Pointer
          /\ heap \in [Addr -> Item \cup {NULL}]
      BY <2>1, LiveItem DEF TypeOK, TableTypeOK, WorkerTypeOK
    <3>2. /\ [heap[head[b]] EXCEPT !.prev = ref[w]] \in Item
          /\ SameFile(heap[head[b]], [heap[head[b]] EXCEPT !.prev = ref[w]])
      BY <3>1, LinkType DEF Item, SameFile
    <3>3. /\ heap'[head[b]] = [heap[head[b]] EXCEPT !.prev = ref[w]]
          /\ \A a \in Addr \ {head[b]} : heap'[a] = heap[a]
      BY <2>1, <3>1
    <3> QED
      BY <2>1, <3>2, <3>3, NullIsNoItem DEF Relinked, SameFile, Live
  <2> QED
    BY <1>0, <1>1, <1>5, <2>1 DEF CreateLink, Kept
<1>6. CASE RemoveFile(w)
  <2> DEFINE p == Fetch(req[w].key)
  <2>1. CASE p \in Live /\ SafeToUnlink(p) /\ Unlink(p, BucketOf(w))
    <3>1. BucketOf(w) \in Bucket
      BY <1>6, RequestType DEF RemoveFile, At, TypeOK
    <3> QED
      BY <2>1, <3>1, UnlinkRule DEF Freed
  <2> QED
    BY <1>0, <1>1, <1>2, <1>6, <2>1 DEF RemoveFile, table, Kept
<1>7. ASSUME NEW b \in Bucket, EvictSegmented(w, b) PROVE Kept \/ \E p \in Live : Freed(p)
  <2> DEFINE before == heap[last[b]].prev
  <2>1. CASE /\ last[b] \in Live /\ before \in Live \cup {NULL}
             /\ heap' = [(IF before # NULL THEN [heap EXCEPT ![before].next = NULL] ELSE heap)
                          EXCEPT ![last[b]] = NULL]
    BY <2>1, CutRule DEF Freed
  <2> QED
    BY <1>0, <1>1, <1>7, <2>1 DEF EvictSegmented, vars
<1>8. CASE EvictFifo(w)
  <2> DEFINE k == fifo.node[fifo.last].key
             p == Fetch(k)
  <2>1. CASE /\ fifo.last # NULL /\ fifo.node[fifo.last] # NULL
             /\ p \in Live /\ SafeToUnlink(p) /\ Unlink(p, Hash[k])
    <3>1. Hash[k] \in Bucket
      BY <2>1 DEF TypeOK, CountersTypeOK, NodePointer
    <3> QED
      BY <2>1, <3>1, UnlinkRule DEF Freed
  <2> QED
    BY <1>1, <1>8, <2>1 DEF EvictFifo, Kept
<1>9. CASE ReadFetch(w) \/ ReadRelease(w)
  BY <1>0, <1>2, <1>9 DEF ReadFetch, ReadRelease, table, Kept
<1>10. CASE VisitHead(w) \/ VisitLock(w) \/ VisitSend(w)
  BY <1>0, <1>10 DEF VisitHead, VisitLock, VisitSend, table, Kept
<1>11. CASE VisitNext(w) \/ VisitBucket(w)
  BY <1>0, <1>1, <1>11 DEF VisitNext, VisitBucket, table, Kept
<1> QED
  BY <1>3, <1>4, <1>5, <1>6, <1>7, <1>8, <1>9, <1>10, <1>11 DEF Step, Kept

-----------------------------------------------------------------------------
(* Locks on files. *)

LEMMA KeptLocks ==
  ASSUME NEW a \in Addr, Relinked(a), heap[a] # NULL
  PROVE  heap'[a].fd_owner = heap[a].fd_owner /\ heap'[a].is_locked = heap[a].is_locked
         /\ heap'[a].subs = heap[a].subs /\ heap'[a] # NULL
  BY DEF Relinked, SameFile

\* The lock on a file that stays in the table changes hands only in an unlock or in a second
\* open of its owner (htable.c:218-265), whatever the other threads do meanwhile.
THEOREM LocksAreRespected == Spec => LockStaysWithOwner
<1> DEFINE Respected ==
      \A a \in Addr :
       (/\ heap[a] # NULL /\ heap'[a] # NULL
        /\ heap[a].is_locked
        /\ (heap'[a].fd_owner # heap[a].fd_owner \/ ~heap'[a].is_locked))
       => \E w \in Worker : /\ pc[w] \in {"unlock", "open"}
                            /\ req[w].fd = heap[a].fd_owner /\ req[w].key = heap[a].key
<1>1. ASSUME TypeOK, HasRequest, [Next]_vars PROVE [Respected]_vars
  <2>1. ASSUME \A a \in Addr : heap[a] # NULL /\ heap'[a] # NULL => Relinked(a) PROVE Respected
    BY <2>1, KeptLocks
  <2>2. ASSUME heap' = heap PROVE Respected
    BY <2>1, <2>2, HeapUnchanged
  <2>3. ASSUME NEW w \in Worker, Step(w) PROVE Respected
    <3>1. CASE \A a \in Addr : Relinked(a)
      BY <2>1, <3>1
    <3>2. CASE \E p \in Live : Freed(p)
      BY <2>1, <3>2 DEF Freed
    <3>3. CASE CreateItem(w)
      <4>1. PICK c \in Addr \ Live : \A a \in Addr \ {c} : heap'[a] = heap[a]
        BY <1>1, <3>3 DEF CreateItem, TypeOK, TableTypeOK
      <4>2. \A a \in Addr : heap[a] # NULL => heap'[a] = heap[a]
        BY <4>1 DEF Live
      <4> QED
        BY <2>1, <4>2 DEF Relinked, SameFile
    <3>4. CASE LockFile(w) \/ UnlockFile(w) \/ OpenFile(w) \/ CloseFile(w) \/ WriteContents(w)
      <4> DEFINE p == Fetch(req[w].key)
                 old == heap[p]
      <4>1. pc[w] # "idle"
        BY <3>4 DEF LockFile, UnlockFile, OpenFile, CloseFile, WriteContents, At
      <4>2. req[w].key \in Key /\ req[w].fd \in Fd
        BY <1>1, <4>1, RequestType DEF TypeOK
      <4>3. p \in Live => old.key = req[w].key /\ p \in Addr /\ old \in Item
        BY <1>1, <4>2, FetchKey, LiveItem DEF TypeOK
      <4>4. CASE heap' = heap
        BY <2>2, <4>4
      <4>5. ASSUME p \in Live, NEW new, Rewritten(p, new),
                   \/ new.fd_owner = old.fd_owner /\ new.is_locked = old.is_locked
                   \/ ~old.is_locked
                   \/ pc[w] \in {"unlock", "open"} /\ old.fd_owner = req[w].fd
            PROVE  Respected
        <5>1. heap'[p] = new /\ \A a \in Addr \ {p} : heap'[a] = heap[a]
          BY <1>1, <4>3, <4>5 DEF Rewritten, TypeOK, TableTypeOK
        <5> QED
          BY <4>3, <4>5, <5>1
      <4>6. p \in Live => \A n, q :
              LET r1 == [old EXCEPT !.subs = q]
                  r2 == [old EXCEPT !.is_open = FALSE]
                  r3 == [old EXCEPT !.length_in_bytes = n, !.contents = TRUE]
              IN  /\ r1.fd_owner = old.fd_owner /\ r1.is_locked = old.is_locked
                  /\ r2.fd_owner = old.fd_owner /\ r2.is_locked = old.is_locked
                  /\ r3.fd_owner = old.fd_owner /\ r3.is_locked = old.is_locked
        BY <4>3 DEF Item
      <4> HIDE DEF Respected
      <4> QED
        BY <1>1, <3>4, <4>4, <4>5, <4>6, RewriteSteps
    <3> HIDE DEF Respected
    <3> QED
      BY <1>1, <2>3, <3>1, <3>2, <3>3, <3>4, StepFiles
  <2>4. ASSUME NEW w \in Worker, Begin(w) PROVE Respected
    BY <2>2, <2>4 DEF Begin, table
  <2> HIDE DEF Respected
  <2> QED
    BY <1>1, <2>3, <2>4 DEF Next, Terminated
<1>2. Spec => [](TypeOK /\ HasRequest)
  <2>1. TypeOK /\ HasRequest /\ [Next]_vars => (TypeOK /\ HasRequest)'
    BY NextType, NextHasRequest
  <2> QED
    BY <2>1, InitType, PTL DEF Spec
<1>3. TypeOK /\ HasRequest /\ [Next]_vars => [Respected]_vars
  BY <1>1
<1> HIDE DEF Respected
<1>4. Spec => [][Respected]_vars
  BY <1>2, <1>3, PTL DEF Spec
<1> QED
  BY <1>4 DEF LockStaysWithOwner, Respected

-----------------------------------------------------------------------------
(* The steps of a request. *)

EntryLabels == {"open", "create", "read", "visit", "write", "lock", "unlock", "close", "remove"}

\* A step of worker w goes on with its request, ends it, or moves nobody.
Progress(w) ==
  \/ /\ \E op \in ApiOp : pc[w] \in LabelsOf(op)
          /\ \E label \in LabelsOf(op) \ EntryLabels : pc' = [pc EXCEPT ![w] = label]
     /\ req' = req
  \/ pc' = [pc EXCEPT ![w] = "idle"] /\ req' = [req EXCEPT ![w] = NULL]
  \/ pc' = pc /\ req' = req

LEMMA StepProgress == ASSUME NEW w \in Worker, Step(w) PROVE Progress(w)
<1> DEFINE Family == {LabelsOf(op) : op \in ApiOp}
<1>0. Family = {{"open", "open_stats"}, {"create", "create_item", "create_link", "create_stats"},
                {"read", "read_send"}, {"lock"}, {"unlock"}, {"close", "close_stats"},
                {"visit", "visit_lock", "visit_next", "visit_bucket", "visit_send"},
                {"write", "write_stats", "evict_lock", "evict"}, {"remove", "remove_stats"}}
  BY DEF LabelsOf, ApiOp
<1>1. ASSUME NEW F \in Family, NEW label \in F \ EntryLabels, Goto(w, label), pc[w] \in F
      PROVE  Progress(w)
  BY <1>1 DEF Goto, Progress
<1>2. ASSUME NEW err, Return(w, err) PROVE Progress(w)
  BY <1>2 DEF Return, Progress
<1>3. ASSUME NEW how, Crash(how) PROVE Progress(w)
  BY <1>3 DEF Crash, Progress
<1>4. ASSUME NotFound(w) PROVE Progress(w)
  BY <1>2, <1>3, <1>4 DEF NotFound
<1> HIDE DEF Progress, Family
<1>a. ASSUME NEW F \in Family, pc[w] \in F, NEW label \in F \ EntryLabels, Goto(w, label)
      PROVE  Progress(w)
  BY <1>1, <1>a
<1>5. CASE LockFile(w) \/ UnlockFile(w)
  BY <1>2, <1>3, <1>4, <1>5 DEF LockFile, UnlockFile
<1>6. CASE OpenFile(w)
  <2>1. Goto(w, "open_stats") => Progress(w)
    BY <1>0, <1>6, <1>a DEF OpenFile, At, EntryLabels
  <2> QED
    BY <1>2, <1>4, <1>6, <2>1 DEF OpenFile
<1>b. CASE CloseFile(w)
  <2>1. Goto(w, "close_stats") => Progress(w)
    BY <1>0, <1>b, <1>a DEF CloseFile, At, EntryLabels
  <2> QED
    BY <1>2, <1>4, <1>b, <2>1 DEF CloseFile
<1>7. CASE OpenCloseStats(w) \/ CreateStats(w) \/ RemoveStats(w) \/ EvictDone(w) \/ ReadRelease(w)
  BY <1>2, <1>7 DEF OpenCloseStats, CreateStats, RemoveStats, EvictDone, ReadRelease
<1>8. CASE CreateFetch(w) \/ CreateItem(w) \/ CreateLink(w)
  <2>1. pc[w] \in {"create", "create_item", "create_link"}
    BY <1>8 DEF CreateFetch, CreateItem, CreateLink, At
  <2>2. \A label \in {"create_item", "create_link", "create_stats"} : Goto(w, label) => Progress(w)
    BY <1>0, <1>a, <2>1 DEF EntryLabels
  <2> QED
    BY <1>2, <1>3, <1>8, <2>2 DEF CreateFetch, CreateItem, CreateLink
<1>9. CASE RemoveFile(w)
  <2>1. Goto(w, "remove_stats") => Progress(w)
    BY <1>0, <1>9, <1>a DEF RemoveFile, At, EntryLabels
  <2> QED
    BY <1>2, <1>3, <1>4, <1>9, <2>1 DEF RemoveFile
<1>10. CASE WriteContents(w) \/ WriteStats(w) \/ EvictLock(w)
  <2>1. pc[w] \in {"write", "write_stats", "evict_lock"}
    BY <1>10 DEF WriteContents, WriteStats, EvictLock, At
  <2>2. \A label \in {"write_stats", "evict_lock", "evict"} : Goto(w, label) => Progress(w)
    BY <1>0, <1>a, <2>1 DEF EntryLabels
  <2> QED
    BY <1>3, <1>4, <1>10, <2>2 DEF WriteContents, WriteStats, EvictLock
<1>11. CASE \E b \in Bucket : EvictSegmented(w, b)
  BY <1>3, <1>11 DEF EvictSegmented, vars, Progress
<1>12. CASE EvictFifo(w)
  BY <1>3, <1>12 DEF EvictFifo, Progress
<1>13. CASE ReadFetch(w)
  <2>1. Goto(w, "read_send") => Progress(w)
    BY <1>0, <1>13, <1>a DEF ReadFetch, At, EntryLabels
  <2> QED
    BY <1>4, <1>13, <2>1 DEF ReadFetch
<1>14. ASSUME pc[w] \in {"visit", "visit_lock", "visit_next", "visit_bucket", "visit_send"}
       PROVE  \A label \in {"visit_lock", "visit_next", "visit_bucket", "visit_send"} :
                Goto(w, label) => Progress(w)
  BY <1>0, <1>a, <1>14 DEF EntryLabels
<1>15. CASE VisitHead(w) \/ VisitLock(w) \/ VisitSend(w)
  BY <1>2, <1>14, <1>15 DEF VisitHead, VisitLock, VisitSend, At
<1>16. CASE VisitNext(w)
  BY <1>2, <1>3, <1>14, <1>16 DEF VisitNext, At
<1>17. CASE VisitBucket(w)
  BY <1>3, <1>14, <1>17 DEF VisitBucket, At
<1> QED
  BY <1>5, <1>6, <1>b, <1>7, <1>8, <1>9, <1>10, <1>11, <1>12, <1>13, <1>15, <1>16, <1>17 DEF Step

\* The families of labels of two requests are equal or have nothing in common.
LEMMA LabelFamilies ==
  ASSUME NEW op \in ApiOp, NEW other \in ApiOp, NEW l \in LabelsOf(op), l \in LabelsOf(other)
  PROVE  LabelsOf(op) = LabelsOf(other)
  BY DEF ApiOp, LabelsOf

LEMMA EntryInFamily ==
  ASSUME NEW op \in ApiOp PROVE EntryPoint(op) \in LabelsOf(op)
  BY DEF ApiOp, LabelsOf, EntryPoint

LEMMA NextDispatched ==
  ASSUME TypeOK, HasRequest, Dispatched, [Next]_vars PROVE Dispatched'
<1>0. pc \in [Worker -> Labels] /\ req \in [Worker -> Request \cup {NULL}]
  BY DEF TypeOK, WorkerTypeOK
<1>1. CASE UNCHANGED vars \/ Terminated
  BY <1>1 DEF Terminated, vars, Dispatched
<1>2. ASSUME NEW w \in Worker, Begin(w) PROVE Dispatched'
  <2>1. PICK op \in Api[w], k \in Key, fd \in Fd : \E arg \in Args(op) :
          /\ req' = [req EXCEPT ![w] = [op |-> op, key |-> k, fd |-> fd, arg |-> arg]]
          /\ pc' = [pc EXCEPT ![w] = EntryPoint(op)]
    BY <1>2 DEF Begin
  <2>2. PICK r : req' = [req EXCEPT ![w] = r] /\ r.op = op
    <3>1. PICK arg \in Args(op) :
            req' = [req EXCEPT ![w] = [op |-> op, key |-> k, fd |-> fd, arg |-> arg]]
      BY <2>1
    <3> DEFINE r == [op |-> op, key |-> k, fd |-> fd, arg |-> arg]
    <3>2. r.op = op
      OBVIOUS
    <3> HIDE DEF r
    <3> QED
      BY <3>1, <3>2 DEF r
  <2>3. EntryPoint(op) \in LabelsOf(op)
    BY EntryInFamily
  <2> QED
    BY <1>0, <2>1, <2>2, <2>3 DEF Dispatched
<1>3. ASSUME NEW w \in Worker, Step(w) PROVE Dispatched'
  <2>1. CASE pc' = [pc EXCEPT ![w] = "idle"] /\ req' = [req EXCEPT ![w] = NULL]
    BY <1>0, <2>1 DEF Dispatched
  <2>2. CASE pc' = pc /\ req' = req
    BY <2>2 DEF Dispatched
  <2>3. ASSUME NEW op \in ApiOp, pc[w] \in LabelsOf(op), NEW label \in LabelsOf(op),
               pc' = [pc EXCEPT ![w] = label], req' = req
        PROVE  Dispatched'
    <3>1. pc[w] # "idle"
      BY <2>3 DEF LabelsOf, ApiOp
    <3>2. req[w].op \in Api[w] /\ req[w].op \in ApiOp /\ pc[w] \in LabelsOf(req[w].op)
      BY <3>1 DEF Dispatched
    <3>3. label \in LabelsOf(req[w].op)
      BY <2>3, <3>2, LabelFamilies
    <3> QED
      BY <1>0, <2>3, <3>2, <3>3 DEF Dispatched
  <2> QED
    BY <1>3, <2>1, <2>2, <2>3, StepProgress DEF Progress
<1> QED
  BY <1>1, <1>2, <1>3 DEF Next

DispatchInv == TypeOK /\ HasRequest /\ Dispatched

LEMMA InitDispatchInv == Init => DispatchInv
  BY InitType DEF Init, DispatchInv, Dispatched

LEMMA NextDispatchInv == DispatchInv /\ [Next]_vars => DispatchInv'
  BY NextType, NextHasRequest, NextDispatched DEF DispatchInv

-----------------------------------------------------------------------------
(* Subscribers. *)

LEMMA NextSubscribers ==
  ASSUME OpensLock, DispatchInv, SubscribersBehindLock, [Next]_vars PROVE SubscribersBehindLock'
<1>0. TypeOK /\ HasRequest /\ heap \in [Addr -> Item \cup {NULL}]
  BY DEF DispatchInv, TypeOK, TableTypeOK
<1> DEFINE Behind(r) == r.subs # <<>> => r.is_locked
<1>1. SUFFICES ASSUME fault' = "none", NEW a \in Addr, heap'[a] # NULL PROVE Behind(heap'[a])
  BY DEF SubscribersBehindLock, Running, Live
<1>2. ASSUME fault = "none", heap[a] # NULL PROVE Behind(heap[a])
  BY <1>2 DEF SubscribersBehindLock, Running, Live
<1>3. ASSUME fault = "none", heap[a] # NULL, Relinked(a) PROVE Behind(heap'[a])
  BY <1>2, <1>3, KeptLocks
<1>4. CASE UNCHANGED vars \/ Terminated
  BY <1>1, <1>2, <1>4 DEF Terminated, vars
<1>5. ASSUME NEW w \in Worker, Begin(w) PROVE Behind(heap'[a])
  BY <1>1, <1>2, <1>5 DEF Begin, At, table
<1>6. ASSUME NEW w \in Worker, Step(w) PROVE Behind(heap'[a])
  <2>0. fault = "none"
    BY <1>6 DEF Step, LockFile, UnlockFile, OpenFile, CloseFile, OpenCloseStats, CreateFetch,
       CreateItem, CreateLink, CreateStats, RemoveFile, RemoveStats, WriteContents, WriteStats,
       EvictLock, EvictDone, EvictSegmented, EvictFifo, ReadFetch, ReadRelease, VisitHead,
       VisitLock, VisitNext, VisitBucket, VisitSend, At
  <2>1. CASE Relinked(a)
    BY <1>1, <1>3, <2>0, <2>1 DEF Relinked
  <2>2. CASE CreateItem(w)
    <3>1. PICK c \in Addr \ Live : \A x \in Addr : heap'[x] =
            IF x = c THEN [key |-> req[w].key, next |-> head[BucketOf(w)], prev |-> NULL,
                           length_in_bytes |-> 0, contents |-> FALSE, fd_owner |-> req[w].fd,
                           is_open |-> TRUE, is_locked |-> WithLock(req[w].op), subs |-> <<>>]
            ELSE heap[x]
      BY <1>0, <2>2 DEF CreateItem
    <3> QED
      BY <1>1, <1>2, <2>0, <3>1
  <2>3. CASE LockFile(w) \/ UnlockFile(w) \/ OpenFile(w) \/ CloseFile(w) \/ WriteContents(w)
    <3> DEFINE p == Fetch(req[w].key)
               old == heap[p]
               r == req[w]
    <3>1. p \in Live => p \in Addr /\ old \in Item /\ Behind(old)
      BY <1>0, <2>0, LiveItem DEF TypeOK, SubscribersBehindLock, Running
    <3>2. CASE heap' = heap
      BY <1>1, <1>2, <2>0, <3>2
    <3>3. ASSUME p \in Live, NEW new, Rewritten(p, new), Behind(new) PROVE Behind(heap'[a])
      BY <1>0, <1>1, <1>2, <2>0, <3>1, <3>3 DEF Rewritten
    <3>4. pc[w] = "open" => WithLock(r.op)
      BY DEF DispatchInv, Dispatched, OpensLock, LabelsOf, ApiOp, WithLock
    <3>5. p \in Live => \A n :
            /\ old.is_locked => Behind([old EXCEPT !.subs = <<r.fd>> \o @])
            /\ Behind([old EXCEPT !.is_locked = TRUE, !.fd_owner = r.fd])
            /\ old.subs = <<>> => Behind([old EXCEPT !.is_locked = FALSE])
            /\ old.is_locked => Behind([old EXCEPT !.fd_owner = Head(old.subs), !.subs = Tail(@)])
            /\ WithLock(r.op) => Behind([old EXCEPT !.is_open = TRUE, !.fd_owner = r.fd,
                                                    !.is_locked = WithLock(r.op)])
            /\ Behind([old EXCEPT !.is_open = FALSE])
            /\ Behind([old EXCEPT !.length_in_bytes = n, !.contents = TRUE])
      BY <3>1 DEF Item
    <3> HIDE DEF Behind
    <3> QED
      BY <1>0, <2>3, <3>2, <3>3, <3>4, <3>5, RewriteSteps
  <2> HIDE DEF Behind
  <2> QED
    BY <1>0, <1>1, <1>6, <2>1, <2>2, <2>3, StepFiles DEF Freed
<1> HIDE DEF Behind
<1> QED
  BY <1>4, <1>5, <1>6 DEF Next

\* Only htable_lock_file asserts that nobody waits.
LEMMA StepAssertion ==
  ASSUME DispatchInv, SubscribersBehindLock, NEW w \in Worker, Step(w),
         fault # "assert_no_subscribers"
  PROVE  fault' # "assert_no_subscribers"
<1> DEFINE Fine == fault' # "assert_no_subscribers"
<1> SUFFICES Fine
  OBVIOUS
<1>1. ASSUME NEW label, Goto(w, label) PROVE Fine
  BY <1>1 DEF Goto
<1>2. ASSUME NEW err, Return(w, err) PROVE Fine
  BY <1>2 DEF Return
<1>3. ASSUME NEW how, Crash(how), how # "assert_no_subscribers" PROVE Fine
  BY <1>3 DEF Crash
<1>4. ASSUME NotFound(w) PROVE Fine
  BY <1>2, <1>3, <1>4 DEF NotFound
<1> HIDE DEF Fine
<1>5. CASE LockFile(w)
  <2>1. \A p \in Live : ~(~heap[p].is_locked /\ heap[p].subs # <<>>)
    BY <1>5 DEF LockFile, At, SubscribersBehindLock, Running
  <2> QED
    BY <1>2, <1>4, <1>5, <2>1 DEF LockFile
<1>6. CASE UnlockFile(w) \/ OpenFile(w) \/ CloseFile(w)
  BY <1>1, <1>2, <1>4, <1>6 DEF UnlockFile, OpenFile, CloseFile
<1>7. CASE OpenCloseStats(w) \/ CreateStats(w) \/ RemoveStats(w) \/ EvictDone(w) \/ ReadRelease(w)
  BY <1>2, <1>7 DEF OpenCloseStats, CreateStats, RemoveStats, EvictDone, ReadRelease
<1>8. CASE CreateFetch(w) \/ CreateItem(w) \/ CreateLink(w)
  BY <1>1, <1>2, <1>3, <1>8 DEF CreateFetch, CreateItem, CreateLink
<1>9. CASE RemoveFile(w) \/ WriteContents(w)
  BY <1>1, <1>2, <1>3, <1>4, <1>9 DEF RemoveFile, WriteContents
<1>10. CASE WriteStats(w) \/ EvictLock(w) \/ ReadFetch(w)
  BY <1>1, <1>4, <1>10 DEF WriteStats, EvictLock, ReadFetch
<1>11. CASE \E b \in Bucket : EvictSegmented(w, b)
  BY <1>3, <1>11 DEF EvictSegmented, vars, Fine
<1>12. CASE EvictFifo(w)
  BY <1>3, <1>12 DEF EvictFifo, Fine
<1>13. CASE VisitHead(w) \/ VisitLock(w) \/ VisitSend(w)
  BY <1>1, <1>2, <1>13 DEF VisitHead, VisitLock, VisitSend
<1>14. CASE VisitNext(w)
  BY <1>1, <1>2, <1>3, <1>14 DEF VisitNext
<1>15. CASE VisitBucket(w)
  BY <1>1, <1>3, <1>15 DEF VisitBucket
<1> QED
  BY <1>5, <1>6, <1>7, <1>8, <1>9, <1>10, <1>11, <1>12, <1>13, <1>14, <1>15 DEF Step

\* Where every open asks for the lock, a client waits for a file only while somebody holds it,
\* however the requests of all clients interleave, and the assertion of htable_lock_file
\* (htable.c:210) never fails.
THEOREM NobodyWaitsInVain ==
  ASSUME OpensLock PROVE Spec => [](SubscribersBehindLock /\ fault # "assert_no_subscribers")
<1> DEFINE Waits == SubscribersBehindLock /\ fault # "assert_no_subscribers"
<1>1. Init => DispatchInv /\ Waits
  BY InitDispatchInv DEF Init, SubscribersBehindLock, Live
<1>2. ASSUME DispatchInv, Waits, [Next]_vars PROVE (DispatchInv /\ Waits)'
  <2>1. DispatchInv' /\ SubscribersBehindLock'
    BY <1>2, NextDispatchInv, NextSubscribers
  <2>2. fault' # "assert_no_subscribers"
    BY <1>2, StepAssertion DEF Next, Begin, Terminated, vars
  <2> QED
    BY <2>1, <2>2
<1> QED
  BY <1>1, <1>2, PTL DEF Spec

-----------------------------------------------------------------------------
(* The counters. *)

LEMMA PlusPlus ==
  ASSUME NEW x \in Int, NEW m \in Int, NEW n \in Int PROVE Plus(Plus(x, m), n) = Plus(x, m + n)
<1> DEFINE y == x + m
<1>1. Word \in Nat \ {0} /\ y \in Int /\ y + n = x + (m + n)
  OBVIOUS
<1> HIDE DEF y
<1>2. ((y % Word) + n) % Word = (y + n) % Word
  BY <1>1, ModPlus
<1> QED
  BY <1>1, <1>2 DEF Plus, y

LEMMA PlusZero == ASSUME NEW x \in SizeT PROVE Plus(x, 0) = x
<1>1. Word \in Nat \ {0} /\ x \in 0 .. Word - 1 /\ x + 0 = x
  BY DEF SizeT
<1> QED
  BY <1>1, ModSmall DEF Plus

\* A worker that moves leaves the set of workers at its old label and enters another one.
LEMMA PendingMove ==
  ASSUME pc \in [Worker -> Labels], NEW w \in Worker, NEW l, pc' = [pc EXCEPT ![w] = l], NEW L
  PROVE  /\ Pending(L) \in Nat
         /\ Pending(L)' = Pending(L) + (IF l \in L THEN 1 ELSE 0) - (IF pc[w] \in L THEN 1 ELSE 0)
<1> DEFINE S == {v \in Worker : pc[v] \in L}
           T == {v \in Worker : pc'[v] \in L}
<1>1. IsFiniteSet(S) /\ S \in SUBSET Worker
  BY FS_Subset
<1>2. IsFiniteSet(S \ {w}) /\ Cardinality(S) \in Nat
  BY <1>1, FS_RemoveElement, FS_CardinalityType
<1>3. Cardinality(S \ {w}) = Cardinality(S) - (IF pc[w] \in L THEN 1 ELSE 0)
  <2>1. Cardinality(S \ {w}) = IF w \in S THEN Cardinality(S) - 1 ELSE Cardinality(S)
    BY <1>1, FS_RemoveElement
  <2> QED
    BY <1>2, <2>1
<1>4. T = IF l \in L THEN (S \ {w}) \cup {w} ELSE S \ {w}
  OBVIOUS
<1>5. Cardinality((S \ {w}) \cup {w}) = Cardinality(S \ {w}) + 1
  BY <1>2, FS_AddElement
<1>6. Pending(L) = Cardinality(S) /\ Pending(L)' = Cardinality(T)
  BY DEF Pending
<1> HIDE DEF S, T
<1> QED
  BY <1>2, <1>3, <1>4, <1>5, <1>6

\* What the addresses in use and their bytes become.
LEMMA BytesType ==
  ASSUME TypeOK
  PROVE  /\ Bytes \in [Addr -> Int] /\ StoredBytes \in Nat /\ Cardinality(Live) \in Nat
         /\ IsFiniteSet(Live) /\ SumFunction(delta) \in Int
<1>1. \A a \in Live : heap[a].length_in_bytes \in Nat
  BY LiveItem DEF TypeOK, Item
<1>2. Bytes \in [Addr -> Int] /\ \A a \in Addr : Bytes[a] \in Nat
  BY <1>1 DEF Bytes
<1>3. IsFiniteSet(Live) /\ Cardinality(Live) \in Nat
  <2>1. Live \in SUBSET Addr
    BY DEF Live
  <2> QED
    BY <2>1, FS_Subset, FS_CardinalityType
<1>4. SumFunction(delta) \in Int
  BY SumType DEF TypeOK, WorkerTypeOK
<1> HIDE DEF Bytes
<1> QED
  BY <1>2, <1>3, <1>4, SumNat DEF StoredBytes

LEMMA BytesUpdate ==
  ASSUME TypeOK, NEW p \in Addr, NEW n \in Int
  PROVE  SumFunction([Bytes EXCEPT ![p] = n]) = SumFunction(Bytes) - Bytes[p] + n
<1>1. Bytes \in [Addr -> Int]
  BY BytesType
<1>2. ASSUME NEW f \in [Addr -> Int]
      PROVE  SumFunction([f EXCEPT ![p] = n]) = SumFunction(f) - f[p] + n
  <2>1. IsFiniteSet(Addr)
    OBVIOUS
  <2> HIDE HTableAssumption
  <2> QED
    BY ONLY <2>1, SumUpdate, f \in [Addr -> Int], p \in Addr, n \in Int
<1> QED
  BY <1>1, <1>2

LEMMA KeptBytes ==
  ASSUME \A a \in Addr : Relinked(a)
  PROVE  Live' = Live /\ StoredBytes' = StoredBytes
<1>1. Live' = Live
  BY DEF Live, Relinked
<1>2. Bytes' = Bytes
  BY <1>1 DEF Bytes, Relinked, SameFile, Live
<1> QED
  BY <1>1, <1>2 DEF StoredBytes

LEMMA FreedBytes ==
  ASSUME TypeOK, NEW p \in Live, Freed(p)
  PROVE  /\ Cardinality(Live') = Cardinality(Live) - 1
         /\ StoredBytes' = StoredBytes - heap[p].length_in_bytes
<1>1. Live' = Live \ {p} /\ p \in Addr
  BY DEF Live, Relinked, Freed
<1>2. Bytes' = [Bytes EXCEPT ![p] = 0]
  BY <1>1, ZenonT(30) DEF Bytes, Relinked, SameFile, Live, Freed
<1>3. Bytes[p] = heap[p].length_in_bytes
  BY <1>1 DEF Bytes
<1>4. Cardinality(Live \ {p}) = Cardinality(Live) - 1
  BY BytesType, FS_RemoveElement
<1>5. SumFunction([Bytes EXCEPT ![p] = 0]) = SumFunction(Bytes) - Bytes[p] + 0
  BY <1>1, BytesUpdate
<1>6. SumFunction(Bytes) \in Int /\ Bytes[p] \in Int
  BY <1>1, BytesType DEF StoredBytes
<1> HIDE DEF Bytes
<1> QED
  BY <1>1, <1>2, <1>3, <1>4, <1>5, <1>6 DEF StoredBytes

LEMMA RewrittenBytes ==
  ASSUME TypeOK, NEW p \in Live, NEW r \in Item, Rewritten(p, r)
  PROVE  /\ Live' = Live
         /\ StoredBytes' = StoredBytes - heap[p].length_in_bytes + r.length_in_bytes
<1>1. p \in Addr /\ heap'[p] = r /\ \A a \in Addr \ {p} : heap'[a] = heap[a]
  BY DEF Live, Rewritten, TypeOK, TableTypeOK
<1>2. Live' = Live
  BY <1>1, NullIsNoItem DEF Live
<1>3. Bytes' = [Bytes EXCEPT ![p] = r.length_in_bytes]
  BY <1>1, <1>2 DEF Bytes
<1>4. Bytes[p] = heap[p].length_in_bytes /\ r.length_in_bytes \in Int
  BY <1>1 DEF Bytes, Item
<1> HIDE DEF Bytes
<1> QED
  BY <1>1, <1>2, <1>3, <1>4, BytesUpdate DEF StoredBytes

LEMMA CreatedBytes ==
  ASSUME TypeOK, HasRequest, NEW w \in Worker, CreateItem(w)
  PROVE  Cardinality(Live') = Cardinality(Live) + 1 /\ StoredBytes' = StoredBytes
<1> DEFINE x == [key |-> req[w].key, next |-> head[BucketOf(w)], prev |-> NULL,
                 length_in_bytes |-> 0, contents |-> FALSE, fd_owner |-> req[w].fd,
                 is_open |-> TRUE, is_locked |-> WithLock(req[w].op), subs |-> <<>>]
<1>1. PICK c \in Addr \ Live : heap' = [heap EXCEPT ![c] = x]
  BY DEF CreateItem
<1>2. heap'[c] = x /\ \A a \in Addr \ {c} : heap'[a] = heap[a]
  BY <1>1 DEF TypeOK, TableTypeOK
<1>3. x \in Item
  <2>1. req[w].key \in Key /\ req[w].fd \in Fd /\ BucketOf(w) \in Bucket
    BY RequestType DEF CreateItem, At, TypeOK
  <2>2. WithLock(req[w].op) \in BOOLEAN /\ head[BucketOf(w)] \in Pointer /\ NULL \in Pointer
    BY <2>1 DEF WithLock, TypeOK, TableTypeOK, Pointer
  <2> QED
    BY <2>1, <2>2 DEF Item
<1>4. x.length_in_bytes = 0
  OBVIOUS
<1> HIDE DEF x
<1>5. Live' = Live \cup {c}
  BY <1>2, <1>3, NullIsNoItem DEF Live
<1>6. Cardinality(Live \cup {c}) = Cardinality(Live) + 1
  BY BytesType, FS_AddElement
<1>7. Bytes' = Bytes
  BY <1>2, <1>4, <1>5 DEF Bytes
<1> QED
  BY <1>5, <1>6, <1>7 DEF StoredBytes

\* What a worker at a label owes items_count, once its item is allocated or freed.
Owes(l) == IF l \in {"create_link", "create_stats"} THEN 1 ELSE IF l = "remove_stats" THEN -1 ELSE 0

Spending == {"write_stats", "evict_lock", "evict"}

\* A step of worker w to label l, where it owes v bytes: the counters grow by i items and s
\* bytes, the table by n items and m bytes, and the difference is what the worker owes.
Balance(w, l, v, i, n, s, m) ==
  /\ pc' = [pc EXCEPT ![w] = l] /\ delta' = [delta EXCEPT ![w] = v]
  /\ stats'.items_count = Plus(stats.items_count, i)
  /\ stats'.total_space = Plus(stats.total_space, s)
  /\ Cardinality(Live') = Cardinality(Live) + n
  /\ StoredBytes' = StoredBytes + m
  /\ i + Owes(l) - Owes(pc[w]) = n
  /\ s + v - delta[w] = m
  /\ l \notin {"write_stats", "remove_stats"} => v = 0
  /\ l = "remove_stats" => v <= 0
  /\ l \notin Spending =>
       IF pc[w] \in Spending THEN s = 0 /\ stats.total_space <= MaxSpace ELSE s <= 0

CountersInv == TypeOK /\ HasRequest /\ ItemsAccounted /\ SpaceAccounted /\ DebtsInv

LEMMA OwesMove ==
  ASSUME pc \in [Worker -> Labels], NEW w \in Worker, NEW l, pc' = [pc EXCEPT ![w] = l]
  PROVE  /\ Pending({"create_link", "create_stats"})' - Pending({"remove_stats"})'
              = Pending({"create_link", "create_stats"}) - Pending({"remove_stats"})
                  + Owes(l) - Owes(pc[w])
         /\ Pending({"create_link", "create_stats"}) - Pending({"remove_stats"}) \in Int
<1>1. \A L : /\ Pending(L) \in Nat
             /\ Pending(L)' = Pending(L) + (IF l \in L THEN 1 ELSE 0) - (IF pc[w] \in L THEN 1 ELSE 0)
  BY PendingMove
<1> HIDE HTableAssumption
<1>2. /\ Pending({"create_link", "create_stats"}) \in Nat
      /\ Pending({"create_link", "create_stats"})' = Pending({"create_link", "create_stats"})
           + (IF l \in {"create_link", "create_stats"} THEN 1 ELSE 0)
           - (IF pc[w] \in {"create_link", "create_stats"} THEN 1 ELSE 0)
  BY ONLY <1>1, Zenon
<1>3. /\ Pending({"remove_stats"}) \in Nat
      /\ Pending({"remove_stats"})' = Pending({"remove_stats"})
           + (IF l \in {"remove_stats"} THEN 1 ELSE 0)
           - (IF pc[w] \in {"remove_stats"} THEN 1 ELSE 0)
  BY ONLY <1>1, Zenon
<1> QED
  BY <1>2, <1>3 DEF Owes

LEMMA OwesType == ASSUME NEW l PROVE Owes(l) \in Int
  BY DEF Owes

\* The mod-Word form of ItemsAccounted and SpaceAccounted moves along with a balanced step.
LEMMA Accounted ==
  ASSUME NEW x \in Int, NEW y, NEW m \in Int, NEW a \in Int, NEW c \in Int,
         y = Plus(x, m), m + c = a, Plus(x, a) = 0
  PROVE  Plus(y, c) = 0
<1>1. Plus(Plus(x, m), c) = Plus(x, m + c)
  BY PlusPlus
<1> QED
  BY <1>1

LEMMA DeltaMove ==
  ASSUME TypeOK, NEW w \in Worker, NEW v \in Int, delta' = [delta EXCEPT ![w] = v]
  PROVE  SumFunction(delta') = SumFunction(delta) - delta[w] + v
<1>1. IsFiniteSet(Worker) /\ delta \in [Worker -> Int]
  BY DEF TypeOK, WorkerTypeOK
<1>2. SumFunction([delta EXCEPT ![w] = v]) = SumFunction(delta) - delta[w] + v
  BY ONLY <1>1, SumUpdate, w \in Worker, v \in Int
<1> QED
  BY <1>2

LEMMA BalanceAccounts ==
  ASSUME CountersInv, fault = "none", NEW w \in Worker, NEW l \in Labels, NEW v \in Int,
         NEW i \in Int, NEW n \in Int, NEW s \in Int, NEW m \in Int, Balance(w, l, v, i, n, s, m)
  PROVE  ItemsAccounted' /\ SpaceAccounted' /\ DebtsInv'
<1>0. pc \in [Worker -> Labels] /\ TypeOK /\ delta \in [Worker -> Int]
      /\ stats.items_count \in Int /\ stats.total_space \in Int
  BY DEF CountersInv, TypeOK, WorkerTypeOK, CountersTypeOK, SizeT
<1>1. ItemsAccounted'
  <2> DEFINE P == Pending({"create_link", "create_stats"}) - Pending({"remove_stats"})
             Q == Pending({"create_link", "create_stats"})' - Pending({"remove_stats"})'
  <2>1. Q = P + Owes(l) - Owes(pc[w]) /\ P \in Int
    BY <1>0, OwesMove DEF Balance
  <2>2. Owes(l) \in Int /\ Owes(pc[w]) \in Int /\ Cardinality(Live) \in Int
    BY <1>0, OwesType, BytesType
  <2>3. Plus(stats.items_count, P - Cardinality(Live)) = 0
    BY DEF CountersInv, ItemsAccounted, Running
  <2>4. Cardinality(Live') = Cardinality(Live) + n /\ i + Owes(l) - Owes(pc[w]) = n
        /\ stats'.items_count = Plus(stats.items_count, i)
    BY DEF Balance
  <2> HIDE DEF P, Q
  <2>5. P - Cardinality(Live) \in Int /\ Q - Cardinality(Live') \in Int
        /\ i + (Q - Cardinality(Live')) = P - Cardinality(Live)
    BY <2>1, <2>2, <2>4
  <2>6. Plus(stats'.items_count, Q - Cardinality(Live')) = 0
    BY <1>0, <2>3, <2>4, <2>5, Accounted
  <2> QED
    BY <2>6 DEF ItemsAccounted, Q
<1>2. SpaceAccounted'
  <2>1. SumFunction(delta') = SumFunction(delta) - delta[w] + v
    BY <1>0, DeltaMove DEF Balance
  <2>2. SumFunction(delta) \in Int /\ StoredBytes \in Int /\ delta[w] \in Int
    BY <1>0, BytesType
  <2>3. Plus(stats.total_space, SumFunction(delta) - StoredBytes) = 0
    BY DEF CountersInv, SpaceAccounted, Running
  <2>4. StoredBytes' = StoredBytes + m /\ s + v - delta[w] = m
        /\ stats'.total_space = Plus(stats.total_space, s)
    BY DEF Balance
  <2>5. SumFunction(delta) - StoredBytes \in Int /\ SumFunction(delta') - StoredBytes' \in Int
        /\ s + (SumFunction(delta') - StoredBytes') = SumFunction(delta) - StoredBytes
    BY <2>1, <2>2, <2>4
  <2>6. Plus(stats'.total_space, SumFunction(delta') - StoredBytes') = 0
    BY <1>0, <2>3, <2>4, <2>5, Accounted
  <2> QED
    BY <2>6 DEF SpaceAccounted
<1>3. DebtsInv'
  BY <1>0 DEF Balance, CountersInv, DebtsInv, Running
<1> QED
  BY <1>1, <1>2, <1>3

Balanced(w) == \E l \in Labels, v \in Int, i \in Int, n \in Int, s \in Int, m \in Int :
                 Balance(w, l, v, i, n, s, m)

\* A step that changes neither the counters nor what they count.
LEMMA QuietStep ==
  ASSUME CountersInv, NEW w \in Worker, NEW l \in Labels, pc[w] \notin {"write_stats", "remove_stats"},
         pc' = [pc EXCEPT ![w] = l], fault = "none",
         delta' = delta \/ delta' = [delta EXCEPT ![w] = 0],
         \A a \in Addr : Relinked(a),
         stats'.items_count = stats.items_count, stats'.total_space = stats.total_space,
         Owes(l) = Owes(pc[w]), l \notin Spending \cup {"remove_stats"},
         pc[w] \in Spending => stats.total_space <= MaxSpace
  PROVE  Balanced(w)
<1>1. /\ delta \in [Worker -> Int] /\ delta[w] = 0 /\ TypeOK
      /\ stats.items_count \in SizeT /\ stats.total_space \in SizeT
  BY DEF CountersInv, DebtsInv, Running, TypeOK, WorkerTypeOK, CountersTypeOK
<1>2. delta' = [delta EXCEPT ![w] = 0]
  BY <1>1
<1>3. Live' = Live /\ StoredBytes' = StoredBytes
  BY KeptBytes
<1>4. /\ Plus(stats.items_count, 0) = stats.items_count
      /\ Plus(stats.total_space, 0) = stats.total_space
  BY <1>1, PlusZero
<1>5. Owes(l) \in Int /\ StoredBytes \in Int /\ Cardinality(Live) \in Int
  BY <1>1, OwesType, BytesType
<1>6. Balance(w, l, 0, 0, 0, 0, 0)
  BY <1>1, <1>2, <1>3, <1>4, <1>5 DEF Balance, Spending
<1> QED
  BY <1>6 DEF Balanced

SameLength(r, x) == x \in Item /\ x.length_in_bytes = r.length_in_bytes

LEMMA KeepsLength ==
  ASSUME NEW r \in Item
  PROVE  /\ \A q \in Seq(Fd) : SameLength(r, [r EXCEPT !.subs = q])
         /\ \A b \in BOOLEAN : SameLength(r, [r EXCEPT !.is_locked = b])
         /\ SameLength(r, [r EXCEPT !.is_open = FALSE])
         /\ \A fd \in Fd : SameLength(r, [r EXCEPT !.is_locked = TRUE, !.fd_owner = fd])
         /\ \A fd \in Fd, q \in Seq(Fd) : SameLength(r, [r EXCEPT !.fd_owner = fd, !.subs = q])
         /\ \A fd \in Fd, b \in BOOLEAN :
              SameLength(r, [r EXCEPT !.is_open = TRUE, !.fd_owner = fd, !.is_locked = b])
  BY DEF Item, SameLength

\* Locking, opening and closing a file rewrites an item of the same length.
LEMMA LockingBalanced ==
  ASSUME CountersInv, NEW w \in Worker, fault' = "none",
         LockFile(w) \/ UnlockFile(w) \/ OpenFile(w) \/ CloseFile(w)
  PROVE  Balanced(w)
<1> DEFINE p == Fetch(req[w].key)
<1>1. TypeOK /\ HasRequest /\ fault = "none" /\ stats' = stats
      /\ pc[w] \in {"lock", "unlock", "open", "close"}
  BY DEF CountersInv, LockFile, UnlockFile, OpenFile, CloseFile, At, NotFound, Crash
<1>2. /\ delta' = delta \/ delta' = [delta EXCEPT ![w] = 0]
      /\ \E l \in {"idle", "open_stats", "close_stats"} : pc' = [pc EXCEPT ![w] = l]
  BY <1>1 DEF LockFile, UnlockFile, OpenFile, CloseFile, NotFound, Crash, Goto, Return, locals
<1>3. PICK l \in {"idle", "open_stats", "close_stats"} : pc' = [pc EXCEPT ![w] = l]
  BY <1>2
<1>4. /\ l \in Labels /\ Owes(l) = 0 /\ Owes(pc[w]) = 0 /\ l \notin Spending \cup {"remove_stats"}
      /\ pc[w] \notin Spending \cup {"remove_stats"}
  BY <1>1 DEF Labels, Owes, Spending
<1>5. CASE \A a \in Addr : Relinked(a)
  BY <1>1, <1>2, <1>3, <1>4, <1>5, QuietStep DEF Spending
<1>6. CASE /\ p \in Live
           /\ \E r \in Item : Rewritten(p, r) /\ r.length_in_bytes = heap[p].length_in_bytes
  <2>1. PICK r \in Item : Rewritten(p, r) /\ r.length_in_bytes = heap[p].length_in_bytes
    BY <1>6
  <2>2. /\ delta \in [Worker -> Int] /\ delta[w] = 0
        /\ stats.items_count \in SizeT /\ stats.total_space \in SizeT
    BY <1>1 DEF CountersInv, DebtsInv, Running, TypeOK, WorkerTypeOK, CountersTypeOK
  <2>3. delta' = [delta EXCEPT ![w] = 0]
    BY <1>2, <2>2
  <2>4. heap[p].length_in_bytes \in Int /\ StoredBytes \in Int /\ Cardinality(Live) \in Int
    BY <1>1, <1>6, LiveItem, BytesType DEF Item, TypeOK
  <2>5. Live' = Live /\ StoredBytes' = StoredBytes - heap[p].length_in_bytes + r.length_in_bytes
    BY <1>1, <1>6, <2>1, RewrittenBytes
  <2>6. /\ Plus(stats.items_count, 0) = stats.items_count
        /\ Plus(stats.total_space, 0) = stats.total_space
    BY <2>2, PlusZero
  <2> HIDE DEF p
  <2>7. Balance(w, l, 0, 0, 0, 0, 0)
    BY <1>1, <1>3, <1>4, <2>1, <2>2, <2>3, <2>4, <2>5, <2>6 DEF Balance, Spending
  <2>8. l \in Labels
    BY <1>4
  <2> QED
    BY ONLY <2>7, <2>8, 0 \in Int, Zenon DEF Balanced
<1>7. heap' = heap \/ (/\ p \in Live
                       /\ \E r \in Item : Rewritten(p, r) /\ r.length_in_bytes = heap[p].length_in_bytes)
  <2>1. CASE p \in Live
    <3>1. heap[p] \in Item /\ req[w].fd \in Fd /\ WithLock(req[w].op) \in BOOLEAN
      BY <1>1, <2>1, LiveItem, RequestType DEF TypeOK, WithLock
    <3>2. heap[p].subs \in Seq(Fd)
      BY <3>1 DEF Item
    <3>3. \E r \in Item : (heap' = heap \/ Rewritten(p, r))
                          /\ r.length_in_bytes = heap[p].length_in_bytes
      <4> DEFINE old == heap[p]
      <4>1. \/ heap' = heap
            \/ \E q \in Seq(Fd) : Rewritten(p, [old EXCEPT !.subs = q])
            \/ Rewritten(p, [old EXCEPT !.is_locked = TRUE, !.fd_owner = req[w].fd])
            \/ \E b \in BOOLEAN : Rewritten(p, [old EXCEPT !.is_locked = b])
            \/ \E fd \in Fd, q \in Seq(Fd) : Rewritten(p, [old EXCEPT !.fd_owner = fd, !.subs = q])
            \/ Rewritten(p, [old EXCEPT !.is_open = FALSE])
            \/ Rewritten(p, [old EXCEPT !.is_open = TRUE, !.fd_owner = req[w].fd,
                                        !.is_locked = WithLock(req[w].op)])
        <5>1. <<req[w].fd>> \o old.subs \in Seq(Fd)
          BY <3>1, <3>2
        <5>2. old.subs # <<>> => Head(old.subs) \in Fd /\ Tail(old.subs) \in Seq(Fd)
          BY <3>2
        <5>3. /\ [old EXCEPT !.subs = <<req[w].fd>> \o @] = [old EXCEPT !.subs = <<req[w].fd>> \o old.subs]
              /\ [old EXCEPT !.fd_owner = Head(old.subs), !.subs = Tail(@)]
                   = [old EXCEPT !.fd_owner = Head(old.subs), !.subs = Tail(old.subs)]
          BY <3>1 DEF Item
        <5> HIDE DEF old
        <5> QED
          BY <1>1, <5>1, <5>2, <5>3, RewriteSteps DEF old, p
      <4>2. old \in Item
        BY <3>1
      <4> HIDE DEF old, p
      <4>3. \E r : (heap' = heap \/ Rewritten(p, r)) /\ SameLength(old, r)
        <5>1. SameLength(old, old)
          BY <4>2 DEF SameLength
        <5> QED
          BY <3>1, <4>1, <4>2, <5>1, KeepsLength
      <4> QED
        BY <4>3 DEF SameLength, old
    <3> QED
      BY <2>1, <3>3
  <2>2. CASE p \notin Live
    BY <1>1, <2>2, RewriteSteps
  <2> QED
    BY <2>1, <2>2
<1> QED
  BY <1>5, <1>6, <1>7, HeapUnchanged

LEMMA CounterTypes ==
  ASSUME CountersInv, NEW w \in Worker
  PROVE  /\ TypeOK /\ HasRequest /\ pc \in [Worker -> Labels] /\ delta \in [Worker -> Int]
         /\ delta[w] \in Int /\ StoredBytes \in Int /\ Cardinality(Live) \in Int
         /\ stats.items_count \in SizeT /\ stats.total_space \in SizeT
         /\ Plus(stats.items_count, 0) = stats.items_count
         /\ Plus(stats.total_space, 0) = stats.total_space
<1>1. TypeOK /\ HasRequest /\ pc \in [Worker -> Labels] /\ delta \in [Worker -> Int]
      /\ stats.items_count \in SizeT /\ stats.total_space \in SizeT
  BY DEF CountersInv, TypeOK, WorkerTypeOK, CountersTypeOK
<1> QED
  BY <1>1, BytesType, PlusZero

LEMMA IntoBalanced ==
  ASSUME NEW w \in Worker, NEW l \in Labels, NEW v \in Int, NEW i \in Int, NEW n \in Int,
         NEW s \in Int, NEW m \in Int, Balance(w, l, v, i, n, s, m)
  PROVE  Balanced(w)
  BY DEF Balanced

LEMMA NewLengthItem ==
  ASSUME NEW x \in Item, NEW n \in Nat
  PROVE  /\ [x EXCEPT !.length_in_bytes = n, !.contents = TRUE] \in Item
         /\ [x EXCEPT !.length_in_bytes = n, !.contents = TRUE].length_in_bytes = n
         /\ x.length_in_bytes \in Int
<1>1. [x EXCEPT !.length_in_bytes = n, !.contents = TRUE] \in Item
  BY DEF Item
<1>2. [x EXCEPT !.length_in_bytes = n, !.contents = TRUE].length_in_bytes = n
  BY DEF Item
<1>3. x.length_in_bytes \in Int
  BY DEF Item
<1> QED
  BY <1>1, <1>2, <1>3

LEMMA WriteContentsBalanced ==
  ASSUME CountersInv, NEW w \in Worker, fault' = "none", WriteContents(w)
  PROVE  Balanced(w)
<1> DEFINE p == Fetch(req[w].key)
           d == NewLength(w, p) - heap[p].length_in_bytes
           r == [heap[p] EXCEPT !.length_in_bytes = NewLength(w, p), !.contents = TRUE]
<1>1. pc[w] = "write" /\ fault = "none" /\ stats' = stats
  BY DEF WriteContents, At, NotFound, Crash
<1>2. CASE NotFound(w)
  <2>1. /\ pc' = [pc EXCEPT ![w] = "idle"] /\ delta' = [delta EXCEPT ![w] = 0]
        /\ \A a \in Addr : Relinked(a)
    BY <1>1, <1>2, HeapUnchanged DEF NotFound, Crash, Return, table
  <2> QED
    BY <1>1, <2>1, QuietStep DEF Owes, Labels, Spending
<1>3. CASE /\ p \in Live /\ heap' = [heap EXCEPT ![p].length_in_bytes = NewLength(w, p),
                                                ![p].contents = TRUE]
           /\ delta' = [delta EXCEPT ![w] = d] /\ Goto(w, "write_stats")
  <2>1. delta[w] = 0
    BY <1>1 DEF CountersInv, DebtsInv, Running
  <2>2. heap[p] \in Item /\ NewLength(w, p) \in Nat /\ p \in Addr
    <3>1. heap[p] \in Item /\ p \in Addr /\ req[w].arg \in Nat
      BY <1>1, <1>3, CounterTypes, LiveItem, RequestType DEF TypeOK
    <3>2. heap[p].length_in_bytes \in Nat
      BY <3>1 DEF Item
    <3> HIDE DEF p
    <3> QED
      BY <3>1, <3>2 DEF NewLength
  <2>3. r \in Item /\ r.length_in_bytes = NewLength(w, p) /\ heap[p].length_in_bytes \in Int
    <3> HIDE DEF p
    <3> QED
      BY <2>2, NewLengthItem
  <2>4. Rewritten(p, r)
    <3>1. heap \in [Addr -> Item \cup {NULL}]
      BY CounterTypes DEF TypeOK, TableTypeOK
    <3> HIDE DEF p
    <3> QED
      BY <1>3, <2>2, <3>1 DEF Rewritten, Item
  <2>5. Live' = Live /\ StoredBytes' = StoredBytes - heap[p].length_in_bytes + r.length_in_bytes
    BY <1>3, <2>3, <2>4, CounterTypes, RewrittenBytes
  <2>6. pc' = [pc EXCEPT ![w] = "write_stats"]
    BY <1>3 DEF Goto
  <2>7. d \in Int /\ StoredBytes' = StoredBytes + d
    BY <2>2, <2>3, <2>5, CounterTypes
  <2>8. delta' = [delta EXCEPT ![w] = d] /\ Live' = Live
    BY <1>3, <2>5
  <2> HIDE DEF d, p, r
  <2>9. Balance(w, "write_stats", d, 0, 0, 0, d)
    BY <1>1, <2>1, <2>6, <2>7, <2>8, CounterTypes DEF Balance, Spending, Owes
  <2> QED
    BY <2>7, <2>9, IntoBalanced DEF Labels
<1> QED
  BY <1>1, <1>2, <1>3 DEF WriteContents, Crash

LEMMA CreateBalanced ==
  ASSUME CountersInv, NEW w \in Worker, fault' = "none",
         CreateFetch(w) \/ CreateItem(w) \/ CreateLink(w) \/ CreateStats(w)
  PROVE  Balanced(w)
<1>1. CASE CreateFetch(w)
  <2>1. /\ pc[w] = "create" /\ fault = "none" /\ stats' = stats /\ \A a \in Addr : Relinked(a)
        /\ delta' = delta \/ delta' = [delta EXCEPT ![w] = 0]
        /\ pc' = [pc EXCEPT ![w] = "create_item"] \/ pc' = [pc EXCEPT ![w] = "idle"]
    BY <1>1, HeapUnchanged DEF CreateFetch, At, Crash, Return, Goto, locals, table
  <2> QED
    BY <2>1, QuietStep DEF Owes, Labels, Spending
<1>2. CASE CreateItem(w)
  <2>1. Cardinality(Live') = Cardinality(Live) + 1 /\ StoredBytes' = StoredBytes
    BY <1>2, CounterTypes, CreatedBytes
  <2>2. /\ pc[w] = "create_item" /\ fault = "none" /\ stats' = stats /\ delta' = delta
        /\ pc' = [pc EXCEPT ![w] = "create_link"]
    BY <1>2 DEF CreateItem, At, Goto
  <2>3. delta[w] = 0
    BY <2>2 DEF CountersInv, DebtsInv, Running
  <2>4. Balance(w, "create_link", 0, 0, 1, 0, 0)
    BY <2>1, <2>2, <2>3, CounterTypes DEF Balance, Spending, Owes
  <2> QED
    BY <2>4, IntoBalanced DEF Labels
<1>3. CASE CreateLink(w)
  <2>1. /\ pc[w] = "create_link" /\ fault = "none" /\ stats' = stats /\ delta' = delta
        /\ pc' = [pc EXCEPT ![w] = "create_stats"]
    BY <1>3 DEF CreateLink, At, Goto, Crash, locals
  <2>2. \A a \in Addr : Relinked(a)
    <3>1. Step(w)
      BY <1>3 DEF Step
    <3>2. ~CreateItem(w) /\ ~LockFile(w) /\ ~UnlockFile(w) /\ ~OpenFile(w) /\ ~CloseFile(w)
          /\ ~WriteContents(w)
      BY <2>1 DEF LockFile, UnlockFile, OpenFile, CloseFile, WriteContents, CreateItem, At
    <3>3. ASSUME NEW p \in Live, Freed(p) PROVE FALSE
      <4>1. heap'[p] = NULL /\ heap[p] \in Item /\ heap \in [Addr -> Item \cup {NULL}] /\ p \in Addr
            /\ head \in [Bucket -> Pointer] /\ BucketOf(w) \in Bucket /\ ref[w] \in Pointer
        BY <2>1, <3>3, CounterTypes, LiveItem, RequestType
           DEF Freed, TypeOK, TableTypeOK, WorkerTypeOK
      <4>2. CASE heap' = heap
        BY <4>1, <4>2, NullIsNoItem
      <4>3. CASE head[BucketOf(w)] \in Live
                 /\ heap' = [heap EXCEPT ![head[BucketOf(w)]].prev = ref[w]]
        <5>1. heap[head[BucketOf(w)]] \in Item /\ head[BucketOf(w)] \in Addr
          BY <4>1, <4>3, CounterTypes, LiveItem DEF TypeOK
        <5>2. [heap[head[BucketOf(w)]] EXCEPT !.prev = ref[w]] \in Item
          BY <4>1, <5>1, LinkType
        <5> QED
          BY <4>1, <4>3, <5>1, <5>2, NullIsNoItem
      <4> QED
        BY <1>3, <2>1, <4>2, <4>3 DEF CreateLink, Crash
    <3> QED
      BY <3>1, <3>2, <3>3, CounterTypes, StepFiles
  <2> QED
    BY <2>1, <2>2, QuietStep DEF Owes, Labels, Spending
<1>4. CASE CreateStats(w)
  <2>1. /\ pc[w] = "create_stats" /\ fault = "none" /\ delta' = [delta EXCEPT ![w] = 0]
        /\ pc' = [pc EXCEPT ![w] = "idle"] /\ heap' = heap
        /\ stats' = [stats EXCEPT !.open_count = Plus(@, 1), !.items_count = Plus(@, 1),
                                  !.max_items = Larger(@, Plus(stats.items_count, 1))]
    BY <1>4 DEF CreateStats, At, Return, table
  <2>2. stats'.items_count = Plus(stats.items_count, 1) /\ stats'.total_space = stats.total_space
    BY <2>1, CounterTypes DEF TypeOK, CountersTypeOK
  <2>3. Live' = Live /\ StoredBytes' = StoredBytes
    BY <2>1, HeapUnchanged, KeptBytes
  <2>4. delta[w] = 0
    BY <2>1 DEF CountersInv, DebtsInv, Running
  <2>5. Balance(w, "idle", 0, 1, 0, 0, 0)
    BY <2>1, <2>2, <2>3, <2>4, CounterTypes DEF Balance, Spending, Owes
  <2> QED
    BY <2>5, IntoBalanced DEF Labels
<1> QED
  BY <1>1, <1>2, <1>3, <1>4

LEMMA RemoveBalanced ==
  ASSUME CountersInv, NEW w \in Worker, fault' = "none", RemoveFile(w) \/ RemoveStats(w)
  PROVE  Balanced(w)
<1>1. CASE RemoveFile(w)
  <2> DEFINE p == Fetch(req[w].key)
             d == -heap[p].length_in_bytes
  <2>1. pc[w] = "remove" /\ fault = "none" /\ stats' = stats
    BY <1>1 DEF RemoveFile, At, NotFound, Crash
  <2>2. CASE p \in Live /\ SafeToUnlink(p) /\ Unlink(p, BucketOf(w))
             /\ delta' = [delta EXCEPT ![w] = d] /\ Goto(w, "remove_stats")
    <3>1. BucketOf(w) \in Bucket
      BY <2>1, CounterTypes, RequestType DEF TypeOK
    <3>2. Freed(p)
      BY <2>2, <3>1, CounterTypes, UnlinkRule DEF Freed
    <3>3. /\ Cardinality(Live') = Cardinality(Live) - 1
          /\ StoredBytes' = StoredBytes - heap[p].length_in_bytes
      BY <2>2, <3>2, CounterTypes, FreedBytes
    <3>4. heap[p].length_in_bytes \in Nat
      BY <2>2, CounterTypes, LiveItem DEF TypeOK, Item
    <3>5. d \in Int /\ d <= 0 /\ StoredBytes' = StoredBytes + d /\ delta' = [delta EXCEPT ![w] = d]
          /\ pc' = [pc EXCEPT ![w] = "remove_stats"] /\ Cardinality(Live') = Cardinality(Live) + (-1)
      BY <2>2, <3>3, <3>4, CounterTypes DEF Goto
    <3>6. delta[w] = 0
      BY <2>1 DEF CountersInv, DebtsInv, Running
    <3> HIDE DEF d, p
    <3>7. Balance(w, "remove_stats", d, 0, -1, 0, d)
      BY <2>1, <3>5, <3>6, CounterTypes DEF Balance, Spending, Owes
    <3> QED
      BY <3>5, <3>7, IntoBalanced DEF Labels
  <2>3. CASE /\ pc' = [pc EXCEPT ![w] = "idle"] /\ delta' = [delta EXCEPT ![w] = 0]
             /\ \A a \in Addr : Relinked(a)
    BY <2>1, <2>3, QuietStep DEF Owes, Labels, Spending
  <2>4. ASSUME NEW err, Return(w, err), heap' = heap
        PROVE  /\ pc' = [pc EXCEPT ![w] = "idle"] /\ delta' = [delta EXCEPT ![w] = 0]
               /\ \A a \in Addr : Relinked(a)
    BY <2>4, HeapUnchanged DEF Return
  <2> QED
    BY <1>1, <2>1, <2>2, <2>3, <2>4 DEF RemoveFile, NotFound, Crash, table
<1>2. CASE RemoveStats(w)
  <2>1. /\ pc[w] = "remove_stats" /\ fault = "none" /\ delta' = [delta EXCEPT ![w] = 0]
        /\ pc' = [pc EXCEPT ![w] = "idle"] /\ heap' = heap
        /\ stats' = [stats EXCEPT !.open_count = Plus(@, -1), !.items_count = Plus(@, -1),
                                  !.total_space = Plus(@, delta[w])]
    BY <1>2 DEF RemoveStats, At, Return, table
  <2>2. /\ stats'.items_count = Plus(stats.items_count, -1)
        /\ stats'.total_space = Plus(stats.total_space, delta[w])
    BY <2>1, CounterTypes DEF TypeOK, CountersTypeOK
  <2>3. Live' = Live /\ StoredBytes' = StoredBytes
    BY <2>1, HeapUnchanged, KeptBytes
  <2>4. delta[w] <= 0
    BY <2>1 DEF CountersInv, DebtsInv, Running
  <2>5. Balance(w, "idle", 0, -1, 0, delta[w], 0)
    BY <2>1, <2>2, <2>3, <2>4, CounterTypes DEF Balance, Spending, Owes
  <2>6. delta[w] \in Int
    BY CounterTypes
  <2> QED
    BY <2>5, <2>6, IntoBalanced DEF Labels
<1> QED
  BY <1>1, <1>2

\* An eviction takes the item off the list and off the counters in one step.
LEMMA EvictionBalanced ==
  ASSUME CountersInv, NEW w \in Worker, NEW p \in Live, Freed(p), EvictStats(heap[p]),
         pc[w] = "evict", fault = "none", pc' = pc, delta' = delta
  PROVE  Balanced(w)
<1> DEFINE d == -heap[p].length_in_bytes
<1>1. /\ Cardinality(Live') = Cardinality(Live) - 1
      /\ StoredBytes' = StoredBytes - heap[p].length_in_bytes
  BY CounterTypes, FreedBytes
<1>2. heap[p].length_in_bytes \in Nat
  BY CounterTypes, LiveItem DEF TypeOK, Item
<1>3. /\ stats'.items_count = Plus(stats.items_count, -1)
      /\ stats'.total_space = Plus(stats.total_space, d)
  BY CounterTypes DEF TypeOK, CountersTypeOK, EvictStats
<1>4. delta[w] = 0
  BY DEF CountersInv, DebtsInv, Running
<1>5. pc' = [pc EXCEPT ![w] = "evict"] /\ delta' = [delta EXCEPT ![w] = 0]
      /\ d \in Int /\ StoredBytes' = StoredBytes + d /\ Cardinality(Live') = Cardinality(Live) + (-1)
  BY <1>1, <1>2, <1>4, CounterTypes
<1> HIDE DEF d
<1>6. "evict" \in Spending /\ Owes("evict") = 0
  BY DEF Spending, Owes
<1>7. -1 + Owes("evict") - Owes(pc[w]) = -1 /\ d + 0 - delta[w] = d /\ 0 <= 0
  BY <1>4, <1>5, <1>6
<1>8. Balance(w, "evict", 0, -1, -1, d, d)
  BY ONLY <1>3, <1>5, <1>6, <1>7, Zenon DEF Balance
<1> QED
  BY <1>5, <1>8, IntoBalanced DEF Labels

LEMMA WriteBalanced ==
  ASSUME CountersInv, NEW w \in Worker, fault' = "none",
         WriteStats(w) \/ EvictLock(w) \/ EvictDone(w)
  PROVE  Balanced(w)
<1>1. CASE WriteStats(w)
  <2>1. /\ pc[w] = "write_stats" /\ fault = "none" /\ delta' = [delta EXCEPT ![w] = 0]
        /\ pc' = [pc EXCEPT ![w] = "evict_lock"] /\ heap' = heap
    BY <1>1 DEF WriteStats, At, Goto, table
  <2>2. /\ stats'.items_count = stats.items_count
        /\ stats'.total_space = Plus(stats.total_space, delta[w])
    BY <1>1, CounterTypes DEF WriteStats, TypeOK, CountersTypeOK
  <2>3. Live' = Live /\ StoredBytes' = StoredBytes
    BY <2>1, HeapUnchanged, KeptBytes
  <2>4. Balance(w, "evict_lock", 0, 0, 0, delta[w], 0)
    BY <2>1, <2>2, <2>3, CounterTypes DEF Balance, Spending, Owes
  <2>5. delta[w] \in Int
    BY CounterTypes
  <2> QED
    BY <2>4, <2>5, IntoBalanced DEF Labels
<1>2. CASE EvictLock(w)
  <2>1. /\ pc[w] = "evict_lock" /\ fault = "none" /\ delta' = delta /\ stats' = stats
        /\ pc' = [pc EXCEPT ![w] = "evict"] /\ heap' = heap
    BY <1>2 DEF EvictLock, At, Goto, table, locals
  <2>2. Live' = Live /\ StoredBytes' = StoredBytes
    BY <2>1, HeapUnchanged, KeptBytes
  <2>3. delta[w] = 0
    BY <2>1 DEF CountersInv, DebtsInv, Running
  <2>4. delta' = [delta EXCEPT ![w] = 0]
    BY <2>1, <2>3, CounterTypes
  <2>5. "evict" \in Spending /\ Owes("evict") = 0 /\ Owes("evict_lock") = 0
    BY DEF Spending, Owes
  <2>6. /\ 0 + Owes("evict") - Owes(pc[w]) = 0 /\ 0 + 0 - delta[w] = 0 /\ 0 <= 0
        /\ stats'.items_count = Plus(stats.items_count, 0)
        /\ stats'.total_space = Plus(stats.total_space, 0)
        /\ Cardinality(Live') = Cardinality(Live) + 0 /\ StoredBytes' = StoredBytes + 0
    BY <2>1, <2>2, <2>3, <2>5, CounterTypes
  <2>7. Balance(w, "evict", 0, 0, 0, 0, 0)
    BY ONLY <2>1, <2>4, <2>5, <2>6, Zenon DEF Balance
  <2> QED
    BY <2>7, IntoBalanced DEF Labels
<1>3. CASE EvictDone(w)
  <2>1. /\ pc[w] = "evict" /\ fault = "none" /\ delta' = [delta EXCEPT ![w] = 0] /\ stats' = stats
        /\ pc' = [pc EXCEPT ![w] = "idle"] /\ heap' = heap /\ ~OverLimit
    BY <1>3 DEF EvictDone, At, Return, table
  <2>2. stats.total_space <= MaxSpace
    BY <2>1, CounterTypes DEF OverLimit, SizeT
  <2>3. \A a \in Addr : Relinked(a)
    BY <2>1, HeapUnchanged
  <2> QED
    BY <2>1, <2>2, <2>3, QuietStep DEF Owes, Labels, Spending
<1> QED
  BY <1>1, <1>2, <1>3

LEMMA StepBalanced ==
  ASSUME CountersInv, NEW w \in Worker, Step(w), fault' = "none"
  PROVE  Balanced(w) \/ UNCHANGED vars
<1>0. TypeOK /\ HasRequest
  BY DEF CountersInv
<1>1. CASE LockFile(w) \/ UnlockFile(w) \/ OpenFile(w) \/ CloseFile(w)
  BY <1>1, LockingBalanced
<1>2. CASE WriteContents(w)
  BY <1>2, WriteContentsBalanced
<1>3. CASE CreateFetch(w) \/ CreateItem(w) \/ CreateLink(w) \/ CreateStats(w)
  BY <1>3, CreateBalanced
<1>4. CASE RemoveFile(w) \/ RemoveStats(w)
  BY <1>4, RemoveBalanced
<1>5. CASE WriteStats(w) \/ EvictLock(w) \/ EvictDone(w)
  BY <1>5, WriteBalanced
<1>6. CASE OpenCloseStats(w)
  <2>1. /\ pc[w] \in {"open_stats", "close_stats"} /\ fault = "none" /\ heap' = heap
        /\ delta' = [delta EXCEPT ![w] = 0] /\ pc' = [pc EXCEPT ![w] = "idle"]
    BY <1>6 DEF OpenCloseStats, At, Return, table
  <2>2. stats'.items_count = stats.items_count /\ stats'.total_space = stats.total_space
    BY <1>6, CounterTypes DEF OpenCloseStats, TypeOK, CountersTypeOK
  <2>3. \A a \in Addr : Relinked(a)
    BY <2>1, HeapUnchanged
  <2> QED
    BY <2>1, <2>2, <2>3, QuietStep DEF Owes, Labels, Spending
<1>7. ASSUME NEW b \in Bucket, EvictSegmented(w, b) PROVE Balanced(w) \/ UNCHANGED vars
  <2> DEFINE p == last[b]
             before == heap[p].prev
  <2>1. CASE /\ p \in Live /\ before \in Live \cup {NULL}
             /\ heap' = [(IF before # NULL THEN [heap EXCEPT ![before].next = NULL] ELSE heap)
                          EXCEPT ![p] = NULL]
             /\ EvictStats(heap[p]) /\ pc' = pc /\ delta' = delta
    <3>1. Freed(p)
      BY <1>0, <2>1, CutRule DEF Freed
    <3>2. pc[w] = "evict" /\ fault = "none"
      BY <1>7 DEF EvictSegmented, At
    <3> HIDE DEF p
    <3> QED
      BY <2>1, <3>1, <3>2, EvictionBalanced
  <2> QED
    BY <1>7, <2>1 DEF EvictSegmented, Crash, locals
<1>8. CASE EvictFifo(w)
  <2> DEFINE k == fifo.node[fifo.last].key
             p == Fetch(k)
  <2>1. /\ fifo.last # NULL /\ fifo.node[fifo.last] # NULL
        /\ p \in Live /\ SafeToUnlink(p) /\ Unlink(p, Hash[k])
        /\ EvictStats(heap[p]) /\ pc' = pc /\ delta' = delta
    BY <1>8 DEF EvictFifo, Crash, locals
  <2>2. Hash[k] \in Bucket
    BY <1>0, <2>1 DEF TypeOK, CountersTypeOK, NodePointer
  <2>3. Freed(p)
    BY <1>0, <2>1, <2>2, UnlinkRule DEF Freed
  <2>4. pc[w] = "evict" /\ fault = "none"
    BY <1>8 DEF EvictFifo, At
  <2> HIDE DEF p
  <2> QED
    BY <2>1, <2>3, <2>4, EvictionBalanced
<1>9. CASE ReadFetch(w) \/ ReadRelease(w) \/ VisitHead(w) \/ VisitLock(w) \/ VisitNext(w)
           \/ VisitBucket(w) \/ VisitSend(w)
  <2>1. /\ pc[w] \in {"read", "read_send", "visit", "visit_lock", "visit_next", "visit_bucket",
                      "visit_send"}
        /\ fault = "none" /\ heap' = heap /\ stats' = stats
    BY <1>9 DEF ReadFetch, ReadRelease, VisitHead, VisitLock, VisitNext, VisitBucket, VisitSend, At,
                NotFound, Crash, table
  <2>2. delta' = delta \/ delta' = [delta EXCEPT ![w] = 0]
    BY <1>9 DEF ReadFetch, ReadRelease, VisitHead, VisitLock, VisitNext, VisitBucket, VisitSend,
                NotFound, Crash, Return, locals
  <2>3. \E l \in {"idle", "read_send", "visit_lock", "visit_next", "visit_bucket", "visit_send"} :
          pc' = [pc EXCEPT ![w] = l]
    <3>1. CASE ReadFetch(w) \/ ReadRelease(w) \/ VisitHead(w) \/ VisitLock(w) \/ VisitSend(w)
      BY <3>1 DEF ReadFetch, ReadRelease, VisitHead, VisitLock, VisitSend,
                  NotFound, Crash, Return, Goto
    <3>2. CASE VisitNext(w) \/ VisitBucket(w)
      BY <3>2 DEF VisitNext, VisitBucket, Crash, Return, Goto
    <3> QED
      BY <1>9, <3>1, <3>2
  <2>4. \A a \in Addr : Relinked(a)
    BY <2>1, HeapUnchanged
  <2>5. PICK l \in {"idle", "read_send", "visit_lock", "visit_next", "visit_bucket", "visit_send"} :
          pc' = [pc EXCEPT ![w] = l]
    BY <2>3
  <2>6. /\ l \in Labels /\ Owes(l) = 0 /\ Owes(pc[w]) = 0 /\ l \notin Spending \cup {"remove_stats"}
        /\ pc[w] \notin Spending \cup {"remove_stats"}
    BY <2>1 DEF Owes, Labels, Spending
  <2>7. stats'.items_count = stats.items_count /\ stats'.total_space = stats.total_space
        /\ pc[w] \notin {"write_stats", "remove_stats"}
    BY <2>1
  <2> QED
    BY <2>1, <2>2, <2>4, <2>5, <2>6, <2>7, QuietStep
<1> QED
  BY <1>1, <1>2, <1>3, <1>4, <1>5, <1>6, <1>7, <1>8, <1>9 DEF Step

LEMMA BeginBalanced ==
  ASSUME CountersInv, NEW w \in Worker, Begin(w)
  PROVE  Balanced(w)
<1>1. /\ pc[w] = "idle" /\ fault = "none" /\ heap' = heap /\ stats' = stats /\ delta' = delta
  BY DEF Begin, At, table, locals
<1>2. PICK op \in ApiOp : pc' = [pc EXCEPT ![w] = EntryPoint(op)]
  BY DEF Begin
<1>3. EntryPoint(op) \in EntryLabels
  BY DEF EntryPoint, ApiOp, EntryLabels
<1>4. \A l \in EntryLabels : /\ l \in Labels /\ Owes(l) = 0
                             /\ l \notin Spending \cup {"remove_stats"}
  BY DEF Owes, Labels, Spending, EntryLabels
<1>5. Owes(pc[w]) = 0 /\ pc[w] \notin {"write_stats", "remove_stats"} /\ pc[w] \notin Spending
  BY <1>1 DEF Owes, Spending
<1>6. \A a \in Addr : Relinked(a)
  BY <1>1, HeapUnchanged
<1>7. PICK l \in EntryLabels : pc' = [pc EXCEPT ![w] = l]
  BY <1>2, <1>3
<1> QED
  BY <1>1, <1>4, <1>5, <1>6, <1>7, QuietStep

LEMMA NextBalanced ==
  ASSUME CountersInv, [Next]_vars, fault' = "none"
  PROVE  (fault = "none" /\ \E w \in Worker : Balanced(w)) \/ UNCHANGED vars
<1>1. ASSUME NEW w \in Worker, Step(w) PROVE fault = "none"
  BY <1>1 DEF Step, LockFile, UnlockFile, OpenFile, CloseFile, OpenCloseStats, CreateFetch,
     CreateItem, CreateLink, CreateStats, RemoveFile, RemoveStats, WriteContents, WriteStats,
     EvictLock, EvictDone, EvictSegmented, EvictFifo, ReadFetch, ReadRelease, VisitHead,
     VisitLock, VisitNext, VisitBucket, VisitSend, At
<1>2. ASSUME NEW w \in Worker, Begin(w) PROVE fault = "none"
  BY <1>2 DEF Begin, At
<1> QED
  BY <1>1, <1>2, StepBalanced, BeginBalanced DEF Next, Terminated

\* What the counters owe to the calls in progress is inductive.
LEMMA NextCountersInv == ASSUME CountersInv, [Next]_vars PROVE CountersInv'
<1>1. TypeOK' /\ HasRequest'
  BY NextType, NextHasRequest DEF CountersInv
<1>2. CASE fault' # "none"
  BY <1>1, <1>2 DEF CountersInv, ItemsAccounted, SpaceAccounted, DebtsInv, Running
<1>3. CASE fault' = "none"
  <2>1. CASE UNCHANGED vars
    <3>1. UNCHANGED <<heap, stats, pc, delta, fault>>
      BY <2>1 DEF vars
    <3>2. ItemsAccounted' <=> ItemsAccounted
      BY <3>1 DEF ItemsAccounted, Running, Pending, Live
    <3>3. SpaceAccounted' <=> SpaceAccounted
      BY <3>1 DEF SpaceAccounted, Running, StoredBytes, Bytes, Live
    <3>4. DebtsInv' <=> DebtsInv
      BY <3>1 DEF DebtsInv, Running
    <3> QED
      BY <1>1, <3>2, <3>3, <3>4 DEF CountersInv
  <2>2. CASE fault = "none" /\ \E w \in Worker : Balanced(w)
    BY <1>1, <2>2, BalanceAccounts DEF Balanced, CountersInv
  <2> QED
    BY <1>3, <2>1, <2>2, NextBalanced
<1> QED
  BY <1>2, <1>3

LEMMA InitCountersInv == Init => CountersInv /\ LimitInv
<1> SUFFICES ASSUME Init PROVE CountersInv /\ LimitInv
  OBVIOUS
<1>1. TypeOK /\ HasRequest
  BY InitType
<1>2. Live = {} /\ Cardinality(Live) = 0
  BY FS_EmptySet DEF Init, Live
<1>3. \A L : "idle" \notin L => Pending(L) = 0
  <2>1. \A L : "idle" \notin L => {w \in Worker : pc[w] \in L} = {}
    BY DEF Init
  <2> QED
    BY <2>1, FS_EmptySet DEF Pending
<1>4. "idle" \notin {"create_link", "create_stats"} /\ "idle" \notin {"remove_stats"}
  OBVIOUS
<1>5. Pending({"create_link", "create_stats"}) = 0 /\ Pending({"remove_stats"}) = 0
  BY ONLY <1>3, <1>4, Zenon
<1>6. StoredBytes = 0
  <2>1. Bytes \in [Addr -> Int] /\ \A a \in Addr : Bytes[a] = 0
    BY <1>2 DEF Bytes
  <2>2. IsFiniteSet(Addr)
    OBVIOUS
  <2> HIDE DEF Bytes
  <2> QED
    BY <2>1, <2>2, SumNat DEF StoredBytes
<1>7. SumFunction(delta) = 0
  <2>1. delta \in [Worker -> Int] /\ \A w \in Worker : delta[w] = 0
    BY DEF Init
  <2>2. IsFiniteSet(Worker)
    OBVIOUS
  <2> QED
    BY <2>1, <2>2, SumNat
<1>8. stats.items_count = 0 /\ stats.total_space = 0 /\ 0 \in SizeT /\ Plus(0, 0) = 0
  BY PlusZero DEF Init, SizeT
<1>9. ItemsAccounted
  BY <1>2, <1>5, <1>8 DEF ItemsAccounted
<1>10. SpaceAccounted
  BY <1>6, <1>7, <1>8 DEF SpaceAccounted
<1>11. DebtsInv
  BY DEF DebtsInv, Init
<1>12. LimitInv
  BY <1>6, <1>7 DEF LimitInv
<1> QED
  BY <1>1, <1>9, <1>10, <1>11, <1>12 DEF CountersInv

LEMMA CountersInvariant == Spec => []CountersInv
  BY InitCountersInv, NextCountersInv, PTL DEF Spec

\* stats.items_count stays the number of allocated items, give or take the calls between the
\* list and the counters, although creations, removals and evictions update the list and the
\* counter under two mutexes (htable.c:296-332, 369-397, 680-702); the wrap-around of size_t
\* never loses track.
THEOREM ItemsAreCounted == Spec => []ItemsAccounted
<1>1. CountersInv => ItemsAccounted
  BY DEF CountersInv
<1> QED
  BY <1>1, CountersInvariant, PTL

\* stats.total_space_in_bytes stays the number of stored bytes, give or take what writers
\* and removers have not yet reported.
THEOREM BytesAreCounted == Spec => []SpaceAccounted
<1>1. CountersInv => SpaceAccounted
  BY DEF CountersInv
<1> QED
  BY <1>1, CountersInvariant, PTL

-----------------------------------------------------------------------------
(* The storage limit. *)

LEMMA SameResidue ==
  ASSUME NEW x \in SizeT, NEW y \in SizeT, Plus(x, 0 - y) = 0 PROVE x = y
<1>1. x \in Int /\ y \in Int /\ 0 - y \in Int /\ (0 - y) + y = 0 /\ 0 + y = y
  BY DEF SizeT
<1>2. Plus(Plus(x, 0 - y), y) = Plus(x, (0 - y) + y)
  BY <1>1, PlusPlus
<1>3. Plus(x, 0) = x /\ Plus(y, 0) = y
  BY PlusZero
<1>4. Plus(0, y) = Plus(y, 0)
  BY <1>1 DEF Plus
<1> QED
  BY <1>1, <1>2, <1>3, <1>4

\* What total_space stands for once nobody owes it a write.
LEMMA NoDebt ==
  ASSUME CountersInv, fault = "none", \A w \in Worker : pc[w] \notin Spending
  PROVE  SumFunction(delta) <= 0
<1>1. delta \in [Worker -> Int] /\ \A w \in Worker : delta[w] <= 0
  BY DEF CountersInv, TypeOK, WorkerTypeOK, DebtsInv, Running, Spending
<1>2. IsFiniteSet(Worker)
  OBVIOUS
<1> QED
  BY <1>1, <1>2, SumNonPositive

LEMMA NextLimitInv ==
  ASSUME CountersInv, LimitInv, BytesFit, BytesFit', [Next]_vars PROVE LimitInv'
<1>1. SUFFICES ASSUME fault' = "none", \A w \in Worker : pc'[w] \notin Spending
               PROVE  StoredBytes' - SumFunction(delta') <= MaxSpace
  BY DEF LimitInv, Running, Spending
<1>2. CASE UNCHANGED vars
  <2>1. UNCHANGED <<heap, pc, delta, fault>>
    BY <1>2 DEF vars
  <2>2. StoredBytes' = StoredBytes
    BY <2>1 DEF StoredBytes, Bytes, Live
  <2> QED
    BY <1>1, <2>1, <2>2 DEF LimitInv, Running, Spending
<1>3. ASSUME fault = "none", NEW w \in Worker, NEW l \in Labels, NEW v \in Int, NEW i \in Int,
             NEW n \in Int, NEW s \in Int, NEW m \in Int, Balance(w, l, v, i, n, s, m)
      PROVE  StoredBytes' - SumFunction(delta') <= MaxSpace
  <2>1. SumFunction(delta') = SumFunction(delta) - delta[w] + v
    BY <1>3, CounterTypes, DeltaMove DEF Balance
  <2>2. SumFunction(delta) \in Int /\ StoredBytes \in Int /\ delta[w] \in Int
    BY CounterTypes, BytesType
  <2>3. StoredBytes' = StoredBytes + m /\ s + v - delta[w] = m
    BY <1>3 DEF Balance
  <2>4. StoredBytes' - SumFunction(delta') = StoredBytes - SumFunction(delta) + s
    BY <2>1, <2>2, <2>3
  <2>5. l \notin Spending /\ \A u \in Worker \ {w} : pc[u] \notin Spending
    BY <1>1, <1>3, CounterTypes DEF Balance
  <2>6. CASE pc[w] \notin Spending
    <3>1. s <= 0
      BY <1>3, <2>5, <2>6 DEF Balance
    <3>2. StoredBytes - SumFunction(delta) <= MaxSpace
      BY <1>3, <2>5, <2>6 DEF LimitInv, Running, Spending
    <3> QED
      BY <2>2, <2>4, <3>1, <3>2
  <2>7. CASE pc[w] \in Spending
    <3>1. s = 0 /\ stats.total_space <= MaxSpace
      BY <1>3, <2>5, <2>7 DEF Balance
    <3>2. CountersInv'
      BY NextCountersInv
    <3>3. SumFunction(delta') <= 0
      <4>1. CountersInv' /\ fault' = "none" /\ \A u \in Worker : pc'[u] \notin Spending
        BY <1>1, <3>2
      <4>2. delta' \in [Worker -> Int] /\ \A u \in Worker : delta'[u] <= 0
        BY <4>1 DEF CountersInv, TypeOK, WorkerTypeOK, DebtsInv, Running, Spending
      <4>3. IsFiniteSet(Worker)
        OBVIOUS
      <4> QED
        BY <4>2, <4>3, SumNonPositive
    <3> DEFINE g == StoredBytes - SumFunction(delta)
    <3>4. StoredBytes' \in Nat /\ SumFunction(delta') \in Int
      <4>1. heap' \in [Addr -> Item \cup {NULL}]
        BY <3>2 DEF CountersInv, TypeOK, TableTypeOK
      <4>2. \A a \in Live' : heap'[a].length_in_bytes \in Nat
        BY <4>1 DEF Live, Item
      <4>3. Bytes' \in [Addr -> Int] /\ \A a \in Addr : Bytes'[a] \in Nat
        BY <4>2 DEF Bytes
      <4>4. IsFiniteSet(Addr)
        OBVIOUS
      <4>5. StoredBytes' \in Nat
        BY <4>3, <4>4, SumNat DEF StoredBytes
      <4> QED
        BY <2>1, <2>2, <4>5
    <3>5. g \in SizeT
      <4>1. g \in Int /\ g >= 0
        BY <2>2, <2>4, <3>1, <3>3, <3>4
      <4>2. g < Word
        BY DEF BytesFit
      <4> QED
        BY <4>1, <4>2 DEF SizeT
    <3>6. Plus(stats.total_space, 0 - g) = 0
      <4>1. SumFunction(delta) - StoredBytes = 0 - g
        BY <2>2
      <4> QED
        BY <1>3, <4>1 DEF CountersInv, SpaceAccounted, Running
    <3>7. stats.total_space \in SizeT
      BY CounterTypes
    <3> HIDE DEF g
    <3>8. g = stats.total_space
      BY <3>5, <3>6, <3>7, SameResidue
    <3> QED
      BY <2>2, <2>4, <3>1, <3>8 DEF g
  <2> QED
    BY <2>6, <2>7
<1> QED
  BY <1>1, <1>2, <1>3, NextBalanced DEF Balanced

\* The storage limit holds whenever no call is in progress, for both policies and whatever
\* writes, removals and evictions overlapped before, as long as size_t can hold the number of
\* bytes that total_space_in_bytes stands for.
THEOREM LimitIsKept == Spec /\ []BytesFit => []WithinSpaceAtRest
<1>1. CountersInv /\ LimitInv => WithinSpaceAtRest
  <2> SUFFICES ASSUME CountersInv, LimitInv, fault = "none", Idle PROVE StoredBytes <= MaxSpace
    BY DEF WithinSpaceAtRest, Running
  <2>1. \A w \in Worker : pc[w] \notin Spending
    BY DEF Idle, Spending
  <2>2. SumFunction(delta) <= 0 /\ SumFunction(delta) \in Int /\ StoredBytes \in Int
    BY <2>1, NoDebt, BytesType DEF CountersInv
  <2>3. StoredBytes - SumFunction(delta) <= MaxSpace
    BY <2>1 DEF LimitInv, Running, Spending
  <2> QED
    BY <2>2, <2>3
<1>2. CountersInv /\ LimitInv /\ BytesFit /\ BytesFit' /\ [Next]_vars => (CountersInv /\ LimitInv)'
  BY NextCountersInv, NextLimitInv
<1> QED
  BY <1>1, <1>2, InitCountersInv, PTL DEF Spec
=============================================================================
