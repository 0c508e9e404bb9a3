-------------------------- MODULE HTableRefinement --------------------------
(***************************************************************************)
(* The hash table of HTable as an implementation of FileStore.  A file of  *)
(* the store is what a lookup of its path returns; a request takes effect  *)
(* in the critical section that changes or reads its item (for a creation, *)
(* the one that links the item), and what a worker does afterwards to the  *)
(* counters is invisible.                                                  *)
(***************************************************************************)
EXTENDS HTableProps

\* The labels at which a request has taken effect and its result is decided.
Settled == {"open_stats", "close_stats", "create_stats", "remove_stats", "read_send"}
Evicting == {"write_stats", "evict_lock", "evict"}

\* What a client can see of an item.
FileOf(item) ==
  [length_in_bytes |-> item.length_in_bytes, contents |-> item.contents,
   fd_owner |-> item.fd_owner, is_open |-> item.is_open, is_locked |-> item.is_locked,
   subs |-> item.subs]

FileAt(k) == IF Fetch(k) \in Live THEN FileOf(heap[Fetch(k)]) ELSE NULL

FilesBar == [k \in Key |-> FileAt(k)]
CallBar ==
  [w \in Worker |-> IF pc[w] \in {"idle"} \cup Settled \cup Evicting THEN NULL ELSE req[w]]
ResultBar ==
  [w \in Worker |->
     CASE pc[w] = "idle" -> ret[w] [] pc[w] \in Settled -> "OK" [] OTHER -> NULL]
EvictingBar == {w \in Worker : pc[w] \in Evicting}

Store == INSTANCE FileStore WITH
  Request <- [w \in Worker |-> [op: Api[w], key: Key, fd: Fd, arg: Size \cup Visits \cup {0}]],
  RunsDry <- Policy = "fifo",
  files <- FilesBar, call <- CallBar, result <- ResultBar, evicting <- EvictingBar,
  alive <- Running

\* A null pointer is no struct.
ASSUME StoreNullAssumption == NULL \notin Store!File

\* While one worker changes the lists and the others open, close, read, lock and unlock, the
\* hash table is an atomic store: every call of htable.h takes effect at one point between
\* its call and its return, with the result that htable.h defines, files leave only by
\* removal or by an eviction while a limit is exceeded, and an eviction goes on until
\* none is.  (htable_visit reads bucket->head without the mutex, htable.c:483-486, and may
\* follow an item that was freed meanwhile.)
ImplementsStore == Store!Spec
=============================================================================
