-------------------------- MODULE HTableListProofs --------------------------
(***************************************************************************)
(* Proofs about the collision lists of the storage, for servers in which   *)
(* one worker is given the requests that change them: the lists stay well  *)
(* formed, a lookup finds every file, the process does not die, and the    *)
(* storage is an atomic store.                                             *)
(***************************************************************************)
EXTENDS HTableProofs, HTableRefinement

USE HTableAssumption DEF HTableAssumption

-----------------------------------------------------------------------------
(* What a lookup finds. *)

\* The places that htable_fetch_item visits.
Walk(k) ==
  LET after == [p \in Pointer |-> IF p \in Live /\ heap[p].key # k THEN heap[p].next ELSE p]
      walk[n \in 0 .. Cardinality(Addr)] ==
        IF n = 0 THEN head[Hash[k]] ELSE after[walk[n - 1]]
  IN  walk

LEMMA WalkRule ==
  ASSUME TableTypeOK, NEW k \in Key
  PROVE  /\ Cardinality(Addr) \in Nat
         /\ Walk(k) \in [0 .. Cardinality(Addr) -> Pointer]
         /\ Walk(k)[0] = head[Hash[k]]
         /\ \A n \in 1 .. Cardinality(Addr) :
              LET p == Walk(k)[n - 1] IN
              Walk(k)[n] = IF p \in Live /\ heap[p].key # k THEN heap[p].next ELSE p
<1> DEFINE N == Cardinality(Addr)
           after == [p \in Pointer |-> IF p \in Live /\ heap[p].key # k THEN heap[p].next ELSE p]
           walk[n \in 0 .. N] == IF n = 0 THEN head[Hash[k]] ELSE after[walk[n - 1]]
           step == [n \in 1 .. N |-> after]
<1>1. N \in Nat
  BY FS_CardinalityType
<1>2. head[Hash[k]] \in Pointer
  BY DEF TableTypeOK
<1>3. after \in [Pointer -> Pointer]
  BY LiveItem DEF Item
<1>a. \A p \in Pointer : after[p] = IF p \in Live /\ heap[p].key # k THEN heap[p].next ELSE p
  OBVIOUS
<1>b. Walk(k) = walk
  BY DEF Walk
<1> HIDE DEF N, after
<1>4. PICK g \in [0 .. N -> Pointer] :
        g[0] = head[Hash[k]] /\ \A n \in 1 .. N : g[n] = after[g[n - 1]]
  <2>1. step \in [1 .. N -> [Pointer -> Pointer]]
    BY <1>3
  <2>2. \A n \in 1 .. N : step[n] = after
    OBVIOUS
  <2> HIDE DEF step
  <2>3. \E g : RecursionRule(Pointer, head[Hash[k]], step, N, g)
    BY <1>1, <1>2, <2>1, Recursion
  <2> QED
    BY <2>2, <2>3 DEF RecursionRule
<1>5. g = [n \in 0 .. N |-> IF n = 0 THEN head[Hash[k]] ELSE after[g[n - 1]]]
  BY <1>1, <1>4
<1>6. walk = [n \in 0 .. N |-> IF n = 0 THEN head[Hash[k]] ELSE after[walk[n - 1]]]
  BY <1>5
<1>7. PICK h : h = walk
  OBVIOUS
<1> HIDE DEF walk, step
<1>8. /\ DOMAIN h = 0 .. N /\ h[0] = head[Hash[k]]
      /\ \A n \in 1 .. N : h[n] = after[h[n - 1]]
      /\ h = [n \in 0 .. N |-> h[n]]
  <2>1. h = [n \in 0 .. N |-> IF n = 0 THEN head[Hash[k]] ELSE after[h[n - 1]]]
    BY <1>6, <1>7
  <2>2. DOMAIN h = 0 .. N /\ \A n \in 0 .. N : h[n] = IF n = 0 THEN head[Hash[k]] ELSE after[h[n - 1]]
    BY <2>1
  <2>3. 0 \in 0 .. N /\ \A n \in 1 .. N : n \in 0 .. N /\ n # 0
    BY <1>1
  <2>4. h = [n \in 0 .. N |-> h[n]]
    BY <2>1, <2>2
  <2> QED
    BY <2>2, <2>3, <2>4
<1> DEFINE P == {n \in 0 .. N : h[n] \in Pointer}
<1>9. 0 .. N \subseteq P
  <2>1. 0 \in P
    BY <1>1, <1>2, <1>8
  <2>2. ASSUME NEW n \in 1 .. N, n - 1 \in P PROVE n \in P
    <3>1. n \in 0 .. N
      BY <1>1, <2>2
    <3>2. h[n - 1] \in Pointer
      BY <2>2
    <3>3. h[n] = after[h[n - 1]]
      BY <1>8, <2>2
    <3>4. h[n] \in Pointer
      BY <1>3, <3>2, <3>3
    <3> QED
      BY <3>1, <3>4
  <2> HIDE DEF P
  <2> QED
    BY <1>1, <2>1, <2>2, UpTo
<1>10. h \in [0 .. N -> Pointer]
  BY <1>8, <1>9
<1>11. ASSUME NEW n \in 1 .. N
       PROVE  LET p == h[n - 1] IN
              h[n] = IF p \in Live /\ heap[p].key # k THEN heap[p].next ELSE p
  <2>1. h[n - 1] \in Pointer
    BY <1>1, <1>10
  <2> QED
    BY <1>8, <1>a, <2>1
<1> QED
  BY <1>1, <1>7, <1>8, <1>10, <1>11, <1>b DEF N

LEMMA FetchEnd ==
  ASSUME TableTypeOK, NEW k \in Key
  PROVE  LET end == Walk(k)[Cardinality(Addr)] IN
         Fetch(k) = IF end = NULL \/ (end \in Live /\ heap[end].key = k) THEN end ELSE WILD
  BY DEF Fetch, Walk

\* What ListInv says of the links.
LEMMA LinkedItem ==
  ASSUME TableTypeOK, ListInv, Running
  PROVE  /\ NULL \notin Live /\ Linked \subseteq Live /\ Live \subseteq Addr
         /\ \A a \in Live : heap[a] \in Item /\ heap[a].key \in Key
         /\ \A b \in Bucket : head[b] \in Linked \cup {NULL} /\ last[b] \in Linked \cup {NULL}
         /\ \A a \in Linked :
              heap[a].next \in Linked \cup {NULL} /\ heap[a].prev \in Linked \cup {NULL}
<1>1. NULL \notin Live /\ Linked \subseteq Live /\ Live \subseteq Addr
  BY DEF Live, Linked
<1>2. \A a \in Live : heap[a] \in Item /\ heap[a].key \in Key
  BY LiveItem DEF Item
<1>3. \A b \in Bucket : head[b] \in Linked \cup {NULL} /\ last[b] \in Linked \cup {NULL}
  BY DEF ListInv, ListsWellFormed
<1>4. \A a \in Linked :
        heap[a].next \in Linked \cup {NULL} /\ heap[a].prev \in Linked \cup {NULL}
  BY DEF ListInv, ListsWellFormed
<1> QED
  BY <1>1, <1>2, <1>3, <1>4

\* A walk that reached its key or the end of the list stays there.
LEMMA WalkStops ==
  ASSUME TableTypeOK, NEW k \in Key, NEW m \in 0 .. Cardinality(Addr),
         LET p == Walk(k)[m] IN p \notin Live \/ heap[p].key = k
  PROVE  Walk(k)[Cardinality(Addr)] = Walk(k)[m]
<1> DEFINE N == Cardinality(Addr)
           S == {n \in 0 .. N : n >= m => Walk(k)[n] = Walk(k)[m]}
<1>1. /\ N \in Nat
      /\ \A n \in 1 .. N : LET p == Walk(k)[n - 1] IN
           Walk(k)[n] = IF p \in Live /\ heap[p].key # k THEN heap[p].next ELSE p
  BY WalkRule
<1> HIDE DEF N
<1>2. m \in 0 .. N /\ 0 \in S
  BY <1>1 DEF N
<1>3. ASSUME NEW n \in 1 .. N, n - 1 \in S PROVE n \in S
  <2>1. CASE n - 1 >= m
    BY <1>1, <1>3, <2>1
  <2>2. CASE ~(n - 1 >= m)
    BY <1>1, <1>2, <2>2
  <2> QED
    BY <2>1, <2>2
<1> HIDE DEF S
<1>4. 0 .. N \subseteq S
  BY <1>1, <1>2, <1>3, UpTo
<1>5. N \in S /\ N >= m
  BY <1>1, <1>2, <1>4
<1> QED
  BY <1>5 DEF S, N

\* A lookup ends, at a linked item with its key or at NULL, and finds every linked item.
LEMMA FetchFinds ==
  ASSUME TableTypeOK, ListInv, Running, NEW k \in Key
  PROVE  /\ Fetch(k) \in Linked \cup {NULL}
         /\ Fetch(k) # NULL => heap[Fetch(k)].key = k
         /\ \A a \in Linked : heap[a].key = k => Fetch(k) = a
<1> DEFINE N == Cardinality(Addr)
           h == Walk(k)
           b == Hash[k]
           Stopped(p) == p \notin Live \/ heap[p].key = k
<1>1. /\ N \in Nat /\ h[0] = head[b]
      /\ \A n \in 1 .. N : h[n] = IF Stopped(h[n - 1]) THEN h[n - 1] ELSE heap[h[n - 1]].next
  BY WalkRule
<1>2. \A m \in 0 .. N : Stopped(h[m]) => h[N] = h[m]
  BY WalkStops
<1>3. Fetch(k) = IF h[N] = NULL \/ (h[N] \in Live /\ heap[h[N]].key = k) THEN h[N] ELSE WILD
  BY FetchEnd
<1>4. /\ NULL \notin Live /\ Linked \subseteq Live /\ Live \subseteq Addr
      /\ head[b] \in Linked \cup {NULL}
      /\ \A a \in Linked : heap[a].next \in Linked \cup {NULL}
      /\ \A a \in Linked : heap[a].prev \in Linked \cup {NULL}
  BY LinkedItem
<1>5. PICK rank \in [Addr -> Nat] :
        \A a \in Linked : heap[a].next # NULL => rank[a] < rank[heap[a].next]
  BY DEF ListInv, NoCycle
<1> HIDE DEF N, h
<1>6. \A n \in 0 .. N : h[n] \in Linked \cup {NULL}
  <2> DEFINE S == {n \in 0 .. N : h[n] \in Linked \cup {NULL}}
  <2>1. 0 \in S
    BY <1>1, <1>4
  <2>2. ASSUME NEW n \in 1 .. N, n - 1 \in S PROVE n \in S
    BY <1>1, <1>4, <2>2
  <2> HIDE DEF S
  <2>3. 0 .. N \subseteq S
    BY <1>1, <2>1, <2>2, UpTo
  <2> QED
    BY <2>3 DEF S
<1>7. Stopped(h[N])
  <2> SUFFICES ASSUME ~Stopped(h[N]) PROVE FALSE
    OBVIOUS
  <2>1. \A n \in 0 .. N : ~Stopped(h[n])
    BY <1>2
  <2>2. \A n \in 1 .. N : h[n - 1] \in Linked /\ h[n] \in Linked /\ h[n] = heap[h[n - 1]].next
    BY <1>1, <1>4, <1>6, <2>1
  <2>3. \A n \in 1 .. N : rank[h[n - 1]] < rank[h[n]] /\ rank[h[n - 1]] \in Nat /\ rank[h[n]] \in Nat
    BY <1>4, <1>5, <2>2
  <2> DEFINE S == {n \in 0 .. N : \A m \in 0 .. N : m < n => rank[h[m]] < rank[h[n]]}
  <2>4. 0 \in S
    BY <1>1
  <2>5. ASSUME NEW n \in 1 .. N, n - 1 \in S PROVE n \in S
    <3>1. ASSUME NEW m \in 0 .. N, m < n PROVE rank[h[m]] < rank[h[n]]
      <4>1. h[m] \in Addr /\ rank[h[m]] \in Nat
        BY <1>4, <1>6, <2>1
      <4>2. m = n - 1 \/ m < n - 1
        BY <3>1
      <4> QED
        BY <2>3, <2>5, <4>1, <4>2
    <3> QED
      BY <1>1, <3>1
  <2> HIDE DEF S
  <2>6. 0 .. N \subseteq S
    BY <1>1, <2>4, <2>5, UpTo
  <2>7. \A n \in 0 .. N : h[n] \in Addr
    BY <1>4, <1>6, <2>1
  <2> DEFINE f == [n \in 0 .. N |-> h[n]]
  <2>8. f \in [0 .. N -> Addr]
    BY <2>7
  <2>9. IsFiniteSet(0 .. N) /\ Cardinality(0 .. N) = N + 1
    BY <1>1, FS_Interval
  <2>10. PICK x, y \in 0 .. N : x # y /\ f[x] = f[y]
    <3>1. Cardinality(Addr) < Cardinality(0 .. N)
      BY <1>1, <2>9 DEF N
    <3> HIDE DEF f
    <3> QED
      BY <2>8, <2>9, <3>1, FS_PigeonHole
  <2>11. h[x] = h[y] /\ rank[h[x]] \in Nat
    BY <2>7, <2>10
  <2>12. x < y \/ y < x
    BY <2>10
  <2> QED
    BY <2>6, <2>11, <2>12 DEF S
<1>8. Fetch(k) = h[N]
  <2>1. h[N] \in Linked \cup {NULL}
    BY <1>1, <1>6
  <2> QED
    BY <1>3, <1>4, <1>7, <2>1
<1>9. ASSUME NEW t \in Linked, heap[t].key = k PROVE h[N] = t
  <2> DEFINE Bad == {x \in Linked : /\ Hash[heap[x].key] = b /\ rank[x] <= rank[t]
                                    /\ \A n \in 0 .. N : h[n] # x}
  <2>1. Bad = {}
    <3> SUFFICES ASSUME Bad # {} PROVE FALSE
      OBVIOUS
    <3> DEFINE R == {rank[x] : x \in Bad}
    <3>1. R \in SUBSET Nat /\ R # {}
      BY <1>4
    <3>2. PICK r \in R : \A q \in R : r <= q
      BY <3>1, Least
    <3>3. PICK x \in Bad : \A z \in Bad : rank[x] <= rank[z]
      BY <3>2
    <3>4. x \in Linked /\ Hash[heap[x].key] = b /\ rank[x] <= rank[t] /\ x \in Addr /\ t \in Addr
      BY <1>4
    <3>5. CASE heap[x].prev = NULL
      <4>1. head[b] = x
        BY <3>4, <3>5 DEF ListInv, ListsWellFormed
      <4> QED
        BY <1>1, <4>1
    <3>6. CASE heap[x].prev # NULL
      <4> DEFINE y == heap[x].prev
      <4>1. y \in Linked /\ heap[y].next = x
        BY <3>4, <3>6 DEF ListInv, ListsWellFormed
      <4> HIDE DEF y
      <4>2. x # NULL /\ y \in Addr
        BY <1>4, <3>4, <4>1
      <4>3. rank[y] < rank[x] /\ Hash[heap[y].key] = b
        BY <1>5, <3>4, <4>1, <4>2 DEF ListInv, OwnBucket
      <4>4. rank[x] \in Nat /\ rank[y] \in Nat /\ rank[t] \in Nat
        BY <3>4, <4>2
      <4>5. rank[y] <= rank[t] /\ y # t /\ y \notin Bad
        BY <3>3, <3>4, <4>3, <4>4
      <4>6. PICK n \in 0 .. N : h[n] = y
        BY <4>1, <4>3, <4>5
      <4>7. heap[y].key # k
        BY <1>9, <4>1, <4>5 DEF ListInv, KeysOnce
      <4>8. ~Stopped(h[n])
        BY <1>4, <4>1, <4>6, <4>7
      <4>9. n # N
        BY <1>7, <4>8
      <4>10. n + 1 \in 1 .. N /\ n + 1 \in 0 .. N /\ (n + 1) - 1 = n
        BY <1>1, <4>9
      <4>11. h[n + 1] = x
        BY <1>1, <4>1, <4>6, <4>8, <4>10
      <4> QED
        BY <4>10, <4>11
    <3> QED
      BY <3>5, <3>6
  <2>2. t \in Addr /\ rank[t] \in Nat
    BY <1>4
  <2>3. PICK n \in 0 .. N : h[n] = t
    BY <1>9, <2>1, <2>2
  <2> QED
    BY <1>2, <1>9, <2>3
<1> QED
  BY <1>1, <1>4, <1>6, <1>7, <1>8, <1>9

-----------------------------------------------------------------------------
(* One worker changes the lists. *)

WriterLabels == {"create", "create_item", "create_link", "create_stats", "remove",
                 "remove_stats", "write", "write_stats", "evict_lock", "evict"}

LEMMA OnlyWriter ==
  ASSUME OneWriter, DispatchInv, NEW v \in Worker, NEW w \in Worker,
         pc[v] \in WriterLabels, pc[w] \in WriterLabels
  PROVE  v = w
<1>1. ASSUME NEW u \in Worker, pc[u] \in WriterLabels PROVE Api[u] \cap ListOps # {}
  <2>1. req[u].op \in Api[u] /\ pc[u] \in LabelsOf(req[u].op)
    BY <1>1 DEF DispatchInv, Dispatched, WriterLabels
  <2>2. req[u].op \in ApiOp
    BY <2>1
  <2>3. req[u].op \in ListOps
    BY <1>1, <2>1, <2>2 DEF LabelsOf, ApiOp, WriterLabels, ListOps
  <2> QED
    BY <2>1, <2>3
<1> QED
  BY <1>1 DEF OneWriter

\* The links and the keys of all items stay.
SameLinks ==
  /\ head' = head /\ last' = last
  /\ \A a \in Addr :
       /\ heap'[a] = NULL <=> heap[a] = NULL
       /\ heap[a] # NULL => /\ heap'[a].key = heap[a].key /\ heap'[a].next = heap[a].next
                            /\ heap'[a].prev = heap[a].prev

\* Worker w moves on with request r, next to create an item only if the key is absent.
Quiet(w) ==
  /\ SameLinks /\ pc[w] # "create_link"
  /\ \E l, r, q : /\ pc' = [pc EXCEPT ![w] = l] /\ req' = [req EXCEPT ![w] = r]
                  /\ ref' = [ref EXCEPT ![w] = q]
                  /\ l # "create_link"
                  /\ l = "create_item" => r = req[w] /\ Fetch(r.key) = NULL /\ r.key \in Key

LEMMA QuietKeepsLists ==
  ASSUME TypeOK, ListInv, Running, NEW w \in Worker, Quiet(w)
  PROVE  ListInv'
<1>1. PICK l, r, q : /\ pc' = [pc EXCEPT ![w] = l] /\ req' = [req EXCEPT ![w] = r]
                     /\ ref' = [ref EXCEPT ![w] = q]
                     /\ l # "create_link"
                     /\ l = "create_item" => r = req[w] /\ Fetch(r.key) = NULL /\ r.key \in Key
  BY DEF Quiet
<1>2. /\ pc'[w] = l /\ req'[w] = r
      /\ \A u \in Worker \ {w} : pc'[u] = pc[u] /\ req'[u] = req[u] /\ ref'[u] = ref[u]
  BY <1>1 DEF TypeOK, WorkerTypeOK
<1>3. {ref'[v] : v \in {u \in Worker : pc'[u] = "create_link"}}
        = {ref[v] : v \in {u \in Worker : pc[u] = "create_link"}}
  BY <1>1, <1>2 DEF Quiet
<1>4. Live' = Live
  BY DEF Quiet, SameLinks, Live
<1>5. Linked' = Linked
  BY <1>3, <1>4 DEF Linked
<1>6. /\ head' = head /\ last' = last
      /\ \A a \in Live : /\ heap'[a].key = heap[a].key /\ heap'[a].next = heap[a].next
                         /\ heap'[a].prev = heap[a].prev
  BY DEF Quiet, SameLinks, Live
<1>7. /\ NULL \notin Live /\ Linked \subseteq Live /\ Live \subseteq Addr
      /\ \A b \in Bucket : head[b] \in Linked \cup {NULL} /\ last[b] \in Linked \cup {NULL}
      /\ \A a \in Linked :
           heap[a].next \in Linked \cup {NULL} /\ heap[a].prev \in Linked \cup {NULL}
  BY LinkedItem DEF TypeOK
<1>8. ListsWellFormed'
  <2>1. ASSUME NEW b \in Bucket
        PROVE  /\ head'[b] = NULL <=> last'[b] = NULL
               /\ head'[b] # NULL => head'[b] \in Linked' /\ heap'[head'[b]].prev = NULL
               /\ last'[b] # NULL => last'[b] \in Linked' /\ heap'[last'[b]].next = NULL
    BY <1>5, <1>6, <1>7 DEF ListInv, ListsWellFormed
  <2>2. ASSUME NEW a \in Linked
        PROVE  LET n == heap'[a].next  p == heap'[a].prev  b == Hash[heap'[a].key] IN
               /\ IF n = NULL THEN last'[b] = a ELSE n \in Linked' /\ heap'[n].prev = a
               /\ IF p = NULL THEN head'[b] = a ELSE p \in Linked' /\ heap'[p].next = a
    BY <1>5, <1>6, <1>7 DEF ListInv, ListsWellFormed
  <2> QED
    BY <1>5, <2>1, <2>2 DEF ListsWellFormed
<1>9. OwnBucket'
  <2>1. \A b \in Bucket : \A a \in {head'[b], last'[b]} \ {NULL} : Hash[heap'[a].key] = b
    BY <1>6, <1>7 DEF ListInv, OwnBucket
  <2>2. \A a \in Linked :
          heap'[a].next # NULL => Hash[heap'[heap'[a].next].key] = Hash[heap'[a].key]
    BY <1>6, <1>7 DEF ListInv, OwnBucket
  <2> QED
    BY <1>5, <2>1, <2>2 DEF OwnBucket
<1>10. NoCycle'
  BY <1>5, <1>6, <1>7 DEF ListInv, NoCycle
<1>11. KeysOnce'
  BY <1>5, <1>6, <1>7 DEF ListInv, KeysOnce
<1>12. NewItemFits'
  <2>1. ASSUME NEW u \in Worker, pc'[u] \in {"create_item", "create_link"}, NEW a \in Linked
        PROVE  heap'[a].key # req'[u].key
    <3>1. CASE u = w
      <4>1. Fetch(r.key) = NULL /\ r.key \in Key /\ req'[u] = r
        BY <1>1, <1>2, <2>1, <3>1
      <4>2. heap[a].key # r.key
        BY <1>7, <4>1, FetchFinds DEF TypeOK
      <4> QED
        BY <1>6, <1>7, <4>1, <4>2
    <3>2. CASE u # w
      BY <1>2, <1>6, <1>7, <2>1, <3>2 DEF ListInv, NewItemFits
    <3> QED
      BY <3>1, <3>2
  <2>2. ASSUME NEW u \in Worker, pc'[u] = "create_link"
        PROVE  LET a == ref'[u] IN
               /\ a \in Live /\ heap'[a].key = req'[u].key
               /\ heap'[a].prev = NULL /\ heap'[a].next = head'[Hash[req'[u].key]]
    <3>1. u # w
      BY <1>1, <1>2, <2>2
    <3> QED
      BY <1>2, <1>6, <2>2, <3>1 DEF ListInv, NewItemFits, BucketOf
  <2> QED
    BY <1>4, <1>5, <2>1, <2>2 DEF NewItemFits, BucketOf
<1> QED
  BY <1>8, <1>9, <1>10, <1>11, <1>12 DEF ListInv

\* The item at p leaves its list and is freed.
Removed(p) ==
  LET before == heap[p].prev
      after == heap[p].next
      b == Hash[heap[p].key]
  IN  /\ p \in Live /\ Freed(p)
      /\ \A a \in Live \ {p} :
           /\ heap'[a].next = IF a = before THEN after ELSE heap[a].next
           /\ heap'[a].prev = IF a = after THEN before ELSE heap[a].prev
      /\ head' = IF before = NULL THEN [head EXCEPT ![b] = after] ELSE head
      /\ last' = IF after = NULL THEN [last EXCEPT ![b] = before] ELSE last

LEMMA RemovalKeepsLists ==
  ASSUME TypeOK, ListInv, Running, Linked = Live, Linked' = Live', NewItemFits',
         NEW p, Removed(p)
  PROVE  ListInv' /\ Live' = Live \ {p}
<1> DEFINE before == heap[p].prev
           after == heap[p].next
           b == Hash[heap[p].key]
<1>1. /\ p \in Live /\ heap'[p] = NULL
      /\ \A a \in Addr \ {p} : heap'[a] = NULL <=> heap[a] = NULL
      /\ \A a \in Live \ {p} : heap'[a].key = heap[a].key
      /\ \A a \in Live \ {p} : heap'[a].next = IF a = before THEN after ELSE heap[a].next
      /\ \A a \in Live \ {p} : heap'[a].prev = IF a = after THEN before ELSE heap[a].prev
  <2>1. p \in Live /\ heap'[p] = NULL /\ \A a \in Addr \ {p} : Relinked(a)
    BY DEF Removed, Freed
  <2>2. /\ \A a \in Live \ {p} : heap'[a].next = IF a = before THEN after ELSE heap[a].next
        /\ \A a \in Live \ {p} : heap'[a].prev = IF a = after THEN before ELSE heap[a].prev
    BY DEF Removed
  <2> QED
    BY <2>1, <2>2 DEF Relinked, SameFile, Live
<1>2. /\ NULL \notin Live /\ Live \subseteq Addr
      /\ \A a \in Live : heap[a].key \in Key
      /\ \A c \in Bucket : head[c] \in Live \cup {NULL} /\ last[c] \in Live \cup {NULL}
      /\ \A a \in Live : heap[a].next \in Live \cup {NULL} /\ heap[a].prev \in Live \cup {NULL}
  BY LinkedItem DEF TypeOK
<1>3. Live' = Live \ {p}
  BY <1>1, <1>2 DEF Live
<1>4. b \in Bucket
  BY <1>1, <1>2
<1>5. \A c \in Bucket :
        /\ head'[c] = IF c = b /\ before = NULL THEN after ELSE head[c]
        /\ last'[c] = IF c = b /\ after = NULL THEN before ELSE last[c]
  BY <1>4 DEF Removed, TypeOK, TableTypeOK
<1>6. PICK rank \in [Addr -> Nat] :
        \A a \in Live : heap[a].next # NULL => rank[a] < rank[heap[a].next]
  BY DEF ListInv, NoCycle
<1>7. \A a \in Live :
        LET n == heap[a].next  q == heap[a].prev  c == Hash[heap[a].key] IN
        /\ IF n = NULL THEN last[c] = a ELSE n \in Live /\ heap[n].prev = a
        /\ IF q = NULL THEN head[c] = a ELSE q \in Live /\ heap[q].next = a
        /\ n # NULL => Hash[heap[n].key] = c
  BY DEF ListInv, ListsWellFormed, OwnBucket
<1>8. \A c \in Bucket :
        /\ head[c] = NULL <=> last[c] = NULL
        /\ head[c] # NULL => heap[head[c]].prev = NULL /\ Hash[heap[head[c]].key] = c
        /\ last[c] # NULL => heap[last[c]].next = NULL /\ Hash[heap[last[c]].key] = c
  BY <1>2 DEF ListInv, ListsWellFormed, OwnBucket
<1>9. /\ before # NULL => before \in Live \ {p} /\ heap[before].next = p /\ Hash[heap[before].key] = b
      /\ after # NULL => after \in Live \ {p} /\ heap[after].prev = p /\ Hash[heap[after].key] = b
      /\ before # NULL => before # after
  <2>1. before # NULL => before \in Live /\ heap[before].next = p /\ Hash[heap[before].key] = b
    BY <1>1, <1>2, <1>7
  <2>2. after # NULL => after \in Live /\ heap[after].prev = p /\ Hash[heap[after].key] = b
    BY <1>1, <1>2, <1>7
  <2>3. before # NULL => rank[before] < rank[p] /\ rank[before] \in Nat /\ rank[p] \in Nat
    BY <1>1, <1>2, <1>6, <2>1
  <2>4. after # NULL => rank[p] < rank[after] /\ rank[after] \in Nat /\ rank[p] \in Nat
    BY <1>1, <1>2, <1>6, <2>2
  <2> QED
    BY <2>1, <2>2, <2>3, <2>4
<1> HIDE DEF before, after, b
<1>10. ASSUME NEW c \in Bucket
       PROVE  /\ head'[c] = NULL <=> last'[c] = NULL
              /\ head'[c] # NULL => head'[c] \in Live' /\ heap'[head'[c]].prev = NULL
              /\ last'[c] # NULL => last'[c] \in Live' /\ heap'[last'[c]].next = NULL
              /\ head'[c] # NULL => Hash[heap'[head'[c]].key] = c
              /\ last'[c] # NULL => Hash[heap'[last'[c]].key] = c
  <2>1. /\ head[c] # NULL => head[c] \in Live /\ heap[head[c]].prev = NULL
                             /\ Hash[heap[head[c]].key] = c
        /\ last[c] # NULL => last[c] \in Live /\ heap[last[c]].next = NULL
                             /\ Hash[heap[last[c]].key] = c
        /\ head[c] = NULL <=> last[c] = NULL
    BY <1>2, <1>8
  <2>2. before = NULL => head[b] = p
    BY <1>1, <1>7 DEF before, b
  <2>3. after = NULL => last[b] = p
    BY <1>1, <1>7 DEF after, b
  <2>4. Hash[heap[p].key] = b /\ heap[p].next = after /\ heap[p].prev = before
    BY DEF before, after, b
  <2>5. CASE c # b
    <3>1. head'[c] = head[c] /\ last'[c] = last[c]
      BY <1>5, <2>5
    <3>2. head[c] # NULL => head[c] # p /\ head[c] # after
      BY <1>9, <2>1, <2>4, <2>5
    <3>3. last[c] # NULL => last[c] # p /\ last[c] # before
      BY <1>9, <2>1, <2>4, <2>5
    <3> QED
      BY <1>1, <1>3, <2>1, <3>1, <3>2, <3>3
  <2>6. CASE c = b
    <3>1. head'[b] = NULL <=> last'[b] = NULL
      BY <1>1, <1>2, <1>5, <1>9, <2>1, <2>2, <2>3, <2>4, <2>6
    <3> DEFINE HeadFits == LET x == head'[b] IN
                 x \in Live' /\ heap'[x].prev = NULL /\ Hash[heap'[x].key] = b
               LastFits == LET x == last'[b] IN
                 x \in Live' /\ heap'[x].next = NULL /\ Hash[heap'[x].key] = b
    <3>2. ASSUME head'[b] # NULL, before = NULL PROVE HeadFits
      BY <1>1, <1>3, <1>5, <1>9, <2>6, <3>2
    <3>3. ASSUME head'[b] # NULL, before # NULL PROVE HeadFits
      BY <1>1, <1>2, <1>3, <1>5, <1>9, <2>1, <2>4, <2>6, <3>3
    <3>4. ASSUME last'[b] # NULL, after = NULL PROVE LastFits
      BY <1>1, <1>3, <1>5, <1>9, <2>6, <3>4
    <3>5. ASSUME last'[b] # NULL, after # NULL PROVE LastFits
      BY <1>1, <1>2, <1>3, <1>5, <1>9, <2>1, <2>4, <2>6, <3>5
    <3> QED
      BY <2>6, <3>1, <3>2, <3>3, <3>4, <3>5
  <2> QED
    BY <2>5, <2>6
<1>11. ASSUME NEW a \in Live \ {p}
       PROVE  LET n == heap'[a].next  q == heap'[a].prev  c == Hash[heap'[a].key] IN
              /\ IF n = NULL THEN last'[c] = a ELSE n \in Live \ {p} /\ heap'[n].prev = a
              /\ IF q = NULL THEN head'[c] = a ELSE q \in Live \ {p} /\ heap'[q].next = a
              /\ n # NULL => Hash[heap'[n].key] = c /\ rank[a] < rank[n]
  <2> DEFINE n == heap[a].next
             q == heap[a].prev
             c == Hash[heap[a].key]
  <2>1. /\ c \in Bucket /\ heap'[a].key = heap[a].key
        /\ IF n = NULL THEN last[c] = a ELSE n \in Live /\ heap[n].prev = a /\ Hash[heap[n].key] = c
        /\ IF q = NULL THEN head[c] = a ELSE q \in Live /\ heap[q].next = a
        /\ n # NULL => rank[a] < rank[n]
    BY <1>1, <1>2, <1>6, <1>7
  <2>2. /\ before = NULL => head[b] = p
        /\ after = NULL => last[b] = p
        /\ heap[p].next = after /\ heap[p].prev = before
    BY <1>1, <1>7 DEF before, after, b
  <2>3. /\ heap'[a].next = IF a = before THEN after ELSE n
        /\ heap'[a].prev = IF a = after THEN before ELSE q
    BY <1>1
  <2> DEFINE NextFits == LET m == heap'[a].next IN
               /\ IF m = NULL THEN last'[c] = a ELSE m \in Live \ {p} /\ heap'[m].prev = a
               /\ m # NULL => Hash[heap'[m].key] = c /\ rank[a] < rank[m]
             PrevFits == LET m == heap'[a].prev IN
               IF m = NULL THEN head'[c] = a ELSE m \in Live \ {p} /\ heap'[m].next = a
  <2> HIDE DEF n, q, c
  <2>4. ASSUME a = before PROVE NextFits
    <3>1. heap'[a].next = after /\ c = b
      BY <1>2, <1>9, <2>3, <2>4 DEF c
    <3>2. CASE after = NULL
      BY <1>5, <2>1, <2>4, <3>1, <3>2
    <3>3. CASE after # NULL
      <4>1. heap'[after].prev = before /\ heap'[after].key = heap[after].key
            /\ after \in Live \ {p} /\ Hash[heap[after].key] = b
        BY <1>1, <1>9, <3>3
      <4>2. rank[a] < rank[p] /\ rank[p] < rank[after] /\ {a, p, after} \subseteq Addr
        BY <1>1, <1>2, <1>6, <1>9, <2>2, <2>4, <3>3
      <4>3. rank[a] \in Nat /\ rank[p] \in Nat /\ rank[after] \in Nat
        BY <4>2
      <4>4. rank[a] < rank[after]
        BY <4>2, <4>3
      <4> QED
        BY <2>1, <2>4, <3>1, <3>3, <4>1, <4>4
    <3> QED
      BY <3>2, <3>3
  <2>5. ASSUME a # before PROVE NextFits
    <3>1. heap'[a].next = n
      BY <2>3, <2>5
    <3>2. CASE n = NULL
      <4>1. c # b \/ after # NULL
        BY <2>1, <2>2, <3>2
      <4> QED
        BY <1>5, <2>1, <3>1, <3>2, <4>1
    <3>3. CASE n # NULL
      <4>1. n # p /\ n # after
        BY <1>9, <2>1, <2>2, <2>5, <3>3
      <4>2. heap'[n].prev = heap[n].prev /\ heap'[n].key = heap[n].key
        BY <1>1, <2>1, <3>3, <4>1
      <4> QED
        BY <2>1, <3>1, <3>3, <4>1, <4>2
    <3> QED
      BY <3>2, <3>3
  <2>6. ASSUME a = after PROVE PrevFits
    <3>1. heap'[a].prev = before /\ c = b
      BY <1>2, <1>9, <2>3, <2>6 DEF c
    <3>2. CASE before = NULL
      BY <1>5, <2>1, <2>6, <3>1, <3>2
    <3>3. CASE before # NULL
      BY <1>1, <1>9, <2>1, <2>6, <3>1, <3>3
    <3> QED
      BY <3>2, <3>3
  <2>7. ASSUME a # after PROVE PrevFits
    <3>1. heap'[a].prev = q
      BY <2>3, <2>7
    <3>2. CASE q = NULL
      <4>1. c # b \/ before # NULL
        BY <2>1, <2>2, <3>2
      <4> QED
        BY <1>5, <2>1, <3>1, <3>2, <4>1
    <3>3. CASE q # NULL
      <4>1. q # p /\ q # before
        BY <1>9, <2>1, <2>2, <2>7, <3>3
      <4>2. heap'[q].next = heap[q].next
        BY <1>1, <2>1, <3>3, <4>1
      <4> QED
        BY <2>1, <3>1, <3>3, <4>1, <4>2
    <3> QED
      BY <3>2, <3>3
  <2>8. NextFits /\ PrevFits
    BY <2>4, <2>5, <2>6, <2>7
  <2> QED
    BY <2>1, <2>8 DEF c
<1>12. ListsWellFormed'
  BY <1>3, <1>10, <1>11 DEF ListsWellFormed
<1>13. OwnBucket'
  BY <1>3, <1>10, <1>11 DEF OwnBucket
<1>14. NoCycle'
  BY <1>3, <1>11 DEF NoCycle
<1>15. KeysOnce'
  BY <1>1, <1>3 DEF ListInv, KeysOnce
<1> QED
  BY <1>3, <1>12, <1>13, <1>14, <1>15 DEF ListInv

\* A new item does not disturb the lists, and fits them.
LEMMA CreateItemKeepsLists ==
  ASSUME OneWriter, DispatchInv, ListInv, NEW w \in Worker, CreateItem(w)
  PROVE  ListInv' /\ Linked' = Linked
<1>0. TypeOK /\ HasRequest /\ Running /\ pc[w] = "create_item"
  BY DEF DispatchInv, CreateItem, At, Running
<1>1. PICK a \in Addr \ Live :
        /\ heap' = [heap EXCEPT ![a] =
             [key |-> req[w].key, next |-> head[BucketOf(w)], prev |-> NULL,
              length_in_bytes |-> 0, contents |-> FALSE, fd_owner |-> req[w].fd,
              is_open |-> TRUE, is_locked |-> WithLock(req[w].op), subs |-> <<>>]]
        /\ ref' = [ref EXCEPT ![w] = a]
  BY DEF CreateItem
<1>2. /\ \A x \in Addr \ {a} : heap'[x] = heap[x]
      /\ heap'[a].key = req[w].key /\ heap'[a].next = head[BucketOf(w)] /\ heap'[a].prev = NULL
      /\ DOMAIN heap'[a] # {}
  BY <1>0, <1>1 DEF TypeOK, TableTypeOK
<1>3. TypeOK'
  BY <1>0, CreateItemType
<1>4. heap'[a] # NULL
  <2>1. heap'[a] = [key |-> req[w].key, next |-> head[BucketOf(w)], prev |-> NULL,
                    length_in_bytes |-> 0, contents |-> FALSE, fd_owner |-> req[w].fd,
                    is_open |-> TRUE, is_locked |-> WithLock(req[w].op), subs |-> <<>>]
    BY <1>0, <1>1 DEF TypeOK, TableTypeOK
  <2>2. req[w].key \in Key /\ req[w].fd \in Fd /\ head[BucketOf(w)] \in Pointer
    BY <1>0, RequestType DEF TypeOK, TableTypeOK
  <2>3. heap'[a] \in Item
    BY <2>1, <2>2 DEF Item, Pointer, WithLock
  <2> QED
    BY <2>3, NullIsNoItem
<1>5. /\ pc'[w] = "create_link" /\ ref'[w] = a /\ req' = req
      /\ \A u \in Worker \ {w} : pc'[u] = pc[u] /\ ref'[u] = ref[u]
      /\ head' = head /\ last' = last
  BY <1>0, <1>1 DEF CreateItem, Goto, TypeOK, WorkerTypeOK
<1>6. \A u \in Worker \ {w} : pc[u] \notin {"create_item", "create_link"}
  BY <1>0, OnlyWriter DEF WriterLabels
<1>7. Live' = Live \cup {a}
  BY <1>2, <1>4 DEF Live
<1>8. Linked = Live /\ Linked' = Live
  <2>1. {u \in Worker : pc[u] = "create_link"} = {} /\ {u \in Worker : pc'[u] = "create_link"} = {w}
    BY <1>0, <1>5, <1>6
  <2> QED
    BY <1>1, <1>5, <1>7, <2>1 DEF Linked
<1>9. \A x \in Live : heap'[x] = heap[x]
  BY <1>1, <1>2 DEF Live
<1>10. /\ NULL \notin Live
       /\ \A b \in Bucket : head[b] \in Live \cup {NULL} /\ last[b] \in Live \cup {NULL}
       /\ \A x \in Live : heap[x].next \in Live \cup {NULL} /\ heap[x].prev \in Live \cup {NULL}
  BY <1>0, <1>8, LinkedItem DEF TypeOK
<1>11. ListsWellFormed'
  <2>1. ASSUME NEW b \in Bucket
        PROVE  /\ head[b] = NULL <=> last[b] = NULL
               /\ head[b] # NULL => head[b] \in Live /\ heap'[head[b]].prev = NULL
               /\ last[b] # NULL => last[b] \in Live /\ heap'[last[b]].next = NULL
    BY <1>0, <1>8, <1>9, <1>10 DEF ListInv, ListsWellFormed
  <2>2. ASSUME NEW x \in Live
        PROVE  LET n == heap'[x].next  p == heap'[x].prev  b == Hash[heap'[x].key] IN
               /\ IF n = NULL THEN last[b] = x ELSE n \in Live /\ heap'[n].prev = x
               /\ IF p = NULL THEN head[b] = x ELSE p \in Live /\ heap'[p].next = x
    BY <1>0, <1>8, <1>9, <1>10 DEF ListInv, ListsWellFormed
  <2> QED
    BY <1>5, <1>8, <2>1, <2>2 DEF ListsWellFormed
<1>12. OwnBucket'
  BY <1>0, <1>5, <1>8, <1>9, <1>10 DEF ListInv, OwnBucket
<1>13. NoCycle' /\ KeysOnce'
  BY <1>0, <1>8, <1>9, <1>10 DEF ListInv, NoCycle, KeysOnce
<1>14. NewItemFits'
  <2>1. \A x \in Live : heap'[x].key # req[w].key
    BY <1>0, <1>8, <1>9 DEF ListInv, NewItemFits
  <2>2. (BucketOf(w))' = BucketOf(w)
    BY <1>5 DEF BucketOf
  <2> QED
    BY <1>2, <1>5, <1>6, <1>7, <1>8, <2>1, <2>2 DEF NewItemFits
<1> QED
  BY <1>8, <1>11, <1>12, <1>13, <1>14 DEF ListInv

\* The new item becomes the head of its list.
LEMMA CreateLinkKeepsLists ==
  ASSUME OneWriter, DispatchInv, ListInv, NEW w \in Worker, CreateLink(w), fault' = "none"
  PROVE  /\ ListInv' /\ Live' = Live /\ Linked' = Live /\ Linked = Live \ {ref[w]}
         /\ \A a \in Live : SameFile(heap[a], heap'[a])
<1> DEFINE a == ref[w]
           b == BucketOf(w)
           old == head[b]
<1>0. TypeOK /\ HasRequest /\ Running /\ pc[w] = "create_link"
  BY DEF DispatchInv, CreateLink, At, Running
<1>1. /\ heap' = IF old # NULL THEN [heap EXCEPT ![old].prev = a] ELSE heap
      /\ head' = [head EXCEPT ![b] = a]
      /\ last' = IF last[b] = NULL THEN [last EXCEPT ![b] = a] ELSE last
      /\ Goto(w, "create_stats") /\ ref' = ref
  BY DEF CreateLink, Crash, locals
<1>2. /\ pc'[w] = "create_stats" /\ req' = req
      /\ \A u \in Worker \ {w} : pc'[u] = pc[u]
  BY <1>0, <1>1 DEF Goto, TypeOK, WorkerTypeOK
<1>3. \A u \in Worker \ {w} : pc[u] \notin {"create_item", "create_link"}
  BY <1>0, OnlyWriter DEF WriterLabels
<1>4. /\ a \in Live /\ heap[a].key = req[w].key /\ heap[a].prev = NULL /\ heap[a].next = old
      /\ \A x \in Linked : heap[x].key # req[w].key
      /\ b \in Bucket /\ b = Hash[heap[a].key]
  <2>1. b \in Bucket
    BY <1>0, RequestType DEF TypeOK
  <2> QED
    BY <1>0, <2>1 DEF ListInv, NewItemFits, BucketOf
<1>5. Linked = Live \ {a}
  <2>1. {u \in Worker : pc[u] = "create_link"} = {w}
    BY <1>0, <1>3
  <2> QED
    BY <2>1 DEF Linked
<1>6. /\ NULL \notin Live /\ Live \subseteq Addr
      /\ \A x \in Live : heap[x] \in Item
      /\ \A c \in Bucket :
           head[c] \in (Live \ {a}) \cup {NULL} /\ last[c] \in (Live \ {a}) \cup {NULL}
      /\ \A x \in Live \ {a} :
           heap[x].next \in (Live \ {a}) \cup {NULL} /\ heap[x].prev \in (Live \ {a}) \cup {NULL}
  BY <1>0, <1>5, LinkedItem DEF TypeOK
<1>7. /\ \A x \in Addr : heap'[x] = IF x = old THEN [heap[x] EXCEPT !.prev = a] ELSE heap[x]
      /\ \A c \in Bucket : head'[c] = IF c = b THEN a ELSE head[c]
      /\ \A c \in Bucket : last'[c] = IF c = b /\ last[b] = NULL THEN a ELSE last[c]
  BY <1>0, <1>1, <1>4, <1>6 DEF TypeOK, TableTypeOK
<1> HIDE DEF a, b, old
<1>8. /\ \A x \in Live : heap'[x].prev = IF x = old THEN a ELSE heap[x].prev
      /\ \A x \in Live : heap'[x].next = heap[x].next /\ SameFile(heap[x], heap'[x])
      /\ \A x \in Live : heap'[x].key = heap[x].key
      /\ \A x \in Live : heap'[x] \in Item
      /\ \A x \in Addr \ Live : heap'[x] = NULL
  <2>1. ASSUME NEW x \in Live
        PROVE  /\ heap'[x].prev = (IF x = old THEN a ELSE heap[x].prev)
               /\ heap'[x].next = heap[x].next /\ SameFile(heap[x], heap'[x])
               /\ heap'[x].key = heap[x].key
               /\ heap'[x] \in Item
    <3>1. heap[x] \in Item /\ a \in Pointer /\ x \in Addr
      BY <1>4, <1>6 DEF Pointer
    <3>2. heap'[x] = IF x = old THEN [heap[x] EXCEPT !.prev = a] ELSE heap[x]
      BY <1>7, <3>1
    <3> QED
      BY <3>1, <3>2 DEF Item, SameFile
  <2>2. ASSUME NEW x \in Addr \ Live PROVE heap'[x] = NULL
    <3>1. x # old
      BY <1>0, <1>4, <1>6 DEF old
    <3> QED
      BY <1>7, <3>1 DEF Live
  <2> QED
    BY <2>1, <2>2
<1>9. Live' = Live
  BY <1>6, <1>8, NullIsNoItem DEF Live
<1>10. Linked' = Live
  <2>1. {u \in Worker : pc'[u] = "create_link"} = {}
    BY <1>2, <1>3
  <2> QED
    BY <1>9, <2>1 DEF Linked
<1>11. PICK rank \in [Addr -> Nat] :
         \A x \in Live \ {a} : heap[x].next # NULL => rank[x] < rank[heap[x].next]
  BY <1>0, <1>5 DEF ListInv, NoCycle
<1>12. \A x \in Live \ {a} :
         LET n == heap[x].next  q == heap[x].prev  c == Hash[heap[x].key] IN
         /\ IF n = NULL THEN last[c] = x ELSE n \in Live \ {a} /\ heap[n].prev = x
         /\ IF q = NULL THEN head[c] = x ELSE q \in Live \ {a} /\ heap[q].next = x
         /\ n # NULL => Hash[heap[n].key] = c
  BY <1>0, <1>5 DEF ListInv, ListsWellFormed, OwnBucket
<1>13. \A c \in Bucket :
         /\ head[c] = NULL <=> last[c] = NULL
         /\ head[c] # NULL => heap[head[c]].prev = NULL /\ Hash[heap[head[c]].key] = c
         /\ last[c] # NULL => heap[last[c]].next = NULL /\ Hash[heap[last[c]].key] = c
  BY <1>0, <1>5, <1>6 DEF ListInv, ListsWellFormed, OwnBucket
<1>14. /\ old = head[b] /\ old # a /\ heap[a].next = old
       /\ old # NULL => /\ old \in Live \ {a} /\ heap[old].prev = NULL
                        /\ Hash[heap[old].key] = b
  BY <1>4, <1>6, <1>13 DEF old
<1>15. ASSUME NEW c \in Bucket
       PROVE  /\ head'[c] = NULL <=> last'[c] = NULL
              /\ head'[c] # NULL => /\ head'[c] \in Live /\ heap'[head'[c]].prev = NULL
                                    /\ Hash[heap'[head'[c]].key] = c
              /\ last'[c] # NULL => /\ last'[c] \in Live /\ heap'[last'[c]].next = NULL
                                    /\ Hash[heap'[last'[c]].key] = c
  <2>1. CASE c = b
    <3>1. /\ head'[b] = a /\ a \in Live /\ a # NULL
          /\ heap'[a].prev = NULL /\ Hash[heap'[a].key] = b /\ heap'[a].next = old
      BY <1>4, <1>7, <1>8, <1>14, NullIsNoItem DEF Live
    <3>2. CASE last[b] = NULL
      <4>1. last'[b] = a /\ old = NULL
        BY <1>4, <1>7, <1>13, <1>14, <3>2
      <4> QED
        BY <2>1, <3>1, <4>1
    <3>3. CASE last[b] # NULL
      <4>1. last'[b] = last[b] /\ last[b] \in Live
        BY <1>4, <1>6, <1>7, <3>3
      <4>2. heap'[last[b]].next = NULL /\ Hash[heap'[last[b]].key] = b
        BY <1>4, <1>8, <1>13, <3>3, <4>1
      <4> QED
        BY <2>1, <3>1, <3>3, <4>1, <4>2
    <3> QED
      BY <3>2, <3>3
  <2>2. CASE c # b
    BY <1>6, <1>7, <1>8, <1>13, <1>14, <2>2
  <2> QED
    BY <2>1, <2>2
<1> DEFINE rank2 == [x \in Addr |-> IF x = a THEN 0 ELSE rank[x] + 1]
<1>16. ASSUME NEW x \in Live
       PROVE  LET n == heap'[x].next  q == heap'[x].prev  c == Hash[heap'[x].key] IN
              /\ IF n = NULL THEN last'[c] = x ELSE n \in Live /\ heap'[n].prev = x
              /\ IF q = NULL THEN head'[c] = x ELSE q \in Live /\ heap'[q].next = x
              /\ n # NULL => Hash[heap'[n].key] = c /\ rank2[x] < rank2[n]
  <2>1. CASE x = a
    <3>1. /\ heap'[x].next = old /\ heap'[x].prev = NULL /\ Hash[heap'[x].key] = b
          /\ head'[b] = a
      BY <1>4, <1>7, <1>8, <1>14, <2>1
    <3>2. CASE old = NULL
      <4>0. b \in Bucket /\ head[b] = NULL
        BY <1>4, <1>14, <3>2
      <4>a. last[b] = NULL
        BY <1>13, <4>0
      <4>1. last'[b] = a
        BY <1>7, <4>0, <4>a
      <4> HIDE DEF rank2
      <4> QED
        BY <2>1, <3>1, <3>2, <4>1
    <3>3. CASE old # NULL
      <4>1. old \in Live /\ heap'[old].prev = a /\ Hash[heap'[old].key] = b
        BY <1>8, <1>14, <3>3
      <4>2. rank2[a] = 0 /\ rank2[old] = rank[old] + 1 /\ rank[old] \in Nat
        BY <1>4, <1>6, <1>14, <3>3
      <4>3. rank2[a] < rank2[old]
        BY <4>2
      <4> HIDE DEF rank2
      <4> QED
        BY <2>1, <3>1, <3>3, <4>1, <4>3
    <3> QED
      BY <3>2, <3>3
  <2>2. CASE x # a
    <3> DEFINE n == heap[x].next
               q == heap[x].prev
               c == Hash[heap[x].key]
    <3>1. /\ heap'[x].next = n /\ heap'[x].prev = (IF x = old THEN a ELSE q)
          /\ Hash[heap'[x].key] = c /\ c \in Bucket
      BY <1>6, <1>8, <2>2 DEF Item
    <3>2. /\ IF n = NULL THEN last[c] = x ELSE n \in Live \ {a} /\ heap[n].prev = x
          /\ IF q = NULL THEN head[c] = x ELSE q \in Live \ {a} /\ heap[q].next = x
          /\ n # NULL => Hash[heap[n].key] = c
      BY <1>12, <2>2
    <3>3. n # NULL => rank2[x] < rank2[n]
      <4>1. n # NULL => /\ rank2[x] = rank[x] + 1 /\ rank2[n] = rank[n] + 1 /\ rank[x] < rank[n]
                        /\ rank[x] \in Nat /\ rank[n] \in Nat
        BY <1>6, <1>11, <2>2, <3>2
      <4> HIDE DEF n, rank2
      <4> QED
        BY <4>1
    <3> HIDE DEF rank2, n, q, c
    <3>4. n = NULL => last'[c] = x
      BY <1>6, <1>7, <2>2, <3>1, <3>2
    <3>5. n # NULL => n \in Live /\ heap'[n].prev = x /\ Hash[heap'[n].key] = c
      BY <1>6, <1>8, <1>14, <2>2, <3>2
    <3>6. CASE x = old
      <4>1. heap'[x].prev = a /\ a # NULL /\ a \in Live /\ heap'[a].next = old
        BY <1>4, <1>6, <1>8, <1>14, <3>1, <3>6
      <4> QED
        BY <3>1, <3>3, <3>4, <3>5, <3>6, <4>1
    <3>7. CASE x # old
      <4>1. q = NULL => head'[c] = x
        BY <1>7, <1>14, <3>1, <3>2, <3>7
      <4>2. q # NULL => q \in Live /\ heap'[q].next = x
        BY <1>8, <3>2
      <4> QED
        BY <3>1, <3>3, <3>4, <3>5, <3>7, <4>1, <4>2
    <3> QED
      BY <3>6, <3>7
  <2> QED
    BY <2>1, <2>2
<1>17. ListsWellFormed'
  BY <1>10, <1>15, <1>16 DEF ListsWellFormed
<1>18. OwnBucket'
  BY <1>10, <1>15, <1>16 DEF OwnBucket
<1>19. NoCycle'
  <2>1. rank2 \in [Addr -> Nat]
    OBVIOUS
  <2> HIDE DEF rank2
  <2> QED
    BY <1>10, <1>16, <2>1 DEF NoCycle
<1>20. KeysOnce'
  BY <1>0, <1>4, <1>5, <1>8, <1>10 DEF ListInv, KeysOnce
<1>21. NewItemFits'
  BY <1>2, <1>3 DEF NewItemFits
<1> QED
  BY <1>5, <1>8, <1>9, <1>10, <1>17, <1>18, <1>19, <1>20, <1>21 DEF ListInv, a

\* Worker w takes the item at p out of its list.
TakesOut(w, p) ==
  /\ pc[w] \in {"remove", "evict"} /\ Removed(p)
  /\ \E l \in {"remove_stats", "evict"} : pc' = [pc EXCEPT ![w] = l]
  /\ req' = req /\ ref' = ref

LEMMA SameHeapSameLinks == ASSUME UNCHANGED table PROVE SameLinks
  BY DEF SameLinks, table

SameEnds(r, x) == x \in Item /\ x.key = r.key /\ x.next = r.next /\ x.prev = r.prev

LEMMA KeepsEnds ==
  ASSUME NEW r \in Item, NEW fd \in Fd, NEW b \in BOOLEAN, NEW n \in Nat
  PROVE  /\ SameEnds(r, [r EXCEPT !.subs = <<fd>> \o @])
         /\ SameEnds(r, [r EXCEPT !.is_locked = b])
         /\ SameEnds(r, [r EXCEPT !.is_open = FALSE])
         /\ SameEnds(r, [r EXCEPT !.is_locked = TRUE, !.fd_owner = fd])
         /\ r.subs # <<>> => SameEnds(r, [r EXCEPT !.fd_owner = Head(r.subs), !.subs = Tail(@)])
         /\ SameEnds(r, [r EXCEPT !.is_open = TRUE, !.fd_owner = fd, !.is_locked = b])
         /\ SameEnds(r, [r EXCEPT !.length_in_bytes = n, !.contents = TRUE])
<1>1. <<fd>> \o r.subs \in Seq(Fd)
  BY DEF Item
<1>2. r.subs # <<>> => Head(r.subs) \in Fd /\ Tail(r.subs) \in Seq(Fd)
  BY DEF Item
<1> QED
  BY <1>1, <1>2 DEF Item, SameEnds

LEMMA RewriteSameLinks ==
  ASSUME TypeOK, HasRequest, NEW w \in Worker, fault' = "none",
         LockFile(w) \/ UnlockFile(w) \/ OpenFile(w) \/ CloseFile(w) \/ WriteContents(w)
  PROVE  SameLinks
<1> DEFINE p == Fetch(req[w].key)
           old == heap[p]
<1>1. head' = head /\ last' = last
  BY DEF LockFile, UnlockFile, OpenFile, CloseFile, WriteContents, NotFound, Crash, table
<1>2. ASSUME heap' = heap PROVE SameLinks
  BY <1>1, <1>2 DEF SameLinks
<1>3. ASSUME p \in Live, NEW new, Rewritten(p, new), SameEnds(old, new) PROVE SameLinks
  <2>1. p \in Addr /\ heap[p] # NULL /\ heap'[p] = new /\ \A a \in Addr \ {p} : heap'[a] = heap[a]
    BY <1>3 DEF Rewritten, TypeOK, TableTypeOK, Live
  <2> QED
    BY <1>1, <1>3, <2>1, NullIsNoItem DEF SameLinks, SameEnds
<1>4. p \in Live => old \in Item
  BY LiveItem DEF TypeOK
<1>5. req[w].fd \in Fd /\ WithLock(req[w].op) \in BOOLEAN
  <2>1. pc[w] # "idle"
    BY DEF LockFile, UnlockFile, OpenFile, CloseFile, WriteContents, At
  <2> QED
    BY <2>1, RequestType DEF TypeOK, WithLock
<1>6. pc[w] = "write" /\ p \in Live => NewLength(w, p) \in Nat
  BY <1>4, RequestType DEF NewLength, Item, TypeOK
<1>7. p \in Live =>
        /\ SameEnds(old, [old EXCEPT !.subs = <<req[w].fd>> \o @])
        /\ SameEnds(old, [old EXCEPT !.is_locked = TRUE, !.fd_owner = req[w].fd])
        /\ SameEnds(old, [old EXCEPT !.is_locked = FALSE])
        /\ old.subs # <<>> =>
             SameEnds(old, [old EXCEPT !.fd_owner = Head(old.subs), !.subs = Tail(@)])
        /\ SameEnds(old, [old EXCEPT !.is_open = TRUE, !.fd_owner = req[w].fd,
                                     !.is_locked = WithLock(req[w].op)])
        /\ SameEnds(old, [old EXCEPT !.is_open = FALSE])
        /\ pc[w] = "write" =>
             SameEnds(old, [old EXCEPT !.length_in_bytes = NewLength(w, p), !.contents = TRUE])
  BY <1>4, <1>5, <1>6, KeepsEnds
<1> QED
  BY <1>2, <1>3, <1>7, RewriteSteps

LEMMA ReturnIsQuiet ==
  ASSUME SameLinks, NEW w \in Worker, NEW err, Return(w, err), pc[w] # "create_link"
  PROVE  Quiet(w)
<1>1. /\ pc' = [pc EXCEPT ![w] = "idle"] /\ req' = [req EXCEPT ![w] = NULL]
      /\ ref' = [ref EXCEPT ![w] = NULL]
  BY DEF Return
<1>2. "idle" # "create_link" /\ "idle" # "create_item"
  OBVIOUS
<1> QED
  BY <1>1, <1>2, Zenon DEF Quiet

LEMMA GotoIsQuiet ==
  ASSUME TypeOK, SameLinks, NEW w \in Worker, NEW label, Goto(w, label), pc[w] # "create_link",
         label \notin {"create_item", "create_link"},
         ref' = ref \/ \E q : ref' = [ref EXCEPT ![w] = q]
  PROVE  Quiet(w)
<1>1. req' = [req EXCEPT ![w] = req[w]] /\ pc' = [pc EXCEPT ![w] = label]
  BY DEF Goto, TypeOK, WorkerTypeOK
<1>2. \E q : ref' = [ref EXCEPT ![w] = q]
  <2>1. ref = [ref EXCEPT ![w] = ref[w]]
    BY DEF TypeOK, WorkerTypeOK
  <2> QED
    BY <2>1
<1> QED
  BY <1>1, <1>2 DEF Quiet

\* What htable_remove_file and the two eviction policies take out of the lists.
LEMMA RemoveTakesOut ==
  ASSUME TypeOK, HasRequest, NEW w \in Worker, RemoveFile(w), heap' # heap
  PROVE  TakesOut(w, Fetch(req[w].key)) /\ pc'[w] = "remove_stats"
<1> DEFINE p == Fetch(req[w].key)
<1>1. /\ p \in Live /\ SafeToUnlink(p) /\ Unlink(p, BucketOf(w)) /\ Goto(w, "remove_stats")
      /\ ref' = ref /\ pc[w] = "remove"
  BY DEF RemoveFile, NotFound, Crash, table, At
<1>2. req[w].key \in Key /\ BucketOf(w) \in Bucket
  BY <1>1, RequestType DEF TypeOK
<1>3. heap[p].key = req[w].key
  BY <1>1, <1>2, FetchKey DEF TypeOK
<1>4. BucketOf(w) = Hash[heap[p].key]
  BY <1>3 DEF BucketOf
<1> HIDE DEF p
<1>5. Removed(p)
  BY <1>1, <1>2, <1>4, UnlinkRule DEF Removed, Freed, Unlink
<1> QED
  BY <1>1, <1>5 DEF TakesOut, Goto, TypeOK, WorkerTypeOK, p

LEMMA EvictTakesOut ==
  ASSUME TypeOK, ListInv, Running, NEW w \in Worker, fault' = "none",
         EvictFifo(w) \/ \E b \in Bucket : EvictSegmented(w, b)
  PROVE  \/ UNCHANGED vars
         \/ \E p \in Linked : TakesOut(w, p) /\ UNCHANGED <<pc, ret>> /\ EvictStats(heap[p])
<1>1. CASE EvictFifo(w)
  <2> DEFINE k == fifo.node[fifo.last].key
             p == Fetch(k)
  <2>1. /\ fifo.last # NULL /\ fifo.node[fifo.last] # NULL
        /\ p \in Live /\ SafeToUnlink(p) /\ Unlink(p, Hash[k]) /\ EvictStats(heap[p])
        /\ pc[w] = "evict" /\ UNCHANGED <<pc, req, ret, ref>>
    BY <1>1 DEF EvictFifo, Crash, At, locals
  <2>2. k \in Key
    BY <2>1 DEF TypeOK, CountersTypeOK, NodePointer
  <2> HIDE DEF k
  <2>3. heap[p].key = k /\ Hash[k] \in Bucket /\ p \in Linked
    BY <2>1, <2>2, FetchKey, FetchFinds DEF TypeOK, Live
  <2> HIDE DEF p
  <2>4. Removed(p)
    BY <2>1, <2>3, UnlinkRule DEF Removed, Freed, Unlink
  <2> QED
    BY <2>1, <2>3, <2>4 DEF TakesOut, TypeOK, WorkerTypeOK
<1>2. ASSUME NEW b \in Bucket, EvictSegmented(w, b), ~ UNCHANGED vars
      PROVE  \E p \in Linked : TakesOut(w, p) /\ UNCHANGED <<pc, ret>> /\ EvictStats(heap[p])
  <2> DEFINE p == last[b]
             before == heap[p].prev
  <2>1. /\ p \in Live /\ before \in Live \cup {NULL}
        /\ heap' = [(IF before # NULL THEN [heap EXCEPT ![before].next = NULL] ELSE heap)
                      EXCEPT ![p] = NULL]
        /\ last' = [last EXCEPT ![b] = before]
        /\ head' = IF before = NULL THEN [head EXCEPT ![b] = NULL] ELSE head
        /\ EvictStats(heap[p]) /\ pc[w] = "evict" /\ UNCHANGED <<pc, req, ret, ref>>
    BY <1>2 DEF EvictSegmented, Crash, At, locals
  <2>2. p \in Linked /\ heap[p].next = NULL /\ Hash[heap[p].key] = b
    BY <2>1 DEF ListInv, ListsWellFormed, OwnBucket, Live
  <2>3. \A a \in Live \ {p} : a # NULL
    BY DEF Live
  <2> HIDE DEF p
  <2>4. Freed(p)
    BY <2>1, CutRule DEF Freed
  <2>5. \A a \in Live \ {p} :
          /\ heap'[a].next = IF a = before THEN NULL ELSE heap[a].next
          /\ heap'[a].prev = heap[a].prev
    BY <2>1, CutRule
  <2>6. Removed(p)
    BY <2>1, <2>2, <2>3, <2>4, <2>5 DEF Removed
  <2> QED
    BY <2>1, <2>2, <2>6 DEF TakesOut, TypeOK, WorkerTypeOK
<1> QED
  BY <1>1, <1>2

\* Every step of a worker leaves the lists alone, adds an item, links it or takes one out.
LEMMA ListSteps ==
  ASSUME TypeOK, HasRequest, ListInv, Running, NEW w \in Worker, Step(w), fault' = "none"
  PROVE  \/ Quiet(w) \/ CreateItem(w) \/ CreateLink(w) \/ UNCHANGED vars
         \/ \E p : TakesOut(w, p)
<1>1. ASSUME NEW how \in Faults \ {"none"}, Crash(how) PROVE FALSE
  BY <1>1 DEF Crash
<1>2. {"use_after_free", "null_dereference", "realloc_exit", "assert_no_subscribers",
       "assert_items_count", "assert_empty_bucket"} \subseteq Faults \ {"none"}
  BY DEF Faults
<1>3. ASSUME UNCHANGED table, pc[w] # "create_link", NEW err, Return(w, err) PROVE Quiet(w)
  BY <1>3, SameHeapSameLinks, ReturnIsQuiet
<1>4. ASSUME UNCHANGED table, pc[w] # "create_link", NEW label, Goto(w, label),
             label \notin {"create_item", "create_link"},
             ref' = ref \/ \E q : ref' = [ref EXCEPT ![w] = q]
      PROVE  Quiet(w)
  BY <1>4, SameHeapSameLinks, GotoIsQuiet
<1>5. ASSUME NotFound(w), pc[w] # "create_link" PROVE Quiet(w)
  BY <1>1, <1>2, <1>3, <1>5 DEF NotFound
<1>6. CASE LockFile(w) \/ UnlockFile(w) \/ OpenFile(w) \/ CloseFile(w) \/ WriteContents(w)
  <2>1. SameLinks
    BY <1>6, RewriteSameLinks
  <2>2. pc[w] # "create_link"
    BY <1>6 DEF LockFile, UnlockFile, OpenFile, CloseFile, WriteContents, At
  <2>3. ASSUME NEW err, Return(w, err) PROVE Quiet(w)
    BY <2>1, <2>2, <2>3, ReturnIsQuiet
  <2>4. ASSUME NEW label, Goto(w, label), label \notin {"create_item", "create_link"}, ref' = ref
        PROVE  Quiet(w)
    BY <2>1, <2>2, <2>4, GotoIsQuiet
  <2>5. CASE LockFile(w) \/ UnlockFile(w)
    BY <1>1, <1>2, <1>5, <2>2, <2>3, <2>5 DEF LockFile, UnlockFile
  <2>6. CASE OpenFile(w) \/ CloseFile(w)
    BY <1>5, <2>2, <2>3, <2>4, <2>6 DEF OpenFile, CloseFile, locals
  <2>7. CASE WriteContents(w)
    BY <1>1, <1>2, <1>5, <2>2, <2>4, <2>7 DEF WriteContents
  <2> QED
    BY <1>6, <2>5, <2>6, <2>7
<1>7. CASE OpenCloseStats(w) \/ CreateStats(w) \/ RemoveStats(w) \/ EvictDone(w) \/ ReadRelease(w)
  BY <1>3, <1>7 DEF OpenCloseStats, CreateStats, RemoveStats, EvictDone, ReadRelease, At
<1>8. CASE CreateFetch(w)
  <2>1. pc[w] = "create" /\ req[w].key \in Key
    BY <1>8, RequestType DEF CreateFetch, At, TypeOK
  <2>2. CASE Fetch(req[w].key) = NULL /\ Goto(w, "create_item") /\ UNCHANGED table /\ ref' = ref
    <3>1. /\ req' = [req EXCEPT ![w] = req[w]] /\ pc' = [pc EXCEPT ![w] = "create_item"]
          /\ ref' = [ref EXCEPT ![w] = ref[w]]
      BY <2>2 DEF Goto, TypeOK, WorkerTypeOK
    <3>2. SameLinks
      BY <2>2, SameHeapSameLinks
    <3> QED
      BY <2>1, <2>2, <3>1, <3>2 DEF Quiet
  <2> QED
    BY <1>1, <1>2, <1>3, <1>8, <2>1, <2>2 DEF CreateFetch, locals
<1>9. CASE RemoveFile(w)
  <2>1. CASE heap' # heap
    BY <1>9, <2>1, RemoveTakesOut
  <2>2. CASE heap' = heap
    <3>1. ASSUME NEW p \in Live, NEW b, Unlink(p, b) PROVE heap' # heap
      <4>1. heap'[p] = NULL /\ heap[p] # NULL
        BY <3>1, LiveItem, NullIsNoItem DEF Unlink, TypeOK, TableTypeOK, Live
      <4> QED
        BY <4>1
    <3> QED
      BY <1>1, <1>2, <1>3, <1>5, <1>9, <2>2, <3>1 DEF RemoveFile, At
  <2> QED
    BY <2>1, <2>2
<1>10. CASE WriteStats(w) \/ EvictLock(w)
  BY <1>4, <1>10 DEF WriteStats, EvictLock, At, locals
<1>11. CASE EvictFifo(w) \/ \E b \in Bucket : EvictSegmented(w, b)
  BY <1>11, EvictTakesOut
<1>12. CASE ReadFetch(w)
  BY <1>4, <1>5, <1>12 DEF ReadFetch, At, locals
<1>13. CASE VisitHead(w) \/ VisitLock(w) \/ VisitSend(w)
  BY <1>3, <1>4, <1>13 DEF VisitHead, VisitLock, VisitSend, At, locals
<1>14. CASE VisitNext(w)
  BY <1>1, <1>2, <1>3, <1>4, <1>14 DEF VisitNext, At
<1>15. CASE VisitBucket(w)
  BY <1>1, <1>2, <1>4, <1>15 DEF VisitBucket, At
<1> QED
  BY <1>6, <1>7, <1>8, <1>9, <1>10, <1>11, <1>12, <1>13, <1>14, <1>15 DEF Step

LEMMA StepRuns == ASSUME NEW w \in Worker, Step(w) \/ Begin(w) PROVE Running
  BY DEF Step, Begin, LockFile, UnlockFile, OpenFile, CloseFile, OpenCloseStats, CreateFetch,
     CreateItem, CreateLink, CreateStats, RemoveFile, RemoveStats, WriteContents, WriteStats,
     EvictLock, EvictDone, EvictSegmented, EvictFifo, ReadFetch, ReadRelease, VisitHead,
     VisitLock, VisitNext, VisitBucket, VisitSend, At, Running

LEMMA BeginIsQuiet == ASSUME TypeOK, NEW w \in Worker, Begin(w) PROVE Quiet(w)
<1>0. PICK op \in Api[w], k \in Key, fd \in Fd : \E arg \in Args(op) :
        /\ req' = [req EXCEPT ![w] = [op |-> op, key |-> k, fd |-> fd, arg |-> arg]]
        /\ pc' = [pc EXCEPT ![w] = EntryPoint(op)]
  BY DEF Begin
<1>1. PICK r : req' = [req EXCEPT ![w] = r]
  BY <1>0
<1>2. ref' = [ref EXCEPT ![w] = ref[w]] /\ SameLinks /\ pc[w] # "create_link"
  BY SameHeapSameLinks DEF Begin, locals, TypeOK, WorkerTypeOK, At
<1>3. EntryPoint(op) \notin {"create_item", "create_link"}
  <2>1. op \in ApiOp
    OBVIOUS
  <2> QED
    BY <2>1 DEF EntryPoint, ApiOp
<1> QED
  BY <1>0, <1>1, <1>2, <1>3, Zenon DEF Quiet

LEMMA TakingOutKeepsLists ==
  ASSUME OneWriter, DispatchInv, ListInv, Running, NEW w \in Worker, NEW p, TakesOut(w, p)
  PROVE  ListInv' /\ Live' = Live \ {p} /\ Linked = Live /\ Linked' = Live'
<1>1. \A u \in Worker : pc[u] \notin {"create_item", "create_link"}
  BY OnlyWriter DEF TakesOut, WriterLabels
<1>2. \A u \in Worker : pc'[u] \notin {"create_item", "create_link"}
  BY <1>1 DEF TakesOut, DispatchInv, TypeOK, WorkerTypeOK
<1>3. Linked = Live /\ Linked' = Live' /\ NewItemFits'
  BY <1>1, <1>2 DEF Linked, NewItemFits
<1> QED
  BY <1>3, RemovalKeepsLists DEF TakesOut, DispatchInv

LEMMA NextListInv == ASSUME OneWriter, DispatchInv, ListInv, [Next]_vars PROVE ListInv'
<1>0. TypeOK /\ HasRequest
  BY DEF DispatchInv
<1>1. ASSUME UNCHANGED vars PROVE ListInv'
  BY <1>1 DEF vars, ListInv, ListsWellFormed, OwnBucket, NoCycle, KeysOnce, NewItemFits, Linked,
              Live, Running, BucketOf
<1>2. ASSUME NEW w \in Worker, Begin(w) PROVE ListInv'
  BY <1>0, <1>2, BeginIsQuiet, QuietKeepsLists, StepRuns
<1>3. ASSUME NEW w \in Worker, Step(w) PROVE ListInv'
  <2>1. Running
    BY <1>3, StepRuns
  <2>2. CASE fault' # "none"
    BY <2>2 DEF ListInv, ListsWellFormed, Running
  <2>3. CASE fault' = "none"
    <3>1. CASE UNCHANGED vars
      BY <1>1, <3>1
    <3>2. CASE Quiet(w)
      BY <1>0, <2>1, <3>2, QuietKeepsLists
    <3>3. CASE CreateItem(w)
      BY <3>3, CreateItemKeepsLists
    <3>4. CASE CreateLink(w)
      BY <2>3, <3>4, CreateLinkKeepsLists
    <3>5. CASE \E p : TakesOut(w, p)
      BY <2>1, <3>5, TakingOutKeepsLists
    <3> QED
      BY <1>0, <1>3, <2>1, <2>3, <3>1, <3>2, <3>3, <3>4, <3>5, ListSteps
  <2> QED
    BY <2>2, <2>3
<1> QED
  BY <1>1, <1>2, <1>3 DEF Next, Terminated

LEMMA InitListInv == Init => ListInv
<1> SUFFICES ASSUME Init PROVE ListInv
  OBVIOUS
<1>1. Live = {} /\ Linked = {}
  BY DEF Init, Live, Linked
<1>2. [a \in Addr |-> 0] \in [Addr -> Nat]
  OBVIOUS
<1>3. NoCycle
  BY <1>1, <1>2 DEF NoCycle
<1> QED
  BY <1>1, <1>3 DEF Init, ListInv, ListsWellFormed, OwnBucket, KeysOnce, NewItemFits

\* Where one worker changes the lists, they stay well formed, whatever the others read, lock,
\* open and visit meanwhile: the two directions of every list agree and end at the head and the
\* last of its bucket (htable.c:275-318, 358-398, 606-669).
THEOREM ListsStayWellFormed == ASSUME OneWriter PROVE Spec => []ListsWellFormed
<1>1. Init => DispatchInv /\ ListInv
  BY InitDispatchInv, InitListInv
<1>2. DispatchInv /\ ListInv /\ [Next]_vars => (DispatchInv /\ ListInv)'
  BY NextDispatchInv, NextListInv
<1>3. ListInv => ListsWellFormed
  BY DEF ListInv
<1> QED
  BY <1>1, <1>2, <1>3, PTL DEF Spec

\* There, a lookup finds every linked file: none is lost and no path is stored twice
\* (htable_fetch_item, htable.c:141-156).
THEOREM EveryFileIsFound == ASSUME OneWriter PROVE Spec => []EveryFileReachable
<1>1. Init => DispatchInv /\ ListInv
  BY InitDispatchInv, InitListInv
<1>2. DispatchInv /\ ListInv /\ [Next]_vars => (DispatchInv /\ ListInv)'
  BY NextDispatchInv, NextListInv
<1>3. DispatchInv /\ ListInv => EveryFileReachable
  <2> SUFFICES ASSUME DispatchInv, ListInv, Running, NEW a \in Linked PROVE Fetch(heap[a].key) = a
    BY DEF EveryFileReachable
  <2>1. TableTypeOK /\ heap[a].key \in Key
    BY LinkedItem DEF DispatchInv, TypeOK
  <2> QED
    BY <2>1, FetchFinds
<1> QED
  BY <1>1, <1>2, <1>3, PTL DEF Spec

-----------------------------------------------------------------------------
(* The process does not die. *)

\* While the one writer evicts, the counters are exact.
LEMMA EvictorCounts ==
  ASSUME OneWriter, DispatchInv, CountersInv, Running, NEW w \in Worker, pc[w] = "evict"
  PROVE  /\ Plus(stats.items_count, 0 - Cardinality(Live)) = 0
         /\ Plus(stats.total_space, 0 - StoredBytes) = 0
<1>1. \A u \in Worker : pc[u] \in WriterLabels => u = w
  BY OnlyWriter DEF WriterLabels
<1>2. \A u \in Worker : pc[u] \notin {"create_link", "create_stats", "remove_stats", "write_stats"}
  BY <1>1 DEF WriterLabels
<1>3. Pending({"create_link", "create_stats"}) = 0 /\ Pending({"remove_stats"}) = 0
  <2>1. /\ {u \in Worker : pc[u] \in {"create_link", "create_stats"}} = {}
        /\ {u \in Worker : pc[u] \in {"remove_stats"}} = {}
    BY <1>2
  <2> QED
    BY <2>1, FS_EmptySet DEF Pending
<1>4. SumFunction(delta) = 0
  <2>1. delta \in [Worker -> Int] /\ \A u \in Worker : delta[u] = 0
    BY <1>2 DEF CountersInv, DebtsInv, TypeOK, WorkerTypeOK
  <2>2. IsFiniteSet(Worker)
    OBVIOUS
  <2> QED
    BY <2>1, <2>2, SumNat
<1>5. Cardinality(Live) \in Int /\ StoredBytes \in Int
  BY BytesType DEF CountersInv
<1> QED
  BY <1>3, <1>4, <1>5 DEF CountersInv, ItemsAccounted, SpaceAccounted

LEMMA NothingStored ==
  ASSUME TypeOK, Live = {} PROVE Cardinality(Live) = 0 /\ StoredBytes = 0
<1>1. Bytes \in [Addr -> Int] /\ \A a \in Addr : Bytes[a] = 0
  BY DEF Bytes
<1>2. IsFiniteSet(Addr)
  OBVIOUS
<1> HIDE DEF Bytes
<1> QED
  BY <1>1, <1>2, SumNat, FS_EmptySet DEF StoredBytes

\* It does not evict from an empty table.
LEMMA EvictorHasVictims ==
  ASSUME OneWriter, DispatchInv, CountersInv, Running, NEW w \in Worker, pc[w] = "evict", OverLimit
  PROVE  /\ Live # {}
         /\ ItemsCountable => stats.items_count # 0
<1>1. /\ Plus(stats.items_count, 0 - Cardinality(Live)) = 0
      /\ Plus(stats.total_space, 0 - StoredBytes) = 0
  BY EvictorCounts
<1>2. stats.items_count \in SizeT /\ stats.total_space \in SizeT /\ 0 \in SizeT
  BY DEF CountersInv, TypeOK, CountersTypeOK, SizeT
<1>3. Live # {}
  <2> SUFFICES ASSUME Live = {} PROVE FALSE
    OBVIOUS
  <2>1. Cardinality(Live) = 0 /\ StoredBytes = 0
    BY NothingStored DEF CountersInv
  <2>2. stats.items_count = 0 /\ stats.total_space = 0
    BY <1>1, <1>2, <2>1, SameResidue
  <2> QED
    BY <2>2 DEF OverLimit
<1>4. ASSUME ItemsCountable PROVE stats.items_count # 0
  <2>1. IsFiniteSet(Addr) /\ Live \subseteq Addr
    BY DEF Live
  <2>2. Cardinality(Live) <= Cardinality(Addr) /\ Cardinality(Live) \in Nat
        /\ Cardinality(Addr) \in Nat /\ IsFiniteSet(Live)
    BY <2>1, FS_Subset, FS_CardinalityType
  <2>3. Cardinality(Live) \in SizeT
    BY <1>4, <2>2 DEF ItemsCountable, SizeT
  <2>4. stats.items_count = Cardinality(Live)
    BY <1>1, <1>2, <2>3, SameResidue
  <2>5. Cardinality(Live) # 0
    BY <1>3, <2>2, FS_EmptySet
  <2> QED
    BY <2>4, <2>5
<1> QED
  BY <1>3, <1>4

LEMMA NextWritesSize == ASSUME DispatchInv, WritesSize, [Next]_vars PROVE WritesSize'
<1>0. pc \in [Worker -> Labels] /\ req \in [Worker -> Request \cup {NULL}]
  BY DEF DispatchInv, TypeOK, WorkerTypeOK
<1>1. CASE UNCHANGED vars \/ Terminated
  BY <1>1 DEF Terminated, vars, WritesSize
<1>2. ASSUME NEW w \in Worker, Begin(w) PROVE WritesSize'
  <2>0. PICK op \in Api[w], k \in Key, fd \in Fd : \E arg \in Args(op) :
          /\ req' = [req EXCEPT ![w] = [op |-> op, key |-> k, fd |-> fd, arg |-> arg]]
          /\ pc' = [pc EXCEPT ![w] = EntryPoint(op)]
    BY <1>2 DEF Begin
  <2>1. PICK arg \in Args(op) :
          /\ req' = [req EXCEPT ![w] = [op |-> op, key |-> k, fd |-> fd, arg |-> arg]]
          /\ pc' = [pc EXCEPT ![w] = EntryPoint(op)]
    BY <2>0
  <2>2. op \in ApiOp
    OBVIOUS
  <2>3. EntryPoint(op) = "write" => arg \in Size
    BY <2>1, <2>2 DEF EntryPoint, Args, ApiOp
  <2> QED
    BY <1>0, <2>1, <2>3 DEF WritesSize
<1>3. ASSUME NEW w \in Worker, Step(w) PROVE WritesSize'
  <2>1. Progress(w)
    BY <1>3, StepProgress
  <2>2. CASE pc' = [pc EXCEPT ![w] = "idle"] /\ req' = [req EXCEPT ![w] = NULL]
    BY <1>0, <2>2 DEF WritesSize
  <2>3. CASE pc' = pc /\ req' = req
    BY <2>3 DEF WritesSize
  <2>4. ASSUME NEW label, label \notin EntryLabels, pc' = [pc EXCEPT ![w] = label], req' = req
        PROVE  WritesSize'
    BY <1>0, <2>4 DEF WritesSize, EntryLabels
  <2> QED
    BY <2>1, <2>2, <2>3, <2>4 DEF Progress
<1> QED
  BY <1>1, <1>2, <1>3 DEF Next

SoundInv ==
  /\ DispatchInv /\ ListInv /\ SubscribersBehindLock /\ CountersInv /\ WritesSize /\ Running

SoundServer ==
  /\ OneWriter /\ NoVisits /\ OpensLock /\ ItemsCountable
  /\ Policy = "segmented-fifo" /\ 0 \notin Size

LEMMA StepSurvives ==
  ASSUME SoundServer, SoundInv, NEW w \in Worker, Step(w) PROVE fault' = "none"
<1>0. fault = "none" /\ TypeOK /\ HasRequest /\ TableTypeOK
  BY DEF SoundInv, DispatchInv, Running, TypeOK
<1>1. ASSUME NEW label, Goto(w, label) PROVE fault' = "none"
  BY <1>0, <1>1 DEF Goto
<1>2. ASSUME NEW err, Return(w, err) PROVE fault' = "none"
  BY <1>0, <1>2 DEF Return
<1>3. \A k \in Key : Fetch(k) \in Live \cup {NULL} /\ Fetch(k) # WILD
  BY <1>0, FetchFinds, LinkedItem DEF SoundInv, Live
<1>4. pc[w] # "idle" => req[w].key \in Key /\ BucketOf(w) \in Bucket
  BY <1>0, RequestType DEF TypeOK
<1>5. ASSUME NotFound(w), pc[w] # "idle" PROVE fault' = "none"
  BY <1>2, <1>3, <1>4, <1>5 DEF NotFound
<1>6. /\ \A b \in Bucket : head[b] \in Live \cup {NULL} /\ last[b] \in Live \cup {NULL}
      /\ \A b \in Bucket : head[b] = NULL <=> last[b] = NULL
      /\ \A b \in Bucket : last[b] # NULL => heap[last[b]].prev \in Live \cup {NULL}
  BY <1>0, LinkedItem DEF SoundInv, ListInv, ListsWellFormed
<1>7. CASE LockFile(w)
  <2>1. fault' # "assert_no_subscribers"
    BY <1>0, <1>7, StepAssertion DEF SoundInv, Step
  <2> QED
    BY <1>2, <1>5, <1>7, <2>1 DEF LockFile, Crash, At
<1>8. CASE UnlockFile(w) \/ OpenFile(w) \/ CloseFile(w)
  BY <1>1, <1>2, <1>5, <1>8 DEF UnlockFile, OpenFile, CloseFile, At
<1>9. CASE OpenCloseStats(w) \/ CreateStats(w) \/ RemoveStats(w) \/ EvictDone(w) \/ ReadRelease(w)
  BY <1>2, <1>9 DEF OpenCloseStats, CreateStats, RemoveStats, EvictDone, ReadRelease
<1>10. CASE CreateFetch(w) \/ CreateItem(w) \/ CreateLink(w)
  BY <1>1, <1>2, <1>3, <1>4, <1>6, <1>10 DEF CreateFetch, CreateItem, CreateLink, At
<1>11. CASE RemoveFile(w)
  <2> DEFINE p == Fetch(req[w].key)
  <2>1. pc[w] = "remove" /\ req[w].key \in Key
    BY <1>4, <1>11 DEF RemoveFile, At
  <2>2. p \in Live => SafeToUnlink(p)
    <3>1. p \in Linked \cup {NULL} /\ NULL \notin Live
      BY <1>0, <2>1, FetchFinds, LinkedItem DEF SoundInv
    <3>2. \A a \in Linked : heap[a].next \in Live \cup {NULL} /\ heap[a].prev \in Live \cup {NULL}
      BY <1>0, LinkedItem DEF SoundInv
    <3> HIDE DEF p
    <3> QED
      BY <3>1, <3>2 DEF SafeToUnlink
  <2> QED
    BY <1>1, <1>2, <1>5, <1>11, <2>1, <2>2 DEF RemoveFile
<1>12. CASE WriteContents(w)
  <2>1. pc[w] = "write" /\ req[w].arg \in Size
    BY <1>12 DEF WriteContents, At, SoundInv, WritesSize
  <2>2. req[w].arg \in Nat /\ req[w].arg # 0
    BY <2>1 DEF SoundServer
  <2>3. \A p \in Live : heap[p].length_in_bytes \in Nat
    BY <1>0, LiveItem DEF Item
  <2>4. \A p \in Live : NewLength(w, p) # 0
    BY <2>2, <2>3 DEF NewLength
  <2> QED
    BY <1>1, <1>5, <1>12, <2>1, <2>4 DEF WriteContents
<1>13. CASE WriteStats(w) \/ EvictLock(w)
  BY <1>1, <1>13 DEF WriteStats, EvictLock
<1>14. ASSUME NEW b \in Bucket, EvictSegmented(w, b) PROVE fault' = "none"
  <2>1. stats.items_count # 0
    BY <1>0, <1>14, EvictorHasVictims DEF EvictSegmented, At, SoundInv, SoundServer
  <2> QED
    BY <1>0, <1>6, <1>14, <2>1 DEF EvictSegmented, vars
<1>15. ~ EvictFifo(w)
  BY DEF EvictFifo, SoundServer
<1>16. CASE ReadFetch(w)
  BY <1>1, <1>5, <1>16 DEF ReadFetch, At
<1>17. CASE VisitHead(w) \/ VisitLock(w) \/ VisitSend(w) \/ VisitNext(w) \/ VisitBucket(w)
  <2>1. pc[w] \in {"visit", "visit_lock", "visit_next", "visit_bucket", "visit_send"}
    BY <1>17 DEF VisitHead, VisitLock, VisitSend, VisitNext, VisitBucket, At
  <2>2. req[w].op \in Api[w] /\ pc[w] \in LabelsOf(req[w].op)
    BY <2>1 DEF SoundInv, DispatchInv, Dispatched
  <2>3. req[w].op \in ApiOp
    BY <2>2
  <2>4. req[w].op = "READ_N_FILES"
    BY <2>1, <2>2, <2>3 DEF LabelsOf, ApiOp
  <2> QED
    BY <2>2, <2>4 DEF SoundServer, NoVisits
<1> QED
  BY <1>7, <1>8, <1>9, <1>10, <1>11, <1>12, <1>13, <1>14, <1>15, <1>16, <1>17 DEF Step

\* A server in which one worker changes the lists, nobody visits them, every open asks for the
\* lock, no client writes an empty file and the policy is segmented-fifo never dies: no freed
\* or null pointer is followed, no assertion of htable.c fails (htable.c:210, 640, 646) and
\* xrealloc does not exit.
THEOREM ServerSurvives ==
  ASSUME OneWriter, NoVisits, OpensLock, ItemsCountable, Policy = "segmented-fifo", 0 \notin Size
  PROVE  Spec => []NeverCrashes
<1>0. SoundServer
  BY DEF SoundServer
<1>1. Init => SoundInv
  <2> SUFFICES ASSUME Init PROVE SoundInv
    OBVIOUS
  <2>1. DispatchInv /\ ListInv /\ CountersInv
    BY InitDispatchInv, InitListInv, InitCountersInv
  <2> QED
    BY <2>1 DEF Init, SoundInv, SubscribersBehindLock, Live, WritesSize, Running
<1>2. ASSUME SoundInv, [Next]_vars PROVE SoundInv'
  <2>1. DispatchInv' /\ ListInv' /\ SubscribersBehindLock' /\ CountersInv' /\ WritesSize'
    BY <1>0, <1>2, NextDispatchInv, NextListInv, NextSubscribers, NextCountersInv, NextWritesSize
    DEF SoundInv, SoundServer
  <2>2. fault' = "none"
    <3>1. CASE UNCHANGED vars \/ Terminated
      BY <1>2, <3>1 DEF Terminated, vars, SoundInv, Running
    <3>2. ASSUME NEW w \in Worker, Begin(w) PROVE fault' = "none"
      BY <3>2 DEF Begin, At
    <3>3. ASSUME NEW w \in Worker, Step(w) PROVE fault' = "none"
      BY <1>0, <1>2, <3>3, StepSurvives
    <3> QED
      BY <1>2, <3>1, <3>2, <3>3 DEF Next
  <2> QED
    BY <2>1, <2>2 DEF SoundInv, Running
<1>3. SoundInv => NeverCrashes
  BY DEF SoundInv, NeverCrashes
<1> QED
  BY <1>1, <1>2, <1>3, PTL DEF Spec

-----------------------------------------------------------------------------
(* The first victim of the fifo policy. *)

LEMMA FetchSame == ASSUME UNCHANGED table, NEW k PROVE Fetch(k)' = Fetch(k)
  BY DEF Fetch, table, Live

\* Only the eviction of the fifo policy follows a null pointer.
LEMMA StepNullPointer ==
  ASSUME NEW w \in Worker, Step(w), fault' = "null_dereference"
  PROVE  /\ EvictFifo(w) /\ UNCHANGED <<table, stats, fifo>>
         /\ \/ fifo.last = NULL
            \/ /\ fifo.last # NULL /\ fifo.node[fifo.last] # NULL
               /\ Fetch(fifo.node[fifo.last].key) = NULL
<1>0. fault = "none"
  BY StepRuns DEF Running
<1> DEFINE Fine == fault' # "null_dereference"
<1>1. ASSUME NEW label, Goto(w, label) PROVE Fine
  BY <1>0, <1>1 DEF Goto
<1>2. ASSUME NEW err, Return(w, err) PROVE Fine
  BY <1>0, <1>2 DEF Return
<1>3. ASSUME NEW how, Crash(how), how # "null_dereference" PROVE Fine
  BY <1>3 DEF Crash
<1>4. ASSUME NotFound(w) PROVE Fine
  BY <1>2, <1>3, <1>4 DEF NotFound
<1> HIDE DEF Fine
<1>5. CASE LockFile(w) \/ UnlockFile(w) \/ OpenFile(w) \/ CloseFile(w)
  <2>1. Fine
    BY <1>1, <1>2, <1>3, <1>4, <1>5 DEF LockFile, UnlockFile, OpenFile, CloseFile
  <2> QED
    BY <2>1 DEF Fine
<1>6. CASE OpenCloseStats(w) \/ CreateStats(w) \/ RemoveStats(w) \/ EvictDone(w) \/ ReadRelease(w)
  <2>1. Fine
    BY <1>2, <1>6 DEF OpenCloseStats, CreateStats, RemoveStats, EvictDone, ReadRelease
  <2> QED
    BY <2>1 DEF Fine
<1>7. CASE CreateFetch(w) \/ CreateItem(w) \/ CreateLink(w)
  <2>1. Fine
    BY <1>1, <1>2, <1>3, <1>7 DEF CreateFetch, CreateItem, CreateLink
  <2> QED
    BY <2>1 DEF Fine
<1>8. CASE RemoveFile(w) \/ WriteContents(w)
  <2>1. Fine
    BY <1>1, <1>2, <1>3, <1>4, <1>8 DEF RemoveFile, WriteContents
  <2> QED
    BY <2>1 DEF Fine
<1>9. CASE WriteStats(w) \/ EvictLock(w) \/ ReadFetch(w)
  <2>1. Fine
    BY <1>1, <1>4, <1>9 DEF WriteStats, EvictLock, ReadFetch
  <2> QED
    BY <2>1 DEF Fine
<1>10. CASE \E b \in Bucket : EvictSegmented(w, b)
  <2>1. Fine
    BY <1>0, <1>3, <1>10 DEF EvictSegmented, vars, Fine
  <2> QED
    BY <2>1 DEF Fine
<1>11. CASE VisitHead(w) \/ VisitLock(w) \/ VisitSend(w) \/ VisitNext(w) \/ VisitBucket(w)
  <2>1. Fine
    BY <1>1, <1>2, <1>3, <1>11 DEF VisitHead, VisitLock, VisitSend, VisitNext, VisitBucket
  <2> QED
    BY <2>1 DEF Fine
<1>12. CASE EvictFifo(w)
  BY <1>0, <1>12 DEF EvictFifo, Crash, table
<1> QED
  BY <1>5, <1>6, <1>7, <1>8, <1>9, <1>10, <1>11, <1>12 DEF Step

\* Only an eviction counts as one, and only it and a creation change the FIFO.
LEMMA StepFifo ==
  ASSUME TypeOK, NEW w \in Worker, Step(w), ~ CreateStats(w), stats'.num_evictions = 0
  PROVE  stats.num_evictions = 0 /\ fifo' = fifo
<1>0. stats.num_evictions \in Nat
  BY DEF TypeOK, CountersTypeOK
<1> DEFINE Fine == stats'.num_evictions = stats.num_evictions /\ fifo' = fifo
<1> SUFFICES Fine
  BY <1>0
<1>1. ASSUME stats' = stats, fifo' = fifo PROVE Fine
  BY <1>1
<1>2. ASSUME NEW how, Crash(how) PROVE Fine
  BY <1>1, <1>2 DEF Crash
<1> HIDE DEF Fine
<1>3. ASSUME NotFound(w) PROVE Fine
  BY <1>1, <1>2, <1>3 DEF NotFound
<1>4. CASE LockFile(w) \/ UnlockFile(w) \/ OpenFile(w) \/ CloseFile(w)
  BY <1>1, <1>2, <1>3, <1>4 DEF LockFile, UnlockFile, OpenFile, CloseFile
<1>5. CASE OpenCloseStats(w) \/ RemoveStats(w) \/ WriteStats(w)
  BY <1>5 DEF OpenCloseStats, RemoveStats, WriteStats, Fine, TypeOK, CountersTypeOK
<1>6. CASE CreateFetch(w) \/ CreateItem(w) \/ CreateLink(w) \/ RemoveFile(w) \/ WriteContents(w)
  BY <1>1, <1>2, <1>3, <1>6 DEF CreateFetch, CreateItem, CreateLink, RemoveFile, WriteContents
<1>7. CASE EvictLock(w) \/ EvictDone(w) \/ ReadFetch(w) \/ ReadRelease(w)
  BY <1>1, <1>3, <1>7 DEF EvictLock, EvictDone, ReadFetch, ReadRelease
<1>8. ASSUME NEW item, EvictStats(item) PROVE FALSE
  <2>1. stats'.num_evictions = stats.num_evictions + 1
    BY <1>8 DEF EvictStats, TypeOK, CountersTypeOK
  <2> QED
    BY <1>0, <2>1
<1>9. CASE EvictFifo(w) \/ \E b \in Bucket : EvictSegmented(w, b)
  BY <1>1, <1>2, <1>8, <1>9 DEF EvictFifo, EvictSegmented, vars
<1>10. CASE VisitHead(w) \/ VisitLock(w) \/ VisitSend(w) \/ VisitNext(w) \/ VisitBucket(w)
  BY <1>1, <1>2, <1>10 DEF VisitHead, VisitLock, VisitSend, VisitNext, VisitBucket
<1> QED
  BY <1>4, <1>5, <1>6, <1>7, <1>9, <1>10 DEF Step

LEMMA StepOfCreator ==
  ASSUME NEW w \in Worker, Step(w), pc[w] \in {"create_link", "create_stats"}
  PROVE  CreateLink(w) \/ CreateStats(w)
  BY DEF Step, LockFile, UnlockFile, OpenFile, CloseFile, OpenCloseStats, CreateFetch, CreateItem,
     RemoveFile, RemoveStats, WriteContents, WriteStats, EvictLock, EvictDone, EvictSegmented,
     EvictFifo, ReadFetch, ReadRelease, VisitHead, VisitLock, VisitNext, VisitBucket, VisitSend, At

LEMMA NextVictimInv ==
  ASSUME DispatchInv, ListInv, VictimInv, [Next]_vars PROVE VictimInv'
<1>0. TypeOK /\ HasRequest /\ pc \in [Worker -> Labels] /\ ref \in [Worker -> Pointer]
      /\ stats.num_evictions \in Nat
  BY DEF DispatchInv, TypeOK, WorkerTypeOK, CountersTypeOK
<1> DEFINE Coming(a) == \E w \in Worker : pc[w] \in {"create_link", "create_stats"} /\ ref[w] = a
<1>1. SUFFICES ASSUME fault' = "none", Policy = "fifo", stats'.num_evictions = 0, fifo'.last = NULL,
                      NEW a \in Live'
               PROVE  Coming(a)'
  BY DEF VictimInv, Running
<1>2. ASSUME fault = "none", stats.num_evictions = 0, fifo.last = NULL, a \in Live PROVE Coming(a)
  BY <1>1, <1>2 DEF VictimInv, Running
<1>3. CASE UNCHANGED vars \/ Terminated
  BY <1>1, <1>2, <1>3 DEF Terminated, vars, Live
<1>4. ASSUME NEW w \in Worker, Begin(w) PROVE Coming(a)'
  <2>1. Coming(a)
    BY <1>1, <1>2, <1>4 DEF Begin, At, table, Live
  <2>2. ref' = ref /\ pc[w] = "idle" /\ \E l : pc' = [pc EXCEPT ![w] = l]
    BY <1>4 DEF Begin, At, locals
  <2> QED
    BY <1>0, <2>1, <2>2
<1>5. ASSUME NEW w \in Worker, Step(w) PROVE Coming(a)'
  <2>0. fault = "none"
    BY <1>5, StepRuns DEF Running
  <2>1. CASE CreateStats(w)
    <3>1. PICK c \in NodeAddr : fifo' = FifoAdd(fifo, c, req[w].key)
      BY <1>1, <2>1 DEF CreateStats
    <3>2. fifo'.last # NULL
      BY <3>1 DEF FifoAdd
    <3> QED
      BY <1>1, <3>2
  <2>2. CASE CreateItem(w)
    <3>1. PICK c \in Addr \ Live : /\ \A x \in Addr \ {c} : heap'[x] = heap[x]
                                   /\ ref' = [ref EXCEPT ![w] = c]
      BY <1>0, <2>2 DEF CreateItem, TypeOK, TableTypeOK
    <3>2. pc[w] = "create_item" /\ pc' = [pc EXCEPT ![w] = "create_link"] /\ fifo' = fifo /\ stats' = stats
      BY <2>2 DEF CreateItem, Goto, At
    <3>3. CASE a = c
      BY <1>0, <3>1, <3>2, <3>3
    <3>4. CASE a # c
      <4>1. Coming(a)
        BY <1>1, <1>2, <2>0, <3>1, <3>2, <3>4 DEF Live
      <4> QED
        BY <1>0, <3>1, <3>2, <4>1
    <3> QED
      BY <3>3, <3>4
  <2>3. CASE CreateLink(w)
    <3>1. /\ pc' = [pc EXCEPT ![w] = "create_stats"] /\ ref' = ref /\ fifo' = fifo /\ stats' = stats
          /\ pc[w] = "create_link"
      BY <1>1, <2>3 DEF CreateLink, Goto, At, locals, Crash
    <3>2. a \in Live
      <4>1. heap' = heap \/ heap' = [heap EXCEPT ![head[BucketOf(w)]].prev = ref[w]]
        BY <1>1, <2>3 DEF CreateLink, Crash, table
      <4>2. heap' # heap => head[BucketOf(w)] \in Live
        BY <1>1, <2>3 DEF CreateLink, Crash, table
      <4> QED
        BY <1>0, <4>1, <4>2 DEF Live, TypeOK, TableTypeOK
    <3> QED
      BY <1>0, <1>1, <1>2, <2>0, <3>1, <3>2
  <2>4. CASE ~ CreateStats(w) /\ ~ CreateItem(w) /\ ~ CreateLink(w)
    <3>1. pc[w] \notin {"create_link", "create_stats"}
      BY <1>5, <2>4, StepOfCreator
    <3>2. stats.num_evictions = 0 /\ fifo.last = NULL
      BY <1>0, <1>1, <1>5, <2>4, StepFifo
    <3>3. CASE UNCHANGED vars
      BY <1>1, <1>2, <3>3 DEF vars, Live
    <3>4. CASE Quiet(w) \/ \E p : TakesOut(w, p)
      <4>1. a \in Live
        BY <1>0, <3>4 DEF Quiet, SameLinks, TakesOut, Removed, Freed, Relinked, Live
      <4>2. \A u \in Worker \ {w} : pc'[u] = pc[u] /\ ref'[u] = ref[u]
        BY <1>0, <3>4 DEF Quiet, TakesOut
      <4> QED
        BY <1>2, <2>0, <3>1, <3>2, <4>1, <4>2
    <3> QED
      BY <1>0, <1>1, <1>5, <2>0, <2>4, <3>3, <3>4, ListSteps DEF Running
  <2> QED
    BY <2>1, <2>2, <2>3, <2>4
<1> QED
  BY <1>3, <1>4, <1>5 DEF Next

\* A server with one writer never fails to find the first file it evicts under the fifo policy,
\* unless a file was removed that its FIFO still lists (fifo_add_file, fifo_evict,
\* htable.c:555-635).
THEOREM FirstEvictionFindsFile == ASSUME OneWriter PROVE Spec => []FirstVictimFound
<1> DEFINE Inv == DispatchInv /\ ListInv /\ CountersInv /\ VictimInv /\ FirstVictimFound
<1>1. Init => Inv
  <2> SUFFICES ASSUME Init PROVE Inv
    OBVIOUS
  <2>1. DispatchInv /\ ListInv /\ CountersInv
    BY InitDispatchInv, InitListInv, InitCountersInv
  <2> QED
    BY <2>1 DEF Init, VictimInv, FirstVictimFound, Live
<1>2. ASSUME Inv, [Next]_vars PROVE Inv'
  <2>1. DispatchInv' /\ ListInv' /\ CountersInv' /\ VictimInv'
    BY <1>2, NextDispatchInv, NextListInv, NextCountersInv, NextVictimInv
  <2>2. FirstVictimFound'
    <3> DEFINE Lost == \/ stats.num_evictions > 0
                       \/ \E n \in NodeAddr : fifo.node[n] # NULL /\ Fetch(fifo.node[n].key) = NULL
    <3>0. SUFFICES ASSUME fault' = "null_dereference" PROVE Lost'
      BY DEF FirstVictimFound
    <3>1. CASE UNCHANGED vars \/ Terminated
      <4>1. UNCHANGED <<table, stats, fifo, fault>>
        BY <3>1 DEF Terminated, vars, table
      <4>2. Lost
        BY <1>2, <3>0, <4>1 DEF FirstVictimFound
      <4>3. \A k : Fetch(k)' = Fetch(k)
        BY <4>1, FetchSame
      <4> QED
        BY <4>1, <4>2, <4>3
    <3>2. ASSUME NEW w \in Worker, Begin(w) PROVE FALSE
      BY <3>0, <3>2 DEF Begin, At
    <3>3. ASSUME NEW w \in Worker, Step(w) PROVE Lost'
      <4>1. /\ EvictFifo(w) /\ UNCHANGED <<table, stats, fifo>>
            /\ \/ fifo.last = NULL
               \/ /\ fifo.last # NULL /\ fifo.node[fifo.last] # NULL
                  /\ Fetch(fifo.node[fifo.last].key) = NULL
        BY <3>0, <3>3, StepNullPointer
      <4>2. CASE fifo.last # NULL
        <5>1. fifo.last \in NodeAddr
          BY <1>2, <4>2 DEF DispatchInv, TypeOK, CountersTypeOK, NodePointer
        <5>2. Lost
          BY <4>1, <4>2, <5>1
        <5>3. \A k : Fetch(k)' = Fetch(k)
          BY <4>1, FetchSame
        <5> QED
          BY <4>1, <5>2, <5>3
      <4>3. CASE fifo.last = NULL
        <5>1. pc[w] = "evict" /\ OverLimit /\ Policy = "fifo" /\ Running
          BY <4>1 DEF EvictFifo, At, Running
        <5>2. Live # {}
          BY <1>2, <5>1, EvictorHasVictims
        <5>3. \A u \in Worker : pc[u] \notin {"create_link", "create_stats"}
          BY <1>2, <5>1, OnlyWriter DEF WriterLabels
        <5>4. stats.num_evictions # 0 /\ stats.num_evictions \in Nat
          BY <1>2, <4>3, <5>1, <5>2, <5>3 DEF VictimInv, DispatchInv, TypeOK, CountersTypeOK
        <5> QED
          BY <4>1, <5>4
      <4> QED
        BY <4>2, <4>3
    <3> QED
      BY <1>2, <3>1, <3>2, <3>3 DEF Next
  <2> QED
    BY <2>1, <2>2
<1>3. Inv => FirstVictimFound
  OBVIOUS
<1> HIDE DEF Inv
<1> QED
  BY <1>1, <1>2, <1>3, PTL DEF Spec

-----------------------------------------------------------------------------
(* What the store shows of the table. *)

\* The files are those of the linked items.
FilesShown ==
  /\ \A a \in Linked : heap[a].key \in Key /\ FilesBar[heap[a].key] = FileOf(heap[a])
  /\ \A k \in Key : (\A a \in Linked : heap[a].key # k) => FilesBar[k] = NULL

LEMMA FilesOfItems == ASSUME TableTypeOK, ListInv, Running PROVE FilesShown
<1>1. Linked \subseteq Live /\ NULL \notin Live /\ \A a \in Linked : heap[a].key \in Key
  BY LinkedItem
<1>2. \A k \in Key : FilesBar[k] = IF Fetch(k) \in Live THEN FileOf(heap[Fetch(k)]) ELSE NULL
  BY DEF FilesBar, FileAt
<1>3. \A a \in Linked : Fetch(heap[a].key) = a
  BY <1>1, FetchFinds
<1>4. \A k \in Key : Fetch(k) # NULL => Fetch(k) \in Linked /\ heap[Fetch(k)].key = k
  BY FetchFinds
<1> QED
  BY <1>1, <1>2, <1>3, <1>4 DEF FilesShown

\* The same of the next state.
LEMMA FilesOfItemsNext == (TableTypeOK /\ ListInv /\ Running)' => FilesShown'
  BY FilesOfItems, PTL

\* A step that touches the file of one path.
LEMMA FileChanges ==
  ASSUME TableTypeOK, ListInv, Running, TableTypeOK', ListInv', Running',
         NEW p \in Linked \cup Linked', NEW k \in Key,
         \A a \in Linked \ {p} : a \in Linked' /\ SameFile(heap[a], heap'[a]),
         Linked' \subseteq Linked \cup {p},
         p \in Linked => heap[p].key = k, p \in Linked' => heap'[p].key = k
  PROVE  FilesBar' = [FilesBar EXCEPT ![k] = IF p \in Linked' THEN FileOf(heap'[p]) ELSE NULL]
<1>1. /\ \A a \in Linked : heap[a].key \in Key /\ FilesBar[heap[a].key] = FileOf(heap[a])
      /\ \A j \in Key : (\A a \in Linked : heap[a].key # j) => FilesBar[j] = NULL
  BY FilesOfItems DEF FilesShown
<1>2. /\ \A a \in Linked' : heap'[a].key \in Key /\ FilesBar'[heap'[a].key] = FileOf(heap'[a])
      /\ \A j \in Key : (\A a \in Linked' : heap'[a].key # j) => FilesBar'[j] = NULL
  BY FilesOfItemsNext DEF FilesShown
<1>3. \A a \in Linked \ {p} : heap'[a].key = heap[a].key /\ FileOf(heap'[a]) = FileOf(heap[a])
  BY DEF SameFile, FileOf
<1>4. FilesBar'[k] = IF p \in Linked' THEN FileOf(heap'[p]) ELSE NULL
  <2>1. CASE p \in Linked'
    BY <1>2, <2>1
  <2>2. CASE p \notin Linked'
    <3>1. \A a \in Linked \ {p} : heap[a].key # k
      BY <2>2 DEF ListInv, KeysOnce
    <3> QED
      BY <1>2, <1>3, <2>2, <3>1
  <2> QED
    BY <2>1, <2>2
<1>5. ASSUME NEW j \in Key \ {k} PROVE FilesBar'[j] = FilesBar[j]
  <2>1. CASE \E a \in Linked : heap[a].key = j
    BY <1>1, <1>2, <1>3, <2>1
  <2>2. CASE \A a \in Linked : heap[a].key # j
    BY <1>1, <1>2, <1>3, <2>2
  <2> QED
    BY <2>1, <2>2
<1> QED
  BY <1>4, <1>5 DEF FilesBar

\* A step that leaves every file alone.
LEMMA FilesStay ==
  ASSUME TableTypeOK, ListInv, Running, TableTypeOK', ListInv', Running',
         Linked' = Linked, \A a \in Linked : SameFile(heap[a], heap'[a])
  PROVE  FilesBar' = FilesBar
<1>1. /\ \A a \in Linked : heap[a].key \in Key /\ FilesBar[heap[a].key] = FileOf(heap[a])
      /\ \A j \in Key : (\A a \in Linked : heap[a].key # j) => FilesBar[j] = NULL
  BY FilesOfItems DEF FilesShown
<1>2. /\ \A a \in Linked' : heap'[a].key \in Key /\ FilesBar'[heap'[a].key] = FileOf(heap'[a])
      /\ \A j \in Key : (\A a \in Linked' : heap'[a].key # j) => FilesBar'[j] = NULL
  BY FilesOfItemsNext DEF FilesShown
<1>3. \A a \in Linked : heap'[a].key = heap[a].key /\ FileOf(heap'[a]) = FileOf(heap[a])
  BY DEF SameFile, FileOf
<1>4. ASSUME NEW j \in Key PROVE FilesBar'[j] = FilesBar[j]
  BY <1>1, <1>2, <1>3
<1> QED
  BY <1>4 DEF FilesBar

-----------------------------------------------------------------------------
(* The limits. *)

\* The store sums and counts as the table does.
LEMMA StoreSums == ASSUME NEW f PROVE Store!SumFunction(f) = SumFunction(f)
  BY DEF Store!SumFunction, SumFunction, Store!SumFunctionOnSet, SumFunctionOnSet,
         Store!FoldFunctionOnSet, FoldFunctionOnSet, Store!MapThenFoldSet, MapThenFoldSet

LEMMA StoreCounts == ASSUME NEW S PROVE Store!Cardinality(S) = Cardinality(S)
  BY DEF Store!Cardinality, Cardinality

\* The file of an item is a file.
LEMMA FileIsNoNull == ASSUME NEW r \in Item PROVE FileOf(r) \in Store!File /\ FileOf(r) # NULL
<1>1. FileOf(r) \in Store!File
  BY DEF FileOf, Item, Store!File
<1> QED
  BY <1>1, StoreNullAssumption

\* Where every item is linked, the paths with a file are the keys of the items.
LEMMA StoredFiles ==
  ASSUME TableTypeOK, ListInv, Running, Linked = Live
  PROVE  /\ Store!Stored(FilesBar) = {heap[a].key : a \in Live}
         /\ Cardinality(Store!Stored(FilesBar)) = Cardinality(Live)
         /\ Store!StoredSpace(FilesBar) = StoredBytes
<1> DEFINE T == Store!Stored(FilesBar)
           b == [a \in Live |-> heap[a].key]
           e == [k \in T |-> FilesBar[k].length_in_bytes]
<1>1. /\ \A a \in Live : heap[a].key \in Key /\ FilesBar[heap[a].key] = FileOf(heap[a])
      /\ \A k \in Key : (\A a \in Live : heap[a].key # k) => FilesBar[k] = NULL
  BY FilesOfItems DEF FilesShown
<1>2. \A a \in Live : heap[a] \in Item /\ FileOf(heap[a]) # NULL
  BY LinkedItem, FileIsNoNull
<1>3. T = {k \in Key : FilesBar[k] # NULL}
  BY DEF Store!Stored
<1>4. T = {heap[a].key : a \in Live}
  <2>1. \A k \in T : k \in {heap[a].key : a \in Live}
    BY <1>1, <1>3
  <2>2. \A a \in Live : heap[a].key \in T
    BY <1>1, <1>2, <1>3
  <2> QED
    BY <2>1, <2>2
<1>5. b \in [Live -> T] /\ \A a \in Live : b[a] = heap[a].key
  BY <1>4
<1>6. e = [k \in T |-> e[k]] /\ \A k \in T : e[k] = FilesBar[k].length_in_bytes
  OBVIOUS
<1> HIDE DEF T, b, e
<1>7. /\ \A x, y \in Live : b[x] = b[y] => x = y
      /\ \A t \in T : \E x \in Live : b[x] = t
  BY <1>4, <1>5 DEF ListInv, KeysOnce
<1>8. IsFiniteSet(Addr) /\ Live \in SUBSET Addr /\ IsFiniteSet(Live)
  BY FS_Subset DEF Live
<1>9. IsFiniteSet(T) /\ Cardinality(T) = Cardinality(Live)
  <2>1. b \in Bijection(Live, T)
    BY <1>5, <1>7 DEF Bijection, Injection, Surjection, IsInjective
  <2> QED
    BY <1>8, <2>1, FS_Bijection DEF ExistsBijection
<1>a. \A a \in Live : e[b[a]] = heap[a].length_in_bytes
  <2> SUFFICES ASSUME NEW a \in Live PROVE e[b[a]] = heap[a].length_in_bytes
    OBVIOUS
  <2>1. b[a] \in T /\ FilesBar[b[a]] = FileOf(heap[a])
    BY <1>1, <1>5
  <2> QED
    BY <1>6, <2>1 DEF FileOf
<1>b. e \in [T -> Int]
  <2>1. \A a \in Live : heap[a].length_in_bytes \in Int
    BY <1>2 DEF Item
  <2>2. \A k \in T : e[k] \in Int
    BY <1>7, <1>a, <2>1
  <2> QED
    BY <1>6, <2>2
<1>c. Bytes \in [Addr -> Int] /\ \A a \in Addr \ Live : Bytes[a] = 0
  BY <1>2, <1>8 DEF Bytes, Item
<1>d. \A a \in Live : e[b[a]] = Bytes[a]
  BY <1>8, <1>a DEF Bytes
<1>10. SumFunction(Bytes) = SumFunction(e)
  BY <1>5, <1>7, <1>8, <1>9, <1>b, <1>c, <1>d, SumImage
<1>11. Store!StoredSpace(FilesBar) = SumFunction(e)
  BY StoreSums DEF Store!StoredSpace, T, e
<1> QED
  BY <1>4, <1>9, <1>10, <1>11 DEF T, StoredBytes

\* While it evicts, htable_evict_files knows from the counters whether a limit is exceeded.
LEMMA LimitsKnown ==
  ASSUME OneWriter, ItemsCountable, DispatchInv, ListInv, CountersInv, BytesFit, Running,
         NEW w \in Worker, pc[w] = "evict"
  PROVE  Store!Exceeded(FilesBar) <=> OverLimit
<1>1. /\ Plus(stats.items_count, 0 - Cardinality(Live)) = 0
      /\ Plus(stats.total_space, 0 - StoredBytes) = 0
  BY EvictorCounts
<1>2. stats.items_count \in SizeT /\ stats.total_space \in SizeT
  BY DEF CountersInv, TypeOK, CountersTypeOK
<1>3. \A u \in Worker : pc[u] \in WriterLabels => u = w
  BY OnlyWriter DEF WriterLabels
<1>4. \A u \in Worker : pc[u] \notin {"create_link", "write_stats", "remove_stats"}
  BY <1>3 DEF WriterLabels
<1>5. Linked = Live
  BY <1>4 DEF Linked
<1>6. Cardinality(Live) \in SizeT
  <2>1. IsFiniteSet(Addr) /\ Live \subseteq Addr
    BY DEF Live
  <2>2. Cardinality(Live) <= Cardinality(Addr) /\ Cardinality(Live) \in Nat
        /\ Cardinality(Addr) \in Nat
    BY <2>1, FS_Subset, FS_CardinalityType
  <2> QED
    BY <2>2 DEF ItemsCountable, SizeT
<1>7. StoredBytes \in SizeT
  <2>1. delta \in [Worker -> Int] /\ \A u \in Worker : delta[u] = 0
    BY <1>4 DEF CountersInv, DebtsInv, TypeOK, WorkerTypeOK
  <2>2. SumFunction(delta) = 0
    <3>1. IsFiniteSet(Worker)
      OBVIOUS
    <3> QED
      BY <2>1, <3>1, SumNat
  <2>3. StoredBytes \in Nat
    <3>1. Bytes \in [Addr -> Int] /\ \A a \in Addr : Bytes[a] \in Nat
      BY LinkedItem, <1>5 DEF Bytes, Item, DispatchInv, TypeOK
    <3>2. IsFiniteSet(Addr)
      OBVIOUS
    <3> HIDE DEF Bytes
    <3> QED
      BY <3>1, <3>2, SumNat DEF StoredBytes
  <2> QED
    BY <2>2, <2>3 DEF BytesFit, SizeT
<1>8. stats.items_count = Cardinality(Live) /\ stats.total_space = StoredBytes
  BY <1>1, <1>2, <1>6, <1>7, SameResidue
<1>9. TableTypeOK
  BY DEF DispatchInv, TypeOK
<1>10. /\ Cardinality(Store!Stored(FilesBar)) = Cardinality(Live)
       /\ Store!StoredSpace(FilesBar) = StoredBytes
  BY <1>5, <1>9, StoredFiles
<1> QED
  BY <1>8, <1>10, StoreCounts DEF OverLimit, Store!Exceeded

-----------------------------------------------------------------------------
(* What the store does for a request. *)

\* Creations take the lock or leave it by their name.
LEMMA DoCreate ==
  ASSUME NEW f, NEW r, r.op \in {"OPEN_FILE_CREATE", "OPEN_FILE_CREATE_LOCK"}
  PROVE  Store!Do(f, r) = Store!Create(f, r.key, r.fd, WithLock(r.op))
<1>1. CASE r.op = "OPEN_FILE_CREATE"
  <2>1. WithLock(r.op) = FALSE
    BY <1>1 DEF WithLock
  <2>2. Store!Do(f, r) = Store!Create(f, r.key, r.fd, FALSE)
    BY <1>1 DEF Store!Do
  <2> QED
    BY <2>1, <2>2
<1>2. CASE r.op = "OPEN_FILE_CREATE_LOCK"
  <2>1. WithLock(r.op) = TRUE
    BY <1>2 DEF WithLock
  <2>2. Store!Do(f, r) = Store!Create(f, r.key, r.fd, TRUE)
    BY <1>2 DEF Store!Do
  <2> QED
    BY <2>1, <2>2
<1> QED
  BY <1>1, <1>2

\* The requests that concern a stored file.
KeyedOps == ApiOp \ {"OPEN_FILE_CREATE", "OPEN_FILE_CREATE_LOCK", "READ_N_FILES"}

\* A request that concerns a stored file does not find it.
LEMMA DoMissing ==
  ASSUME NEW f, NEW r, r.op \in KeyedOps, f[r.key] = NULL
  PROVE  Store!Do(f, r) = [files |-> f, err |-> "FILE_NOT_FOUND"]
  BY DEF Store!Do, Store!Refused, KeyedOps, ApiOp

\* It does, and then it is a function of the file.
LEMMA DoPresent ==
  ASSUME NEW f, NEW r, f[r.key] # NULL
  PROVE  /\ r.op \in {"OPEN_FILE", "OPEN_FILE_LOCK"} =>
              Store!Do(f, r) = Store!Open(f, r.key, r.fd, WithLock(r.op))
         /\ r.op = "READ_FILE" => Store!Do(f, r) = [files |-> f, err |-> "OK"]
         /\ r.op = "WRITE_FILE" => Store!Do(f, r) = Store!Write(f, r.key, r.arg)
         /\ r.op = "APPEND_TO_FILE" =>
              Store!Do(f, r) = Store!Write(f, r.key, f[r.key].length_in_bytes + r.arg)
         /\ r.op = "LOCK_FILE" => Store!Do(f, r) = Store!Lock(f, r.key, r.fd)
         /\ r.op = "UNLOCK_FILE" => Store!Do(f, r) = Store!Unlock(f, r.key, r.fd)
         /\ r.op = "CLOSE_FILE" => Store!Do(f, r) = Store!Close(f, r.key, r.fd)
         /\ r.op = "REMOVE_FILE" => Store!Do(f, r) = Store!Remove(f, r.key, r.fd)
<1>1. r.op \in {"OPEN_FILE", "OPEN_FILE_LOCK"} =>
        Store!Do(f, r) = Store!Open(f, r.key, r.fd, WithLock(r.op))
  <2>1. ASSUME r.op = "OPEN_FILE"
        PROVE  WithLock(r.op) = FALSE /\ Store!Do(f, r) = Store!Open(f, r.key, r.fd, FALSE)
    <3>1. WithLock(r.op) = FALSE
      BY <2>1 DEF WithLock
    <3> QED
      BY <2>1, <3>1 DEF Store!Do
  <2>2. ASSUME r.op = "OPEN_FILE_LOCK"
        PROVE  WithLock(r.op) = TRUE /\ Store!Do(f, r) = Store!Open(f, r.key, r.fd, TRUE)
    <3>1. WithLock(r.op) = TRUE
      BY <2>2 DEF WithLock
    <3> QED
      BY <2>2, <3>1 DEF Store!Do
  <2> QED
    BY <2>1, <2>2
<1>2. r.op = "READ_FILE" => Store!Do(f, r) = [files |-> f, err |-> "OK"]
  BY DEF Store!Do, Store!Refused
<1>3. r.op = "WRITE_FILE" => Store!Do(f, r) = Store!Write(f, r.key, r.arg)
  BY DEF Store!Do
<1>4. r.op = "APPEND_TO_FILE" =>
        Store!Do(f, r) = Store!Write(f, r.key, f[r.key].length_in_bytes + r.arg)
  BY DEF Store!Do
<1>5. r.op = "LOCK_FILE" => Store!Do(f, r) = Store!Lock(f, r.key, r.fd)
  BY DEF Store!Do
<1>6. r.op = "UNLOCK_FILE" => Store!Do(f, r) = Store!Unlock(f, r.key, r.fd)
  BY DEF Store!Do
<1>7. r.op = "CLOSE_FILE" => Store!Do(f, r) = Store!Close(f, r.key, r.fd)
  BY DEF Store!Do
<1>8. r.op = "REMOVE_FILE" => Store!Do(f, r) = Store!Remove(f, r.key, r.fd)
  BY DEF Store!Do
<1> QED
  BY <1>1, <1>2, <1>3, <1>4, <1>5, <1>6, <1>7, <1>8

\* A file with the fields of an item is the file of that item.
LEMMA FileOfItem ==
  ASSUME NEW r \in Item, NEW f \in Store!File,
         f.length_in_bytes = r.length_in_bytes, f.contents = r.contents,
         f.fd_owner = r.fd_owner, f.is_open = r.is_open, f.is_locked = r.is_locked,
         f.subs = r.subs
  PROVE  FileOf(r) = f
<1> DEFINE g == FileOf(r)
<1>1. /\ g \in Store!File
      /\ g.length_in_bytes = r.length_in_bytes /\ g.contents = r.contents
      /\ g.fd_owner = r.fd_owner /\ g.is_open = r.is_open /\ g.is_locked = r.is_locked
      /\ g.subs = r.subs
  BY FileIsNoNull DEF FileOf
<1> HIDE DEF g
<1>2. g = f
  BY <1>1 DEF Store!File
<1> QED
  BY <1>2 DEF g

\* What the requests do to an item, and to a file.
Subscribed(r, fd) == [r EXCEPT !.subs = <<fd>> \o @]
LockFreed(r) == [r EXCEPT !.is_locked = FALSE]
Closed(r) == [r EXCEPT !.is_open = FALSE]
LockedBy(r, fd) == [r EXCEPT !.is_locked = TRUE, !.fd_owner = fd]
PassedOn(r) == [r EXCEPT !.fd_owner = Head(r.subs), !.subs = Tail(@)]
OpenedBy(r, fd, b) == [r EXCEPT !.is_open = TRUE, !.fd_owner = fd, !.is_locked = b]
Filled(r, n) == [r EXCEPT !.length_in_bytes = n, !.contents = TRUE]

\* Each keeps the links of an item, and does to its file what it does to the item.
LEMMA FileOfUpdates ==
  ASSUME NEW r \in Item, NEW fd \in Fd, NEW b \in BOOLEAN, NEW n \in Nat
  PROVE  /\ SameEnds(r, Subscribed(r, fd)) /\ FileOf(Subscribed(r, fd)) = Subscribed(FileOf(r), fd)
         /\ SameEnds(r, LockFreed(r)) /\ FileOf(LockFreed(r)) = LockFreed(FileOf(r))
         /\ SameEnds(r, Closed(r)) /\ FileOf(Closed(r)) = Closed(FileOf(r))
         /\ SameEnds(r, LockedBy(r, fd)) /\ FileOf(LockedBy(r, fd)) = LockedBy(FileOf(r), fd)
         /\ r.subs # <<>> => SameEnds(r, PassedOn(r)) /\ FileOf(PassedOn(r)) = PassedOn(FileOf(r))
         /\ SameEnds(r, OpenedBy(r, fd, b)) /\ FileOf(OpenedBy(r, fd, b)) = OpenedBy(FileOf(r), fd, b)
         /\ SameEnds(r, Filled(r, n)) /\ FileOf(Filled(r, n)) = Filled(FileOf(r), n)
<1> DEFINE g == FileOf(r)
<1>0. /\ g \in Store!File
      /\ g.length_in_bytes = r.length_in_bytes /\ g.contents = r.contents
      /\ g.fd_owner = r.fd_owner /\ g.is_open = r.is_open /\ g.is_locked = r.is_locked
      /\ g.subs = r.subs
  BY FileIsNoNull DEF FileOf
<1>a. <<fd>> \o r.subs \in Seq(Fd) /\ r.subs \in Seq(Fd)
  BY DEF Item
<1>b. r.subs # <<>> => Head(r.subs) \in Fd /\ Tail(r.subs) \in Seq(Fd)
  BY DEF Item
<1> HIDE DEF g
<1>1. SameEnds(r, Subscribed(r, fd)) /\ FileOf(Subscribed(r, fd)) = Subscribed(g, fd)
  <2> DEFINE x == Subscribed(r, fd)
             y == Subscribed(g, fd)
  <2>1. SameEnds(r, x)
    BY KeepsEnds DEF Subscribed
  <2>2. /\ x.length_in_bytes = r.length_in_bytes /\ x.contents = r.contents
        /\ x.fd_owner = r.fd_owner /\ x.is_open = r.is_open
        /\ x.is_locked = r.is_locked /\ x.subs = <<fd>> \o r.subs
    BY DEF Item, Subscribed
  <2>3. y \in Store!File
    BY <1>0, <1>a, <1>b DEF Store!File, Subscribed
  <2>4. /\ y.length_in_bytes = r.length_in_bytes /\ y.contents = r.contents
        /\ y.fd_owner = r.fd_owner /\ y.is_open = r.is_open
        /\ y.is_locked = r.is_locked /\ y.subs = <<fd>> \o r.subs
    BY <1>0 DEF Store!File, Subscribed
  <2> HIDE DEF x, y
  <2>5. FileOf(x) = y
    BY <2>1, <2>2, <2>3, <2>4, FileOfItem DEF SameEnds
  <2> QED
    BY <2>1, <2>5 DEF x, y
<1>2. SameEnds(r, LockFreed(r)) /\ FileOf(LockFreed(r)) = LockFreed(g)
  <2> DEFINE x == LockFreed(r)
             y == LockFreed(g)
  <2>1. SameEnds(r, x)
    BY KeepsEnds DEF LockFreed
  <2>2. /\ x.length_in_bytes = r.length_in_bytes /\ x.contents = r.contents
        /\ x.fd_owner = r.fd_owner /\ x.is_open = r.is_open
        /\ x.is_locked = FALSE /\ x.subs = r.subs
    BY DEF Item, LockFreed
  <2>3. y \in Store!File
    BY <1>0, <1>a, <1>b DEF Store!File, LockFreed
  <2>4. /\ y.length_in_bytes = r.length_in_bytes /\ y.contents = r.contents
        /\ y.fd_owner = r.fd_owner /\ y.is_open = r.is_open
        /\ y.is_locked = FALSE /\ y.subs = r.subs
    BY <1>0 DEF Store!File, LockFreed
  <2> HIDE DEF x, y
  <2>5. FileOf(x) = y
    BY <2>1, <2>2, <2>3, <2>4, FileOfItem DEF SameEnds
  <2> QED
    BY <2>1, <2>5 DEF x, y
<1>3. SameEnds(r, Closed(r)) /\ FileOf(Closed(r)) = Closed(g)
  <2> DEFINE x == Closed(r)
             y == Closed(g)
  <2>1. SameEnds(r, x)
    BY KeepsEnds DEF Closed
  <2>2. /\ x.length_in_bytes = r.length_in_bytes /\ x.contents = r.contents
        /\ x.fd_owner = r.fd_owner /\ x.is_open = FALSE
        /\ x.is_locked = r.is_locked /\ x.subs = r.subs
    BY DEF Item, Closed
  <2>3. y \in Store!File
    BY <1>0, <1>a, <1>b DEF Store!File, Closed
  <2>4. /\ y.length_in_bytes = r.length_in_bytes /\ y.contents = r.contents
        /\ y.fd_owner = r.fd_owner /\ y.is_open = FALSE
        /\ y.is_locked = r.is_locked /\ y.subs = r.subs
    BY <1>0 DEF Store!File, Closed
  <2> HIDE DEF x, y
  <2>5. FileOf(x) = y
    BY <2>1, <2>2, <2>3, <2>4, FileOfItem DEF SameEnds
  <2> QED
    BY <2>1, <2>5 DEF x, y
<1>4. SameEnds(r, LockedBy(r, fd)) /\ FileOf(LockedBy(r, fd)) = LockedBy(g, fd)
  <2> DEFINE x == LockedBy(r, fd)
             y == LockedBy(g, fd)
  <2>1. SameEnds(r, x)
    BY KeepsEnds DEF LockedBy
  <2>2. /\ x.length_in_bytes = r.length_in_bytes /\ x.contents = r.contents
        /\ x.fd_owner = fd /\ x.is_open = r.is_open
        /\ x.is_locked = TRUE /\ x.subs = r.subs
    BY DEF Item, LockedBy
  <2>3. y \in Store!File
    BY <1>0, <1>a, <1>b DEF Store!File, LockedBy
  <2>4. /\ y.length_in_bytes = r.length_in_bytes /\ y.contents = r.contents
        /\ y.fd_owner = fd /\ y.is_open = r.is_open
        /\ y.is_locked = TRUE /\ y.subs = r.subs
    BY <1>0 DEF Store!File, LockedBy
  <2> HIDE DEF x, y
  <2>5. FileOf(x) = y
    BY <2>1, <2>2, <2>3, <2>4, FileOfItem DEF SameEnds
  <2> QED
    BY <2>1, <2>5 DEF x, y
<1>5. ASSUME r.subs # <<>> PROVE SameEnds(r, PassedOn(r)) /\ FileOf(PassedOn(r)) = PassedOn(g)
  <2> DEFINE x == PassedOn(r)
             y == PassedOn(g)
  <2>1. SameEnds(r, x)
    BY <1>5, KeepsEnds DEF PassedOn
  <2>2. /\ x.length_in_bytes = r.length_in_bytes /\ x.contents = r.contents
        /\ x.fd_owner = Head(r.subs) /\ x.is_open = r.is_open
        /\ x.is_locked = r.is_locked /\ x.subs = Tail(r.subs)
    BY DEF Item, PassedOn
  <2>3. y \in Store!File
    BY <1>5, <1>0, <1>a, <1>b DEF Store!File, PassedOn
  <2>4. /\ y.length_in_bytes = r.length_in_bytes /\ y.contents = r.contents
        /\ y.fd_owner = Head(r.subs) /\ y.is_open = r.is_open
        /\ y.is_locked = r.is_locked /\ y.subs = Tail(r.subs)
    BY <1>0 DEF Store!File, PassedOn
  <2> HIDE DEF x, y
  <2>5. FileOf(x) = y
    BY <2>1, <2>2, <2>3, <2>4, FileOfItem DEF SameEnds
  <2> QED
    BY <2>1, <2>5 DEF x, y
<1>6. SameEnds(r, OpenedBy(r, fd, b)) /\ FileOf(OpenedBy(r, fd, b)) = OpenedBy(g, fd, b)
  <2> DEFINE x == OpenedBy(r, fd, b)
             y == OpenedBy(g, fd, b)
  <2>1. SameEnds(r, x)
    BY KeepsEnds DEF OpenedBy
  <2>2. /\ x.length_in_bytes = r.length_in_bytes /\ x.contents = r.contents
        /\ x.fd_owner = fd /\ x.is_open = TRUE
        /\ x.is_locked = b /\ x.subs = r.subs
    BY DEF Item, OpenedBy
  <2>3. y \in Store!File
    BY <1>0, <1>a, <1>b DEF Store!File, OpenedBy
  <2>4. /\ y.length_in_bytes = r.length_in_bytes /\ y.contents = r.contents
        /\ y.fd_owner = fd /\ y.is_open = TRUE
        /\ y.is_locked = b /\ y.subs = r.subs
    BY <1>0 DEF Store!File, OpenedBy
  <2> HIDE DEF x, y
  <2>5. FileOf(x) = y
    BY <2>1, <2>2, <2>3, <2>4, FileOfItem DEF SameEnds
  <2> QED
    BY <2>1, <2>5 DEF x, y
<1>7. SameEnds(r, Filled(r, n)) /\ FileOf(Filled(r, n)) = Filled(g, n)
  <2> DEFINE x == Filled(r, n)
             y == Filled(g, n)
  <2>1. SameEnds(r, x)
    BY KeepsEnds DEF Filled
  <2>2. /\ x.length_in_bytes = n /\ x.contents = TRUE
        /\ x.fd_owner = r.fd_owner /\ x.is_open = r.is_open
        /\ x.is_locked = r.is_locked /\ x.subs = r.subs
    BY DEF Item, Filled
  <2>3. y \in Store!File
    BY <1>0, <1>a, <1>b DEF Store!File, Filled
  <2>4. /\ y.length_in_bytes = n /\ y.contents = TRUE
        /\ y.fd_owner = r.fd_owner /\ y.is_open = r.is_open
        /\ y.is_locked = r.is_locked /\ y.subs = r.subs
    BY <1>0 DEF Store!File, Filled
  <2> HIDE DEF x, y
  <2>5. FileOf(x) = y
    BY <2>1, <2>2, <2>3, <2>4, FileOfItem DEF SameEnds
  <2> QED
    BY <2>1, <2>5 DEF x, y
<1> QED
  BY <1>1, <1>2, <1>3, <1>4, <1>5, <1>6, <1>7 DEF g

-----------------------------------------------------------------------------
(* The workers of the store. *)

\* A worker moves to label l, with request q and result e.
Moved(w, l, q, e) ==
  /\ pc' = [pc EXCEPT ![w] = l] /\ req' = [req EXCEPT ![w] = q] /\ ret' = [ret EXCEPT ![w] = e]

\* What the store sees of that.
LEMMA WorkerBars ==
  ASSUME WorkerTypeOK, NEW w \in Worker, NEW l, NEW q, NEW e, Moved(w, l, q, e)
  PROVE  /\ CallBar' = [CallBar EXCEPT ![w] =
                          IF l \in {"idle"} \cup Settled \cup Evicting THEN NULL ELSE q]
         /\ ResultBar' = [ResultBar EXCEPT ![w] =
                            IF l = "idle" THEN e ELSE IF l \in Settled THEN "OK" ELSE NULL]
         /\ EvictingBar' = IF l \in Evicting THEN EvictingBar \cup {w} ELSE EvictingBar \ {w}
<1>1. /\ pc'[w] = l /\ req'[w] = q /\ ret'[w] = e
      /\ \A u \in Worker \ {w} : pc'[u] = pc[u] /\ req'[u] = req[u] /\ ret'[u] = ret[u]
  BY DEF Moved, WorkerTypeOK
<1>2. CallBar' = [CallBar EXCEPT ![w] =
                    IF l \in {"idle"} \cup Settled \cup Evicting THEN NULL ELSE q]
  BY <1>1 DEF CallBar
<1>3. ResultBar' = [ResultBar EXCEPT ![w] =
                      IF l = "idle" THEN e ELSE IF l \in Settled THEN "OK" ELSE NULL]
  <2>1. "idle" \notin Settled
    BY DEF Settled
  <2> QED
    BY <1>1, <2>1 DEF ResultBar
<1>4. EvictingBar' = IF l \in Evicting THEN EvictingBar \cup {w} ELSE EvictingBar \ {w}
  BY <1>1 DEF EvictingBar
<1> QED
  BY <1>2, <1>3, <1>4

-----------------------------------------------------------------------------
(* Steps that the store sees, steps that it does not, and the end of the process. *)

\* The invariant of the table that the steps below start from.
StoreInv == DispatchInv /\ ListInv /\ CountersInv

\* The labels at which a request has yet to take effect.
Waiting == Labels \ ({"idle"} \cup Settled \cup Evicting)

\* The request of worker w takes effect in this step.
Performs(w) ==
  LET o == Store!Do(FilesBar, req[w]) IN
  /\ pc[w] \in Waiting /\ req[w] \in Request /\ fault = "none" /\ fault' = "none"
  /\ o.err # "exit" /\ FilesBar' = o.files
  /\ IF Store!Writes(req[w].op) /\ o.err = "OK"
     THEN Moved(w, "write_stats", req[w], ret[w])
     ELSE \/ Moved(w, "idle", NULL, o.err)
          \/ o.err = "OK" /\ \E l \in Settled : Moved(w, l, req[w], ret[w])

LEMMA PerformsSimulates ==
  ASSUME WorkerTypeOK, NEW w \in Worker, Performs(w) PROVE Store!Perform(w)
<1> DEFINE o == Store!Do(FilesBar, req[w])
<1>1. /\ pc[w] \in Waiting /\ req[w] \in Request /\ Running /\ Running'
      /\ o.err # "exit" /\ FilesBar' = o.files
      /\ IF Store!Writes(req[w].op) /\ o.err = "OK"
         THEN Moved(w, "write_stats", req[w], ret[w])
         ELSE \/ Moved(w, "idle", NULL, o.err)
              \/ o.err = "OK" /\ \E l \in Settled : Moved(w, l, req[w], ret[w])
  BY DEF Performs, Running
<1>2. CallBar[w] = req[w] /\ req[w] # NULL
  BY <1>1, NullAssumption DEF CallBar, Waiting
<1>3. ResultBar[w] = NULL /\ w \notin EvictingBar
  BY <1>1 DEF ResultBar, EvictingBar, Waiting, Settled, Evicting
<1>4. ResultBar = [ResultBar EXCEPT ![w] = ResultBar[w]]
  BY DEF ResultBar
<1> HIDE DEF o
<1>5. CASE Store!Writes(req[w].op) /\ o.err = "OK"
  <2>1. Moved(w, "write_stats", req[w], ret[w])
    BY <1>1, <1>5
  <2>2. "write_stats" \in Evicting /\ "write_stats" \notin Settled /\ "write_stats" # "idle"
    BY DEF Evicting, Settled
  <2>3. /\ CallBar' = [CallBar EXCEPT ![w] = NULL]
        /\ ResultBar' = [ResultBar EXCEPT ![w] = NULL]
        /\ EvictingBar' = EvictingBar \cup {w}
    BY <2>1, <2>2, WorkerBars
  <2> QED
    BY <1>1, <1>2, <1>3, <1>4, <1>5, <2>3 DEF Store!Perform, o, Running
<1>6. CASE ~(Store!Writes(req[w].op) /\ o.err = "OK")
  <2>1. PICK l \in {"idle"} \cup Settled : \E q, e :
          /\ Moved(w, l, q, e)
          /\ l = "idle" => e = o.err
          /\ l # "idle" => o.err = "OK"
    <3>1. CASE Moved(w, "idle", NULL, o.err)
      BY <3>1, Zenon
    <3>2. CASE o.err = "OK" /\ \E l \in Settled : Moved(w, l, req[w], ret[w])
      <4>1. "idle" \notin Settled
        BY DEF Settled
      <4> QED
        BY <3>2, <4>1
    <3> QED
      BY <1>1, <1>6, <3>1, <3>2
  <2>2. PICK q, e : /\ Moved(w, l, q, e)
                    /\ l = "idle" => e = o.err
                    /\ l # "idle" => o.err = "OK"
    BY <2>1
  <2>3. l \notin Evicting
    BY DEF Settled, Evicting
  <2>4. /\ CallBar' = [CallBar EXCEPT ![w] = NULL]
        /\ ResultBar' = [ResultBar EXCEPT ![w] = o.err]
        /\ EvictingBar' = EvictingBar \ {w}
    BY <2>2, <2>3, WorkerBars
  <2> QED
    BY <1>1, <1>2, <1>3, <1>6, <2>4 DEF Store!Perform, o, Running
<1> QED
  BY <1>5, <1>6

\* A step that the store does not see.
Hidden(w) ==
  /\ FilesBar' = FilesBar /\ fault' = fault
  /\ \E l, q, e :
       /\ Moved(w, l, q, e)
       /\ \/ pc[w] \in Settled /\ l = "idle" /\ e = "OK"
          \/ pc[w] \in Evicting /\ l \in Evicting
          \/ pc[w] \in Waiting /\ l \in Waiting /\ q = req[w]

LEMMA HiddenStutters ==
  ASSUME WorkerTypeOK, NEW w \in Worker, Hidden(w) PROVE UNCHANGED Store!vars
<1>1. PICK l, q, e :
        /\ Moved(w, l, q, e)
        /\ \/ pc[w] \in Settled /\ l = "idle" /\ e = "OK"
           \/ pc[w] \in Evicting /\ l \in Evicting
           \/ pc[w] \in Waiting /\ l \in Waiting /\ q = req[w]
  BY DEF Hidden
<1>2. /\ CallBar' = [CallBar EXCEPT ![w] =
                       IF l \in {"idle"} \cup Settled \cup Evicting THEN NULL ELSE q]
      /\ ResultBar' = [ResultBar EXCEPT ![w] =
                         IF l = "idle" THEN e ELSE IF l \in Settled THEN "OK" ELSE NULL]
      /\ EvictingBar' = IF l \in Evicting THEN EvictingBar \cup {w} ELSE EvictingBar \ {w}
  BY <1>1, WorkerBars
<1>3. /\ CallBar = [CallBar EXCEPT ![w] = CallBar[w]]
      /\ ResultBar = [ResultBar EXCEPT ![w] = ResultBar[w]]
      /\ CallBar[w] = IF pc[w] \in {"idle"} \cup Settled \cup Evicting THEN NULL ELSE req[w]
      /\ w \in EvictingBar <=> pc[w] \in Evicting
  <2>1. w \in EvictingBar <=> pc[w] \in Evicting
    BY DEF EvictingBar
  <2>2. /\ CallBar = [CallBar EXCEPT ![w] = CallBar[w]]
        /\ CallBar[w] = IF pc[w] \in {"idle"} \cup Settled \cup Evicting THEN NULL ELSE req[w]
    BY DEF CallBar
  <2>3. ResultBar = [ResultBar EXCEPT ![w] = ResultBar[w]]
    BY DEF ResultBar
  <2> QED
    BY <2>1, <2>2, <2>3
<1>4. /\ pc[w] \in Settled => ResultBar[w] = "OK"
      /\ pc[w] \in Evicting \cup Waiting => ResultBar[w] = NULL
  BY DEF ResultBar, Settled, Evicting, Waiting
<1>5. \A s \in Settled : s \notin Evicting /\ s # "idle" /\ s \notin Waiting
  BY DEF Settled, Evicting, Waiting
<1>6. \A s \in Evicting : s \notin Settled /\ s # "idle" /\ s \notin Waiting
  BY DEF Settled, Evicting, Waiting
<1>7. \A s \in Waiting : s \notin Settled /\ s # "idle" /\ s \notin Evicting
  BY DEF Waiting
<1>8. "idle" \notin Evicting
  BY DEF Evicting
<1>9. CallBar' = CallBar /\ ResultBar' = ResultBar /\ EvictingBar' = EvictingBar
  <2>1. CASE pc[w] \in Settled /\ l = "idle" /\ e = "OK"
    <3>1. /\ CallBar' = [CallBar EXCEPT ![w] = NULL]
          /\ ResultBar' = [ResultBar EXCEPT ![w] = "OK"]
          /\ EvictingBar' = EvictingBar \ {w}
      BY <1>2, <1>8, <2>1
    <3>2. CallBar[w] = NULL /\ ResultBar[w] = "OK" /\ w \notin EvictingBar
      BY <1>3, <1>4, <1>5, <2>1
    <3> QED
      BY <1>3, <3>1, <3>2
  <2>2. CASE pc[w] \in Evicting /\ l \in Evicting
    BY <1>2, <1>3, <1>4, <1>6, <2>2
  <2>3. CASE pc[w] \in Waiting /\ l \in Waiting /\ q = req[w]
    BY <1>2, <1>3, <1>4, <1>7, <2>3
  <2> QED
    BY <1>1, <2>1, <2>2, <2>3
<1> QED
  BY <1>9 DEF Hidden, Store!vars, Running

\* The request of worker w ends the process.
Fails(w) ==
  /\ UNCHANGED <<table, pc, req, ret>> /\ fault = "none" /\ fault' # "none"
  /\ \/ pc[w] \in Waiting /\ req[w] \in Request /\ Store!Do(FilesBar, req[w]).err = "exit"
     \/ pc[w] \in Evicting /\ Store!Exceeded(FilesBar) /\ Policy = "fifo"

\* A step that leaves the table alone leaves the files alone.
LEMMA FilesOfTable == ASSUME UNCHANGED table PROVE FilesBar' = FilesBar
<1>1. \A k : Fetch(k)' = Fetch(k)
  BY FetchSame
<1>2. Live' = Live /\ heap' = heap
  BY DEF Live, table
<1>3. \A k : FileAt(k)' = FileAt(k)
  BY <1>1, <1>2 DEF FileAt
<1> QED
  BY <1>3 DEF FilesBar

LEMMA FailsSimulates ==
  ASSUME NEW w \in Worker, Fails(w) PROVE Store!Fail(w)
<1>1. FilesBar' = FilesBar
  BY FilesOfTable DEF Fails
<1>2. CallBar' = CallBar /\ ResultBar' = ResultBar /\ EvictingBar' = EvictingBar
  BY DEF Fails, CallBar, ResultBar, EvictingBar
<1>3. Running /\ Running' = FALSE
  BY DEF Fails, Running
<1>4. CASE pc[w] \in Waiting /\ req[w] \in Request /\ Store!Do(FilesBar, req[w]).err = "exit"
  <2>1. CallBar[w] = req[w] /\ req[w] # NULL
    BY <1>4, NullAssumption DEF CallBar, Waiting
  <2> QED
    BY <1>1, <1>2, <1>3, <1>4, <2>1 DEF Store!Fail
<1>5. CASE pc[w] \in Evicting /\ Store!Exceeded(FilesBar) /\ Policy = "fifo"
  <2>1. w \in EvictingBar
    BY <1>5 DEF EvictingBar
  <2> QED
    BY <1>1, <1>2, <1>3, <1>5, <2>1 DEF Store!Fail
<1> QED
  BY <1>4, <1>5 DEF Fails

-----------------------------------------------------------------------------
(* What the requests find under their paths. *)

\* How a worker moves on when it returns, and when it goes on.
LEMMA ReturnMoves ==
  ASSUME NEW w \in Worker, NEW err, Return(w, err) PROVE Moved(w, "idle", NULL, err) /\ fault' = fault
  BY DEF Return, Moved

LEMMA GotoMoves ==
  ASSUME WorkerTypeOK, NEW w \in Worker, NEW l, Goto(w, l)
  PROVE  Moved(w, l, req[w], ret[w]) /\ fault' = fault
  BY DEF Goto, Moved, WorkerTypeOK

\* The request that a label belongs to.
LEMMA OpOfLabel ==
  ASSUME DispatchInv, NEW w \in Worker, pc[w] # "idle"
  PROVE  /\ req[w] \in Request /\ req[w].op \in Api[w] /\ req[w].key \in Key
         /\ pc[w] = "lock" => req[w].op = "LOCK_FILE"
         /\ pc[w] = "unlock" => req[w].op = "UNLOCK_FILE"
         /\ pc[w] = "open" => req[w].op \in {"OPEN_FILE", "OPEN_FILE_LOCK"}
         /\ pc[w] = "close" => req[w].op = "CLOSE_FILE"
         /\ pc[w] = "read" => req[w].op = "READ_FILE"
         /\ pc[w] = "remove" => req[w].op = "REMOVE_FILE"
         /\ pc[w] = "write" => req[w].op \in {"WRITE_FILE", "APPEND_TO_FILE"}
         /\ pc[w] \in {"create", "create_item", "create_link", "create_stats"} =>
              req[w].op \in {"OPEN_FILE_CREATE", "OPEN_FILE_CREATE_LOCK"}
         /\ pc[w] \in {"visit", "visit_lock", "visit_next", "visit_bucket", "visit_send"} =>
              req[w].op = "READ_N_FILES"
<1>1. req[w] \in Request /\ req[w].op \in Api[w] /\ pc[w] \in LabelsOf(req[w].op)
      /\ req[w].op \in ApiOp /\ req[w].key \in Key
  BY DEF DispatchInv, HasRequest, Dispatched, Request
<1> DEFINE op == req[w].op
           label == pc[w]
<1>2. op \in ApiOp /\ label \in LabelsOf(op)
  BY <1>1
<1> HIDE DEF op, label
<1>3. /\ label = "lock" => op = "LOCK_FILE"
      /\ label = "unlock" => op = "UNLOCK_FILE"
      /\ label = "open" => op \in {"OPEN_FILE", "OPEN_FILE_LOCK"}
      /\ label = "close" => op = "CLOSE_FILE"
      /\ label = "read" => op = "READ_FILE"
      /\ label = "remove" => op = "REMOVE_FILE"
      /\ label = "write" => op \in {"WRITE_FILE", "APPEND_TO_FILE"}
      /\ label \in {"create", "create_item", "create_link", "create_stats"} =>
           op \in {"OPEN_FILE_CREATE", "OPEN_FILE_CREATE_LOCK"}
      /\ label \in {"visit", "visit_lock", "visit_next", "visit_bucket", "visit_send"} =>
           op = "READ_N_FILES"
  BY <1>2, SMTT(30) DEF LabelsOf, ApiOp
<1> QED
  BY <1>1, <1>3 DEF op, label

\* What a request finds under its path is what the store has there.
LEMMA Lookup ==
  ASSUME TypeOK, ListInv, Running, NEW w \in Worker, req[w].key \in Key
  PROVE  LET k == req[w].key  p == Fetch(k) IN
         /\ p # WILD /\ (p = NULL \/ p \in Live) /\ NULL \notin Live
         /\ p = NULL => FilesBar[k] = NULL
         /\ p \in Live => /\ p \in Linked /\ heap[p] \in Item /\ heap[p].key = k
                          /\ FilesBar[k] = FileOf(heap[p]) /\ FilesBar[k] # NULL
<1> DEFINE k == req[w].key
           p == Fetch(k)
<1>1. TableTypeOK
  BY DEF TypeOK
<1>2. p \in Linked \cup {NULL} /\ (p # NULL => heap[p].key = k)
  BY <1>1, FetchFinds
<1>3. Linked \subseteq Live /\ NULL \notin Live /\ Live \subseteq Addr
      /\ \A a \in Live : heap[a] \in Item
  BY <1>1, LinkedItem
<1>4. FilesBar[k] = IF p \in Live THEN FileOf(heap[p]) ELSE NULL
  BY DEF FilesBar, FileAt
<1> HIDE DEF p
<1>5. p \in Live => FileOf(heap[p]) # NULL
  BY <1>3, FileIsNoNull
<1> QED
  BY <1>2, <1>3, <1>4, <1>5 DEF p

\* A request that leaves the table alone and returns at once.
LEMMA RefusedPerforms ==
  ASSUME NEW w \in Worker, NEW err, UNCHANGED table, Return(w, err), Running,
         pc[w] \in Waiting, req[w] \in Request,
         Store!Do(FilesBar, req[w]) = [files |-> FilesBar, err |-> err],
         err # "exit", ~(Store!Writes(req[w].op) /\ err = "OK")
  PROVE  Performs(w)
<1>1. FilesBar' = FilesBar
  BY FilesOfTable
<1>2. Moved(w, "idle", NULL, err) /\ fault' = fault
  BY ReturnMoves
<1> QED
  BY <1>1, <1>2 DEF Performs, Running

\* A request whose path has no file.
LEMMA NotFoundPerforms ==
  ASSUME TypeOK, ListInv, Running, NEW w \in Worker, NotFound(w), fault' = "none",
         pc[w] \in Waiting, req[w] \in Request, req[w].op \in KeyedOps
  PROVE  Performs(w)
<1>1. req[w].key \in Key
  BY DEF Request
<1>2. Fetch(req[w].key) = NULL /\ Return(w, "FILE_NOT_FOUND") /\ UNCHANGED table
  BY DEF NotFound, Crash
<1>3. FilesBar[req[w].key] = NULL
  BY <1>1, <1>2, Lookup
<1>4. Store!Do(FilesBar, req[w]) = [files |-> FilesBar, err |-> "FILE_NOT_FOUND"]
  BY <1>3, DoMissing
<1> QED
  BY <1>2, <1>4, RefusedPerforms

\* A request that rewrites the item of its path.
LEMMA LinkedStays ==
  ASSUME WorkerTypeOK, NEW w \in Worker, NEW l, pc[w] # "create_link", l # "create_link",
         pc' = [pc EXCEPT ![w] = l], \A u \in Worker \ {w} : ref'[u] = ref[u],
         Live' = Live
  PROVE  Linked' = Linked
<1>1. \A u \in Worker : pc'[u] = IF u = w THEN l ELSE pc[u]
  BY DEF WorkerTypeOK
<1> QED
  BY <1>1 DEF Linked

\* The item at p is rewritten: its file is, and no other.
LEMMA FilesOfRewrite ==
  ASSUME TypeOK, ListInv, Running, TypeOK', ListInv', Running',
         NEW w \in Worker, NEW l, pc[w] # "create_link", l # "create_link",
         pc' = [pc EXCEPT ![w] = l], \A u \in Worker \ {w} : ref'[u] = ref[u],
         NEW p \in Linked, NEW new, Rewritten(p, new), SameEnds(heap[p], new)
  PROVE  FilesBar' = [FilesBar EXCEPT ![heap[p].key] = FileOf(new)]
<1>1. TableTypeOK /\ TableTypeOK' /\ WorkerTypeOK
  BY DEF TypeOK
<1>2. p \in Live /\ p \in Addr /\ heap[p].key \in Key
  BY <1>1, LinkedItem
<1>3. heap'[p] = new /\ \A a \in Addr \ {p} : heap'[a] = heap[a]
  BY <1>1, <1>2 DEF Rewritten, TableTypeOK
<1>4. Live' = Live
  BY <1>2, <1>3, NullIsNoItem DEF Live, SameEnds
<1>5. Linked' = Linked
  BY <1>1, <1>4, LinkedStays
<1>6. \A a \in Linked \ {p} : a \in Linked' /\ SameFile(heap[a], heap'[a])
  BY <1>3, <1>5 DEF SameFile, Linked, Live
<1>7. heap'[p].key = heap[p].key
  BY <1>3 DEF SameEnds
<1> DEFINE k == heap[p].key
<1>8. k \in Key /\ heap[p].key = k /\ heap'[p].key = k
  BY <1>2, <1>7
<1> HIDE DEF k
<1>9. FilesBar' = [FilesBar EXCEPT ![k] = IF p \in Linked' THEN FileOf(heap'[p]) ELSE NULL]
  BY <1>1, <1>5, <1>6, <1>8, FileChanges
<1> QED
  BY <1>3, <1>5, <1>9 DEF k

\* How a request that takes effect ends or goes on.
LEMMA ActsPerforms ==
  ASSUME NEW w \in Worker, pc[w] \in Waiting, req[w] \in Request, Running, fault' = fault,
         NEW f, NEW err, Store!Do(FilesBar, req[w]) = [files |-> f, err |-> err], FilesBar' = f,
         err # "exit",
         \/ Store!Writes(req[w].op) /\ err = "OK" /\ Moved(w, "write_stats", req[w], ret[w])
         \/ ~(Store!Writes(req[w].op) /\ err = "OK") /\ Moved(w, "idle", NULL, err)
         \/ ~ Store!Writes(req[w].op) /\ err = "OK"
            /\ \E l \in Settled : Moved(w, l, req[w], ret[w])
  PROVE  Performs(w)
  BY DEF Performs, Running

\* A request that replaces the item of its path.
LEMMA RewriteActs ==
  ASSUME StoreInv, StoreInv', NEW w \in Worker, pc[w] \in Waiting, pc[w] # "create_link", Running,
         NEW p, p = Fetch(req[w].key), p \in Live,
         NEW new, SameEnds(heap[p], new), heap' = [heap EXCEPT ![p] = new],
         NEW l, NEW q, NEW e, l # "create_link", Moved(w, l, q, e), fault' = fault,
         \A u \in Worker \ {w} : ref'[u] = ref[u]
  PROVE  FilesBar' = [FilesBar EXCEPT ![req[w].key] = FileOf(new)]
<1>1. TypeOK /\ ListInv /\ TypeOK' /\ ListInv' /\ Running'
  BY DEF StoreInv, DispatchInv, Running
<1>2. req[w].key \in Key
  <2>1. pc[w] # "idle"
    BY DEF Waiting
  <2> QED
    BY <2>1, OpOfLabel DEF StoreInv
<1>3. p \in Linked /\ heap[p].key = req[w].key
  BY <1>1, <1>2, Lookup
<1>4. FilesBar' = [FilesBar EXCEPT ![heap[p].key] = FileOf(new)]
  BY <1>1, <1>3, FilesOfRewrite DEF Rewritten, Moved
<1> QED
  BY <1>3, <1>4

\* What a request may make of the item of its path, and of the file that the store has there.
LEMMA RequestRewrites ==
  ASSUME StoreInv, Running, NEW w \in Worker, pc[w] # "idle",
         NEW k, k = req[w].key, NEW p, p = Fetch(k), p \in Live, NEW fd, fd = req[w].fd
  PROVE  /\ FilesBar[k] = FileOf(heap[p])
         /\ SameEnds(heap[p], Subscribed(heap[p], fd))
         /\ FileOf(Subscribed(heap[p], fd)) = Subscribed(FilesBar[k], fd)
         /\ SameEnds(heap[p], LockedBy(heap[p], fd))
         /\ FileOf(LockedBy(heap[p], fd)) = LockedBy(FilesBar[k], fd)
         /\ SameEnds(heap[p], LockFreed(heap[p]))
         /\ FileOf(LockFreed(heap[p])) = LockFreed(FilesBar[k])
         /\ heap[p].subs # <<>> => /\ SameEnds(heap[p], PassedOn(heap[p]))
                                   /\ FileOf(PassedOn(heap[p])) = PassedOn(FilesBar[k])
         /\ SameEnds(heap[p], Closed(heap[p]))
         /\ FileOf(Closed(heap[p])) = Closed(FilesBar[k])
         /\ \A b \in BOOLEAN : /\ SameEnds(heap[p], OpenedBy(heap[p], fd, b))
                               /\ FileOf(OpenedBy(heap[p], fd, b)) = OpenedBy(FilesBar[k], fd, b)
         /\ \A n \in Nat : /\ SameEnds(heap[p], Filled(heap[p], n))
                           /\ FileOf(Filled(heap[p], n)) = Filled(FilesBar[k], n)
<1>1. TypeOK /\ ListInv /\ k \in Key /\ req[w] \in Request
  BY OpOfLabel DEF StoreInv, DispatchInv
<1>2. heap[p] \in Item /\ FilesBar[k] = FileOf(heap[p]) /\ fd \in Fd
  BY <1>1, Lookup DEF Request
<1>3. \A b \in BOOLEAN, n \in Nat :
         /\ SameEnds(heap[p], Subscribed(heap[p], fd))
         /\ FileOf(Subscribed(heap[p], fd)) = Subscribed(FileOf(heap[p]), fd)
         /\ SameEnds(heap[p], LockFreed(heap[p]))
         /\ FileOf(LockFreed(heap[p])) = LockFreed(FileOf(heap[p]))
         /\ SameEnds(heap[p], Closed(heap[p])) /\ FileOf(Closed(heap[p])) = Closed(FileOf(heap[p]))
         /\ SameEnds(heap[p], LockedBy(heap[p], fd))
         /\ FileOf(LockedBy(heap[p], fd)) = LockedBy(FileOf(heap[p]), fd)
         /\ heap[p].subs # <<>> => /\ SameEnds(heap[p], PassedOn(heap[p]))
                                   /\ FileOf(PassedOn(heap[p])) = PassedOn(FileOf(heap[p]))
         /\ SameEnds(heap[p], OpenedBy(heap[p], fd, b))
         /\ FileOf(OpenedBy(heap[p], fd, b)) = OpenedBy(FileOf(heap[p]), fd, b)
         /\ SameEnds(heap[p], Filled(heap[p], n))
         /\ FileOf(Filled(heap[p], n)) = Filled(FileOf(heap[p]), n)
  BY <1>2, FileOfUpdates
<1>4. TRUE \in BOOLEAN /\ 0 \in Nat
  OBVIOUS
<1> QED
  BY <1>2, <1>3, <1>4

\* For the store, the request r puts file f under the path k, with result err.
Rewrites(r, k, f, err) ==
  Store!Do(FilesBar, r) = [files |-> [FilesBar EXCEPT ![k] = f], err |-> err]

\* A request that rewrites the item of its path takes effect.
LEMMA RewritePerforms ==
  ASSUME StoreInv, StoreInv', NEW w \in Worker, pc[w] \in Waiting, pc[w] # "create_link", Running,
         NEW k, k = req[w].key, NEW p, p = Fetch(k), p \in Live,
         NEW new, SameEnds(heap[p], new), Rewritten(p, new),
         NEW err, err # "exit", Rewrites(req[w], k, FileOf(new), err),
         \/ err # "OK" /\ Return(w, err)
         \/ err = "OK" /\ ~ Store!Writes(req[w].op)
            /\ (Return(w, err) \/ \E l \in Settled : Goto(w, l) /\ UNCHANGED ref)
         \/ err = "OK" /\ Store!Writes(req[w].op) /\ Goto(w, "write_stats") /\ UNCHANGED ref
  PROVE  Performs(w)
<1> DEFINE Ends(l, q, e) ==
             /\ l # "create_link" /\ Moved(w, l, q, e) /\ fault' = fault
             /\ \A u \in Worker \ {w} : ref'[u] = ref[u]
             /\ \/ Store!Writes(req[w].op) /\ err = "OK" /\ l = "write_stats"
                   /\ q = req[w] /\ e = ret[w]
                \/ ~(Store!Writes(req[w].op) /\ err = "OK") /\ l = "idle" /\ q = NULL /\ e = err
                \/ ~Store!Writes(req[w].op) /\ err = "OK" /\ l \in Settled
                   /\ q = req[w] /\ e = ret[w]
<1>1. \E l, q, e : Ends(l, q, e)
  <2>0. /\ ref \in [Worker -> Pointer] /\ WorkerTypeOK /\ Settled \subseteq Labels \ {"create_link"}
    BY DEF StoreInv, DispatchInv, TypeOK, WorkerTypeOK, Labels, Settled
  <2>1. CASE Return(w, err) /\ ~(Store!Writes(req[w].op) /\ err = "OK")
    <3>1. Moved(w, "idle", NULL, err) /\ fault' = fault
      BY <2>1, ReturnMoves
    <3>2. \A u \in Worker \ {w} : ref'[u] = ref[u]
      BY <2>0, <2>1 DEF Return
    <3>3. Ends("idle", NULL, err)
      BY <2>1, <3>1, <3>2
    <3> HIDE DEF Ends
    <3> QED
      BY <3>3
  <2>2. ASSUME NEW l \in Settled, Goto(w, l), UNCHANGED ref, err = "OK", ~Store!Writes(req[w].op)
        PROVE  \E m, q, e : Ends(m, q, e)
    <3>1. Moved(w, l, req[w], ret[w]) /\ fault' = fault
      BY <2>0, <2>2, GotoMoves
    <3>2. Ends(l, req[w], ret[w])
      BY <2>0, <2>2, <3>1
    <3> HIDE DEF Ends
    <3> QED
      BY <3>2
  <2>3. CASE Goto(w, "write_stats") /\ UNCHANGED ref /\ err = "OK" /\ Store!Writes(req[w].op)
    <3>1. Moved(w, "write_stats", req[w], ret[w]) /\ fault' = fault
      BY <2>0, <2>3, GotoMoves
    <3>2. Ends("write_stats", req[w], ret[w])
      BY <2>3, <3>1
    <3> HIDE DEF Ends
    <3> QED
      BY <3>2
  <2> HIDE DEF Ends
  <2> QED
    BY <2>1, <2>2, <2>3
<1> HIDE DEF Ends
<1>a. PICK l, q, e : Ends(l, q, e)
  BY <1>1
<1>b. /\ l # "create_link" /\ Moved(w, l, q, e) /\ fault' = fault
      /\ \A u \in Worker \ {w} : ref'[u] = ref[u]
  BY <1>a DEF Ends
<1>2. FilesBar' = [FilesBar EXCEPT ![k] = FileOf(new)]
  BY <1>b, RewriteActs DEF Rewritten
<1>3. req[w] \in Request
  <2>1. pc[w] # "idle"
    BY DEF Waiting
  <2> QED
    BY <2>1, OpOfLabel DEF StoreInv
<1> DEFINE g == [FilesBar EXCEPT ![k] = FileOf(new)]
<1>4. Store!Do(FilesBar, req[w]) = [files |-> g, err |-> err] /\ FilesBar' = g
  BY <1>2 DEF Rewrites
<1> HIDE DEF g
<1> QED
  BY <1>a, <1>3, <1>4, ActsPerforms DEF Ends

\* It returns at once, or goes on.
LEMMA RewriteReturns ==
  ASSUME StoreInv, StoreInv', NEW w \in Worker, pc[w] \in Waiting, pc[w] # "create_link", Running,
         NEW k, k = req[w].key, NEW p, p = Fetch(k), p \in Live,
         NEW new, SameEnds(heap[p], new), Rewritten(p, new),
         NEW err \in {"OK", "OK_WAIT"}, Return(w, err), ~ Store!Writes(req[w].op),
         Rewrites(req[w], k, FileOf(new), err)
  PROVE  Performs(w)
  BY RewritePerforms

LEMMA RewriteGoesOn ==
  ASSUME StoreInv, StoreInv', NEW w \in Worker, pc[w] \in Waiting, pc[w] # "create_link", Running,
         NEW k, k = req[w].key, NEW p, p = Fetch(k), p \in Live,
         NEW new, SameEnds(heap[p], new), Rewritten(p, new),
         NEW l \in Settled \cup {"write_stats"}, Goto(w, l), UNCHANGED ref,
         Store!Writes(req[w].op) <=> l = "write_stats",
         Rewrites(req[w], k, FileOf(new), "OK")
  PROVE  Performs(w)
<1>1. CASE l = "write_stats"
  <2>1. Goto(w, "write_stats") /\ Store!Writes(req[w].op)
    BY <1>1
  <2> QED
    BY <2>1, RewritePerforms
<1>2. CASE l \in Settled
  <2>1. l # "write_stats"
    BY <1>2 DEF Settled
  <2>2. (\E m \in Settled : Goto(w, m) /\ UNCHANGED ref) /\ ~ Store!Writes(req[w].op)
    BY <1>2, <2>1
  <2> QED
    BY <2>2, RewritePerforms
<1> QED
  BY <1>1, <1>2

-----------------------------------------------------------------------------
(* The requests, one by one. *)

\* The request that a worker brings to its critical section.
LEMMA Critical ==
  ASSUME StoreInv, NEW w \in Worker, Running,
         pc[w] \in {"lock", "unlock", "open", "close", "write", "remove", "read"}
  PROVE  /\ TypeOK /\ ListInv /\ req[w] \in Request /\ req[w].key \in Key /\ req[w].fd \in Fd
         /\ req[w].arg \in Nat
         /\ req[w].op \in KeyedOps /\ pc[w] \in Waiting /\ pc[w] # "create_link"
         /\ Store!Writes(req[w].op) <=> pc[w] = "write"
         /\ NotFound(w) => Performs(w)
         /\ LET p == Fetch(req[w].key) IN
            /\ p # WILD
            /\ p \in Live => /\ heap[p] \in Item /\ FilesBar[req[w].key] = FileOf(heap[p])
                             /\ FilesBar[req[w].key] # NULL
<1>1. /\ TypeOK /\ ListInv /\ req[w] \in Request /\ req[w].key \in Key /\ req[w].fd \in Fd
      /\ req[w].arg \in Nat /\ pc[w] \in Waiting /\ pc[w] # "create_link"
  BY OpOfLabel DEF StoreInv, DispatchInv, Request, Waiting, Labels, Settled, Evicting
<1>2. req[w].op \in KeyedOps /\ (Store!Writes(req[w].op) <=> pc[w] = "write")
  <2> DEFINE op == req[w].op
             l == pc[w]
  <2>1. l \in {"lock", "unlock", "open", "close", "write", "remove", "read"}
    OBVIOUS
  <2>2. /\ l = "lock" => op = "LOCK_FILE"
        /\ l = "unlock" => op = "UNLOCK_FILE"
        /\ l = "open" => op \in {"OPEN_FILE", "OPEN_FILE_LOCK"}
        /\ l = "close" => op = "CLOSE_FILE"
        /\ l = "read" => op = "READ_FILE"
        /\ l = "remove" => op = "REMOVE_FILE"
        /\ l = "write" => op \in {"WRITE_FILE", "APPEND_TO_FILE"}
    BY OpOfLabel DEF StoreInv
  <2> HIDE DEF op, l
  <2>3. op \in KeyedOps /\ (Store!Writes(op) <=> l = "write")
    BY <2>1, <2>2 DEF KeyedOps, ApiOp, Store!Writes
  <2> QED
    BY <2>3 DEF op, l
<1>3. LET p == Fetch(req[w].key) IN
      /\ p # WILD
      /\ p \in Live => /\ heap[p] \in Item /\ FilesBar[req[w].key] = FileOf(heap[p])
                       /\ FilesBar[req[w].key] # NULL
  BY <1>1, Lookup
<1>4. ASSUME NotFound(w) PROVE Performs(w)
  <2>1. fault' = "none"
    BY <1>3, <1>4 DEF NotFound, Return, Running
  <2> QED
    BY <1>1, <1>2, <1>4, <2>1, NotFoundPerforms
<1> QED
  BY <1>1, <1>2, <1>3, <1>4

\* htable_lock_file.
LEMMA LockSimulates ==
  ASSUME StoreInv, StoreInv', NEW w \in Worker, LockFile(w)
  PROVE  Performs(w) \/ Fails(w)
<1>0. pc[w] = "lock" /\ Running
  BY DEF LockFile, At, Running
<1>1. PICK k, p, fd : k = req[w].key /\ p = Fetch(k) /\ fd = req[w].fd
  OBVIOUS
<1>2. /\ pc[w] \in Waiting /\ req[w] \in Request /\ ~ Store!Writes(req[w].op)
      /\ pc[w] # "idle" /\ pc[w] # "create_link" /\ TypeOK
      /\ NotFound(w) => Performs(w)
      /\ p \in Live => FilesBar[k] # NULL /\ FilesBar[k] = FileOf(heap[p])
  BY <1>0, <1>1, Critical
<1>3. req[w].op = "LOCK_FILE"
  BY <1>0, OpOfLabel DEF StoreInv
<1>4. CASE NotFound(w)
  BY <1>2, <1>4
<1>5. ASSUME p \in Live
      PROVE  /\ Store!Do(FilesBar, req[w]) = Store!Lock(FilesBar, k, fd)
             /\ FilesBar[k].is_locked = heap[p].is_locked /\ FilesBar[k].subs = heap[p].subs
  <2>1. Store!Do(FilesBar, req[w]) = Store!Lock(FilesBar, k, fd)
    BY <1>1, <1>2, <1>3, <1>5, DoPresent
  <2> QED
    BY <1>2, <1>5, <2>1 DEF FileOf
<1>6. CASE p \in Live /\ heap[p].is_locked /\ heap' = [heap EXCEPT ![p].subs = <<fd>> \o @]
           /\ Return(w, "OK_WAIT")
  <2> DEFINE new == Subscribed(heap[p], fd)
             f == Subscribed(FilesBar[k], fd)
  <2>1. SameEnds(heap[p], new) /\ FileOf(new) = f
    BY <1>0, <1>1, <1>2, <1>6, RequestRewrites
  <2>2. Rewritten(p, new)
    BY <1>2, <1>6, LiveItem DEF TypeOK, TableTypeOK, Item, Rewritten, Subscribed
  <2>3. Rewrites(req[w], k, f, "OK_WAIT")
    BY <1>5, <1>6 DEF Rewrites, Store!Lock, Store!Outcome, Subscribed
  <2> HIDE DEF new, f
  <2> QED
    BY <1>0, <1>1, <1>2, <1>6, <2>1, <2>2, <2>3, RewriteReturns
<1>7. CASE p \in Live /\ ~heap[p].is_locked /\ heap[p].subs # <<>> /\ Crash("assert_no_subscribers")
  <2>1. Store!Do(FilesBar, req[w]) = [files |-> FilesBar, err |-> "exit"]
    BY <1>5, <1>7 DEF Store!Lock, Store!Refused
  <2> QED
    BY <1>0, <1>2, <1>7, <2>1 DEF Fails, Crash, Running
<1>8. CASE p \in Live /\ ~heap[p].is_locked /\ heap[p].subs = <<>>
           /\ heap' = [heap EXCEPT ![p].is_locked = TRUE, ![p].fd_owner = fd] /\ Return(w, "OK")
  <2> DEFINE new == LockedBy(heap[p], fd)
             f == LockedBy(FilesBar[k], fd)
  <2>1. SameEnds(heap[p], new) /\ FileOf(new) = f
    BY <1>0, <1>1, <1>2, <1>8, RequestRewrites
  <2>2. Rewritten(p, new)
    BY <1>2, <1>8, LiveItem DEF TypeOK, TableTypeOK, Item, Rewritten, LockedBy
  <2>3. Rewrites(req[w], k, f, "OK")
    BY <1>5, <1>8 DEF Rewrites, Store!Lock, Store!Outcome, LockedBy
  <2> HIDE DEF new, f
  <2> QED
    BY <1>0, <1>1, <1>2, <1>8, <2>1, <2>2, <2>3, RewriteReturns
<1> QED
  BY <1>1, <1>4, <1>6, <1>7, <1>8 DEF LockFile

\* htable_unlock_file.
LEMMA UnlockSimulates ==
  ASSUME StoreInv, StoreInv', NEW w \in Worker, UnlockFile(w)
  PROVE  Performs(w)
<1>0. pc[w] = "unlock" /\ Running
  BY DEF UnlockFile, At, Running
<1>1. PICK k, p, fd : k = req[w].key /\ p = Fetch(k) /\ fd = req[w].fd
  OBVIOUS
<1>2. /\ pc[w] \in Waiting /\ req[w] \in Request /\ ~ Store!Writes(req[w].op)
      /\ pc[w] # "idle" /\ pc[w] # "create_link" /\ TypeOK
      /\ NotFound(w) => Performs(w)
      /\ p \in Live => /\ FilesBar[k] # NULL /\ FilesBar[k] = FileOf(heap[p])
                       /\ heap[p].is_locked \in BOOLEAN
  BY <1>0, <1>1, Critical DEF Item
<1>3. req[w].op = "UNLOCK_FILE"
  BY <1>0, OpOfLabel DEF StoreInv
<1>4. CASE NotFound(w)
  BY <1>2, <1>4
<1>5. ASSUME p \in Live
      PROVE  /\ Store!Do(FilesBar, req[w]) = Store!Unlock(FilesBar, k, fd)
             /\ FilesBar[k].is_locked = heap[p].is_locked /\ FilesBar[k].subs = heap[p].subs
             /\ FilesBar[k].fd_owner = heap[p].fd_owner
  <2>1. Store!Do(FilesBar, req[w]) = Store!Unlock(FilesBar, k, fd)
    BY <1>1, <1>2, <1>3, <1>5, DoPresent
  <2> QED
    BY <1>2, <1>5, <2>1 DEF FileOf
<1>6. CASE /\ p \in Live /\ (~heap[p].is_locked \/ ~Owns(p, fd))
           /\ Return(w, IF heap[p].is_locked THEN "OK_WAIT" ELSE "ALREADY_UNLOCKED")
           /\ UNCHANGED table
  <2> DEFINE err == IF heap[p].is_locked THEN "OK_WAIT" ELSE "ALREADY_UNLOCKED"
  <2>1. err # "exit" /\ err # "OK"
    OBVIOUS
  <2>2. Store!Do(FilesBar, req[w]) = [files |-> FilesBar, err |-> err]
    BY <1>5, <1>6 DEF Store!Unlock, Store!Refused, Store!HeldByAnother, Owns
  <2>3. Return(w, err)
    BY <1>6
  <2> HIDE DEF err
  <2> QED
    BY <1>0, <1>2, <1>6, <2>1, <2>2, <2>3, RefusedPerforms
<1>7. CASE p \in Live /\ heap[p].is_locked /\ Owns(p, fd) /\ heap' = AfterUnlock(p)
           /\ Return(w, "OK")
  <2>1. CASE heap[p].subs = <<>>
    <3> DEFINE new == LockFreed(heap[p])
               f == LockFreed(FilesBar[k])
    <3>1. SameEnds(heap[p], new) /\ FileOf(new) = f
      BY <1>0, <1>1, <1>2, <1>7, RequestRewrites
    <3>2. Rewritten(p, new)
      BY <1>2, <1>7, <2>1, LiveItem DEF TypeOK, TableTypeOK, Item, Rewritten, LockFreed, AfterUnlock
    <3>3. Rewrites(req[w], k, f, "OK")
      BY <1>5, <1>7, <2>1
      DEF Rewrites, Owns, Store!Unlock, Store!HeldByAnother, Store!Outcome, LockFreed
    <3> HIDE DEF new, f
    <3> QED
      BY <1>0, <1>1, <1>2, <1>7, <3>1, <3>2, <3>3, RewriteReturns
  <2>2. CASE heap[p].subs # <<>>
    <3> DEFINE new == PassedOn(heap[p])
               f == PassedOn(FilesBar[k])
    <3>1. SameEnds(heap[p], new) /\ FileOf(new) = f
      BY <1>0, <1>1, <1>2, <1>7, <2>2, RequestRewrites
    <3>2. Rewritten(p, new)
      BY <1>2, <1>7, <2>2, LiveItem DEF TypeOK, TableTypeOK, Item, Rewritten, PassedOn, AfterUnlock
    <3>3. Rewrites(req[w], k, f, "OK")
      BY <1>5, <1>7, <2>2
      DEF Rewrites, Owns, Store!Unlock, Store!HeldByAnother, Store!Outcome, Store!Heir, PassedOn
    <3> HIDE DEF new, f
    <3> QED
      BY <1>0, <1>1, <1>2, <1>7, <3>1, <3>2, <3>3, RewriteReturns
  <2> QED
    BY <2>1, <2>2
<1> QED
  BY <1>1, <1>4, <1>6, <1>7 DEF UnlockFile, table

\* htable_open_file.
LEMMA OpenSimulates ==
  ASSUME StoreInv, StoreInv', NEW w \in Worker, OpenFile(w)
  PROVE  Performs(w)
<1>0. pc[w] = "open" /\ Running
  BY DEF OpenFile, At, Running
<1>1. PICK k, p, fd, b :
        k = req[w].key /\ p = Fetch(k) /\ fd = req[w].fd /\ b = WithLock(req[w].op)
  OBVIOUS
<1>2. /\ pc[w] \in Waiting /\ req[w] \in Request /\ ~ Store!Writes(req[w].op)
      /\ pc[w] # "idle" /\ pc[w] # "create_link" /\ TypeOK
      /\ NotFound(w) => Performs(w)
      /\ p \in Live => /\ FilesBar[k] # NULL /\ FilesBar[k] = FileOf(heap[p])
                       /\ heap[p].is_open \in BOOLEAN
  BY <1>0, <1>1, Critical DEF Item
<1>3. req[w].op \in {"OPEN_FILE", "OPEN_FILE_LOCK"} /\ b \in BOOLEAN
  <2>1. req[w].op \in {"OPEN_FILE", "OPEN_FILE_LOCK"}
    BY <1>0, OpOfLabel DEF StoreInv
  <2> QED
    BY <1>1, <2>1 DEF WithLock
<1>4. CASE NotFound(w)
  BY <1>2, <1>4
<1>5. ASSUME p \in Live
      PROVE  /\ Store!Do(FilesBar, req[w]) = Store!Open(FilesBar, k, fd, b)
             /\ FilesBar[k].is_open = heap[p].is_open
             /\ Store!HeldByAnother(FilesBar[k], fd) <=> HeldByOther(p, fd)
  <2>1. Store!Do(FilesBar, req[w]) = Store!Open(FilesBar, k, fd, b)
    BY <1>1, <1>2, <1>3, <1>5, DoPresent
  <2> QED
    BY <1>2, <1>5, <2>1 DEF FileOf, Store!HeldByAnother, HeldByOther
<1>6. CASE /\ p \in Live /\ (heap[p].is_open \/ HeldByOther(p, fd))
           /\ Return(w, IF heap[p].is_open THEN "ALREADY_OPEN" ELSE "CANT_OPEN")
           /\ UNCHANGED table
  <2> DEFINE err == IF heap[p].is_open THEN "ALREADY_OPEN" ELSE "CANT_OPEN"
  <2>1. err # "exit" /\ err # "OK"
    OBVIOUS
  <2>2. Store!Do(FilesBar, req[w]) = [files |-> FilesBar, err |-> err]
    BY <1>5, <1>6 DEF Store!Open, Store!Refused
  <2>3. Return(w, err)
    BY <1>6
  <2> HIDE DEF err
  <2> QED
    BY <1>0, <1>2, <1>6, <2>1, <2>2, <2>3, RefusedPerforms
<1>7. CASE /\ p \in Live /\ ~heap[p].is_open /\ ~HeldByOther(p, fd)
           /\ heap' = [heap EXCEPT ![p].is_open = TRUE, ![p].fd_owner = fd, ![p].is_locked = b]
           /\ Goto(w, "open_stats") /\ UNCHANGED ref
  <2> DEFINE new == OpenedBy(heap[p], fd, b)
             f == OpenedBy(FilesBar[k], fd, b)
  <2>1. SameEnds(heap[p], new) /\ FileOf(new) = f
    BY <1>0, <1>1, <1>2, <1>3, <1>7, RequestRewrites
  <2>2. Rewritten(p, new)
    BY <1>2, <1>7, LiveItem DEF TypeOK, TableTypeOK, Item, Rewritten, OpenedBy
  <2>3. Rewrites(req[w], k, f, "OK")
    BY <1>5, <1>7 DEF Rewrites, Store!Open, Store!Outcome, OpenedBy
  <2>4. "open_stats" \in Settled /\ "open_stats" # "write_stats"
    BY DEF Settled
  <2> HIDE DEF new, f
  <2> QED
    BY <1>0, <1>1, <1>2, <1>7, <2>1, <2>2, <2>3, <2>4, RewriteGoesOn
<1> QED
  BY <1>1, <1>4, <1>6, <1>7 DEF OpenFile, table, locals

\* htable_close_file.
LEMMA CloseSimulates ==
  ASSUME StoreInv, StoreInv', NEW w \in Worker, CloseFile(w)
  PROVE  Performs(w)
<1>0. pc[w] = "close" /\ Running
  BY DEF CloseFile, At, Running
<1>1. PICK k, p, fd : k = req[w].key /\ p = Fetch(k) /\ fd = req[w].fd
  OBVIOUS
<1>2. /\ pc[w] \in Waiting /\ req[w] \in Request /\ ~ Store!Writes(req[w].op)
      /\ pc[w] # "idle" /\ pc[w] # "create_link" /\ TypeOK
      /\ NotFound(w) => Performs(w)
      /\ p \in Live => /\ FilesBar[k] # NULL /\ FilesBar[k] = FileOf(heap[p])
                       /\ heap[p].is_open \in BOOLEAN
  BY <1>0, <1>1, Critical DEF Item
<1>3. req[w].op = "CLOSE_FILE"
  BY <1>0, OpOfLabel DEF StoreInv
<1>4. CASE NotFound(w)
  BY <1>2, <1>4
<1>5. ASSUME p \in Live
      PROVE  /\ Store!Do(FilesBar, req[w]) = Store!Close(FilesBar, k, fd)
             /\ FilesBar[k].is_open = heap[p].is_open
             /\ Store!HeldByAnother(FilesBar[k], fd) <=> HeldByOther(p, fd)
  <2>1. Store!Do(FilesBar, req[w]) = Store!Close(FilesBar, k, fd)
    BY <1>1, <1>2, <1>3, <1>5, DoPresent
  <2> QED
    BY <1>2, <1>5, <2>1 DEF FileOf, Store!HeldByAnother, HeldByOther
<1>6. CASE /\ p \in Live /\ (~heap[p].is_open \/ HeldByOther(p, fd))
           /\ Return(w, IF heap[p].is_open THEN "CANT_CLOSE" ELSE "ALREADY_CLOSED")
           /\ UNCHANGED table
  <2> DEFINE err == IF heap[p].is_open THEN "CANT_CLOSE" ELSE "ALREADY_CLOSED"
  <2>1. err # "exit" /\ err # "OK"
    OBVIOUS
  <2>2. Store!Do(FilesBar, req[w]) = [files |-> FilesBar, err |-> err]
    BY <1>5, <1>6 DEF Store!Close, Store!Refused
  <2>3. Return(w, err)
    BY <1>6
  <2> HIDE DEF err
  <2> QED
    BY <1>0, <1>2, <1>6, <2>1, <2>2, <2>3, RefusedPerforms
<1>7. CASE /\ p \in Live /\ heap[p].is_open /\ ~HeldByOther(p, fd)
           /\ heap' = [heap EXCEPT ![p].is_open = FALSE]
           /\ Goto(w, "close_stats") /\ UNCHANGED ref
  <2> DEFINE new == Closed(heap[p])
             f == Closed(FilesBar[k])
  <2>1. SameEnds(heap[p], new) /\ FileOf(new) = f
    BY <1>0, <1>1, <1>2, <1>7, RequestRewrites
  <2>2. Rewritten(p, new)
    BY <1>2, <1>7, LiveItem DEF TypeOK, TableTypeOK, Item, Rewritten, Closed
  <2>3. Rewrites(req[w], k, f, "OK")
    BY <1>5, <1>7 DEF Rewrites, Store!Close, Store!Outcome, Closed
  <2>4. "close_stats" \in Settled /\ "close_stats" # "write_stats"
    BY DEF Settled
  <2> HIDE DEF new, f
  <2> QED
    BY <1>0, <1>1, <1>2, <1>7, <2>1, <2>2, <2>3, <2>4, RewriteGoesOn
<1> QED
  BY <1>1, <1>4, <1>6, <1>7 DEF CloseFile, table, locals

\* The critical section of htable_replace_file_contents and htable_append_to_file_contents.
LEMMA WriteSimulates ==
  ASSUME StoreInv, StoreInv', NEW w \in Worker, WriteContents(w)
  PROVE  Performs(w) \/ Fails(w)
<1>0. pc[w] = "write" /\ Running
  BY DEF WriteContents, At, Running
<1>1. PICK k, p, n : k = req[w].key /\ p = Fetch(k) /\ n = NewLength(w, p)
  OBVIOUS
<1>2. /\ pc[w] \in Waiting /\ req[w] \in Request /\ Store!Writes(req[w].op)
      /\ req[w].arg \in Nat
      /\ pc[w] # "idle" /\ pc[w] # "create_link" /\ TypeOK
      /\ NotFound(w) => Performs(w)
      /\ p \in Live => /\ FilesBar[k] # NULL /\ FilesBar[k] = FileOf(heap[p]) /\ heap[p] \in Item
  BY <1>0, <1>1, Critical
<1>3. req[w].op \in {"WRITE_FILE", "APPEND_TO_FILE"}
  BY <1>0, OpOfLabel DEF StoreInv
<1>4. CASE NotFound(w)
  BY <1>2, <1>4
<1>5. ASSUME p \in Live
      PROVE  /\ Store!Do(FilesBar, req[w]) = Store!Write(FilesBar, k, n)
             /\ FilesBar[k].contents = heap[p].contents /\ n \in Nat
  <2>1. /\ FilesBar[k].contents = heap[p].contents
        /\ FilesBar[k].length_in_bytes = heap[p].length_in_bytes
    BY <1>2, <1>5 DEF FileOf
  <2>2. heap[p].length_in_bytes \in Nat
    BY <1>2, <1>5 DEF Item
  <2>3. CASE req[w].op = "WRITE_FILE"
    <3>1. n = req[w].arg
      BY <1>1, <1>2, <2>3 DEF NewLength
    <3> QED
      BY <1>1, <1>2, <1>5, <2>1, <2>3, <3>1, DoPresent
  <2>4. CASE req[w].op = "APPEND_TO_FILE"
    <3>1. n = FilesBar[k].length_in_bytes + req[w].arg
      BY <1>1, <1>2, <2>1, <2>2, <2>4 DEF NewLength
    <3>2. Store!Do(FilesBar, req[w]) = Store!Write(FilesBar, k, FilesBar[k].length_in_bytes + req[w].arg)
      BY <1>1, <1>2, <1>5, <2>4, DoPresent
    <3> QED
      BY <1>2, <2>1, <2>2, <3>1, <3>2
  <2> QED
    BY <1>3, <2>3, <2>4
<1>6. CASE p \in Live /\ n = 0 /\ heap[p].contents /\ Crash("realloc_exit")
  <2>1. Store!Do(FilesBar, req[w]) = [files |-> FilesBar, err |-> "exit"]
    BY <1>5, <1>6 DEF Store!Write, Store!Refused
  <2> QED
    BY <1>0, <1>2, <1>6, <2>1 DEF Fails, Crash, Running
<1>7. CASE /\ p \in Live /\ ~(n = 0 /\ heap[p].contents)
           /\ heap' = [heap EXCEPT ![p].length_in_bytes = n, ![p].contents = TRUE]
           /\ Goto(w, "write_stats") /\ UNCHANGED ref
  <2> DEFINE new == Filled(heap[p], n)
             f == Filled(FilesBar[k], n)
  <2>1. SameEnds(heap[p], new) /\ FileOf(new) = f
    <3>1. PICK fd : fd = req[w].fd
      OBVIOUS
    <3> QED
      BY <1>0, <1>1, <1>2, <1>5, <1>7, <3>1, RequestRewrites
  <2>2. Rewritten(p, new)
    BY <1>2, <1>7, LiveItem DEF TypeOK, TableTypeOK, Item, Rewritten, Filled
  <2>3. Rewrites(req[w], k, f, "OK")
    BY <1>5, <1>7 DEF Rewrites, Store!Write, Store!Outcome, Filled
  <2> HIDE DEF new, f
  <2> QED
    BY <1>0, <1>1, <1>2, <1>7, <2>1, <2>2, <2>3, RewriteGoesOn
<1> QED
  BY <1>1, <1>4, <1>6, <1>7 DEF WriteContents, table, locals

\* worker_handle_read_file finds its file.
LEMMA ReadSimulates ==
  ASSUME StoreInv, StoreInv', NEW w \in Worker, ReadFetch(w)
  PROVE  Performs(w)
<1>0. pc[w] = "read" /\ Running
  BY DEF ReadFetch, At, Running
<1>1. PICK k, p : k = req[w].key /\ p = Fetch(k)
  OBVIOUS
<1>2. /\ pc[w] \in Waiting /\ req[w] \in Request /\ ~ Store!Writes(req[w].op) /\ WorkerTypeOK
      /\ NotFound(w) => Performs(w)
      /\ p \in Live => FilesBar[k] # NULL
  BY <1>0, <1>1, Critical DEF TypeOK
<1>3. req[w].op = "READ_FILE"
  BY <1>0, OpOfLabel DEF StoreInv
<1>4. CASE p \in Live /\ Goto(w, "read_send") /\ UNCHANGED table
  <2>1. Store!Do(FilesBar, req[w]) = [files |-> FilesBar, err |-> "OK"]
    BY <1>1, <1>2, <1>3, <1>4, DoPresent
  <2>2. FilesBar' = FilesBar
    BY <1>4, FilesOfTable
  <2>3. Moved(w, "read_send", req[w], ret[w]) /\ fault' = fault
    BY <1>2, <1>4, GotoMoves
  <2>4. "read_send" \in Settled
    BY DEF Settled
  <2> QED
    BY <1>0, <1>2, <2>1, <2>2, <2>3, <2>4 DEF Performs, Running
<1> QED
  BY <1>1, <1>2, <1>4 DEF ReadFetch

\* An item that leaves its list takes its file with it.
LEMMA FileTakenOut ==
  ASSUME OneWriter, StoreInv, StoreInv', Running, Running', NEW w \in Worker, NEW p, TakesOut(w, p)
  PROVE  /\ p \in Live /\ heap[p].key \in Key /\ FilesBar[heap[p].key] # NULL
         /\ FilesBar' = [FilesBar EXCEPT ![heap[p].key] = NULL]
<1>1. Live' = Live \ {p} /\ Linked = Live /\ Linked' = Live'
  BY TakingOutKeepsLists DEF StoreInv
<1>2. TableTypeOK /\ TableTypeOK' /\ ListInv /\ ListInv'
  BY DEF StoreInv, DispatchInv, TypeOK
<1>3. p \in Live /\ \A a \in Addr \ {p} : Relinked(a)
  BY DEF TakesOut, Removed, Freed
<1>4. heap[p].key \in Key /\ heap[p] \in Item
  BY <1>2, <1>3, LinkedItem
<1>5. \A a \in Linked \ {p} : a \in Linked' /\ SameFile(heap[a], heap'[a])
  BY <1>1, <1>3 DEF Relinked, Live
<1> DEFINE k == heap[p].key
<1>6. k \in Key /\ heap[p].key = k /\ p \in Linked /\ p \notin Linked' /\ Linked' \subseteq Linked \cup {p}
  BY <1>1, <1>3, <1>4
<1>7. FilesBar[k] # NULL
  BY <1>1, <1>2, <1>3, <1>4, FilesOfItems, FileIsNoNull DEF FilesShown
<1> HIDE DEF k
<1>8. FilesBar' = [FilesBar EXCEPT ![k] = IF p \in Linked' THEN FileOf(heap'[p]) ELSE NULL]
  BY <1>2, <1>5, <1>6, FileChanges
<1> QED
  BY <1>3, <1>4, <1>6, <1>7, <1>8 DEF k

\* htable_remove_file.
LEMMA RemoveSimulates ==
  ASSUME OneWriter, StoreInv, StoreInv', NEW w \in Worker, RemoveFile(w)
  PROVE  Performs(w)
<1>0. pc[w] = "remove" /\ Running /\ TypeOK /\ HasRequest /\ ListInv /\ TableTypeOK
  BY DEF RemoveFile, At, Running, StoreInv, DispatchInv, TypeOK
<1>1. PICK k, p, fd : k = req[w].key /\ p = Fetch(k) /\ fd = req[w].fd
  OBVIOUS
<1>2. /\ pc[w] \in Waiting /\ req[w] \in Request /\ ~ Store!Writes(req[w].op) /\ WorkerTypeOK
      /\ k \in Key
      /\ NotFound(w) => Performs(w)
      /\ p \in Live => FilesBar[k] # NULL /\ FilesBar[k] = FileOf(heap[p])
  BY <1>0, <1>1, Critical DEF TypeOK
<1>3. req[w].op = "REMOVE_FILE"
  BY <1>0, OpOfLabel DEF StoreInv
<1>4. ASSUME p \in Live
      PROVE  /\ Store!Do(FilesBar, req[w]) = Store!Remove(FilesBar, k, fd)
             /\ Store!HeldByAnother(FilesBar[k], fd) <=> HeldByOther(p, fd)
             /\ SafeToUnlink(p)
  <2>1. Store!Do(FilesBar, req[w]) = Store!Remove(FilesBar, k, fd)
    BY <1>1, <1>2, <1>3, <1>4, DoPresent
  <2>2. Store!HeldByAnother(FilesBar[k], fd) <=> HeldByOther(p, fd)
    BY <1>2, <1>4 DEF FileOf, Store!HeldByAnother, HeldByOther
  <2>3. p \in Linked
    BY <1>0, <1>1, <1>2, <1>4, Lookup
  <2>4. SafeToUnlink(p)
    BY <1>0, <2>3, LinkedItem DEF SafeToUnlink
  <2> QED
    BY <2>1, <2>2, <2>4
<1>5. CASE p \in Live /\ HeldByOther(p, fd) /\ Return(w, "OK") /\ UNCHANGED table
  <2>1. Store!Do(FilesBar, req[w]) = [files |-> FilesBar, err |-> "OK"]
    BY <1>4, <1>5 DEF Store!Remove, Store!Refused
  <2> QED
    BY <1>0, <1>2, <1>5, <2>1, RefusedPerforms
<1>6. CASE p \in Live /\ ~HeldByOther(p, fd) /\ Unlink(p, BucketOf(w)) /\ Goto(w, "remove_stats")
  <2> DEFINE g == [FilesBar EXCEPT ![k] = NULL]
  <2>1. heap' # heap
    <3>1. heap'[p] = NULL /\ heap[p] # NULL
      BY <1>0, <1>6, LiveItem, NullIsNoItem DEF Unlink, TableTypeOK, Live
    <3> QED
      BY <3>1
  <2>2. TakesOut(w, p)
    BY <1>0, <1>1, <2>1, RemoveTakesOut
  <2>3. Moved(w, "remove_stats", req[w], ret[w]) /\ fault' = fault
    BY <1>2, <1>6, GotoMoves
  <2>4. heap[p].key = k
    BY <1>0, <1>1, <1>2, <1>6, FetchKey
  <2>5. FilesBar' = g
    BY <1>0, <2>2, <2>3, <2>4, FileTakenOut DEF Running
  <2>6. Store!Do(FilesBar, req[w]) = [files |-> g, err |-> "OK"]
    BY <1>4, <1>6 DEF Store!Remove, Store!Outcome
  <2>7. "remove_stats" \in Settled
    BY DEF Settled
  <2> HIDE DEF g
  <2> QED
    BY <1>0, <1>2, <2>3, <2>5, <2>6, <2>7, ActsPerforms
<1> QED
  BY <1>1, <1>2, <1>4, <1>5, <1>6 DEF RemoveFile

-----------------------------------------------------------------------------
(* Creating a file. *)

NewFile(fd, lock) ==
  [length_in_bytes |-> 0, contents |-> FALSE, fd_owner |-> fd, is_open |-> TRUE,
   is_locked |-> lock, subs |-> <<>>]

\* Until it is linked, nobody else touches the item that htable_create_file filled in.
NewItemFresh ==
  Running => \A w \in Worker :
    pc[w] = "create_link" => FileOf(heap[ref[w]]) = NewFile(req[w].fd, WithLock(req[w].op))

\* It is as htable_create_file fills it in, ...
LEMMA CreateItemFresh ==
  ASSUME TypeOK, NEW w \in Worker, CreateItem(w)
  PROVE  FileOf(heap'[ref'[w]]) = NewFile(req'[w].fd, WithLock(req'[w].op))
<1>1. PICK a \in Addr \ Live :
        /\ heap' = [heap EXCEPT ![a] =
             [key |-> req[w].key, next |-> head[BucketOf(w)], prev |-> NULL,
              length_in_bytes |-> 0, contents |-> FALSE, fd_owner |-> req[w].fd,
              is_open |-> TRUE, is_locked |-> WithLock(req[w].op), subs |-> <<>>]]
        /\ ref' = [ref EXCEPT ![w] = a]
  BY DEF CreateItem
<1>2. ref'[w] = a /\ req' = req
  BY <1>1 DEF TypeOK, WorkerTypeOK, CreateItem, Goto
<1>3. heap'[a] = [key |-> req[w].key, next |-> head[BucketOf(w)], prev |-> NULL,
                  length_in_bytes |-> 0, contents |-> FALSE, fd_owner |-> req[w].fd,
                  is_open |-> TRUE, is_locked |-> WithLock(req[w].op), subs |-> <<>>]
  BY <1>1 DEF TypeOK, TableTypeOK
<1> DEFINE r == heap'[a]
<1>4. /\ r.length_in_bytes = 0 /\ r.contents = FALSE /\ r.fd_owner = req[w].fd
      /\ r.is_open = TRUE /\ r.is_locked = WithLock(req[w].op) /\ r.subs = <<>>
  BY <1>3
<1> HIDE DEF r
<1>5. FileOf(r) = NewFile(req[w].fd, WithLock(req[w].op))
  BY <1>4 DEF FileOf, NewFile
<1> QED
  BY <1>2, <1>5 DEF r

\* ... the other workers find the items of the lists, and it is in none, ...
LEMMA OthersLeaveNewItem ==
  ASSUME OneWriter, DispatchInv, ListInv, Running, NEW w \in Worker, pc[w] = "create_link",
         NEW u \in Worker \ {w}, Step(u), fault' = "none", ~ UNCHANGED vars
  PROVE  /\ FileOf(heap'[ref[w]]) = FileOf(heap[ref[w]])
         /\ ref'[w] = ref[w] /\ req'[w] = req[w] /\ pc'[w] = pc[w]
<1>0. TypeOK /\ HasRequest /\ TableTypeOK
  BY DEF DispatchInv, TypeOK
<1>1. pc[u] \notin WriterLabels
  BY OnlyWriter DEF WriterLabels
<1>2. Quiet(u)
  <2>1. ~ CreateItem(u) /\ ~ CreateLink(u) /\ \A p : ~ TakesOut(u, p)
    BY <1>1 DEF CreateItem, CreateLink, At, TakesOut, WriterLabels
  <2> QED
    BY <1>0, <2>1, ListSteps
<1>3. ref'[w] = ref[w] /\ req'[w] = req[w] /\ pc'[w] = pc[w]
  BY <1>0, <1>2 DEF Quiet, TypeOK, WorkerTypeOK
<1>4. ref[w] \in Live /\ ref[w] \in Addr /\ heap[ref[w]] # NULL /\ ref[w] \notin Linked
  BY DEF ListInv, NewItemFits, Live, Linked
<1> DEFINE a == ref[w]
<1>5. CASE \A c \in Addr : Relinked(c)
  BY <1>3, <1>4, <1>5 DEF Relinked, SameFile, FileOf
<1>6. CASE LockFile(u) \/ UnlockFile(u) \/ OpenFile(u) \/ CloseFile(u) \/ WriteContents(u)
  <2> DEFINE p == Fetch(req[u].key)
  <2>1. p \in Live => p \in Linked
    <3>1. pc[u] # "idle"
      BY <1>6 DEF LockFile, UnlockFile, OpenFile, CloseFile, WriteContents, At
    <3>2. req[u].key \in Key
      BY <3>1, OpOfLabel
    <3> QED
      BY <1>0, <3>2, FetchFinds DEF Live
  <2>2. heap' = heap \/ (p \in Live /\ \E new : Rewritten(p, new))
    BY <1>0, <1>6, RewriteSteps
  <2> HIDE DEF p
  <2>3. CASE p \in Live /\ \E new : Rewritten(p, new)
    <3>1. p # a
      BY <1>4, <2>1, <2>3
    <3> QED
      BY <1>0, <1>3, <1>4, <2>3, <3>1 DEF Rewritten, TableTypeOK
  <2> QED
    BY <1>3, <2>2, <2>3
<1>7. CASE CreateItem(u)
  BY <1>1, <1>7 DEF CreateItem, At, WriterLabels
<1>8. ASSUME NEW p \in Live, Freed(p) PROVE FALSE
  BY <1>2, <1>8 DEF Quiet, SameLinks, Freed, Live
<1> QED
  BY <1>0, <1>3, <1>5, <1>6, <1>7, <1>8, StepFiles

\* ... so it stays as it is.
LEMMA NextNewItemFresh ==
  ASSUME OneWriter, DispatchInv, ListInv, NewItemFresh, [Next]_vars PROVE NewItemFresh'
<1>0. TypeOK /\ HasRequest
  BY DEF DispatchInv
<1>1. CASE UNCHANGED vars
  BY <1>1 DEF vars, NewItemFresh, Running
<1>2. ASSUME NEW u \in Worker, Begin(u) PROVE NewItemFresh'
  <2>1. Quiet(u) /\ Running
    BY <1>0, <1>2, BeginIsQuiet, StepRuns
  <2>2. heap' = heap /\ ref' = ref /\ fault' = fault
    BY <1>2 DEF Begin, table, locals
  <2>3. /\ pc'[u] # "create_link"
        /\ \A w \in Worker \ {u} : pc'[w] = pc[w] /\ req'[w] = req[w]
    BY <1>0, <2>1 DEF Quiet, TypeOK, WorkerTypeOK
  <2> QED
    BY <2>1, <2>2, <2>3 DEF NewItemFresh, Running
<1>3. ASSUME NEW u \in Worker, Step(u), fault' = "none", ~ UNCHANGED vars PROVE NewItemFresh'
  <2>0. Running
    BY <1>3, StepRuns
  <2> SUFFICES ASSUME NEW w \in Worker, pc'[w] = "create_link"
               PROVE  FileOf(heap'[ref'[w]]) = NewFile(req'[w].fd, WithLock(req'[w].op))
    BY DEF NewItemFresh
  <2>1. CASE w = u
    <3>1. ~ Quiet(u) /\ ~ CreateLink(u) /\ \A p : ~ TakesOut(u, p)
      <4>1. \A l : pc' = [pc EXCEPT ![u] = l] => l = "create_link"
        BY <1>0, <2>1 DEF TypeOK, WorkerTypeOK
      <4>2. ~ Crash("use_after_free")
        BY <1>3 DEF Crash
      <4> QED
        BY <2>1, <4>1, <4>2 DEF Quiet, CreateLink, Goto, TakesOut
    <3> QED
      BY <1>0, <1>3, <2>0, <2>1, <3>1, ListSteps, CreateItemFresh
  <2>2. CASE w # u
    <3>1. pc[w] = "create_link"
      <4>1. Progress(u)
        BY <1>3, StepProgress
      <4> QED
        BY <1>0, <2>2, <4>1 DEF Progress, TypeOK, WorkerTypeOK
    <3>2. /\ FileOf(heap'[ref[w]]) = FileOf(heap[ref[w]])
          /\ ref'[w] = ref[w] /\ req'[w] = req[w]
      BY <1>3, <2>0, <2>2, <3>1, OthersLeaveNewItem
    <3> QED
      BY <2>0, <3>1, <3>2 DEF NewItemFresh
  <2> QED
    BY <2>1, <2>2
<1>4. CASE fault' # "none"
  BY <1>4 DEF NewItemFresh, Running
<1>5. CASE fault' = "none" /\ ~ UNCHANGED vars
  BY <1>2, <1>3, <1>5 DEF Next, Terminated
<1> QED
  BY <1>1, <1>4, <1>5

\* htable_create_file looks its path up.
LEMMA CreateFetchSimulates ==
  ASSUME StoreInv, StoreInv', NEW w \in Worker, CreateFetch(w)
  PROVE  Performs(w) \/ Hidden(w)
<1>0. pc[w] = "create" /\ Running /\ TypeOK /\ ListInv /\ WorkerTypeOK
  BY DEF CreateFetch, At, Running, StoreInv, DispatchInv, TypeOK
<1>1. PICK k, p : k = req[w].key /\ p = Fetch(k)
  OBVIOUS
<1>2. /\ req[w] \in Request /\ k \in Key
      /\ req[w].op \in {"OPEN_FILE_CREATE", "OPEN_FILE_CREATE_LOCK"}
  BY <1>0, <1>1, OpOfLabel DEF StoreInv
<1>3. pc[w] \in Waiting /\ "create_item" \in Waiting /\ ~ Store!Writes(req[w].op)
  BY <1>0, <1>2 DEF Waiting, Labels, Settled, Evicting, Store!Writes
<1>4. p # WILD /\ (p \in Live => FilesBar[k] # NULL)
  BY <1>0, <1>1, <1>2, Lookup
<1>5. CASE p \in Live /\ Return(w, "ALREADY_CREATED") /\ UNCHANGED table
  <2>1. Store!Do(FilesBar, req[w]) = Store!Create(FilesBar, k, req[w].fd, WithLock(req[w].op))
    BY <1>1, <1>2, DoCreate
  <2>2. Store!Do(FilesBar, req[w]) = [files |-> FilesBar, err |-> "ALREADY_CREATED"]
    BY <1>4, <1>5, <2>1 DEF Store!Create, Store!Refused
  <2> QED
    BY <1>0, <1>2, <1>3, <1>5, <2>2, RefusedPerforms
<1>6. CASE Goto(w, "create_item") /\ UNCHANGED table
  <2>1. FilesBar' = FilesBar
    BY <1>6, FilesOfTable
  <2>2. Moved(w, "create_item", req[w], ret[w]) /\ fault' = fault
    BY <1>0, <1>6, GotoMoves
  <2> QED
    BY <1>3, <2>1, <2>2 DEF Hidden
<1> QED
  BY <1>1, <1>4, <1>5, <1>6 DEF CreateFetch

\* It fills in the new item.
LEMMA CreateItemSimulates ==
  ASSUME OneWriter, StoreInv, StoreInv', NEW w \in Worker, CreateItem(w)
  PROVE  Hidden(w)
<1>0. pc[w] = "create_item" /\ Running /\ TableTypeOK /\ TableTypeOK' /\ ListInv /\ ListInv'
      /\ WorkerTypeOK
  BY DEF CreateItem, At, Running, StoreInv, DispatchInv, TypeOK
<1>1. Moved(w, "create_link", req[w], ret[w]) /\ fault' = fault
  BY <1>0, GotoMoves DEF CreateItem
<1>2. Linked' = Linked
  BY CreateItemKeepsLists DEF StoreInv
<1>3. \A a \in Linked : SameFile(heap[a], heap'[a])
  <2>1. PICK a \in Addr \ Live : \A c \in Addr \ {a} : heap'[c] = heap[c]
    BY <1>0 DEF CreateItem, TableTypeOK
  <2>2. \A c \in Linked : c \in Addr /\ c # a
    BY <2>1 DEF Linked, Live
  <2> QED
    BY <2>1, <2>2 DEF SameFile
<1>4. FilesBar' = FilesBar
  BY <1>0, <1>1, <1>2, <1>3, FilesStay DEF Running
<1>5. pc[w] \in Waiting /\ "create_link" \in Waiting
  BY <1>0 DEF Waiting, Labels, Settled, Evicting
<1> QED
  BY <1>1, <1>4, <1>5 DEF Hidden

\* It links the item, and the file is there.
LEMMA CreateLinkSimulates ==
  ASSUME OneWriter, StoreInv, StoreInv', NewItemFresh, NEW w \in Worker, CreateLink(w)
  PROVE  Performs(w)
<1>0. /\ pc[w] = "create_link" /\ Running /\ TypeOK /\ HasRequest /\ TableTypeOK /\ TableTypeOK'
      /\ ListInv /\ ListInv' /\ WorkerTypeOK /\ DispatchInv
  BY DEF CreateLink, At, Running, StoreInv, DispatchInv, TypeOK
<1>1. PICK k, a, b : k = req[w].key /\ a = ref[w] /\ b = WithLock(req[w].op)
  OBVIOUS
<1>2. /\ req[w] \in Request /\ k \in Key
      /\ req[w].op \in {"OPEN_FILE_CREATE", "OPEN_FILE_CREATE_LOCK"}
  BY <1>0, <1>1, OpOfLabel
<1>3. pc[w] \in Waiting /\ "create_stats" \in Settled /\ ~ Store!Writes(req[w].op)
  BY <1>0, <1>2 DEF Waiting, Labels, Settled, Evicting, Store!Writes
<1>4. Goto(w, "create_stats")
  <2>1. BucketOf(w) \in Bucket
    BY <1>1, <1>2 DEF BucketOf
  <2>2. head[BucketOf(w)] \in Live \cup {NULL}
    BY <1>0, <2>1, LinkedItem
  <2> QED
    BY <2>2 DEF CreateLink
<1>5. Moved(w, "create_stats", req[w], ret[w]) /\ fault' = fault
  BY <1>0, <1>4, GotoMoves
<1>6. /\ Live' = Live /\ Linked' = Live /\ Linked = Live \ {a}
      /\ \A c \in Live : SameFile(heap[c], heap'[c])
  BY <1>0, <1>1, <1>5, CreateLinkKeepsLists DEF Running
<1>7. a \in Live /\ heap[a].key = k /\ \A c \in Linked : heap[c].key # k
  BY <1>0, <1>1 DEF ListInv, NewItemFits
<1>8. FilesBar[k] = NULL
  BY <1>0, <1>2, <1>7, FilesOfItems DEF FilesShown
<1>9. FileOf(heap'[a]) = NewFile(req[w].fd, b)
  <2>1. FileOf(heap[a]) = NewFile(req[w].fd, b)
    BY <1>0, <1>1 DEF NewItemFresh
  <2>2. FileOf(heap'[a]) = FileOf(heap[a])
    BY <1>6, <1>7 DEF SameFile, FileOf
  <2> QED
    BY <2>1, <2>2
<1>10. FilesBar' = [FilesBar EXCEPT ![k] = IF a \in Linked' THEN FileOf(heap'[a]) ELSE NULL]
  <2>1. heap'[a].key = k
    BY <1>6, <1>7 DEF SameFile
  <2>2. \A c \in Linked \ {a} : c \in Linked' /\ SameFile(heap[c], heap'[c])
    BY <1>6
  <2>3. a \in Linked \cup Linked' /\ Linked' \subseteq Linked \cup {a}
    BY <1>6, <1>7
  <2>4. Running'
    BY <1>0, <1>5 DEF Running
  <2> QED
    BY <1>0, <1>2, <1>7, <2>1, <2>2, <2>3, <2>4, FileChanges
<1> DEFINE g == [FilesBar EXCEPT ![k] = NewFile(req[w].fd, b)]
<1>11. FilesBar' = g
  BY <1>6, <1>7, <1>9, <1>10
<1>12. Store!Do(FilesBar, req[w]) = [files |-> g, err |-> "OK"]
  <2>1. Store!Do(FilesBar, req[w]) = Store!Create(FilesBar, k, req[w].fd, b)
    BY <1>1, <1>2, DoCreate
  <2> QED
    BY <1>8, <2>1 DEF Store!Create, Store!Outcome, NewFile
<1> HIDE DEF g
<1> QED
  BY <1>0, <1>2, <1>3, <1>5, <1>11, <1>12, ActsPerforms

-----------------------------------------------------------------------------
(* What a worker does after its request took effect. *)

\* What StoreInv consists of.
LEMMA TypeOfStoreInv ==
  ASSUME StoreInv
  PROVE  TypeOK /\ HasRequest /\ DispatchInv /\ TableTypeOK /\ WorkerTypeOK /\ ListInv /\ CountersInv
  BY DEF StoreInv, DispatchInv, TypeOK

\* It reports to the counters, or releases the file that it sent.
LEMMA ReportStutters ==
  ASSUME StoreInv, NEW w \in Worker,
         OpenCloseStats(w) \/ CreateStats(w) \/ RemoveStats(w) \/ ReadRelease(w)
  PROVE  Hidden(w)
<1>1. pc[w] \in Settled /\ UNCHANGED table /\ Return(w, "OK")
  BY DEF OpenCloseStats, CreateStats, RemoveStats, ReadRelease, At, Settled
<1>2. FilesBar' = FilesBar
  BY <1>1, FilesOfTable
<1>3. Moved(w, "idle", NULL, "OK") /\ fault' = fault
  BY <1>1, ReturnMoves
<1> QED
  BY <1>1, <1>2, <1>3 DEF Hidden

\* A writer reports its bytes and waits for the mutex of the counters.
LEMMA ToEvictionStutters ==
  ASSUME StoreInv, NEW w \in Worker, WriteStats(w) \/ EvictLock(w)
  PROVE  Hidden(w)
<1>1. PICK l \in Evicting : pc[w] \in Evicting /\ UNCHANGED table /\ Goto(w, l)
  BY DEF WriteStats, EvictLock, At, Evicting
<1>2. FilesBar' = FilesBar
  BY <1>1, FilesOfTable
<1>3. Moved(w, l, req[w], ret[w]) /\ fault' = fault
  BY <1>1, GotoMoves, TypeOfStoreInv
<1> QED
  BY <1>1, <1>2, <1>3 DEF Hidden

\* The loop of htable_evict_files ends.
LEMMA EvictDoneSimulates ==
  ASSUME OneWriter, ItemsCountable, StoreInv, BytesFit, NEW w \in Worker, EvictDone(w)
  PROVE  Store!EvictEnd(w)
<1>1. pc[w] = "evict" /\ ~OverLimit /\ Running /\ UNCHANGED table /\ Return(w, "OK")
  BY DEF EvictDone, At, Running
<1>2. FilesBar' = FilesBar
  BY <1>1, FilesOfTable
<1>3. Moved(w, "idle", NULL, "OK") /\ fault' = fault
  BY <1>1, ReturnMoves
<1>4. "idle" \notin Evicting /\ "evict" \in Evicting
  BY DEF Evicting
<1>5. /\ CallBar' = [CallBar EXCEPT ![w] = NULL]
      /\ ResultBar' = [ResultBar EXCEPT ![w] = "OK"]
      /\ EvictingBar' = EvictingBar \ {w}
  BY <1>3, <1>4, WorkerBars, TypeOfStoreInv
<1>6. w \in EvictingBar /\ CallBar[w] = NULL
  BY <1>1, <1>4 DEF EvictingBar, CallBar
<1>7. CallBar' = CallBar
  <2>1. CallBar = [CallBar EXCEPT ![w] = CallBar[w]]
    BY DEF CallBar
  <2> QED
    BY <1>5, <1>6, <2>1
<1>8. ~ Store!Exceeded(FilesBar)
  BY <1>1, LimitsKnown, TypeOfStoreInv
<1>9. Running' = Running
  BY <1>3 DEF Running
<1> QED
  BY <1>1, <1>2, <1>5, <1>6, <1>7, <1>8, <1>9 DEF Store!EvictEnd

\* A stuttering step of the table is one of the store.
LEMMA NothingMoves == ASSUME UNCHANGED vars PROVE UNCHANGED Store!vars
<1>1. UNCHANGED table /\ UNCHANGED <<pc, req, ret, fault>>
  BY DEF vars, table
<1>2. FilesBar' = FilesBar
  BY <1>1, FilesOfTable
<1>3. CallBar' = CallBar /\ ResultBar' = ResultBar /\ EvictingBar' = EvictingBar
      /\ Running' = Running
  BY <1>1 DEF CallBar, ResultBar, EvictingBar, Running
<1> QED
  BY <1>2, <1>3 DEF Store!vars

\* One pass of that loop.
LEMMA EvictSimulates ==
  ASSUME OneWriter, ItemsCountable, StoreInv, StoreInv', BytesFit, NEW w \in Worker,
         EvictFifo(w) \/ \E b \in Bucket : EvictSegmented(w, b)
  PROVE  (\E k \in Key : Store!Evict(w, k)) \/ Fails(w) \/ UNCHANGED Store!vars
<1>0. pc[w] = "evict" /\ Running /\ OverLimit /\ "evict" \in Evicting
  BY DEF EvictFifo, EvictSegmented, At, Running, Evicting
<1>1. Store!Exceeded(FilesBar)
  BY <1>0, LimitsKnown, TypeOfStoreInv
<1>2. CASE fault' = "none"
  <2>1. CASE UNCHANGED vars
    BY <2>1, NothingMoves
  <2>2. ASSUME NEW p \in Linked, TakesOut(w, p), UNCHANGED <<pc, ret>>
        PROVE  \E k \in Key : Store!Evict(w, k)
    <3>1. /\ heap[p].key \in Key /\ FilesBar[heap[p].key] # NULL
          /\ FilesBar' = [FilesBar EXCEPT ![heap[p].key] = NULL]
      BY <1>0, <1>2, <2>2, FileTakenOut DEF Running
    <3>2. UNCHANGED <<pc, req, ret, fault>>
      BY <1>0, <1>2, <2>2 DEF TakesOut, Running
    <3>3. CallBar' = CallBar /\ ResultBar' = ResultBar /\ EvictingBar' = EvictingBar
          /\ Running' = Running
      BY <3>2 DEF CallBar, ResultBar, EvictingBar, Running
    <3>4. w \in EvictingBar
      BY <1>0 DEF EvictingBar
    <3>5. Store!Evict(w, heap[p].key)
      BY <1>0, <1>1, <3>1, <3>3, <3>4 DEF Store!Evict
    <3> QED
      BY <3>1, <3>5
  <2> QED
    BY <1>0, <1>2, <2>1, <2>2, EvictTakesOut, TypeOfStoreInv
<1>3. CASE fault' # "none"
  <2>1. ASSUME NEW b \in Bucket, EvictSegmented(w, b) PROVE FALSE
    <3>1. stats.items_count # 0
      BY <1>0, EvictorHasVictims, TypeOfStoreInv
    <3>2. /\ head[b] = NULL <=> last[b] = NULL
          /\ last[b] # NULL => last[b] \in Live /\ heap[last[b]].prev \in Live \cup {NULL}
      BY <1>0, LinkedItem, TypeOfStoreInv DEF ListInv, ListsWellFormed
    <3> QED
      BY <1>0, <1>3, <2>1, <3>1, <3>2 DEF EvictSegmented, vars, Running
  <2>2. EvictFifo(w)
    BY <2>1
  <2>3. \E how : Crash(how)
    BY <1>0, <1>3, <2>2 DEF EvictFifo, Running
  <2> QED
    BY <1>0, <1>1, <1>3, <2>2, <2>3 DEF Fails, Crash, EvictFifo, Running
<1> QED
  BY <1>2, <1>3

\* A worker takes a request.
LEMMA BeginSimulates ==
  ASSUME StoreInv, NEW w \in Worker, Begin(w) PROVE Store!Invoke(w)
<1>0. PICK op \in Api[w], k \in Key, fd \in Fd : \E arg \in Args(op) :
        /\ req' = [req EXCEPT ![w] = [op |-> op, key |-> k, fd |-> fd, arg |-> arg]]
        /\ pc' = [pc EXCEPT ![w] = EntryPoint(op)]
  BY DEF Begin
<1>1. PICK arg \in Args(op) :
        /\ req' = [req EXCEPT ![w] = [op |-> op, key |-> k, fd |-> fd, arg |-> arg]]
        /\ pc' = [pc EXCEPT ![w] = EntryPoint(op)]
  BY <1>0
<1>2. /\ pc[w] = "idle" /\ Running /\ UNCHANGED table /\ fault' = fault
      /\ ret' = [ret EXCEPT ![w] = NULL]
  BY DEF Begin, At, Running
<1> DEFINE r == [op |-> op, key |-> k, fd |-> fd, arg |-> arg]
           l == EntryPoint(op)
<1>3. Moved(w, l, r, NULL)
  BY <1>1, <1>2 DEF Moved
<1>4. l \notin {"idle"} \cup Settled \cup Evicting
  <2>1. op \in ApiOp
    OBVIOUS
  <2> QED
    BY <2>1 DEF EntryPoint, ApiOp, Settled, Evicting
<1>5. r \in [op: Api[w], key: Key, fd: Fd, arg: Size \cup Visits \cup {0}]
  <2>1. arg \in Size \cup Visits \cup {0}
    <3>1. op \in ApiOp
      OBVIOUS
    <3> QED
      BY <3>1 DEF Args, ApiOp
  <2> QED
    BY <2>1
<1> HIDE DEF r, l
<1>6. /\ CallBar' = [CallBar EXCEPT ![w] = r]
      /\ ResultBar' = [ResultBar EXCEPT ![w] = NULL]
      /\ EvictingBar' = EvictingBar \ {w}
  BY <1>3, <1>4, WorkerBars, TypeOfStoreInv
<1>7. CallBar[w] = NULL /\ w \notin EvictingBar
  BY <1>2 DEF CallBar, EvictingBar, Evicting
<1>8. FilesBar' = FilesBar /\ Running' = Running
  BY <1>2, FilesOfTable DEF Running
<1>9. \E x \in [v \in Worker |-> [op: Api[v], key: Key, fd: Fd, arg: Size \cup Visits \cup {0}]][w] :
        CallBar' = [CallBar EXCEPT ![w] = x]
  BY <1>5, <1>6
<1>10. UNCHANGED <<FilesBar, EvictingBar, Running>>
  BY <1>6, <1>7, <1>8
<1>11. Running
  BY <1>2
<1> QED
  BY <1>6, <1>7, <1>9, <1>10, <1>11 DEF Store!Invoke

-----------------------------------------------------------------------------
(* The storage is an atomic store. *)

\* The servers, and the invariant, for which every step is one of the store.
AtomicServer == OneWriter /\ NoVisits /\ ItemsCountable
AtomicInv == StoreInv /\ NewItemFresh

\* Every step of a worker is one of the store, or hidden.
LEMMA StepSimulates ==
  ASSUME AtomicServer, AtomicInv, StoreInv', BytesFit, NEW w \in Worker, Step(w)
  PROVE  Store!Next \/ UNCHANGED Store!vars
<1>0. OneWriter /\ NoVisits /\ ItemsCountable /\ StoreInv /\ NewItemFresh
  BY DEF AtomicServer, AtomicInv
<1>1. WorkerTypeOK
  BY <1>0, TypeOfStoreInv
<1> DEFINE Shown == Store!Next \/ UNCHANGED Store!vars
<1> SUFFICES Shown
  OBVIOUS
<1>2. Performs(w) => Shown
  BY <1>1, PerformsSimulates DEF Store!Next
<1>3. Fails(w) => Shown
  BY FailsSimulates DEF Store!Next
<1>4. Hidden(w) => Shown
  BY <1>1, HiddenStutters
<1>5. Store!EvictEnd(w) \/ (\E k \in Key : Store!Evict(w, k)) => Shown
  BY DEF Store!Next
<1>6. UNCHANGED Store!vars => Shown
  OBVIOUS
<1> HIDE DEF Shown
<1>7. CASE LockFile(w)
  BY <1>0, <1>2, <1>3, <1>7, LockSimulates
<1>8. CASE UnlockFile(w)
  BY <1>0, <1>2, <1>8, UnlockSimulates
<1>9. CASE OpenFile(w)
  BY <1>0, <1>2, <1>9, OpenSimulates
<1>10. CASE CloseFile(w)
  BY <1>0, <1>2, <1>10, CloseSimulates
<1>11. CASE WriteContents(w)
  BY <1>0, <1>2, <1>3, <1>11, WriteSimulates
<1>12. CASE ReadFetch(w)
  BY <1>0, <1>2, <1>12, ReadSimulates
<1>13. CASE RemoveFile(w)
  BY <1>0, <1>2, <1>13, RemoveSimulates
<1>14. CASE CreateFetch(w)
  BY <1>0, <1>2, <1>4, <1>14, CreateFetchSimulates
<1>15. CASE CreateItem(w)
  BY <1>0, <1>4, <1>15, CreateItemSimulates
<1>16. CASE CreateLink(w)
  BY <1>0, <1>2, <1>16, CreateLinkSimulates
<1>17. CASE OpenCloseStats(w) \/ CreateStats(w) \/ RemoveStats(w) \/ ReadRelease(w)
  BY <1>0, <1>4, <1>17, ReportStutters
<1>18. CASE WriteStats(w) \/ EvictLock(w)
  BY <1>0, <1>4, <1>18, ToEvictionStutters
<1>19. CASE EvictDone(w)
  BY <1>0, <1>5, <1>19, EvictDoneSimulates
<1>20. CASE EvictFifo(w) \/ \E b \in Bucket : EvictSegmented(w, b)
  BY <1>0, <1>3, <1>5, <1>6, <1>20, EvictSimulates
<1>21. CASE VisitHead(w) \/ VisitLock(w) \/ VisitSend(w) \/ VisitNext(w) \/ VisitBucket(w)
  <2>1. pc[w] \in {"visit", "visit_lock", "visit_next", "visit_bucket", "visit_send"}
    BY <1>21 DEF VisitHead, VisitLock, VisitSend, VisitNext, VisitBucket, At
  <2>2. req[w].op = "READ_N_FILES" /\ req[w].op \in Api[w]
    BY <1>0, <2>1, OpOfLabel DEF StoreInv
  <2> QED
    BY <1>0, <2>2 DEF NoVisits
<1> QED
  BY <1>7, <1>8, <1>9, <1>10, <1>11, <1>12, <1>13, <1>14, <1>15, <1>16, <1>17, <1>18, <1>19,
     <1>20, <1>21 DEF Step

LEMMA NextSimulates ==
  ASSUME AtomicServer, AtomicInv, StoreInv', BytesFit, [Next]_vars
  PROVE  [Store!Next]_(Store!vars)
<1>1. CASE UNCHANGED vars \/ Terminated
  BY <1>1, NothingMoves DEF Terminated
<1>2. ASSUME NEW w \in Worker, Begin(w) PROVE Store!Next
  BY <1>2, BeginSimulates DEF Store!Next, AtomicInv
<1>3. ASSUME NEW w \in Worker, Step(w) PROVE Store!Next \/ UNCHANGED Store!vars
  BY <1>3, StepSimulates
<1> QED
  BY <1>1, <1>2, <1>3 DEF Next

LEMMA NextAtomicInv ==
  ASSUME AtomicServer, AtomicInv, [Next]_vars PROVE AtomicInv'
<1>1. OneWriter /\ DispatchInv /\ ListInv /\ CountersInv /\ NewItemFresh
  BY DEF AtomicServer, AtomicInv, StoreInv
<1>2. DispatchInv' /\ ListInv' /\ CountersInv' /\ NewItemFresh'
  BY <1>1, NextDispatchInv, NextListInv, NextCountersInv, NextNewItemFresh
<1> QED
  BY <1>2 DEF AtomicInv, StoreInv

LEMMA InitSimulates == ASSUME Init PROVE AtomicInv /\ Store!Init
<1>1. DispatchInv /\ ListInv /\ CountersInv
  BY InitDispatchInv, InitListInv, InitCountersInv
<1>2. NewItemFresh
  BY DEF Init, NewItemFresh
<1>3. Live = {}
  BY DEF Init, Live
<1>4. FilesBar = Store!NoFiles
  BY <1>3 DEF FilesBar, FileAt, Store!NoFiles
<1>5. CallBar = [w \in Worker |-> NULL] /\ ResultBar = [w \in Worker |-> NULL]
  <2>1. \A w \in Worker : pc[w] = "idle" /\ ret[w] = NULL
    BY DEF Init
  <2>2. CallBar = [w \in Worker |-> NULL]
    BY <2>1 DEF CallBar
  <2>3. ResultBar = [w \in Worker |-> NULL]
    BY <2>1 DEF ResultBar, Settled
  <2> QED
    BY <2>2, <2>3
<1>6. EvictingBar = {} /\ Running
  BY DEF Init, EvictingBar, Evicting, Running
<1> QED
  BY <1>1, <1>2, <1>4, <1>5, <1>6 DEF AtomicInv, StoreInv, Store!Init

\* Where one worker changes the lists and nobody visits them, every call of htable.h takes
\* effect in one step between its call and its return, with the result that htable.h defines;
\* an eviction removes files while a limit is exceeded, and no longer.  (size_t holds the
\* bytes, and the items that memory has room for.)
THEOREM StorageIsAtomic ==
  ASSUME OneWriter, NoVisits, ItemsCountable
  PROVE  Spec /\ []BytesFit => ImplementsStore
<1>0. AtomicServer
  BY DEF AtomicServer
<1>1. Init => AtomicInv /\ Store!Init
  BY InitSimulates
<1>2. AtomicInv /\ [Next]_vars => AtomicInv'
  BY <1>0, NextAtomicInv
<1>3. AtomicInv /\ AtomicInv' /\ BytesFit /\ [Next]_vars => [Store!Next]_(Store!vars)
  BY <1>0, NextSimulates DEF AtomicInv
<1> QED
  BY <1>1, <1>2, <1>3, PTL DEF Spec, ImplementsStore, Store!Spec
=============================================================================
