------------------------- MODULE WorkloadQueueProofs -------------------------
(***************************************************************************)
(* Proofs about the workload queues, for any number of threads, clients,   *)
(* requests.                                                               *)
(***************************************************************************)
EXTENDS WorkloadQueueProps, ProofLemmas

USE WorkloadQueueAssumption
    DEF WorkloadQueueAssumption, Queue, Free, Empty, threads, shutdown, history

\* The initial state satisfies the inductive invariant.
LEMMA SleepInvInit == Init => SleepInv
<1> SUFFICES ASSUME Init PROVE SleepInv
  OBVIOUS
<1>1. TypeOK
  <2>1. next \in Seq(Nat) /\ \A m \in DOMAIN next : next[m] \in Pointer
    BY DEF Init
  <2>2. 0 \in Pointer
    BY DEF Pointer
  <2>3. queue \in [Queue -> [next_incoming: Pointer, last_incoming: Pointer]]
    <3> HIDE DEF Queue
    <3> QED
      BY <2>2 DEF Init
  <2>4. id \in [Worker -> Queue] /\ cur \in [Worker -> Pointer]
    BY <2>2 DEF Init
  <2>5. /\ mutex \in [Queue -> Worker \cup {NULL}]
        /\ pc \in [Worker -> {"start", "pull", "before_wait", "wait", "handle", "free",
                             "exited"}]
    BY DEF Init
  <2>6. freed \subseteq Pointer /\ handled \subseteq Pointer /\ lost \subseteq Pointer
        /\ gone \subseteq Client
    BY DEF Init
  <2>7. /\ counter \in 0 .. NumWorkers /\ signalled \in 0 .. NumWorkers
        /\ soft \in {0, 1} /\ hard \in {0, 1} /\ main \in {"poll", "signal", "done"}
    BY DEF Init
  <2>8. stuck \in BOOLEAN /\ fault \in {"none", "use_after_free", "wild_write", "crash"}
    BY Zenon DEF Init
  <2> QED
    BY <2>1, <2>3, <2>4, <2>5, <2>6, <2>7, <2>8 DEF TypeOK
<1>2. Unnumbered = Worker
  BY DEF Init, Unnumbered
<1>3. ThreadsNumbered
  BY <1>2 DEF Init, ThreadsNumbered
<1> QED
  BY <1>1, <1>3 DEF SleepInv, Init, AboutToSleep, NoLostWakeup

\* A thread that still has to be numbered finds a number below num-workers, which is
\* the size of the array of queues.
LEMMA NumberLeft ==
  ASSUME TypeOK, ThreadsNumbered, NEW w \in Worker, pc[w] = "start"
  PROVE  /\ counter \in Queue
         /\ Cardinality(Unnumbered \ {w}) = NumWorkers - (counter + 1)
<1>1. IsFiniteSet(Unnumbered) /\ w \in Unnumbered
  BY FS_Subset DEF Unnumbered
<1>2. Cardinality(Unnumbered \ {w}) = Cardinality(Unnumbered) - 1
      /\ IsFiniteSet(Unnumbered \ {w})
  BY <1>1, FS_RemoveElement
<1>3. Cardinality(Unnumbered \ {w}) \in Nat
  BY <1>2, FS_CardinalityType
<1> QED
  BY <1>2, <1>3 DEF TypeOK, ThreadsNumbered

\* Signal changes pc at one sleeping worker of the queue, or not at all.
LEMMA SignalEffect ==
  ASSUME TypeOK, NEW i \in Queue, Signal(i)
  PROVE  /\ pc' \in [Worker -> {"start", "pull", "before_wait", "wait", "handle", "free",
                               "exited"}]
         /\ \A w \in Worker : pc'[w] = pc[w] \/ (pc[w] = "wait" /\ id[w] = i /\ pc'[w] = "pull")
         /\ Waiters(i) # {} => \E w \in Waiters(i) : pc'[w] = "pull"
  BY DEF Signal, Waiters, TypeOK

\* An update of next_incoming leaves a queue.
LEMMA QueueUpdate ==
  ASSUME NEW P, NEW q \in [next_incoming: P, last_incoming: P], NEW x \in P
  PROVE  [q EXCEPT !.next_incoming = x] \in [next_incoming: P, last_incoming: P]
  OBVIOUS

\* What workload_queue_add does to the fields next: the new message is the last one allocated,
\* only the message added before it gets another successor.
LEMMA LinkEffect ==
  ASSUME TypeOK, NEW l \in Pointer, NEW m, m = Len(next) + 1,
         next' = LinkLast(Append(next, 0), l, m)
  PROVE  /\ next' \in Seq(Nat) /\ DOMAIN next' = DOMAIN next \cup {m} /\ m \notin DOMAIN next
         /\ m \in Nat /\ m # 0 /\ Len(next') = m
         /\ \A x \in DOMAIN next : next'[x] = IF x = l THEN m ELSE next[x]
         /\ next'[m] = 0
<1> DEFINE s == Append(next, 0)
<1>1. next \in Seq(Nat) /\ Len(next) \in Nat /\ DOMAIN next = 1 .. Len(next)
  BY DEF TypeOK
<1>2. /\ s \in Seq(Nat) /\ Len(s) = m /\ DOMAIN s = 1 .. m /\ s[m] = 0
      /\ \A x \in DOMAIN next : s[x] = next[x]
  BY <1>1
<1>3. m \in Nat /\ m # 0 /\ m \notin DOMAIN next /\ 1 .. m = DOMAIN next \cup {m}
  BY <1>1
<1>4. l # m
  BY <1>3 DEF Pointer
<1>5. next' = IF l = 0 THEN s ELSE [s EXCEPT ![l] = m]
  BY DEF LinkLast
<1> HIDE DEF s
<1>6. CASE l = 0
  <2>1. next' = s
    BY <1>5, <1>6
  <2>2. \A x \in DOMAIN next : x # l
    BY <1>1, <1>6
  <2>3. \A x \in DOMAIN next : next'[x] = IF x = l THEN m ELSE next[x]
    BY <1>2, <2>1, <2>2
  <2>4. next' \in Seq(Nat) /\ Len(next') = m /\ DOMAIN next' = DOMAIN next \cup {m}
        /\ next'[m] = 0
    BY <1>2, <1>3, <2>1
  <2> QED
    BY <1>3, <2>3, <2>4
<1>7. CASE l # 0
  <2>1. next' = [s EXCEPT ![l] = m] /\ l \in 1 .. m
    BY <1>3, <1>5, <1>7 DEF Pointer
  <2>2. DOMAIN next' = 1 .. m /\ Len(next') = m /\ next' \in Seq(Nat)
    <3>1. s \in [1 .. m -> Nat]
      BY <1>2
    <3>2. next' \in [1 .. m -> Nat]
      BY <1>3, <2>1, <3>1
    <3> QED
      BY <1>3, <3>2
  <2>3. next'[m] = 0 /\ \A x \in DOMAIN next : next'[x] = IF x = l THEN m ELSE next[x]
    BY <1>2, <1>3, <1>4, <2>1
  <2> QED
    BY <1>3, <2>2, <2>3
<1> QED
  BY <1>6, <1>7

\* Steps that allocate no message keep the types of all pointers.
LEMMA SamePointer == ASSUME DOMAIN next' = DOMAIN next PROVE Pointer' = Pointer
  BY DEF Pointer

\* What workload_queue_pull takes is a message; what it leaves begins with the next one.
LEMMA PullEffect ==
  ASSUME TypeOK, NEW w \in Worker, PullMessage(w)
  PROVE  \E i \in Queue, m \in DOMAIN next :
           /\ i = id[w] /\ m = queue[i].next_incoming
           /\ next' = [next EXCEPT ![m] = 0]
           /\ queue' = [queue EXCEPT ![i] = [next_incoming |-> next[m],
                                            last_incoming |-> queue[i].last_incoming]]
           /\ cur' = [cur EXCEPT ![w] = m] /\ pc' = [pc EXCEPT ![w] = "handle"]
<1>1. PICK i \in Queue : i = id[w]
  BY DEF TypeOK
<1>2. queue[i] \in [next_incoming: Pointer, last_incoming: Pointer]
  BY DEF TypeOK
<1>3. PICK m \in DOMAIN next : m = queue[i].next_incoming
  BY <1>1, <1>2 DEF PullMessage, Pointer
<1>4. [queue[i] EXCEPT !.next_incoming = next[m]]
        = [next_incoming |-> next[m], last_incoming |-> queue[i].last_incoming]
  BY <1>2
<1>5. queue' = [queue EXCEPT ![i] = [queue[i] EXCEPT !.next_incoming = next[m]]]
  BY <1>1, <1>3 DEF PullMessage
<1> QED
  BY <1>1, <1>3, <1>4, <1>5 DEF PullMessage

\* Every variable keeps its type.
LEMMA TypeOKStep ==
  ASSUME TypeOK, ThreadsNumbered, Next
  PROVE  TypeOK'
<1>0. 0 \in Pointer
  BY DEF Pointer
<1>1. ASSUME NEW w \in Worker, Start(w) PROVE TypeOK'
  <2>1. counter \in Queue
    BY <1>1, NumberLeft DEF Start
  <2>2. id' \in [Worker -> Queue] /\ counter' \in 0 .. NumWorkers
    BY <1>1, <2>1 DEF Start, TypeOK
  <2> QED
    BY <1>1, <2>2, SamePointer DEF Start, TypeOK
<1>2. ASSUME NEW w \in Worker, PullMessage(w) PROVE TypeOK'
  <2>1. PICK i \in Queue, m \in DOMAIN next :
          /\ i = id[w] /\ m = queue[i].next_incoming
          /\ next' = [next EXCEPT ![m] = 0]
          /\ queue' = [queue EXCEPT ![i] = [next_incoming |-> next[m],
                                           last_incoming |-> queue[i].last_incoming]]
          /\ cur' = [cur EXCEPT ![w] = m] /\ pc' = [pc EXCEPT ![w] = "handle"]
    BY <1>2, PullEffect
  <2>2. next' \in Seq(Nat) /\ DOMAIN next' = DOMAIN next
        /\ \A x \in DOMAIN next : next'[x] \in Pointer
    BY <1>0, <2>1 DEF TypeOK
  <2>3. Pointer' = Pointer
    BY <2>2, SamePointer
  <2>4. queue[i].last_incoming \in Pointer /\ next[m] \in Pointer /\ m \in Pointer
    BY DEF TypeOK, Pointer
  <2>5. queue' \in [Queue -> [next_incoming: Pointer, last_incoming: Pointer]]
        /\ cur' \in [Worker -> Pointer]
        /\ pc' \in [Worker -> {"start", "pull", "before_wait", "wait", "handle", "free",
                              "exited"}]
    BY <2>1, <2>4 DEF TypeOK
  <2>6. fault' \in {"none", "use_after_free"}
    BY <1>2 DEF PullMessage, Use
  <2> QED
    BY <1>2, <2>2, <2>3, <2>5, <2>6 DEF PullMessage, TypeOK
<1>3. ASSUME NEW w \in Worker, PullEmpty(w) PROVE TypeOK'
  <2>1. Pointer' = Pointer
    BY <1>3, SamePointer DEF PullEmpty
  <2>2. pc' \in [Worker -> {"start", "pull", "before_wait", "wait", "handle", "free", "exited"}]
        /\ mutex' \in [Queue -> Worker \cup {NULL}]
    <3>1. CASE hard = 1
      BY <1>3, <3>1 DEF PullEmpty, TypeOK
    <3>2. CASE hard # 1
      <4>1. /\ pc' = [pc EXCEPT ![w] = "before_wait"]
            /\ mutex' = [mutex EXCEPT ![id[w]] = w]
        BY <1>3, <3>2 DEF PullEmpty
      <4> QED
        BY <4>1 DEF TypeOK
    <3> QED
      BY <3>1, <3>2
  <2> QED
    BY <1>3, <2>1, <2>2 DEF PullEmpty, TypeOK
<1>4. ASSUME NEW w \in Worker, CondWait(w) \/ SpuriousWakeup(w) PROVE TypeOK'
  BY <1>4, SamePointer DEF CondWait, SpuriousWakeup, TypeOK
<1>5. ASSUME NEW w \in Worker, Handle(w) PROVE TypeOK'
  <2>1. Pointer' = Pointer /\ cur[w] \in Pointer
    BY <1>5, SamePointer DEF Handle, TypeOK
  <2>2. fault' \in {"none", "use_after_free"} /\ handled' \subseteq Pointer
    BY <1>5, <2>1 DEF Handle, Use, TypeOK
  <2> QED
    BY <1>5, <2>1, <2>2 DEF Handle, TypeOK
<1>6. ASSUME NEW w \in Worker, FreeMessage(w) PROVE TypeOK'
  <2>1. Pointer' = Pointer /\ cur[w] \in Pointer
    BY <1>6, SamePointer DEF FreeMessage, TypeOK
  <2>2. fault' \in {"none", "use_after_free"} /\ freed' \subseteq Pointer
    BY <1>6, <2>1 DEF FreeMessage, Use, TypeOK
  <2> QED
    BY <1>0, <1>6, <2>1, <2>2 DEF FreeMessage, TypeOK
<1>7. ASSUME NEW w \in Worker, KeepMutex(w) \/ Crash(w) PROVE TypeOK'
  BY <1>7, SamePointer DEF KeepMutex, Crash, TypeOK
<1>8. ASSUME NEW c \in Client, HandOver(c) PROVE TypeOK'
  <2> DEFINE m == Len(next) + 1
  <2>1. PICK i \in Queue :
          /\ next' = LinkLast(Append(next, 0), queue[i].last_incoming, m)
          /\ queue' = QueueAfterAdd(i, m)
          /\ lost' = lost \cup ({queue[i].next_incoming} \ {0})
          /\ fault' \in AfterDangling(queue[i].last_incoming)
          /\ Signal(i)
    BY <1>8 DEF HandOver
  <2>2. queue[i].last_incoming \in Pointer /\ queue[i].next_incoming \in Pointer
    BY DEF TypeOK
  <2> HIDE DEF m
  <2>3. /\ next' \in Seq(Nat) /\ DOMAIN next' = DOMAIN next \cup {m} /\ m \notin DOMAIN next
        /\ m \in Nat /\ m # 0
        /\ \A x \in DOMAIN next :
             next'[x] = IF x = queue[i].last_incoming THEN m ELSE next[x]
        /\ next'[m] = 0
    BY <2>1, <2>2, LinkEffect DEF m
  <2>4. Pointer \subseteq Pointer' /\ m \in Pointer' /\ 0 \in Pointer'
    BY <2>3 DEF Pointer
  <2>5. \A x \in DOMAIN next' : next'[x] \in Pointer'
    BY <2>3, <2>4 DEF TypeOK
  <2>6. queue' \in [Queue -> [next_incoming: Pointer', last_incoming: Pointer']]
    <3>1. \A j \in Queue : queue[j] \in [next_incoming: Pointer', last_incoming: Pointer']
      BY <2>4 DEF TypeOK
    <3>2. [next_incoming |-> m, last_incoming |-> m]
            \in [next_incoming: Pointer', last_incoming: Pointer']
      BY <2>4
    <3>3. queue' = [j \in Queue |-> IF j = i THEN [next_incoming |-> m, last_incoming |-> m]
                                   ELSE queue[j]]
      BY <2>1 DEF QueueAfterAdd, TypeOK
    <3> QED
      BY <3>1, <3>2, <3>3
  <2>7. cur' \in [Worker -> Pointer'] /\ freed' \subseteq Pointer' /\ handled' \subseteq Pointer'
        /\ lost' \subseteq Pointer'
    BY <1>8, <2>1, <2>2, <2>4 DEF HandOver, TypeOK
  <2>8. pc' \in [Worker -> {"start", "pull", "before_wait", "wait", "handle", "free", "exited"}]
    BY <2>1, SignalEffect
  <2>9. fault' \in {"none", "wild_write"}
    BY <2>1 DEF AfterDangling
  <2> QED
    BY <1>8, <2>3, <2>5, <2>6, <2>7, <2>8, <2>9 DEF HandOver, TypeOK
<1>9. ASSUME NEW c \in Client, Disconnect(c) PROVE TypeOK'
  BY <1>9, SamePointer DEF Disconnect, TypeOK
<1>10. CASE SoftSignal \/ HardSignal \/ PollFails \/ LeaveLoop
  BY <1>10, SamePointer DEF SoftSignal, HardSignal, PollFails, LeaveLoop, TypeOK
<1>11. CASE SignalQueue
  <2>1. Pointer' = Pointer /\ signalled \in Queue /\ Signal(signalled)
    BY <1>11, SamePointer DEF SignalQueue, TypeOK
  <2>2. pc' \in [Worker -> {"start", "pull", "before_wait", "wait", "handle", "free", "exited"}]
    BY <2>1, SignalEffect
  <2>3. signalled' \in 0 .. NumWorkers
    BY <1>11 DEF SignalQueue, TypeOK
  <2> QED
    BY <1>11, <2>1, <2>2, <2>3 DEF SignalQueue, TypeOK
<1>12. CASE JoinWorkers
  <2>1. Pointer' = Pointer
    BY <1>12, SamePointer DEF JoinWorkers
  <2>2. ASSUME NEW i \in Queue
        PROVE  [queue[i] EXCEPT !.next_incoming = 0] \in [next_incoming: Pointer, last_incoming: Pointer]
    BY <1>0, QueueUpdate DEF TypeOK
  <2>3. queue' \in [Queue -> [next_incoming: Pointer, last_incoming: Pointer]]
    BY <1>12, <2>2 DEF JoinWorkers
  <2> QED
    BY <1>12, <2>1, <2>3 DEF JoinWorkers, TypeOK
<1>13. CASE Terminated
  BY <1>13, SamePointer DEF Terminated, TypeOK, vars
<1> QED
  BY <1>1, <1>2, <1>3, <1>4, <1>5, <1>6, <1>7, <1>8, <1>9, <1>10, <1>11, <1>12, <1>13
     DEF Next, WorkerStep, MainStep

\* A step that numbers no thread keeps the numbering.
LEMMA SameNumbering ==
  ASSUME ThreadsNumbered, UNCHANGED <<id, counter>>,
         \A w \in Worker : pc'[w] = "start" <=> pc[w] = "start"
  PROVE  ThreadsNumbered'
<1>1. Unnumbered' = Unnumbered
  BY DEF Unnumbered
<1> QED
  BY <1>1 DEF ThreadsNumbered

\* Threads are numbered apart: ts_counter gives every thread a queue of its own.
LEMMA ThreadsNumberedStep ==
  ASSUME TypeOK, ThreadsNumbered, Next
  PROVE  ThreadsNumbered'
<1>1. ASSUME NEW w \in Worker, Start(w) PROVE ThreadsNumbered'
  <2>1. Unnumbered' = Unnumbered \ {w}
    BY <1>1 DEF Start, TypeOK, Unnumbered
  <2>2. Cardinality(Unnumbered') = NumWorkers - counter'
    BY <1>1, <2>1, NumberLeft DEF Start
  <2>3. \A v \in Worker : pc'[v] # "start" => id'[v] < counter'
    BY <1>1 DEF Start, TypeOK, ThreadsNumbered
  <2>4. \A u, v \in Worker : pc'[u] # "start" /\ pc'[v] # "start" /\ id'[u] = id'[v] => u = v
    BY <1>1 DEF Start, TypeOK, ThreadsNumbered
  <2> QED
    BY <2>2, <2>3, <2>4 DEF ThreadsNumbered
<1>2. ASSUME NEW w \in Worker, PullMessage(w) PROVE ThreadsNumbered'
  BY <1>2, SameNumbering DEF PullMessage, TypeOK
<1>3. ASSUME NEW w \in Worker, PullEmpty(w) PROVE ThreadsNumbered'
  BY <1>3, SameNumbering DEF PullEmpty, TypeOK
<1>4. ASSUME NEW w \in Worker, CondWait(w) \/ SpuriousWakeup(w) PROVE ThreadsNumbered'
  BY <1>4, SameNumbering DEF CondWait, SpuriousWakeup, TypeOK
<1>5. ASSUME NEW w \in Worker, Handle(w) \/ FreeMessage(w) \/ KeepMutex(w) \/ Crash(w)
      PROVE  ThreadsNumbered'
  BY <1>5, SameNumbering DEF Handle, FreeMessage, KeepMutex, Crash, TypeOK
<1>6. ASSUME NEW c \in Client, HandOver(c) PROVE ThreadsNumbered'
  <2>1. PICK i \in Queue : Signal(i)
    BY <1>6 DEF HandOver
  <2>2. \A w \in Worker : pc'[w] = "start" <=> pc[w] = "start"
    BY <2>1, SignalEffect
  <2> QED
    BY <1>6, <2>2, SameNumbering DEF HandOver
<1>7. CASE SignalQueue
  <2>1. signalled \in Queue /\ Signal(signalled)
    BY <1>7 DEF SignalQueue, TypeOK
  <2>2. \A w \in Worker : pc'[w] = "start" <=> pc[w] = "start"
    BY <2>1, SignalEffect
  <2> QED
    BY <1>7, <2>2, SameNumbering DEF SignalQueue
<1>8. ASSUME NEW c \in Client, Disconnect(c) PROVE ThreadsNumbered'
  BY <1>8, SameNumbering DEF Disconnect
<1>9. CASE SoftSignal \/ HardSignal \/ PollFails \/ LeaveLoop \/ JoinWorkers \/ Terminated
  BY <1>9, SameNumbering
     DEF SoftSignal, HardSignal, PollFails, LeaveLoop, JoinWorkers, Terminated, vars
<1> QED
  BY <1>1, <1>2, <1>3, <1>4, <1>5, <1>6, <1>7, <1>8, <1>9 DEF Next, WorkerStep, MainStep

\* After a signal under the mutex of queue i nobody sleeps, or is about to, on that queue.
LEMMA SignalWakesAll ==
  ASSUME SleepInv, NEW i \in Queue, Free(i), Signal(i), NEW w \in Worker,
         pc'[w] \in {"wait", "before_wait"}
  PROVE  pc'[w] = pc[w] /\ id[w] # i
<1>1. pc'[w] = pc[w]
  BY SignalEffect DEF SleepInv
<1>2. ASSUME pc[w] = "before_wait" PROVE id[w] # i
  BY <1>2 DEF SleepInv, AboutToSleep
<1>3. ASSUME pc[w] = "wait", id[w] = i PROVE FALSE
  <2>1. PICK v \in Waiters(i) : pc'[v] = "pull"
    BY <1>3, SignalEffect DEF SleepInv, Waiters
  <2>2. v = w
    BY <1>3, <2>1 DEF SleepInv, ThreadsNumbered, Waiters
  <2> QED
    BY <1>1, <1>3, <2>1, <2>2
<1> QED
  BY <1>1, <1>2, <1>3

\* No step loses a wake-up: the worker that goes to sleep holds the mutex from the check
\* of the queue and of the flag on, and whoever adds a message or signals the end of
\* the server needs that mutex and wakes the only worker of the queue.
LEMMA SleepStep ==
  ASSUME SleepInv, Next
  PROVE  AboutToSleep' /\ NoLostWakeup'
<1> USE DEF SleepInv, AboutToSleep, NoLostWakeup
<1>1. ASSUME NEW w \in Worker, Start(w) PROVE AboutToSleep' /\ NoLostWakeup'
  BY <1>1 DEF Start, TypeOK
<1>2. ASSUME NEW w \in Worker, PullMessage(w) PROVE AboutToSleep' /\ NoLostWakeup'
  <2>1. \A v \in Worker : pc'[v] \in {"wait", "before_wait"} => pc'[v] = pc[v] /\ id[v] # id[w]
    BY <1>2 DEF PullMessage, TypeOK
  <2>2. \A v \in Worker : id[v] # id[w] => queue'[id[v]] = queue[id[v]]
    BY <1>2 DEF PullMessage, TypeOK
  <2>3. UNCHANGED <<mutex, id, main, hard, signalled>>
    BY <1>2 DEF PullMessage
  <2> QED
    BY <2>1, <2>2, <2>3 DEF TypeOK
<1>3. ASSUME NEW w \in Worker, PullEmpty(w) PROVE AboutToSleep' /\ NoLostWakeup'
  <2>1. CASE hard = 1
    BY <1>3, <2>1 DEF PullEmpty, TypeOK
  <2>2. CASE hard # 1
    <3>1. main = "poll" /\ Empty(id[w]) /\ Free(id[w]) /\ id[w] \in Queue
      BY <1>3, <2>2 DEF PullEmpty, TypeOK
    <3>2. pc' = [pc EXCEPT ![w] = "before_wait"] /\ mutex' = [mutex EXCEPT ![id[w]] = w]
      BY <1>3, <2>2 DEF PullEmpty
    <3>3. UNCHANGED <<queue, id, main, hard, signalled>>
      BY <1>3 DEF PullEmpty
    <3>4. \A v \in Worker : pc[v] = "before_wait" => id[v] # id[w]
      BY <3>1 DEF TypeOK
    <3>5. NoLostWakeup'
      BY <3>2, <3>3 DEF TypeOK
    <3>6. \A v \in Worker : pc'[v] = "before_wait" => mutex'[id[v]] = v /\ Empty(id[v])
      BY <3>1, <3>2, <3>4 DEF TypeOK
    <3> QED
      BY <3>1, <3>3, <3>5, <3>6
  <2> QED
    BY <2>1, <2>2
<1>4. ASSUME NEW w \in Worker, CondWait(w) \/ SpuriousWakeup(w)
      PROVE  AboutToSleep' /\ NoLostWakeup'
  BY <1>4 DEF CondWait, SpuriousWakeup, TypeOK, ThreadsNumbered
<1>5. ASSUME NEW w \in Worker, Handle(w) \/ FreeMessage(w) \/ KeepMutex(w) \/ Crash(w)
      PROVE  AboutToSleep' /\ NoLostWakeup'
  BY <1>5 DEF Handle, FreeMessage, KeepMutex, Crash, TypeOK
<1>6. ASSUME NEW c \in Client, HandOver(c) PROVE AboutToSleep' /\ NoLostWakeup'
  <2>1. PICK i \in Queue :
          Free(i) /\ queue' = QueueAfterAdd(i, Len(next) + 1) /\ Signal(i)
    BY <1>6 DEF HandOver
  <2>2. \A w \in Worker : pc'[w] \in {"wait", "before_wait"} => pc'[w] = pc[w] /\ id[w] # i
    BY <2>1, SignalWakesAll
  <2>3. \A j \in Queue : j # i => queue'[j] = queue[j]
    BY <2>1 DEF QueueAfterAdd, TypeOK
  <2> QED
    <3>1. UNCHANGED <<mutex, id, main, hard, signalled>>
      BY <1>6 DEF HandOver
    <3>2. \A w \in Worker : id[w] \in Queue
      BY DEF TypeOK
    <3>3. \A w \in Worker : pc'[w] \in {"wait", "before_wait"} => queue'[id[w]] = queue[id[w]]
      BY <2>2, <2>3, <3>2
    <3> QED
      BY <2>2, <3>1, <3>3
<1>7. CASE SignalQueue
  <2>1. signalled \in Queue /\ Signal(signalled) /\ Free(signalled) /\ main = "signal"
    BY <1>7 DEF SignalQueue, TypeOK
  <2>2. \A w \in Worker :
          pc'[w] \in {"wait", "before_wait"} => pc'[w] = pc[w] /\ id[w] # signalled
    BY <2>1, SignalWakesAll
  <2> QED
    BY <1>7, <2>1, <2>2 DEF SignalQueue, TypeOK
<1>8. ASSUME NEW c \in Client, Disconnect(c) PROVE AboutToSleep' /\ NoLostWakeup'
  BY <1>8 DEF Disconnect, TypeOK
<1>9. CASE SoftSignal \/ HardSignal \/ Terminated
  BY <1>9 DEF SoftSignal, HardSignal, Terminated, vars, TypeOK
<1>10. CASE PollFails \/ LeaveLoop
  BY <1>10 DEF PollFails, LeaveLoop, TypeOK
<1>11. CASE JoinWorkers
  BY <1>11 DEF JoinWorkers, TypeOK
<1> QED
  BY <1>1, <1>2, <1>3, <1>4, <1>5, <1>6, <1>7, <1>8, <1>9, <1>10, <1>11
     DEF Next, WorkerStep, MainStep

\* The invariant is inductive.
LEMMA SleepInvStep == SleepInv /\ [Next]_vars => SleepInv'
<1>1. CASE Next /\ SleepInv
  BY <1>1, TypeOKStep, ThreadsNumberedStep, SleepStep DEF SleepInv
<1>2. CASE UNCHANGED vars /\ SleepInv
  BY <1>2 DEF SleepInv, TypeOK, ThreadsNumbered, Unnumbered, AboutToSleep, NoLostWakeup, vars, Pointer
<1> QED
  BY <1>1, <1>2

\* Every variable of the queues and threads stays within its type.
THEOREM TypeCorrect == Spec => []TypeOK
<1>1. SleepInv => TypeOK
  BY DEF SleepInv
<1> QED
  BY <1>1, SleepInvInit, SleepInvStep, PTL DEF Spec

\* A worker never sleeps on a queue that holds a request, nor through a shutdown that
\* already signalled its queue (workload_queue_pull against workload_queue_add and
\* workload_queues_cond_signal).
THEOREM NoWakeupIsLost == Spec => []NoLostWakeup
<1>1. SleepInv => NoLostWakeup
  BY DEF SleepInv
<1> QED
  BY <1>1, SleepInvInit, SleepInvStep, PTL DEF Spec

\* The initial state has no messages.
LEMMA KeptInit == Init => MessagesKept
<1> SUFFICES ASSUME Init PROVE MessagesKept
  OBVIOUS
<1>1. next = <<>> /\ DOMAIN next = {} /\ \A w \in Worker : ~Held(w)
  BY DEF Init, Held
<1>2. \A i \in Queue : queue[i].next_incoming = 0 /\ queue[i].last_incoming = 0
  BY DEF Init
<1> QED
  BY <1>1, <1>2
     DEF Init, MessagesKept, NotUsedAfterFree, QueuesHold, LastsDiffer, WorkersHold,
         NothingForgotten

\* Steps that touch no message and no worker that has one.
LEMMA KeptByOthers ==
  ASSUME MessagesKept, UNCHANGED <<next, freed, queue, cur, handled, lost>>,
         fault' # "use_after_free", main' # "done" => main # "done",
         \A w \in Worker : \/ pc'[w] = pc[w]
                           \/ pc[w] \notin {"handle", "free"} /\ pc'[w] \notin {"handle", "free"}
  PROVE  MessagesKept'
<1> USE DEF MessagesKept
<1>1. \A w \in Worker : Held(w)' <=> Held(w)
  BY DEF Held
<1>2. \A w \in Worker : Held(w) => pc'[w] = pc[w]
  BY DEF Held
<1>3. NotUsedAfterFree' /\ LastsDiffer'
  BY DEF NotUsedAfterFree, LastsDiffer
<1>4. QueuesHold'
  BY <1>1 DEF QueuesHold
<1>5. WorkersHold'
  BY <1>1, <1>2 DEF WorkersHold
<1>6. NothingForgotten'
  BY <1>2 DEF NothingForgotten, Held
<1> QED
  BY <1>3, <1>4, <1>5, <1>6

\* workload_queue_pull takes the only message of the queue.
LEMMA KeptByPull ==
  ASSUME TypeOK, MessagesKept, NEW w \in Worker, PullMessage(w)
  PROVE  MessagesKept'
<1> USE DEF MessagesKept
<1>1. PICK i \in Queue, m \in DOMAIN next :
        /\ i = id[w] /\ m = queue[i].next_incoming
        /\ next' = [next EXCEPT ![m] = 0]
        /\ queue' = [queue EXCEPT ![i] = [next_incoming |-> next[m],
                                         last_incoming |-> queue[i].last_incoming]]
        /\ cur' = [cur EXCEPT ![w] = m] /\ pc' = [pc EXCEPT ![w] = "handle"]
  BY PullEffect
<1>2. m # 0
  BY DEF TypeOK
<1>3. /\ m \notin handled \cup lost /\ next[m] = 0 /\ m = queue[i].last_incoming
      /\ \A v \in Worker : Held(v) => cur[v] # m
  BY <1>1, <1>2 DEF QueuesHold
<1>4. m \notin freed
  BY <1>3 DEF NotUsedAfterFree
<1>5. next' = next
  BY <1>1, <1>3 DEF TypeOK
<1>6. UNCHANGED <<freed, handled, lost, fault, main>>
  BY <1>1, <1>4 DEF PullMessage, Use, history, shutdown
<1>7. queue'[i].next_incoming = 0 /\ queue'[i].last_incoming = queue[i].last_incoming
      /\ \A j \in Queue : j # i => queue'[j] = queue[j]
  BY <1>1, <1>3 DEF TypeOK
<1>8. cur'[w] = m /\ pc'[w] = "handle" /\ pc[w] = "pull"
      /\ \A v \in Worker : v # w => cur'[v] = cur[v] /\ pc'[v] = pc[v]
  BY <1>1 DEF TypeOK, PullMessage
<1>9. Held(w)' /\ ~Held(w) /\ \A v \in Worker : v # w => (Held(v)' <=> Held(v))
  BY <1>8 DEF Held
<1>10. NotUsedAfterFree'
  BY <1>6 DEF NotUsedAfterFree
<1>11. \A j \in Queue : j # i => queue[j].next_incoming # m
  BY <1>2, <1>3 DEF QueuesHold, LastsDiffer
<1>12. QueuesHold'
  BY <1>5, <1>6, <1>7, <1>8, <1>9, <1>11 DEF QueuesHold
<1>13. LastsDiffer'
  BY <1>7 DEF LastsDiffer
<1>14. WorkersHold'
  BY <1>3, <1>4, <1>5, <1>6, <1>8, <1>9 DEF WorkersHold
<1>15. NothingForgotten'
  BY <1>1, <1>5, <1>6, <1>7, <1>8 DEF NothingForgotten
<1> QED
  BY <1>10, <1>12, <1>13, <1>14, <1>15

\* A handler returns: nobody else has its message.
LEMMA KeptByHandle ==
  ASSUME TypeOK, MessagesKept, NEW w \in Worker, Handle(w)
  PROVE  MessagesKept'
<1> USE DEF MessagesKept
<1>1. pc[w] = "handle" /\ Held(w)
  BY DEF Handle, Held
<1>2. cur[w] \in DOMAIN next \ (freed \cup lost) /\ cur[w] \notin handled
      /\ \A v \in Worker : Held(v) /\ cur[v] = cur[w] => v = w
  BY <1>1 DEF WorkersHold
<1>3. UNCHANGED <<next, freed, queue, cur, lost, fault, main>> /\ handled' = handled \cup {cur[w]}
  BY <1>2 DEF Handle, Use, shutdown, history
<1>4. pc'[w] = "free" /\ \A v \in Worker : v # w => pc'[v] = pc[v]
  BY DEF Handle, TypeOK
<1>5. \A v \in Worker : Held(v)' <=> Held(v)
  BY <1>1, <1>4 DEF Held
<1>6. NotUsedAfterFree' /\ LastsDiffer'
  BY <1>2, <1>3 DEF NotUsedAfterFree, LastsDiffer
<1>7. QueuesHold'
  BY <1>1, <1>3, <1>5 DEF QueuesHold
<1>8. WorkersHold'
  BY <1>2, <1>3, <1>4, <1>5 DEF WorkersHold
<1>9. NothingForgotten'
  BY <1>2, <1>3, <1>4 DEF NothingForgotten
<1> QED
  BY <1>6, <1>7, <1>8, <1>9

\* The loop frees a message that was handled.
LEMMA KeptByFree ==
  ASSUME TypeOK, MessagesKept, NEW w \in Worker, FreeMessage(w)
  PROVE  MessagesKept'
<1> USE DEF MessagesKept
<1>1. pc[w] = "free" /\ Held(w)
  BY DEF FreeMessage, Held
<1>2. cur[w] \in DOMAIN next \ (freed \cup lost) /\ cur[w] \in handled
      /\ \A v \in Worker : Held(v) /\ cur[v] = cur[w] => v = w
  BY <1>1 DEF WorkersHold
<1>3. UNCHANGED <<next, queue, handled, lost, fault, main>> /\ freed' = freed \cup {cur[w]}
  BY <1>2 DEF FreeMessage, Use, shutdown, history
<1>4. pc'[w] = "pull" /\ \A v \in Worker : v # w => pc'[v] = pc[v] /\ cur'[v] = cur[v]
  BY DEF FreeMessage, TypeOK
<1>5. ~Held(w)' /\ \A v \in Worker : v # w => (Held(v)' <=> Held(v))
  BY <1>4 DEF Held
<1>6. NotUsedAfterFree' /\ LastsDiffer'
  BY <1>2, <1>3 DEF NotUsedAfterFree, LastsDiffer
<1>7. QueuesHold'
  BY <1>3, <1>4, <1>5 DEF QueuesHold
<1>8. WorkersHold'
  BY <1>2, <1>3, <1>4, <1>5 DEF WorkersHold
<1>9. NothingForgotten'
  BY <1>1, <1>3, <1>4 DEF NothingForgotten
<1> QED
  BY <1>6, <1>7, <1>8, <1>9

\* workload_queue_add replaces what the queue held; no other queue and no worker had it, and
\* the message it links through last_incoming is in no other queue.
LEMMA KeptByAdd ==
  ASSUME TypeOK, MessagesKept, NEW c \in Client, HandOver(c)
  PROVE  MessagesKept'
<1> USE DEF MessagesKept
<1> DEFINE m == Len(next) + 1
<1>1. PICK i \in Queue :
        /\ next' = LinkLast(Append(next, 0), queue[i].last_incoming, m)
        /\ queue' = QueueAfterAdd(i, m)
        /\ lost' = lost \cup ({queue[i].next_incoming} \ {0})
        /\ fault' \in AfterDangling(queue[i].last_incoming)
        /\ Signal(i)
  BY DEF HandOver
<1>2. \A j \in Queue : queue[j].last_incoming \in Pointer /\ queue[j].next_incoming \in Pointer
  BY DEF TypeOK
<1> HIDE DEF m
<1>3. /\ DOMAIN next' = DOMAIN next \cup {m} /\ m \notin DOMAIN next /\ m # 0
      /\ \A x \in DOMAIN next : next'[x] = IF x = queue[i].last_incoming THEN m ELSE next[x]
      /\ next'[m] = 0
  BY <1>1, <1>2, LinkEffect DEF m
<1>4. queue'[i].next_incoming = m /\ queue'[i].last_incoming = m
      /\ \A j \in Queue : j # i => queue'[j] = queue[j]
  BY <1>1 DEF QueueAfterAdd, TypeOK
<1>5. UNCHANGED <<freed, cur, handled, main>> /\ main = "poll" /\ fault' # "use_after_free"
  BY <1>1 DEF HandOver, AfterDangling, shutdown, history
<1>6. /\ \A w \in Worker : Held(w)' <=> Held(w)
      /\ \A w \in Worker : Held(w) => pc'[w] = pc[w]
  BY <1>1, SignalEffect DEF Held
<1>7. m \notin freed \cup handled \cup lost
  BY <1>3 DEF TypeOK, Pointer
<1>8. \A j \in Queue : m # queue[j].last_incoming /\ m # queue[j].next_incoming
  BY <1>2, <1>3 DEF Pointer
<1>9. \A j \in Queue : j # i /\ queue[j].next_incoming # 0 =>
        /\ queue[j].next_incoming # queue[i].last_incoming
        /\ queue[j].next_incoming # queue[i].next_incoming
  BY DEF QueuesHold, LastsDiffer
<1>10. queue[i].next_incoming # 0 =>
        queue[i].next_incoming \notin handled /\ \A w \in Worker : Held(w) => cur[w] # queue[i].next_incoming
  BY DEF QueuesHold
<1>11. NotUsedAfterFree'
  BY <1>1, <1>5, <1>10 DEF NotUsedAfterFree
<1>12. \A w \in Worker : Held(w) => cur[w] # m
  BY <1>3 DEF WorkersHold
<1>13. QueuesHold'
  <2> SUFFICES ASSUME NEW j \in Queue, queue'[j].next_incoming # 0
               PROVE  LET x == queue'[j].next_incoming IN
                        /\ x \in DOMAIN next' \ (handled' \cup lost')
                        /\ next'[x] = 0 /\ x = queue'[j].last_incoming
                        /\ \A w \in Worker : Held(w)' => cur'[w] # x
    BY DEF QueuesHold
  <2>1. CASE j = i
    BY <1>1, <1>3, <1>4, <1>5, <1>6, <1>7, <1>8, <1>12, <2>1
  <2>2. CASE j # i
    <3> DEFINE x == queue[j].next_incoming
    <3>1. /\ x \in DOMAIN next \ (handled \cup lost) /\ next[x] = 0
          /\ x = queue[j].last_incoming /\ \A w \in Worker : Held(w) => cur[w] # x
      BY <1>4, <2>2 DEF QueuesHold
    <3>2. x # queue[i].last_incoming /\ x # queue[i].next_incoming
      BY <1>4, <1>9, <2>2
    <3>3. x = queue'[j].next_incoming /\ x = queue'[j].last_incoming
      BY <1>4, <2>2, <3>1
    <3> HIDE DEF x
    <3>4. next'[x] = 0 /\ x \notin lost' /\ x \notin handled' /\ x \in DOMAIN next'
      BY <1>1, <1>3, <1>5, <3>1, <3>2
    <3> QED
      BY <1>5, <1>6, <3>1, <3>3, <3>4
  <2> QED
    BY <2>1, <2>2
<1>14. LastsDiffer'
  BY <1>4, <1>8 DEF LastsDiffer
<1>15. WorkersHold'
  BY <1>1, <1>3, <1>5, <1>6, <1>10 DEF WorkersHold
<1>16. NothingForgotten'
  <2> SUFFICES ASSUME NEW x \in DOMAIN next' \ (handled' \cup lost')
               PROVE  \/ \E j \in Queue : queue'[j].next_incoming = x
                      \/ \E w \in Worker : pc'[w] = "handle" /\ cur'[w] = x
    BY DEF NothingForgotten
  <2>1. CASE x = m
    BY <1>4, <2>1
  <2>2. CASE x # m
    <3>1. x \in DOMAIN next \ (handled \cup lost) /\ x # 0
      BY <1>1, <1>3, <1>5, <2>2 DEF TypeOK
    <3>2. x # queue[i].next_incoming
      BY <1>1, <3>1
    <3>3. \/ \E j \in Queue : queue[j].next_incoming = x
          \/ \E w \in Worker : pc[w] = "handle" /\ cur[w] = x
      BY <1>5, <3>1 DEF NothingForgotten
    <3> QED
      BY <1>4, <1>5, <1>6, <3>2, <3>3 DEF Held
  <2> QED
    BY <2>1, <2>2
<1> QED
  BY <1>11, <1>13, <1>14, <1>15, <1>16

\* Closing the queues at the end: nothing is left to be forgotten.
LEMMA KeptByJoin ==
  ASSUME TypeOK, MessagesKept, JoinWorkers
  PROVE  MessagesKept'
<1> USE DEF MessagesKept
<1>1. UNCHANGED <<next, freed, cur, pc, handled, lost, fault>> /\ main' = "done"
  BY DEF JoinWorkers, threads, history
<1>2. \A i \in Queue : queue'[i].next_incoming = 0 /\ queue'[i].last_incoming = queue[i].last_incoming
  BY DEF JoinWorkers, TypeOK
<1>3. \A w \in Worker : Held(w)' <=> Held(w)
  BY <1>1 DEF Held
<1>4. NotUsedAfterFree' /\ QueuesHold' /\ LastsDiffer'
  BY <1>1, <1>2 DEF NotUsedAfterFree, QueuesHold, LastsDiffer
<1>5. WorkersHold' /\ NothingForgotten'
  BY <1>1, <1>3 DEF WorkersHold, NothingForgotten
<1> QED
  BY <1>4, <1>5

\* Every step keeps the messages.
LEMMA KeptStep ==
  ASSUME TypeOK, MessagesKept, [Next]_vars
  PROVE  MessagesKept'
<1>0. fault # "use_after_free"
  BY DEF MessagesKept, NotUsedAfterFree
<1>1. ASSUME NEW w \in Worker, Start(w) PROVE MessagesKept'
  BY <1>0, <1>1, KeptByOthers DEF Start, TypeOK
<1>2. ASSUME NEW w \in Worker, PullEmpty(w) PROVE MessagesKept'
  BY <1>0, <1>2, KeptByOthers DEF PullEmpty, TypeOK
<1>3. ASSUME NEW w \in Worker, CondWait(w) \/ SpuriousWakeup(w) PROVE MessagesKept'
  BY <1>0, <1>3, KeptByOthers DEF CondWait, SpuriousWakeup, TypeOK
<1>4. ASSUME NEW w \in Worker, KeepMutex(w) \/ Crash(w) PROVE MessagesKept'
  BY <1>0, <1>4, KeptByOthers DEF KeepMutex, Crash
<1>5. ASSUME NEW c \in Client, Disconnect(c) PROVE MessagesKept'
  BY <1>0, <1>5, KeptByOthers DEF Disconnect
<1>6. CASE SoftSignal \/ HardSignal \/ LeaveLoop \/ PollFails \/ Terminated \/ UNCHANGED vars
  BY <1>0, <1>6, KeptByOthers
     DEF SoftSignal, HardSignal, LeaveLoop, PollFails, Terminated, vars
<1>7. CASE SignalQueue
  <2>1. signalled \in Queue /\ Signal(signalled)
    BY <1>7 DEF SignalQueue, TypeOK
  <2>2. \A w \in Worker : \/ pc'[w] = pc[w]
                          \/ pc[w] \notin {"handle", "free"} /\ pc'[w] \notin {"handle", "free"}
    BY <2>1, SignalEffect
  <2> QED
    BY <1>0, <1>7, <2>2, KeptByOthers DEF SignalQueue
<1> QED
  BY <1>1, <1>2, <1>3, <1>4, <1>5, <1>6, <1>7, KeptByPull, KeptByHandle, KeptByFree, KeptByAdd,
     KeptByJoin
     DEF Next, WorkerStep, MainStep

\* The list of a queue that holds a message is that message.
LEMMA QueueIsOneMessage ==
  ASSUME TypeOK, QueuesHold, NEW i \in Queue
  PROVE  InQueue(i) = {queue[i].next_incoming} \ {0}
<1> DEFINE N == Len(next)
           first == queue[i].next_incoming
           reach[n \in 0 .. N] ==
             IF n = 0 THEN first ELSE IF reach[n - 1] = 0 THEN 0 ELSE next[reach[n - 1]]
           step == [n \in 1 .. N |-> [x \in Pointer |-> IF x = 0 THEN 0 ELSE next[x]]]
<1>1. N \in Nat /\ DOMAIN next = 1 .. N /\ first \in Pointer
  BY DEF TypeOK
<1>2. step \in [1 .. N -> [Pointer -> Pointer]]
  BY DEF TypeOK, Pointer
<1>3. PICK g : RecursionRule(Pointer, first, step, N, g)
  <2> HIDE DEF step, first, N
  <2> QED
    BY <1>1, <1>2, Recursion
<1>4. /\ DOMAIN g = 0 .. N /\ g \in [0 .. N -> Pointer] /\ g[0] = first
      /\ \A n \in 1 .. N : g[n] = step[n][g[n - 1]]
  BY <1>3 DEF RecursionRule
<1>5. \A n \in 1 .. N : n - 1 \in 0 .. N
  BY <1>1
<1>6. \A n \in 1 .. N : g[n] = IF g[n - 1] = 0 THEN 0 ELSE next[g[n - 1]]
  BY <1>4, <1>5
<1>7. \A n \in 0 .. N : g[n] = IF n = 0 THEN first
                              ELSE IF g[n - 1] = 0 THEN 0 ELSE next[g[n - 1]]
  BY <1>1, <1>4, <1>6
<1>8. g = [n \in 0 .. N |-> IF n = 0 THEN first
                            ELSE IF g[n - 1] = 0 THEN 0 ELSE next[g[n - 1]]]
  BY <1>4, <1>7
<1>9. reach = [n \in 0 .. N |-> IF n = 0 THEN first
                               ELSE IF reach[n - 1] = 0 THEN 0 ELSE next[reach[n - 1]]]
  BY <1>8
<1>10. \A n \in 0 .. N : reach[n] = IF n = 0 THEN first
                         ELSE IF reach[n - 1] = 0 THEN 0 ELSE next[reach[n - 1]]
  BY <1>9
<1>11. DOMAIN reach = 0 .. N
  BY <1>9
<1>12. InQueue(i) = {reach[n] : n \in DOMAIN reach} \ {0}
  BY DEF InQueue
<1> HIDE DEF reach
<1>13. PICK f : f = reach
  OBVIOUS
<1>14. first # 0 => next[first] = 0
  BY DEF QueuesHold
<1> HIDE DEF first, N
<1> DEFINE S == {n \in 0 .. N : IF n = 0 THEN f[n] = first ELSE f[n] = 0}
<1>15. 0 \in S
  BY <1>1, <1>10, <1>13
<1>16. ASSUME NEW n \in 1 .. N, n - 1 \in S PROVE n \in S
  <2>1. n \in 0 .. N /\ n # 0 /\ f[n - 1] \in {0, first}
    BY <1>1, <1>16
  <2>2. f[n] = IF f[n - 1] = 0 THEN 0 ELSE next[f[n - 1]]
    BY <1>10, <1>13, <2>1
  <2>3. f[n] = 0
    BY <1>14, <2>1, <2>2
  <2> QED
    BY <2>1, <2>3
<1>17. 0 .. N \subseteq S
  <2> HIDE DEF S
  <2> QED
    BY <1>1, <1>15, <1>16, UpTo
<1>18. InQueue(i) = {f[n] : n \in 0 .. N} \ {0} /\ 0 \in 0 .. N
  BY <1>1, <1>11, <1>12, <1>13
<1> QED
  BY <1>17, <1>18 DEF first

\* What is kept is accounted for.
LEMMA KeptIsAccounted == TypeOK /\ MessagesKept => RequestsAccounted
<1> SUFFICES ASSUME TypeOK, MessagesKept PROVE RequestsAccounted
  OBVIOUS
<1> USE DEF MessagesKept
<1>1. \A i \in Queue : InQueue(i) = {queue[i].next_incoming} \ {0}
  BY QueueIsOneMessage
<1> SUFFICES ASSUME main # "done", NEW m \in DOMAIN next
             PROVE  \/ /\ m \in handled \/ m \in lost
                       /\ ~(m \in handled /\ m \in lost)
                       /\ QueuesOf(m) = {} /\ HandlersOf(m) = {}
                    \/ /\ m \notin handled \cup lost
                       /\ \/ HandlersOf(m) = {} /\ \E i \in Queue : QueuesOf(m) = {i}
                          \/ QueuesOf(m) = {} /\ \E w \in Worker : HandlersOf(m) = {w}
  BY DEF RequestsAccounted, NotUsedAfterFree
<1>2. m # 0
  BY DEF TypeOK
<1>3. QueuesOf(m) = {i \in Queue : queue[i].next_incoming = m}
  BY <1>1, <1>2 DEF QueuesOf
<1>4. CASE m \in handled \cup lost
  <2>1. QueuesOf(m) = {}
    BY <1>2, <1>3, <1>4 DEF QueuesHold
  <2>2. HandlersOf(m) = {}
    BY <1>4 DEF HandlersOf, WorkersHold, Held
  <2> QED
    BY <1>4, <2>1, <2>2 DEF NotUsedAfterFree
<1>5. CASE m \notin handled \cup lost
  <2>1. ASSUME NEW i \in Queue, queue[i].next_incoming = m
        PROVE  HandlersOf(m) = {} /\ QueuesOf(m) = {i}
    <3>1. HandlersOf(m) = {}
      BY <1>2, <2>1 DEF HandlersOf, QueuesHold, Held
    <3>2. ASSUME NEW j \in Queue, queue[j].next_incoming = m PROVE j = i
      BY <1>2, <2>1, <3>2 DEF QueuesHold, LastsDiffer
    <3> QED
      BY <1>3, <2>1, <3>1, <3>2
  <2>2. ASSUME NEW w \in Worker, pc[w] = "handle", cur[w] = m
        PROVE  QueuesOf(m) = {} /\ HandlersOf(m) = {w}
    <3>1. QueuesOf(m) = {}
      BY <1>2, <1>3, <2>2 DEF QueuesHold, Held
    <3>2. HandlersOf(m) = {w}
      BY <2>2 DEF HandlersOf, WorkersHold, Held
    <3> QED
      BY <3>1, <3>2
  <2> QED
    BY <1>5, <2>1, <2>2 DEF NothingForgotten
<1> QED
  BY <1>4, <1>5

\* Every request that was handed over was handled once or replaced in its queue, or waits in
\* one queue, or is in the hands of one worker, and no message is used after it was freed
\* (workload_queue_add, workload_queue_pull, worker_entry_point), whatever the numbers of
\* workers and clients and whenever the clients send.
THEOREM EveryRequestIsAccountedFor == Spec => []RequestsAccounted
<1> DEFINE Inv == SleepInv /\ MessagesKept
<1>1. Init => Inv
  BY SleepInvInit, KeptInit
<1>2. Inv /\ [Next]_vars => Inv'
  BY SleepInvStep, KeptStep DEF SleepInv
<1>3. Inv => RequestsAccounted
  BY KeptIsAccounted DEF SleepInv
<1> QED
  BY <1>1, <1>2, <1>3, PTL DEF Spec

-----------------------------------------------------------------------------
(* The end of the server. *)

\* When all threads have their numbers, every queue belongs to one of them.
LEMMA EveryQueueIsServed ==
  ASSUME SleepInv, \A w \in Worker : pc[w] # "start", NEW i \in Queue
  PROVE  \E w \in Worker : id[w] = i
<1>1. id \in Injection(Worker, Queue)
  <2>1. id \in [Worker -> Queue]
    BY DEF SleepInv, TypeOK
  <2>2. \A v, w \in Worker : id[v] = id[w] => v = w
    BY DEF SleepInv, ThreadsNumbered
  <2> QED
    BY <2>1, <2>2 DEF Injection, IsInjective
<1>2. IsFiniteSet(Queue) /\ Cardinality(Queue) = Cardinality(Worker)
  <2>1. 0 \in Int /\ NumWorkers - 1 \in Int /\ ~(0 > NumWorkers - 1)
    BY WorkloadQueueAssumption
  <2>2. IsFiniteSet(0 .. NumWorkers - 1) /\ Cardinality(0 .. NumWorkers - 1) = NumWorkers - 1 - 0 + 1
    BY <2>1, FS_Interval
  <2> QED
    BY <2>2, WorkloadQueueAssumption DEF Queue
<1>3. id \in Surjection(Worker, Queue)
  BY <1>1, <1>2, FS_Injection
<1> QED
  BY <1>3 DEF Surjection

\* A worker ends only after the main thread has left its loop, when nobody adds messages any
\* more, and with an empty queue.
LEMMA DrainedStep ==
  ASSUME SleepInv, MessagesKept, Drained, Calm, [Next]_vars
  PROVE  Drained'
<1> USE DEF SleepInv, Drained
<1>1. ASSUME UNCHANGED <<queue, id, main, next, lost>>, handled \subseteq handled',
             \A w \in Worker : pc'[w] = "exited" => pc[w] = "exited"
      PROVE  Drained'
  BY <1>1
<1>2. ASSUME NEW w \in Worker, Start(w) PROVE Drained'
  <2>1. \A v \in Worker : pc'[v] = "exited" => pc[v] = "exited" /\ id'[v] = id[v]
    BY <1>2 DEF Start, TypeOK
  <2> QED
    BY <1>2, <2>1 DEF Start
<1>3. ASSUME NEW w \in Worker, PullMessage(w) PROVE Drained'
  <2>1. PICK i \in Queue, m \in DOMAIN next :
          /\ i = id[w] /\ m = queue[i].next_incoming
          /\ next' = [next EXCEPT ![m] = 0]
          /\ queue' = [queue EXCEPT ![i] = [next_incoming |-> next[m],
                                           last_incoming |-> queue[i].last_incoming]]
          /\ cur' = [cur EXCEPT ![w] = m] /\ pc' = [pc EXCEPT ![w] = "handle"]
    BY <1>3, PullEffect
  <2>2. UNCHANGED <<id, main, handled, lost>> /\ pc[w] = "pull" /\ DOMAIN next' = DOMAIN next
    BY <1>3, <2>1 DEF PullMessage, history, shutdown
  <2>3. ASSUME NEW v \in Worker, pc'[v] = "exited" PROVE main # "poll" /\ queue'[id[v]].next_incoming = 0
    <3>1. pc[v] = "exited" /\ v # w
      BY <2>1, <2>3 DEF TypeOK
    <3>2. id[v] # i
      BY <2>1, <2>2, <3>1 DEF ThreadsNumbered
    <3>3. queue'[id[v]] = queue[id[v]]
      BY <2>1, <3>2 DEF TypeOK
    <3> QED
      BY <3>1, <3>3
  <2> QED
    BY <2>2, <2>3
<1>4. ASSUME NEW w \in Worker, PullEmpty(w) PROVE Drained'
  <2>1. CASE hard = 1
    BY <1>4, <2>1 DEF PullEmpty, TypeOK, Calm
  <2>2. CASE hard # 1
    BY <1>4, <2>2 DEF PullEmpty, TypeOK
  <2> QED
    BY <2>1, <2>2
<1>5. ASSUME NEW w \in Worker, CondWait(w) \/ SpuriousWakeup(w) \/ Handle(w) \/ FreeMessage(w)
                               \/ KeepMutex(w) \/ Crash(w)
      PROVE  Drained'
  BY <1>1, <1>5 DEF CondWait, SpuriousWakeup, Handle, FreeMessage, KeepMutex, Crash, TypeOK
<1>6. ASSUME NEW c \in Client, HandOver(c) PROVE Drained'
  <2>1. main = "poll" /\ UNCHANGED <<main, id>>
    BY <1>6 DEF HandOver
  <2>2. PICK i \in Queue : Signal(i)
    BY <1>6 DEF HandOver
  <2>3. \A w \in Worker : pc'[w] # "exited"
    BY <2>1, <2>2, SignalEffect
  <2> QED
    BY <2>1, <2>3
<1>7. CASE SignalQueue
  <2>1. signalled \in Queue /\ Signal(signalled)
    BY <1>7 DEF SignalQueue, TypeOK
  <2>2. \A w \in Worker : pc'[w] = "exited" => pc[w] = "exited"
    BY <2>1, SignalEffect
  <2> QED
    BY <1>1, <1>7, <2>2 DEF SignalQueue
<1>8. ASSUME NEW c \in Client, Disconnect(c) PROVE Drained'
  BY <1>1, <1>8 DEF Disconnect
<1>9. CASE SoftSignal \/ HardSignal \/ Terminated \/ UNCHANGED vars
  BY <1>1, <1>9 DEF SoftSignal, HardSignal, Terminated, vars
<1>10. CASE PollFails \/ LeaveLoop
  BY <1>10 DEF PollFails, LeaveLoop
<1>11. CASE JoinWorkers
  <2>1. /\ UNCHANGED <<id, next, handled, lost, pc>> /\ main' = "done" /\ main = "signal"
        /\ \A w \in Worker : pc[w] = "exited"
        /\ \A i \in Queue : queue'[i].next_incoming = 0
    BY <1>11 DEF JoinWorkers, TypeOK, threads, history
  <2>2. \A i \in Queue : queue[i].next_incoming = 0
    BY <2>1, EveryQueueIsServed
  <2>3. DOMAIN next \subseteq handled \cup lost
    BY <2>1, <2>2 DEF MessagesKept, NothingForgotten, TypeOK
  <2> QED
    BY <2>1, <2>3 DEF TypeOK
<1> QED
  BY <1>2, <1>3, <1>4, <1>5, <1>6, <1>7, <1>8, <1>9, <1>10, <1>11 DEF Next, WorkerStep, MainStep

\* If no hard signal interrupts the polling loop, no request waits in a queue when the process
\* ends: each was handled, or replaced in its queue (main.c:132-152, workload_queue_pull).
THEOREM NothingIsLeftBehind == Spec => ShutdownDrains
<1> DEFINE Inv == SleepInv /\ MessagesKept /\ Drained
           Goal == main = "done" => DOMAIN next \subseteq handled \cup lost
<1>1. Init => Inv
  <2>1. Init => Drained
    BY DEF Init, Drained
  <2> QED
    BY <2>1, SleepInvInit, KeptInit
<1>2. Inv /\ Calm /\ [Next]_vars => Inv'
  BY SleepInvStep, KeptStep, DrainedStep DEF SleepInv
<1>3. Inv => Goal
  BY DEF Drained
<1>4. Spec /\ []Calm => []Goal
  <2> HIDE DEF Inv, Goal
  <2> QED
    BY <1>1, <1>2, <1>3, PTL DEF Spec
<1> QED
  BY <1>4 DEF ShutdownDrains
=============================================================================
