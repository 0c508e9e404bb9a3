------------------------- MODULE WorkloadQueueProps -------------------------
(***************************************************************************)
(* What the workload queues promise, for module WorkloadQueue.             *)
(***************************************************************************)
EXTENDS WorkloadQueue

\* Every variable stays within its type, and every pointer is null or a message.
Pointer == DOMAIN next \cup {0}

TypeOK ==
  /\ next \in Seq(Nat) /\ \A m \in DOMAIN next : next[m] \in Pointer
  /\ queue \in [Queue -> [next_incoming: Pointer, last_incoming: Pointer]]
  /\ mutex \in [Queue -> Worker \cup {NULL}]
  /\ pc \in [Worker -> {"start", "pull", "before_wait", "wait", "handle", "free", "exited"}]
  /\ id \in [Worker -> Queue] /\ cur \in [Worker -> Pointer]
  /\ counter \in 0 .. NumWorkers
  /\ soft \in {0, 1} /\ hard \in {0, 1}
  /\ main \in {"poll", "signal", "done"} /\ signalled \in 0 .. NumWorkers
  /\ gone \subseteq Client
  /\ freed \subseteq Pointer /\ handled \subseteq Pointer /\ lost \subseteq Pointer
  /\ stuck \in BOOLEAN
  /\ fault \in {"none", "use_after_free", "wild_write", "crash"}

\* No lost wake-up: while a worker sleeps in workload_queue_pull its queue is empty, and
\* the shutdown it did not see when it checked the flag still has to signal its queue
\* (workload_queue.c:48-57 against :75-84 and :88-97).
NoLostWakeup ==
  \A w \in Worker :
    pc[w] = "wait" => /\ Empty(id[w])
                      /\ main # "poll" => main = "signal" /\ signalled <= id[w]

\* What makes NoLostWakeup inductive: threads have queues of their own, the main thread
\* signals only after it set the flag, and a worker on its way to sleep holds the mutex.
Unnumbered == {w \in Worker : pc[w] = "start"}

ThreadsNumbered ==
  /\ Cardinality(Unnumbered) = NumWorkers - counter
  /\ \A w \in Worker : pc[w] # "start" => id[w] < counter
  /\ \A v, w \in Worker : pc[v] # "start" /\ pc[w] # "start" /\ id[v] = id[w] => v = w

AboutToSleep ==
  /\ IF main = "poll" THEN signalled = 0 ELSE hard = 1
  /\ \A w \in Worker :
       pc[w] = "before_wait" => /\ mutex[id[w]] = w /\ Empty(id[w])
                                /\ main # "poll" => main = "signal" /\ signalled <= id[w]

SleepInv == TypeOK /\ ThreadsNumbered /\ AboutToSleep /\ NoLostWakeup

\* The messages that can be reached in a queue, and those that workers handle.
InQueue(i) ==
  LET reach[n \in 0 .. Len(next)] ==
        IF n = 0 THEN queue[i].next_incoming
        ELSE IF reach[n - 1] = 0 THEN 0 ELSE next[reach[n - 1]]
  IN  {reach[n] : n \in DOMAIN reach} \ {0}

QueuesOf(m) == {i \in Queue : m \in InQueue(i)}
HandlersOf(m) == {w \in Worker : pc[w] = "handle" /\ cur[w] = m}

\* Every request that was handed over is handled once, unless another one replaced it in its
\* queue while it waited (workload_queue.c:75): it was handled, or lost, and nobody will see
\* it again, or it waits in one queue, or one worker has it.  For as long as the write through
\* a dangling last_incoming (workload_queue.c:78) hits nothing, no message is used after it
\* was freed (worker.c:358-360).
RequestsAccounted ==
  /\ fault # "use_after_free"
  /\ fault = "none" /\ main # "done" =>
       \A m \in DOMAIN next :
         \/ /\ m \in handled \/ m \in lost
            /\ ~(m \in handled /\ m \in lost)
            /\ QueuesOf(m) = {} /\ HandlersOf(m) = {}
         \/ /\ m \notin handled \cup lost
            /\ \/ HandlersOf(m) = {} /\ \E i \in Queue : QueuesOf(m) = {i}
               \/ QueuesOf(m) = {} /\ \E w \in Worker : HandlersOf(m) = {w}

\* What makes it inductive: a queue holds at most one message, the last one that was added;
\* no other queue and no worker has it; what a worker has, no other worker has; and nothing
\* is forgotten.
NotUsedAfterFree ==
  fault # "use_after_free" /\ freed \subseteq handled /\ handled \cap lost = {}

Held(w) == pc[w] \in {"handle", "free"}

QueuesHold ==
  \A i \in Queue : LET m == queue[i].next_incoming IN
    m # 0 => /\ m \in DOMAIN next \ (handled \cup lost)
             /\ next[m] = 0 /\ m = queue[i].last_incoming
             /\ \A w \in Worker : Held(w) => cur[w] # m

LastsDiffer ==
  \A i, j \in Queue :
    queue[i].last_incoming = queue[j].last_incoming => i = j \/ queue[i].last_incoming = 0

WorkersHold ==
  /\ \A w \in Worker : Held(w) => /\ cur[w] \in DOMAIN next \ (freed \cup lost)
                                  /\ pc[w] = "handle" <=> cur[w] \notin handled
  /\ \A v, w \in Worker : Held(v) /\ Held(w) /\ cur[v] = cur[w] => v = w

NothingForgotten ==
  main # "done" => \A m \in DOMAIN next \ (handled \cup lost) :
                     \/ \E i \in Queue : queue[i].next_incoming = m
                     \/ \E w \in Worker : pc[w] = "handle" /\ cur[w] = m

MessagesKept ==
  NotUsedAfterFree /\ QueuesHold /\ LastsDiffer /\ WorkersHold /\ NothingForgotten

\* "Appends `msg` to the workload queue" (workload_queue.h:20): a request that was handed
\* over and not handled is in some queue or in the hands of a worker.
RequestNotLost ==
  main # "done" /\ fault = "none" =>
    \A m \in DOMAIN next \ handled : QueuesOf(m) # {} \/ HandlersOf(m) # {}

\* Unless a hard signal interrupts the polling loop, every request that was handed over, and
\* not replaced in its queue, is handled before the process ends, the requests of clients that
\* left included (main.c:132-152, workload_queue.c:48-57).
Calm == hard = 1 => main # "poll"

ShutdownDrains == []Calm => [](main = "done" => DOMAIN next \subseteq handled \cup lost)

\* What makes it inductive: as nobody adds messages any more once a worker has ended, the queue
\* that it found empty stays empty.
Drained ==
  /\ \A w \in Worker : pc[w] = "exited" => main # "poll" /\ Empty(id[w])
  /\ main = "done" => DOMAIN next \subseteq handled \cup lost

\* The process has crashed, or handlers wait for a mutex of the table that is never given back.
Hindered == fault # "none" \/ stuck

\* Once the main thread leaves its loop all workers end and are joined (main.c:150-152,
\* workload_queue.c:88-97).
ShutdownCompletes == main = "signal" ~> (main = "done" \/ Hindered)

\* Every request that was handed over is handled in the end, also if the worker that gets it
\* sleeps, unless it is replaced in its queue, or a hard signal comes while the polling loop
\* still adds messages (workload_queue.c:48-57, :84).
RequestsHandled ==
  []Calm => \A m \in 1 .. MaxMessages :
              m \in DOMAIN next ~> (m \in handled \cup lost \/ Hindered)
=============================================================================
