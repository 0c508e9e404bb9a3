---------------------------- MODULE WorkloadQueue ----------------------------
(***************************************************************************)
(* The hand-over of requests from the polling loop to the worker threads   *)
(* and the shutdown of those threads: src/src/server/workload_queue.c, the *)
(* loop of worker_entry_point and workers_join in worker.c, the end of     *)
(* inner_main in main.c, hand_over_buf_to_worker in receiver.c.            *)
(*                                                                         *)
(* One step is one critical section.  A queue's mutex is in the state only *)
(* where it is kept across steps: from the check of the shutdown flag in   *)
(* workload_queue_pull, which takes no mutex of its own, to the atomic     *)
(* release in pthread_cond_wait.                                           *)
(*                                                                         *)
(* A struct Message is the number of its xmalloc, 0 the null pointer; what *)
(* it contains but the pointer to the next one does not matter here.  The  *)
(* numbers never come again: what it means that malloc uses the memory of  *)
(* a freed message for something else is in the outcomes of the write that *)
(* workload_queue_add makes through last_incoming.                         *)
(*                                                                         *)
(* A handler is one step, or never returns; the table it works on is       *)
(* module HTable, the response it writes, or does not write (a message     *)
(* without payload, an opcode without handler), is in module ServerApi.    *)
(* Nothing in the server keeps a client from sending its next request      *)
(* before it got that response, so any client that is connected may.       *)
(***************************************************************************)
EXTENDS Integers, Sequences, FiniteSets

CONSTANTS
  Worker,       \* worker threads
  NumWorkers,   \* num-workers: how many there are
  Client,       \* connected clients
  NULL,
  MaxMessages   \* bound: requests handed over in a behaviour

Queue == 0 .. NumWorkers - 1

ASSUME WorkloadQueueAssumption ==
  /\ NumWorkers \in Nat \ {0}
  /\ IsFiniteSet(Worker) /\ Cardinality(Worker) = NumWorkers /\ NULL \notin Worker
  /\ MaxMessages \in Nat

VARIABLES
  next,         \* the field next of every message allocated so far
  freed,        \* those that were freed
  queue,        \* struct WorkloadQueue: next_incoming and last_incoming
  mutex,        \* holder of a queue's mutex
  pc, id, cur,  \* per worker: next step, its queue, the message it handles
  counter,      \* thread_id_counter
  soft, hard,   \* the shutdown flags
  main,         \* what the main thread does
  signalled,    \* queues that workload_queues_cond_signal is done with
  gone,         \* clients that closed their connection
  handled,      \* history: messages a handler returned from
  lost,         \* history: messages that another one replaced in their queue
  stuck,        \* handlers may wait for ever: a mutex of the table is not given back
  fault         \* what undefined behaviour or a crash the process has met

vars == <<next, freed, queue, mutex, pc, id, cur, counter, soft, hard, main, signalled,
          gone, handled, lost, stuck, fault>>

threads == <<pc, id, cur, counter>>
shutdown == <<soft, hard, main, signalled>>
history == <<handled, lost>>

\* workload_queues_init and workers_spawn.
Init ==
  /\ next = <<>> /\ freed = {}
  /\ queue = [i \in Queue |-> [next_incoming |-> 0, last_incoming |-> 0]]
  /\ mutex = [i \in Queue |-> NULL]
  /\ pc = [w \in Worker |-> "start"] /\ id = [w \in Worker |-> 0]
  /\ cur = [w \in Worker |-> 0] /\ counter = 0
  /\ soft = 0 /\ hard = 0 /\ main = "poll" /\ signalled = 0
  /\ gone = {} /\ handled = {} /\ lost = {}
  /\ stuck = FALSE /\ fault = "none"

-----------------------------------------------------------------------------
(* The worker threads. *)

\* worker_entry_point, after its initial wait: ts_counter numbers the threads.
Start_from_one(w) ==
  /\ pc[w] = "start" /\ fault = "none"
  /\ id' = [id EXCEPT ![w] = counter + 1]
  /\ counter' = counter + 1
  /\ pc' = [pc EXCEPT ![w] = "pull"]
  /\ UNCHANGED <<next, freed, queue, mutex, cur, shutdown, gone, history, stuck, fault>>

Start(w) ==
  /\ pc[w] = "start" /\ fault = "none"
  /\ id' = [id EXCEPT ![w] = counter]
  /\ counter' = counter + 1
  /\ pc' = [pc EXCEPT ![w] = "pull"]
  /\ UNCHANGED <<next, freed, queue, mutex, cur, shutdown, gone, history, stuck, fault>>

Free(i) == mutex[i] = NULL
Empty(i) == queue[i].next_incoming = 0

\* Reading or writing a message after it was freed.
Use(m) == fault' = IF m \in freed THEN "use_after_free" ELSE fault

\* workload_queue_pull with a message at hand.
PullMessage_not_dequeued(w) ==
  /\ pc[w] = "pull" /\ Free(id[w]) /\ ~Empty(id[w]) /\ fault = "none"
  /\ LET m == queue[id[w]].next_incoming IN
       /\ cur' = [cur EXCEPT ![w] = m]
       /\ Use(m)
  /\ pc' = [pc EXCEPT ![w] = "handle"]
  /\ UNCHANGED <<next, freed, queue, mutex, id, counter, shutdown, gone, history, stuck>>

PullMessage(w) ==
  /\ pc[w] = "pull" /\ Free(id[w]) /\ ~Empty(id[w]) /\ fault = "none"
  /\ LET m == queue[id[w]].next_incoming IN
       /\ queue' = [queue EXCEPT ![id[w]].next_incoming = next[m]]
       /\ next' = [next EXCEPT ![m] = 0]
       /\ cur' = [cur EXCEPT ![w] = m]
       /\ Use(m)
  /\ pc' = [pc EXCEPT ![w] = "handle"]
  /\ UNCHANGED <<freed, mutex, id, counter, shutdown, gone, history, stuck>>

\* workload_queue_pull on an empty queue: the thread ends, or goes on to wait.
PullEmpty_ignores_shutdown(w) ==
  /\ pc[w] = "pull" /\ Free(id[w]) /\ Empty(id[w]) /\ fault = "none"
  /\ mutex' = [mutex EXCEPT ![id[w]] = w]
  /\ pc' = [pc EXCEPT ![w] = "before_wait"]
  /\ UNCHANGED <<next, freed, queue, id, cur, counter, shutdown, gone, history, stuck,
                 fault>>

PullEmpty_exits_first(w) ==
  /\ pc[w] = "pull" /\ Free(id[w]) /\ fault = "none"
  /\ \/ /\ hard = 1
        /\ pc' = [pc EXCEPT ![w] = "exited"]
        /\ UNCHANGED mutex
     \/ /\ hard = 0 /\ Empty(id[w])
        /\ pc' = [pc EXCEPT ![w] = "before_wait"]
        /\ mutex' = [mutex EXCEPT ![id[w]] = w]
  /\ UNCHANGED <<next, freed, queue, id, cur, counter, shutdown, gone, history, stuck,
                 fault>>

PullEmpty_unlocks_before_wait(w) ==
  /\ pc[w] = "pull" /\ Free(id[w]) /\ Empty(id[w]) /\ fault = "none"
  /\ pc' = [pc EXCEPT ![w] = IF hard = 1 THEN "exited" ELSE "before_wait"]
  /\ UNCHANGED <<next, freed, queue, mutex, id, cur, counter, shutdown, gone, history, stuck,
                 fault>>

PullEmpty(w) ==
  /\ pc[w] = "pull" /\ Free(id[w]) /\ Empty(id[w]) /\ fault = "none"
  /\ IF hard = 1
     THEN /\ pc' = [pc EXCEPT ![w] = "exited"]
          /\ UNCHANGED mutex
     ELSE /\ pc' = [pc EXCEPT ![w] = "before_wait"]
          /\ mutex' = [mutex EXCEPT ![id[w]] = w]
  /\ UNCHANGED <<next, freed, queue, id, cur, counter, shutdown, gone, history, stuck,
                 fault>>

\* pthread_cond_wait gives the mutex back and blocks, atomically.
CondWait(w) ==
  /\ pc[w] = "before_wait" /\ fault = "none"
  /\ mutex' = [mutex EXCEPT ![id[w]] = NULL]
  /\ pc' = [pc EXCEPT ![w] = "wait"]
  /\ UNCHANGED <<next, freed, queue, id, cur, counter, shutdown, gone, history, stuck,
                 fault>>

\* pthread_cond_wait may return without a signal.
SpuriousWakeup(w) ==
  /\ pc[w] = "wait" /\ fault = "none"
  /\ pc' = [pc EXCEPT ![w] = "pull"]
  /\ UNCHANGED <<next, freed, queue, mutex, id, cur, counter, shutdown, gone, history, stuck,
                 fault>>

\* worker_handle_message returns.
Handle(w) ==
  /\ pc[w] = "handle" /\ fault = "none"
  /\ handled' = handled \cup {cur[w]}
  /\ Use(cur[w])
  /\ pc' = [pc EXCEPT ![w] = "free"]
  /\ UNCHANGED <<next, freed, queue, mutex, id, cur, counter, shutdown, gone, lost, stuck>>

\* From here on handlers may wait for ever, for a mutex that this one does not give back: a
\* visit that reaches the end of a list or fails to write keeps a bucket's (htable.c:504-510,
\* worker.c:115-118), and an eviction that competes with another worker may spin with the
\* counters' (htable.c:637-664).
KeepMutex(w) ==
  /\ pc[w] = "handle" /\ ~stuck /\ fault = "none"
  /\ stuck' = TRUE
  /\ UNCHANGED <<next, freed, queue, mutex, threads, shutdown, gone, history, fault>>

\* A handler ends the process: exit in xrealloc, a failed assertion, a null pointer.
Crash(w) ==
  /\ pc[w] = "handle" /\ fault = "none"
  /\ fault' = "crash"
  /\ UNCHANGED <<next, freed, queue, mutex, threads, shutdown, gone, history, stuck>>

\* The loop frees the message.
FreeMessage(w) ==
  /\ pc[w] = "free" /\ fault = "none"
  /\ freed' = freed \cup {cur[w]}
  /\ Use(cur[w])
  /\ cur' = [cur EXCEPT ![w] = 0]
  /\ pc' = [pc EXCEPT ![w] = "pull"]
  /\ UNCHANGED <<next, queue, mutex, id, counter, shutdown, gone, history, stuck>>

-----------------------------------------------------------------------------
(* The main thread. *)

\* pthread_cond_signal: the waiters of the queue, one of which is woken.
Waiters(i) == {w \in Worker : pc[w] = "wait" /\ id[w] = i}

Signal_nobody(i) == UNCHANGED pc

Signal(i) ==
  IF Waiters(i) = {}
  THEN UNCHANGED pc
  ELSE \E w \in Waiters(i) : pc' = [pc EXCEPT ![w] = "pull"]

\* workload_queue_add links the message that was added before, whatever became of it.
LinkLast(links, last, m) ==
  IF last = 0 THEN links ELSE [links EXCEPT ![last] = m]

\* The queue after workload_queue_add: both ends point to the new message.
QueueAfterAdd(i, m) ==
  [queue EXCEPT ![i] = [next_incoming |-> m, last_incoming |-> m]]

\* The write through last_incoming when that message was freed: its memory is free, and
\* nothing reads what is written there, or malloc has given it out again.
AfterDangling(last) == IF last \in freed THEN {"none", "wild_write"} ELSE {"none"}

\* receiver_poll has read a full request of client c: hand_over_buf_to_worker picks a
\* queue with rand() and calls workload_queue_add.
HandOver(c) ==
  /\ main = "poll" /\ c \notin gone /\ fault = "none"
  /\ Len(next) < MaxMessages
  /\ \E i \in Queue :
       LET m == Len(next) + 1
           last == queue[i].last_incoming
       IN  /\ Free(i)
           /\ next' = LinkLast(Append(next, 0), last, m)
           /\ queue' = QueueAfterAdd(i, m)
           /\ lost' = lost \cup ({queue[i].next_incoming} \ {0})
           /\ fault' \in AfterDangling(last)
           /\ Signal(i)
  /\ UNCHANGED <<freed, mutex, id, cur, counter, shutdown, gone, handled, stuck>>

\* A client closes its connection, or is killed while it waits.
Disconnect(c) ==
  /\ c \notin gone /\ fault = "none"
  /\ gone' = gone \cup {c}
  /\ UNCHANGED <<next, freed, queue, mutex, threads, shutdown, history, stuck, fault>>

\* The signal handlers.
SoftSignal ==
  /\ soft = 0 /\ main = "poll" /\ fault = "none"
  /\ soft' = 1
  /\ UNCHANGED <<next, freed, queue, mutex, threads, hard, main, signalled, gone, history,
                 stuck, fault>>

HardSignal ==
  /\ hard = 0 /\ main = "poll" /\ fault = "none"
  /\ hard' = 1
  /\ UNCHANGED <<next, freed, queue, mutex, threads, soft, main, signalled, gone, history,
                 stuck, fault>>

\* The polling loop ends after a hard signal, or after a soft one when all clients are
\* gone; main calls shutdown_hard and workers_join.
LeaveLoop ==
  /\ main = "poll" /\ fault = "none"
  /\ hard = 1 \/ (soft = 1 /\ gone = Client)
  /\ hard' = 1 /\ main' = "signal"
  /\ UNCHANGED <<next, freed, queue, mutex, threads, soft, signalled, gone, history,
                 stuck, fault>>

\* poll fails for another reason than a signal.
PollFails ==
  /\ main = "poll" /\ hard = 0 /\ soft = 0 /\ fault = "none"
  /\ hard' = 1 /\ main' = "signal"
  /\ UNCHANGED <<next, freed, queue, mutex, threads, soft, signalled, gone, history,
                 stuck, fault>>

\* workload_queues_cond_signal, one queue at a time.
SignalQueue ==
  /\ main = "signal" /\ signalled < NumWorkers /\ Free(signalled) /\ fault = "none"
  /\ Signal(signalled)
  /\ signalled' = signalled + 1
  /\ UNCHANGED <<next, freed, queue, mutex, id, cur, counter, soft, hard, main, gone,
                 history, stuck, fault>>

\* pthread_join on every thread, then workload_queues_free.
JoinWorkers ==
  /\ main = "signal" /\ signalled = NumWorkers /\ fault = "none"
  /\ \A w \in Worker : pc[w] = "exited"
  /\ main' = "done"
  /\ queue' = [i \in Queue |-> [queue[i] EXCEPT !.next_incoming = 0]]
  /\ UNCHANGED <<next, freed, mutex, threads, soft, hard, signalled, gone, history, stuck,
                 fault>>

Terminated == (main = "done" \/ fault # "none") /\ UNCHANGED vars

-----------------------------------------------------------------------------
WorkerStep(w) ==
  \/ Start(w) \/ PullMessage(w) \/ PullEmpty(w) \/ CondWait(w)
  \/ Handle(w) \/ FreeMessage(w)

MainStep == LeaveLoop \/ SignalQueue \/ JoinWorkers

Next ==
  \/ \E w \in Worker : WorkerStep(w) \/ SpuriousWakeup(w) \/ KeepMutex(w) \/ Crash(w)
  \/ \E c \in Client : HandOver(c) \/ Disconnect(c)
  \/ SoftSignal \/ HardSignal \/ PollFails
  \/ MainStep
  \/ Terminated

Spec == Init /\ [][Next]_vars

\* Every thread that can go on does: the scheduler runs all of them, no critical section of
\* a queue blocks, and a handler returns unless it may wait for a mutex of the table that is
\* not given back; clients read what they are sent.  Neither signals, requests nor wake-ups
\* without a signal have to happen.
FairSpec ==
  /\ Spec
  /\ \A w \in Worker : WF_vars(WorkerStep(w) /\ (pc[w] = "handle" => ~stuck))
  /\ WF_vars(MainStep)
=============================================================================
