------------------------------ MODULE FileStore ------------------------------
(***************************************************************************)
(* What src/src/server/htable.h promises to the workers: every request     *)
(* takes effect in one step somewhere between its call and its return, and *)
(* a write is followed by evictions, one file at a time, for as long as a  *)
(* limit of the configuration is exceeded and no longer.                   *)
(***************************************************************************)
EXTENDS FileOps

CONSTANTS
  Worker,    \* worker threads
  Request,   \* Request[w]: the requests that worker w may be given
  RunsDry    \* whether an eviction may find no victim, which ends the process

VARIABLES
  files,     \* the file under every path
  call,      \* per worker: the request that has yet to take effect
  result,    \* per worker: the result of its last request
  evicting,  \* workers whose write may have to evict
  alive      \* whether the process runs

vars == <<files, call, result, evicting, alive>>

Init ==
  /\ files = NoFiles
  /\ call = [w \in Worker |-> NULL] /\ result = [w \in Worker |-> NULL]
  /\ evicting = {} /\ alive = TRUE

\* A worker is given a request.
Invoke(w) ==
  /\ alive /\ call[w] = NULL /\ w \notin evicting
  /\ result' = [result EXCEPT ![w] = NULL]
  /\ \E r \in Request[w] : call' = [call EXCEPT ![w] = r]
  /\ UNCHANGED <<files, evicting, alive>>

\* The request takes effect.
Perform(w) ==
  /\ alive /\ call[w] # NULL
  /\ call' = [call EXCEPT ![w] = NULL]
  /\ LET o == Do(files, call[w]) IN
     /\ o.err # "exit"
     /\ files' = o.files
     /\ IF Writes(call[w].op) /\ o.err = "OK"
        THEN evicting' = evicting \cup {w} /\ UNCHANGED result
        ELSE result' = [result EXCEPT ![w] = o.err] /\ UNCHANGED evicting
  /\ UNCHANGED alive

\* htable_evict_files removes a file, locked or open though it may be.
Evict(w, k) ==
  /\ alive /\ w \in evicting /\ files[k] # NULL
  /\ files' = [files EXCEPT ![k] = NULL]
  /\ Exceeded(files)
  /\ UNCHANGED <<call, result, evicting, alive>>

EvictEnd(w) ==
  /\ alive /\ w \in evicting
  /\ evicting' = evicting \ {w}
  /\ ~Exceeded(files)
  /\ result' = [result EXCEPT ![w] = "OK"]
  /\ UNCHANGED <<files, call, alive>>

\* The process does not survive the request, or the eviction.
Fail(w) ==
  /\ alive /\ alive' = FALSE
  /\ \/ call[w] # NULL /\ Do(files, call[w]).err = "exit"
     \/ w \in evicting /\ Exceeded(files) /\ RunsDry
  /\ UNCHANGED <<files, call, result, evicting>>

Next ==
  \E w \in Worker :
    Invoke(w) \/ Perform(w) \/ (\E k \in Key : Evict(w, k)) \/ EvictEnd(w) \/ Fail(w)

Spec == Init /\ [][Next]_vars
=============================================================================
