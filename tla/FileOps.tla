------------------------------- MODULE FileOps -------------------------------
(***************************************************************************)
(* What one request does to the stored files when nothing else happens     *)
(* meanwhile: the functions of src/src/server/htable.c as functions on a   *)
(* map from paths to files, without buckets, lists, mutexes or counters.   *)
(*                                                                         *)
(* FileStore makes a concurrent specification of them, which HTable        *)
(* implements; ServerApi and Client use them as the storage behind the     *)
(* protocol and behind the client program.                                 *)
(***************************************************************************)
EXTENDS Integers, Sequences, FiniteSets, FiniteSetsExt

CONSTANTS
  Fd,        \* descriptors of client connections
  Key,       \* paths
  MaxItems,  \* max-files
  MaxSpace,  \* max-storage
  NULL

\* struct File; `contents' says whether the buffer was ever allocated, subs lists the
\* subscribers, newest first.
File == [length_in_bytes: Nat, contents: BOOLEAN, fd_owner: Fd, is_open: BOOLEAN,
         is_locked: BOOLEAN, subs: Seq(Fd)]

Files == [Key -> File \cup {NULL}]
NoFiles == [k \in Key |-> NULL]

Stored(f) == {k \in Key : f[k] # NULL}

\* The members of enum HTableError that are returned, and the end of the process.
HTableError == {"OK", "OK_WAIT", "FILE_NOT_FOUND", "ALREADY_OPEN", "ALREADY_CREATED",
                "ALREADY_CLOSED", "ALREADY_UNLOCKED", "CANT_OPEN", "CANT_CLOSE", "exit"}

\* What a request leaves behind: the files, and the result; "exit" when the process
\* does not survive the request.
Outcome(f, k, file, err) == [files |-> [f EXCEPT ![k] = file], err |-> err]
Refused(f, err) == [files |-> f, err |-> err]

HeldByAnother_never(file, fd) == FALSE

\* The condition under which the functions below refuse a request.
HeldByAnother(file, fd) == file.is_locked /\ file.fd_owner # fd

\* htable_lock_file.
Lock(f, k, fd) ==
  CASE f[k].is_locked -> Outcome(f, k, [f[k] EXCEPT !.subs = <<fd>> \o @], "OK_WAIT")
    [] ~f[k].is_locked /\ f[k].subs # <<>> -> Refused(f, "exit")
    [] OTHER -> Outcome(f, k, [f[k] EXCEPT !.is_locked = TRUE, !.fd_owner = fd], "OK")

\* The subscriber that htable_unlock_file passes the lock to.
Heir(file) == Head(file.subs)

\* htable_unlock_file.
Unlock(f, k, fd) ==
  CASE ~f[k].is_locked -> Refused(f, "ALREADY_UNLOCKED")
    [] f[k].is_locked /\ HeldByAnother(f[k], fd) -> Refused(f, "OK_WAIT")
    [] f[k].is_locked /\ ~HeldByAnother(f[k], fd) /\ f[k].subs = <<>> ->
         Outcome(f, k, [f[k] EXCEPT !.is_locked = FALSE], "OK")
    [] OTHER -> Outcome(f, k, [f[k] EXCEPT !.fd_owner = Heir(f[k]), !.subs = Tail(@)], "OK")

\* htable_open_file.
Open(f, k, fd, lock) ==
  CASE f[k].is_open -> Refused(f, "ALREADY_OPEN")
    [] ~f[k].is_open /\ HeldByAnother(f[k], fd) -> Refused(f, "CANT_OPEN")
    [] OTHER -> Outcome(f, k, [f[k] EXCEPT !.is_open = TRUE, !.fd_owner = fd,
                                           !.is_locked = lock], "OK")

\* htable_create_file.
Create(f, k, fd, lock) ==
  IF f[k] # NULL THEN Refused(f, "ALREADY_CREATED")
  ELSE Outcome(f, k, [length_in_bytes |-> 0, contents |-> FALSE, fd_owner |-> fd,
                      is_open |-> TRUE, is_locked |-> lock, subs |-> <<>>], "OK")

\* htable_close_file.
Close(f, k, fd) ==
  CASE ~f[k].is_open -> Refused(f, "ALREADY_CLOSED")
    [] f[k].is_open /\ HeldByAnother(f[k], fd) -> Refused(f, "CANT_CLOSE")
    [] OTHER -> Outcome(f, k, [f[k] EXCEPT !.is_open = FALSE], "OK")

\* htable_remove_file.
Remove(f, k, fd) ==
  IF HeldByAnother(f[k], fd) THEN Refused(f, "OK") ELSE Outcome(f, k, NULL, "OK")

\* htable_replace_file_contents and htable_append_to_file_contents up to the eviction;
\* n is the new length.  xrealloc ends the process when a buffer shrinks to nothing.
Write(f, k, n) ==
  IF n = 0 /\ f[k].contents THEN Refused(f, "exit")
  ELSE Outcome(f, k, [f[k] EXCEPT !.length_in_bytes = n, !.contents = TRUE], "OK")

\* The request r on the files f; worker_handle_read_n_files always succeeds.
Do(f, r) ==
  CASE r.op = "OPEN_FILE_CREATE" -> Create(f, r.key, r.fd, FALSE)
    [] r.op = "OPEN_FILE_CREATE_LOCK" -> Create(f, r.key, r.fd, TRUE)
    [] r.op = "READ_N_FILES" -> Refused(f, "OK")
    [] OTHER ->
       IF f[r.key] = NULL THEN Refused(f, "FILE_NOT_FOUND")
       ELSE CASE r.op = "OPEN_FILE" -> Open(f, r.key, r.fd, FALSE)
              [] r.op = "OPEN_FILE_LOCK" -> Open(f, r.key, r.fd, TRUE)
              [] r.op = "READ_FILE" -> Refused(f, "OK")
              [] r.op = "WRITE_FILE" -> Write(f, r.key, r.arg)
              [] r.op = "APPEND_TO_FILE" -> Write(f, r.key, f[r.key].length_in_bytes + r.arg)
              [] r.op = "LOCK_FILE" -> Lock(f, r.key, r.fd)
              [] r.op = "UNLOCK_FILE" -> Unlock(f, r.key, r.fd)
              [] r.op = "CLOSE_FILE" -> Close(f, r.key, r.fd)
              [] r.op = "REMOVE_FILE" -> Remove(f, r.key, r.fd)

Writes(op) == op \in {"WRITE_FILE", "APPEND_TO_FILE"}

StoredSpace(f) == SumFunction([k \in Stored(f) |-> f[k].length_in_bytes])

\* The condition of the loop in htable_evict_files.
Exceeded(f) == Cardinality(Stored(f)) > MaxItems \/ StoredSpace(f) > MaxSpace
=============================================================================
