---------------------------- MODULE MCServerApi -----------------------------
(***************************************************************************)
(* A small instance of the API for TLC: paths are bytes, and two clients   *)
(* share two files.                                                        *)
(***************************************************************************)
EXTENDS ServerApiProps, TLC

CONSTANTS c1, c2

Ask(op, k, n) == [op |-> op, key |-> k, arg |-> n]

\* One client creates, locks, writes and unlocks; the other one gets in its way.
Mixed ==
  (c1 :> {Ask("OPEN_FILE_CREATE_LOCK", 11, 0), Ask("WRITE_FILE", 11, 2),
          Ask("WRITE_FILE", 11, 0), Ask("UNLOCK_FILE", 11, 0)})
    @@ (c2 :> {Ask("OPEN_FILE_CREATE", 12, 0), Ask("LOCK_FILE", 11, 0), Ask("WRITE_FILE", 12, 1),
               Ask("READ_FILE", 11, 0), Ask("READ_FILE", 12, 0), Ask("REMOVE_FILE", 11, 0),
               Ask("READ_N_FILES", 11, 0), Ask("APPEND_TO_FILE", 11, 1)})
=============================================================================
