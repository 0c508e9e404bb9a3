------------------------------ MODULE MCHTable ------------------------------
(***************************************************************************)
(* Small instances of the storage for TLC.  As main.c does, every instance *)
(* has as many buckets as max-files.                                       *)
(***************************************************************************)
EXTENDS HTableRefinement, TLC

CONSTANTS w1, w2, k1, k2, k3

\* All keys collide, or all but one do.
OneList == [k \in Key |-> 0]
TwoLists == [k \in Key |-> IF k = k1 THEN 0 ELSE 1]

\* Every worker changes the lists.
BothStructural == [w \in Worker |-> {"OPEN_FILE_CREATE", "WRITE_FILE", "REMOVE_FILE"}]

\* One worker is given the requests that change the lists, the other one lock requests.
OneStructural ==
  (w1 :> {"OPEN_FILE_CREATE", "WRITE_FILE", "REMOVE_FILE"})
    @@ (w2 :> {"LOCK_FILE", "UNLOCK_FILE", "READ_FILE", "CLOSE_FILE", "OPEN_FILE_LOCK"})

\* One worker is given every request but visits, the other one visits.
OneVisitor == (w1 :> ApiOp \ {"READ_N_FILES"}) @@ (w2 :> {"READ_N_FILES"})

\* Addresses are interchangeable.
Symmetry == Permutations(Addr) \cup Permutations(NodeAddr)
=============================================================================
