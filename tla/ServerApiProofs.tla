-------------------------- MODULE ServerApiProofs ---------------------------
(***************************************************************************)
(* Proofs about the API between clients and workers, for any number of     *)
(* clients, descriptors, files and calls, and one worker.                  *)
(***************************************************************************)
EXTENDS ServerApiProps, ProofLemmas, SequenceTheorems

USE ServerApiAssumption DEF ServerApiAssumption

-----------------------------------------------------------------------------
(* What a request does to the lock of a file. *)

LEMMA SameOps ==
  ASSUME NEW f, NEW r PROVE Store!Do(f, r) = Do(f, r)
BY DEF Store!Do, Do, Store!Create, Create, Store!Refused, Refused, Store!Open, Open,
       Store!Write, Write, Store!Lock, Lock, Store!Unlock, Unlock, Store!Close, Close,
       Store!Remove, Remove, Store!Outcome, Outcome, Store!HeldByAnother, HeldByAnother,
       Store!Heir, Heir

\* What the request r with result e may do to the lock of its file: y before, x after.
LockAfter(y, r, x, e) ==
  /\ y # NULL /\ y.is_locked /\ y.fd_owner # r.fd =>
       x # NULL /\ x.is_locked /\ x.fd_owner = y.fd_owner
  /\ y # NULL /\ y.is_locked /\ y.fd_owner = r.fd =>
       \/ e = "OK" /\ r.op \in {"UNLOCK_FILE", "REMOVE_FILE", "OPEN_FILE"}
       \/ x # NULL /\ x.is_locked /\ x.fd_owner = r.fd
  /\ r.op \in Locking /\ e = "OK" => x # NULL /\ x.is_locked /\ x.fd_owner = r.fd
  /\ e \in HTableError
  /\ x # NULL => \A fd \in Range(x.subs) :
       \/ y # NULL /\ fd \in Range(y.subs)
       \/ fd = r.fd /\ r.op = "LOCK_FILE" /\ e = "OK_WAIT"

\* What the proofs use of a request r on files f with outcome o.
Effect(f, r, o) ==
  /\ o.files \in Files
  /\ \A k \in Key \ {r.key} : o.files[k] = f[k]
  /\ LockAfter(f[r.key], r, o.files[r.key], o.err)

LEMMA RefusedEffect ==
  ASSUME NEW f \in Files, NEW r \in Task, NEW e \in HTableError, r.op \notin Locking \/ e # "OK"
  PROVE  Effect(f, r, Refused(f, e))
BY DEF Effect, Refused, LockAfter, Task, Locking

LEMMA OutcomeEffect ==
  ASSUME NEW f \in Files, NEW r \in Task, NEW e, NEW x \in File \cup {NULL},
         LockAfter(f[r.key], r, x, e)
  PROVE  Effect(f, r, Outcome(f, r.key, x, e))
<1>1. /\ Outcome(f, r.key, x, e).files = [f EXCEPT ![r.key] = x]
      /\ Outcome(f, r.key, x, e).err = e
  BY DEF Outcome
<1>2. r.key \in Key /\ f \in [Key -> File \cup {NULL}]
  BY DEF Task, Files
<1> DEFINE g == [f EXCEPT ![r.key] = x]
<1>3. g \in Files /\ g[r.key] = x /\ \A k \in Key \ {r.key} : g[k] = f[k]
  BY <1>2 DEF Files
<1> HIDE DEF g
<1> QED
  BY <1>1, <1>3 DEF Effect, g

LEMMA DoEffect ==
  ASSUME NEW f \in Files, NEW r \in Task
  PROVE  Effect(f, r, Do(f, r))
<1> DEFINE k == r.key x == f[r.key] fd == r.fd
<1>1. k \in Key /\ fd \in Fd /\ r.op \in Op /\ r.arg \in Nat /\ x \in File \cup {NULL}
  BY DEF Task, Files
<1>2. ASSUME NEW lock \in BOOLEAN, r.op \in {"OPEN_FILE_CREATE", "OPEN_FILE_CREATE_LOCK"},
             lock = (r.op = "OPEN_FILE_CREATE_LOCK")
      PROVE  Effect(f, r, Create(f, k, fd, lock))
  <2>1. CASE x # NULL
    <3>1. Create(f, k, fd, lock) = Refused(f, "ALREADY_CREATED")
      BY <2>1 DEF Create
    <3> QED
      BY <3>1, RefusedEffect DEF HTableError
  <2>2. CASE x = NULL
    <3> DEFINE y == [length_in_bytes |-> 0, contents |-> FALSE, fd_owner |-> fd,
                     is_open |-> TRUE, is_locked |-> lock, subs |-> <<>>]
    <3>1. Create(f, k, fd, lock) = Outcome(f, k, y, "OK")
      BY <2>2 DEF Create
    <3>2. y \in File /\ y.is_locked = lock /\ y.fd_owner = fd /\ y.subs = <<>>
      BY <1>1 DEF File
    <3>3. y # NULL /\ y \in File \cup {NULL}
      BY <3>2
    <3> HIDE DEF y
    <3>4. r.op \in Locking => lock = TRUE
      BY <1>2 DEF Locking
    <3>5. LockAfter(x, r, y, "OK")
      BY <2>2, <3>2, <3>3, <3>4 DEF LockAfter, HTableError, Range
    <3> QED
      BY <3>1, <3>3, <3>5, OutcomeEffect
  <2> QED
    BY <2>1, <2>2
<1>3. ASSUME NEW lock \in BOOLEAN, x # NULL, r.op \in {"OPEN_FILE", "OPEN_FILE_LOCK"},
             lock = (r.op = "OPEN_FILE_LOCK")
      PROVE  Effect(f, r, Open(f, k, fd, lock))
  <2>1. CASE x.is_open
    <3>1. Open(f, k, fd, lock) = Refused(f, "ALREADY_OPEN")
      BY <2>1 DEF Open
    <3> QED
      BY <3>1, RefusedEffect DEF HTableError
  <2>2. CASE ~x.is_open /\ HeldByAnother(x, fd)
    <3>1. Open(f, k, fd, lock) = Refused(f, "CANT_OPEN")
      BY <2>2 DEF Open
    <3> QED
      BY <3>1, RefusedEffect DEF HTableError
  <2>3. CASE ~x.is_open /\ ~HeldByAnother(x, fd)
    <3> DEFINE y == [x EXCEPT !.is_open = TRUE, !.is_locked = lock, !.fd_owner = fd]
    <3>1. Open(f, k, fd, lock) = Outcome(f, k, y, "OK")
      BY <2>3 DEF Open
    <3>2. y \in File /\ y.is_locked = lock /\ y.fd_owner = fd /\ y.subs = x.subs
      BY <1>1, <1>3 DEF File
    <3>3. y # NULL /\ y \in File \cup {NULL}
      BY <3>2
    <3> HIDE DEF y
    <3>4. (r.op \in Locking => lock = TRUE) /\ (r.op = "OPEN_FILE" \/ lock = TRUE)
      BY <1>3 DEF Locking
    <3>5. LockAfter(x, r, y, "OK")
      BY <1>3, <2>3, <3>2, <3>3, <3>4 DEF LockAfter, HTableError, HeldByAnother
    <3> QED
      BY <3>1, <3>3, <3>5, OutcomeEffect
  <2> QED
    BY <2>1, <2>2, <2>3
<1>4. ASSUME NEW n \in Nat, x # NULL, r.op \in {"WRITE_FILE", "APPEND_TO_FILE"}
      PROVE  Effect(f, r, Write(f, k, n))
  <2>1. CASE n = 0 /\ x.contents
    <3>1. Write(f, k, n) = Refused(f, "exit")
      BY <2>1 DEF Write
    <3> QED
      BY <3>1, RefusedEffect DEF HTableError
  <2>2. CASE ~(n = 0 /\ x.contents)
    <3> DEFINE y == [x EXCEPT !.length_in_bytes = n, !.contents = TRUE]
    <3>1. Write(f, k, n) = Outcome(f, k, y, "OK")
      BY <2>2 DEF Write
    <3>2. y \in File /\ y.is_locked = x.is_locked /\ y.fd_owner = x.fd_owner /\ y.subs = x.subs
      BY <1>1, <1>4 DEF File
    <3>3. y # NULL /\ y \in File \cup {NULL}
      BY <3>2
    <3> HIDE DEF y
    <3>5. LockAfter(x, r, y, "OK")
      BY <1>4, <3>2, <3>3 DEF LockAfter, HTableError, Locking
    <3> QED
      BY <3>1, <3>3, <3>5, OutcomeEffect
  <2> QED
    BY <2>1, <2>2
<1>5. ASSUME x # NULL, r.op = "LOCK_FILE" PROVE Effect(f, r, Lock(f, k, fd))
  <2>1. CASE x.is_locked
    <3> DEFINE y == [x EXCEPT !.subs = <<fd>> \o @]
    <3>1. Lock(f, k, fd) = Outcome(f, k, y, "OK_WAIT")
      BY <2>1 DEF Lock
    <3>2. y \in File /\ y.is_locked = x.is_locked /\ y.fd_owner = x.fd_owner
          /\ y.subs = <<fd>> \o x.subs /\ x.subs \in Seq(Fd)
      <4>1. <<fd>> \o x.subs \in Seq(Fd)
        BY <1>1, <1>5 DEF File
      <4> QED
        BY <1>1, <1>5, <4>1 DEF File
    <3>3. y # NULL /\ y \in File \cup {NULL}
      BY <3>2
    <3> HIDE DEF y
    <3>4. \A g \in Range(y.subs) : g = fd \/ g \in Range(x.subs)
      <4>1. /\ Len(<<fd>>) = 1 /\ <<fd>>[1] = fd /\ <<fd>> \in Seq(Fd)
            /\ DOMAIN x.subs = 1 .. Len(x.subs) /\ Len(x.subs) \in Nat
        BY <1>1, <3>2
      <4>2. /\ Len(y.subs) = 1 + Len(x.subs) /\ DOMAIN y.subs = 1 .. 1 + Len(x.subs)
            /\ \A i \in 1 .. 1 + Len(x.subs) : y.subs[i] = IF i <= 1 THEN fd ELSE x.subs[i - 1]
        BY <3>2, <4>1, ConcatProperties
      <4>3. \A i \in 1 .. 1 + Len(x.subs) : i <= 1 \/ i - 1 \in 1 .. Len(x.subs)
        BY <4>1
      <4> SUFFICES ASSUME NEW i \in 1 .. 1 + Len(x.subs), y.subs[i] # fd
                   PROVE  y.subs[i] \in Range(x.subs)
        BY <4>2 DEF Range
      <4> QED
        BY <4>1, <4>2, <4>3 DEF Range
    <3>5. LockAfter(x, r, y, "OK_WAIT")
      BY <1>5, <2>1, <3>2, <3>3, <3>4 DEF LockAfter, HTableError, Locking
    <3> QED
      BY <3>1, <3>3, <3>5, OutcomeEffect
  <2>2. CASE ~x.is_locked /\ x.subs # <<>>
    <3>1. Lock(f, k, fd) = Refused(f, "exit")
      BY <2>2 DEF Lock
    <3> QED
      BY <3>1, RefusedEffect DEF HTableError
  <2>3. CASE ~x.is_locked /\ x.subs = <<>>
    <3> DEFINE y == [x EXCEPT !.is_locked = TRUE, !.fd_owner = fd]
    <3>1. Lock(f, k, fd) = Outcome(f, k, y, "OK")
      BY <2>3 DEF Lock
    <3>2. y \in File /\ y.is_locked = TRUE /\ y.fd_owner = fd /\ y.subs = x.subs
      BY <1>1, <1>5 DEF File
    <3>3. y # NULL /\ y \in File \cup {NULL}
      BY <3>2
    <3> HIDE DEF y
    <3>5. LockAfter(x, r, y, "OK")
      BY <1>5, <2>3, <3>2, <3>3 DEF LockAfter, HTableError, Locking
    <3> QED
      BY <3>1, <3>3, <3>5, OutcomeEffect
  <2> QED
    BY <2>1, <2>2, <2>3
<1>6. ASSUME x # NULL, r.op = "UNLOCK_FILE" PROVE Effect(f, r, Unlock(f, k, fd))
  <2>1. CASE ~x.is_locked
    <3>1. Unlock(f, k, fd) = Refused(f, "ALREADY_UNLOCKED")
      BY <2>1 DEF Unlock
    <3> QED
      BY <3>1, RefusedEffect DEF HTableError
  <2>2. CASE x.is_locked /\ HeldByAnother(x, fd)
    <3>1. Unlock(f, k, fd) = Refused(f, "OK_WAIT")
      BY <2>2 DEF Unlock
    <3> QED
      BY <3>1, RefusedEffect DEF HTableError
  <2>3. CASE x.is_locked /\ ~HeldByAnother(x, fd) /\ x.subs = <<>>
    <3> DEFINE y == [x EXCEPT !.is_locked = FALSE]
    <3>1. Unlock(f, k, fd) = Outcome(f, k, y, "OK")
      BY <2>3 DEF Unlock
    <3>2. y \in File /\ y.subs = x.subs
      BY <1>1, <1>6 DEF File
    <3>3. y \in File \cup {NULL}
      BY <3>2
    <3> HIDE DEF y
    <3>5. LockAfter(x, r, y, "OK")
      BY <1>6, <2>3, <3>2 DEF LockAfter, HTableError, HeldByAnother, Locking
    <3> QED
      BY <3>1, <3>3, <3>5, OutcomeEffect
  <2>4. CASE x.is_locked /\ ~HeldByAnother(x, fd) /\ x.subs # <<>>
    <3> DEFINE y == [x EXCEPT !.fd_owner = Heir(x), !.subs = Tail(@)]
    <3>1. Unlock(f, k, fd) = Outcome(f, k, y, "OK")
      BY <2>4 DEF Unlock
    <3>2. y \in File /\ \A g \in Range(y.subs) : g \in Range(x.subs)
      <4>1. x.subs \in Seq(Fd) /\ Head(x.subs) \in Fd /\ Tail(x.subs) \in Seq(Fd)
        BY <1>1, <1>6, <2>4 DEF File
      <4>2. y \in File /\ y.subs = Tail(x.subs)
        BY <1>1, <1>6, <4>1 DEF File, Heir
      <4>3. \A g \in Range(Tail(x.subs)) : g \in Range(x.subs)
        BY <2>4, <4>1, HeadTailProperties DEF Range
      <4> QED
        BY <4>2, <4>3
    <3>3. y \in File \cup {NULL}
      BY <3>2
    <3> HIDE DEF y
    <3>5. LockAfter(x, r, y, "OK")
      BY <1>6, <2>4, <3>2 DEF LockAfter, HTableError, HeldByAnother, Locking
    <3> QED
      BY <3>1, <3>3, <3>5, OutcomeEffect
  <2> QED
    BY <2>1, <2>2, <2>3, <2>4
<1>7. ASSUME x # NULL, r.op = "CLOSE_FILE" PROVE Effect(f, r, Close(f, k, fd))
  <2>1. CASE ~x.is_open
    <3>1. Close(f, k, fd) = Refused(f, "ALREADY_CLOSED")
      BY <2>1 DEF Close
    <3> QED
      BY <3>1, RefusedEffect DEF HTableError
  <2>2. CASE x.is_open /\ HeldByAnother(x, fd)
    <3>1. Close(f, k, fd) = Refused(f, "CANT_CLOSE")
      BY <2>2 DEF Close
    <3> QED
      BY <3>1, RefusedEffect DEF HTableError
  <2>3. CASE x.is_open /\ ~HeldByAnother(x, fd)
    <3> DEFINE y == [x EXCEPT !.is_open = FALSE]
    <3>1. Close(f, k, fd) = Outcome(f, k, y, "OK")
      BY <2>3 DEF Close
    <3>2. y \in File /\ y.is_locked = x.is_locked /\ y.fd_owner = x.fd_owner /\ y.subs = x.subs
      BY <1>1, <1>7 DEF File
    <3>3. y # NULL /\ y \in File \cup {NULL}
      BY <3>2
    <3> HIDE DEF y
    <3>5. LockAfter(x, r, y, "OK")
      BY <1>7, <3>2, <3>3 DEF LockAfter, HTableError, Locking
    <3> QED
      BY <3>1, <3>3, <3>5, OutcomeEffect
  <2> QED
    BY <2>1, <2>2, <2>3
<1>8. ASSUME x # NULL, r.op = "REMOVE_FILE" PROVE Effect(f, r, Remove(f, k, fd))
  <2>1. CASE HeldByAnother(x, fd)
    <3>1. Remove(f, k, fd) = Refused(f, "OK")
      BY <2>1 DEF Remove
    <3> QED
      BY <1>8, <3>1, RefusedEffect DEF HTableError, Locking
  <2>2. CASE ~HeldByAnother(x, fd)
    <3>1. Remove(f, k, fd) = Outcome(f, k, NULL, "OK")
      BY <2>2 DEF Remove
    <3>2. NULL \in File \cup {NULL}
      OBVIOUS
    <3>3. LockAfter(x, r, NULL, "OK")
      BY <1>8, <2>2 DEF LockAfter, HTableError, HeldByAnother, Locking
    <3> QED
      BY <3>1, <3>2, <3>3, OutcomeEffect
  <2> QED
    BY <2>1, <2>2
<1>9. CASE r.op = "OPEN_FILE_CREATE"
  BY <1>9, <1>2 DEF Do
<1>10. CASE r.op = "OPEN_FILE_CREATE_LOCK"
  BY <1>10, <1>2 DEF Do
<1>11. CASE r.op = "READ_N_FILES"
  <2>1. Do(f, r) = Refused(f, "OK")
    BY <1>11 DEF Do
  <2> QED
    BY <1>11, <2>1, RefusedEffect DEF HTableError, Locking
<1>12. CASE /\ r.op \notin {"OPEN_FILE_CREATE", "OPEN_FILE_CREATE_LOCK", "READ_N_FILES"}
            /\ x = NULL
  <2>1. Do(f, r) = Refused(f, "FILE_NOT_FOUND")
    BY <1>12 DEF Do
  <2> QED
    BY <2>1, RefusedEffect DEF HTableError
<1>13. CASE /\ r.op \notin {"OPEN_FILE_CREATE", "OPEN_FILE_CREATE_LOCK", "READ_N_FILES"}
            /\ x # NULL
  <2>1. CASE r.op = "OPEN_FILE"
    BY <1>3, <1>13, <2>1 DEF Do
  <2>2. CASE r.op = "OPEN_FILE_LOCK"
    BY <1>3, <1>13, <2>2 DEF Do
  <2>3. CASE r.op = "READ_FILE"
    <3>1. Do(f, r) = Refused(f, "OK")
      BY <1>13, <2>3 DEF Do
    <3> QED
      BY <2>3, <3>1, RefusedEffect DEF HTableError, Locking
  <2>4. CASE r.op = "WRITE_FILE"
    BY <1>1, <1>4, <1>13, <2>4 DEF Do
  <2>5. CASE r.op = "APPEND_TO_FILE"
    <3>1. f[k].length_in_bytes + r.arg \in Nat
      BY <1>1, <1>13 DEF File
    <3> QED
      BY <1>4, <1>13, <2>5, <3>1 DEF Do
  <2>6. CASE r.op = "LOCK_FILE"
    BY <1>5, <1>13, <2>6 DEF Do
  <2>7. CASE r.op = "UNLOCK_FILE"
    BY <1>6, <1>13, <2>7 DEF Do
  <2>8. CASE r.op = "CLOSE_FILE"
    BY <1>7, <1>13, <2>8 DEF Do
  <2>9. CASE r.op = "REMOVE_FILE"
    BY <1>8, <1>13, <2>9 DEF Do
  <2> QED
    BY <1>1, <1>13, <2>1, <2>2, <2>3, <2>4, <2>5, <2>6, <2>7, <2>8, <2>9
       DEF Op, Opening, WithFiles
<1> QED
  BY <1>9, <1>10, <1>11, <1>12, <1>13

-----------------------------------------------------------------------------
(* The steps, by what they do to the state that the locks depend on. *)

\* A client goes on in its function, or begins one.
Goes(c) ==
  /\ Connected(c) /\ \E s \in Stage \ (Before \cup Gone) : stage' = [stage EXCEPT ![c] = s]
  /\ strayed \subseteq strayed' /\ strayed' \subseteq Client
  /\ wire' \in [Client -> Request \cup {NULL}]
  /\ UNCHANGED <<files, call, serving, evicting, queue, at, response, holds>>

\* A client leaves or dies.
Ends(c) == Connected(c) /\ \E s \in Gone : Leave(c, s)

LEMMA ReadingGoes ==
  ASSUME TypeOK, NEW c \in Client, ClientStep(c) PROVE Goes(c)
<1> USE DEF Reading, Enter, Return, store, server, Goes, Connected, Before, Gone, Stage, TypeOK
<1>1. CASE ReadCode(c)
  BY <1>1 DEF ReadCode
<1>2. CASE ReadLength(c)
  BY <1>2 DEF ReadLength
<1>3. CASE ReadContents(c)
  BY <1>3 DEF ReadContents
<1>4. CASE ReadCount(c)
  BY <1>4 DEF ReadCount
<1>5. CASE ReadLengths(c)
  BY <1>5 DEF ReadLengths
<1>6. CASE ReadBody(c)
  BY <1>6 DEF ReadBody
<1> QED
  BY <1>1, <1>2, <1>3, <1>4, <1>5, <1>6 DEF ClientStep

LEMMA CallGoesOrEnds ==
  ASSUME TypeOK, NEW c \in Client, Call(c) PROVE Goes(c) \/ Ends(c)
<1>1. stage \in [Client -> Stage] /\ stage[c] = "idle" /\ Connected(c)
  BY DEF Call, TypeOK, Connected, Gone
<1>2. CASE HungUp
  BY <1>1, <1>2 DEF Call, Ends, Gone
<1>3. CASE ~HungUp
  <2>1. PICK r \in Api[c] : wire' = [wire EXCEPT ![c] = r]
    BY <1>3 DEF Call
  <2>2. wire' \in [Client -> Request \cup {NULL}]
    BY <2>1 DEF TypeOK
  <2>3. stage' = [stage EXCEPT ![c] = "code"] /\ "code" \in Stage \ (Before \cup Gone)
    BY <1>3 DEF Call, Stage, Before, Gone
  <2>4. UNCHANGED <<files, call, serving, evicting, queue, at, response, holds, strayed>>
    BY <1>3 DEF Call, store, server
  <2> QED
    BY <1>1, <2>2, <2>3, <2>4 DEF Goes, TypeOK
<1> QED
  BY <1>2, <1>3

LEMMA EndsEnd ==
  ASSUME TypeOK, NEW c \in Client, Abort(c) \/ CloseConnection(c) \/ Die(c) PROVE Ends(c)
BY DEF Abort, CloseConnection, Die, Ends, Connected, Gone

\* What Leave does to the same state.
LEMMA EndsEffect ==
  ASSUME TypeOK, NEW c \in Client, Ends(c)
  PROVE  /\ \E s \in Gone : stage' = [stage EXCEPT ![c] = s]
         /\ strayed' = strayed \ {c} /\ holds' = [holds EXCEPT ![c] = {}]
         /\ wire' = [wire EXCEPT ![c] = NULL]
         /\ UNCHANGED <<files, call, serving, evicting, queue, at, response>>
BY DEF Ends, Leave, store, server

LEMMA SeqOfItsRange ==
  ASSUME NEW S, NEW m \in Seq(S) PROVE m \in Seq(Range(m))
<1>1. m \in [1 .. Len(m) -> Range(m)] /\ Len(m) \in Nat
  BY DEF Range
<1> QED
  BY <1>1

LEMMA ResponsesShape ==
  ASSUME NEW r, NEW e, NEW m \in Responses(r, e)
  PROVE  Len(m) \in 1 .. 2 /\ m \in Seq(Range(m))
<1>1. CASE r.op = "UNLOCK_FILE" /\ e = "OK" /\ files[r.key].subs # <<>>
  <2> DEFINE x == Message(r.fd, ResponseByte(e))
             y == Message(Heir(files[r.key]), ResponseByte("OK"))
  <2>1. m = <<x>> \o <<y>>
    BY <1>1 DEF Responses
  <2> HIDE DEF x, y
  <2>2. <<x>> \in Seq({x, y}) /\ <<y>> \in Seq({x, y}) /\ Len(<<x>>) = 1 /\ Len(<<y>>) = 1
    OBVIOUS
  <2>3. m \in Seq({x, y}) /\ Len(m) = 2
    BY <2>1, <2>2
  <2> QED
    BY <2>3, SeqOfItsRange
<1>2. CASE ~(r.op = "UNLOCK_FILE" /\ e = "OK" /\ files[r.key].subs # <<>>)
  <2>1. PICK b : m = <<Message(r.fd, b)>>
    BY <1>2 DEF Responses
  <2>2. m \in Seq({Message(r.fd, b)}) /\ Len(m) = 1
    BY <2>1
  <2> QED
    BY <2>2, SeqOfItsRange
<1> QED
  BY <1>1, <1>2

-----------------------------------------------------------------------------
(* Every step keeps the invariant. *)

Inv == TypeOK /\ LockInv

\* The state that the invariant is about.
watched == <<files, call, serving, evicting, queue, at, stage, wire, response, holds, strayed>>

LEMMA StillKeeps ==
  ASSUME Inv, UNCHANGED watched PROVE Inv'
<1> USE DEF Inv, watched
<1>1. TypeOK'
  BY DEF TypeOK
<1>2. OneAtATime'
  BY DEF LockInv, OneAtATime
<1>3. SendersKnown'
  BY DEF LockInv, SendersKnown, InHand, Connected
<1>4. NothingBefore'
  BY DEF LockInv, NothingBefore, Accepted
<1>5. LocksHeld'
  BY DEF LockInv, LocksHeld, Connected
<1> QED
  BY <1>1, <1>2, <1>3, <1>4, <1>5 DEF LockInv

LEMMA InitInv == Init => Inv
<1> SUFFICES ASSUME Init PROVE Inv
  OBVIOUS
<1>1. TypeOK
  <2>1. files \in Files
    BY DEF Init, Store!Init, Store!NoFiles, Files
  <2>2. <<>> \in Seq(Range(<<>>)) /\ Len(<<>>) = 0
    OBVIOUS
  <2>3. DOMAIN response = Worker /\ \A w \in Worker : response[w] = <<>>
    BY DEF Init
  <2> QED
    BY <2>1, <2>2, <2>3 DEF Init, Store!Init, TypeOK, Stage
<1>2. OneAtATime
  BY DEF Init, Store!Init, OneAtATime
<1>3. SendersKnown
  BY DEF Init, SendersKnown, InHand, Range
<1>4. NothingBefore
  <2>1. \A fd \in Fd : at[fd] = NULL
    BY DEF Init
  <2> QED
    BY <2>1 DEF Init, NothingBefore, Accepted
<1>5. LocksHeld
  BY DEF Init, LocksHeld, Connected
<1> QED
  BY <1>1, <1>2, <1>3, <1>4, <1>5 DEF Inv, LockInv

LEMMA GoesKeeps ==
  ASSUME Inv, NEW c \in Client, Goes(c) PROVE Inv'
<1>0. TypeOK /\ LockInv
  BY DEF Inv
<1>1. TypeOK'
  BY <1>0 DEF TypeOK, Goes
<1>2. OneAtATime'
  BY <1>0 DEF LockInv, OneAtATime, Goes
<1>3. \A d \in Client : Connected(d)' <=> Connected(d)
  BY <1>0 DEF Goes, Connected, Before, TypeOK
<1>4. \A d \in Client : stage'[d] \in Before <=> stage[d] \in Before
  BY <1>0 DEF Goes, Connected, Before, TypeOK
<1>5. SendersKnown'
  <2>1. InHand' = InHand /\ InHand \subseteq Task
    BY <1>0 DEF Goes, InHand, TypeOK, Range
  <2> SUFFICES ASSUME NEW r \in InHand
               PROVE  /\ stage'[r.from] \notin Before
                      /\ Connected(r.from)' => at'[r.fd] = r.from
                      /\ at'[r.fd] # NULL /\ Connected(at[r.fd])' /\ at'[r.fd] \notin strayed'
                           => at'[r.fd] = r.from
    BY <2>1 DEF SendersKnown, Goes
  <2>2. r.from \in Client /\ r.fd \in Fd /\ at[r.fd] \in Client \cup {NULL}
    BY <1>0, <2>1 DEF Task, TypeOK
  <2> QED
    BY <1>0, <1>3, <1>4, <2>2 DEF LockInv, SendersKnown, Goes
<1>6. NothingBefore'
  BY <1>0, <1>4 DEF LockInv, NothingBefore, Accepted, Goes
<1>7. LocksHeld'
  BY <1>0, <1>3 DEF LockInv, LocksHeld, Goes
<1> QED
  BY <1>1, <1>2, <1>5, <1>6, <1>7 DEF Inv, LockInv

LEMMA EndsKeeps ==
  ASSUME Inv, NEW c \in Client, Ends(c) PROVE Inv'
<1>0. TypeOK /\ LockInv
  BY DEF Inv
<1>e. /\ \E s \in Gone : stage' = [stage EXCEPT ![c] = s]
      /\ strayed' = strayed \ {c} /\ holds' = [holds EXCEPT ![c] = {}]
      /\ wire' = [wire EXCEPT ![c] = NULL]
      /\ UNCHANGED <<files, call, serving, evicting, queue, at, response>>
  BY <1>0, EndsEffect
<1>1. TypeOK'
  BY <1>0, <1>e DEF TypeOK, Stage
<1>2. OneAtATime'
  BY <1>0, <1>e DEF LockInv, OneAtATime
<1>3. \A d \in Client : Connected(d)' <=> Connected(d) /\ d # c
  BY <1>0, <1>e DEF Connected, TypeOK
<1>4. \A d \in Client : stage'[d] \in Before => stage[d] \in Before /\ d # c
  BY <1>0, <1>e DEF Gone, Before, TypeOK
<1>5. SendersKnown'
  <2>1. InHand' = InHand /\ InHand \subseteq Task
    BY <1>0, <1>e DEF InHand, TypeOK, Range
  <2> SUFFICES ASSUME NEW r \in InHand
               PROVE  /\ stage'[r.from] \notin Before
                      /\ Connected(r.from)' => at'[r.fd] = r.from
                      /\ at'[r.fd] # NULL /\ Connected(at[r.fd])' /\ at'[r.fd] \notin strayed'
                           => at'[r.fd] = r.from
    BY <1>e, <2>1 DEF SendersKnown
  <2>2. r.from \in Client /\ r.fd \in Fd /\ at[r.fd] \in Client \cup {NULL}
    BY <1>0, <2>1 DEF Task, TypeOK
  <2> QED
    BY <1>0, <1>e, <1>3, <1>4, <2>2 DEF LockInv, SendersKnown
<1>6. NothingBefore'
  BY <1>0, <1>e, <1>4 DEF LockInv, NothingBefore, Accepted, TypeOK
<1>7. LocksHeld'
  BY <1>0, <1>e, <1>3 DEF LockInv, LocksHeld, TypeOK
<1> QED
  BY <1>1, <1>2, <1>5, <1>6, <1>7 DEF Inv, LockInv

LEMMA OpenConnectionKeeps ==
  ASSUME Inv, NEW c \in Client, OpenConnection(c) \/ Attempt(c) PROVE Inv'
<1>0. TypeOK /\ LockInv
  BY DEF Inv
<1>e. /\ stage[c] \in Before
      /\ \E s \in {"connecting", "refused", "idle"} : stage' = [stage EXCEPT ![c] = s]
      /\ UNCHANGED <<files, call, serving, evicting, queue, at, wire, response, holds, strayed>>
  BY DEF OpenConnection, Attempt, Before, store, server, history
<1>1. TypeOK'
  BY <1>0, <1>e DEF TypeOK, Stage, Gone
<1>2. OneAtATime'
  BY <1>0, <1>e DEF LockInv, OneAtATime
<1>3. \A d \in Client \ {c} : stage'[d] = stage[d] /\ (Connected(d)' <=> Connected(d))
  BY <1>0, <1>e DEF Connected, TypeOK
<1>4. ~Accepted(c) /\ holds[c] = {} /\ \A fd \in Fd : at[fd] # c
  BY <1>0, <1>e DEF LockInv, NothingBefore, Accepted
<1>5. SendersKnown'
  <2>1. InHand' = InHand /\ InHand \subseteq Task
    BY <1>0, <1>e DEF InHand, TypeOK, Range
  <2> SUFFICES ASSUME NEW r \in InHand
               PROVE  /\ stage'[r.from] \notin Before
                      /\ Connected(r.from)' => at'[r.fd] = r.from
                      /\ at'[r.fd] # NULL /\ Connected(at[r.fd])' /\ at'[r.fd] \notin strayed'
                           => at'[r.fd] = r.from
    BY <1>e, <2>1 DEF SendersKnown
  <2>2. r.from \in Client /\ r.fd \in Fd /\ at[r.fd] \in Client \cup {NULL}
    BY <1>0, <2>1 DEF Task, TypeOK
  <2>3. r.from # c /\ at[r.fd] # c
    BY <1>0, <1>e, <1>4, <2>2 DEF LockInv, SendersKnown
  <2> QED
    BY <1>0, <1>e, <1>3, <2>2, <2>3 DEF LockInv, SendersKnown
<1>6. NothingBefore'
  <2> SUFFICES ASSUME NEW d \in Client, stage'[d] \in Before PROVE ~Accepted(d)' /\ holds'[d] = {}
    BY DEF NothingBefore
  <2>1. CASE d = c
    BY <1>e, <1>4, <2>1 DEF Accepted
  <2>2. CASE d # c
    BY <1>0, <1>e, <1>3, <2>2 DEF LockInv, NothingBefore, Accepted
  <2> QED
    BY <2>1, <2>2
<1>7. LocksHeld'
  BY <1>0, <1>e, <1>3, <1>4 DEF LockInv, LocksHeld
<1> QED
  BY <1>1, <1>2, <1>5, <1>6, <1>7 DEF Inv, LockInv

\* What SendersKnown says of one message.
SenderKnown(r) ==
  /\ stage[r.from] \notin Before
  /\ Connected(r.from) => at[r.fd] = r.from
  /\ at[r.fd] # NULL /\ Connected(at[r.fd]) /\ at[r.fd] \notin strayed => at[r.fd] = r.from

LEMMA AcceptKeeps ==
  ASSUME Inv, NEW c \in Client, Accept(c) PROVE Inv'
<1>0. TypeOK /\ LockInv
  BY DEF Inv
<1>1. PICK fd \in Fd :
        /\ at[fd] = NULL /\ at' = [at EXCEPT ![fd] = c]
        /\ strayed' = IF fd \in InUse THEN strayed \cup {c} ELSE strayed
  BY DEF Accept
<1>2. /\ Connected(c) /\ \A g \in Fd : at[g] # c
      /\ UNCHANGED <<files, call, serving, evicting, queue, stage, wire, response, holds>>
  BY DEF Accept, Accepted, store, client
<1>3. /\ at' \in [Fd -> Client \cup {NULL}] /\ at'[fd] = c
      /\ \A g \in Fd \ {fd} : at'[g] = at[g]
  BY <1>0, <1>1 DEF TypeOK
<1>4. strayed \subseteq strayed' /\ strayed' \subseteq Client
  BY <1>0, <1>1 DEF TypeOK
<1>5. TypeOK'
  BY <1>0, <1>2, <1>3, <1>4 DEF TypeOK
<1>6. OneAtATime'
  BY <1>0, <1>2 DEF LockInv, OneAtATime
<1>7. \A d \in Client : Connected(d)' <=> Connected(d)
  BY <1>2 DEF Connected
<1>8. SendersKnown'
  <2>1. InHand' = InHand /\ InHand \subseteq Task
    BY <1>0, <1>2 DEF InHand, TypeOK, Range
  <2> SUFFICES ASSUME NEW r \in InHand PROVE SenderKnown(r)'
    BY <2>1 DEF SendersKnown, SenderKnown
  <2>2. r.from \in Client /\ r.fd \in Fd /\ at[r.fd] \in Client \cup {NULL} /\ SenderKnown(r)
    BY <1>0, <2>1 DEF Task, TypeOK, LockInv, SendersKnown, SenderKnown
  <2>3. CASE r.fd = fd
    <3>1. r.fd \in InUse
      <4>1. CASE r \in queue
        BY <4>1 DEF InUse
      <4>2. CASE r \notin queue
        <5>1. PICK w \in Worker : serving[w] = r /\ r # NULL
          BY <1>0, <4>2 DEF InHand, Range, TypeOK
        <5> QED
          BY <5>1 DEF InUse
      <4> QED
        BY <4>1, <4>2
    <3>2. at'[r.fd] = c /\ c \in strayed'
      BY <1>1, <1>3, <2>3, <3>1
    <3>3. ~Connected(r.from)
      BY <1>1, <2>2, <2>3 DEF SenderKnown
    <3> QED
      BY <1>2, <1>7, <2>2, <3>2, <3>3 DEF SenderKnown
  <2>4. CASE r.fd # fd
    BY <1>2, <1>3, <1>4, <1>7, <2>2, <2>4 DEF SenderKnown
  <2> QED
    BY <2>3, <2>4
<1>9. NothingBefore'
  <2> SUFFICES ASSUME NEW d \in Client, stage'[d] \in Before PROVE ~Accepted(d)' /\ holds'[d] = {}
    BY DEF NothingBefore
  <2>1. d # c
    BY <1>2 DEF Connected, Before
  <2>2. ~Accepted(d) /\ holds[d] = {}
    BY <1>0, <1>2 DEF LockInv, NothingBefore
  <2> QED
    BY <1>2, <1>3, <2>1, <2>2 DEF Accepted
<1>10. LocksHeld'
  <2> SUFFICES ASSUME NEW d \in Client, Connected(d), d \notin strayed, NEW k \in holds[d]
               PROVE  files[k] # NULL /\ files[k].is_locked /\ at'[files[k].fd_owner] = d
    BY <1>2, <1>4, <1>7 DEF LocksHeld
  <2>1. files[k] # NULL /\ files[k].is_locked /\ at[files[k].fd_owner] = d
    BY <1>0 DEF LockInv, LocksHeld
  <2>2. files[k].fd_owner \in Fd
    BY <1>0, <2>1 DEF TypeOK, Files, File
  <2> QED
    BY <1>1, <1>3, <2>1, <2>2
<1> QED
  BY <1>5, <1>6, <1>8, <1>9, <1>10 DEF Inv, LockInv

LEMMA DropKeeps ==
  ASSUME Inv, NEW fd \in Fd, Drop(fd) PROVE Inv'
<1>0. TypeOK /\ LockInv
  BY DEF Inv
<1>1. /\ at[fd] # NULL /\ stage[at[fd]] \in Gone /\ at' = [at EXCEPT ![fd] = NULL]
      /\ UNCHANGED <<files, call, serving, evicting, queue, stage, wire, response, holds, strayed>>
  BY DEF Drop, store, client, history
<1>3. /\ at' \in [Fd -> Client \cup {NULL}] /\ at'[fd] = NULL
      /\ \A g \in Fd \ {fd} : at'[g] = at[g]
      /\ at[fd] \in Client /\ ~Connected(at[fd])
  BY <1>0, <1>1 DEF TypeOK, Connected
<1>5. TypeOK'
  BY <1>0, <1>1, <1>3 DEF TypeOK
<1>6. OneAtATime'
  BY <1>0, <1>1 DEF LockInv, OneAtATime
<1>7. \A d \in Client : Connected(d)' <=> Connected(d)
  BY <1>1 DEF Connected
<1>8. SendersKnown'
  <2>1. InHand' = InHand /\ InHand \subseteq Task
    BY <1>0, <1>1 DEF InHand, TypeOK, Range
  <2> SUFFICES ASSUME NEW r \in InHand PROVE SenderKnown(r)'
    BY <2>1 DEF SendersKnown, SenderKnown
  <2>2. r.from \in Client /\ r.fd \in Fd /\ at[r.fd] \in Client \cup {NULL} /\ SenderKnown(r)
    BY <1>0, <2>1 DEF Task, TypeOK, LockInv, SendersKnown, SenderKnown
  <2> QED
    BY <1>1, <1>3, <1>7, <2>2 DEF SenderKnown
<1>9. NothingBefore'
  BY <1>0, <1>1, <1>3 DEF LockInv, NothingBefore, Accepted
<1>10. LocksHeld'
  <2> SUFFICES ASSUME NEW d \in Client, Connected(d), d \notin strayed, NEW k \in holds[d]
               PROVE  files[k] # NULL /\ files[k].is_locked /\ at'[files[k].fd_owner] = d
    BY <1>1, <1>7 DEF LocksHeld
  <2>1. files[k] # NULL /\ files[k].is_locked /\ at[files[k].fd_owner] = d
    BY <1>0 DEF LockInv, LocksHeld
  <2>2. files[k].fd_owner \in Fd
    BY <1>0, <2>1 DEF TypeOK, Files, File
  <2> QED
    BY <1>3, <2>1, <2>2
<1> QED
  BY <1>5, <1>6, <1>8, <1>9, <1>10 DEF Inv, LockInv

\* A step that changes neither descriptors nor clients keeps SendersKnown if the new
\* messages are from the clients at their descriptors.
LEMMA SendersStay ==
  ASSUME Inv, UNCHANGED <<at, stage>>, strayed \subseteq strayed', InHand' \subseteq Task,
         \A r \in InHand' \ InHand : at[r.fd] = r.from /\ Connected(r.from)
  PROVE  SendersKnown' /\ (holds' = holds => NothingBefore')
<1>0. TypeOK /\ LockInv
  BY DEF Inv
<1>1. \A d \in Client : Connected(d)' <=> Connected(d)
  BY DEF Connected
<1>2. ASSUME NEW r \in InHand' PROVE SenderKnown(r)'
  <2>1. r.from \in Client /\ r.fd \in Fd /\ at[r.fd] \in Client \cup {NULL}
    BY <1>0 DEF Task, TypeOK
  <2>2. CASE r \in InHand
    <3>1. SenderKnown(r)
      BY <1>0, <2>2 DEF LockInv, SendersKnown, SenderKnown
    <3> QED
      BY <1>1, <2>1, <3>1 DEF SenderKnown
  <2>3. CASE r \notin InHand
    BY <1>1, <2>1, <2>3 DEF SenderKnown, Connected, Before
  <2> QED
    BY <2>2, <2>3
<1>3. SendersKnown'
  BY <1>2 DEF SendersKnown, SenderKnown
<1>4. holds' = holds => NothingBefore'
  BY <1>0 DEF LockInv, NothingBefore, Accepted
<1> QED
  BY <1>3, <1>4

LEMMA LocksStay ==
  ASSUME Inv, UNCHANGED <<files, at, stage, holds>>, strayed \subseteq strayed'
  PROVE  LocksHeld'
BY DEF Inv, LockInv, LocksHeld, Connected

LEMMA HandOverKeeps ==
  ASSUME Inv, NEW fd \in Fd, HandOver(fd) PROVE Inv'
<1>0. TypeOK /\ LockInv
  BY DEF Inv
<1> DEFINE c == at[fd] r == wire[at[fd]]
           m == [op |-> r.op, key |-> r.key, arg |-> r.arg, fd |-> fd, from |-> c]
<1>1. /\ c # NULL /\ Connected(c) /\ r # NULL
      /\ queue' = {m} /\ wire' = [wire EXCEPT ![c] = NULL]
      /\ UNCHANGED <<files, call, serving, evicting, at, stage, response, holds, strayed>>
  BY DEF HandOver, store, history
<1>2. c \in Client /\ r \in Request
  BY <1>0, <1>1 DEF TypeOK
<1>3. m \in Task /\ m.fd = fd /\ m.from = c
  BY <1>2 DEF Request, Task
<1> HIDE DEF m
<1>4. TypeOK'
  BY <1>0, <1>1, <1>2, <1>3 DEF TypeOK
<1>5. OneAtATime'
  BY <1>0, <1>1 DEF LockInv, OneAtATime
<1>6. InHand' \subseteq InHand \cup {m} /\ InHand' \subseteq Task
  BY <1>0, <1>1, <1>3 DEF InHand, TypeOK, Range
<1>7. SendersKnown' /\ NothingBefore'
  BY <1>1, <1>3, <1>6, SendersStay
<1>8. LocksHeld'
  BY <1>1, LocksStay
<1> QED
  BY <1>4, <1>5, <1>7, <1>8 DEF Inv, LockInv

LEMMA DispatchKeeps ==
  ASSUME Inv, NEW w \in Worker, Dispatch(w) PROVE Inv'
<1>0. TypeOK /\ LockInv
  BY DEF Inv
<1>1. PICK r \in queue :
        /\ queue' = queue \ {r}
        /\ IF r.op = "APPEND_TO_FILE" THEN UNCHANGED <<serving, call>>
           ELSE serving' = [serving EXCEPT ![w] = r] /\ call' = [call EXCEPT ![w] = r]
  BY DEF Dispatch
<1>2. /\ serving[w] = NULL
      /\ UNCHANGED <<files, evicting, at, stage, wire, response, holds, strayed>>
  BY DEF Dispatch, client, history
<1>3. r \in Task
  BY <1>0 DEF TypeOK
<1>4. TypeOK'
  <2>1. /\ queue' \subseteq Task /\ serving' \in [Worker -> Task \cup {NULL}]
        /\ call' \in [Worker -> Task \cup {NULL}]
    BY <1>0, <1>1, <1>3 DEF TypeOK
  <2> QED
    BY <1>0, <1>2, <2>1 DEF TypeOK
<1>5. OneAtATime'
  BY <1>0, <1>1, <1>2, <1>3 DEF LockInv, OneAtATime, TypeOK
<1>6. InHand' \subseteq InHand /\ InHand' \subseteq Task
  BY <1>0, <1>1, <1>3 DEF InHand, TypeOK, Range
<1>7. SendersKnown' /\ NothingBefore'
  BY <1>2, <1>6, SendersStay
<1>8. LocksHeld'
  BY <1>2, LocksStay
<1> QED
  BY <1>4, <1>5, <1>7, <1>8 DEF Inv, LockInv

LEMMA TailFacts ==
  ASSUME NEW S, NEW s \in Seq(S), s # <<>>
  PROVE  /\ Tail(s) \in Seq(S) /\ Len(Tail(s)) = Len(s) - 1 /\ Len(s) > 0
         /\ Len(s) = 1 => Tail(s) = <<>>
<1>1. Tail(s) \in Seq(S) /\ Len(s) \in Nat /\ Len(s) > 0 /\ Len(Tail(s)) = Len(s) - 1
  OBVIOUS
<1> QED
  BY <1>1

LEMMA RespondKeeps ==
  ASSUME Inv, NEW w \in Worker, Respond(w) PROVE Inv'
<1>0. TypeOK /\ LockInv
  BY DEF Inv
<1>1. /\ response[w] # <<>> /\ response' = [response EXCEPT ![w] = Tail(@)]
      /\ serving' = IF Len(response[w]) = 1 THEN [serving EXCEPT ![w] = NULL] ELSE serving
      /\ UNCHANGED <<files, call, evicting, queue, at, stage, wire, holds, strayed>>
  BY DEF Respond, store, history
<1>2. Len(response[w]) \in 0 .. 2 /\ response[w] \in Seq(Range(response[w]))
  BY <1>0 DEF TypeOK
<1>3. /\ Tail(response[w]) \in Seq(Range(response[w]))
      /\ Len(Tail(response[w])) = Len(response[w]) - 1 /\ Len(response[w]) > 0
      /\ Len(response[w]) = 1 => Tail(response[w]) = <<>>
  BY <1>1, <1>2, TailFacts
<1>4. Tail(response[w]) \in Seq(Range(Tail(response[w])))
  BY <1>3, SeqOfItsRange
<1>5. DOMAIN response' = Worker /\ response'[w] = Tail(response[w])
      /\ \A v \in Worker \ {w} : response'[v] = response[v]
  BY <1>0, <1>1 DEF TypeOK
<1>6. TypeOK'
  <2>1. \A v \in Worker : Len(response'[v]) \in 0 .. 2 /\ response'[v] \in Seq(Range(response'[v]))
    <3> SUFFICES ASSUME NEW v \in Worker
                 PROVE  Len(response'[v]) \in 0 .. 2 /\ response'[v] \in Seq(Range(response'[v]))
      OBVIOUS
    <3>1. CASE v = w
      <4>1. response'[v] = Tail(response[w])
        BY <1>5, <3>1
      <4>2. Len(Tail(response[w])) \in 0 .. 2
        BY <1>2, <1>3
      <4> QED
        BY <1>4, <4>1, <4>2
    <3>2. CASE v # w
      <4>1. response'[v] = response[v]
        BY <1>5, <3>2
      <4> QED
        BY <1>0, <4>1 DEF TypeOK
    <3> QED
      BY <3>1, <3>2
  <2> QED
    BY <1>0, <1>1, <1>5, <2>1 DEF TypeOK
<1>7. OneAtATime'
  <2>1. call[w] = NULL /\ w \notin evicting
    BY <1>0, <1>1 DEF LockInv, OneAtATime
  <2> SUFFICES ASSUME NEW v \in Worker
               PROVE  /\ call[v] # NULL => /\ call[v] = serving'[v] /\ v \notin evicting
                                           /\ response'[v] = <<>>
                      /\ v \in evicting => serving'[v] # NULL /\ response'[v] = <<>>
                      /\ response'[v] # <<>> => serving'[v] # NULL
    BY <1>1 DEF OneAtATime
  <2>2. CASE v = w
    BY <1>0, <1>1, <1>3, <1>5, <2>1, <2>2 DEF LockInv, OneAtATime, TypeOK
  <2>3. CASE v # w
    BY <1>0, <1>1, <1>5, <2>3 DEF LockInv, OneAtATime, TypeOK
  <2> QED
    BY <2>2, <2>3
<1>8. InHand' \subseteq InHand /\ InHand' \subseteq Task
  BY <1>0, <1>1 DEF InHand, TypeOK, Range
<1>9. SendersKnown' /\ NothingBefore'
  BY <1>1, <1>8, SendersStay
<1>10. LocksHeld'
  BY <1>1, LocksStay
<1> QED
  BY <1>6, <1>7, <1>9, <1>10 DEF Inv, LockInv

LEMMA HandleKeeps ==
  ASSUME Inv, NEW w \in Worker, Handle(w) PROVE Inv'
<1>0. TypeOK /\ LockInv
  BY DEF Inv
<1> DEFINE r == serving[w] o == Do(files, serving[w])
<1>1. call[w] # NULL /\ call[w] = r /\ w \notin evicting /\ response[w] = <<>>
  BY <1>0 DEF Handle, Store!Perform, LockInv, OneAtATime
<1>2. r \in Task /\ r # NULL /\ r \in InHand
  BY <1>0, <1>1 DEF TypeOK, InHand, Range
<1>3. r.from \in Client /\ r.fd \in Fd /\ r.key \in Key /\ at[r.fd] \in Client \cup {NULL}
      /\ SenderKnown(r)
  BY <1>0, <1>2 DEF Task, TypeOK, LockInv, SendersKnown, SenderKnown
<1>4. Effect(files, r, o)
  BY <1>0, <1>2, DoEffect DEF TypeOK
<1>5. /\ files' = o.files /\ call' = [call EXCEPT ![w] = NULL]
      /\ evicting' \in {evicting, evicting \cup {w}}
  BY <1>1, SameOps DEF Handle, Store!Perform
<1>6. UNCHANGED <<serving, queue, at, stage, wire>>
  BY DEF Handle, client
<1>7. /\ w \in evicting' => response' = response
      /\ w \notin evicting' => \E m \in Responses(r, o.err) : response' = [response EXCEPT ![w] = m]
  BY DEF Handle
<1>8. /\ Connected(r.from) =>
           /\ strayed' \in {strayed, strayed \cup {r.from}}
           /\ holds' = IF o.err = "OK" THEN [holds EXCEPT ![r.from] = HoldsAfter(r)] ELSE holds
      /\ ~Connected(r.from) => strayed' = strayed /\ holds' = holds
  BY DEF Handle
<1> HIDE DEF r, o
<1>9. HoldsAfter(r) \subseteq Key
  BY <1>0, <1>3 DEF HoldsAfter, TypeOK
<1>10. strayed \subseteq strayed' /\ strayed' \subseteq Client /\ holds' \in [Client -> SUBSET Key]
  <2>1. strayed \subseteq strayed' /\ strayed' \subseteq Client
    BY <1>0, <1>3, <1>8 DEF TypeOK
  <2>2. [holds EXCEPT ![r.from] = HoldsAfter(r)] \in [Client -> SUBSET Key]
    BY <1>0, <1>3, <1>9 DEF TypeOK
  <2> QED
    BY <1>0, <1>8, <2>1, <2>2 DEF TypeOK
<1>11. /\ DOMAIN response' = Worker /\ \A v \in Worker \ {w} : response'[v] = response[v]
       /\ Len(response'[w]) \in 0 .. 2 /\ response'[w] \in Seq(Range(response'[w]))
       /\ w \in evicting' => response'[w] = <<>>
  <2>1. CASE w \in evicting'
    BY <1>0, <1>1, <1>7, <2>1 DEF TypeOK
  <2>2. CASE w \notin evicting'
    <3>1. PICK m \in Responses(r, o.err) : response' = [response EXCEPT ![w] = m]
      BY <1>7, <2>2
    <3>2. DOMAIN response' = Worker /\ response'[w] = m
          /\ \A v \in Worker \ {w} : response'[v] = response[v]
      BY <1>0, <3>1 DEF TypeOK
    <3>3. Len(m) \in 1 .. 2 /\ m \in Seq(Range(m))
      BY ResponsesShape
    <3> QED
      BY <2>2, <3>2, <3>3
  <2> QED
    BY <2>1, <2>2
<1>12. TypeOK'
  <2>1. files' \in Files
    BY <1>4, <1>5 DEF Effect
  <2>2. call' \in [Worker -> Task \cup {NULL}] /\ evicting' \subseteq Worker
    BY <1>0, <1>5 DEF TypeOK
  <2>3. \A v \in Worker : Len(response'[v]) \in 0 .. 2 /\ response'[v] \in Seq(Range(response'[v]))
    <3> SUFFICES ASSUME NEW v \in Worker, v # w
                 PROVE  Len(response'[v]) \in 0 .. 2 /\ response'[v] \in Seq(Range(response'[v]))
      BY <1>11
    <3>1. response'[v] = response[v]
      BY <1>11
    <3> QED
      BY <1>0, <3>1 DEF TypeOK
  <2> QED
    BY <1>0, <1>6, <1>10, <1>11, <2>1, <2>2, <2>3 DEF TypeOK
<1>13. OneAtATime'
  <2>1. call'[w] = NULL /\ \A v \in Worker \ {w} : call'[v] = call[v]
    BY <1>0, <1>5 DEF TypeOK
  <2> SUFFICES ASSUME NEW v \in Worker
               PROVE  /\ call'[v] # NULL => /\ call'[v] = serving[v] /\ v \notin evicting'
                                            /\ response'[v] = <<>>
                      /\ v \in evicting' => serving[v] # NULL /\ response'[v] = <<>>
                      /\ response'[v] # <<>> => serving[v] # NULL
    BY <1>6 DEF OneAtATime
  <2>2. CASE v = w
    BY <1>2, <1>11, <2>1, <2>2 DEF r
  <2>3. CASE v # w
    <3>1. response'[v] = response[v] /\ (v \in evicting' <=> v \in evicting)
      BY <1>5, <1>11, <2>3
    <3> QED
      BY <1>0, <2>1, <2>3, <3>1 DEF LockInv, OneAtATime
  <2> QED
    BY <2>2, <2>3
<1>14. InHand' = InHand /\ InHand' \subseteq Task
  BY <1>0, <1>6 DEF InHand, TypeOK, Range
<1>15. SendersKnown'
  BY <1>6, <1>10, <1>14, SendersStay
<1>16. \A d \in Client : Connected(d)' <=> Connected(d)
  BY <1>6 DEF Connected
<1>17. NothingBefore'
  <2> SUFFICES ASSUME NEW d \in Client, stage[d] \in Before PROVE ~Accepted(d)' /\ holds'[d] = {}
    BY <1>6 DEF NothingBefore
  <2>1. ~Accepted(d) /\ holds[d] = {} /\ d # r.from
    BY <1>0, <1>3 DEF LockInv, NothingBefore, SenderKnown
  <2>2. holds'[d] = holds[d]
    BY <1>0, <1>8, <2>1 DEF TypeOK
  <2> QED
    BY <1>6, <2>1, <2>2 DEF Accepted
<1>18. LocksHeld'
  <2> SUFFICES ASSUME NEW d \in Client, Connected(d), d \notin strayed, NEW k \in holds'[d]
               PROVE  files'[k] # NULL /\ files'[k].is_locked /\ at[files'[k].fd_owner] = d
    BY <1>6, <1>10, <1>16 DEF LocksHeld
  <2>1. k \in Key
    BY <1>10
  <2>2. \A j \in holds[d] : files[j] # NULL /\ files[j].is_locked /\ at[files[j].fd_owner] = d
    BY <1>0 DEF LockInv, LocksHeld
  <2>3. CASE k # r.key
    <3>1. files'[k] = files[k]
      BY <1>4, <1>5, <2>1, <2>3 DEF Effect
    <3>2. k \in holds[d]
      BY <1>0, <1>3, <1>8, <2>3, SMTT(30) DEF HoldsAfter, TypeOK
    <3> QED
      BY <2>2, <3>1, <3>2
  <2>4. CASE k = r.key
    <3>0. LockAfter(files[k], r, files'[k], o.err)
      BY <1>4, <1>5, <2>4 DEF Effect
    <3>1. CASE d = r.from
      <4>0. at[r.fd] = d /\ holds' = IF o.err = "OK" THEN [holds EXCEPT ![d] = HoldsAfter(r)] ELSE holds
        BY <1>3, <1>8, <3>1 DEF SenderKnown
      <4>1. CASE o.err = "OK" /\ r.op \in Locking
        BY <3>0, <4>0, <4>1 DEF LockAfter
      <4>2. CASE ~(o.err = "OK" /\ r.op \in Locking)
        <5>1. k \in holds[d] /\ ~(o.err = "OK" /\ r.op \in {"UNLOCK_FILE", "REMOVE_FILE", "OPEN_FILE"})
          <6>1. CASE o.err = "OK"
            <7>1. holds'[d] = HoldsAfter(r) /\ r.op \notin Locking
              BY <1>0, <4>0, <4>2, <6>1 DEF TypeOK
            <7> QED
              BY <2>4, <3>1, <7>1 DEF HoldsAfter, Locking
          <6>2. CASE o.err # "OK"
            BY <4>0, <6>2
          <6> QED
            BY <6>1, <6>2
        <5> QED
          BY <2>2, <3>0, <4>0, <5>1 DEF LockAfter
      <4> QED
        BY <4>1, <4>2
    <3>2. CASE d # r.from
      <4>1. holds'[d] = holds[d]
        BY <1>0, <1>8, <3>2 DEF TypeOK
      <4>2. files[k] # NULL /\ files[k].is_locked /\ at[files[k].fd_owner] = d
        BY <2>2, <4>1
      <4>3. files[k].fd_owner # r.fd
        BY <1>3, <3>2, <4>2 DEF SenderKnown
      <4> QED
        BY <3>0, <4>2, <4>3 DEF LockAfter, HTableError, Range
    <3> QED
      BY <3>1, <3>2
  <2> QED
    BY <2>3, <2>4
<1> QED
  BY <1>12, <1>13, <1>15, <1>17, <1>18 DEF Inv, LockInv

LEMMA EvictFileKeeps ==
  ASSUME Inv, NEW w \in Worker, NEW k \in Key, EvictFile(w, k) PROVE Inv'
<1>0. TypeOK /\ LockInv
  BY DEF Inv
<1>1. /\ files' = [files EXCEPT ![k] = NULL] /\ holds' = [c \in Client |-> holds[c] \ {k}]
      /\ UNCHANGED <<call, serving, evicting, queue, at, stage, wire, response, strayed>>
  BY DEF EvictFile, Store!Evict, client
<1>2. TypeOK'
  BY <1>0, <1>1 DEF TypeOK, Files
<1>3. OneAtATime'
  BY <1>0, <1>1 DEF LockInv, OneAtATime
<1>4. InHand' = InHand /\ InHand' \subseteq Task
  BY <1>0, <1>1 DEF InHand, TypeOK, Range
<1>5. SendersKnown'
  BY <1>1, <1>4, SendersStay
<1>6. NothingBefore'
  BY <1>0, <1>1 DEF LockInv, NothingBefore, Accepted
<1>7. LocksHeld'
  <2> SUFFICES ASSUME NEW d \in Client, Connected(d), d \notin strayed, NEW j \in holds'[d]
               PROVE  files'[j] # NULL /\ files'[j].is_locked /\ at[files'[j].fd_owner] = d
    BY <1>1 DEF LocksHeld, Connected
  <2>1. j \in holds[d] /\ j # k
    BY <1>1
  <2>2. files[j] # NULL /\ files[j].is_locked /\ at[files[j].fd_owner] = d
    BY <1>0, <2>1 DEF LockInv, LocksHeld
  <2>3. files'[j] = files[j]
    BY <1>0, <1>1, <2>1 DEF TypeOK, Files
  <2> QED
    BY <2>2, <2>3
<1> QED
  BY <1>2, <1>3, <1>5, <1>6, <1>7 DEF Inv, LockInv

LEMMA EvictEndKeeps ==
  ASSUME Inv, NEW w \in Worker, EvictEnd(w) PROVE Inv'
<1>0. TypeOK /\ LockInv
  BY DEF Inv
<1>1. PICK x : response' = [response EXCEPT ![w] = <<x>>]
  BY DEF EvictEnd
<1>2. /\ w \in evicting /\ evicting' = evicting \ {w}
      /\ UNCHANGED <<files, call, serving, queue, at, stage, wire, holds, strayed>>
  BY DEF EvictEnd, Store!EvictEnd, client, history
<1>3. /\ DOMAIN response' = Worker /\ response'[w] = <<x>>
      /\ \A v \in Worker \ {w} : response'[v] = response[v]
  BY <1>0, <1>1 DEF TypeOK
<1>4. <<x>> \in Seq({x}) /\ Len(<<x>>) = 1
  OBVIOUS
<1>5. <<x>> \in Seq(Range(<<x>>))
  BY <1>4, SeqOfItsRange
<1>6. \A v \in Worker : Len(response'[v]) \in 0 .. 2 /\ response'[v] \in Seq(Range(response'[v]))
  <2> SUFFICES ASSUME NEW v \in Worker
               PROVE  Len(response'[v]) \in 0 .. 2 /\ response'[v] \in Seq(Range(response'[v]))
    OBVIOUS
  <2>1. CASE v = w
    <3>1. response'[v] = <<x>>
      BY <1>3, <2>1
    <3> QED
      BY <1>4, <1>5, <3>1
  <2>2. CASE v # w
    <3>1. response'[v] = response[v]
      BY <1>3, <2>2
    <3> QED
      BY <1>0, <3>1 DEF TypeOK
  <2> QED
    BY <2>1, <2>2
<1>7. TypeOK'
  BY <1>0, <1>2, <1>3, <1>6 DEF TypeOK
<1>8. OneAtATime'
  <2>1. serving[w] # NULL /\ call[w] = NULL
    BY <1>0, <1>2 DEF LockInv, OneAtATime
  <2> SUFFICES ASSUME NEW v \in Worker
               PROVE  /\ call[v] # NULL => /\ call[v] = serving[v] /\ v \notin evicting'
                                           /\ response'[v] = <<>>
                      /\ v \in evicting' => serving[v] # NULL /\ response'[v] = <<>>
                      /\ response'[v] # <<>> => serving[v] # NULL
    BY <1>2 DEF OneAtATime
  <2>2. CASE v = w
    BY <1>2, <2>1, <2>2
  <2>3. CASE v # w
    <3>1. response'[v] = response[v] /\ (v \in evicting' <=> v \in evicting)
      BY <1>2, <1>3, <2>3
    <3> QED
      BY <1>0, <2>3, <3>1 DEF LockInv, OneAtATime
  <2> QED
    BY <2>2, <2>3
<1>9. InHand' = InHand /\ InHand' \subseteq Task
  BY <1>0, <1>2 DEF InHand, TypeOK, Range
<1>10. SendersKnown' /\ NothingBefore'
  BY <1>2, <1>9, SendersStay
<1>11. LocksHeld'
  BY <1>2, LocksStay
<1> QED
  BY <1>7, <1>8, <1>10, <1>11 DEF Inv, LockInv

LEMMA NextInv ==
  ASSUME Inv, [Next]_vars PROVE Inv'
<1>0. TypeOK
  BY DEF Inv
<1>1. CASE Listen \/ Stop
  <2>1. UNCHANGED watched
    BY <1>1 DEF Listen, Stop, watched, store, client, server, history
  <2> QED
    BY <2>1, StillKeeps
<1>2. ASSUME NEW c \in Client,
             \/ OpenConnection(c) \/ Tick(c) \/ Attempt(c) \/ Accept(c) \/ Call(c)
             \/ ClientStep(c) \/ Abort(c) \/ CloseConnection(c) \/ Die(c)
      PROVE  Inv'
  <2>1. CASE OpenConnection(c) \/ Attempt(c)
    BY <2>1, OpenConnectionKeeps
  <2>2. CASE Tick(c)
    <3>1. UNCHANGED watched
      BY <2>2 DEF Tick, watched, store, server, history
    <3> QED
      BY <3>1, StillKeeps
  <2>3. CASE Accept(c)
    BY <2>3, AcceptKeeps
  <2>4. CASE Call(c)
    BY <1>0, <2>4, CallGoesOrEnds, GoesKeeps, EndsKeeps
  <2>5. CASE ClientStep(c)
    BY <1>0, <2>5, ReadingGoes, GoesKeeps
  <2>6. CASE Abort(c) \/ CloseConnection(c) \/ Die(c)
    BY <1>0, <2>6, EndsEnd, EndsKeeps
  <2> QED
    BY <1>2, <2>1, <2>2, <2>3, <2>4, <2>5, <2>6
<1>3. ASSUME NEW fd \in Fd, HandOver(fd) \/ Drop(fd) PROVE Inv'
  BY <1>3, HandOverKeeps, DropKeeps
<1>4. ASSUME NEW w \in Worker, WorkerStep(w) PROVE Inv'
  <2>1. CASE Crash(w)
    <3>1. UNCHANGED watched
      BY <2>1 DEF Crash, Store!Fail, watched, client, server, history
    <3> QED
      BY <3>1, StillKeeps
  <2> QED
    BY <1>4, <2>1, DispatchKeeps, HandleKeeps, EvictEndKeeps, RespondKeeps, EvictFileKeeps
       DEF WorkerStep
<1>5. CASE UNCHANGED vars
  <2>1. UNCHANGED watched
    BY <1>5 DEF vars, watched, store, client, server, history
  <2> QED
    BY <2>1, StillKeeps
<1> QED
  BY <1>1, <1>2, <1>3, <1>4, <1>5 DEF Next

\* A client that opened a file with O_LOCK keeps its lock in spite of all that other
\* clients ask of the handlers in worker.c, of connections that are dropped and of
\* descriptors that are given out again, until it gives the lock up or the file is
\* evicted: for any number of clients, descriptors and files, on a server with one worker.
THEOREM OpenLocksAreKept == Spec => []OpenLockKept
<1>1. Inv => OpenLockKept
  BY DEF Inv, LockInv, LocksHeld, OpenLockKept, AtRest, Connected, Gone
<1> QED
  BY <1>1, InitInv, NextInv, PTL DEF Spec

-----------------------------------------------------------------------------
(* Bytes. *)

Byte == Int \cup Key

LEMMA FunctionIsSeq ==
  ASSUME NEW S, NEW n \in Nat, NEW f \in [1 .. n -> S] PROVE f \in Seq(S) /\ Len(f) = n
OBVIOUS

LEMMA Assoc ==
  \A x, y, z \in Seq(Byte) : (x \o y) \o z = x \o (y \o z)
BY ConcatAssociative

\* What read_bytes takes from the socket, and what it leaves.
LEMMA Cut ==
  ASSUME NEW a \in Seq(Byte), NEW b \in Seq(Byte), NEW n \in Nat, Len(a) = n
  PROVE  /\ a \o b \in Seq(Byte) /\ Len(a \o b) >= n
         /\ SubSeq((a \o b) \o Zeros(n), 1, n) = a
         /\ SubSeq(a \o b, n + 1, Len(a \o b)) = b
<1> DEFINE s == a \o b
<1>1. /\ s \in Seq(Byte) /\ Len(s) = n + Len(b)
      /\ \A i \in 1 .. n + Len(b) : s[i] = IF i <= n THEN a[i] ELSE b[i - n]
  <2>1. /\ s \in Seq(Byte) /\ Len(s) = Len(a) + Len(b)
        /\ \A i \in 1 .. Len(a) + Len(b) : s[i] = IF i <= Len(a) THEN a[i] ELSE b[i - Len(a)]
    <3>1. s \in Seq(Byte) /\ Len(s) = Len(a) + Len(b)
      OBVIOUS
    <3>2. \A i \in 1 .. Len(a) + Len(b) : s[i] = IF i <= Len(a) THEN a[i] ELSE b[i - Len(a)]
      OBVIOUS
    <3> QED
      BY <3>1, <3>2
  <2> HIDE DEF s
  <2> QED
    BY <2>1
<1>2. Zeros(n) \in Seq(Byte) /\ Len(Zeros(n)) = n
  BY DEF Zeros, Byte
<1> HIDE DEF s
<1>3. /\ s \o Zeros(n) \in Seq(Byte)
      /\ \A i \in 1 .. n : (s \o Zeros(n))[i] = a[i]
  <2>1. /\ s \o Zeros(n) \in Seq(Byte)
        /\ \A i \in 1 .. Len(s) + Len(Zeros(n)) : (s \o Zeros(n))[i] =
             IF i <= Len(s) THEN s[i] ELSE Zeros(n)[i - Len(s)]
    BY <1>1, <1>2, ConcatProperties
  <2>2. \A i \in 1 .. n : i <= Len(s) /\ i \in 1 .. Len(s) + Len(Zeros(n)) /\ i \in 1 .. n + Len(b)
    BY <1>1, <1>2
  <2> QED
    BY <1>1, <2>1, <2>2
<1>4. SubSeq(s \o Zeros(n), 1, n) = a
  <2> DEFINE t == s \o Zeros(n)
  <2>0. \A i \in 1 .. n : a[i] \in Byte
    BY LenProperties
  <2>1. \A i \in 1 .. n : t[i] \in Byte /\ t[i] = a[i]
    BY <1>3, <2>0
  <2>a. 1 \in Int /\ n \in Int
    OBVIOUS
  <2> HIDE DEF t
  <2>2. /\ SubSeq(t, 1, n) \in Seq(Byte)
        /\ Len(SubSeq(t, 1, n)) = IF 1 <= n THEN n - 1 + 1 ELSE 0
        /\ \A i \in 1 .. n - 1 + 1 : SubSeq(t, 1, n)[i] = t[1 + i - 1]
    BY <2>1, <2>a, SubSeqProperties
  <2>3. n - 1 + 1 = n /\ \A i \in 1 .. n : 1 + i - 1 = i
    OBVIOUS
  <2>4. Len(SubSeq(t, 1, n)) = n /\ \A i \in 1 .. n : SubSeq(t, 1, n)[i] = a[i]
    BY <2>1, <2>2, <2>3
  <2> QED
    BY <2>2, <2>4, SeqEqual DEF t
<1>5. SubSeq(s, n + 1, Len(s)) = b
  <2>1. \A i \in n + 1 .. Len(s) : s[i] \in Byte
    BY <1>1
  <2>2. /\ SubSeq(s, n + 1, Len(s)) \in Seq(Byte)
        /\ Len(SubSeq(s, n + 1, Len(s))) = IF n + 1 <= Len(s) THEN Len(s) - (n + 1) + 1 ELSE 0
        /\ \A i \in 1 .. Len(s) - (n + 1) + 1 : SubSeq(s, n + 1, Len(s))[i] = s[n + 1 + i - 1]
    BY <1>1, <2>1, SubSeqProperties
  <2>3. Len(s) - (n + 1) + 1 = Len(b) /\ Len(SubSeq(s, n + 1, Len(s))) = Len(b)
    BY <1>1, <2>2
  <2>4. \A i \in 1 .. Len(b) : s[n + 1 + i - 1] = b[i]
    BY <1>1
  <2> QED
    BY <2>2, <2>3, <2>4, SeqEqual, SMTT(30)
<1> QED
  BY <1>1, <1>4, <1>5 DEF s

LEMMA CutFront ==
  ASSUME NEW a \in Seq(Byte), NEW b \in Seq(Byte)
  PROVE  SubSeq((a \o b) \o Zeros(Len(a)), 1, Len(a)) = a
<1> DEFINE n == Len(a)
<1>1. n \in Nat /\ Len(a) = n
  OBVIOUS
<1> HIDE DEF n
<1>2. SubSeq((a \o b) \o Zeros(n), 1, n) = a
  BY <1>1, Cut
<1> QED
  BY <1>2 DEF n

LEMMA CutAll ==
  ASSUME NEW a \in Seq(Byte), NEW n \in Nat, Len(a) = n
  PROVE  /\ Len(a) >= n /\ SubSeq(a \o Zeros(n), 1, n) = a
         /\ SubSeq(a, n + 1, Len(a)) = <<>>
<1>1. a \o <<>> = a /\ <<>> \in Seq(Byte)
  BY ConcatEmptySeq
<1> QED
  BY <1>1, Cut

LEMMA Number ==
  ASSUME NEW n \in Int
  PROVE  /\ U64ToBigEndian(n) \in Seq(Byte) /\ Len(U64ToBigEndian(n)) = U64
         /\ BigEndianToU64(U64ToBigEndian(n)) = n
<1>1. U64ToBigEndian(n) \in [1 .. 8 -> Byte]
  BY DEF U64ToBigEndian, U64, Byte
<1>4. U64ToBigEndian(n) \in Seq(Byte) /\ Len(U64ToBigEndian(n)) = 8
  <2>1. 8 \in Nat
    OBVIOUS
  <2> QED
    BY <1>1, <2>1, FunctionIsSeq, ZenonT(30)
<1>2. U64ToBigEndian(n)[8] = n /\ \A i \in 1 .. 7 : U64ToBigEndian(n)[i] = 0
  BY DEF U64ToBigEndian, U64
<1>3. BigEndianToU64(U64ToBigEndian(n)) = n
  <2>1. 1 .. U64 - 1 = 1 .. 7 /\ U64 = 8
    BY DEF U64
  <2> QED
    BY <1>2, <2>1 DEF BigEndianToU64
<1> QED
  BY <1>3, <1>4 DEF U64

LEMMA SmallBytes ==
  ASSUME NEW n \in Nat, NEW k \in Key
  PROVE  /\ Contents(n) \in Seq(Byte) /\ Len(Contents(n)) = n
         /\ Path(k) \in Seq(Byte) /\ Len(Path(k)) = 1
         /\ FileBytes(k, n) \in Seq(Byte)
         /\ FileBytes(k, n) = (U64ToBigEndian(1) \o U64ToBigEndian(n)) \o (Path(k) \o Contents(n))
<1>1. Contents(n) \in Seq(Byte) /\ Len(Contents(n)) = n
  BY DEF Contents, Content, Byte
<1>2. Path(k) \in Seq(Byte) /\ Len(Path(k)) = 1
  BY DEF Path, Byte
<1>3. /\ U64ToBigEndian(1) \o U64ToBigEndian(n) \in Seq(Byte)
      /\ Path(k) \o Contents(n) \in Seq(Byte)
  BY <1>1, <1>2, Number, ConcatProperties
<1>4. FileBytes(k, n) = ((U64ToBigEndian(1) \o U64ToBigEndian(n)) \o Path(k)) \o Contents(n)
  BY DEF FileBytes, Contents
<1>5. FileBytes(k, n) = (U64ToBigEndian(1) \o U64ToBigEndian(n)) \o (Path(k) \o Contents(n))
  BY <1>1, <1>2, <1>3, <1>4, ConcatAssociative, SMTT(30)
<1> QED
  BY <1>1, <1>2, <1>3, <1>5, ConcatProperties

\* g joins the first parts of b, one more at each step.
Joins(b, g) ==
  /\ g \in [0 .. Len(b) -> Seq(Byte)] /\ g[0] = <<>>
  /\ \A n \in 1 .. Len(b) : g[n] = g[n - 1] \o b[n]

LEMMA FlattenRule ==
  ASSUME NEW b \in Seq(Seq(Byte))
  PROVE  \E g : Joins(b, g) /\ Seqs!FlattenSeq(b) = g[Len(b)]
<1> DEFINE L == Len(b)
           A == Seq(Byte)
           step == [n \in 1 .. L |-> [r \in A |-> r \o b[n]]]
           flatten[i \in 1 .. L] == IF i = 1 THEN b[i] ELSE flatten[i - 1] \o b[i]
<1>1. L \in Nat /\ b \in [1 .. L -> A] /\ <<>> \in A
  OBVIOUS
<1>2. step \in [1 .. L -> [A -> A]]
  <2>1. ASSUME NEW n \in 1 .. L, NEW r \in A PROVE r \o b[n] \in A
    <3>1. b[n] \in A
      BY <1>1
    <3> QED
      BY <3>1
  <2> QED
    BY <2>1
<1>3. \A n \in 1 .. L, r \in A : step[n][r] = r \o b[n]
  OBVIOUS
<1>4. L # 0 => Seqs!FlattenSeq(b) = flatten[L]
  BY DEF Seqs!FlattenSeq
<1>5. L = 0 => Seqs!FlattenSeq(b) = <<>>
  BY DEF Seqs!FlattenSeq
<1>6. L = Len(b)
  OBVIOUS
<1> HIDE DEF L, step
<1>7. PICK g \in [0 .. L -> A] : g[0] = <<>> /\ \A n \in 1 .. L : g[n] = step[n][g[n - 1]]
  <2>1. L \in Nat /\ <<>> \in A
    BY <1>1
  <2> HIDE DEF A
  <2>2. \E g : RecursionRule(A, <<>>, step, L, g)
    BY <1>2, <2>1, Recursion
  <2> QED
    BY <2>2 DEF RecursionRule
<1>8. ASSUME NEW n \in 1 .. L
      PROVE  /\ g[n] = g[n - 1] \o b[n] /\ g[n] \in A /\ g[n - 1] \in A
             /\ n = 1 => g[n] = b[n]
  <2>1. n - 1 \in 0 .. L /\ n \in 0 .. L
    BY <1>1
  <2>2. g[n - 1] \in A /\ g[n] \in A /\ b[n] \in A
    BY <1>1, <1>7, <2>1
  <2>3. g[n] = g[n - 1] \o b[n]
    BY <1>3, <1>7, <2>2
  <2>4. n = 1 => g[n - 1] = <<>>
    BY <1>7
  <2>5. <<>> \o b[n] = b[n]
    BY <2>2, ConcatEmptySeq
  <2> QED
    BY <2>2, <2>3, <2>4, <2>5
<1>9. Joins(b, g)
  BY <1>6, <1>7, <1>8 DEF Joins
<1> DEFINE f == [i \in 1 .. L |-> g[i]]
<1>10. f = [i \in 1 .. L |-> IF i = 1 THEN b[i] ELSE f[i - 1] \o b[i]]
  <2>1. ASSUME NEW i \in 1 .. L PROVE f[i] = IF i = 1 THEN b[i] ELSE f[i - 1] \o b[i]
    <3>1. CASE i = 1
      BY <1>8, <3>1
    <3>2. CASE i # 1
      <4>1. i - 1 \in 1 .. L
        BY <1>1, <3>2
      <4> QED
        BY <1>8, <3>2, <4>1
    <3> QED
      BY <3>1, <3>2
  <2> QED
    BY <2>1
<1> HIDE DEF f
<1>11. flatten = [i \in 1 .. L |-> IF i = 1 THEN b[i] ELSE flatten[i - 1] \o b[i]]
  BY <1>10
<1>12. PICK h : h = flatten
  OBVIOUS
<1>13. L # 0 => Seqs!FlattenSeq(b) = h[L]
  BY <1>4, <1>12
<1> HIDE DEF flatten
<1>14. h = [i \in 1 .. L |-> IF i = 1 THEN b[i] ELSE h[i - 1] \o b[i]]
  BY <1>11, <1>12
<1> DEFINE S == {n \in 0 .. L : n # 0 => h[n] = g[n]}
<1>15. 0 \in S
  BY <1>1
<1>16. ASSUME NEW n \in 1 .. L, n - 1 \in S PROVE n \in S
  <2>1. CASE n = 1
    BY <1>1, <1>8, <1>14, <2>1
  <2>2. CASE n # 1
    <3>1. n - 1 \in 1 .. L /\ h[n - 1] = g[n - 1]
      BY <1>1, <1>16, <2>2
    <3>2. h[n] = h[n - 1] \o b[n]
      BY <1>14, <2>2
    <3>3. n \in 0 .. L
      BY <1>1
    <3>4. g[n] = g[n - 1] \o b[n]
      BY <1>8
    <3>5. h[n] = g[n]
      BY <3>1, <3>2, <3>4, Zenon
    <3> QED
      BY <3>3, <3>5
  <2> QED
    BY <2>1, <2>2
<1>17. 0 .. L \subseteq S
  <2> HIDE DEF S
  <2> QED
    BY <1>1, <1>15, <1>16, UpTo
<1>18. L # 0 => h[L] = g[L]
  <2>1. L \in 0 .. L
    BY <1>1
  <2> QED
    BY <1>17, <2>1
<1>19. Seqs!FlattenSeq(b) = g[L]
  <2>1. CASE L = 0
    BY <1>5, <1>7, <2>1
  <2>2. CASE L # 0
    BY <1>13, <1>18, <2>2
  <2> QED
    BY <2>1, <2>2
<1> QED
  BY <1>6, <1>9, <1>19

\* Joining from the left is joining the first part with the rest.
LEMMA FlattenFirst ==
  ASSUME NEW b \in Seq(Seq(Byte)), b # <<>>
  PROVE  /\ Seqs!FlattenSeq(b) = b[1] \o Seqs!FlattenSeq(Tail(b))
         /\ b[1] \in Seq(Byte) /\ Seqs!FlattenSeq(Tail(b)) \in Seq(Byte)
<1> DEFINE L == Len(b) t == Tail(b)
<1>1. L \in Nat /\ L >= 1 /\ b \in [1 .. L -> Seq(Byte)]
  OBVIOUS
<1>2. t \in Seq(Seq(Byte)) /\ Len(t) = L - 1
  OBVIOUS
<1>3. \A n \in 1 .. L - 1 : t[n] = b[n + 1] /\ t[n] \in Seq(Byte)
  <2>1. /\ Len(Tail(b)) = Len(b) - 1
        /\ \A i \in 1 .. Len(Tail(b)) : Tail(b)[i] = b[i + 1]
    BY HeadTailProperties
  <2> QED
    BY <1>1, <1>2, <2>1
<1>4. PICK g : Joins(b, g) /\ Seqs!FlattenSeq(b) = g[L]
  BY FlattenRule
<1>5. PICK h : Joins(t, h) /\ Seqs!FlattenSeq(t) = h[L - 1]
  BY <1>2, FlattenRule
<1>6. b[1] \in Seq(Byte)
  BY <1>1
<1>7. \A n \in 0 .. L - 1 : h[n] \in Seq(Byte)
  BY <1>2, <1>5 DEF Joins
<1> HIDE DEF t
<1> DEFINE S == {n \in 0 .. L - 1 : g[n + 1] = b[1] \o h[n]}
<1>8. 0 \in S
  <2>1. g[1] = g[0] \o b[1] /\ g[0] = <<>> /\ h[0] = <<>>
    <3>1. 1 \in 1 .. Len(b) /\ 1 - 1 = 0
      BY <1>1
    <3> QED
      BY <1>4, <1>5, <3>1 DEF Joins
  <2>2. <<>> \o b[1] = b[1] /\ b[1] \o <<>> = b[1]
    BY <1>6, ConcatEmptySeq
  <2> QED
    BY <1>1, <2>1, <2>2
<1>9. ASSUME NEW n \in 1 .. L - 1, n - 1 \in S PROVE n \in S
  <2>1. n \in Nat /\ n + 1 \in 1 .. L /\ (n + 1) - 1 = n /\ n - 1 + 1 = n /\ n - 1 \in 0 .. L - 1
    BY <1>1
  <2>2. g[n] = b[1] \o h[n - 1]
    BY <1>9, <2>1
  <2>3. g[n + 1] = g[n] \o b[n + 1]
    BY <1>4, <2>1 DEF Joins
  <2>4. h[n] = h[n - 1] \o t[n]
    BY <1>2, <1>5 DEF Joins
  <2>5. (b[1] \o h[n - 1]) \o t[n] = b[1] \o (h[n - 1] \o t[n])
    <3>1. h[n - 1] \in Seq(Byte) /\ t[n] \in Seq(Byte)
      BY <1>3, <1>7, <2>1
    <3> QED
      BY <1>6, <3>1, Assoc, Zenon
  <2>6. g[n + 1] = b[1] \o h[n]
    <3>1. t[n] = b[n + 1]
      BY <1>3
    <3>2. g[n + 1] = (b[1] \o h[n - 1]) \o t[n]
      BY <2>2, <2>3, <3>1, Zenon
    <3>3. g[n + 1] = b[1] \o (h[n - 1] \o t[n])
      BY <2>5, <3>2, Zenon
    <3> QED
      BY <2>4, <3>3, Zenon
  <2>7. n \in 0 .. L - 1
    BY <1>1
  <2> QED
    BY <2>6, <2>7
<1>10. 0 .. L - 1 \subseteq S
  <2> HIDE DEF S
  <2>1. L - 1 \in Nat
    BY <1>1
  <2> QED
    BY <1>8, <1>9, <2>1, UpTo
<1>11. g[L - 1 + 1] = b[1] \o h[L - 1] /\ L - 1 + 1 = L /\ L - 1 \in 0 .. L - 1
  <2>1. L - 1 \in 0 .. L - 1 /\ L - 1 + 1 = L
    BY <1>1
  <2>2. L - 1 \in S
    BY <1>10, <2>1
  <2> QED
    BY <2>1, <2>2
<1> QED
  BY <1>4, <1>5, <1>6, <1>7, <1>11 DEF t

\* The bytes of evicted files: those of the first, then those of the others.
LEMMA FilesBytesFirst ==
  ASSUME NEW ev \in Seq(Evicted), ev # <<>>
  PROVE  /\ FilesBytes(ev) = FileBytes(ev[1].key, ev[1].len) \o FilesBytes(Tail(ev))
         /\ FilesBytes(Tail(ev)) \in Seq(Byte)
         /\ Tail(ev) \in Seq(Evicted) /\ Len(Tail(ev)) = Len(ev) - 1
         /\ ev[1].key \in Key /\ ev[1].len \in Nat
         /\ Paths(ev) = {Path(ev[1].key)} \cup Paths(Tail(ev))
<1> DEFINE L == Len(ev)
           b == [i \in DOMAIN ev |-> FileBytes(ev[i].key, ev[i].len)]
           t == Tail(ev)
           c == [i \in DOMAIN t |-> FileBytes(t[i].key, t[i].len)]
<1>1. L \in Nat /\ L >= 1 /\ DOMAIN ev = 1 .. L /\ \A i \in 1 .. L : ev[i] \in Evicted
  OBVIOUS
<1>2. /\ t \in Seq(Evicted) /\ Len(t) = L - 1 /\ DOMAIN t = 1 .. L - 1
      /\ \A i \in 1 .. L - 1 : t[i] = ev[i + 1]
  <2>1. /\ Tail(ev) \in Seq(Evicted) /\ Len(Tail(ev)) = Len(ev) - 1
        /\ \A i \in 1 .. Len(Tail(ev)) : Tail(ev)[i] = ev[i + 1]
    BY HeadTailProperties
  <2>2. DOMAIN t = 1 .. Len(t)
    BY <2>1
  <2> QED
    BY <1>1, <2>1, <2>2
<1>3. \A i \in 1 .. L : FileBytes(ev[i].key, ev[i].len) \in Seq(Byte)
  BY <1>1, SmallBytes DEF Evicted
<1>4. b \in [1 .. L -> Seq(Byte)]
  BY <1>1, <1>3
<1>5. b \in Seq(Seq(Byte)) /\ Len(b) = L
  BY <1>1, <1>4, FunctionIsSeq
<1>6. b # <<>>
  BY <1>1, <1>5
<1> HIDE DEF t
<1>7. /\ Tail(b) \in Seq(Seq(Byte)) /\ Len(Tail(b)) = L - 1
      /\ \A i \in 1 .. L - 1 : Tail(b)[i] = b[i + 1]
  <2> HIDE DEF b
  <2>1. /\ Tail(b) \in Seq(Seq(Byte)) /\ Len(Tail(b)) = Len(b) - 1
        /\ \A i \in 1 .. Len(Tail(b)) : Tail(b)[i] = b[i + 1]
    BY <1>5, <1>6, HeadTailProperties
  <2> QED
    BY <1>5, <2>1
<1>8. \A i \in 1 .. L - 1 : i + 1 \in 1 .. L
  BY <1>1
<1>9. \A i \in 1 .. L - 1 : c[i] = b[i + 1]
  BY <1>1, <1>2, <1>8
<1>10. c \in [1 .. L - 1 -> Seq(Byte)]
  <2>1. \A i \in 1 .. L - 1 : b[i + 1] \in Seq(Byte)
    BY <1>4, <1>8
  <2>2. DOMAIN c = 1 .. L - 1 /\ c = [i \in DOMAIN c |-> c[i]]
    BY <1>2
  <2> HIDE DEF c, b
  <2> QED
    BY <1>9, <2>1, <2>2
<1>11. c \in Seq(Seq(Byte)) /\ Len(c) = L - 1
  <2>1. L - 1 \in Nat
    BY <1>1
  <2> HIDE DEF c
  <2> QED
    BY <1>10, <2>1, FunctionIsSeq
<1>12. Tail(b) = c
  <2>1. \A i \in 1 .. Len(c) : Tail(b)[i] = c[i]
    BY <1>7, <1>9, <1>11
  <2> HIDE DEF b, c
  <2> QED
    BY <1>7, <1>11, <2>1, SeqEqual
<1>13. b[1] = FileBytes(ev[1].key, ev[1].len)
  BY <1>1
<1>14. /\ Seqs!FlattenSeq(b) = b[1] \o Seqs!FlattenSeq(Tail(b))
       /\ Seqs!FlattenSeq(Tail(b)) \in Seq(Byte)
  <2> HIDE DEF b
  <2> QED
    BY <1>5, <1>6, FlattenFirst
<1>15. FilesBytes(ev) = Seqs!FlattenSeq(b) /\ FilesBytes(t) = Seqs!FlattenSeq(c)
  BY DEF FilesBytes
<1>16. ev[1].key \in Key /\ ev[1].len \in Nat
  BY <1>1 DEF Evicted
<1>17. Paths(ev) = {Path(ev[1].key)} \cup Paths(t)
  <2>1. ASSUME NEW p \in Paths(ev) PROVE p \in {Path(ev[1].key)} \cup Paths(t)
    <3>1. PICK i \in 1 .. L : p = Path(ev[i].key)
      BY <1>1, <2>1 DEF Paths
    <3>2. CASE i = 1
      BY <3>1, <3>2
    <3>3. CASE i # 1
      <4>1. i - 1 \in 1 .. L - 1 /\ i - 1 + 1 = i
        BY <1>1, <3>3
      <4>2. t[i - 1] = ev[i]
        BY <1>2, <4>1
      <4> QED
        BY <1>2, <3>1, <4>1, <4>2 DEF Paths
    <3> QED
      BY <3>2, <3>3
  <2>2. ASSUME NEW p \in {Path(ev[1].key)} \cup Paths(t) PROVE p \in Paths(ev)
    <3>1. CASE p = Path(ev[1].key)
      BY <1>1, <3>1 DEF Paths
    <3>2. CASE p \in Paths(t)
      <4>1. PICK i \in 1 .. L - 1 : p = Path(t[i].key)
        BY <1>2, <3>2 DEF Paths
      <4>2. t[i] = ev[i + 1] /\ i + 1 \in DOMAIN ev
        BY <1>1, <1>2, <1>8
      <4> QED
        BY <4>1, <4>2 DEF Paths
    <3> QED
      BY <2>2, <3>1, <3>2
  <2> QED
    BY <2>1, <2>2
<1> HIDE DEF b, c
<1> QED
  BY <1>2, <1>12, <1>13, <1>14, <1>15, <1>16, <1>17 DEF t

LEMMA FilesBytesNone ==
  FilesBytes(<<>>) = <<>> /\ Paths(<<>>) = {}
<1>1. DOMAIN <<>> = {}
  OBVIOUS
<1>2. [i \in DOMAIN <<>> |-> FileBytes(<<>>[i].key, <<>>[i].len)] = <<>>
  OBVIOUS
<1>3. Seqs!FlattenSeq(<<>>) = <<>>
  BY DEF Seqs!FlattenSeq
<1> QED
  BY <1>1, <1>2, <1>3 DEF FilesBytes, Paths

LEMMA FilesBytesType ==
  ASSUME NEW ev \in Seq(Evicted) PROVE FilesBytes(ev) \in Seq(Byte)
<1>1. CASE ev = <<>>
  <2>1. <<>> \in Seq(Byte)
    OBVIOUS
  <2> QED
    BY <1>1, <2>1, FilesBytesNone
<1>2. CASE ev # <<>>
  <2>1. /\ FilesBytes(ev) = FileBytes(ev[1].key, ev[1].len) \o FilesBytes(Tail(ev))
        /\ FilesBytes(Tail(ev)) \in Seq(Byte) /\ ev[1].key \in Key /\ ev[1].len \in Nat
    BY <1>2, FilesBytesFirst
  <2>2. FileBytes(ev[1].key, ev[1].len) \in Seq(Byte)
    BY <2>1, SmallBytes
  <2> QED
    BY <2>1, <2>2, ConcatProperties
<1> QED
  BY <1>1, <1>2

-----------------------------------------------------------------------------
(* The exchange of a client is left alone by the steps of others. *)

\* Connected, and prepared for nothing but responses.
Good(c) == Connected(c) /\ c \notin strayed

SameClient(d) ==
  /\ stage'[d] = stage[d] /\ asked'[d] = asked[d] /\ wire'[d] = wire[d] /\ inbox'[d] = inbox[d]
  /\ left'[d] = left[d] /\ need'[d] = need[d] /\ saved'[d] = saved[d] /\ ret'[d] = ret[d]
  /\ done'[d] = done[d] /\ owed'[d] = owed[d] /\ (d \in lost' <=> d \in lost)

SameQueue(d) == \A r \in queue \cup queue' : r.from = d => r \in queue /\ r \in queue'

SameWork(w, d) ==
  /\ Owes(w, d)' <=> Owes(w, d)
  /\ Owes(w, d) =>
       /\ serving'[w] = serving[w] /\ call'[w] = call[w] /\ evicted'[w] = evicted[w]
       /\ response'[w] = response[w] /\ (w \in evicting' <=> w \in evicting)

LEMMA ReplyStays ==
  ASSUME NEW d \in Client, asked'[d] = asked[d], done'[d] = done[d], owed'[d] = owed[d]
  PROVE  \A b : Reply(d, b)' <=> Reply(d, b)
BY DEF Reply

LEMMA DecodedStays ==
  ASSUME NEW d \in Client, SameClient(d) PROVE Decoded(d)' <=> Decoded(d)
<1>1. \A b : Reply(d, b)' <=> Reply(d, b)
  BY ReplyStays DEF SameClient
<1>2. (ReadingFile(d)' <=> ReadingFile(d)) /\ (WritingFile(d)' <=> WritingFile(d))
  BY DEF SameClient, ReadingFile, WritingFile
<1>3. (Returned(d)' <=> Returned(d)) /\ (AwaitsCode(d)' <=> AwaitsCode(d))
  BY <1>1 DEF SameClient, Returned, AwaitsCode
<1>4. (AwaitsLength(d)' <=> AwaitsLength(d)) /\ (AwaitsContents(d)' <=> AwaitsContents(d))
  BY <1>2 DEF SameClient, AwaitsLength, AwaitsContents
<1>5. AwaitsCount(d)' <=> AwaitsCount(d)
  BY <1>2 DEF SameClient, AwaitsCount
<1>6. AwaitsLengths(d)' <=> AwaitsLengths(d)
  BY <1>2 DEF SameClient, AwaitsLengths
<1>7. AwaitsBody(d)' <=> AwaitsBody(d)
  BY <1>2, ZenonT(30) DEF SameClient, AwaitsBody
<1> QED
  BY <1>3, <1>4, <1>5, <1>6, <1>7 DEF SameClient, Decoded

LEMMA ExchangeStays ==
  ASSUME NEW d \in Client, Exchange(d), SameClient(d), SameQueue(d),
         \A w \in Worker : SameWork(w, d)
  PROVE  Exchange(d)'
<1>1. \A b : Reply(d, b)' <=> Reply(d, b)
  BY ReplyStays DEF SameClient
<1>2. Decoded(d)' <=> Decoded(d)
  BY DecodedStays
<1>3. Sent(d)' <=> Sent(d)
  BY DEF Sent, SameClient
<1>4. \A w \in Worker : Owes(w, d)' <=> Owes(w, d)
  BY DEF SameWork
<1>5. Arrived(d)' <=> Arrived(d)
  BY <1>4 DEF Arrived, SameClient, SameQueue
<1>6. \A w \in Worker : Owes(w, d) => (Answering(w)' <=> Answering(w))
  BY DEF SameWork, Answering
<1>7. stage'[d] = "code" => saved'[d] = {}
  BY DEF Exchange, SameClient
<1>8. wire'[d] # NULL =>
       /\ Sent(d)' /\ owed'[d] = {} /\ wire'[d] = asked'[d]
       /\ (\A r \in queue' : r.from # d) /\ \A w \in Worker : ~Owes(w, d)'
  BY <1>3, <1>4 DEF Exchange, SameClient, SameQueue
<1>9. \A r \in queue' : r.from = d =>
       /\ Sent(d)' /\ owed'[d] = {} /\ r.op = asked'[d].op
       /\ (\A q \in queue' : q.from = d => q = r) /\ \A w \in Worker : ~Owes(w, d)'
  BY <1>3, <1>4 DEF Exchange, SameClient, SameQueue
<1>10. ASSUME NEW w \in Worker, Owes(w, d)'
       PROVE  /\ Sent(d)' /\ serving'[w].op = asked'[d].op
              /\ \A v \in Worker : Owes(v, d)' => v = w
              /\ call'[w] # NULL => owed'[d] = {}
              /\ w \in evicting' => done'[d] # NULL /\ owed'[d] = Paths(evicted'[w])
              /\ Answering(w)' => Reply(d, response[w][1].bytes)'
  <2>1. /\ Owes(w, d) /\ serving'[w] = serving[w] /\ call'[w] = call[w] /\ evicted'[w] = evicted[w]
        /\ response'[w] = response[w] /\ (w \in evicting' <=> w \in evicting)
    BY <1>4, <1>10 DEF SameWork
  <2>2. /\ Sent(d) /\ serving[w].op = asked[d].op
        /\ \A v \in Worker : Owes(v, d) => v = w
        /\ call[w] # NULL => owed[d] = {}
        /\ w \in evicting => done[d] # NULL /\ owed[d] = Paths(evicted[w])
        /\ Answering(w) => Reply(d, response[w][1].bytes)
    BY <2>1 DEF Exchange
  <2>3. Answering(w)' => Reply(d, response[w][1].bytes)'
    BY <1>1, <1>6, <2>1, <2>2
  <2> QED
    BY <1>3, <1>4, <2>1, <2>2, <2>3 DEF SameClient
<1>11. Arrived(d)' => Decoded(d)'
  BY <1>2, <1>5 DEF Exchange
<1> QED
  BY <1>7, <1>8, <1>9, <1>10, <1>11 DEF Exchange

-----------------------------------------------------------------------------
(* The parts of the invariant that are not about one exchange. *)

LEMMA LeaveEffect ==
  ASSUME NEW c \in Client, Ends(c)
  PROVE  /\ Connected(c) /\ \E s \in Gone : stage' = [stage EXCEPT ![c] = s]
         /\ wire' = [wire EXCEPT ![c] = NULL] /\ inbox' = [inbox EXCEPT ![c] = <<>>]
         /\ asked' = [asked EXCEPT ![c] = NULL] /\ ret' = [ret EXCEPT ![c] = NULL]
         /\ left' = [left EXCEPT ![c] = 0] /\ need' = [need EXCEPT ![c] = <<0, 0>>]
         /\ saved' = [saved EXCEPT ![c] = {}]
         /\ done' = [done EXCEPT ![c] = NULL] /\ owed' = [owed EXCEPT ![c] = {}]
         /\ holds' = [holds EXCEPT ![c] = {}] /\ strayed' = strayed \ {c}
         /\ UNCHANGED <<files, call, evicting, alive, queue, serving, evicted, response, at, lost>>
BY DEF Ends, Leave, store, server

\* A request is sent.
Asks(c, r) ==
  /\ stage[c] = "idle" /\ r \in Api[c] /\ alive
  /\ wire' = [wire EXCEPT ![c] = r] /\ asked' = [asked EXCEPT ![c] = r]
  /\ stage' = [stage EXCEPT ![c] = "code"] /\ ret' = [ret EXCEPT ![c] = NULL]
  /\ saved' = [saved EXCEPT ![c] = {}]
  /\ done' = [done EXCEPT ![c] = NULL] /\ owed' = [owed EXCEPT ![c] = {}]
  /\ UNCHANGED <<files, call, evicting, alive, queue, serving, evicted, response, at>>
  /\ UNCHANGED <<inbox, left, need, strayed, lost>>

LEMMA CallAsksOrEnds ==
  ASSUME NEW c \in Client, Call(c) PROVE Ends(c) \/ \E r \in Api[c] : Asks(c, r)
<1>1. CASE HungUp
  BY <1>1 DEF Call, Ends, Gone, Connected
<1>2. CASE ~HungUp
  <2>1. PICK r \in Api[c] : wire' = [wire EXCEPT ![c] = r] /\ asked' = [asked EXCEPT ![c] = r]
    BY <1>2 DEF Call
  <2>2. Asks(c, r)
    BY <1>2, <2>1 DEF Call, Asks, HungUp, store, server
  <2> QED
    BY <2>2
<1> QED
  BY <1>1, <1>2

LEMMA ReadingEffect ==
  ASSUME NEW c \in Client, ClientStep(c)
  PROVE  /\ \E x : inbox' = [inbox EXCEPT ![c] = x]
         /\ \E x : stage' = [stage EXCEPT ![c] = x]
         /\ \E x : ret' \in {ret, [ret EXCEPT ![c] = x]}
         /\ \E x : left' \in {left, [left EXCEPT ![c] = x]}
         /\ \E x : need' \in {need, [need EXCEPT ![c] = x]}
         /\ \E x : saved' \in {saved, [saved EXCEPT ![c] = x]}
         /\ strayed' \in {strayed, strayed \cup {c}}
         /\ UNCHANGED <<asked, wire, done, owed, lost>>
         /\ UNCHANGED <<files, call, evicting, alive, queue, serving, evicted, response, at>>
<1> USE DEF Reading, Enter, Return, Consume, store, server
<1>1. CASE ReadCode(c)
  BY <1>1 DEF ReadCode
<1>2. CASE ReadLength(c)
  BY <1>2 DEF ReadLength
<1>3. CASE ReadContents(c)
  BY <1>3 DEF ReadContents
<1>4. CASE ReadCount(c)
  BY <1>4 DEF ReadCount
<1>5. CASE ReadLengths(c)
  BY <1>5 DEF ReadLengths
<1>6. CASE ReadBody(c)
  BY <1>6 DEF ReadBody
<1> QED
  BY <1>1, <1>2, <1>3, <1>4, <1>5, <1>6 DEF ClientStep

LEMMA IndexedNext ==
  ASSUME TypeOK, Indexed, [Next]_vars PROVE Indexed'
<1> USE DEF Indexed
<1>1. CASE Listen \/ Stop \/ UNCHANGED vars
  BY <1>1 DEF Listen, Stop, vars, store, server, client, history
<1>2. ASSUME NEW c \in Client, Ends(c) PROVE Indexed'
  BY <1>2, LeaveEffect
<1>3. ASSUME NEW c \in Client,
             \/ OpenConnection(c) \/ Tick(c) \/ Attempt(c) \/ Accept(c) \/ Call(c)
             \/ ClientStep(c) \/ Abort(c) \/ CloseConnection(c) \/ Die(c)
      PROVE  Indexed'
  <2>1. CASE OpenConnection(c) \/ Tick(c)
    BY <2>1 DEF OpenConnection, Tick, server, history
  <2>2. CASE Attempt(c)
    BY <2>2 DEF Attempt, server, history
  <2>3. CASE Accept(c)
    BY <2>3 DEF Accept, client
  <2>4. CASE Call(c)
    <3>1. ASSUME NEW r \in Api[c], Asks(c, r) PROVE Indexed'
      BY <3>1 DEF Asks
    <3> QED
      BY <1>2, <2>4, <3>1, CallAsksOrEnds
  <2>5. CASE ClientStep(c)
    BY <2>5, ReadingEffect
  <2>6. CASE Abort(c) \/ CloseConnection(c) \/ Die(c)
    BY <1>2, <2>6, EndsEnd
  <2> QED
    BY <1>3, <2>1, <2>2, <2>3, <2>4, <2>5, <2>6
<1>4. ASSUME NEW fd \in Fd, HandOver(fd) \/ Drop(fd) PROVE Indexed'
  BY <1>4 DEF HandOver, Drop, client, history
<1>5. ASSUME NEW w \in Worker, WorkerStep(w) PROVE Indexed'
  <2>1. CASE Dispatch(w)
    BY <2>1 DEF Dispatch, client, history
  <2>2. CASE Handle(w)
    BY <2>2 DEF Handle, client
  <2>3. CASE EvictEnd(w)
    BY <2>3 DEF EvictEnd, client, history
  <2>4. CASE Respond(w)
    BY <2>4 DEF Respond, history
  <2>5. CASE Crash(w)
    BY <2>5 DEF Crash, server, client, history
  <2>6. ASSUME NEW k \in Key, EvictFile(w, k) PROVE Indexed'
    BY <2>6 DEF EvictFile, client
  <2> QED
    BY <1>5, <2>1, <2>2, <2>3, <2>4, <2>5, <2>6 DEF WorkerStep
<1> QED
  BY <1>1, <1>3, <1>4, <1>5 DEF Next

LEMMA AnswerableNext ==
  ASSUME NoReadN, TypeOK, Indexed, Answerable, [Next]_vars PROVE Answerable'
<1>1. ASSUME InHand' \subseteq InHand, UNCHANGED <<asked, wire>> PROVE Answerable'
  BY <1>1 DEF Answerable
<1>2. UNCHANGED <<queue, serving>> => InHand' = InHand
  BY DEF InHand
<1>3. CASE Listen \/ Stop \/ UNCHANGED vars
  BY <1>1, <1>2, <1>3 DEF Listen, Stop, vars, store, server, client, history
<1>4. ASSUME NEW c \in Client, Ends(c) PROVE Answerable'
  <2>1. InHand' = InHand /\ asked' = [asked EXCEPT ![c] = NULL] /\ wire' = [wire EXCEPT ![c] = NULL]
    BY <1>2, <1>4, LeaveEffect
  <2> QED
    BY <2>1 DEF Answerable, Indexed, TypeOK
<1>5. ASSUME NEW c \in Client,
             \/ OpenConnection(c) \/ Tick(c) \/ Attempt(c) \/ Accept(c) \/ Call(c)
             \/ ClientStep(c) \/ Abort(c) \/ CloseConnection(c) \/ Die(c)
      PROVE  Answerable'
  <2>1. CASE OpenConnection(c) \/ Tick(c)
    BY <1>1, <1>2, <2>1 DEF OpenConnection, Tick, server, history
  <2>2. CASE Attempt(c)
    BY <1>1, <1>2, <2>2 DEF Attempt, server, history
  <2>3. CASE Accept(c)
    BY <1>1, <1>2, <2>3 DEF Accept, client
  <2>4. CASE Call(c)
    <3>1. ASSUME NEW r \in Api[c], Asks(c, r) PROVE Answerable'
      <4>1. InHand' = InHand /\ asked' = [asked EXCEPT ![c] = r] /\ wire' = [wire EXCEPT ![c] = r]
        BY <1>2, <3>1 DEF Asks
      <4> QED
        BY <4>1 DEF Answerable, Indexed, TypeOK
    <3> QED
      BY <1>4, <2>4, <3>1, CallAsksOrEnds
  <2>5. CASE ClientStep(c)
    <3>1. UNCHANGED <<queue, serving, asked, wire>>
      BY <2>5, ReadingEffect
    <3> QED
      BY <1>1, <1>2, <3>1
  <2>6. CASE Abort(c) \/ CloseConnection(c) \/ Die(c)
    BY <1>4, <2>6, EndsEnd
  <2> QED
    BY <1>5, <2>1, <2>2, <2>3, <2>4, <2>5, <2>6
<1>6. ASSUME NEW fd \in Fd, HandOver(fd) PROVE Answerable'
  <2> DEFINE c == at[fd] r == wire[at[fd]]
             m == [op |-> r.op, key |-> r.key, arg |-> r.arg, fd |-> fd, from |-> c]
  <2>1. /\ c # NULL /\ r # NULL /\ queue' = {m} /\ wire' = [wire EXCEPT ![c] = NULL]
        /\ UNCHANGED <<serving, asked>>
    BY <1>6 DEF HandOver
  <2>2. c \in Client /\ m.op = r.op
    BY <2>1 DEF TypeOK
  <2>3. r \in Api[c]
    BY <2>1, <2>2 DEF Answerable
  <2> HIDE DEF m, r, c
  <2>4. r.op # "READ_N_FILES"
    BY <2>2, <2>3 DEF NoReadN
  <2>5. InHand' \subseteq InHand \cup {m}
    BY <2>1 DEF InHand
  <2> QED
    BY <2>1, <2>2, <2>4, <2>5 DEF Answerable, TypeOK
<1>7. ASSUME NEW fd \in Fd, Drop(fd) PROVE Answerable'
  BY <1>1, <1>2, <1>7 DEF Drop, client
<1>8. ASSUME NEW w \in Worker, WorkerStep(w) PROVE Answerable'
  <2>1. CASE Dispatch(w)
    <3>1. UNCHANGED <<asked, wire>>
      BY <2>1 DEF Dispatch, client
    <3>2. PICK r \in queue : /\ queue' = queue \ {r}
                             /\ serving' \in {serving, [serving EXCEPT ![w] = r]}
      BY <2>1 DEF Dispatch
    <3>3. InHand' \subseteq InHand
      BY <3>2 DEF InHand, TypeOK, Range
    <3> QED
      BY <1>1, <3>1, <3>3
  <2>2. CASE Handle(w)
    BY <1>1, <1>2, <2>2 DEF Handle, client
  <2>3. CASE EvictEnd(w)
    BY <1>1, <1>2, <2>3 DEF EvictEnd, client
  <2>4. CASE Respond(w)
    <3>1. UNCHANGED <<asked, wire, queue>> /\ serving' \in {serving, [serving EXCEPT ![w] = NULL]}
      BY <2>4 DEF Respond
    <3>2. InHand' \subseteq InHand
      BY <3>1 DEF InHand, TypeOK, Range
    <3> QED
      BY <1>1, <3>1, <3>2
  <2>5. CASE Crash(w)
    BY <1>1, <1>2, <2>5 DEF Crash, server, client
  <2>6. ASSUME NEW k \in Key, EvictFile(w, k) PROVE Answerable'
    BY <1>1, <1>2, <2>6 DEF EvictFile, client
  <2> QED
    BY <1>8, <2>1, <2>2, <2>3, <2>4, <2>5, <2>6 DEF WorkerStep
<1> QED
  BY <1>3, <1>5, <1>6, <1>7, <1>8 DEF Next

LEMMA FreshNext ==
  ASSUME TypeOK, Indexed, Fresh, [Next]_vars PROVE Fresh'
<1>1. ASSUME UNCHANGED <<stage, inbox, wire, asked>> PROVE Fresh'
  BY <1>1 DEF Fresh
<1>2. ASSUME NEW c \in Client, NEW s \in Stage \ Before, stage' = [stage EXCEPT ![c] = s],
             \A d \in Client \ {c} : inbox'[d] = inbox[d] /\ wire'[d] = wire[d] /\ asked'[d] = asked[d]
      PROVE  Fresh'
  BY <1>2 DEF Fresh, TypeOK
<1>3. CASE Listen \/ Stop \/ UNCHANGED vars
  BY <1>1, <1>3 DEF Listen, Stop, vars, store, server, client, history
<1>4. ASSUME NEW c \in Client, Ends(c) PROVE Fresh'
  <2>1. PICK s \in Gone : stage' = [stage EXCEPT ![c] = s]
    BY <1>4, LeaveEffect
  <2>2. s \in Stage \ Before
    BY DEF Stage, Gone, Before
  <2>3. \A d \in Client \ {c} : inbox'[d] = inbox[d] /\ wire'[d] = wire[d] /\ asked'[d] = asked[d]
    BY <1>4, LeaveEffect DEF Indexed, TypeOK
  <2> QED
    BY <1>2, <2>1, <2>2, <2>3
<1>5. ASSUME NEW c \in Client,
             \/ OpenConnection(c) \/ Tick(c) \/ Attempt(c) \/ Accept(c) \/ Call(c)
             \/ ClientStep(c) \/ Abort(c) \/ CloseConnection(c) \/ Die(c)
      PROVE  Fresh'
  <2>1. CASE OpenConnection(c) \/ Attempt(c)
    <3>1. /\ stage[c] \in Before /\ \E s : stage' = [stage EXCEPT ![c] = s]
          /\ UNCHANGED <<inbox, wire, asked>>
      BY <2>1 DEF OpenConnection, Attempt, Before
    <3> QED
      BY <3>1 DEF Fresh, TypeOK
  <2>2. CASE Tick(c) \/ Accept(c)
    BY <1>1, <2>2 DEF Accept, Tick, client
  <2>4. CASE Call(c)
    <3>1. ASSUME NEW r \in Api[c], Asks(c, r) PROVE Fresh'
      <4>1. "code" \in Stage \ Before
        BY DEF Stage, Before
      <4> QED
        BY <1>2, <3>1, <4>1 DEF Asks, Indexed, TypeOK
    <3> QED
      BY <1>4, <2>4, <3>1, CallAsksOrEnds
  <2>5. CASE ClientStep(c)
    <3>1. PICK s \in Stage \ (Before \cup Gone) : stage' = [stage EXCEPT ![c] = s]
      BY <2>5, ReadingGoes DEF Goes
    <3>2. UNCHANGED <<wire, asked>> /\ \E x : inbox' = [inbox EXCEPT ![c] = x]
      BY <2>5, ReadingEffect
    <3> QED
      BY <1>2, <3>1, <3>2 DEF Indexed
  <2>6. CASE Abort(c) \/ CloseConnection(c) \/ Die(c)
    BY <1>4, <2>6, EndsEnd
  <2> QED
    BY <1>5, <2>1, <2>2, <2>4, <2>5, <2>6
<1>6. ASSUME NEW fd \in Fd, HandOver(fd) \/ Drop(fd) PROVE Fresh'
  <2>1. CASE HandOver(fd)
    <3>1. /\ wire' = [wire EXCEPT ![at[fd]] = NULL] /\ UNCHANGED <<stage, inbox, asked>>
      BY <2>1 DEF HandOver
    <3> QED
      BY <3>1 DEF Fresh, TypeOK
  <2>2. CASE Drop(fd)
    BY <1>1, <2>2 DEF Drop, client
  <2> QED
    BY <1>6, <2>1, <2>2
<1>8. ASSUME NEW w \in Worker, WorkerStep(w) PROVE Fresh'
  <2>1. CASE Dispatch(w) \/ Handle(w) \/ EvictEnd(w) \/ Crash(w) \/ \E k \in Key : EvictFile(w, k)
    BY <1>1, <2>1 DEF Dispatch, Handle, EvictEnd, Crash, EvictFile, client
  <2>4. CASE Respond(w)
    <3>1. /\ UNCHANGED <<asked, wire, stage>>
          /\ \/ inbox' = inbox
             \/ \E c, x : Connected(c) /\ inbox' = [inbox EXCEPT ![c] = x]
      BY <2>4 DEF Respond
    <3> QED
      BY <3>1 DEF Fresh, Indexed, Connected, Before
  <2> QED
    BY <1>8, <2>1, <2>4 DEF WorkerStep
<1> QED
  BY <1>3, <1>5, <1>6, <1>8 DEF Next

\* What a handler writes to the sender, and to whom else.
LEMMA ResponsesAre ==
  ASSUME files \in Files, NEW r \in Task, r.op # "READ_N_FILES",
         NEW m \in Responses(r, Do(files, r).err)
  PROVE  LET e == Do(files, r).err IN
         /\ m # <<>> /\ m[1].fd = r.fd
         /\ r.op = "WRITE_FILE" => m[1].bytes = WriteResponse(<<>>)
         /\ r.op = "READ_FILE" => \E n \in Nat : m[1].bytes = ReadResponse(e, n)
         /\ r.op = "LOCK_FILE" => m[1].bytes = <<RESPONSE_OK>>
         /\ r.op \notin {"WRITE_FILE", "READ_FILE", "LOCK_FILE"} => m[1].bytes = ResponseByte(e)
         /\ DOMAIN m = {1} \/ (/\ DOMAIN m = {1, 2} /\ files[r.key] \in File
                               /\ files[r.key].subs # <<>> /\ m[2].fd = Heir(files[r.key]))
<1> DEFINE e == Do(files, r).err
<1>1. r.key \in Key /\ files[r.key] \in File \cup {NULL}
  BY DEF Task, Files
<1>2. r.op \in {"READ_FILE", "UNLOCK_FILE"} /\ e = "OK" => files[r.key] \in File
  BY <1>1 DEF Do, Refused
<1> HIDE DEF e
<1>3. ASSUME NEW b PROVE LET s == <<Message(r.fd, b)>> IN
        s # <<>> /\ s[1].fd = r.fd /\ s[1].bytes = b /\ DOMAIN s = {1}
  BY DEF Message
<1>4. CASE r.op = "WRITE_FILE"
  <2>1. m = <<Message(r.fd, WriteResponse(<<>>))>>
    BY <1>4 DEF Responses
  <2> QED
    BY <1>3, <1>4, <2>1
<1>5. CASE r.op = "READ_FILE"
  <2> DEFINE n == IF e = "OK" THEN files[r.key].length_in_bytes ELSE 0
  <2>1. m = <<Message(r.fd, ReadResponse(e, n))>>
    BY <1>5 DEF Responses, e
  <2>2. n \in Nat
    BY <1>2, <1>5 DEF File
  <2> HIDE DEF n
  <2> QED
    BY <1>3, <1>5, <2>1, <2>2 DEF e
<1>6. CASE r.op = "LOCK_FILE"
  <2>1. m = <<Message(r.fd, <<RESPONSE_OK>>)>>
    BY <1>6 DEF Responses, LockResponse
  <2> QED
    BY <1>3, <1>6, <2>1
<1>7. CASE r.op = "UNLOCK_FILE" /\ e = "OK" /\ files[r.key].subs # <<>>
  <2> DEFINE x == Message(r.fd, ResponseByte(e))
             y == Message(Heir(files[r.key]), ResponseByte("OK"))
  <2>1. m = <<x>> \o <<y>>
    BY <1>7 DEF Responses, e
  <2>2. x.fd = r.fd /\ x.bytes = ResponseByte(e) /\ y.fd = Heir(files[r.key])
    BY DEF Message
  <2> HIDE DEF x, y
  <2>3. /\ <<x>> \in Seq({x, y}) /\ Len(<<x>>) = 1 /\ <<x>>[1] = x
        /\ <<y>> \in Seq({x, y}) /\ Len(<<y>>) = 1 /\ <<y>>[1] = y
    OBVIOUS
  <2>4. m # <<>> /\ DOMAIN m = {1, 2} /\ m[1] = x /\ m[2] = y
    <3>1. /\ m \in Seq({x, y}) /\ Len(m) = 2
          /\ \A i \in 1 .. 2 : m[i] = IF i <= 1 THEN <<x>>[i] ELSE <<y>>[i - 1]
      BY <2>1, <2>3, ConcatProperties
    <3>2. DOMAIN m = 1 .. 2 /\ m # <<>>
      BY <3>1
    <3> QED
      BY <2>3, <3>1, <3>2
  <2> QED
    BY <1>2, <1>7, <2>2, <2>4 DEF e
<1>8. CASE /\ r.op \notin {"WRITE_FILE", "READ_FILE", "LOCK_FILE"}
           /\ ~(r.op = "UNLOCK_FILE" /\ e = "OK" /\ files[r.key].subs # <<>>)
  <2>1. m = <<Message(r.fd, ResponseByte(e))>>
    BY <1>8 DEF Responses, e
  <2> QED
    BY <1>3, <1>8, <2>1 DEF e
<1> QED
  BY <1>4, <1>5, <1>6, <1>7, <1>8

\* What Handle(w) does, r being the request and e its result.
Handled(w, r, e) ==
  /\ r = serving[w] /\ r \in Task /\ r # NULL /\ call[w] = r /\ w \notin evicting
  /\ response[w] = <<>> /\ e \in HTableError
  /\ \A k \in Key \ {r.key} : files'[k] = files[k]
  /\ LockAfter(files[r.key], r, files'[r.key], e)
  /\ call' = [call EXCEPT ![w] = NULL]
  /\ \/ /\ r.op = "WRITE_FILE" /\ evicting' = evicting \cup {w} /\ UNCHANGED response
     \/ /\ UNCHANGED evicting
        /\ \E m \in Responses(r, Do(files, r).err) : response' = [response EXCEPT ![w] = m]
  /\ Connected(r.from) =>
       /\ done' = [done EXCEPT ![r.from] = e]
       /\ strayed' = IF r.op = "LOCK_FILE" /\ e = "OK_WAIT" THEN strayed \cup {r.from} ELSE strayed
  /\ ~Connected(r.from) => UNCHANGED <<done, strayed>>
  /\ UNCHANGED <<alive, queue, serving, evicted, at, stage, asked, wire, inbox, left, need, saved,
                 ret, owed, lost>>

LEMMA HandleIsHandled ==
  ASSUME Inv, Evictions, NEW w \in Worker, Handle(w)
  PROVE  Handled(w, serving[w], Do(files, serving[w]).err)
<1> DEFINE r == serving[w] o == Do(files, serving[w])
<1>0. TypeOK /\ LockInv
  BY DEF Inv
<1>1. call[w] # NULL /\ call[w] = r /\ w \notin evicting /\ response[w] = <<>>
  BY <1>0 DEF Handle, Store!Perform, LockInv, OneAtATime
<1>2. r \in Task /\ r # NULL
  BY <1>0, <1>1 DEF TypeOK
<1>3. Effect(files, r, o)
  BY <1>0, <1>2, DoEffect DEF TypeOK
<1>4. /\ files' = o.files /\ call' = [call EXCEPT ![w] = NULL] /\ UNCHANGED alive
      /\ IF Writes(r.op) /\ o.err = "OK" THEN evicting' = evicting \cup {w} ELSE UNCHANGED evicting
  BY <1>1, SameOps DEF Handle, Store!Perform, Store!Writes, Writes
<1>5. /\ IF w \in evicting' THEN UNCHANGED response
         ELSE \E m \in Responses(r, o.err) : response' = [response EXCEPT ![w] = m]
      /\ IF Connected(r.from)
         THEN /\ done' = [done EXCEPT ![r.from] = o.err]
              /\ strayed' = IF r.op = "LOCK_FILE" /\ o.err = "OK_WAIT" THEN strayed \cup {r.from}
                            ELSE strayed
         ELSE UNCHANGED <<done, strayed>>
  BY DEF Handle
<1>6. UNCHANGED <<queue, serving, evicted, at, stage, asked, wire, inbox, left, need, saved, ret,
                  owed, lost>>
  BY DEF Handle, client
<1>7. r.op # "APPEND_TO_FILE"
  BY <1>2 DEF Evictions
<1>8. /\ LockAfter(files[r.key], r, files'[r.key], o.err) /\ o.err \in HTableError
      /\ \A k \in Key \ {r.key} : files'[k] = files[k]
  BY <1>3, <1>4 DEF Effect, LockAfter
<1> HIDE DEF r, o
<1>9. \/ /\ r.op = "WRITE_FILE" /\ evicting' = evicting \cup {w} /\ UNCHANGED response
      \/ /\ UNCHANGED evicting
         /\ \E m \in Responses(r, o.err) : response' = [response EXCEPT ![w] = m]
  BY <1>1, <1>4, <1>5, <1>7 DEF Writes
<1>10. Handled(w, r, o.err)
  BY <1>1, <1>2, <1>4, <1>5, <1>6, <1>8, <1>9 DEF Handled, r, o
<1> QED
  BY <1>10 DEF r, o

LEMMA SubscribersTyped ==
  ASSUME TypeOK, NEW k \in Stored(files), NEW fd \in Range(files[k].subs)
  PROVE  k \in Key /\ files[k] \in File /\ fd \in Fd /\ fd \in InUse
<1>1. k \in Key /\ files[k] \in File
  BY DEF Stored, TypeOK, Files
<1>2. files[k].subs \in Seq(Fd)
  BY <1>1 DEF File
<1>3. fd \in Fd
  BY <1>2 DEF Range
<1> QED
  BY <1>1, <1>3 DEF InUse

LEMMA DestinationsStay ==
  ASSUME TypeOK, Destinations, UNCHANGED <<files, response, serving>>,
         \A fd \in Fd \cap InUse : Loose(fd) => Loose(fd)'
  PROVE  Destinations'
<1>1. \A k \in Stored(files) : \A fd \in Range(files[k].subs) : Loose(fd)'
  BY SubscribersTyped DEF Destinations
<1>2. ASSUME NEW w \in Worker, NEW i \in DOMAIN response[w]
      PROVE  /\ response[w][i].fd \in Fd
             /\ Loose(response[w][i].fd)' \/ (i = 1 /\ response[w][1].fd = serving[w].fd)
  <2>1. response[w][i].fd \in UNION {{response[v][j].fd : j \in DOMAIN response[v]} : v \in Worker}
    OBVIOUS
  <2>2. response[w][i].fd \in InUse
    BY <2>1 DEF InUse
  <2> QED
    BY <2>2 DEF Destinations
<1> QED
  BY <1>1, <1>2 DEF Destinations, Stored

\* A step that changes no descriptor and no client.
LEMMA LooseStays ==
  ASSUME TypeOK, UNCHANGED <<at, stage>>, strayed \subseteq strayed'
  PROVE  \A fd \in Fd : Loose(fd) => Loose(fd)'
BY DEF Loose, Connected

LEMMA AcceptDestinations ==
  ASSUME TypeOK, Destinations, NEW c \in Client, Accept(c) PROVE Destinations'
<1>1. PICK fd \in Fd :
        /\ at[fd] = NULL /\ at' = [at EXCEPT ![fd] = c]
        /\ strayed' = IF fd \in InUse THEN strayed \cup {c} ELSE strayed
  BY DEF Accept
<1>2. UNCHANGED <<files, response, serving, stage>>
  BY DEF Accept, store, client
<1>3. ASSUME NEW g \in Fd \cap InUse, Loose(g) PROVE Loose(g)'
  <2>1. CASE g = fd
    BY <1>1, <2>1 DEF Loose, TypeOK
  <2>2. CASE g # fd
    BY <1>1, <1>2, <1>3, <2>2 DEF Loose, TypeOK, Connected
  <2> QED
    BY <2>1, <2>2
<1> QED
  BY <1>2, <1>3, DestinationsStay

LEMMA HandleDestinations ==
  ASSUME Inv, Answerable, Evictions, Destinations, NEW w \in Worker, Handle(w)
  PROVE  Destinations'
<1> DEFINE r == serving[w] e == Do(files, serving[w]).err
<1>0. TypeOK /\ LockInv
  BY DEF Inv
<1>1. Handled(w, r, e)
  BY HandleIsHandled
<1> HIDE DEF e
<1>2. r \in Task /\ r \in InHand /\ r.op # "READ_N_FILES" /\ SenderKnown(r)
  <2>1. r \in InHand
    BY <1>0, <1>1 DEF Handled, InHand, Range, TypeOK
  <2> QED
    BY <1>0, <1>1, <2>1 DEF Handled, Answerable, LockInv, SendersKnown, SenderKnown
<1>3. /\ r.fd \in Fd /\ r.from \in Client /\ r.key \in Key /\ at[r.fd] \in Client \cup {NULL}
      /\ files \in Files
  BY <1>0, <1>2 DEF Task, TypeOK
<1>4. \A fd \in Fd : Loose(fd) => Loose(fd)'
  <2>1. UNCHANGED <<at, stage>> /\ strayed \subseteq strayed'
    BY <1>1 DEF Handled
  <2> QED
    BY <1>0, <2>1, LooseStays
<1>5. \A fd \in Fd : fd = r.fd /\ r.op = "LOCK_FILE" /\ e = "OK_WAIT" => Loose(fd)'
  BY <1>1, <1>2, <1>3 DEF Handled, Loose, SenderKnown, Connected
<1>6. ASSUME NEW k \in Stored(files)', NEW fd \in Range(files'[k].subs) PROVE Loose(fd)'
  <2>1. k \in Key /\ files'[k] # NULL
    BY DEF Stored
  <2>2. CASE k # r.key
    <3>1. k \in Stored(files) /\ fd \in Range(files[k].subs)
      BY <1>1, <2>1, <2>2 DEF Handled, Stored
    <3> QED
      BY <1>0, <1>4, <3>1, SubscribersTyped DEF Destinations
  <2>3. CASE k = r.key
    <3>0. LockAfter(files[k], r, files'[k], e)
      BY <1>1, <2>3 DEF Handled
    <3>1. \/ files[k] # NULL /\ fd \in Range(files[k].subs)
          \/ fd = r.fd /\ r.op = "LOCK_FILE" /\ e = "OK_WAIT"
      BY <1>6, <2>1, <3>0 DEF LockAfter
    <3>2. CASE files[k] # NULL /\ fd \in Range(files[k].subs)
      <4>1. k \in Stored(files)
        BY <2>1, <3>2 DEF Stored
      <4> QED
        BY <1>0, <1>4, <3>2, <4>1, SubscribersTyped DEF Destinations
    <3> QED
      BY <1>3, <1>5, <3>1, <3>2
  <2> QED
    BY <2>2, <2>3
<1>7. ASSUME NEW v \in Worker, NEW i \in DOMAIN response'[v]
      PROVE  /\ response'[v][i].fd \in Fd
             /\ Loose(response[v][i].fd)' \/ (i = 1 /\ response'[v][1].fd = serving'[v].fd)
  <2>1. CASE response'[v] = response[v]
    <3>1. /\ response[v][i].fd \in Fd
          /\ Loose(response[v][i].fd) \/ (i = 1 /\ response[v][1].fd = serving[v].fd)
      BY <1>7, <2>1 DEF Destinations
    <3> QED
      BY <1>1, <1>4, <2>1, <3>1 DEF Handled
  <2>2. CASE response'[v] # response[v]
    <3>1. PICK m \in Responses(r, Do(files, r).err) : response' = [response EXCEPT ![w] = m]
      BY <1>1, <2>2 DEF Handled
    <3>2. v = w /\ response'[v] = m
      BY <1>0, <2>2, <3>1 DEF TypeOK
    <3>3. /\ m[1].fd = r.fd
          /\ DOMAIN m = {1} \/ (/\ DOMAIN m = {1, 2} /\ files[r.key] \in File
                                /\ files[r.key].subs # <<>> /\ m[2].fd = Heir(files[r.key]))
      BY <1>2, <1>3, ResponsesAre
    <3>4. CASE i = 1
      BY <1>1, <1>3, <3>2, <3>3, <3>4 DEF Handled
    <3>5. CASE i # 1
      <4>1. i = 2 /\ files[r.key] \in File /\ files[r.key].subs # <<>> /\ m[2].fd = Heir(files[r.key])
        BY <1>7, <3>2, <3>3, <3>5
      <4>2. files[r.key].subs \in Seq(Fd) /\ files[r.key] # NULL
        BY <4>1 DEF File
      <4>3. Heir(files[r.key]) \in Range(files[r.key].subs)
        BY <4>1, <4>2 DEF Heir, Range
      <4>4. r.key \in Stored(files)
        BY <1>3, <4>2 DEF Stored
      <4>5. Heir(files[r.key]) \in Fd /\ Loose(Heir(files[r.key]))
        BY <1>0, <4>3, <4>4, SubscribersTyped DEF Destinations
      <4> QED
        BY <1>4, <3>2, <4>1, <4>5
    <3> QED
      BY <3>4, <3>5
  <2> QED
    BY <2>1, <2>2
<1> QED
  BY <1>6, <1>7 DEF Destinations

LEMMA RespondDestinations ==
  ASSUME Inv, Destinations, NEW w \in Worker, Respond(w) PROVE Destinations'
<1>0. TypeOK /\ LockInv
  BY DEF Inv
<1>1. /\ response[w] # <<>> /\ response' = [response EXCEPT ![w] = Tail(@)]
      /\ serving' = IF Len(response[w]) = 1 THEN [serving EXCEPT ![w] = NULL] ELSE serving
      /\ UNCHANGED <<files, at, stage, strayed>>
  BY DEF Respond, store, history
<1>2. response[w] \in Seq(Range(response[w])) /\ Len(response[w]) \in 0 .. 2
  BY <1>0 DEF TypeOK
<1>3. \A fd \in Fd : Loose(fd) => Loose(fd)'
  BY <1>0, <1>1, LooseStays
<1>4. \A k \in Stored(files)' : \A fd \in Range(files'[k].subs) : Loose(fd)'
  BY <1>0, <1>1, <1>3, SubscribersTyped DEF Destinations, Stored
<1>5. ASSUME NEW v \in Worker, NEW i \in DOMAIN response'[v]
      PROVE  /\ response'[v][i].fd \in Fd
             /\ Loose(response[v][i].fd)' \/ (i = 1 /\ response'[v][1].fd = serving'[v].fd)
  <2>1. CASE v # w
    <3>1. response'[v] = response[v] /\ serving'[v] = serving[v]
      BY <1>0, <1>1, <2>1 DEF TypeOK
    <3>2. /\ response[v][i].fd \in Fd
          /\ Loose(response[v][i].fd) \/ (i = 1 /\ response[v][1].fd = serving[v].fd)
      BY <1>5, <3>1 DEF Destinations
    <3> QED
      BY <1>3, <3>1, <3>2
  <2>2. CASE v = w
    <3>1. response'[v] = Tail(response[w])
      BY <1>0, <1>1, <2>2 DEF TypeOK
    <3>2. i \in DOMAIN Tail(response[w])
      BY <1>5, <3>1
    <3>3. i + 1 \in DOMAIN response[w] /\ i + 1 # 1 /\ Tail(response[w])[i] = response[w][i + 1]
      BY <1>1, <1>2, <3>2, HeadTailProperties
    <3>4. response[w][i + 1].fd \in Fd /\ Loose(response[w][i + 1].fd)
      BY <3>3 DEF Destinations
    <3>5. response'[v][i] = response[w][i + 1]
      BY <3>1, <3>3
    <3> QED
      BY <1>3, <3>4, <3>5
  <2> QED
    BY <2>1, <2>2
<1> QED
  BY <1>4, <1>5 DEF Destinations

LEMMA DestinationsNext ==
  ASSUME Inv, Answerable, Evictions, Destinations, [Next]_vars PROVE Destinations'
<1>0. TypeOK /\ LockInv
  BY DEF Inv
<1>1. ASSUME UNCHANGED <<files, response, serving, at, stage>>, strayed \subseteq strayed'
      PROVE  Destinations'
  BY <1>0, <1>1, LooseStays, DestinationsStay
<1>2. CASE Listen \/ Stop \/ UNCHANGED vars
  BY <1>1, <1>2 DEF Listen, Stop, vars, store, server, client, history
<1>3. ASSUME NEW c \in Client, Ends(c) PROVE Destinations'
  <2>1. /\ \E s \in Gone : stage' = [stage EXCEPT ![c] = s]
        /\ strayed' = strayed \ {c} /\ UNCHANGED <<files, response, serving, at>>
    BY <1>3, LeaveEffect
  <2>2. \A fd \in Fd : Loose(fd) => Loose(fd)'
    BY <1>0, <2>1 DEF Loose, Connected, TypeOK
  <2> QED
    BY <1>0, <2>1, <2>2, DestinationsStay
<1>4. ASSUME NEW c \in Client, Goes(c) PROVE Destinations'
  <2>1. /\ Connected(c) /\ \E s : stage' = [stage EXCEPT ![c] = s]
        /\ strayed \subseteq strayed' /\ UNCHANGED <<files, response, serving, at>>
    BY <1>4 DEF Goes
  <2>2. \A fd \in Fd : Loose(fd) => Loose(fd)'
    BY <1>0, <2>1 DEF Loose, Connected, TypeOK
  <2> QED
    BY <1>0, <2>1, <2>2, DestinationsStay
<1>5. ASSUME NEW c \in Client,
             \/ OpenConnection(c) \/ Tick(c) \/ Attempt(c) \/ Accept(c) \/ Call(c)
             \/ ClientStep(c) \/ Abort(c) \/ CloseConnection(c) \/ Die(c)
      PROVE  Destinations'
  <2>1. CASE OpenConnection(c) \/ Attempt(c)
    <3>1. /\ stage[c] \in Before /\ \E s : stage' = [stage EXCEPT ![c] = s]
          /\ UNCHANGED <<files, response, serving, at, strayed>>
      BY <2>1 DEF OpenConnection, Attempt, Before, store, server, history
    <3>2. \A fd \in Fd : at[fd] # c
      BY <1>0, <3>1 DEF LockInv, NothingBefore, Accepted
    <3>3. \A fd \in Fd : Loose(fd) => Loose(fd)'
      BY <1>0, <3>1, <3>2 DEF Loose, Connected, TypeOK
    <3> QED
      BY <1>0, <3>1, <3>3, DestinationsStay
  <2>2. CASE Tick(c)
    BY <1>1, <2>2 DEF Tick, store, server, history
  <2>3. CASE Accept(c)
    BY <1>0, <2>3, AcceptDestinations
  <2>4. CASE Call(c) \/ ClientStep(c) \/ Abort(c) \/ CloseConnection(c) \/ Die(c)
    BY <1>0, <1>3, <1>4, <2>4, CallGoesOrEnds, ReadingGoes, EndsEnd
  <2> QED
    BY <1>5, <2>1, <2>2, <2>3, <2>4
<1>6. ASSUME NEW fd \in Fd, HandOver(fd) PROVE Destinations'
  BY <1>1, <1>6 DEF HandOver, store, history
<1>7. ASSUME NEW fd \in Fd, Drop(fd) PROVE Destinations'
  <2>1. at' = [at EXCEPT ![fd] = NULL] /\ UNCHANGED <<files, response, serving, stage, strayed>>
    BY <1>7 DEF Drop, store, client, history
  <2>2. \A g \in Fd : Loose(g) => Loose(g)'
    BY <1>0, <2>1 DEF Loose, Connected, TypeOK
  <2> QED
    BY <1>0, <2>1, <2>2, DestinationsStay
<1>8. ASSUME NEW w \in Worker, WorkerStep(w) PROVE Destinations'
  <2>1. CASE Dispatch(w)
    <3>1. /\ serving[w] = NULL /\ \E r : serving' \in {serving, [serving EXCEPT ![w] = r]}
          /\ UNCHANGED <<files, response, at, stage, strayed>>
      BY <2>1 DEF Dispatch, client, history
    <3>2. response[w] = <<>>
      BY <1>0, <3>1 DEF LockInv, OneAtATime
    <3>3. \A v \in Worker : response[v] # <<>> => serving'[v] = serving[v]
      BY <1>0, <3>1, <3>2 DEF TypeOK
    <3>4. \A fd \in Fd : Loose(fd) => Loose(fd)'
      BY <1>0, <3>1, LooseStays
    <3>5. \A k \in Stored(files)' : \A fd \in Range(files'[k].subs) : Loose(fd)'
      BY <1>0, <3>1, <3>4, SubscribersTyped DEF Destinations, Stored
    <3>6. ASSUME NEW v \in Worker, NEW i \in DOMAIN response'[v]
          PROVE  /\ response'[v][i].fd \in Fd
                 /\ Loose(response[v][i].fd)' \/ (i = 1 /\ response'[v][1].fd = serving'[v].fd)
      <4>1. i \in DOMAIN response[v] /\ response[v] # <<>>
        BY <3>1, <3>6
      <4> QED
        BY <3>1, <3>3, <3>4, <4>1 DEF Destinations
    <3> QED
      BY <3>5, <3>6 DEF Destinations
  <2>2. CASE Handle(w)
    BY <2>2, HandleDestinations
  <2>3. CASE EvictEnd(w)
    <3>1. PICK b : response' = [response EXCEPT ![w] = <<Message(serving[w].fd, b)>>]
      BY <2>3 DEF EvictEnd
    <3>2. w \in evicting /\ UNCHANGED <<files, serving, at, stage, strayed>>
      BY <2>3 DEF EvictEnd, Store!EvictEnd, client, history
    <3>3. serving[w] \in Task
      BY <1>0, <3>2 DEF LockInv, OneAtATime, TypeOK
    <3>4. \A fd \in Fd : Loose(fd) => Loose(fd)'
      BY <1>0, <3>2, LooseStays
    <3>5. \A k \in Stored(files)' : \A fd \in Range(files'[k].subs) : Loose(fd)'
      BY <1>0, <3>2, <3>4, SubscribersTyped DEF Destinations, Stored
    <3>6. ASSUME NEW v \in Worker, NEW i \in DOMAIN response'[v]
          PROVE  /\ response'[v][i].fd \in Fd
                 /\ Loose(response[v][i].fd)' \/ (i = 1 /\ response'[v][1].fd = serving'[v].fd)
      <4>1. CASE v = w
        <5>1. response'[v] = <<Message(serving[w].fd, b)>>
          BY <1>0, <3>1, <4>1 DEF TypeOK
        <5>2. i = 1 /\ response'[v][1].fd = serving[w].fd /\ serving[w].fd \in Fd
          BY <3>3, <3>6, <5>1 DEF Message, Task
        <5> QED
          BY <3>2, <4>1, <5>2
      <4>2. CASE v # w
        <5>1. response'[v] = response[v]
          BY <1>0, <3>1, <4>2 DEF TypeOK
        <5> QED
          BY <3>2, <3>4, <3>6, <5>1 DEF Destinations
      <4> QED
        BY <4>1, <4>2
    <3> QED
      BY <3>5, <3>6 DEF Destinations
  <2>4. CASE Respond(w)
    BY <2>4, RespondDestinations
  <2>5. CASE Crash(w)
    BY <1>1, <2>5 DEF Crash, Store!Fail, server, client, history
  <2>6. ASSUME NEW k \in Key, EvictFile(w, k) PROVE Destinations'
    <3>1. files' = [files EXCEPT ![k] = NULL] /\ UNCHANGED <<response, serving, at, stage, strayed>>
      BY <2>6 DEF EvictFile, Store!Evict, client
    <3>2. \A j \in Stored(files)' : j \in Stored(files) /\ files'[j] = files[j]
      BY <1>0, <3>1 DEF Stored, TypeOK, Files
    <3>3. \A fd \in Fd : Loose(fd) => Loose(fd)'
      BY <1>0, <3>1, LooseStays
    <3>4. \A j \in Stored(files)' : \A fd \in Range(files'[j].subs) : Loose(fd)'
      BY <1>0, <3>2, <3>3, SubscribersTyped DEF Destinations
    <3> QED
      BY <3>1, <3>3, <3>4 DEF Destinations
  <2> QED
    BY <1>8, <2>1, <2>2, <2>3, <2>4, <2>5, <2>6 DEF WorkerStep
<1> QED
  BY <1>2, <1>5, <1>6, <1>7, <1>8 DEF Next

LEMMA EvictionsNext ==
  ASSUME Inv, Indexed, Evictions, [Next]_vars PROVE Evictions'
<1>0. TypeOK /\ LockInv
  BY DEF Inv
<1>1. ASSUME UNCHANGED <<evicted, evicting, serving>> PROVE Evictions'
  BY <1>1 DEF Evictions
<1>2. CASE Listen \/ Stop \/ UNCHANGED vars
  BY <1>1, <1>2 DEF Listen, Stop, vars, store, server, client, history
<1>3. ASSUME NEW c \in Client,
             \/ OpenConnection(c) \/ Tick(c) \/ Attempt(c) \/ Accept(c) \/ Call(c)
             \/ ClientStep(c) \/ Abort(c) \/ CloseConnection(c) \/ Die(c)
      PROVE  Evictions'
  <2>1. CASE OpenConnection(c) \/ Tick(c) \/ Attempt(c)
    BY <1>1, <2>1 DEF OpenConnection, Tick, Attempt, store, server
  <2>2. CASE Accept(c)
    BY <1>1, <2>2 DEF Accept, store
  <2>3. CASE ClientStep(c)
    BY <1>1, <2>3, ReadingEffect
  <2>4. CASE Call(c) \/ Abort(c) \/ CloseConnection(c) \/ Die(c)
    <3>1. CASE Ends(c)
      BY <1>1, <3>1, LeaveEffect
    <3> QED
      BY <1>0, <1>1, <2>4, <3>1, CallAsksOrEnds, EndsEnd DEF Asks
  <2> QED
    BY <1>3, <2>1, <2>2, <2>3, <2>4
<1>4. ASSUME NEW fd \in Fd, HandOver(fd) \/ Drop(fd) PROVE Evictions'
  BY <1>1, <1>4 DEF HandOver, Drop, store
<1>5. ASSUME NEW w \in Worker, WorkerStep(w) PROVE Evictions'
  <2>1. CASE Dispatch(w)
    <3>1. PICK r \in queue :
            IF r.op = "APPEND_TO_FILE" THEN UNCHANGED <<serving, call>>
            ELSE serving' = [serving EXCEPT ![w] = r] /\ call' = [call EXCEPT ![w] = r]
      BY <2>1 DEF Dispatch
    <3>2. serving[w] = NULL /\ UNCHANGED <<evicted, evicting>>
      BY <2>1 DEF Dispatch
    <3>3. w \notin evicting
      BY <1>0, <3>2 DEF LockInv, OneAtATime
    <3> QED
      BY <1>0, <3>1, <3>2, <3>3 DEF Evictions, TypeOK
  <2>2. CASE Handle(w)
    <3>1. Handled(w, serving[w], Do(files, serving[w]).err)
      BY <2>2, HandleIsHandled
    <3>2. /\ \/ serving[w].op = "WRITE_FILE" /\ evicting' = evicting \cup {w}
             \/ UNCHANGED evicting
          /\ UNCHANGED <<serving, evicted>>
      BY <3>1 DEF Handled
    <3> QED
      BY <3>2 DEF Evictions
  <2>3. CASE EvictEnd(w)
    <3>1. /\ evicted' = [evicted EXCEPT ![w] = <<>>] /\ evicting' = evicting \ {w}
          /\ UNCHANGED serving
      BY <2>3 DEF EvictEnd, Store!EvictEnd
    <3> QED
      BY <3>1 DEF Evictions, Indexed
  <2>4. CASE Respond(w)
    <3>1. /\ response[w] # <<>> /\ serving' \in {serving, [serving EXCEPT ![w] = NULL]}
          /\ UNCHANGED <<evicted, evicting>>
      BY <2>4 DEF Respond, store
    <3>2. w \notin evicting
      BY <1>0, <3>1 DEF LockInv, OneAtATime
    <3> QED
      BY <1>0, <3>1, <3>2 DEF Evictions, TypeOK
  <2>5. CASE Crash(w)
    BY <1>1, <2>5 DEF Crash, Store!Fail, server
  <2>6. ASSUME NEW k \in Key, EvictFile(w, k) PROVE Evictions'
    <3> DEFINE x == [key |-> k, len |-> files[k].length_in_bytes]
    <3>1. /\ w \in evicting /\ files[k] # NULL /\ evicted' = [evicted EXCEPT ![w] = Append(@, x)]
          /\ UNCHANGED <<serving, evicting>>
      BY <2>6 DEF EvictFile, Store!Evict
    <3>2. x \in Evicted
      BY <1>0, <3>1 DEF Evicted, TypeOK, Files, File
    <3> HIDE DEF x
    <3>3. Append(evicted[w], x) \in Seq(Evicted)
      BY <3>2, AppendProperties DEF Evictions
    <3> QED
      BY <3>1, <3>3 DEF Evictions, Indexed
  <2> QED
    BY <1>5, <2>1, <2>2, <2>3, <2>4, <2>5, <2>6 DEF WorkerStep
<1> QED
  BY <1>2, <1>3, <1>4, <1>5 DEF Next

-----------------------------------------------------------------------------
(* What a client reads. *)

LEMMA ReplyIsBytes ==
  ASSUME NEW c \in Client, asked[c] \in Request, NEW b, Reply(c, b) PROVE b \in Seq(Byte)
<1>1. asked[c].op \in Op
  BY DEF Request
<1>2. <<RESPONSE_OK>> \in Seq(Byte) /\ <<RESPONSE_ERR>> \in Seq(Byte)
  BY DEF Byte, RESPONSE_OK, RESPONSE_ERR
<1>3. ASSUME NEW n \in Nat PROVE ReadResponse(done[c], n) \in Seq(Byte)
  <2>1. /\ U64ToBigEndian(n) \in Seq(Byte) /\ <<RESPONSE_OK>> \in Seq(Byte)
        /\ <<RESPONSE_ERR>> \in Seq(Byte)
    BY <1>2, Number
  <2>2. [i \in 1 .. n |-> Content] \in Seq(Byte)
    BY DEF Byte, Content
  <2>3. (<<RESPONSE_OK>> \o U64ToBigEndian(n)) \o [i \in 1 .. n |-> Content] \in Seq(Byte)
    BY <2>1, <2>2
  <2> QED
    BY <2>1, <2>3 DEF ReadResponse, ResponseByte
<1>4. ASSUME NEW ev \in Seq(Evicted) PROVE WriteResponse(ev) \in Seq(Byte)
  <2>1. U64ToBigEndian(Len(ev)) \in Seq(Byte) /\ <<RESPONSE_OK>> \in Seq(Byte)
    BY <1>2, Number
  <2>2. FilesBytes(ev) \in Seq(Byte)
    BY FilesBytesType
  <2>3. (<<RESPONSE_OK>> \o U64ToBigEndian(Len(ev))) \o FilesBytes(ev) \in Seq(Byte)
    BY <2>1, <2>2
  <2> QED
    BY <2>3 DEF WriteResponse, FilesBytes
<1>5. CASE asked[c].op = "WRITE_FILE"
  BY <1>4, <1>5 DEF Reply
<1>6. CASE asked[c].op = "READ_FILE"
  BY <1>3, <1>6 DEF Reply
<1>7. CASE asked[c].op = "LOCK_FILE"
  BY <1>2, <1>7 DEF Reply
<1>8. CASE asked[c].op \in Op \ {"WRITE_FILE", "READ_FILE", "LOCK_FILE"}
  <2>1. b = ResponseByte(done[c])
    BY <1>8 DEF Reply
  <2>2. ResponseByte(done[c]) \in {<<RESPONSE_OK>>, <<RESPONSE_ERR>>}
    BY DEF ResponseByte
  <2> QED
    BY <1>2, <2>1, <2>2
<1> QED
  BY <1>1, <1>5, <1>6, <1>7, <1>8

\* Outside of the wait for a response nothing of the request is on its way.
LEMMA HasArrived ==
  ASSUME NEW c \in Client, Exchange(c), stage[c] # "code" \/ inbox[c] # <<>>
  PROVE  Arrived(c) /\ Decoded(c)
<1>1. ~Sent(c)
  BY DEF Sent
<1>2. Arrived(c)
  BY <1>1 DEF Exchange, Arrived
<1> QED
  BY <1>2 DEF Exchange

LEMMA ReadOn ==
  ASSUME NEW c \in Client, Arrived(c), stage'[c] # "code", Decoded(c)',
         UNCHANGED <<wire, queue, serving, call, evicting, response>>
  PROVE  Exchange(c)'
<1>1. \A w \in Worker : Owes(w, c)' <=> Owes(w, c)
  BY DEF Owes, Answering
<1>2. wire'[c] = NULL /\ (\A r \in queue' : r.from # c) /\ \A w \in Worker : ~Owes(w, c)'
  BY <1>1 DEF Arrived
<1> QED
  BY <1>2 DEF Exchange

LEMMA TakeBytes ==
  ASSUME NEW c \in Client, Indexed, NEW n \in Nat, NEW a \in Seq(Byte), NEW b \in Seq(Byte),
         Len(a) = n, inbox[c] = a \o b, Consume(c, n)
  PROVE  Bytes(c, n) = a /\ inbox'[c] = b
<1>1. /\ SubSeq((a \o b) \o Zeros(n), 1, n) = a
      /\ SubSeq(a \o b, n + 1, Len(a \o b)) = b
  BY Cut
<1>2. inbox'[c] = SubSeq(inbox[c], n + 1, Len(inbox[c]))
  BY DEF Consume, Indexed
<1> QED
  BY <1>1, <1>2 DEF Bytes

LEMMA TakeAll ==
  ASSUME NEW c \in Client, Indexed, NEW n \in Nat, NEW a \in Seq(Byte),
         Len(a) = n, inbox[c] = a, Consume(c, n)
  PROVE  Bytes(c, n) = a /\ inbox'[c] = <<>>
<1>1. a = a \o <<>> /\ <<>> \in Seq(Byte)
  BY ConcatEmptySeq
<1> QED
  BY <1>1, TakeBytes

LEMMA Moves ==
  ASSUME TypeOK, Indexed, NEW c \in Client
  PROVE  /\ \A s : Enter(c, s) => stage'[c] = s /\ ret'[c] = ret[c]
         /\ \A v : Return(c, v) => stage'[c] = "idle" /\ ret'[c] = v
BY DEF TypeOK, Indexed, Enter, Return

\* The response code is read; x is the first byte of the response and t the rest.
LEMMA CodeDecoded ==
  ASSUME TypeOK, Indexed, alive, NEW c \in Client, ReadCode(c), NEW x \in {RESPONSE_OK, RESPONSE_ERR},
         NEW t \in Seq(Byte), inbox[c] = <<x>> \o t
  PROVE  /\ inbox'[c] = t
         /\ x = RESPONSE_ERR => stage'[c] = "idle" /\ ret'[c] = -1
         /\ x = RESPONSE_OK =>
              /\ asked[c].op \in WithFiles => stage'[c] = "count"
              /\ asked[c].op = "READ_FILE" => stage'[c] = "length"
              /\ asked[c].op \notin WithFiles \cup {"READ_FILE"} => stage'[c] = "idle" /\ ret'[c] = 0
<1>1. <<x>> \in Seq(Byte) /\ Len(<<x>>) = 1 /\ <<x>>[1] = x
  BY DEF Byte, RESPONSE_OK, RESPONSE_ERR
<1>2. Consume(c, 1) /\ ~Reset(c)
  BY DEF ReadCode, Reset, HungUp
<1>3. Bytes(c, 1) = <<x>> /\ inbox'[c] = t
  BY <1>1, <1>2, TakeBytes
<1>4. /\ Bytes(c, 1)[1] = RESPONSE_ERR => Return(c, -1)
      /\ Bytes(c, 1)[1] # RESPONSE_ERR =>
           IF asked[c].op \in WithFiles THEN Enter(c, "count")
           ELSE IF asked[c].op = "READ_FILE" THEN Enter(c, "length") ELSE Return(c, 0)
  BY <1>2 DEF ReadCode
<1>5. x = RESPONSE_ERR => Return(c, -1)
  BY <1>1, <1>3, <1>4
<1>6. x = RESPONSE_OK =>
           IF asked[c].op \in WithFiles THEN Enter(c, "count")
           ELSE IF asked[c].op = "READ_FILE" THEN Enter(c, "length") ELSE Return(c, 0)
  BY <1>1, <1>3, <1>4 DEF RESPONSE_OK, RESPONSE_ERR
<1> QED
  BY <1>3, <1>5, <1>6, Moves DEF WithFiles

LEMMA CodeKeeps ==
  ASSUME TypeOK, Indexed, Answerable, NoReadN, alive, NEW c \in Client, Exchange(c), ReadCode(c)
  PROVE  Arrived(c) /\ Decoded(c)' /\ stage'[c] # "code"
<1>1. stage[c] = "code" /\ Len(inbox[c]) >= 1
  BY DEF ReadCode, Reading, CanRead, HungUp
<1>2. UNCHANGED <<asked, done, owed, saved>>
  BY DEF ReadCode, Reading
<1>3. inbox[c] # <<>>
  BY <1>1
<1>4. Arrived(c) /\ AwaitsCode(c)
  BY <1>1, <1>3, HasArrived DEF Decoded
<1>5. asked[c] \in Request /\ Reply(c, inbox[c]) /\ done[c] # NULL
  BY <1>3, <1>4 DEF AwaitsCode, Reply
<1>6. asked[c] # NULL /\ asked[c].op \in Op \ {"READ_N_FILES", "APPEND_TO_FILE"}
  BY <1>5 DEF Answerable, NoReadN, Request, Reply
<1>7. RESPONSE_OK \in {RESPONSE_OK, RESPONSE_ERR} /\ <<>> \in Seq(Byte) /\ RESPONSE_OK # RESPONSE_ERR
  BY DEF RESPONSE_OK, RESPONSE_ERR
<1>8. \A x \in {RESPONSE_OK, RESPONSE_ERR} : <<x>> = <<x>> \o <<>> /\ <<x>> \in Seq(Byte)
  BY ConcatEmptySeq DEF RESPONSE_OK, RESPONSE_ERR, Byte
<1>9. CASE asked[c].op = "WRITE_FILE"
  <2>1. PICK ev \in Seq(Evicted) : inbox[c] = WriteResponse(ev) /\ owed[c] = Paths(ev)
    BY <1>5, <1>9 DEF Reply
  <2> DEFINE t == U64ToBigEndian(Len(ev)) \o FilesBytes(ev)
  <2>2. U64ToBigEndian(Len(ev)) \in Seq(Byte) /\ FilesBytes(ev) \in Seq(Byte)
    BY Number, FilesBytesType
  <2>3. t \in Seq(Byte) /\ inbox[c] = <<RESPONSE_OK>> \o t
    <3>1. inbox[c] = (<<RESPONSE_OK>> \o U64ToBigEndian(Len(ev))) \o FilesBytes(ev)
      BY <2>1 DEF WriteResponse, FilesBytes
    <3> QED
      BY <1>7, <1>8, <2>2, <3>1, Assoc
  <2> HIDE DEF t
  <2>4. inbox'[c] = t /\ stage'[c] = "count"
    BY <1>7, <1>9, <2>3, CodeDecoded DEF WithFiles
  <2>5. saved[c] = {}
    BY <1>1 DEF Exchange
  <2>6. AwaitsCount(c)'
    BY <1>2, <1>5, <1>6, <1>9, <2>1, <2>4, <2>5 DEF AwaitsCount, WritingFile, t
  <2> QED
    BY <1>4, <2>4, <2>6 DEF Decoded
<1>10. CASE asked[c].op = "READ_FILE" /\ done[c] = "OK"
  <2>1. PICK n \in Nat : inbox[c] = ReadResponse(done[c], n)
    BY <1>5, <1>10 DEF Reply
  <2> DEFINE t == U64ToBigEndian(n) \o Contents(n)
  <2>2. U64ToBigEndian(n) \in Seq(Byte) /\ Contents(n) \in Seq(Byte)
    BY Number DEF Contents, Content, Byte
  <2>3. t \in Seq(Byte) /\ inbox[c] = <<RESPONSE_OK>> \o t
    <3>1. inbox[c] = (<<RESPONSE_OK>> \o U64ToBigEndian(n)) \o Contents(n)
      BY <1>10, <2>1 DEF ReadResponse, Contents
    <3> QED
      BY <1>7, <1>8, <2>2, <3>1, Assoc
  <2> HIDE DEF t
  <2>4. inbox'[c] = t /\ stage'[c] = "length"
    BY <1>7, <1>10, <2>3, CodeDecoded
  <2>6. AwaitsLength(c)'
    BY <1>2, <1>6, <1>10, <2>4 DEF AwaitsLength, ReadingFile, t
  <2> QED
    BY <1>4, <2>4, <2>6 DEF Decoded
<1>11. CASE asked[c].op # "WRITE_FILE" /\ ~(asked[c].op = "READ_FILE" /\ done[c] = "OK")
  <2>1. PICK x \in {RESPONSE_OK, RESPONSE_ERR} :
          /\ inbox[c] = <<x>>
          /\ asked[c].op # "LOCK_FILE" => (x = RESPONSE_OK <=> done[c] = "OK")
    <3>1. CASE asked[c].op = "LOCK_FILE"
      BY <1>5, <1>7, <3>1 DEF Reply
    <3>2. CASE asked[c].op = "READ_FILE"
      BY <1>5, <1>7, <1>11, <3>2 DEF Reply, ReadResponse, ResponseByte
    <3>3. CASE asked[c].op \notin {"LOCK_FILE", "READ_FILE"}
      BY <1>5, <1>6, <1>7, <1>11, <3>3 DEF Reply, ResponseByte
    <3> QED
      BY <3>1, <3>2, <3>3
  <2>2. inbox[c] = <<x>> \o <<>>
    BY <1>8, <2>1
  <2>3. asked[c].op \notin WithFiles /\ (x = RESPONSE_OK => asked[c].op # "READ_FILE")
    BY <1>6, <1>11, <2>1 DEF WithFiles
  <2>4. /\ inbox'[c] = <<>> /\ stage'[c] = "idle"
        /\ x = RESPONSE_ERR => ret'[c] = -1
        /\ x = RESPONSE_OK => ret'[c] = 0
    BY <1>7, <2>2, <2>3, CodeDecoded
  <2>5. asked[c].op # "LOCK_FILE" => (ret'[c] = 0 <=> done[c] = "OK")
    BY <2>1, <2>4 DEF RESPONSE_OK, RESPONSE_ERR
  <2>6. Returned(c)'
    BY <1>2, <1>5, <1>11, <2>4, <2>5 DEF Returned, Opening
  <2> QED
    BY <1>4, <2>4, <2>6 DEF Decoded
<1> QED
  BY <1>9, <1>10, <1>11

LEMMA LengthKeeps ==
  ASSUME TypeOK, Indexed, NEW c \in Client, Exchange(c), ReadLength(c)
  PROVE  Arrived(c) /\ Decoded(c)' /\ stage'[c] # "code"
<1>1. /\ stage[c] = "length" /\ Consume(c, U64) /\ Enter(c, "contents")
      /\ need' = [need EXCEPT ![c] = <<0, BigEndianToU64(Bytes(c, U64))>>]
      /\ UNCHANGED <<asked, done>>
  BY DEF ReadLength, Reading
<1>2. Arrived(c) /\ AwaitsLength(c)
  BY <1>1, HasArrived DEF Decoded
<1>3. PICK n \in Nat : inbox[c] = U64ToBigEndian(n) \o Contents(n)
  BY <1>2 DEF AwaitsLength
<1>4. /\ U64ToBigEndian(n) \in Seq(Byte) /\ Len(U64ToBigEndian(n)) = U64
      /\ BigEndianToU64(U64ToBigEndian(n)) = n
  BY Number
<1>5. Contents(n) \in Seq(Byte) /\ U64 \in Nat
  BY DEF Contents, Content, Byte, U64
<1>6. Bytes(c, U64) = U64ToBigEndian(n) /\ inbox'[c] = Contents(n)
  BY <1>1, <1>3, <1>4, <1>5, TakeBytes
<1>7. need'[c] = <<0, n>> /\ stage'[c] = "contents"
  BY <1>1, <1>4, <1>6, Moves DEF Indexed
<1>8. need'[c][2] = n
  BY <1>7
<1>9. AwaitsContents(c)'
  BY <1>1, <1>2, <1>6, <1>8 DEF AwaitsLength, AwaitsContents, ReadingFile
<1> QED
  BY <1>2, <1>7, <1>9 DEF Decoded

LEMMA ContentsKeeps ==
  ASSUME TypeOK, Indexed, NEW c \in Client, Exchange(c), ReadContents(c)
  PROVE  Arrived(c) /\ Decoded(c)' /\ stage'[c] # "code"
<1>1. /\ stage[c] = "contents" /\ Consume(c, need[c][2]) /\ Return(c, 0) /\ UNCHANGED <<asked, done>>
  BY DEF ReadContents, Reading
<1>2. Arrived(c) /\ AwaitsContents(c)
  BY <1>1, HasArrived DEF Decoded
<1>3. need[c][2] \in Nat /\ inbox[c] = Contents(need[c][2])
  BY <1>2 DEF AwaitsContents
<1>4. inbox[c] \in Seq(Byte) /\ Len(inbox[c]) = need[c][2]
  BY <1>3 DEF Contents, Content, Byte
<1>5. inbox'[c] = <<>>
  BY <1>1, <1>3, <1>4, TakeAll
<1>6. stage'[c] = "idle" /\ ret'[c] = 0
  BY <1>1, Moves
<1>7. Returned(c)'
  BY <1>1, <1>2, <1>5, <1>6 DEF AwaitsContents, ReadingFile, Returned, HTableError
<1> QED
  BY <1>2, <1>6, <1>7 DEF Decoded

LEMMA CountKeeps ==
  ASSUME TypeOK, Indexed, NEW c \in Client, Exchange(c), ReadCount(c)
  PROVE  Arrived(c) /\ Decoded(c)' /\ stage'[c] # "code"
<1> DEFINE n == BigEndianToU64(Bytes(c, U64))
<1>1. /\ stage[c] = "count" /\ Consume(c, U64) /\ left' = [left EXCEPT ![c] = n]
      /\ IF n = 0 THEN Return(c, 0) ELSE Enter(c, "lengths")
      /\ UNCHANGED <<asked, done, owed, saved>>
  BY DEF ReadCount, Reading
<1>2. Arrived(c) /\ AwaitsCount(c)
  BY <1>1, HasArrived DEF Decoded
<1>3. PICK ev \in Seq(Evicted) :
        inbox[c] = U64ToBigEndian(Len(ev)) \o FilesBytes(ev) /\ owed[c] = Paths(ev)
  BY <1>2 DEF AwaitsCount
<1>4. /\ U64ToBigEndian(Len(ev)) \in Seq(Byte) /\ Len(U64ToBigEndian(Len(ev))) = U64
      /\ BigEndianToU64(U64ToBigEndian(Len(ev))) = Len(ev)
  BY Number
<1>5. FilesBytes(ev) \in Seq(Byte) /\ U64 \in Nat
  BY FilesBytesType DEF U64
<1>6. Bytes(c, U64) = U64ToBigEndian(Len(ev)) /\ inbox'[c] = FilesBytes(ev)
  BY <1>1, <1>3, <1>4, <1>5, TakeBytes
<1>7. n = Len(ev)
  BY <1>4, <1>6
<1> HIDE DEF n
<1>8. saved[c] = {} /\ WritingFile(c)
  BY <1>2 DEF AwaitsCount
<1>9. CASE n = 0
  <2>1. ev = <<>>
    BY <1>7, <1>9, EmptySeq
  <2>2. inbox'[c] = <<>> /\ owed[c] = {}
    BY <1>3, <1>6, <2>1, FilesBytesNone
  <2>3. stage'[c] = "idle" /\ ret'[c] = 0
    BY <1>1, <1>9, Moves
  <2>4. Returned(c)'
    BY <1>1, <1>8, <2>2, <2>3 DEF Returned, WritingFile, Opening
  <2> QED
    BY <1>2, <2>3, <2>4 DEF Decoded
<1>10. CASE n # 0
  <2>1. ev # <<>>
    BY <1>7, <1>10
  <2>2. stage'[c] = "lengths" /\ left'[c] = Len(ev)
    BY <1>1, <1>7, <1>10, Moves DEF Indexed
  <2>3. AwaitsLengths(c)'
    BY <1>1, <1>3, <1>6, <1>8, <2>1, <2>2 DEF AwaitsLengths, WritingFile
  <2> QED
    BY <1>2, <2>2, <2>3 DEF Decoded
<1> QED
  BY <1>9, <1>10

LEMMA Joined ==
  ASSUME NEW x \in Seq(Byte), NEW y \in Seq(Byte)
  PROVE  /\ x \o y \in Seq(Byte) /\ Len(x \o y) = Len(x) + Len(y)
         /\ \A i \in 1 .. Len(x) + Len(y) :
              (x \o y)[i] = IF i <= Len(x) THEN x[i] ELSE y[i - Len(x)]
<1>1. x \o y \in Seq(Byte) /\ Len(x \o y) = Len(x) + Len(y)
  OBVIOUS
<1>2. \A i \in 1 .. Len(x) + Len(y) : (x \o y)[i] = IF i <= Len(x) THEN x[i] ELSE y[i - Len(x)]
  OBVIOUS
<1> QED
  BY <1>1, <1>2

LEMMA TwoNumbers ==
  ASSUME NEW m \in Int, NEW n \in Int
  PROVE  LET a == U64ToBigEndian(m) \o U64ToBigEndian(n) IN
         /\ a \in Seq(Byte) /\ Len(a) = 2 * U64
         /\ BigEndianToU64(a) = m
         /\ BigEndianToU64(SubSeq(a, U64 + 1, 2 * U64)) = n
<1> DEFINE x == U64ToBigEndian(m) y == U64ToBigEndian(n) a == x \o y
<1>1. /\ x \in Seq(Byte) /\ Len(x) = U64 /\ BigEndianToU64(x) = m
      /\ y \in Seq(Byte) /\ Len(y) = U64 /\ BigEndianToU64(y) = n /\ U64 = 8
  BY Number DEF U64
<1> HIDE DEF x, y
<1>2. /\ a \in Seq(Byte) /\ Len(a) = 2 * U64
      /\ \A i \in 1 .. 16 : a[i] = IF i <= 8 THEN x[i] ELSE y[i - 8]
  <2>1. /\ a \in Seq(Byte) /\ Len(a) = Len(x) + Len(y)
        /\ \A i \in 1 .. Len(x) + Len(y) : a[i] = IF i <= Len(x) THEN x[i] ELSE y[i - Len(x)]
    BY <1>1, Joined
  <2> HIDE DEF a
  <2>2. Len(x) = 8 /\ Len(y) = 8 /\ 2 * U64 = 16
    BY <1>1
  <2>3. Len(a) = 2 * U64
    BY <2>1, <2>2
  <2>4. \A i \in 1 .. 16 : a[i] = IF i <= 8 THEN x[i] ELSE y[i - 8]
    <3> SUFFICES ASSUME NEW i \in 1 .. 16 PROVE a[i] = IF i <= 8 THEN x[i] ELSE y[i - 8]
      OBVIOUS
    <3>1. i \in 1 .. Len(x) + Len(y)
      BY <2>2
    <3> QED
      BY <2>1, <2>2, <3>1
  <2> QED
    BY <2>1, <2>3, <2>4
<1>3. SubSeq(a, U64 + 1, Len(a)) = y
  <2>1. U64 \in Nat
    BY <1>1
  <2> QED
    BY <1>1, <2>1, Cut
<1> HIDE DEF a
<1>4. \A i \in 1 .. 8 : a[i] = x[i]
  BY <1>2
<1>5. BigEndianToU64(a) = BigEndianToU64(x)
  <2>1. 1 .. U64 - 1 = 1 .. 7 /\ U64 \in 1 .. 8 /\ \A i \in 1 .. 7 : i \in 1 .. 8
    BY <1>1
  <2> QED
    BY <1>4, <2>1 DEF BigEndianToU64
<1> QED
  BY <1>1, <1>2, <1>3, <1>5 DEF x, y, a

LEMMA LengthsKeeps ==
  ASSUME TypeOK, Indexed, NEW c \in Client, Exchange(c), ReadLengths(c)
  PROVE  Arrived(c) /\ Decoded(c)' /\ stage'[c] # "code"
<1> DEFINE B == Bytes(c, 2 * U64)
<1>1. /\ stage[c] = "lengths" /\ Consume(c, 2 * U64) /\ Enter(c, "body")
      /\ need' = [need EXCEPT ![c] =
                    <<BigEndianToU64(B), BigEndianToU64(SubSeq(B, U64 + 1, 2 * U64))>>]
      /\ UNCHANGED <<asked, done, owed, saved, left>>
  BY DEF ReadLengths, Reading
<1>2. Arrived(c) /\ AwaitsLengths(c)
  BY <1>1, HasArrived DEF Decoded
<1>3. PICK ev \in Seq(Evicted) :
       /\ inbox[c] = FilesBytes(ev) /\ left[c] = Len(ev) /\ ev # <<>>
       /\ owed[c] = saved[c] \cup Paths(ev)
  BY <1>2 DEF AwaitsLengths
<1> DEFINE k == ev[1].key n == ev[1].len t == Tail(ev)
           a == U64ToBigEndian(1) \o U64ToBigEndian(n)
           p == Path(k) \o Contents(n)
<1>4. /\ FilesBytes(ev) = FileBytes(k, n) \o FilesBytes(t) /\ FilesBytes(t) \in Seq(Byte)
      /\ t \in Seq(Evicted) /\ Len(t) = Len(ev) - 1 /\ k \in Key /\ n \in Nat
      /\ Paths(ev) = {Path(k)} \cup Paths(t)
  BY <1>3, FilesBytesFirst
<1> HIDE DEF k, n, t
<1>5. /\ a \in Seq(Byte) /\ Len(a) = 2 * U64 /\ BigEndianToU64(a) = 1
      /\ BigEndianToU64(SubSeq(a, U64 + 1, 2 * U64)) = n
  BY <1>4, TwoNumbers
<1>6. p \in Seq(Byte) /\ FileBytes(k, n) = a \o p
  <2>1. /\ Contents(n) \in Seq(Byte) /\ Path(k) \in Seq(Byte)
        /\ FileBytes(k, n) = (U64ToBigEndian(1) \o U64ToBigEndian(n)) \o (Path(k) \o Contents(n))
    BY <1>4, SmallBytes
  <2>2. p \in Seq(Byte)
    BY <2>1, ConcatProperties
  <2> QED
    BY <2>1, <2>2
<1> HIDE DEF a
<1>7. inbox[c] = a \o (p \o FilesBytes(t)) /\ p \o FilesBytes(t) \in Seq(Byte)
  <2> HIDE DEF p
  <2>1. inbox[c] = (a \o p) \o FilesBytes(t)
    BY <1>3, <1>4, <1>6
  <2>2. p \o FilesBytes(t) \in Seq(Byte)
    BY <1>4, <1>6
  <2> QED
    BY <1>4, <1>5, <1>6, <2>1, <2>2, Assoc
<1>8. B = a /\ inbox'[c] = p \o FilesBytes(t)
  <2>1. 2 * U64 \in Nat
    BY DEF U64
  <2> QED
    BY <1>1, <1>5, <1>7, <2>1, TakeBytes
<1> HIDE DEF B
<1>9. need'[c] = <<1, n>> /\ stage'[c] = "body"
  BY <1>1, <1>5, <1>8, Moves DEF Indexed
<1>10. left'[c] = Len(t) + 1
  BY <1>1, <1>3, <1>4
<1>11. owed'[c] = saved'[c] \cup {Path(k)} \cup Paths(t)
  BY <1>1, <1>3, <1>4
<1>12. AwaitsBody(c)'
  BY <1>1, <1>2, <1>4, <1>8, <1>9, <1>10, <1>11 DEF AwaitsLengths, AwaitsBody, WritingFile
<1> QED
  BY <1>2, <1>9, <1>12 DEF Decoded

LEMMA BodyKeeps ==
  ASSUME TypeOK, Indexed, NEW c \in Client, Exchange(c), ReadBody(c), c \notin strayed'
  PROVE  Arrived(c) /\ Decoded(c)' /\ stage'[c] # "code"
<1>1. /\ stage[c] = "body" /\ Consume(c, need[c][1] + need[c][2])
      /\ left' = [left EXCEPT ![c] = left[c] - 1] /\ UNCHANGED <<asked, done, owed>>
  BY DEF ReadBody, Reading
<1>2. /\ saved' = [saved EXCEPT ![c] = saved[c] \cup {Bytes(c, need[c][1])}]
      /\ IF left[c] = 1 THEN Return(c, 0) ELSE Enter(c, "lengths")
  BY DEF ReadBody
<1>3. Arrived(c) /\ AwaitsBody(c)
  BY <1>1, HasArrived DEF Decoded
<1>4. PICK ev \in Seq(Evicted), k \in Key, n \in Nat :
       /\ need[c] = <<1, n>> /\ left[c] = Len(ev) + 1
       /\ inbox[c] = (Path(k) \o Contents(n)) \o FilesBytes(ev)
       /\ owed[c] = saved[c] \cup {Path(k)} \cup Paths(ev)
  BY <1>3 DEF AwaitsBody
<1>5. need[c][1] = 1 /\ need[c][2] = n
  BY <1>4
<1>6. /\ Contents(n) \in Seq(Byte) /\ Len(Contents(n)) = n
      /\ Path(k) \in Seq(Byte) /\ Len(Path(k)) = 1 /\ FilesBytes(ev) \in Seq(Byte)
  BY SmallBytes, FilesBytesType
<1>7. Path(k) \o Contents(n) \in Seq(Byte) /\ Len(Path(k) \o Contents(n)) = 1 + n
  <2>1. /\ Path(k) \o Contents(n) \in Seq(Byte)
        /\ Len(Path(k) \o Contents(n)) = Len(Path(k)) + Len(Contents(n))
    BY <1>6, Joined, Zenon
  <2> QED
    BY <1>6, <2>1
<1>8. inbox'[c] = FilesBytes(ev)
  <2>1. Consume(c, 1 + n) /\ 1 + n \in Nat
    BY <1>1, <1>5
  <2> QED
    BY <1>4, <1>6, <1>7, <2>1, TakeBytes
<1>9. Bytes(c, need[c][1]) = Path(k)
  <2>1. Contents(n) \o FilesBytes(ev) \in Seq(Byte)
    BY <1>6, Joined
  <2>2. inbox[c] = Path(k) \o (Contents(n) \o FilesBytes(ev))
    BY <1>4, <1>6, Assoc, SMTT(30)
  <2> DEFINE p == Path(k) q == Contents(n) \o FilesBytes(ev)
  <2>3. p \in Seq(Byte) /\ q \in Seq(Byte) /\ Len(p) = 1 /\ 1 \in Nat
    BY <1>6, <2>1
  <2>4. inbox[c] = p \o q /\ p = Path(k)
    BY <2>2
  <2> HIDE DEF p, q
  <2>5. SubSeq((p \o q) \o Zeros(Len(p)), 1, Len(p)) = p
    BY <2>3, CutFront
  <2> QED
    BY <1>5, <2>3, <2>4, <2>5 DEF Bytes
<1>10. /\ saved'[c] = saved[c] \cup {Path(k)} /\ left'[c] = Len(ev)
  BY <1>1, <1>2, <1>4, <1>9 DEF Indexed
<1>11. owed'[c] = saved'[c] \cup Paths(ev)
  BY <1>1, <1>4, <1>10
<1>12. CASE left[c] = 1
  <2>1. ev = <<>>
    BY <1>4, <1>12, EmptySeq
  <2>2. inbox'[c] = <<>> /\ owed'[c] = saved'[c]
    BY <1>8, <1>11, <2>1, FilesBytesNone
  <2>3. stage'[c] = "idle" /\ ret'[c] = 0
    BY <1>2, <1>12, Moves
  <2>4. Returned(c)'
    BY <1>1, <1>3, <2>2, <2>3 DEF AwaitsBody, Returned, WritingFile, Opening
  <2> QED
    BY <1>3, <2>3, <2>4 DEF Decoded
<1>13. CASE left[c] # 1
  <2>1. ev # <<>>
    BY <1>4, <1>13
  <2>2. stage'[c] = "lengths"
    BY <1>2, <1>13, Moves
  <2>3. AwaitsLengths(c)'
    BY <1>1, <1>3, <1>8, <1>10, <1>11, <2>1 DEF AwaitsBody, AwaitsLengths, WritingFile
  <2> QED
    BY <1>3, <2>2, <2>3 DEF Decoded
<1> QED
  BY <1>12, <1>13

LEMMA ReadingKeeps ==
  ASSUME TypeOK, Indexed, Answerable, NoReadN, alive, NEW c \in Client, Exchange(c), ClientStep(c),
         c \notin strayed'
  PROVE  Exchange(c)'
<1>1. Arrived(c) /\ Decoded(c)' /\ stage'[c] # "code"
  BY CodeKeeps, LengthKeeps, ContentsKeeps, CountKeeps, LengthsKeeps, BodyKeeps DEF ClientStep
<1>2. UNCHANGED <<wire, queue, serving, call, evicting, response>>
  BY ReadingEffect
<1> QED
  BY <1>1, <1>2, ReadOn

-----------------------------------------------------------------------------
(* The exchange of the client that a step is about. *)

LEMMA AsksKeeps ==
  ASSUME TypeOK, Indexed, NEW c \in Client, Exchange(c), NEW r \in Api[c], Asks(c, r)
  PROVE  Exchange(c)'
<1>1. stage[c] = "idle" /\ r \in Request /\ r # NULL
  BY DEF Asks
<1>2. Arrived(c) /\ Returned(c)
  BY <1>1, HasArrived DEF Decoded
<1>3. /\ wire'[c] = r /\ asked'[c] = r /\ stage'[c] = "code" /\ saved'[c] = {} /\ owed'[c] = {}
      /\ inbox'[c] = <<>>
  BY <1>2 DEF Asks, Indexed, TypeOK, Returned
<1>4. \A w \in Worker : Owes(w, c)' <=> Owes(w, c)
  BY DEF Owes, Answering, Asks
<1>5. (\A q \in queue' : q.from # c) /\ \A w \in Worker : ~Owes(w, c)'
  BY <1>2, <1>4 DEF Arrived, Asks
<1>6. Sent(c)'
  BY <1>1, <1>3 DEF Sent
<1>7. ~Arrived(c)'
  BY <1>1, <1>3 DEF Arrived
<1> QED
  BY <1>1, <1>3, <1>5, <1>6, <1>7 DEF Exchange

LEMMA AttemptKeeps ==
  ASSUME Inv, Indexed, Fresh, NEW c \in Client, stage[c] \in Before, stage'[c] = "idle",
         UNCHANGED <<inbox, wire, asked, queue, serving, call, evicting, response>>
  PROVE  Exchange(c)'
<1>0. TypeOK /\ LockInv
  BY DEF Inv
<1>1. inbox[c] = <<>> /\ wire[c] = NULL /\ asked[c] = NULL
  BY DEF Fresh
<1>2. \A r \in InHand : r.from # c
  BY <1>0 DEF LockInv, SendersKnown
<1>3. \A r \in queue : r.from # c
  BY <1>2 DEF InHand
<1>4. \A w \in Worker : ~Owes(w, c)'
  BY <1>0, <1>2 DEF Owes, InHand, Range, TypeOK
<1>5. Returned(c)'
  BY <1>1 DEF Returned
<1>6. Decoded(c)'
  BY <1>5 DEF Decoded
<1> QED
  BY <1>1, <1>3, <1>4, <1>6 DEF Exchange

LEMMA HandOverExchanges ==
  ASSUME Inv, Indexed, Exchanges, alive, NEW fd \in Fd, HandOver(fd), NEW d \in Client, Good(d)
  PROVE  Exchange(d)'
<1>0. TypeOK /\ Exchange(d)
  BY DEF Inv, Exchanges, Good
<1> DEFINE c == at[fd] r == wire[at[fd]]
           m == [op |-> r.op, key |-> r.key, arg |-> r.arg, fd |-> fd, from |-> c]
<1>1. /\ c # NULL /\ r # NULL /\ queue' = {m} /\ wire' = [wire EXCEPT ![c] = NULL]
      /\ lost' = lost \cup {q.from : q \in queue}
      /\ UNCHANGED <<call, evicting, serving, evicted, response, stage, asked, inbox, left, need,
                     saved, ret, done, owed>>
  BY DEF HandOver, store
<1>2. c \in Client /\ m.from = c /\ m.op = r.op
  BY <1>0, <1>1 DEF TypeOK
<1> HIDE DEF m
<1>3. \A w \in Worker : (Owes(w, d)' <=> Owes(w, d)) /\ (Answering(w)' <=> Answering(w))
  BY <1>1 DEF Owes, Answering
<1>4. CASE d # c /\ \A q \in queue : q.from # d
  <2>1. SameClient(d)
    BY <1>0, <1>1, <1>4 DEF SameClient, TypeOK
  <2>2. SameQueue(d)
    BY <1>1, <1>2, <1>4 DEF SameQueue
  <2>3. \A w \in Worker : SameWork(w, d)
    BY <1>1, <1>3 DEF SameWork
  <2> QED
    BY <1>0, <2>1, <2>2, <2>3, ExchangeStays
<1>6. CASE d # c /\ \E q \in queue : q.from = d
  <2>1. /\ Sent(d) /\ owed[d] = {} /\ wire[d] = NULL /\ saved[d] = {}
        /\ \A w \in Worker : ~Owes(w, d)
    BY <1>0, <1>6 DEF Exchange, Sent
  <2>2. Sent(d)' /\ wire'[d] = NULL /\ saved'[d] = {}
    BY <1>0, <1>1, <1>2, <1>6, <2>1 DEF Sent, TypeOK
  <2>3. (\A w \in Worker : ~Owes(w, d)') /\ \A q \in queue' : q.from # d
    BY <1>1, <1>2, <1>3, <1>6, <2>1
  <2>4. d \in lost'
    BY <1>1, <1>6
  <2>5. Decoded(d)'
    BY <2>2, <2>4 DEF Decoded, Sent, AwaitsCode
  <2> QED
    BY <2>2, <2>3, <2>5 DEF Exchange
<1>5. CASE d = c
  <2>1. /\ Sent(d) /\ owed[d] = {} /\ r = asked[d]
        /\ (\A q \in queue : q.from # d) /\ \A w \in Worker : ~Owes(w, d)
    BY <1>0, <1>1, <1>5 DEF Exchange
  <2>2. Sent(d)' /\ wire'[d] = NULL /\ owed'[d] = {} /\ saved'[d] = {}
    BY <1>0, <1>1, <1>2, <1>5, <2>1 DEF Sent, TypeOK, Exchange
  <2>3. \A q \in queue' : q.from = d => q = m
    BY <1>1, <2>1
  <2>4. m.op = asked'[d].op /\ m \in queue' /\ m.from = d
    BY <1>1, <1>2, <1>5, <2>1
  <2>5. \A w \in Worker : ~Owes(w, d)'
    BY <1>3, <2>1
  <2>6. ~Arrived(d)'
    BY <2>4 DEF Arrived
  <2> QED
    BY <2>2, <2>3, <2>4, <2>5, <2>6 DEF Exchange
<1> QED
  BY <1>4, <1>5, <1>6

LEMMA DispatchExchanges ==
  ASSUME Inv, Indexed, Exchanges, alive, NEW w \in Worker, Dispatch(w), NEW d \in Client, Good(d)
  PROVE  Exchange(d)'
<1>0. TypeOK /\ LockInv /\ Exchange(d)
  BY DEF Inv, Exchanges, Good
<1>1. PICK r \in queue :
        /\ queue' = queue \ {r}
        /\ IF r.op = "APPEND_TO_FILE" THEN UNCHANGED <<serving, call>>
           ELSE serving' = [serving EXCEPT ![w] = r] /\ call' = [call EXCEPT ![w] = r]
  BY DEF Dispatch
<1>2. /\ serving[w] = NULL
      /\ UNCHANGED <<evicting, evicted, response, stage, asked, wire, inbox, left, need, saved, ret,
                     done, owed, lost>>
  BY DEF Dispatch, client, history
<1>3. r \in Task /\ r # NULL /\ response[w] = <<>> /\ w \notin evicting /\ call[w] = NULL
  BY <1>0, <1>2 DEF TypeOK, LockInv, OneAtATime
<1>4. \A v \in Worker \ {w} : serving'[v] = serving[v] /\ call'[v] = call[v]
  BY <1>0, <1>1 DEF TypeOK
<1>5. \A v \in Worker : Answering(v) => v # w
  BY <1>3 DEF Answering
<1>6. \A v \in Worker \ {w} : (Owes(v, d)' <=> Owes(v, d)) /\ (Answering(v)' <=> Answering(v))
  BY <1>2, <1>4 DEF Owes, Answering
<1>7. ~Owes(w, d)
  BY <1>2 DEF Owes
<1>8. SameClient(d)
  BY <1>2 DEF SameClient
<1>9. CASE r.from # d
  <2>1. SameQueue(d)
    BY <1>1, <1>9 DEF SameQueue
  <2>2. ~Owes(w, d)'
    <3>1. serving'[w] \in {NULL, r}
      BY <1>0, <1>1, <1>2 DEF TypeOK
    <3> QED
      BY <1>9, <3>1 DEF Owes
  <2>3. \A v \in Worker : SameWork(v, d)
    BY <1>2, <1>4, <1>6, <1>7, <2>2 DEF SameWork
  <2> QED
    BY <1>0, <1>8, <2>1, <2>3, ExchangeStays
<1>10. CASE r.from = d
  <2>1. /\ Sent(d) /\ owed[d] = {} /\ r.op = asked[d].op
        /\ (\A q \in queue : q.from = d => q = r) /\ \A v \in Worker : ~Owes(v, d)
    BY <1>0, <1>10 DEF Exchange
  <2>2. Sent(d)' /\ owed'[d] = {} /\ asked'[d] = asked[d] /\ saved'[d] = {}
    BY <1>0, <1>2, <2>1 DEF Sent, Exchange
  <2>3. wire'[d] = NULL /\ \A q \in queue' : q.from # d
    BY <1>0, <1>1, <1>2, <1>10, <2>1 DEF Exchange
  <2>4. \A v \in Worker \ {w} : ~Owes(v, d)'
    BY <1>6, <2>1
  <2>5. CASE r.op = "APPEND_TO_FILE"
    <3>1. ~Owes(w, d)'
      BY <1>1, <1>2, <2>5 DEF Owes
    <3>2. AwaitsCode(d)' /\ stage'[d] = "code"
      BY <2>1, <2>2, <2>5 DEF AwaitsCode, Sent
    <3>3. Decoded(d)'
      BY <3>2 DEF Decoded
    <3> QED
      BY <2>2, <2>3, <2>4, <3>1, <3>3 DEF Exchange
  <2>6. CASE r.op # "APPEND_TO_FILE"
    <3>1. serving'[w] = r /\ call'[w] = r
      BY <1>0, <1>1, <2>6 DEF TypeOK
    <3>2. Owes(w, d)' /\ ~Arrived(d)'
      BY <1>3, <1>10, <3>1 DEF Owes, Arrived
    <3>3. w \notin evicting' /\ ~Answering(w)'
      BY <1>2, <1>3 DEF Answering
    <3> QED
      BY <2>1, <2>2, <2>3, <2>4, <3>1, <3>2, <3>3 DEF Exchange
  <2> QED
    BY <2>5, <2>6
<1> QED
  BY <1>9, <1>10

\* The request of c in the hands of w, in a step of w that leaves w with it: only what the
\* step changes is to be shown.
LEMMA OwesOn ==
  ASSUME NEW w \in Worker, NEW c \in Client, Exchange(c), Owes(w, c), Owes(w, c)',
         UNCHANGED <<queue, serving, stage, asked, wire, inbox, saved>>,
         \A v \in Worker \ {w} : Owes(v, c)' <=> Owes(v, c),
         call'[w] = NULL, w \in evicting' => done'[c] # NULL /\ owed'[c] = Paths(evicted'[w]),
         Answering(w)' => Reply(c, response[w][1].bytes)'
  PROVE  Exchange(c)'
<1>1. /\ Sent(c) /\ serving[w].op = asked[c].op /\ \A v \in Worker : Owes(v, c) => v = w
  BY DEF Exchange
<1>2. wire[c] = NULL /\ \A r \in queue : r.from # c
  BY DEF Exchange
<1>3. Sent(c)' /\ saved'[c] = {}
  BY <1>1 DEF Sent, Exchange
<1>4. \A v \in Worker : Owes(v, c)' => v = w
  BY <1>1
<1>5. ~Arrived(c)'
  BY DEF Arrived
<1> QED
  BY <1>1, <1>2, <1>3, <1>4, <1>5 DEF Exchange

\* A step of w for another client.
LEMMA OthersOn ==
  ASSUME NEW w \in Worker, NEW d \in Client, Exchange(d), SameClient(d), UNCHANGED <<queue, serving>>,
         serving[w].from # d,
         \A v \in Worker \ {w} : /\ call'[v] = call[v] /\ evicted'[v] = evicted[v]
                                 /\ response'[v] = response[v] /\ (v \in evicting' <=> v \in evicting)
  PROVE  Exchange(d)'
<1>1. ~Owes(w, d) /\ ~Owes(w, d)'
  BY DEF Owes
<1>2. \A v \in Worker : SameWork(v, d)
  BY <1>1 DEF SameWork, Owes, Answering
<1>3. SameQueue(d)
  BY DEF SameQueue
<1> QED
  BY <1>2, <1>3, ExchangeStays

LEMMA HandleExchanges ==
  ASSUME Inv, Indexed, Answerable, Evictions, Exchanges, alive, NEW w \in Worker, Handle(w),
         NEW d \in Client, Good(d), d \notin strayed'
  PROVE  Exchange(d)'
<1>0. TypeOK /\ LockInv /\ Exchange(d)
  BY DEF Inv, Exchanges, Good
<1> DEFINE r == serving[w] e == Do(files, serving[w]).err
<1>1. Handled(w, r, e)
  BY HandleIsHandled
<1> HIDE DEF e
<1>2. /\ r \in Task /\ r # NULL /\ call[w] = r /\ w \notin evicting /\ response[w] = <<>>
      /\ e \in HTableError /\ call' = [call EXCEPT ![w] = NULL]
      /\ UNCHANGED <<queue, serving, evicted, stage, asked, wire, inbox, left, need, saved, ret, owed,
                     lost>>
  BY <1>1 DEF Handled
<1>3. \A v \in Worker \ {w} :
        /\ call'[v] = call[v] /\ evicted'[v] = evicted[v]
        /\ response'[v] = response[v] /\ (v \in evicting' <=> v \in evicting)
  BY <1>0, <1>1 DEF Handled, TypeOK
<1>4. done' = [done EXCEPT ![r.from] = e] \/ done' = done
  BY <1>1 DEF Handled
<1>5. CASE r.from # d
  <2>1. SameClient(d)
    BY <1>2, <1>4, <1>5 DEF SameClient, Indexed
  <2> QED
    BY <1>0, <1>2, <1>3, <1>5, <2>1, OthersOn
<1>6. CASE r.from = d
  <2>1. Owes(w, d)
    BY <1>2, <1>6 DEF Owes
  <2>2. /\ Sent(d) /\ r.op = asked[d].op /\ owed[d] = {}
    BY <1>0, <1>2, <2>1 DEF Exchange
  <2>3. done'[d] = e /\ e # NULL
    BY <1>1, <1>2, <1>6 DEF Handled, Good, Indexed
  <2>4. evicted[w] = <<>>
    BY <1>2 DEF Evictions
  <2>5. call'[w] = NULL
    BY <1>0, <1>2 DEF TypeOK
  <2>6. \A v \in Worker \ {w} : Owes(v, d)' <=> Owes(v, d)
    BY <1>2, <1>3 DEF Owes, Answering
  <2>7. CASE r.op = "WRITE_FILE" /\ evicting' = evicting \cup {w} /\ UNCHANGED response
    <3>1. Owes(w, d)' /\ ~Answering(w)'
      BY <1>2, <1>6, <2>7 DEF Owes, Answering
    <3>2. done'[d] # NULL /\ owed'[d] = Paths(evicted'[w])
      BY <1>2, <2>2, <2>3, <2>4, FilesBytesNone
    <3> QED
      BY <1>0, <1>2, <2>1, <2>5, <2>6, <3>1, <3>2, OwesOn
  <2>8. ASSUME UNCHANGED evicting, NEW m \in Responses(r, Do(files, r).err),
               response' = [response EXCEPT ![w] = m]
        PROVE  Exchange(d)'
    <3>1. r.op # "READ_N_FILES" /\ r.op # "APPEND_TO_FILE" /\ r.op \in Op
      <4>1. r \in InHand
        BY <1>0, <1>2 DEF InHand, Range, TypeOK
      <4> QED
        BY <1>2, <4>1 DEF Answerable, Evictions, Task
    <3>2. /\ m # <<>> /\ m[1].fd = r.fd
          /\ r.op = "WRITE_FILE" => m[1].bytes = WriteResponse(<<>>)
          /\ r.op = "READ_FILE" => \E n \in Nat : m[1].bytes = ReadResponse(e, n)
          /\ r.op = "LOCK_FILE" => m[1].bytes = <<RESPONSE_OK>>
          /\ r.op \notin {"WRITE_FILE", "READ_FILE", "LOCK_FILE"} => m[1].bytes = ResponseByte(e)
      BY <1>0, <1>2, <2>8, <3>1, ResponsesAre DEF TypeOK, e
    <3>3. response'[w] = m
      BY <1>0, <2>8 DEF TypeOK
    <3>4. Owes(w, d)' /\ w \notin evicting'
      BY <1>2, <1>6, <2>8, <3>2, <3>3 DEF Owes, Answering
    <3>5. owed[d] = Paths(<<>>) /\ <<>> \in Seq(Evicted)
      BY <2>2, FilesBytesNone
    <3>6. Reply(d, response[w][1].bytes)'
      <4>1. asked'[d] = asked[d] /\ owed'[d] = owed[d] /\ done'[d] = e
        BY <1>2, <2>3
      <4> QED
        BY <2>2, <2>3, <3>1, <3>2, <3>3, <3>5, <4>1 DEF Reply
    <3> QED
      BY <1>0, <1>2, <2>1, <2>5, <2>6, <3>4, <3>6, OwesOn
  <2> QED
    BY <1>1, <2>7, <2>8 DEF Handled
<1> QED
  BY <1>5, <1>6

LEMMA AppendPaths ==
  ASSUME NEW ev \in Seq(Evicted), NEW x \in Evicted
  PROVE  Paths(Append(ev, x)) = Paths(ev) \cup {Path(x.key)}
<1> DEFINE a == Append(ev, x) L == Len(ev)
<1>1. /\ L \in Nat /\ DOMAIN ev = 1 .. L /\ DOMAIN a = 1 .. L + 1 /\ a[L + 1] = x
      /\ \A i \in 1 .. L : a[i] = ev[i]
  BY AppendProperties
<1> HIDE DEF a, L
<1>2. Paths(a) \subseteq Paths(ev) \cup {Path(x.key)}
  <2> SUFFICES ASSUME NEW i \in 1 .. L + 1 PROVE Path(a[i].key) \in Paths(ev) \cup {Path(x.key)}
    BY <1>1 DEF Paths
  <2>1. i = L + 1 \/ i \in 1 .. L
    BY <1>1
  <2> QED
    BY <1>1, <2>1 DEF Paths
<1>3. Paths(ev) \subseteq Paths(a)
  <2> SUFFICES ASSUME NEW i \in 1 .. L PROVE Path(ev[i].key) \in Paths(a)
    BY <1>1 DEF Paths
  <2>1. i \in 1 .. L + 1
    BY <1>1
  <2> QED
    BY <1>1, <2>1 DEF Paths
<1>4. Path(x.key) \in Paths(a)
  <2>1. L + 1 \in 1 .. L + 1
    BY <1>1
  <2> QED
    BY <1>1, <2>1 DEF Paths
<1> QED
  BY <1>2, <1>3, <1>4 DEF a

LEMMA EvictFileExchanges ==
  ASSUME Inv, Indexed, Evictions, Exchanges, alive, NEW w \in Worker, NEW k \in Key, EvictFile(w, k),
         NEW d \in Client, Good(d)
  PROVE  Exchange(d)'
<1>0. TypeOK /\ LockInv /\ Exchange(d)
  BY DEF Inv, Exchanges, Good
<1> DEFINE x == [key |-> k, len |-> files[k].length_in_bytes] c == serving[w].from
<1>1. /\ w \in evicting /\ files[k] # NULL /\ evicted' = [evicted EXCEPT ![w] = Append(@, x)]
      /\ owed' = IF Connected(c) THEN [owed EXCEPT ![c] = @ \cup {Path(k)}] ELSE owed
      /\ UNCHANGED <<call, evicting, queue, serving, response, stage, asked, wire, inbox, left, need,
                     saved, ret, done, lost>>
  BY DEF EvictFile, Store!Evict, client
<1>2. x \in Evicted /\ x.key = k
  BY <1>0, <1>1 DEF Evicted, TypeOK, Files, File
<1> HIDE DEF x
<1>3. serving[w] # NULL /\ response[w] = <<>> /\ call[w] = NULL
  BY <1>0, <1>1 DEF LockInv, OneAtATime
<1>4. \A v \in Worker \ {w} : evicted'[v] = evicted[v]
  BY <1>1 DEF Indexed
<1>5. CASE c # d
  <2>1. SameClient(d)
    BY <1>1, <1>5 DEF SameClient, Indexed
  <2> QED
    BY <1>0, <1>1, <1>4, <1>5, <2>1, OthersOn
<1>6. CASE c = d
  <2>1. Owes(w, d) /\ Owes(w, d)' /\ ~Answering(w)'
    BY <1>1, <1>3, <1>6 DEF Owes, Answering
  <2>2. done[d] # NULL /\ owed[d] = Paths(evicted[w])
    BY <1>0, <1>1, <2>1 DEF Exchange
  <2>3. owed'[d] = owed[d] \cup {Path(k)} /\ evicted'[w] = Append(evicted[w], x)
    BY <1>1, <1>6 DEF Indexed, Good
  <2>4. owed'[d] = Paths(evicted'[w])
    BY <1>2, <2>2, <2>3, AppendPaths DEF Evictions
  <2>5. \A v \in Worker \ {w} : Owes(v, d)' <=> Owes(v, d)
    BY <1>1 DEF Owes, Answering
  <2> QED
    BY <1>0, <1>1, <1>3, <2>1, <2>2, <2>4, <2>5, OwesOn
<1> QED
  BY <1>5, <1>6

LEMMA EvictEndExchanges ==
  ASSUME Inv, Indexed, Evictions, Exchanges, alive, NEW w \in Worker, EvictEnd(w),
         NEW d \in Client, Good(d)
  PROVE  Exchange(d)'
<1>0. TypeOK /\ LockInv /\ Exchange(d)
  BY DEF Inv, Exchanges, Good
<1> DEFINE r == serving[w] m == Message(r.fd, WriteResponse(evicted[w]))
<1>1. /\ w \in evicting /\ evicting' = evicting \ {w} /\ response' = [response EXCEPT ![w] = <<m>>]
      /\ evicted' = [evicted EXCEPT ![w] = <<>>]
      /\ UNCHANGED <<call, queue, serving, stage, asked, wire, inbox, left, need, saved, ret, done, owed,
                     lost>>
  BY DEF EvictEnd, Store!EvictEnd, client, history
<1>2. m.fd = r.fd /\ m.bytes = WriteResponse(evicted[w])
  BY DEF Message
<1> HIDE DEF m
<1>3. r # NULL /\ call[w] = NULL /\ r.op = "WRITE_FILE" /\ evicted[w] \in Seq(Evicted)
  BY <1>0, <1>1 DEF LockInv, OneAtATime, Evictions
<1>4. \A v \in Worker \ {w} :
        /\ call'[v] = call[v] /\ evicted'[v] = evicted[v]
        /\ response'[v] = response[v] /\ (v \in evicting' <=> v \in evicting)
  BY <1>0, <1>1 DEF Indexed, TypeOK
<1>5. CASE r.from # d
  <2>1. SameClient(d)
    BY <1>1, <1>5 DEF SameClient
  <2> QED
    BY <1>0, <1>1, <1>4, <1>5, <2>1, OthersOn
<1>6. CASE r.from = d
  <2>1. Owes(w, d)
    BY <1>1, <1>3, <1>6 DEF Owes
  <2>2. done[d] # NULL /\ owed[d] = Paths(evicted[w]) /\ asked[d].op = "WRITE_FILE"
    BY <1>0, <1>1, <1>3, <2>1 DEF Exchange
  <2>3. response'[w] = <<m>>
    BY <1>0, <1>1 DEF TypeOK
  <2>4. response'[w] # <<>> /\ response'[w][1] = m
    BY <2>3
  <2>5. Owes(w, d)' /\ w \notin evicting'
    BY <1>1, <1>2, <1>3, <1>6, <2>4 DEF Owes, Answering
  <2>6. \A v \in Worker \ {w} : Owes(v, d)' <=> Owes(v, d)
    BY <1>1, <1>4 DEF Owes, Answering
  <2>7. Reply(d, response[w][1].bytes)'
    BY <1>1, <1>2, <1>3, <2>2, <2>4 DEF Reply
  <2> QED
    BY <1>0, <1>1, <1>3, <2>1, <2>5, <2>6, <2>7, OwesOn
<1> QED
  BY <1>5, <1>6

LEMMA RespondExchanges ==
  ASSUME Inv, Indexed, Destinations, Exchanges, alive, NEW w \in Worker, Respond(w),
         NEW d \in Client, Good(d)
  PROVE  Exchange(d)'
<1>0. TypeOK /\ LockInv /\ Exchange(d)
  BY DEF Inv, Exchanges, Good
<1> DEFINE r == serving[w] m == response[w][1]
<1>1. /\ response[w] # <<>> /\ response' = [response EXCEPT ![w] = Tail(@)]
      /\ serving' = IF Len(response[w]) = 1 THEN [serving EXCEPT ![w] = NULL] ELSE serving
      /\ UNCHANGED <<call, evicting, queue, evicted, at, stage, asked, wire, left, need, saved, ret,
                     done, owed, lost>>
  BY DEF Respond, store, history
<1>2. inbox' = IF at[m.fd] # NULL /\ Connected(at[m.fd])
               THEN [inbox EXCEPT ![at[m.fd]] = @ \o m.bytes] ELSE inbox
  BY SMTT(30) DEF Respond
<1>3. /\ response[w] \in Seq(Range(response[w])) /\ Len(response[w]) \in 1 .. 2
      /\ 1 \in DOMAIN response[w] /\ (Len(response[w]) = 2 => 2 \in DOMAIN response[w])
  BY <1>0, <1>1 DEF TypeOK
<1>4. r # NULL /\ call[w] = NULL /\ w \notin evicting
  BY <1>0, <1>1 DEF LockInv, OneAtATime
<1>5. /\ r \in Task /\ r.from \in Client /\ r.fd \in Fd /\ at[r.fd] \in Client \cup {NULL}
      /\ SenderKnown(r)
  <2>1. r \in Task /\ r \in InHand
    BY <1>0, <1>4 DEF TypeOK, InHand, Range
  <2> QED
    BY <1>0, <2>1 DEF LockInv, SendersKnown, SenderKnown, Task, TypeOK
<1>6. \A fd \in Fd : at[fd] = d => ~Loose(fd)
  BY DEF Loose, Good
<1>7. m.fd \in Fd /\ (Loose(m.fd) \/ m.fd = r.fd)
  BY <1>3 DEF Destinations
<1>8. Len(response[w]) = 2 => response[w][2].fd \in Fd /\ Loose(response[w][2].fd)
  BY <1>3 DEF Destinations
<1>9. ~Owes(w, d)'
  <2> SUFFICES ASSUME Owes(w, d)' PROVE FALSE
    OBVIOUS
  <2>1. Len(response[w]) = 2 /\ serving'[w] = r /\ r.from = d
    BY <1>0, <1>1, <1>3 DEF Owes, TypeOK
  <2>2. response'[w] = Tail(response[w]) /\ response'[w] # <<>> /\ response'[w][1].fd = r.fd
    BY <1>0, <1>1, <1>4, <2>1 DEF Owes, Answering, TypeOK
  <2>3. Tail(response[w])[1] = response[w][2]
    BY <1>1, <1>3, <2>1, HeadTailProperties
  <2>4. at[r.fd] = d
    BY <1>5, <2>1 DEF SenderKnown, Good
  <2> QED
    BY <1>5, <1>6, <1>8, <2>1, <2>2, <2>3, <2>4
<1>10. \A v \in Worker \ {w} :
         /\ serving'[v] = serving[v] /\ call'[v] = call[v] /\ evicted'[v] = evicted[v]
         /\ response'[v] = response[v] /\ (v \in evicting' <=> v \in evicting)
  BY <1>0, <1>1 DEF TypeOK
<1>11. \A v \in Worker \ {w} : (Owes(v, d)' <=> Owes(v, d)) /\ (Answering(v)' <=> Answering(v))
  BY <1>10 DEF Owes, Answering
<1> HIDE DEF m, r
<1>12. CASE Owes(w, d)
  <2>1. r.from = d /\ m.fd = r.fd
    BY <1>4, <1>12 DEF Owes, Answering, m, r
  <2>2. at[m.fd] = d /\ Connected(d)
    BY <1>5, <2>1 DEF SenderKnown, Good
  <2>3. /\ Sent(d) /\ (\A v \in Worker : Owes(v, d) => v = w) /\ Reply(d, m.bytes)
    BY <1>0, <1>4, <1>12 DEF Exchange, Owes, m
  <2>4. inbox'[d] = inbox[d] \o m.bytes
    BY <1>2, <2>2 DEF Indexed
  <2>5. inbox[d] = <<>> /\ asked[d] \in Request /\ stage[d] = "code"
    BY <2>3 DEF Sent
  <2>6. m.bytes \in Seq(Byte)
    BY <2>3, <2>5, ReplyIsBytes
  <2>7. inbox'[d] = m.bytes
    BY <2>4, <2>5, <2>6, ConcatEmptySeq
  <2>8. Reply(d, inbox[d])'
    <3>1. \A b : Reply(d, b)' <=> Reply(d, b)
      BY <1>1, ReplyStays
    <3>2. \A b : b = inbox'[d] /\ Reply(d, b)' => Reply(d, inbox[d])'
      BY DEF Reply
    <3> QED
      BY <2>3, <2>7, <3>1, <3>2
  <2>9. AwaitsCode(d)' /\ stage'[d] = "code"
    BY <1>1, <2>5, <2>8 DEF AwaitsCode
  <2>10. Decoded(d)'
    BY <2>9 DEF Decoded
  <2>11. \A v \in Worker : ~Owes(v, d)'
    BY <1>9, <1>11, <2>3
  <2>12. wire'[d] = NULL /\ saved'[d] = {} /\ \A q \in queue' : q.from # d
    BY <1>0, <1>1, <1>12, <2>5 DEF Exchange
  <2> QED
    BY <2>10, <2>11, <2>12 DEF Exchange
<1>13. CASE ~Owes(w, d)
  <2>1. at[m.fd] # d
    <3> SUFFICES ASSUME at[m.fd] = d PROVE FALSE
      OBVIOUS
    <3>1. m.fd = r.fd
      BY <1>6, <1>7
    <3>2. r.from = d
      BY <1>5, <3>1 DEF SenderKnown, Good
    <3>3. Owes(w, d)
      BY <1>1, <1>4, <3>1, <3>2 DEF Owes, Answering, m, r
    <3> QED
      BY <1>13, <3>3
  <2>2. inbox'[d] = inbox[d]
    BY <1>2, <2>1 DEF Indexed
  <2>3. SameClient(d)
    BY <1>1, <2>2 DEF SameClient
  <2>4. SameQueue(d)
    BY <1>1 DEF SameQueue
  <2>5. \A v \in Worker : SameWork(v, d)
    BY <1>9, <1>10, <1>11, <1>13 DEF SameWork
  <2> QED
    BY <1>0, <2>3, <2>4, <2>5, ExchangeStays
<1> QED
  BY <1>12, <1>13

\* A step of client c, for the others.
LEMMA OtherClients ==
  ASSUME NEW d \in Client, Exchange(d), SameClient(d),
         UNCHANGED <<queue, serving, call, evicting, evicted, response>>
  PROVE  Exchange(d)'
<1>1. \A w \in Worker : SameWork(w, d)
  BY DEF SameWork, Owes, Answering
<1>2. SameQueue(d)
  BY DEF SameQueue
<1> QED
  BY <1>1, <1>2, ExchangeStays

LEMMA ExchangesNext ==
  ASSUME NoReadN, Inv, ProtocolInv, [Next]_vars PROVE Exchanges'
<1>0. TypeOK /\ Indexed /\ Answerable /\ Destinations /\ Evictions /\ Fresh /\ Exchanges
  BY DEF Inv, ProtocolInv
<1> SUFFICES ASSUME alive', NEW d \in Client, Good(d)' PROVE Exchange(d)'
  BY DEF Exchanges, Good
<1>a. Good(d) /\ alive => Exchange(d)
  BY <1>0 DEF Exchanges, Good
<1>1. ASSUME UNCHANGED <<stage, asked, wire, inbox, left, need, saved, ret, done, owed, lost>>,
             UNCHANGED <<queue, serving, call, evicting, evicted, response>>,
             strayed \subseteq strayed', alive
      PROVE  Exchange(d)'
  <2>1. Good(d) /\ SameClient(d)
    BY <1>1 DEF Good, Connected, SameClient
  <2> QED
    BY <1>1, <1>a, <2>1, OtherClients
<1>2. CASE Listen \/ UNCHANGED vars
  BY <1>1, <1>2 DEF Listen, vars, store, server, client, history
<1>3. CASE Stop
  BY <1>3 DEF Stop
<1>4. ASSUME NEW c \in Client, Ends(c) PROVE Exchange(d)'
  <2>1. /\ \E s \in Gone : stage' = [stage EXCEPT ![c] = s]
        /\ strayed' = strayed \ {c}
        /\ UNCHANGED <<alive, queue, serving, call, evicting, evicted, response>>
    BY <1>4, LeaveEffect
  <2>2. d # c
    BY <1>0, <2>1 DEF Good, Connected, TypeOK
  <2>a. stage'[d] = stage[d]
    BY <1>0, <2>1, <2>2 DEF TypeOK
  <2>b. /\ wire' = [wire EXCEPT ![c] = NULL] /\ inbox' = [inbox EXCEPT ![c] = <<>>]
        /\ asked' = [asked EXCEPT ![c] = NULL] /\ ret' = [ret EXCEPT ![c] = NULL]
        /\ left' = [left EXCEPT ![c] = 0] /\ need' = [need EXCEPT ![c] = <<0, 0>>]
        /\ saved' = [saved EXCEPT ![c] = {}]
        /\ done' = [done EXCEPT ![c] = NULL] /\ owed' = [owed EXCEPT ![c] = {}]
        /\ lost' = lost
    BY <1>4, LeaveEffect
  <2>c. /\ wire'[d] = wire[d] /\ asked'[d] = asked[d] /\ inbox'[d] = inbox[d]
        /\ ret'[d] = ret[d] /\ left'[d] = left[d] /\ need'[d] = need[d]
        /\ saved'[d] = saved[d] /\ done'[d] = done[d] /\ owed'[d] = owed[d]
    <3>1. DOMAIN wire = Client
      BY <1>0 DEF TypeOK
    <3> QED
      BY <1>0, <2>2, <2>b, <3>1 DEF Indexed
  <2>3. SameClient(d)
    BY <2>a, <2>b, <2>c DEF SameClient
  <2>4. Good(d)
    BY <2>1, <2>2, <2>3 DEF Good, Connected, SameClient
  <2> QED
    BY <1>a, <2>1, <2>3, <2>4, OtherClients
<1>5. ASSUME NEW c \in Client, NEW r \in Api[c], Asks(c, r) PROVE Exchange(d)'
  <2>1. CASE d = c
    <3>1. Good(d) /\ alive
      BY <1>5, <2>1 DEF Asks, Good, Connected, Gone
    <3> QED
      BY <1>0, <1>5, <1>a, <2>1, <3>1, AsksKeeps
  <2>2. CASE d # c
    <3>1. SameClient(d)
      BY <1>0, <1>5, <2>2 DEF Asks, SameClient, Indexed, TypeOK
    <3>2. Good(d) /\ alive /\ UNCHANGED <<queue, serving, call, evicting, evicted, response>>
      BY <1>5, <3>1 DEF Asks, Good, Connected, SameClient
    <3> QED
      BY <1>a, <3>1, <3>2, OtherClients
  <2> QED
    BY <2>1, <2>2
<1>6. ASSUME NEW c \in Client, OpenConnection(c) \/ Attempt(c) PROVE Exchange(d)'
  <2>1. /\ stage[c] \in Before
        /\ \E s \in {"connecting", "refused", "idle"} : stage' = [stage EXCEPT ![c] = s]
        /\ \E x : ret' \in {ret, [ret EXCEPT ![c] = x]}
        /\ UNCHANGED <<alive, asked, wire, inbox, left, need, saved, done, owed, strayed, lost>>
        /\ UNCHANGED <<queue, serving, call, evicting, evicted, response>>
    BY <1>6 DEF OpenConnection, Attempt, Before, store, server, history
  <2>2. CASE d = c
    <3>1. stage'[c] = "idle"
      BY <1>0, <2>1, <2>2 DEF Good, Connected, Gone, TypeOK
    <3> QED
      BY <1>0, <2>1, <2>2, <3>1, AttemptKeeps
  <2>3. CASE d # c
    <3>1. SameClient(d)
      BY <1>0, <2>1, <2>3 DEF SameClient, Indexed, TypeOK
    <3>2. Good(d) /\ alive
      BY <2>1, <3>1 DEF Good, Connected, SameClient
    <3> QED
      BY <1>a, <2>1, <3>1, <3>2, OtherClients
  <2> QED
    BY <2>2, <2>3
<1>7. ASSUME NEW c \in Client, ClientStep(c) PROVE Exchange(d)'
  <2>1. /\ strayed \subseteq strayed' /\ UNCHANGED alive
        /\ UNCHANGED <<queue, serving, call, evicting, evicted, response>>
    BY <1>7, ReadingEffect
  <2>2. Connected(c) /\ \E s : stage' = [stage EXCEPT ![c] = s]
    BY <1>0, <1>7, ReadingGoes DEF Goes
  <2>3. Good(d) /\ alive
    BY <1>0, <2>1, <2>2 DEF Good, Connected, TypeOK
  <2>4. CASE d = c
    <3>1. d \notin strayed'
      BY DEF Good
    <3> QED
      BY <1>0, <1>7, <1>a, <2>3, <2>4, <3>1, ReadingKeeps
  <2>5. CASE d # c
    <3>a. stage'[d] = stage[d]
      BY <1>0, <2>2, <2>5 DEF TypeOK
    <3>b. UNCHANGED <<asked, wire, done, owed, lost>>
      BY <1>7, ReadingEffect
    <3>c. inbox'[d] = inbox[d]
      <4>1. PICK x : inbox' = [inbox EXCEPT ![c] = x]
        BY <1>7, ReadingEffect
      <4> QED
        BY <1>0, <2>5, <4>1 DEF Indexed
    <3>d. ret'[d] = ret[d]
      <4>1. PICK x : ret' \in {ret, [ret EXCEPT ![c] = x]}
        BY <1>7, ReadingEffect
      <4> QED
        BY <1>0, <2>5, <4>1 DEF Indexed
    <3>e. left'[d] = left[d]
      <4>1. PICK x : left' \in {left, [left EXCEPT ![c] = x]}
        BY <1>7, ReadingEffect
      <4> QED
        BY <1>0, <2>5, <4>1 DEF Indexed
    <3>f. need'[d] = need[d]
      <4>1. PICK x : need' \in {need, [need EXCEPT ![c] = x]}
        BY <1>7, ReadingEffect
      <4> QED
        BY <1>0, <2>5, <4>1 DEF Indexed
    <3>g. saved'[d] = saved[d]
      <4>1. PICK x : saved' \in {saved, [saved EXCEPT ![c] = x]}
        BY <1>7, ReadingEffect
      <4> QED
        BY <1>0, <2>5, <4>1 DEF Indexed
    <3>1. SameClient(d)
      BY <3>a, <3>b, <3>c, <3>d, <3>e, <3>f, <3>g DEF SameClient
    <3> QED
      BY <1>a, <2>1, <2>3, <3>1, OtherClients
  <2> QED
    BY <2>4, <2>5
<1>8. ASSUME NEW c \in Client,
             \/ OpenConnection(c) \/ Tick(c) \/ Attempt(c) \/ Accept(c) \/ Call(c)
             \/ ClientStep(c) \/ Abort(c) \/ CloseConnection(c) \/ Die(c)
      PROVE  Exchange(d)'
  <2>1. CASE Tick(c)
    BY <1>1, <2>1 DEF Tick, store, server, history
  <2>2. CASE Accept(c)
    BY <1>1, <2>2 DEF Accept, store, client
  <2>3. CASE Call(c)
    BY <1>4, <1>5, <2>3, CallAsksOrEnds
  <2>4. CASE Abort(c) \/ CloseConnection(c) \/ Die(c)
    BY <1>0, <1>4, <2>4, EndsEnd
  <2> QED
    BY <1>6, <1>7, <1>8, <2>1, <2>2, <2>3, <2>4
<1>9. ASSUME NEW fd \in Fd, HandOver(fd) \/ Drop(fd) PROVE Exchange(d)'
  <2>1. CASE HandOver(fd)
    <3>1. Good(d) /\ alive
      BY <2>1 DEF HandOver, Good, Connected, history
    <3> QED
      BY <1>0, <2>1, <3>1, HandOverExchanges
  <2>2. CASE Drop(fd)
    BY <1>1, <2>2 DEF Drop, store, client, history
  <2> QED
    BY <1>9, <2>1, <2>2
<1>10. ASSUME NEW w \in Worker, WorkerStep(w) PROVE Exchange(d)'
  <2>1. CASE Dispatch(w)
    <3>1. Good(d) /\ alive
      BY <2>1 DEF Dispatch, Good, Connected, client, history
    <3> QED
      BY <1>0, <2>1, <3>1, DispatchExchanges
  <2>2. CASE Handle(w)
    <3>1. Handled(w, serving[w], Do(files, serving[w]).err)
      BY <1>0, <2>2, HandleIsHandled
    <3>2. Good(d) /\ alive /\ d \notin strayed'
      BY <3>1 DEF Handled, Good, Connected
    <3> QED
      BY <1>0, <2>2, <3>2, HandleExchanges
  <2>3. CASE EvictEnd(w)
    <3>1. Good(d) /\ alive
      BY <2>3 DEF EvictEnd, Store!EvictEnd, Good, Connected, client, history
    <3> QED
      BY <1>0, <2>3, <3>1, EvictEndExchanges
  <2>4. CASE Respond(w)
    <3>1. Good(d) /\ alive
      BY <2>4 DEF Respond, Good, Connected, history
    <3> QED
      BY <1>0, <2>4, <3>1, RespondExchanges
  <2>5. CASE Crash(w)
    BY <2>5 DEF Crash, Store!Fail
  <2>6. ASSUME NEW k \in Key, EvictFile(w, k) PROVE Exchange(d)'
    <3>1. Good(d) /\ alive
      BY <2>6 DEF EvictFile, Store!Evict, Good, Connected, client
    <3> QED
      BY <1>0, <2>6, <3>1, EvictFileExchanges
  <2> QED
    BY <1>10, <2>1, <2>2, <2>3, <2>4, <2>5, <2>6 DEF WorkerStep
<1> QED
  BY <1>2, <1>3, <1>8, <1>9, <1>10 DEF Next

LEMMA InitProtocol == Init => ProtocolInv
<1> SUFFICES ASSUME Init PROVE ProtocolInv
  OBVIOUS
<1>1. Indexed /\ Answerable
  BY DEF Init, Indexed, Answerable, InHand, Range
<1>2. Destinations
  BY DEF Init, Destinations, Store!Init, Store!NoFiles, Stored
<1>3. Evictions
  <2>1. \A w \in Worker : evicted[w] = <<>> /\ serving[w] = NULL
    BY DEF Init
  <2>2. evicting = {} /\ <<>> \in Seq(Evicted)
    BY DEF Init, Store!Init
  <2> QED
    BY <2>1, <2>2 DEF Evictions
<1>4. Fresh
  BY DEF Init, Fresh
<1>5. \A c \in Client : ~Connected(c)
  BY DEF Init, Connected
<1>6. Exchanges
  BY <1>5 DEF Exchanges
<1> QED
  BY <1>1, <1>2, <1>3, <1>4, <1>6 DEF ProtocolInv

LEMMA ProtocolNext ==
  ASSUME NoReadN, Inv, ProtocolInv, [Next]_vars PROVE ProtocolInv'
<1>0. TypeOK /\ Indexed /\ Answerable /\ Destinations /\ Evictions /\ Fresh
  BY DEF Inv, ProtocolInv
<1>1. Indexed' /\ Answerable' /\ Fresh'
  BY <1>0, IndexedNext, AnswerableNext, FreshNext
<1>2. Destinations' /\ Evictions'
  BY <1>0, DestinationsNext, EvictionsNext
<1>3. Exchanges'
  BY ExchangesNext
<1> QED
  BY <1>1, <1>2, <1>3 DEF ProtocolInv

\* Between two functions, all of the response has arrived and has been decoded.
LEMMA RestIsEarned ==
  ASSUME ProtocolInv, NEW c \in Client, AtRest(c) PROVE Good(c) /\ Arrived(c) /\ Returned(c)
<1>1. Good(c) /\ Exchange(c)
  BY DEF ProtocolInv, Exchanges, AtRest, Good, Connected, Gone
<1>2. stage[c] = "idle"
  BY DEF AtRest
<1>3. Arrived(c) /\ Decoded(c)
  BY <1>1, <1>2, HasArrived
<1> QED
  BY <1>1, <1>2, <1>3 DEF Decoded

\* The functions of serverapi.c that return have read exactly the response to their own
\* request, whatever the interleaving of clients, polling loop and worker and whatever
\* messages are lost in the queue: nothing is left for the next function to take for a
\* response.  For any number of clients that do not call readNFiles, descriptors and files.
THEOREM FunctionsStayInStep == ASSUME NoReadN PROVE Spec => []InStep
<1>1. ASSUME Inv, ProtocolInv PROVE InStep
  <2> SUFFICES ASSUME NEW c \in Client, AtRest(c)
               PROVE  /\ inbox[c] = <<>> /\ wire[c] = NULL
                      /\ \A r \in queue : r.from # c
                      /\ \A w \in Worker : \A i \in DOMAIN response[w] :
                           at[response[w][i].fd] # c
    BY DEF InStep
  <2>1. Good(c) /\ Arrived(c) /\ Returned(c)
    BY <1>1, RestIsEarned
  <2>2. ASSUME NEW w \in Worker, NEW i \in DOMAIN response[w], at[response[w][i].fd] = c
        PROVE  FALSE
    <3>1. ~Loose(response[w][i].fd)
      BY <2>1, <2>2, ServerApiAssumption DEF Loose, Good
    <3>2. i = 1 /\ response[w][1].fd = serving[w].fd
      BY <1>1, <3>1 DEF ProtocolInv, Destinations
    <3>3. response[w] # <<>>
      BY <2>2
    <3>4. serving[w] # NULL
      BY <1>1, <3>3 DEF Inv, LockInv, OneAtATime
    <3>5. serving[w] \in InHand
      BY <1>1, <3>4 DEF Inv, TypeOK, InHand, Range
    <3>6. serving[w].from = c
      BY <1>1, <2>1, <2>2, <3>2, <3>5 DEF Inv, LockInv, SendersKnown, Good
    <3>7. Owes(w, c)
      BY <3>2, <3>3, <3>4, <3>6 DEF Owes, Answering
    <3> QED
      BY <2>1, <3>7 DEF Arrived
  <2> QED
    BY <2>1, <2>2 DEF Arrived, Returned
<1> QED
  BY <1>1, InitInv, InitProtocol, NextInv, ProtocolNext, PTL DEF Spec

\* What openFile, closeFile, unlockFile and readFile return is what the handler in worker.c
\* did: 0 exactly if it performed the request with success; and no function returns before
\* its request was performed.
THEOREM ResultsAreReported == ASSUME NoReadN PROVE Spec => []ResultsAreTrue
<1>1. ProtocolInv => ResultsAreTrue
  BY RestIsEarned DEF ResultsAreTrue, Returned
<1> QED
  BY <1>1, InitInv, InitProtocol, NextInv, ProtocolNext, PTL DEF Spec

\* When writeFile returns 0, the directory for evicted files has got exactly the files that
\* the handler of the write evicted, of any number and length.
THEOREM EvictedFilesAreSaved == ASSUME NoReadN PROVE Spec => []EvictedFilesSaved
<1>1. ProtocolInv => EvictedFilesSaved
  BY RestIsEarned DEF EvictedFilesSaved, Returned
<1> QED
  BY <1>1, InitInv, InitProtocol, NextInv, ProtocolNext, PTL DEF Spec
=============================================================================
