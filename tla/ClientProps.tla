---------------------------- MODULE ClientProps -----------------------------
(***************************************************************************)
(* Properties of the client program.                                       *)
(***************************************************************************)
EXTENDS Client

-----------------------------------------------------------------------------
(* The command line                                                        *)

Actions == Lists \cup {"w", "R"}

\* Option i is not one of a correct command line.
Wrong(i) ==
  LET o == argv[i].o before == IF i = 1 THEN NULL ELSE argv[i - 1].o IN
  \/ o \in {"h", "f"} /\ \E j \in 1..i - 1 : argv[j].o = o
  \/ o = "D" /\ before \notin {"w", "W"}
  \/ o = "d" /\ before \notin {"r", "R"}
  \/ o = "p" /\ argv[i].a \notin {"info", "error", "warn", "debug", "trace"}
  \/ o \notin Actions \cup {"h", "f", "D", "d", "t", "p", "Z", "z"}

\* The directory that belongs to option i.
DirOf(i) == IF i < Len(argv) /\ argv[i + 1].o \in {"D", "d"} THEN argv[i + 1].a ELSE NULL

\* The places of the actions on the command line, and the number of those up to i.
Places == {i \in DOMAIN argv : argv[i].o \in Actions}
Rank(i) == Cardinality({j \in Places : j <= i})

\* cli_args_parse rejects exactly the command lines with a wrong option, and from any other
\* one makes the actions in the order in which they stand there, each with the directory
\* of the option directly after it and no other.
ParsedAsWritten ==
  /\ (cli.err # "OK") <=> \E i \in DOMAIN argv : Wrong(i)
  /\ cli.err = "OK" =>
       /\ Len(cli.head) = Cardinality(Places)
       /\ \A i \in Places : LET a == cli.head[Rank(i)] IN
            a.type = argv[i].o /\ a.arg_s2 = DirOf(i)

\* What makes it inductive: the parser knows of the options before this one what it needs.
Previous == IF argv = <<>> THEN NULL ELSE argv[Len(argv)].o
Has(o) == \E i \in DOMAIN argv : argv[i].o = o

ParserInv ==
  /\ ParsedAsWritten
  /\ cli.last_option = Previous
  /\ (cli.socket_name # NULL) <=> Has("f")
  /\ cli.help_message <=> Has("h")

-----------------------------------------------------------------------------
(* The actions                                                             *)

\* The files of the lists that -W has written to the end.
Done(a) == {Real[a.arg_s1[i]] : i \in DOMAIN a.arg_s1}
Written ==
  LET n == Len(cli.head) - Len(todo) IN
  UNION {Done(cli.head[i]) : i \in {j \in 1..n : cli.head[j].type = "W"}}

Removes == \E i \in DOMAIN cli.head : cli.head[i].type \in {"c", "u"}

\* This client has locked the file, and, when it is done with it, has written and closed it.
Locked(file) == file # NULL /\ file.is_locked /\ file.fd_owner = Me
Safe(f, k) == Locked(f[k]) /\ f[k].length_in_bytes = Length[k] /\ ~f[k].is_open

\* No file is lost: as long as all actions succeed and the server runs, every file of a
\* finished -W is in the storage, closed, locked and with its contents, or it was evicted
\* by a write of this client and stands in the directory given for that, whatever other
\* clients do that do not write (run_action_write_file; see OnlyMeWrites), on a server with
\* one worker.
NothingLost ==
  pc \in {"next", "list", "dir", "random"} /\ ret = 0 /\ up /\ ~Removes =>
    \A k \in Written \ saved : Safe(files, k)

\* What makes it inductive.  First, the shape of the lists.
Fits(a) ==
  /\ a.type \in {"W", "r"} => a.arg_s1 \in Seq(DOMAIN Real)
  /\ a.type \in {"l", "u", "c"} => a.arg_s1 \in Seq(Key)
  /\ a.type = "w" => a.arg_s1.dir \in DOMAIN Tree

ShapeInv ==
  /\ part \in {"open", "write", "close"}
  /\ pc \in {"parse", "connect"} => ret = 0 /\ files = NoFiles
  /\ pc = "next" => ret = 0 \/ todo = <<>>
  /\ \A i \in DOMAIN cli.head : Fits(cli.head[i])
  /\ \A i \in DOMAIN todo : Fits(todo[i])
  /\ pc = "list" => names \in Seq(IF Current.type \in {"W", "r"} THEN DOMAIN Real ELSE Key)
  /\ pc = "dir" => Current.type = "w" /\ stack # <<>> /\ stack \in Seq([dir: DOMAIN Tree, i: Nat \ {0}])

\* Second, the files of the list that -W is writing: the ones behind it are safe, the one in
\* hand is locked, and written when it is about to be closed.  A failure in a subdirectory
\* is forgotten, so `ret' does not matter there.
Going ==
  /\ up /\ ~Removes
  /\ pc \in {"list", "dir", "random"} \/ (pc \in {"next", "done"} /\ ret = 0)

TodoKept ==
  /\ Len(todo) <= Len(cli.head)
  /\ \A i \in DOMAIN todo : todo[i] = cli.head[Len(cli.head) - Len(todo) + i]

WrittenKept == \A k \in Written \ saved : k \in Key /\ Safe(files, k)

ListKept ==
  LET a == Current.arg_s1
      n == Len(a) - Len(names)
  IN  /\ n >= 0 /\ (\A i \in DOMAIN names : names[i] = a[n + i]) /\ (pc = "done" => names = <<>>)
      /\ \A i \in 1 .. n : Real[a[i]] \in saved \/ (Real[a[i]] \in Key /\ Safe(files, Real[a[i]]))
      /\ part # "open" =>
           LET k == Real[Head(names)] IN
           /\ names # <<>> /\ k \in Key
           /\ k \in saved \/ (Locked(files[k]) /\ (part = "close" => files[k].length_in_bytes = Length[k]))

KeptInv ==
  Going => /\ files \in Files /\ TodoKept /\ WrittenKept
           /\ pc \in {"list", "done"} /\ Current.type = "W" => ListKept

\* No other client writes: htable_replace_file_contents does not look at the lock
\* (htable.c:399-418), so one that does replaces the contents of a locked file.
Harmless == {"OPEN_FILE", "OPEN_FILE_LOCK", "OPEN_FILE_CREATE", "OPEN_FILE_CREATE_LOCK",
             "READ_FILE", "READ_N_FILES", "LOCK_FILE", "UNLOCK_FILE", "CLOSE_FILE", "REMOVE_FILE"}
OnlyMeWrites == \A r \in Others : r.op \in Harmless

\* A limit that the parser has set is one for all activations of write_dir together: the
\* recursion (run_action.c:119) shares it, whether or not a subdirectory fails.
LimitShared == pc = "dir" /\ Current.arg_i > 0 => sent <= Current.arg_i

\* -w dirname,n=N sends up to N files, as print_help says (main.c:23-25).
WithinLimit ==
  pc = "dir" =>
    \A i \in Places :
      LET x == argv[i] IN
      /\ Rank(i) = Len(cli.head) - Len(todo) + 1
      /\ x.o = "w" /\ x.a.tag = "n" /\ x.a.n > 0
        => sent <= x.a.n

\* What makes it inductive: sent and *limit add up to the limit.
LimitInv ==
  pc = "dir" => /\ todo # <<>> /\ sent \in Nat
                /\ IF Current.arg_i > 0 THEN limit \in Nat /\ limit + sent = Current.arg_i
                   ELSE limit = NULL

Timed == \E i \in DOMAIN argv : argv[i].o = "t"
Hangs(x) == x.o = "R" \/ (x.o = "t" /\ x.a < 0)

\* The program ends, if the time between actions is set to a number that is not negative
\* and it does not call readNFiles, unless another client's doings leave it without an answer
\* or with one too many.
EveryRunEnds ==
  pc = "connect" /\ Timed /\ ~(\E i \in DOMAIN argv : Hangs(argv[i])) ~> Ended \/ Astray
=============================================================================
