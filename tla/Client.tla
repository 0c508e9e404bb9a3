------------------------------- MODULE Client -------------------------------
(***************************************************************************)
(* The client program: src/src/client/cli.c parses the command line into a *)
(* list of actions, src/src/client/main.c runs them over one connection,   *)
(* and src/src/client/run_action.c turns each into calls of the API.       *)
(*                                                                         *)
(* A call of the API is one step: FileOps says what the server does, and   *)
(* ServerApi what the function returns for it.  The server has one worker  *)
(* (num-workers = 1, as in src/src/config/test1.toml), which performs the  *)
(* requests of other clients one by one between those of this one; with    *)
(* more of them creations overlap and lose files (see HTable).  Another    *)
(* client's message may also replace this one's in the queue, and the      *)
(* server may end.                                                         *)
(***************************************************************************)
EXTENDS FileOps, Functions

CONSTANTS
  Options,    \* options of a command line: [o |-> letter, a |-> argument]
  MaxOptions, \* bound on their number
  Real,       \* realpath: Real[n] is the absolute path of n, or NULL if there is no such file
  Length,     \* Length[k]: the length of the local file k
  Tree,       \* Tree[d]: the entries of directory d: [type, name]
  Me,         \* the descriptor that the server has for this client
  Others,     \* requests of other clients
  MaxOthers   \* bound on their number

ASSUME LengthAssumption == \A k \in DOMAIN Length : Length[k] \in Nat

\* getopt hands over the argument that its option string asks for, and atoi returns a number.
ASSUME OptionsAssumption ==
  /\ \A x \in Options : (x.o = "f" => x.a # NULL) /\ (x.o = "w" => x.a.n \in Int)
  /\ NULL \notin Int /\ NULL \notin {"w", "W", "r", "R"}

\* Every file has a path, lists are lists of names, and other clients have other descriptors.
ASSUME PathsAssumption ==
  /\ Me \in Fd /\ NULL \notin Key \cup File
  /\ DOMAIN Length \subseteq Key /\ \A n \in DOMAIN Real : Real[n] \in DOMAIN Length \cup {NULL}
  /\ \A x \in Options :
       /\ x.o \in {"W", "r"} => x.a \in Seq(DOMAIN Real)
       /\ x.o \in {"l", "u", "c"} => x.a \in Seq(Key)
       /\ x.o = "w" => x.a.dir \in DOMAIN Tree
  /\ \A d \in DOMAIN Tree :
       /\ Tree[d] \in Seq(Range(Tree[d]))
       /\ \A e \in Range(Tree[d]) : /\ e.type = "REG" => e.name \in DOMAIN Length
                                    /\ e.type = "DIR" => e.name \in DOMAIN Tree
  /\ \A r \in Others : r.key \in Key /\ r.fd \in Fd \ {Me} /\ r.arg \in Nat

VARIABLES
  argv,     \* the options that getopt has returned so far
  cli,      \* struct CliArgs
  pc,       \* where the program stands
  todo,     \* the actions that have not been run to the end
  names,    \* the rest of the list of the current action
  part,     \* the next call of run_action_write_file
  stack,    \* the activations of write_dir, innermost first
  limit,    \* what *limit points to; NULL without a limit
  ret,      \* what the last action returned
  sent,     \* files that the current -w has sent (history)
  saved,    \* evicted files written to a directory of the client (history)
  files,    \* the storage of the server
  up,       \* whether the server runs
  others    \* requests of other clients so far

parsing == <<argv, cli>>
local == <<names, part, stack, limit, sent>>
world == <<files, up, others>>
vars == <<parsing, pc, todo, local, ret, saved, world>>

-----------------------------------------------------------------------------
(* cli.c                                                                   *)

CliArgs == [err |-> "OK", socket_name |-> NULL, help_message |-> FALSE,
            msec_between_actions |-> NULL, head |-> <<>>, last_option |-> NULL]

Action(o, s1, i) == [type |-> o, arg_s1 |-> s1, arg_s2 |-> NULL, arg_i |-> i]

AddAction(c, a) == [c EXCEPT !.head = Append(@, a)]
SetDir(c, d) == [c EXCEPT !.head[Len(c.head)].arg_s2 = d]
Fail(c, err) == [c EXCEPT !.err = err]

\* cli_args_add_action_write_dir: `dir,x=n' sets the limit unless x is the letter n, and
\* otherwise the suffix remains part of the argument; run_action_write_files_in_dir cuts it
\* off an absolute path, but a directory of that name is not found in a relative one.
WriteDirAction(a) ==
  IF a.tag \notin {"", "n"}
  THEN Action("w", [dir |-> a.dir, opens |-> TRUE], a.n)
  ELSE Action("w", [dir |-> a.dir, opens |-> a.absolute \/ a.tag = ""], 0)

Lists == {"W", "r", "l", "u", "c"}

LastOption_of_actions(c, o) == IF o \in Lists \cup {"w", "R"} THEN o ELSE c.last_option

\* The option that -D and -d are about: the one before, whatever it is.
LastOption(c, o) == o

\* One round of the loop in cli_args_parse.
Parse(c, o, a) ==
  LET r == CASE o = "h" -> IF c.help_message THEN Fail(c, "REPEATED_H")
                           ELSE [c EXCEPT !.help_message = TRUE]
             [] o = "f" -> IF c.socket_name # NULL THEN Fail(c, "REPEATED_F")
                           ELSE [c EXCEPT !.socket_name = a]
             [] o = "w" -> AddAction(c, WriteDirAction(a))
             [] o \in Lists -> AddAction(c, Action(o, a, 0))
             [] o = "R" -> AddAction(c, Action(o, NULL, 0))
             [] o = "D" -> IF c.last_option \in {"w", "W"} THEN SetDir(c, a)
                           ELSE Fail(c, "BAD_OPTION_CAP_D")
             [] o = "d" -> IF c.last_option \in {"r", "R"} THEN SetDir(c, a)
                           ELSE Fail(c, "BAD_OPTION_D")
             [] o = "t" -> [c EXCEPT !.msec_between_actions = a]
             [] o = "p" -> IF a \in {"info", "error", "warn", "debug", "trace"} THEN c
                           ELSE Fail(c, "BAD_OPTION_P")
             [] o \in {"Z", "z"} -> c
             [] OTHER -> Fail(c, "UNKNOWN_OPTION")
  IN [r EXCEPT !.last_option = LastOption(c, o)]

Init ==
  /\ argv = <<>> /\ cli = CliArgs /\ pc = "parse" /\ todo = <<>>
  /\ names = <<>> /\ part = "open" /\ stack = <<>> /\ limit = NULL /\ sent = 0
  /\ ret = 0 /\ saved = {}
  /\ files = NoFiles /\ up = TRUE /\ others = 0

\* cli_args_parse: getopt returns the next option of the command line.
ParseOption ==
  /\ pc = "parse" /\ Len(argv) < MaxOptions /\ cli.err = "OK"
  /\ \E x \in Options : argv' = Append(argv, x) /\ cli' = Parse(cli, x.o, x.a)
  /\ UNCHANGED <<pc, todo, local, ret, saved, world>>

-----------------------------------------------------------------------------
(* main.c                                                                  *)

\* There are no more options, or the last one was wrong: main, up to the connection.
Begin ==
  /\ pc = "parse"
  /\ pc' = IF cli.err # "OK" \/ cli.help_message \/ cli.socket_name = NULL THEN "exit"
           ELSE "connect"
  /\ UNCHANGED <<parsing, todo, local, ret, saved, world>>

\* openConnection succeeds, or abstime passes first.
Connect ==
  /\ pc = "connect"
  /\ \/ up /\ pc' = "next" /\ todo' = cli.head
     \/ pc' = "exit" /\ UNCHANGED todo
  /\ UNCHANGED <<parsing, local, ret, saved, world>>

\* run_action, up to the first call.
NextAction ==
  /\ pc = "next" /\ todo # <<>>
  /\ LET a == Head(todo) IN
     /\ pc' = CASE a.type \in Lists -> "list" [] a.type = "R" -> "random"
                [] a.type = "w" -> IF a.arg_s1.opens THEN "dir" ELSE "done"
     /\ ret' = IF a.type = "w" /\ ~a.arg_s1.opens THEN -1 ELSE 0
     /\ names' = IF a.type \in Lists THEN a.arg_s1 ELSE <<>>
     /\ stack' = IF a.type = "w" THEN <<[dir |-> a.arg_s1.dir, i |-> 1]>> ELSE <<>>
     /\ limit' = IF a.type = "w" /\ a.arg_i > 0 THEN a.arg_i ELSE NULL
  /\ part' = "open" /\ sent' = 0
  /\ UNCHANGED <<parsing, todo, saved, world>>

\* wait_msec: nanosleep fails for ever if the number is negative, and without -t nobody
\* has set it.
Waits ==
  CASE cli.msec_between_actions = NULL -> {"next", "stuck"}
    [] cli.msec_between_actions # NULL ->
         {IF cli.msec_between_actions >= 0 THEN "next" ELSE "stuck"}

ActionDone_repeats ==
  /\ pc = "done"
  /\ IF ret # 0 THEN pc' = "next" /\ todo' = <<>> ELSE pc' \in Waits /\ todo' = todo
  /\ names' = <<>> /\ stack' = <<>> /\ limit' = NULL
  /\ UNCHANGED <<parsing, part, sent, ret, saved, world>>

\* The end of a round of the loop in main: a failed action ends the loop.
ActionDone ==
  /\ pc = "done"
  /\ IF ret # 0 THEN pc' = "next" /\ todo' = <<>>
     ELSE pc' \in Waits /\ todo' = Tail(todo)
  /\ names' = <<>> /\ stack' = <<>> /\ limit' = NULL
  /\ UNCHANGED <<parsing, part, sent, ret, saved, world>>

\* closeConnection and the end of main.
Finish ==
  /\ pc = "next" /\ todo = <<>> /\ pc' = "exit"
  /\ UNCHANGED <<parsing, todo, local, ret, saved, world>>

-----------------------------------------------------------------------------
(* Calls of the API                                                        *)

Without(f, E) == [k \in Key |-> IF k \in E THEN NULL ELSE f[k]]

\* The sets of files that htable_evict_files may evict.
Evictions(f) ==
  {E \in SUBSET Stored(f) :
     ~Exceeded(Without(f, E)) /\ (E # {} => \E k \in E : Exceeded(Without(f, E \ {k})))}

Reply(f, u, v, E) == [files |-> f, up |-> u, ret |-> v, evicted |-> E]

\* What may come of a request: the server performs it, or it ends before it answers and
\* the client may take the end of the stream for success.
Replies(op, k, n) ==
  LET o == Do(files, [op |-> op, key |-> k, fd |-> Me, arg |-> n]) IN
  {Reply(files, FALSE, v, {}) : v \in {0, -1}}
    \cup CASE ~up \/ o.err = "exit" -> {}
           [] up /\ Writes(op) /\ o.err = "OK" ->
                {Reply(Without(o.files, E), TRUE,
                       IF \A e \in E : o.files[e].length_in_bytes > 0 THEN 0 ELSE -1, E) :
                   E \in Evictions(o.files)}
           [] OTHER -> {Reply(o.files, TRUE,
                              IF o.err = "OK" \/ op \in {"LOCK_FILE", "WRITE_FILE"} THEN 0 ELSE -1,
                              {})}

Called(r) == files' = r.files /\ up' = r.up /\ UNCHANGED others

\* An unlock passes the lock to this client, which has asked for it in vain: it gets a byte
\* that no call of its own has asked for (see ServerApi), and what follows is not modelled.
PassesToMe(r) ==
  /\ r.op = "UNLOCK_FILE" /\ Do(files, r).err = "OK"
  /\ files[r.key].subs # <<>> /\ Heir(files[r.key]) = Me

\* Where a call leads: a write to a closed socket raises SIGPIPE, and a file that has to be
\* saved without a directory is a null pointer for strlen.
After(r, unsaved, next) ==
  CASE ~up -> "killed" [] up /\ unsaved -> "crash" [] OTHER -> next

-----------------------------------------------------------------------------
(* run_action.c                                                            *)

Current == Head(todo)
InList(types) == pc = "list" /\ names # <<>> /\ Current.type \in types

ListEnd ==
  /\ pc = "list" /\ names = <<>> /\ pc' = "done" /\ ret' = 0
  /\ UNCHANGED <<parsing, todo, local, saved, world>>

\* realpath finds no such file: the write fails, a list of reads just ends.
NoSuchFile ==
  /\ InList({"W", "r"}) /\ Real[Head(names)] = NULL
  /\ pc' = "done" /\ ret' = IF Current.type = "W" THEN -1 ELSE 0
  /\ UNCHANGED <<parsing, todo, local, saved, world>>

CallOf_unlocked ==
  [open |-> "OPEN_FILE_CREATE", write |-> "WRITE_FILE", close |-> "CLOSE_FILE"]

\* The calls of run_action_write_file.
CallOf == [open |-> "OPEN_FILE_CREATE_LOCK", write |-> "WRITE_FILE", close |-> "CLOSE_FILE"]
NextPart == [open |-> "write", write |-> "close", close |-> "open"]

\* The directory for evicted files.
EvictedDir(a) == a.arg_s2

\* run_action_write_list_of_files: the next call of run_action_write_file.
WriteListed ==
  /\ InList({"W"}) /\ Real[Head(names)] # NULL
  /\ LET k == Real[Head(names)] IN
     \E r \in Replies(CallOf[part], k, Length[k]) :
       /\ Called(r) /\ ret' = r.ret
       /\ pc' = After(r, r.evicted # {} /\ EvictedDir(Current) = NULL,
                      IF r.ret < 0 THEN "done" ELSE "list")
       /\ IF r.ret = 0 THEN saved' = saved \cup r.evicted
          ELSE \E S \in SUBSET r.evicted : saved' = saved \cup S
       /\ part' = NextPart[part]
       /\ names' = IF part = "close" THEN Tail(names) ELSE names
  /\ UNCHANGED <<parsing, todo, stack, limit, sent>>

\* run_action_read_list_of_files.
ReadListed ==
  /\ InList({"r"}) /\ Real[Head(names)] # NULL
  /\ LET k == Real[Head(names)] IN
     \E r \in Replies("READ_FILE", k, 0) :
       /\ Called(r) /\ ret' = r.ret
       /\ pc' = After(r, r.ret = 0 /\ Current.arg_s2 = NULL,
                      IF r.ret < 0 THEN "done" ELSE "list")
  /\ names' = Tail(names)
  /\ UNCHANGED <<parsing, todo, part, stack, limit, sent, saved>>

\* run_some_action_over_list_of_files: the path is not made absolute, and a failure
\* changes nothing.
EachListed ==
  /\ InList({"l", "u", "c"})
  /\ LET op == [l |-> "LOCK_FILE", u |-> "UNLOCK_FILE", c |-> "REMOVE_FILE"] IN
     \E r \in Replies(op[Current.type], Head(names), 0) :
       /\ Called(r)
       /\ pc' = After(r, FALSE, IF PassesToMe([op |-> op[Current.type], key |-> Head(names),
                                              fd |-> Me, arg |-> 0])
                               THEN "stray" ELSE "list")
  /\ names' = Tail(names)
  /\ UNCHANGED <<parsing, todo, part, stack, limit, sent, ret, saved>>

Top == Head(stack)
Entry == Tree[Top.dir][Top.i]
Advance == [stack EXCEPT ![1].i = @ + 1]

DirEnds_late == Top.i > Len(Tree[Top.dir]) \/ limit = -1

\* The condition of the loop in write_dir.
DirEnds == Top.i > Len(Tree[Top.dir]) \/ limit = 0

\* write_dir returns; the value matters only for the outermost call.
DirReturn(v) ==
  /\ stack' = Tail(stack) /\ ret' = v
  /\ pc' = IF Len(stack) = 1 THEN "done" ELSE "dir"

DirEnd ==
  /\ pc = "dir" /\ DirEnds /\ DirReturn(0)
  /\ UNCHANGED <<parsing, todo, names, part, limit, sent, saved, world>>

DirOther ==
  /\ pc = "dir" /\ ~DirEnds /\ Entry.type = "OTHER" /\ DirReturn(-1)
  /\ UNCHANGED <<parsing, todo, names, part, limit, sent, saved, world>>

DirSubdir ==
  /\ pc = "dir" /\ ~DirEnds /\ Entry.type = "DIR"
  /\ stack' = <<[dir |-> Entry.name, i |-> 1]>> \o Advance
  /\ UNCHANGED <<parsing, pc, todo, names, part, limit, sent, ret, saved, world>>

\* A regular file is written without having been opened, and without a directory for
\* evicted files.
DirFile ==
  /\ pc = "dir" /\ ~DirEnds /\ Entry.type = "REG"
  /\ \E r \in Replies("WRITE_FILE", Entry.name, Length[Entry.name]) :
       /\ Called(r)
       /\ IF ~up \/ r.evicted # {}
          THEN pc' = After(r, r.evicted # {}, "dir") /\ UNCHANGED <<stack, ret, limit, sent>>
          ELSE IF r.ret < 0 THEN DirReturn(-1) /\ UNCHANGED <<limit, sent>>
          ELSE /\ stack' = Advance /\ limit' = IF limit = NULL THEN NULL ELSE limit - 1
               /\ sent' = sent + 1 /\ UNCHANGED <<pc, ret>>
  /\ UNCHANGED <<parsing, todo, names, part, saved>>

\* run_action_read_random_files: readNFiles asserts that there is a directory, and it
\* returns only when the server ends (see ServerApi), if it does not ask for more memory
\* than there is.
ReadRandom ==
  /\ pc = "random"
  /\ CASE Current.arg_s2 = NULL -> pc' = "crash" /\ UNCHANGED <<ret, up>>
       [] Current.arg_s2 # NULL /\ ~up -> pc' = "killed" /\ UNCHANGED <<ret, up>>
       [] OTHER -> pc' \in {"done", "killed"} /\ ret' \in {0, -1} /\ up' = FALSE
  /\ UNCHANGED <<parsing, todo, local, saved, files, others>>

-----------------------------------------------------------------------------

Ended == pc \in {"exit", "crash", "killed"}

\* The program waits for an answer that does not come, or gets one too many.
Astray == pc \in {"waits", "stray"}

\* Another client has something to ask for.
OthersAsk == up /\ others < MaxOthers /\ others' = others + 1

\* Another client's request; before this client is connected it makes no difference when.
Interfere ==
  /\ OthersAsk /\ pc \notin {"parse", "connect"} /\ ~Ended /\ ~Astray
  /\ \E r \in Others :
       LET o == Do(files, r) IN
       /\ o.err # "exit"
       /\ files' \in IF Writes(r.op) /\ o.err = "OK"
                     THEN {Without(o.files, E) : E \in Evictions(o.files)} ELSE {o.files}
       /\ pc' = IF PassesToMe(r) THEN "stray" ELSE pc
  /\ UNCHANGED <<parsing, todo, local, ret, saved, up>>

\* The program calls a function of the API.
Calling ==
  \/ InList({"W", "r"}) /\ Real[Head(names)] # NULL
  \/ InList({"l", "u", "c"})
  \/ pc = "dir" /\ ~DirEnds /\ Entry.type = "REG"

\* A call that is never answered: another client's message replaces this one's in the queue
\* (workload_queue.c:75), or its readNFiles has left a bucket's mutex locked (htable.c:506).
NoAnswer ==
  /\ OthersAsk /\ Others # {} /\ Calling /\ pc' = "waits"
  /\ UNCHANGED <<parsing, todo, local, ret, saved, files, up>>

Step ==
  \/ ParseOption \/ Begin \/ Connect \/ NextAction \/ ActionDone \/ Finish
  \/ ListEnd \/ NoSuchFile \/ WriteListed \/ ReadListed \/ EachListed
  \/ DirEnd \/ DirOther \/ DirSubdir \/ DirFile

Next == Step \/ ReadRandom \/ Interfere \/ NoAnswer

Spec == Init /\ [][Next]_vars

\* The program goes on, and so does the server, except for readNFiles and NoAnswer.
FairSpec == Spec /\ WF_vars(Step)
=============================================================================
