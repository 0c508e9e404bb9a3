---------------------------- MODULE ClientProofs ----------------------------
(***************************************************************************)
(* Proofs about the client program, for every command line, tree of files  *)
(* and storage.                                                            *)
(***************************************************************************)
EXTENDS ClientProps, ProofLemmas

-----------------------------------------------------------------------------
(* The types of what the parser handles. *)

Value == {x.a : x \in Options} \cup {NULL}
Letter == {x.o : x \in Options} \cup {NULL}
WriteOption == {x \in Options : x.o = "w"}
Subject == Value \cup {[dir |-> x.a.dir, opens |-> x.a.absolute \/ x.a.tag = ""] : x \in WriteOption}
                 \cup {[dir |-> x.a.dir, opens |-> TRUE] : x \in WriteOption}
ActionSet == [type: Actions, arg_s1: Subject, arg_s2: Value, arg_i: Int]

Err == {"OK", "REPEATED_H", "REPEATED_F", "BAD_OPTION_CAP_D", "BAD_OPTION_D", "BAD_OPTION_P",
        "UNKNOWN_OPTION"}
CliType == [err: Err, socket_name: Value, help_message: BOOLEAN, msec_between_actions: Value,
            head: Seq(ActionSet), last_option: Letter]

Known == Actions \cup {"h", "f", "D", "d", "t", "p", "Z", "z"}

\* The parser rejects option o with argument a.
Bad(c, o, a) ==
  \/ o = "h" /\ c.help_message
  \/ o = "f" /\ c.socket_name # NULL
  \/ o = "D" /\ c.last_option \notin {"w", "W"}
  \/ o = "d" /\ c.last_option \notin {"r", "R"}
  \/ o = "p" /\ a \notin {"info", "error", "warn", "debug", "trace"}
  \/ o \notin Known

\* What it makes of the list of actions.
HeadOf(c, o, a, h) ==
  CASE o \in Actions -> \E x \in ActionSet : h = Append(c.head, x) /\ x.type = o /\ x.arg_s2 = NULL /\ Fits(x)
    [] o \in {"D", "d"} /\ ~Bad(c, o, a) -> h = [c.head EXCEPT ![Len(c.head)].arg_s2 = a]
    [] OTHER -> h = c.head

LEMMA NewAction ==
  ASSUME NEW x \in Options, x.o \in Actions
  PROVE  LET y == IF x.o = "w" THEN WriteDirAction(x.a)
                  ELSE Action(x.o, IF x.o = "R" THEN NULL ELSE x.a, 0)
         IN  y \in ActionSet /\ y.type = x.o /\ y.arg_s2 = NULL /\ Fits(y)
<1>1. x.a \in Value /\ NULL \in Value /\ Value \subseteq Subject
  BY DEF Value, Subject
<1>2. CASE x.o = "w"
  <2>1. x \in WriteOption /\ x.a.n \in Int
    BY <1>2, OptionsAssumption DEF WriteOption
  <2>2. /\ [dir |-> x.a.dir, opens |-> TRUE] \in Subject
        /\ [dir |-> x.a.dir, opens |-> x.a.absolute \/ x.a.tag = ""] \in Subject
    BY <2>1 DEF Subject
  <2>3. \A s \in Subject, i \in Int : [type |-> "w", arg_s1 |-> s, arg_s2 |-> NULL, arg_i |-> i] \in ActionSet
    BY <1>1 DEF ActionSet, Actions
  <2>6. /\ x.a.dir \in DOMAIN Tree
        /\ \A s, i : s.dir \in DOMAIN Tree => Fits([type |-> "w", arg_s1 |-> s, arg_s2 |-> NULL, arg_i |-> i])
    BY <1>2, PathsAssumption DEF Fits
  <2>4. CASE x.a.tag \notin {"", "n"}
    <3> DEFINE s == [dir |-> x.a.dir, opens |-> TRUE]
    <3>1. WriteDirAction(x.a) = Action("w", s, x.a.n)
      BY <2>4 DEF WriteDirAction
    <3>2. s \in Subject /\ s.dir = x.a.dir
      BY <2>2
    <3> HIDE DEF s
    <3>3. Action("w", s, x.a.n) = [type |-> "w", arg_s1 |-> s, arg_s2 |-> NULL, arg_i |-> x.a.n]
      BY DEF Action
    <3>4. Fits(WriteDirAction(x.a))
      BY <2>6, <3>1, <3>2, <3>3
    <3> QED
      BY <1>2, <2>1, <2>3, <3>1, <3>2, <3>3, <3>4
  <2>5. CASE x.a.tag \in {"", "n"}
    <3> DEFINE s == [dir |-> x.a.dir, opens |-> x.a.absolute \/ x.a.tag = ""]
    <3>1. WriteDirAction(x.a) = Action("w", s, 0)
      BY <2>5, Zenon DEF WriteDirAction
    <3>2. s \in Subject
      BY ONLY <2>2, Zenon
    <3>5. s.dir = x.a.dir
      OBVIOUS
    <3> HIDE DEF s
    <3>3. Action("w", s, 0) = [type |-> "w", arg_s1 |-> s, arg_s2 |-> NULL, arg_i |-> 0]
      BY DEF Action
    <3>4. WriteDirAction(x.a) \in ActionSet
      BY <2>3, <3>1, <3>2, <3>3
    <3>6. Fits(WriteDirAction(x.a))
      BY <2>6, <3>1, <3>3, <3>5
    <3> QED
      BY <1>2, <3>1, <3>3, <3>4, <3>6
  <2> QED
    BY <2>4, <2>5
<1>3. CASE x.o # "w"
  <2>2. x.o \in Lists => Fits(Action(x.o, x.a, 0))
    BY <1>3, PathsAssumption DEF Fits, Action, Lists
  <2>3. x.o \notin Lists => x.o = "R" /\ Fits(Action(x.o, NULL, 0))
    BY <1>3 DEF Fits, Action, Actions
  <2>4. x.o \in Lists => x.o # "R"
    BY DEF Lists
  <2>1. \A s \in Value : /\ Action(x.o, s, 0) \in ActionSet /\ Action(x.o, s, 0).type = x.o
                         /\ Action(x.o, s, 0).arg_s2 = NULL
    BY <1>1 DEF Action, ActionSet
  <2> QED
    BY <1>1, <1>3, <2>1, <2>2, <2>3, <2>4
<1> QED
  BY <1>2, <1>3

-----------------------------------------------------------------------------
(* What one round of cli_args_parse does. *)

Round(c, o, a, q) ==
  /\ q \in CliType
  /\ c.err = "OK" => (q.err = "OK" <=> ~Bad(c, o, a))
  /\ q.socket_name = IF o = "f" /\ c.socket_name = NULL THEN a ELSE c.socket_name
  /\ q.help_message = (c.help_message \/ o = "h")
  /\ HeadOf(c, o, a, q.head)

LEMMA SetDirType ==
  ASSUME NEW h \in Seq(ActionSet), h # <<>>, NEW a \in Value
  PROVE  [h EXCEPT ![Len(h)].arg_s2 = a] \in Seq(ActionSet)
<1>1. Len(h) \in DOMAIN h /\ h[Len(h)] \in ActionSet
  OBVIOUS
<1>2. \A y \in ActionSet : [y EXCEPT !.arg_s2 = a] \in ActionSet
  BY DEF ActionSet
<1>3. [h[Len(h)] EXCEPT !.arg_s2 = a] \in ActionSet
  BY <1>1, <1>2
<1> QED
  BY <1>1, <1>3

LEMMA ParseRule ==
  ASSUME NEW c \in CliType, NEW x \in Options, NEW r, r = Parse(c, x.o, x.a),
         x.o \in {"D", "d"} /\ ~Bad(c, x.o, x.a) => c.head # <<>>
  PROVE  Round(c, x.o, x.a, r) /\ r.last_option = x.o
<1> DEFINE o == x.o
           a == x.a
<1>1. x.a \in Value /\ x.o \in Letter
  BY DEF Value, Letter
<1>2. /\ c.err \in Err /\ c.socket_name \in Value /\ c.help_message \in BOOLEAN
      /\ c.msec_between_actions \in Value /\ c.head \in Seq(ActionSet) /\ c.last_option \in Letter
  BY DEF CliType
<1>3. ASSUME NEW q, Round(c, o, a, q), r = [q EXCEPT !.last_option = LastOption(c, o)]
      PROVE  Round(c, o, a, r) /\ r.last_option = o
  <2>1. q \in CliType
    BY <1>3 DEF Round
  <2>2. /\ r \in CliType /\ r.last_option = o /\ r.err = q.err /\ r.socket_name = q.socket_name
        /\ r.help_message = q.help_message /\ r.head = q.head
    BY <1>1, <1>3, <2>1 DEF LastOption, CliType
  <2> QED
    BY <1>3, <2>2 DEF Round
<1>4. ASSUME NEW e \in Err
      PROVE  /\ Fail(c, e) \in CliType /\ Fail(c, e).err = e /\ Fail(c, e).socket_name = c.socket_name
             /\ Fail(c, e).help_message = c.help_message /\ Fail(c, e).head = c.head
  BY <1>2 DEF Fail, CliType
<1>5. ASSUME NEW e \in Err \ {"OK"}, Bad(c, o, a), o \notin Actions, o \notin {"f", "h"} \/ c.help_message \/ o # "h"
      PROVE  (o = "f" => c.socket_name # NULL) /\ (o = "h" => c.help_message) => Round(c, o, a, Fail(c, e))
  <2>1. HeadOf(c, o, a, c.head)
    BY <1>5 DEF HeadOf
  <2> QED
    BY <1>2, <1>4, <1>5, <2>1 DEF Round
<1>6. ASSUME NEW q \in CliType, q.err = c.err, q.head = c.head, ~Bad(c, o, a), o \notin Actions \cup {"D", "d"},
             q.socket_name = (IF o = "f" THEN a ELSE c.socket_name),
             q.help_message = (c.help_message \/ o = "h"), o = "f" => c.socket_name = NULL
      PROVE  Round(c, o, a, q)
  BY <1>2, <1>6 DEF Round, HeadOf
<1>7. ASSUME NEW y \in ActionSet, y.type = o, y.arg_s2 = NULL, Fits(y), o \in Actions
      PROVE  Round(c, o, a, AddAction(c, y))
  <2>1. Append(c.head, y) \in Seq(ActionSet)
    BY <1>2
  <2>2. /\ AddAction(c, y) \in CliType /\ AddAction(c, y).head = Append(c.head, y)
        /\ AddAction(c, y).err = c.err /\ AddAction(c, y).socket_name = c.socket_name
        /\ AddAction(c, y).help_message = c.help_message
    BY <1>2, <2>1 DEF AddAction, CliType
  <2>3. HeadOf(c, o, a, Append(c.head, y))
    BY <1>7 DEF HeadOf, Actions, Lists
  <2>4. ~Bad(c, o, a) /\ o # "f" /\ o # "h"
    BY <1>7 DEF Bad, Actions, Lists, Known
  <2> QED
    BY <1>2, <2>2, <2>3, <2>4 DEF Round
<1>8. ASSUME o \in {"D", "d"}, ~Bad(c, o, a) PROVE Round(c, o, a, SetDir(c, a))
  <2> DEFINE h == [c.head EXCEPT ![Len(c.head)].arg_s2 = a]
  <2>1. h \in Seq(ActionSet)
    BY <1>1, <1>2, <1>8, SetDirType
  <2>2. SetDir(c, a) = [c EXCEPT !.head = h]
    BY DEF SetDir, CliType
  <2>3. HeadOf(c, o, a, h)
    BY <1>8 DEF HeadOf, Actions, Lists
  <2> HIDE DEF h
  <2>4. /\ SetDir(c, a) \in CliType /\ SetDir(c, a).head = h
        /\ SetDir(c, a).err = c.err /\ SetDir(c, a).socket_name = c.socket_name
        /\ SetDir(c, a).help_message = c.help_message
    BY <1>2, <2>1, <2>2 DEF CliType
  <2> QED
    BY <1>2, <1>8, <2>3, <2>4 DEF Round
<1> DEFINE noted(q) == [q EXCEPT !.last_option = LastOption(c, o)]
<1>10. CASE o = "h"
  <2>1. CASE c.help_message
    <3>1. r = noted(Fail(c, "REPEATED_H"))
      BY <1>10, <2>1 DEF Parse, Lists
    <3>2. Round(c, o, a, Fail(c, "REPEATED_H"))
      BY <1>5, <1>10, <2>1 DEF Bad, Actions, Lists, Err
    <3> QED
      BY <1>3, <3>1, <3>2
  <2>2. CASE ~c.help_message
    <3> DEFINE q == [c EXCEPT !.help_message = TRUE]
    <3>1. r = noted(q)
      BY <1>10, <2>2 DEF Parse, Lists
    <3>2. q \in CliType /\ q.err = c.err /\ q.head = c.head /\ q.socket_name = c.socket_name /\ q.help_message = TRUE
      BY <1>2 DEF CliType
    <3> HIDE DEF q
    <3>3. Round(c, o, a, q)
      BY <1>6, <1>10, <2>2, <3>2 DEF Bad, Actions, Lists, Known
    <3> QED
      BY <1>3, <3>1, <3>3
  <2> QED
    BY <2>1, <2>2
<1>11. CASE o = "f"
  <2>1. CASE c.socket_name # NULL
    <3>1. r = noted(Fail(c, "REPEATED_F"))
      BY <1>11, <2>1 DEF Parse, Lists
    <3>2. Round(c, o, a, Fail(c, "REPEATED_F"))
      BY <1>5, <1>11, <2>1 DEF Bad, Actions, Lists, Err
    <3> QED
      BY <1>3, <3>1, <3>2
  <2>2. CASE c.socket_name = NULL
    <3> DEFINE q == [c EXCEPT !.socket_name = a]
    <3>1. r = noted(q)
      BY <1>11, <2>2 DEF Parse, Lists
    <3>2. q \in CliType /\ q.err = c.err /\ q.head = c.head /\ q.socket_name = a /\ q.help_message = c.help_message
      BY <1>1, <1>2 DEF CliType
    <3> HIDE DEF q
    <3>3. Round(c, o, a, q)
      BY <1>2, <1>6, <1>11, <2>2, <3>2 DEF Bad, Actions, Lists, Known
    <3> QED
      BY <1>3, <3>1, <3>3
  <2> QED
    BY <2>1, <2>2
<1>12. CASE o \in Actions
  <2> DEFINE y == IF o = "w" THEN WriteDirAction(a) ELSE Action(o, IF o = "R" THEN NULL ELSE a, 0)
  <2>1. r = noted(AddAction(c, y))
    BY <1>12 DEF Parse, Actions, Lists
  <2>2. y \in ActionSet /\ y.type = o /\ y.arg_s2 = NULL /\ Fits(y)
    BY <1>12, NewAction
  <2> HIDE DEF y
  <2>3. Round(c, o, a, AddAction(c, y))
    BY <1>7, <1>12, <2>2
  <2> QED
    BY <1>3, <2>1, <2>3
<1>13. CASE o \in {"D", "d"} /\ ~Bad(c, o, a)
  <2>1. r = noted(SetDir(c, a))
    BY <1>13 DEF Parse, Bad, Lists
  <2> QED
    BY <1>3, <1>8, <1>13, <2>1
<1>14. CASE o \in {"D", "d", "p"} /\ Bad(c, o, a)
  <2>1. \E e \in Err \ {"OK"} : r = noted(Fail(c, e))
    BY <1>14 DEF Parse, Bad, Lists, Known, Err
  <2>2. PICK e \in Err \ {"OK"} : r = noted(Fail(c, e))
    BY <2>1
  <2>3. Round(c, o, a, Fail(c, e))
    BY <1>5, <1>14 DEF Actions, Lists
  <2> QED
    BY <1>3, <2>2, <2>3
<1>15. CASE o \in {"p", "Z", "z"} /\ ~Bad(c, o, a)
  <2>1. r = noted(c)
    BY <1>15 DEF Parse, Bad, Lists
  <2>2. Round(c, o, a, c)
    BY <1>2, <1>6, <1>15 DEF Actions, Lists
  <2> QED
    BY <1>3, <2>1, <2>2
<1>16. CASE o = "t"
  <2> DEFINE q == [c EXCEPT !.msec_between_actions = a]
  <2>1. r = noted(q)
    BY <1>16 DEF Parse, Lists
  <2>2. q \in CliType /\ q.err = c.err /\ q.head = c.head /\ q.socket_name = c.socket_name
        /\ q.help_message = c.help_message
    BY <1>1, <1>2 DEF CliType
  <2> HIDE DEF q
  <2>3. Round(c, o, a, q)
    BY <1>2, <1>6, <1>16, <2>2 DEF Bad, Actions, Lists, Known
  <2> QED
    BY <1>3, <2>1, <2>3
<1>17. CASE o \notin Known
  <2>1. r = noted(Fail(c, "UNKNOWN_OPTION"))
    BY <1>17 DEF Parse, Known, Actions, Lists
  <2>2. Round(c, o, a, Fail(c, "UNKNOWN_OPTION"))
    BY <1>5, <1>17 DEF Bad, Known, Actions, Lists, Err
  <2> QED
    BY <1>3, <2>1, <2>2
<1>18. o \in {"Z", "z"} => ~Bad(c, o, a)
  BY DEF Bad, Known
<1> QED
  BY <1>10, <1>11, <1>12, <1>13, <1>14, <1>15, <1>16, <1>17, <1>18 DEF Known

-----------------------------------------------------------------------------
(* The places of the actions on a command line that grows. *)

LEMMA RankBounds ==
  ASSUME argv \in Seq(Options)
  PROVE  /\ IsFiniteSet(Places) /\ Cardinality(Places) \in Nat
         /\ \A i \in Places : Rank(i) \in 1 .. Cardinality(Places)
         /\ \A i \in Places : Rank(i) = Cardinality(Places) => \A j \in Places : j <= i
<1>1. Len(argv) \in Nat /\ Places \in SUBSET (1 .. Len(argv)) /\ IsFiniteSet(1 .. Len(argv))
  BY FS_Interval DEF Places
<1>2. IsFiniteSet(Places) /\ Cardinality(Places) \in Nat
  BY <1>1, FS_Subset, FS_CardinalityType
<1>3. ASSUME NEW i \in Places
      PROVE  /\ Rank(i) \in 1 .. Cardinality(Places)
             /\ Rank(i) = Cardinality(Places) => \A j \in Places : j <= i
  <2> DEFINE T == {j \in Places : j <= i}
  <2>1. T \in SUBSET Places /\ i \in T
    BY <1>1
  <2>2. IsFiniteSet(T) /\ Cardinality(T) <= Cardinality(Places)
        /\ (Cardinality(Places) = Cardinality(T) => Places = T)
    BY <1>2, <2>1, FS_Subset
  <2>3. Cardinality(T) \in Nat /\ Cardinality(T) # 0
    BY <2>1, <2>2, FS_CardinalityType, FS_EmptySet
  <2>4. Rank(i) = Cardinality(T)
    BY DEF Rank
  <2>5. Cardinality(T) = Cardinality(Places) => \A j \in Places : j <= i
    BY <2>2
  <2> HIDE DEF T
  <2> QED
    BY <1>2, <2>2, <2>3, <2>4, <2>5
<1> QED
  BY <1>2, <1>3

LEMMA OneMore ==
  ASSUME argv \in Seq(Options), NEW x \in Options, argv' = Append(argv, x),
         NEW n \in Nat, n = Len(argv)
  PROVE  /\ argv' \in Seq(Options) /\ DOMAIN argv = 1 .. n /\ DOMAIN argv' = 1 .. n + 1
         /\ argv'[n + 1] = x /\ \A i \in 1 .. n : argv'[i] = argv[i]
         /\ Places' = IF x.o \in Actions THEN Places \cup {n + 1} ELSE Places
         /\ \A i \in Places : Rank(i)' = Rank(i)
         /\ Cardinality(Places)' = IF x.o \in Actions THEN Cardinality(Places) + 1 ELSE Cardinality(Places)
         /\ x.o \in Actions => Rank(n + 1)' = Cardinality(Places)'
<1>1. /\ argv' \in Seq(Options) /\ DOMAIN argv = 1 .. n /\ DOMAIN argv' = 1 .. n + 1
      /\ argv'[n + 1] = x /\ \A i \in 1 .. n : argv'[i] = argv[i]
  OBVIOUS
<1>2. 1 .. n + 1 = 1 .. n \cup {n + 1} /\ n + 1 \notin 1 .. n
  OBVIOUS
<1>3. Places \subseteq 1 .. n
  BY <1>1 DEF Places
<1>4. Places' = IF x.o \in Actions THEN Places \cup {n + 1} ELSE Places
  BY <1>1, <1>2 DEF Places
<1>5. ASSUME NEW i \in Places PROVE Rank(i)' = Rank(i)
  <2>1. i \in 1 .. n /\ ~(n + 1 <= i)
    BY <1>3
  <2>2. {j \in Places' : j <= i} = {j \in Places : j <= i}
    BY <1>4, <2>1
  <2> QED
    BY <2>2 DEF Rank
<1>6. IsFiniteSet(Places) /\ n + 1 \notin Places
  BY <1>2, <1>3, RankBounds
<1>7. Cardinality(Places)' = IF x.o \in Actions THEN Cardinality(Places) + 1 ELSE Cardinality(Places)
  BY <1>4, <1>6, FS_AddElement
<1>8. Rank(n + 1)' = Cardinality(Places)'
  <2>1. \A j \in Places' : j <= n + 1
    BY <1>3, <1>4
  <2>2. {j \in Places' : j <= n + 1} = Places'
    BY <2>1
  <2> QED
    BY <2>2 DEF Rank
<1> QED
  BY <1>1, <1>4, <1>5, <1>7, <1>8

ParserType == argv \in Seq(Options) /\ cli \in CliType

\* What the parser knows tells it whether the next option is one of a correct command line.
LEMMA WrongIsBad ==
  ASSUME ParserType, ParserInv, NEW x \in Options, argv' = Append(argv, x),
         NEW n \in Nat, n = Len(argv)
  PROVE  /\ Wrong(n + 1)' <=> Bad(cli, x.o, x.a)
         /\ \A i \in 1 .. n : Wrong(i)' <=> Wrong(i)
<1>1. /\ DOMAIN argv = 1 .. n /\ DOMAIN argv' = 1 .. n + 1
      /\ argv'[n + 1] = x /\ \A i \in 1 .. n : argv'[i] = argv[i]
  BY OneMore DEF ParserType
<1>2. ASSUME NEW i \in 1 .. n PROVE Wrong(i)' <=> Wrong(i)
  <2>1. argv'[i] = argv[i] /\ (i # 1 => argv'[i - 1] = argv[i - 1])
        /\ \A j \in 1 .. i - 1 : argv'[j] = argv[j]
    BY <1>1
  <2>2. (IF i = 1 THEN NULL ELSE argv'[i - 1].o) = (IF i = 1 THEN NULL ELSE argv[i - 1].o)
    BY <2>1
  <2>3. (\E j \in 1 .. i - 1 : argv'[j].o = argv'[i].o) <=> (\E j \in 1 .. i - 1 : argv[j].o = argv[i].o)
    BY <2>1
  <2> QED
    BY <2>1, <2>2, <2>3 DEF Wrong
<1>3. (IF n + 1 = 1 THEN NULL ELSE argv'[(n + 1) - 1].o) = cli.last_option
  <2>1. CASE n = 0
    <3>0. argv \in Seq(Options) /\ Len(argv) = 0
      BY <2>1 DEF ParserType
    <3>1. argv = <<>>
      BY ONLY <3>0
    <3>2. cli.last_option = NULL
      BY <3>1 DEF ParserInv, Previous
    <3> QED
      BY <2>1, <3>2
  <2>2. CASE n # 0
    <3>1. (n + 1) - 1 = n /\ n \in 1 .. n /\ argv # <<>> /\ n + 1 # 1
      BY <2>2
    <3>2. cli.last_option = argv[n].o
      BY <3>1 DEF ParserInv, Previous
    <3> QED
      BY <1>1, <3>1, <3>2
  <2> QED
    BY <2>1, <2>2
<1>4. (n + 1) - 1 = n
  OBVIOUS
<1>5. \A o : (\E j \in 1 .. (n + 1) - 1 : argv'[j].o = o) <=> Has(o)
  BY <1>1, <1>4 DEF Has
<1>6. (cli.socket_name # NULL <=> Has("f")) /\ (cli.help_message <=> Has("h"))
  BY DEF ParserInv
<1>7. Wrong(n + 1)' <=>
        \/ x.o \in {"h", "f"} /\ Has(x.o)
        \/ x.o = "D" /\ cli.last_option \notin {"w", "W"}
        \/ x.o = "d" /\ cli.last_option \notin {"r", "R"}
        \/ x.o = "p" /\ x.a \notin {"info", "error", "warn", "debug", "trace"}
        \/ x.o \notin Actions \cup {"h", "f", "D", "d", "t", "p", "Z", "z"}
  BY <1>1, <1>3, <1>5 DEF Wrong
<1>8. Bad(cli, x.o, x.a) <=>
        \/ x.o \in {"h", "f"} /\ Has(x.o)
        \/ x.o = "D" /\ cli.last_option \notin {"w", "W"}
        \/ x.o = "d" /\ cli.last_option \notin {"r", "R"}
        \/ x.o = "p" /\ x.a \notin {"info", "error", "warn", "debug", "trace"}
        \/ x.o \notin Actions \cup {"h", "f", "D", "d", "t", "p", "Z", "z"}
  BY <1>6 DEF Bad, Known
<1> QED
  BY <1>2, <1>7, <1>8

\* The list of actions after an option that was accepted.
LEMMA HeadStep ==
  ASSUME ParserType, ParserInv, NEW x \in Options, argv' = Append(argv, x), cli.err = "OK",
         HeadOf(cli, x.o, x.a, cli'.head), ~Bad(cli, x.o, x.a)
  PROVE  /\ Len(cli'.head) = Cardinality(Places)'
         /\ \A i \in Places' : cli'.head[Rank(i)'].type = argv'[i].o /\ cli'.head[Rank(i)'].arg_s2 = DirOf(i)'
<1>0. PICK n \in Nat : n = Len(argv)
  BY DEF ParserType
<1>1. /\ DOMAIN argv = 1 .. n /\ DOMAIN argv' = 1 .. n + 1 /\ Len(argv') = n + 1
      /\ argv'[n + 1] = x /\ \A i \in 1 .. n : argv'[i] = argv[i]
      /\ Places' = IF x.o \in Actions THEN Places \cup {n + 1} ELSE Places
      /\ \A i \in Places : Rank(i)' = Rank(i)
      /\ Cardinality(Places)' = IF x.o \in Actions THEN Cardinality(Places) + 1 ELSE Cardinality(Places)
      /\ x.o \in Actions => Rank(n + 1)' = Cardinality(Places)'
  BY <1>0, OneMore DEF ParserType
<1>2. PICK m \in Nat : m = Cardinality(Places)
  BY RankBounds DEF ParserType
<1>3. /\ \A i \in Places : i \in 1 .. n /\ Rank(i) \in 1 .. m
      /\ \A i \in Places : Rank(i) = m => \A j \in Places : j <= i
  BY <1>1, <1>2, RankBounds DEF ParserType, Places
<1>4. cli.head \in Seq(ActionSet) /\ Len(cli.head) = m /\ DOMAIN cli.head = 1 .. m
  BY <1>2 DEF ParserType, CliType, ParserInv, ParsedAsWritten
<1>5. \A i \in Places : cli.head[Rank(i)].type = argv[i].o /\ cli.head[Rank(i)].arg_s2 = DirOf(i)
  BY DEF ParserInv, ParsedAsWritten
<1>6. /\ \A i \in 1 .. n : i # n => DirOf(i)' = DirOf(i)
      /\ \A i \in 1 .. n : i = n => DirOf(i) = NULL /\ DirOf(i)' = IF x.o \in {"D", "d"} THEN x.a ELSE NULL
      /\ DirOf(n + 1)' = NULL
  <2>1. ASSUME NEW i \in 1 .. n, i # n PROVE DirOf(i)' = DirOf(i)
    <3>1. i + 1 \in 1 .. n /\ i < n /\ i < n + 1
      BY <2>1
    <3> QED
      BY <1>0, <1>1, <3>1 DEF DirOf
  <2>2. ASSUME NEW i \in 1 .. n, i = n
        PROVE  DirOf(i) = NULL /\ DirOf(i)' = IF x.o \in {"D", "d"} THEN x.a ELSE NULL
    BY <1>0, <1>1, <2>2 DEF DirOf
  <2>3. DirOf(n + 1)' = NULL
    <3>1. ~(n + 1 < n + 1)
      OBVIOUS
    <3> QED
      BY <1>1, <3>1 DEF DirOf
  <2> QED
    BY <2>1, <2>2, <2>3
<1>7. CASE x.o \in Actions
  <2>1. PICK y \in ActionSet : cli'.head = Append(cli.head, y) /\ y.type = x.o /\ y.arg_s2 = NULL
    BY <1>7 DEF HeadOf, Actions, Lists
  <2>2. Len(cli'.head) = m + 1 /\ cli'.head[m + 1] = y /\ \A k \in 1 .. m : cli'.head[k] = cli.head[k]
    BY <1>4, <2>1
  <2>3. x.o \notin {"D", "d"}
    BY <1>7 DEF Actions, Lists
  <2>4. ASSUME NEW i \in Places
        PROVE  cli'.head[Rank(i)'].type = argv'[i].o /\ cli'.head[Rank(i)'].arg_s2 = DirOf(i)'
    <3>1. Rank(i)' = Rank(i) /\ Rank(i) \in 1 .. m /\ i \in 1 .. n /\ argv'[i] = argv[i]
      BY <1>1, <1>3
    <3>2. DirOf(i)' = DirOf(i)
      BY <1>6, <2>3, <3>1
    <3> QED
      BY <1>5, <2>2, <3>1, <3>2
  <2>5. cli'.head[Rank(n + 1)'].type = argv'[n + 1].o /\ cli'.head[Rank(n + 1)'].arg_s2 = DirOf(n + 1)'
    BY <1>1, <1>2, <1>6, <1>7, <2>1, <2>2
  <2>6. \A i \in Places' : i \in Places \/ i = n + 1
    BY <1>1, <1>7
  <2> QED
    BY <1>1, <1>2, <1>7, <2>2, <2>4, <2>5, <2>6
<1>8. CASE x.o \in {"D", "d"}
  <2>1. x.o \notin Actions /\ cli'.head = [cli.head EXCEPT ![m].arg_s2 = x.a]
    BY <1>4, <1>8 DEF HeadOf, Actions, Lists
  <2>2. cli.last_option \in Actions /\ cli.last_option # NULL
    BY <1>8, OptionsAssumption DEF Bad, Actions, Lists
  <2>3. n # 0 /\ argv[n].o \in Actions
    BY <1>0, <2>2 DEF ParserInv, Previous, ParserType
  <2>4. n \in Places
    BY <1>1, <2>3 DEF Places
  <2>5. Rank(n) = m
    <3>1. {j \in Places : j <= n} = Places
      BY <1>3
    <3> QED
      BY <1>2, <3>1 DEF Rank
  <2>6. m \in 1 .. m /\ cli.head[m] \in ActionSet
    BY <1>3, <1>4, <2>4, <2>5
  <2>7. /\ Len(cli'.head) = m /\ cli'.head[m] = [cli.head[m] EXCEPT !.arg_s2 = x.a]
        /\ \A k \in 1 .. m : k # m => cli'.head[k] = cli.head[k]
    <3>1. DOMAIN cli'.head = 1 .. m
      BY <1>4, <2>1
    <3>2. cli'.head \in Seq(ActionSet)
      <4>1. [cli.head[m] EXCEPT !.arg_s2 = x.a] \in ActionSet
        BY <2>6 DEF ActionSet, Value
      <4> QED
        BY <1>4, <2>1, <2>6, <4>1
    <3> QED
      BY <1>4, <2>1, <2>6, <3>1, <3>2
  <2>8. cli'.head[m].type = cli.head[m].type /\ cli'.head[m].arg_s2 = x.a
    BY <2>6, <2>7 DEF ActionSet
  <2>9. ASSUME NEW i \in Places
        PROVE  cli'.head[Rank(i)'].type = argv'[i].o /\ cli'.head[Rank(i)'].arg_s2 = DirOf(i)'
    <3>1. Rank(i)' = Rank(i) /\ Rank(i) \in 1 .. m /\ i \in 1 .. n /\ argv'[i] = argv[i]
      BY <1>1, <1>3
    <3>2. CASE i = n
      BY <1>5, <1>6, <1>8, <2>5, <2>8, <3>1, <3>2
    <3>3. CASE i # n
      <4>1. Rank(i) # m
        <5>1. ~(n <= i)
          BY <3>1, <3>3
        <5> QED
          BY <1>3, <2>4, <5>1
      <4>2. DirOf(i)' = DirOf(i)
        BY <1>6, <3>1, <3>3
      <4> QED
        BY <1>5, <2>7, <3>1, <4>1, <4>2
    <3> QED
      BY <3>2, <3>3
  <2> QED
    BY <1>1, <1>2, <2>1, <2>7, <2>9
<1>9. CASE x.o \notin Actions \cup {"D", "d"}
  <2>1. cli'.head = cli.head
    BY <1>9 DEF HeadOf
  <2>2. ASSUME NEW i \in Places
        PROVE  cli'.head[Rank(i)'].type = argv'[i].o /\ cli'.head[Rank(i)'].arg_s2 = DirOf(i)'
    <3>1. Rank(i)' = Rank(i) /\ i \in 1 .. n /\ argv'[i] = argv[i]
      BY <1>1, <1>3
    <3>2. DirOf(i)' = DirOf(i)
      BY <1>6, <1>9, <3>1
    <3> QED
      BY <1>5, <2>1, <3>1, <3>2
  <2> QED
    BY <1>1, <1>2, <1>4, <1>9, <2>1, <2>2
<1> QED
  BY <1>7, <1>8, <1>9

\* The option that ParseOption reads goes through the round as the lemma on it says.
LEMMA ParseRound ==
  ASSUME ParserType, ParserInv, ParseOption, NEW x \in Options, argv' = Append(argv, x),
         cli' = Parse(cli, x.o, x.a)
  PROVE  Round(cli, x.o, x.a, cli') /\ cli'.last_option = x.o
<1>1. cli.err = "OK" /\ argv \in Seq(Options) /\ cli \in CliType
  BY DEF ParseOption, ParserType
<1>2. PICK n \in Nat : n = Len(argv)
  BY <1>1
<1>3. /\ argv' \in Seq(Options) /\ DOMAIN argv = 1 .. n /\ DOMAIN argv' = 1 .. n + 1
      /\ argv'[n + 1] = x /\ \A i \in 1 .. n : argv'[i] = argv[i]
  BY <1>1, <1>2, OneMore
<1>4. x.o \in {"D", "d"} /\ ~Bad(cli, x.o, x.a) => cli.head # <<>>
  <2> SUFFICES ASSUME cli.last_option \in Actions, cli.last_option # NULL PROVE cli.head # <<>>
    BY OptionsAssumption DEF Bad, Actions, Lists
  <2>1. n # 0 /\ argv[n].o \in Actions
    BY <1>1, <1>2 DEF ParserInv, Previous
  <2>2. n \in Places
    BY <1>3, <2>1 DEF Places
  <2>3. Cardinality(Places) # 0
    BY <1>1, <2>2, RankBounds, FS_EmptySet
  <2>4. Len(cli.head) = Cardinality(Places)
    BY <1>1 DEF ParserInv, ParsedAsWritten
  <2> QED
    BY <2>3, <2>4
<1> QED
  BY <1>1, <1>4, ParseRule

LEMMA ParseStep ==
  ASSUME ParserType, ParserInv, ParseOption PROVE ParserType' /\ ParserInv'
<1>1. PICK x \in Options : argv' = Append(argv, x) /\ cli' = Parse(cli, x.o, x.a)
  BY DEF ParseOption
<1>2. cli.err = "OK" /\ argv \in Seq(Options) /\ cli \in CliType
  BY DEF ParseOption, ParserType
<1>0. PICK n \in Nat : n = Len(argv)
  BY <1>2
<1>3. /\ argv' \in Seq(Options) /\ DOMAIN argv = 1 .. n /\ DOMAIN argv' = 1 .. n + 1
      /\ argv'[n + 1] = x /\ \A i \in 1 .. n : argv'[i] = argv[i]
  BY <1>0, <1>1, <1>2, OneMore
<1>4. Len(argv') = n + 1 /\ argv' # <<>> /\ \A i \in 1 .. n + 1 : i \in 1 .. n \/ i = n + 1
  BY <1>3
<1>6. Round(cli, x.o, x.a, cli') /\ cli'.last_option = x.o
  BY <1>1, ParseRound
<1>7. ParserType'
  BY <1>3, <1>6 DEF ParserType, Round
<1>8. cli'.last_option = Previous'
  BY <1>3, <1>4, <1>6 DEF Previous
<1>9. \A o : Has(o)' <=> Has(o) \/ x.o = o
  BY <1>3, <1>4 DEF Has
<1>10. cli'.socket_name # NULL <=> Has("f")'
  <2>1. x.o = "f" => x.a # NULL
    BY OptionsAssumption
  <2>2. cli.socket_name # NULL <=> Has("f")
    BY DEF ParserInv
  <2>3. cli'.socket_name = IF x.o = "f" /\ cli.socket_name = NULL THEN x.a ELSE cli.socket_name
    BY <1>6 DEF Round
  <2> QED
    BY <1>9, <2>1, <2>2, <2>3
<1>11. cli'.help_message <=> Has("h")'
  BY <1>6, <1>9 DEF Round, ParserInv
<1>12. cli'.err = "OK" <=> ~Bad(cli, x.o, x.a)
  BY <1>2, <1>6 DEF Round
<1>13. (cli'.err # "OK") <=> \E i \in DOMAIN argv' : Wrong(i)'
  <2>1. \A i \in 1 .. n : ~Wrong(i)
    BY <1>2, <1>3 DEF ParserInv, ParsedAsWritten
  <2>2. (Wrong(n + 1)' <=> Bad(cli, x.o, x.a)) /\ \A i \in 1 .. n : Wrong(i)' <=> Wrong(i)
    BY <1>0, <1>1, WrongIsBad
  <2>3. n + 1 \in 1 .. n + 1
    OBVIOUS
  <2> QED
    BY <1>3, <1>4, <1>12, <2>1, <2>2, <2>3
<1>14. ASSUME cli'.err = "OK"
       PROVE  /\ Len(cli'.head) = Cardinality(Places)'
              /\ \A i \in Places' : cli'.head[Rank(i)'].type = argv'[i].o /\ cli'.head[Rank(i)'].arg_s2 = DirOf(i)'
  BY <1>1, <1>2, <1>6, <1>12, <1>14, HeadStep DEF Round
<1>15. ParsedAsWritten'
  BY <1>13, <1>14 DEF ParsedAsWritten
<1> QED
  BY <1>7, <1>8, <1>10, <1>11, <1>15 DEF ParserInv

LEMMA ParserInit == Init => ParserType /\ ParserInv
<1> SUFFICES ASSUME Init PROVE ParserType /\ ParserInv
  OBVIOUS
<1>1. argv = <<>> /\ DOMAIN argv = {} /\ argv \in Seq(Options) /\ cli = CliArgs
  BY DEF Init
<1>2. /\ cli.err = "OK" /\ cli.socket_name = NULL /\ cli.help_message = FALSE
      /\ cli.head = <<>> /\ cli.last_option = NULL
  BY <1>1 DEF CliArgs
<1>3. cli \in CliType
  <2>1. <<>> \in Seq(ActionSet)
    OBVIOUS
  <2> QED
    BY <1>1, <2>1 DEF CliArgs, CliType, Err, Value, Letter
<1>4. Places = {} /\ ~Has("f") /\ ~Has("h")
  BY <1>1 DEF Places, Has
<1>5. Cardinality(Places) = 0
  BY <1>4, FS_EmptySet
<1>6. ParsedAsWritten
  <2>1. Len(cli.head) = 0
    BY <1>2
  <2> QED
    BY <1>1, <1>2, <1>4, <1>5, <2>1 DEF ParsedAsWritten
<1> QED
  BY <1>1, <1>2, <1>3, <1>4, <1>6 DEF ParserType, ParserInv, Previous

LEMMA ParserUnchanged == ASSUME UNCHANGED parsing, ParserType, ParserInv PROVE ParserType' /\ ParserInv'
<1>1. argv' = argv /\ cli' = cli
  BY DEF parsing
<1>2. ParserType'
  BY <1>1 DEF ParserType
<1>3. Places' = Places
  BY <1>1 DEF Places
<1>4. \A i : (Wrong(i)' <=> Wrong(i)) /\ DirOf(i)' = DirOf(i) /\ Rank(i)' = Rank(i)
  BY <1>1, <1>3 DEF Wrong, DirOf, Rank
<1>5. ParsedAsWritten'
  BY <1>1, <1>3, <1>4 DEF ParsedAsWritten, ParserInv
<1> QED
  BY <1>1, <1>2, <1>5 DEF ParserInv, Previous, Has

\* Nothing but the loop of cli_args_parse writes to the actions.
LEMMA OnlyParsing == ASSUME [Next]_vars PROVE ParseOption \/ UNCHANGED parsing
  BY DEF Next, Step, Begin, Connect, NextAction, ActionDone, Finish, ListEnd, NoSuchFile,
         WriteListed, ReadListed, EachListed, DirEnd, DirOther, DirSubdir, DirFile, ReadRandom,
         Interfere, NoAnswer, vars

\* The actions that run are those of the command line, in order and with the directories that
\* belong to them; a command line with a wrong option runs none (cli.c).
THEOREM CommandLineIsFollowed == Spec => []ParsedAsWritten
<1>1. ParserType /\ ParserInv /\ [Next]_vars => ParserType' /\ ParserInv'
  BY ParseStep, ParserUnchanged, OnlyParsing
<1>2. ParserInv => ParsedAsWritten
  BY DEF ParserInv
<1> QED
  BY <1>1, <1>2, ParserInit, PTL DEF Spec

-----------------------------------------------------------------------------
(* The limit of -w. *)

\* An action runs only while it stands at the head of the list.
RunType ==
  /\ todo \in Seq(ActionSet)
  /\ pc \in {"list", "dir", "random", "done"} => todo # <<>>

LEMMA CurrentType == ASSUME RunType, todo # <<>> PROVE Current \in ActionSet /\ Current.arg_i \in Int
<1>1. Current \in ActionSet
  BY DEF RunType, Current
<1> QED
  BY <1>1 DEF ActionSet

LEMMA HeadLeft ==
  ASSUME RunType, todo' = todo, pc' \in {"list", "dir", "random", "done"} => todo # <<>>
  PROVE  RunType'
  BY DEF RunType

\* The steps that neither begin an action nor send a file of a directory.
LEMMA NotTheDirectory ==
  ASSUME RunType, [Next]_vars, ParserType, ~NextAction, ~DirFile
  PROVE  RunType' /\ (pc' # "dir" \/ (pc = "dir" /\ todo' = todo /\ limit' = limit /\ sent' = sent))
<1>1. CASE Connect
  BY <1>1 DEF Connect, RunType, ParserType, CliType
<1>2. CASE ActionDone
  <2>1. pc = "done" /\ todo \in Seq(ActionSet) /\ todo # <<>>
    BY <1>2 DEF ActionDone, RunType
  <2>2. Tail(todo) \in Seq(ActionSet) /\ <<>> \in Seq(ActionSet)
    BY <2>1
  <2>3. todo' \in Seq(ActionSet)
    BY <1>2, <2>2 DEF ActionDone
  <2>4. pc' \in {"next", "stuck"}
    BY <1>2 DEF ActionDone, Waits
  <2> QED
    BY <2>3, <2>4 DEF RunType
<1>3. CASE ParseOption \/ Begin \/ Finish
  BY <1>3, HeadLeft DEF ParseOption, Begin, Finish
<1>4. CASE ListEnd \/ NoSuchFile
  BY <1>4, HeadLeft DEF ListEnd, NoSuchFile, InList, RunType
<1>5. CASE WriteListed \/ ReadListed \/ EachListed
  <2>1. pc = "list" /\ todo' = todo /\ pc' \in {"killed", "crash", "done", "list", "stray"}
    BY <1>5 DEF WriteListed, ReadListed, EachListed, InList, After
  <2> QED
    BY <2>1, HeadLeft DEF RunType
<1>6. CASE DirEnd \/ DirOther \/ DirSubdir
  <2>1. pc = "dir" /\ todo' = todo /\ limit' = limit /\ sent' = sent
    BY <1>6 DEF DirEnd, DirOther, DirSubdir
  <2> QED
    BY <2>1, HeadLeft DEF RunType
<1>7. CASE ReadRandom
  <2>1. pc = "random" /\ todo' = todo /\ pc' \in {"crash", "killed", "done"}
    BY <1>7 DEF ReadRandom, local
  <2> QED
    BY <2>1, HeadLeft DEF RunType
<1>8. CASE Interfere \/ NoAnswer \/ UNCHANGED vars
  <2>1. pc' \in {pc, "stray", "waits"} /\ todo' = todo /\ limit' = limit /\ sent' = sent
    BY <1>8 DEF Interfere, NoAnswer, vars, local
  <2> QED
    BY <2>1, HeadLeft DEF RunType
<1> QED
  BY <1>1, <1>2, <1>3, <1>4, <1>5, <1>6, <1>7, <1>8 DEF Next, Step

LEMMA RunTypeStep == ASSUME RunType, ParserType, [Next]_vars PROVE RunType'
<1>1. CASE NextAction \/ DirFile
  <2>1. todo' = todo /\ todo # <<>>
    BY <1>1 DEF NextAction, DirFile, RunType
  <2> QED
    BY <2>1, HeadLeft
<1> QED
  BY <1>1, NotTheDirectory

LEMMA LimitStep == ASSUME RunType, LimitInv, ParserType, [Next]_vars PROVE RunType' /\ LimitInv'
<1>1. CASE NextAction
  <2>1. todo # <<>> /\ todo' = todo /\ sent' = 0
    BY <1>1 DEF NextAction
  <2>2. Current \in ActionSet /\ Current.arg_i \in Int /\ Current.type \in Actions /\ Current' = Current
    BY <2>1, CurrentType DEF ActionSet, Current
  <2>3. pc' = "dir" => Current.type = "w"
    BY <1>1, <2>2 DEF NextAction, Current, Actions, Lists
  <2>4. pc' = "dir" => limit' = IF Current.arg_i > 0 THEN Current.arg_i ELSE NULL
    BY <1>1, <2>3 DEF NextAction, Current
  <2>5. RunType'
    BY <2>1, HeadLeft
  <2>6. LimitInv'
    <3> SUFFICES ASSUME pc' = "dir"
                 PROVE  IF Current.arg_i > 0 THEN limit' \in Nat /\ limit' + 0 = Current.arg_i ELSE limit' = NULL
      BY <2>1, <2>2 DEF LimitInv
    <3> QED
      BY <2>2, <2>4
  <2> QED
    BY <2>5, <2>6
<1>2. CASE DirFile
  <2>1. pc = "dir" /\ ~DirEnds /\ todo' = todo /\ todo # <<>>
    BY <1>2 DEF DirFile, RunType
  <2>2. RunType'
    BY <2>1, HeadLeft
  <2>3. Current.arg_i \in Int /\ Current' = Current /\ sent \in Nat
    BY <2>1, CurrentType DEF Current, LimitInv
  <2>4. \/ limit' = limit /\ sent' = sent
        \/ limit' = (IF limit = NULL THEN NULL ELSE limit - 1) /\ sent' = sent + 1
    BY <1>2 DEF DirFile, DirReturn
  <2>5. CASE Current.arg_i > 0
    <3>1. limit \in Nat /\ limit + sent = Current.arg_i /\ limit # NULL /\ limit # 0
      BY <2>1, <2>5, OptionsAssumption DEF LimitInv, DirEnds
    <3>2. limit' \in Nat /\ sent' \in Nat /\ limit' + sent' = Current.arg_i
      BY <2>3, <2>4, <3>1
    <3> QED
      BY <2>1, <2>2, <2>3, <2>5, <3>2 DEF LimitInv
  <2>6. CASE ~(Current.arg_i > 0)
    <3>1. limit = NULL
      BY <2>1, <2>6 DEF LimitInv
    <3>2. limit' = NULL /\ sent' \in Nat
      BY <2>3, <2>4, <3>1
    <3> QED
      BY <2>1, <2>2, <2>3, <2>6, <3>2 DEF LimitInv
  <2> QED
    BY <2>5, <2>6
<1>3. CASE ~NextAction /\ ~DirFile
  <2>1. RunType' /\ (pc' # "dir" \/ (pc = "dir" /\ todo' = todo /\ limit' = limit /\ sent' = sent))
    BY <1>3, NotTheDirectory
  <2>2. LimitInv'
    BY <2>1 DEF LimitInv, Current
  <2> QED
    BY <2>1, <2>2
<1> QED
  BY <1>1, <1>2, <1>3

\* A limit that the parser has set bounds all that a -w sends, however deep write_dir calls
\* itself (run_action.c): the activations share one counter.
THEOREM LimitIsObeyed == Spec => []LimitShared
<1>1. Init => ParserType /\ ParserInv /\ RunType /\ LimitInv
  <2>1. Init => RunType /\ LimitInv
    BY DEF Init, RunType, LimitInv
  <2> QED
    BY <2>1, ParserInit
<1>2. ParserType /\ ParserInv /\ RunType /\ LimitInv /\ [Next]_vars
        => ParserType' /\ ParserInv' /\ RunType' /\ LimitInv'
  BY ParseStep, ParserUnchanged, OnlyParsing, LimitStep
<1>3. RunType /\ LimitInv => LimitShared
  <2> SUFFICES ASSUME RunType, LimitInv, pc = "dir", Current.arg_i > 0 PROVE sent <= Current.arg_i
    BY DEF LimitShared
  <2>1. Current.arg_i \in Int
    BY CurrentType DEF LimitInv
  <2> QED
    BY <2>1 DEF LimitInv
<1> QED
  BY <1>1, <1>2, <1>3, PTL DEF Spec

-----------------------------------------------------------------------------
(* The files of -W. *)

\* The calls of the client program that leave its files where they are.
Calls == {"OPEN_FILE_CREATE_LOCK", "WRITE_FILE", "CLOSE_FILE", "READ_FILE", "LOCK_FILE"}

\* A request that the files of this client survive.
Spares(r) ==
  /\ r.key \in Key /\ r.fd \in Fd /\ r.arg \in Nat
  /\ IF r.fd = Me THEN r.op \in Calls ELSE r.op \in Harmless

\* What r makes of the file x: y, with the result e.
Spared(x, r, y, e) ==
  /\ Locked(x) =>
       /\ Locked(y) /\ (y.is_open => x.is_open)
       /\ y.length_in_bytes = x.length_in_bytes \/ (r.op = "WRITE_FILE" /\ y.length_in_bytes = r.arg)
       /\ r.op = "WRITE_FILE" => e \in {"OK", "exit"}
  /\ r.op = "WRITE_FILE" /\ e = "OK" => y # NULL /\ y.length_in_bytes = r.arg
  /\ r.op = "OPEN_FILE_CREATE_LOCK" /\ r.fd = Me /\ e = "OK" => Locked(y)
  /\ r.op = "CLOSE_FILE" /\ e = "OK" => y # NULL /\ ~y.is_open

Performed(f, r, o) ==
  /\ o.files \in Files
  /\ \A k \in Key \ {r.key} : o.files[k] = f[k]
  /\ Spared(f[r.key], r, o.files[r.key], o.err)

LEMMA RefusedSpares ==
  ASSUME NEW f \in Files, NEW r, NEW e, Spared(f[r.key], r, f[r.key], e)
  PROVE  Performed(f, r, Refused(f, e))
BY DEF Performed, Refused

LEMMA OutcomeSpares ==
  ASSUME NEW f \in Files, NEW r, r.key \in Key, NEW e, NEW y \in File \cup {NULL},
         Spared(f[r.key], r, y, e)
  PROVE  Performed(f, r, Outcome(f, r.key, y, e))
<1> DEFINE g == [f EXCEPT ![r.key] = y]
<1>1. Outcome(f, r.key, y, e).files = g /\ Outcome(f, r.key, y, e).err = e
  BY DEF Outcome
<1>2. g \in Files /\ g[r.key] = y /\ \A k \in Key \ {r.key} : g[k] = f[k]
  BY DEF Files
<1> HIDE DEF g
<1> QED
  BY <1>1, <1>2 DEF Performed

LEMMA DoSpares ==
  ASSUME NEW f \in Files, NEW r, Spares(r) PROVE Performed(f, r, Do(f, r))
<1> DEFINE k == r.key x == f[r.key] fd == r.fd
<1>1. /\ k \in Key /\ fd \in Fd /\ r.arg \in Nat /\ x \in File \cup {NULL}
      /\ r.op \in Harmless \cup {"WRITE_FILE"}
      /\ r.op = "WRITE_FILE" => fd = Me
      /\ fd = Me => r.op \in Calls
  BY DEF Spares, Files, Harmless, Calls
<1>2. x # NULL => x \in File
  BY <1>1
<1>3. ASSUME NEW e, Locked(x) => r.op # "WRITE_FILE" \/ e \in {"OK", "exit"},
             r.op \in {"WRITE_FILE", "CLOSE_FILE"} => e # "OK",
             r.op = "OPEN_FILE_CREATE_LOCK" => e # "OK"
      PROVE  Performed(f, r, Refused(f, e))
  BY <1>3, RefusedSpares DEF Spared
<1>4. Locked(x) /\ fd # Me => HeldByAnother(x, fd)
  BY DEF Locked, HeldByAnother
<1>5. CASE r.op \in {"OPEN_FILE_CREATE", "OPEN_FILE_CREATE_LOCK"}
  <2> DEFINE lock == r.op = "OPEN_FILE_CREATE_LOCK"
             y == [length_in_bytes |-> 0, contents |-> FALSE, fd_owner |-> fd,
                   is_open |-> TRUE, is_locked |-> lock, subs |-> <<>>]
  <2>1. Do(f, r) = Create(f, k, fd, lock)
    BY <1>5 DEF Do
  <2>2. CASE x # NULL
    <3>1. Do(f, r) = Refused(f, "ALREADY_CREATED")
      BY <2>1, <2>2 DEF Create
    <3> QED
      BY <1>3, <1>5, <3>1
  <2>3. CASE x = NULL
    <3>1. Do(f, r) = Outcome(f, k, y, "OK")
      BY <2>1, <2>3 DEF Create
    <3>2. y \in File /\ y.is_locked = lock /\ y.fd_owner = fd
      BY <1>1 DEF File
    <3>3. y # NULL /\ y \in File \cup {NULL}
      BY <3>2, PathsAssumption
    <3> HIDE DEF y
    <3>4. Spared(x, r, y, "OK")
      BY <1>5, <2>3, <3>2, <3>3 DEF Spared, Locked
    <3> QED
      BY <1>1, <3>1, <3>3, <3>4, OutcomeSpares
  <2> QED
    BY <2>2, <2>3
<1>6. CASE r.op = "READ_N_FILES"
  <2>1. Do(f, r) = Refused(f, "OK")
    BY <1>6 DEF Do
  <2> QED
    BY <1>3, <1>6, <2>1
<1>7. CASE r.op \notin {"OPEN_FILE_CREATE", "OPEN_FILE_CREATE_LOCK", "READ_N_FILES"} /\ x = NULL
  <2>1. Do(f, r) = Refused(f, "FILE_NOT_FOUND")
    BY <1>7 DEF Do
  <2> QED
    BY <1>3, <1>7, <2>1 DEF Locked
<1>8. CASE r.op \in {"OPEN_FILE", "OPEN_FILE_LOCK"} /\ x # NULL
  <2> DEFINE lock == r.op = "OPEN_FILE_LOCK"
             y == [x EXCEPT !.is_open = TRUE, !.is_locked = lock, !.fd_owner = fd]
  <2>1. Do(f, r) = Open(f, k, fd, lock)
    BY <1>8 DEF Do
  <2>2. CASE x.is_open \/ HeldByAnother(x, fd)
    <3>1. Do(f, r) = Refused(f, IF x.is_open THEN "ALREADY_OPEN" ELSE "CANT_OPEN")
      BY <2>1, <2>2 DEF Open
    <3> QED
      BY <1>3, <1>8, <3>1
  <2>3. CASE ~x.is_open /\ ~HeldByAnother(x, fd)
    <3>1. Do(f, r) = Outcome(f, k, y, "OK")
      BY <2>1, <2>3 DEF Open
    <3>2. y \in File
      BY <1>1, <1>2, <1>8 DEF File
    <3>3. y \in File \cup {NULL}
      BY <3>2
    <3>5. ~Locked(x)
      BY <1>1, <1>4, <1>8, <2>3 DEF Calls
    <3> HIDE DEF y
    <3>4. Spared(x, r, y, "OK")
      BY <1>8, <3>5 DEF Spared
    <3> QED
      BY <1>1, <3>1, <3>3, <3>4, OutcomeSpares
  <2> QED
    BY <2>2, <2>3
<1>9. CASE r.op = "READ_FILE" /\ x # NULL
  <2>1. Do(f, r) = Refused(f, "OK")
    BY <1>9 DEF Do
  <2> QED
    BY <1>3, <1>9, <2>1
<1>10. CASE r.op = "WRITE_FILE" /\ x # NULL
  <2> DEFINE y == [x EXCEPT !.length_in_bytes = r.arg, !.contents = TRUE]
  <2>1. Do(f, r) = Write(f, k, r.arg)
    BY <1>10 DEF Do
  <2>2. CASE r.arg = 0 /\ x.contents
    <3>1. Do(f, r) = Refused(f, "exit")
      BY <2>1, <2>2 DEF Write
    <3> QED
      BY <1>3, <1>10, <3>1
  <2>3. CASE ~(r.arg = 0 /\ x.contents)
    <3>1. Do(f, r) = Outcome(f, k, y, "OK")
      BY <2>1, <2>3 DEF Write
    <3>2. /\ y \in File /\ y.length_in_bytes = r.arg /\ y.is_locked = x.is_locked
          /\ y.fd_owner = x.fd_owner /\ y.is_open = x.is_open
      BY <1>1, <1>2, <1>10 DEF File
    <3>3. y # NULL /\ y \in File \cup {NULL}
      BY <3>2, PathsAssumption
    <3> HIDE DEF y
    <3>4. Spared(x, r, y, "OK")
      BY <1>10, <3>2, <3>3 DEF Spared, Locked
    <3> QED
      BY <1>1, <3>1, <3>3, <3>4, OutcomeSpares
  <2> QED
    BY <2>2, <2>3
<1>11. CASE r.op = "LOCK_FILE" /\ x # NULL
  <2>1. Do(f, r) = Lock(f, k, fd)
    BY <1>11 DEF Do
  <2>2. CASE x.is_locked
    <3> DEFINE y == [x EXCEPT !.subs = <<fd>> \o @]
    <3>1. Do(f, r) = Outcome(f, k, y, "OK_WAIT")
      BY <2>1, <2>2 DEF Lock
    <3>2. /\ y \in File /\ y.length_in_bytes = x.length_in_bytes /\ y.is_locked = x.is_locked
          /\ y.fd_owner = x.fd_owner /\ y.is_open = x.is_open
      <4>1. <<fd>> \o x.subs \in Seq(Fd)
        BY <1>1, <1>2, <1>11 DEF File
      <4> QED
        BY <1>1, <1>2, <1>11, <4>1 DEF File
    <3>3. y # NULL /\ y \in File \cup {NULL}
      BY <3>2, PathsAssumption
    <3> HIDE DEF y
    <3>4. Spared(x, r, y, "OK_WAIT")
      BY <1>11, <3>2, <3>3 DEF Spared, Locked
    <3> QED
      BY <1>1, <3>1, <3>3, <3>4, OutcomeSpares
  <2>3. CASE ~x.is_locked /\ x.subs # <<>>
    <3>1. Do(f, r) = Refused(f, "exit")
      BY <2>1, <2>3 DEF Lock
    <3> QED
      BY <1>3, <1>11, <3>1
  <2>4. CASE ~x.is_locked /\ x.subs = <<>>
    <3> DEFINE y == [x EXCEPT !.is_locked = TRUE, !.fd_owner = fd]
    <3>1. Do(f, r) = Outcome(f, k, y, "OK")
      BY <2>1, <2>4 DEF Lock
    <3>3. y \in File \cup {NULL}
      BY <1>1, <1>2, <1>11 DEF File
    <3> HIDE DEF y
    <3>4. Spared(x, r, y, "OK")
      BY <1>11, <2>4 DEF Spared, Locked
    <3> QED
      BY <1>1, <3>1, <3>3, <3>4, OutcomeSpares
  <2> QED
    BY <2>2, <2>3, <2>4
<1>12. CASE r.op = "UNLOCK_FILE" /\ x # NULL
  <2>1. Do(f, r) = Unlock(f, k, fd)
    BY <1>12 DEF Do
  <2>2. CASE ~x.is_locked \/ HeldByAnother(x, fd)
    <3>1. Do(f, r) = Refused(f, IF x.is_locked THEN "OK_WAIT" ELSE "ALREADY_UNLOCKED")
      BY <2>1, <2>2 DEF Unlock
    <3> QED
      BY <1>3, <1>12, <3>1
  <2>3. CASE x.is_locked /\ ~HeldByAnother(x, fd)
    <3> DEFINE y == IF x.subs = <<>> THEN [x EXCEPT !.is_locked = FALSE]
                    ELSE [x EXCEPT !.fd_owner = Heir(x), !.subs = Tail(@)]
    <3>1. Do(f, r) = Outcome(f, k, y, "OK")
      BY <2>1, <2>3 DEF Unlock
    <3>2. ~Locked(x)
      BY <1>1, <1>4, <1>12, <2>3 DEF Calls
    <3>3. y \in File \cup {NULL}
      <4>1. x.subs # <<>> => Heir(x) \in Fd /\ Tail(x.subs) \in Seq(Fd)
        BY <1>2, <1>12 DEF File, Heir
      <4> QED
        BY <1>2, <1>12, <4>1 DEF File
    <3> HIDE DEF y
    <3>4. Spared(x, r, y, "OK")
      BY <1>12, <3>2 DEF Spared
    <3> QED
      BY <1>1, <3>1, <3>3, <3>4, OutcomeSpares
  <2> QED
    BY <2>2, <2>3
<1>13. CASE r.op = "CLOSE_FILE" /\ x # NULL
  <2>1. Do(f, r) = Close(f, k, fd)
    BY <1>13 DEF Do
  <2>2. CASE ~x.is_open \/ HeldByAnother(x, fd)
    <3>1. Do(f, r) = Refused(f, IF x.is_open THEN "CANT_CLOSE" ELSE "ALREADY_CLOSED")
      BY <2>1, <2>2 DEF Close
    <3> QED
      BY <1>3, <1>13, <3>1
  <2>3. CASE x.is_open /\ ~HeldByAnother(x, fd)
    <3> DEFINE y == [x EXCEPT !.is_open = FALSE]
    <3>1. Do(f, r) = Outcome(f, k, y, "OK")
      BY <2>1, <2>3 DEF Close
    <3>2. /\ y \in File /\ y.length_in_bytes = x.length_in_bytes /\ y.is_locked = x.is_locked
          /\ y.fd_owner = x.fd_owner /\ y.is_open = FALSE
      BY <1>1, <1>2, <1>13 DEF File
    <3>3. y # NULL /\ y \in File \cup {NULL}
      BY <3>2, PathsAssumption
    <3> HIDE DEF y
    <3>4. Spared(x, r, y, "OK")
      BY <1>13, <3>2, <3>3 DEF Spared, Locked
    <3> QED
      BY <1>1, <3>1, <3>3, <3>4, OutcomeSpares
  <2> QED
    BY <2>2, <2>3
<1>14. CASE r.op = "REMOVE_FILE" /\ x # NULL
  <2>1. Do(f, r) = Remove(f, k, fd)
    BY <1>14 DEF Do
  <2>2. CASE HeldByAnother(x, fd)
    <3>1. Do(f, r) = Refused(f, "OK")
      BY <2>1, <2>2 DEF Remove
    <3> QED
      BY <1>3, <1>14, <3>1
  <2>3. CASE ~HeldByAnother(x, fd)
    <3>1. Do(f, r) = Outcome(f, k, NULL, "OK")
      BY <2>1, <2>3 DEF Remove
    <3>2. ~Locked(x)
      BY <1>1, <1>4, <1>14, <2>3 DEF Calls
    <3>3. NULL \in File \cup {NULL}
      OBVIOUS
    <3>4. Spared(x, r, NULL, "OK")
      BY <1>14, <3>2 DEF Spared
    <3> QED
      BY <1>1, <3>1, <3>3, <3>4, OutcomeSpares
  <2> QED
    BY <2>2, <2>3
<1> QED
  BY <1>1, <1>5, <1>6, <1>7, <1>8, <1>9, <1>10, <1>11, <1>12, <1>13, <1>14 DEF Harmless

LEMMA WithoutType ==
  ASSUME NEW f \in Files, NEW E
  PROVE  Without(f, E) \in Files /\ \A k \in Key \ E : Without(f, E)[k] = f[k]
BY DEF Without, Files

\* What an answer tells this client about the files.
Told(op, k, n, r) ==
  /\ r.files \in Files
  /\ r.up =>
       /\ up
       /\ r.evicted \subseteq Key /\ (op # "WRITE_FILE" => r.evicted = {})
       /\ \A j \in Key \ (r.evicted \cup {k}) : r.files[j] = files[j]
       /\ k \notin r.evicted =>
            \E e : /\ Spared(files[k], [op |-> op, key |-> k, fd |-> Me, arg |-> n], r.files[k], e)
                   /\ e # "exit"
                   /\ r.ret = 0 /\ op \notin {"LOCK_FILE", "WRITE_FILE"} => e = "OK"

LEMMA Answered ==
  ASSUME files \in Files, NEW op \in Calls, NEW k \in Key, NEW n \in Nat, NEW r \in Replies(op, k, n)
  PROVE  Told(op, k, n, r)
<1> DEFINE q == [op |-> op, key |-> k, fd |-> Me, arg |-> n]
           o == Do(files, q)
<1>1. Spares(q) /\ q.key = k
  BY PathsAssumption DEF Spares
<1>2. Performed(files, q, o)
  BY <1>1, DoSpares
<1>3. /\ o.files \in Files /\ \A j \in Key \ {k} : o.files[j] = files[j]
      /\ Spared(files[k], q, o.files[k], o.err)
  BY <1>1, <1>2 DEF Performed
<1> HIDE DEF o
<1>4. \/ \E v : r = Reply(files, FALSE, v, {})
      \/ /\ up /\ o.err = "OK" /\ Writes(op)
         /\ \E v, E : E \in Evictions(o.files) /\ r = Reply(Without(o.files, E), TRUE, v, E)
      \/ /\ up /\ o.err # "exit" /\ ~(Writes(op) /\ o.err = "OK")
         /\ r = Reply(o.files, TRUE, IF o.err = "OK" \/ op \in {"LOCK_FILE", "WRITE_FILE"} THEN 0 ELSE -1, {})
  <2>1. r \in {Reply(files, FALSE, v, {}) : v \in {0, -1}} \/ r \in
          CASE ~up \/ o.err = "exit" -> {}
            [] up /\ Writes(op) /\ o.err = "OK" ->
                 {Reply(Without(o.files, E), TRUE,
                        IF \A e \in E : o.files[e].length_in_bytes > 0 THEN 0 ELSE -1, E) :
                    E \in Evictions(o.files)}
            [] OTHER -> {Reply(o.files, TRUE,
                               IF o.err = "OK" \/ op \in {"LOCK_FILE", "WRITE_FILE"} THEN 0 ELSE -1,
                               {})}
    BY DEF Replies, o
  <2> QED
    BY <2>1, Zenon
<1>5. CASE \E v : r = Reply(files, FALSE, v, {})
  BY <1>5 DEF Reply, Told
<1>6. CASE /\ up /\ o.err = "OK" /\ Writes(op)
           /\ \E v, E : E \in Evictions(o.files) /\ r = Reply(Without(o.files, E), TRUE, v, E)
  <2>1. PICK E : E \in Evictions(o.files) /\ r.files = Without(o.files, E) /\ r.up = TRUE /\ r.evicted = E
    BY <1>6 DEF Reply
  <2>2. E \subseteq Key /\ op = "WRITE_FILE"
    BY <1>6, <2>1 DEF Evictions, Stored, Writes, Calls
  <2>3. r.files \in Files /\ \A j \in Key \ E : r.files[j] = o.files[j]
    BY <1>3, <2>1, WithoutType
  <2> QED
    BY <1>3, <1>6, <2>1, <2>2, <2>3 DEF Told
<1>7. CASE /\ up /\ o.err # "exit" /\ ~(Writes(op) /\ o.err = "OK")
           /\ r = Reply(o.files, TRUE, IF o.err = "OK" \/ op \in {"LOCK_FILE", "WRITE_FILE"} THEN 0 ELSE -1, {})
  <2>1. /\ r.files = o.files /\ r.up = TRUE /\ r.evicted = {}
        /\ r.ret = IF o.err = "OK" \/ op \in {"LOCK_FILE", "WRITE_FILE"} THEN 0 ELSE -1
    BY <1>7 DEF Reply
  <2>2. r.ret = 0 /\ op \notin {"LOCK_FILE", "WRITE_FILE"} => o.err = "OK"
    BY <2>1
  <2> QED
    BY <1>3, <1>7, <2>1, <2>2 DEF Told
<1> QED
  BY <1>4, <1>5, <1>6, <1>7

\* So a file that was locked for this client still is.
LEMMA StillLocked ==
  ASSUME files \in Files, NEW op \in Calls, NEW k \in Key, NEW n \in Nat, NEW r \in Replies(op, k, n),
         r.up, NEW j \in Key \ r.evicted, Locked(files[j])
  PROVE  /\ Locked(r.files[j]) /\ (r.files[j].is_open => files[j].is_open)
         /\ r.files[j].length_in_bytes = IF j = k /\ op = "WRITE_FILE" THEN n ELSE files[j].length_in_bytes
         /\ j = k /\ op = "CLOSE_FILE" /\ r.ret = 0 => ~r.files[j].is_open
<1> DEFINE q == [op |-> op, key |-> k, fd |-> Me, arg |-> n]
<1>1. Told(op, k, n, r)
  BY Answered
<1>2. CASE j # k
  <2>1. j \in Key \ (r.evicted \cup {k})
    BY <1>2
  <2>2. r.files[j] = files[j]
    BY <1>1, <2>1 DEF Told
  <2> QED
    BY <1>2, <2>2
<1>3. CASE j = k
  <2>1. PICK e : /\ Spared(files[k], q, r.files[k], e) /\ e # "exit"
                 /\ r.ret = 0 /\ op \notin {"LOCK_FILE", "WRITE_FILE"} => e = "OK"
    BY <1>1, <1>3 DEF Told
  <2> QED
    BY <1>3, <2>1 DEF Spared
<1> QED
  BY <1>2, <1>3

\* openFile has created the file and locked it.
LEMMA Created ==
  ASSUME files \in Files, NEW k \in Key, NEW n \in Nat, NEW r \in Replies("OPEN_FILE_CREATE_LOCK", k, n),
         r.up, r.ret = 0
  PROVE  Locked(r.files[k])
<1> DEFINE q == [op |-> "OPEN_FILE_CREATE_LOCK", key |-> k, fd |-> Me, arg |-> n]
<1>1. r.evicted = {} /\ "OPEN_FILE_CREATE_LOCK" \in Calls
  <2>1. "OPEN_FILE_CREATE_LOCK" \in Calls
    BY DEF Calls
  <2>2. Told("OPEN_FILE_CREATE_LOCK", k, n, r)
    BY <2>1, Answered
  <2> QED
    BY <2>1, <2>2 DEF Told
<1>2. \E e : Spared(files[k], q, r.files[k], e) /\ e = "OK"
  <2>1. Told("OPEN_FILE_CREATE_LOCK", k, n, r)
    BY <1>1, Answered
  <2> QED
    BY <1>1, <2>1 DEF Told
<1> QED
  BY <1>2 DEF Spared

\* The entry that write_dir looks at.
LEMMA EntryType ==
  ASSUME ShapeInv, pc = "dir", ~DirEnds
  PROVE  /\ Entry.type = "REG" => Entry.name \in Key /\ Length[Entry.name] \in Nat
         /\ Entry.type = "DIR" => Entry.name \in DOMAIN Tree
<1>1. stack # <<>> /\ stack \in Seq([dir: DOMAIN Tree, i: Nat \ {0}])
  BY DEF ShapeInv
<1>2. Top.dir \in DOMAIN Tree /\ Top.i \in Nat \ {0}
  <2> DEFINE S == [dir: DOMAIN Tree, i: Nat \ {0}]
  <2>1. Head(stack) \in S
    <3> HIDE DEF S
    <3>1. stack # <<>> /\ stack \in Seq(S)
      BY <1>1 DEF S
    <3> QED
      BY ONLY <3>1
  <2>2. \A x \in [dir: DOMAIN Tree, i: Nat \ {0}] : x.dir \in DOMAIN Tree /\ x.i \in Nat \ {0}
    OBVIOUS
  <2>3. Top = Head(stack)
    BY DEF Top
  <2> QED
    BY <2>1, <2>2, <2>3
<1>3. Tree[Top.dir] \in Seq(Range(Tree[Top.dir])) /\ Top.i <= Len(Tree[Top.dir])
  BY <1>2, PathsAssumption DEF DirEnds
<1>4. Entry \in Range(Tree[Top.dir])
  BY <1>2, <1>3 DEF Entry
<1> QED
  BY <1>2, <1>4, PathsAssumption, LengthAssumption

\* The file that a list names next.
LEMMA NameType ==
  ASSUME ShapeInv, RunType, pc = "list", names # <<>>
  PROVE  /\ IF Current.type \in {"W", "r"} THEN names \in Seq(DOMAIN Real) /\ Real[Head(names)] \in Key \cup {NULL}
            ELSE names \in Seq(Key) /\ Head(names) \in Key
         /\ Tail(names) \in Seq(IF Current.type \in {"W", "r"} THEN DOMAIN Real ELSE Key)
         /\ Real[Head(names)] # NULL /\ Current.type \in {"W", "r"} => Length[Real[Head(names)]] \in Nat
<1>1. names \in Seq(IF Current.type \in {"W", "r"} THEN DOMAIN Real ELSE Key)
  BY DEF ShapeInv
<1>2. Head(names) \in (IF Current.type \in {"W", "r"} THEN DOMAIN Real ELSE Key)
      /\ Tail(names) \in Seq(IF Current.type \in {"W", "r"} THEN DOMAIN Real ELSE Key)
  BY <1>1
<1> QED
  BY <1>1, <1>2, PathsAssumption, LengthAssumption

\* The list of actions grows by one that fits, or the directory of its last one is set.
LEMMA HeadFits ==
  ASSUME NEW c \in CliType, NEW x \in Options, NEW h, HeadOf(c, x.o, x.a, h), \A i \in DOMAIN c.head : Fits(c.head[i])
  PROVE  \A i \in DOMAIN h : Fits(h[i])
<1>0. c.head \in Seq(ActionSet)
  BY DEF CliType
<1>1. CASE x.o \in Actions
  <2>1. PICK y \in ActionSet : h = Append(c.head, y) /\ Fits(y)
    <3>1. \E y \in ActionSet : h = Append(c.head, y) /\ y.type = x.o /\ y.arg_s2 = NULL /\ Fits(y)
      BY <1>1 DEF HeadOf, Actions, Lists
    <3> QED
      BY <3>1
  <2> QED
    BY <1>0, <2>1
<1>2. CASE x.o \notin Actions /\ x.o \in {"D", "d"} /\ ~Bad(c, x.o, x.a)
  <2>1. h = [c.head EXCEPT ![Len(c.head)].arg_s2 = x.a]
    BY <1>2 DEF HeadOf
  <2>2. \A i \in DOMAIN c.head : c.head[i] \in ActionSet
    BY <1>0
  <2>3. \A y \in ActionSet : Fits(y) => Fits([y EXCEPT !.arg_s2 = x.a])
    BY DEF Fits, ActionSet
  <2>4. DOMAIN h = DOMAIN c.head
        /\ \A i \in DOMAIN c.head : h[i] = c.head[i] \/ h[i] = [c.head[i] EXCEPT !.arg_s2 = x.a]
    BY <1>0, <2>1
  <2> QED
    BY <2>2, <2>3, <2>4
<1>3. CASE x.o \notin Actions /\ ~(x.o \in {"D", "d"} /\ ~Bad(c, x.o, x.a))
  BY <1>3 DEF HeadOf
<1> QED
  BY <1>1, <1>2, <1>3

LEMMA ActionsFit ==
  ASSUME ShapeInv, RunType, ParserType, ParserInv, [Next]_vars
  PROVE  /\ \A i \in DOMAIN cli'.head : Fits(cli'.head[i])
         /\ \A i \in DOMAIN todo' : Fits(todo'[i])
<1>1. \A i \in DOMAIN cli'.head : Fits(cli'.head[i])
  <2>1. CASE ParseOption
    <3>1. PICK x \in Options : argv' = Append(argv, x) /\ cli' = Parse(cli, x.o, x.a)
      BY <2>1 DEF ParseOption
    <3>2. HeadOf(cli, x.o, x.a, cli'.head)
      BY <2>1, <3>1, ParseRound DEF Round
    <3> QED
      BY <3>2, HeadFits DEF ShapeInv, ParserType
  <2>2. CASE cli' = cli
    BY <2>2 DEF ShapeInv
  <2> QED
    BY <2>1, <2>2, OnlyParsing DEF parsing
<1>2. \A i \in DOMAIN todo' : Fits(todo'[i])
  <2>1. todo' \in {todo, cli.head, <<>>} \/ (todo' = Tail(todo) /\ todo # <<>>)
    BY DEF Next, Step, ParseOption, Begin, Connect, NextAction, ActionDone, Finish, ListEnd, NoSuchFile,
         WriteListed, ReadListed, EachListed, DirEnd, DirOther, DirSubdir, DirFile, ReadRandom,
         Interfere, NoAnswer, vars, RunType
  <2>2. todo \in Seq(ActionSet)
    BY DEF RunType
  <2>3. todo # <<>> => \A i \in DOMAIN Tail(todo) : i + 1 \in DOMAIN todo /\ Tail(todo)[i] = todo[i + 1]
    BY <2>2
  <2> QED
    BY <2>1, <2>3 DEF ShapeInv
<1> QED
  BY <1>1, <1>2

LEMMA ListShape ==
  ASSUME ShapeInv, RunType, [Next]_vars, pc' = "list"
  PROVE  names' \in Seq(IF Current'.type \in {"W", "r"} THEN DOMAIN Real ELSE Key)
<1>1. CASE NextAction
  <2>1. todo # <<>> /\ todo' = todo /\ Current' = Current
    BY <1>1 DEF NextAction, Current
  <2>2. Current \in ActionSet /\ Current.type \in Actions /\ Fits(Current)
    <3>1. Current \in ActionSet /\ 1 \in DOMAIN todo /\ Current = todo[1]
      BY <2>1, CurrentType DEF Current, RunType
    <3> QED
      BY <3>1 DEF ActionSet, ShapeInv
  <2>3. Current.type \in Lists
    BY <1>1, <2>2 DEF NextAction, Current, Actions, Lists
  <2>4. names' = Current.arg_s1
    BY <1>1, <2>3 DEF NextAction, Current
  <2> QED
    BY <2>1, <2>2, <2>3, <2>4 DEF Fits, Lists
<1>2. CASE WriteListed \/ ReadListed \/ EachListed
  <2>1. pc = "list" /\ names # <<>> /\ todo' = todo /\ names' \in {names, Tail(names)}
    BY <1>2 DEF WriteListed, ReadListed, EachListed, InList
  <2>2. Current' = Current
    BY <2>1 DEF Current
  <2> QED
    BY <2>1, <2>2, NameType DEF ShapeInv
<1>3. CASE ~NextAction /\ ~(WriteListed \/ ReadListed \/ EachListed)
  <2>1. pc = "list" /\ todo' = todo /\ names' = names
    BY <1>3 DEF Next, Step, ParseOption, Begin, Connect, ActionDone, Waits, Finish, ListEnd, NoSuchFile,
         DirEnd, DirOther, DirSubdir, DirFile, DirReturn, After, ReadRandom,
         Interfere, NoAnswer, vars, local
  <2>2. Current' = Current
    BY <2>1 DEF Current
  <2> QED
    BY <2>1, <2>2 DEF ShapeInv
<1> QED
  BY <1>1, <1>2, <1>3

Place == [dir: DOMAIN Tree, i: Nat \ {0}]

LEMMA DirShape ==
  ASSUME ShapeInv, RunType, [Next]_vars, pc' = "dir"
  PROVE  Current'.type = "w" /\ stack' # <<>> /\ stack' \in Seq(Place)
<1>1. CASE NextAction
  <2>1. todo # <<>> /\ Head(todo) = Current /\ Current' = Current
    BY <1>1 DEF NextAction, Current
  <2>2. Current \in ActionSet /\ Current.type \in Actions /\ Fits(Current)
    <3>1. Current \in ActionSet /\ 1 \in DOMAIN todo /\ Current = todo[1]
      BY <2>1, CurrentType DEF Current, RunType
    <3> QED
      BY <3>1 DEF ActionSet, ShapeInv
  <2>3. Current.type = "w"
    BY <1>1, <2>1, <2>2 DEF NextAction, Actions, Lists
  <2>4. stack' = <<[dir |-> Current.arg_s1.dir, i |-> 1]>>
    BY <1>1, <2>1, <2>3 DEF NextAction
  <2>5. [dir |-> Current.arg_s1.dir, i |-> 1] \in Place
    BY <2>2, <2>3 DEF Fits, Place
  <2> QED
    BY <2>1, <2>3, <2>4, <2>5
<1>2. CASE pc = "dir"
  <2>1. Current.type = "w" /\ stack # <<>> /\ stack \in Seq(Place)
    BY <1>2 DEF ShapeInv, Place
  <2>2. stack' \in {stack, Advance} \/ (stack' = Tail(stack) /\ Len(stack) # 1)
          \/ (~DirEnds /\ Entry.type = "DIR" /\ stack' = <<[dir |-> Entry.name, i |-> 1]>> \o Advance)
    BY <1>2 DEF Next, Step, ParseOption, Begin, Connect, NextAction, ActionDone, Finish, ListEnd, NoSuchFile,
         InList, WriteListed, ReadListed, EachListed,
         DirEnd, DirOther, DirSubdir, DirFile, DirReturn, ReadRandom, Interfere, NoAnswer, vars, local
  <2>3. Advance # <<>> /\ Advance \in Seq(Place)
    <3>1. stack[1] \in Place /\ 1 \in DOMAIN stack
      BY <2>1
    <3>2. [stack[1] EXCEPT !.i = @ + 1] \in Place
      BY <3>1 DEF Place
    <3> QED
      BY <2>1, <3>1, <3>2 DEF Advance
  <2>4. Tail(stack) \in Seq(Place) /\ (Len(stack) # 1 => Tail(stack) # <<>>)
    <3>1. Tail(stack) \in Seq(Place) /\ Len(Tail(stack)) = Len(stack) - 1
      BY <2>1
    <3>2. Len(stack) # 1 => Len(Tail(stack)) # 0
      BY <2>1, <3>1
    <3>3. Len(<<>>) = 0
      OBVIOUS
    <3> QED
      BY <3>1, <3>2, <3>3, Zenon
  <2>5. ~DirEnds /\ Entry.type = "DIR" => [dir |-> Entry.name, i |-> 1] \in Place
    BY <1>2, EntryType DEF Place
  <2>6. ASSUME NEW y \in Place PROVE <<y>> \o Advance # <<>> /\ <<y>> \o Advance \in Seq(Place)
    BY <2>3
  <2>7. Current' = Current
    BY <1>2 DEF Next, Step, ParseOption, Begin, Connect, NextAction, ActionDone, Finish, ListEnd, NoSuchFile,
         WriteListed, ReadListed, EachListed, DirEnd, DirOther, DirSubdir, DirFile, ReadRandom, Interfere, NoAnswer, vars,
         Current
  <2> QED
    BY <2>1, <2>2, <2>3, <2>4, <2>5, <2>6, <2>7
<1>3. CASE pc # "dir" /\ ~NextAction
  BY <1>3 DEF Next, Step, ParseOption, Begin, Connect, ActionDone, Waits, Finish, ListEnd, NoSuchFile, InList,
         WriteListed, ReadListed, EachListed, After,
         DirEnd, DirOther, DirSubdir, DirFile, ReadRandom, Interfere, NoAnswer, vars, local
<1> QED
  BY <1>1, <1>2, <1>3

LEMMA ShapeStep ==
  ASSUME ShapeInv, RunType, ParserType, ParserInv, [Next]_vars PROVE ShapeInv'
<1>1. part' \in {"open", "write", "close"}
  <2>1. \A p \in {"open", "write", "close"} : NextPart[p] \in {"open", "write", "close"}
    BY DEF NextPart
  <2>2. part' \in {part, "open", NextPart[part]}
    BY DEF Next, Step, ParseOption, Begin, Connect, NextAction, ActionDone, Finish, ListEnd, NoSuchFile,
         WriteListed, ReadListed, EachListed, DirEnd, DirOther, DirSubdir, DirFile, ReadRandom,
         Interfere, NoAnswer, vars, local
  <2> QED
    BY <2>1, <2>2 DEF ShapeInv
<1>2. NextAction => pc' \in {"list", "random", "dir", "done"}
  <2> SUFFICES ASSUME NextAction PROVE pc' \in {"list", "random", "dir", "done"}
    OBVIOUS
  <2>1. todo # <<>>
    BY DEF NextAction
  <2>2. Current.type \in Actions /\ Current = Head(todo)
    BY <2>1, CurrentType DEF ActionSet, Current
  <2> QED
    BY <2>2 DEF NextAction, Actions, Lists
<1>3. pc' \in {"parse", "connect"} => pc \in {"parse", "connect"} /\ ret' = ret /\ files' = files
  <2>1. CASE WriteListed \/ ReadListed \/ EachListed
    BY <2>1 DEF WriteListed, ReadListed, EachListed, After
  <2>2. CASE ParseOption \/ Begin \/ Connect \/ ActionDone \/ Finish \/ ListEnd \/ NoSuchFile
    BY <2>2 DEF ParseOption, Begin, Connect, ActionDone, Waits, Finish, ListEnd, NoSuchFile, world
  <2>3. CASE DirEnd \/ DirOther \/ DirSubdir \/ DirFile \/ ReadRandom \/ Interfere \/ NoAnswer \/ UNCHANGED vars
    BY <2>3 DEF After, DirEnd, DirOther, DirSubdir, DirFile, DirReturn, ReadRandom, Interfere, NoAnswer, vars, world
  <2> QED
    BY <1>2, <2>1, <2>2, <2>3 DEF Next, Step
<1>4. pc' = "next" => ret' = 0 \/ todo' = <<>>
  BY <1>2 DEF ShapeInv, Next, Step, ParseOption, Begin, Connect, ActionDone, Waits, Finish, ListEnd,
       NoSuchFile, WriteListed, ReadListed, EachListed, After, DirEnd, DirOther, DirSubdir, DirFile,
       DirReturn, ReadRandom, Interfere, NoAnswer, vars, local, world
<1> QED
  BY <1>1, <1>3, <1>4, ActionsFit, ListShape, DirShape DEF ShapeInv, Place

\* A function of the API returns 0 or -1.
LEMMA RetType == ASSUME NEW op, NEW k, NEW n, NEW r \in Replies(op, k, n) PROVE r.ret \in {0, -1}
<1> DEFINE o == Do(files, [op |-> op, key |-> k, fd |-> Me, arg |-> n])
<1>1. r \in {Reply(files, FALSE, v, {}) : v \in {0, -1}} \/ r \in
        CASE ~up \/ o.err = "exit" -> {}
          [] up /\ Writes(op) /\ o.err = "OK" ->
               {Reply(Without(o.files, E), TRUE,
                      IF \A e \in E : o.files[e].length_in_bytes > 0 THEN 0 ELSE -1, E) :
                  E \in Evictions(o.files)}
          [] OTHER -> {Reply(o.files, TRUE,
                             IF o.err = "OK" \/ op \in {"LOCK_FILE", "WRITE_FILE"} THEN 0 ELSE -1,
                             {})}
  BY DEF Replies
<1> HIDE DEF o
<1>2. \E f, u, E : \E v \in {0, -1} : r = Reply(f, u, v, E)
  BY <1>1
<1> QED
  BY <1>2 DEF Reply

\* The action that runs is one of the command line.
LEMMA CurrentInHead ==
  ASSUME TodoKept, RunType, todo # <<>>, cli.head \in Seq(ActionSet)
  PROVE  /\ Len(cli.head) - Len(todo) + 1 \in DOMAIN cli.head
         /\ Current = cli.head[Len(cli.head) - Len(todo) + 1]
<1>1. todo \in Seq(ActionSet) /\ 1 \in DOMAIN todo /\ Current = todo[1]
  BY DEF RunType, Current
<1>2. Len(todo) \in Nat /\ Len(todo) >= 1 /\ Len(todo) <= Len(cli.head)
  BY <1>1 DEF TodoKept
<1> QED
  BY <1>1, <1>2 DEF TodoKept

\* The program is under way, or it has just connected to an empty storage.
LEMMA GoingBefore ==
  ASSUME ShapeInv, RunType, [Next]_vars, Going' PROVE Connect \/ (Going /\ cli' = cli)
<1>1. cli' = cli /\ (Removes' <=> Removes)
  <2>1. cli' = cli
    BY DEF Going, Next, Step, ParseOption, Begin, Connect, NextAction, ActionDone, Finish, ListEnd, NoSuchFile,
           WriteListed, ReadListed, EachListed, DirEnd, DirOther, DirSubdir, DirFile, ReadRandom,
           Interfere, NoAnswer, vars, parsing
  <2> QED
    BY <2>1 DEF Removes
<1>2. up' => up
  <2>1. CASE WriteListed \/ ReadListed \/ EachListed
    <3>1. ~up => pc' = "killed"
      BY <2>1 DEF WriteListed, ReadListed, EachListed, After
    <3> QED
      BY <3>1 DEF Going
  <2>2. CASE DirFile
    <3>1. ~up => pc' = "killed"
      BY <2>2 DEF DirFile, After
    <3> QED
      BY <3>1 DEF Going
  <2>3. CASE ~(WriteListed \/ ReadListed \/ EachListed) /\ ~DirFile
    BY <2>3 DEF Next, Step, ParseOption, Begin, Connect, NextAction, ActionDone, Finish, ListEnd, NoSuchFile,
         DirEnd, DirOther, DirSubdir, ReadRandom, Interfere, NoAnswer, vars, world
  <2> QED
    BY <2>1, <2>2, <2>3
<1>3. up /\ ~Removes /\ pc' \in {"list", "dir", "random", "next", "done"} /\ (pc' \in {"next", "done"} => ret' = 0)
  BY <1>1, <1>2 DEF Going
<1>4. pc \in {"list", "dir", "random"} \/ (pc \in {"next", "done"} /\ ret = 0) \/ Connect
  <2>1. CASE NextAction
    BY <2>1 DEF NextAction, ShapeInv
  <2>2. CASE WriteListed \/ ReadListed \/ EachListed \/ ListEnd \/ NoSuchFile
    BY <2>2 DEF WriteListed, ReadListed, EachListed, ListEnd, NoSuchFile, InList
  <2>3. CASE ParseOption \/ Begin \/ ActionDone \/ Finish
    BY <1>3, <2>3 DEF ParseOption, Begin, ActionDone, Waits, Finish
  <2>4. CASE DirEnd \/ DirOther \/ DirSubdir \/ DirFile \/ ReadRandom \/ Interfere \/ NoAnswer \/ UNCHANGED vars
    BY <1>3, <2>4 DEF DirEnd, DirOther, DirSubdir, DirFile, ReadRandom, Interfere, NoAnswer, vars
  <2> QED
    BY <2>1, <2>2, <2>3, <2>4 DEF Next, Step
<1> QED
  BY <1>1, <1>3, <1>4 DEF Going

\* What every step does to the files of this client.
Cared ==
  /\ files' \in Files /\ saved \subseteq saved'
  /\ \A j \in Key \ saved' : Locked(files[j]) =>
       /\ Locked(files'[j]) /\ (files'[j].is_open => files[j].is_open)
       /\ files'[j].length_in_bytes \in {files[j].length_in_bytes, Length[j]}

LEMMA CallCares ==
  ASSUME files \in Files, NEW op \in Calls, NEW k \in Key, NEW n \in Nat,
         NEW r \in Replies(op, k, n), op = "WRITE_FILE" => n = Length[k],
         Called(r), r.up, saved \cup r.evicted \subseteq saved'
  PROVE  Cared
<1>1. Told(op, k, n, r) /\ files' = r.files
  BY Answered DEF Called
<1>2. ASSUME NEW j \in Key \ saved', Locked(files[j])
      PROVE  /\ Locked(r.files[j]) /\ (r.files[j].is_open => files[j].is_open)
             /\ r.files[j].length_in_bytes \in {files[j].length_in_bytes, Length[j]}
  <2>1. j \in Key \ r.evicted
    OBVIOUS
  <2> QED
    BY <1>2, <2>1, StillLocked
<1> QED
  BY <1>1, <1>2 DEF Told, Cared

LEMMA InterfereCares ==
  ASSUME files \in Files, OnlyMeWrites, Interfere PROVE Cared
<1>1. PICK r \in Others : files' = Do(files, r).files
  <2>1. \A r \in Others : ~Writes(r.op)
    BY DEF OnlyMeWrites, Harmless, Writes
  <2> QED
    BY <2>1 DEF Interfere
<1>2. Spares(r)
  BY <1>1, PathsAssumption DEF Spares, OnlyMeWrites
<1>3. Performed(files, r, Do(files, r))
  BY <1>2, DoSpares
<1>4. /\ files' \in Files /\ \A j \in Key \ {r.key} : files'[j] = files[j]
      /\ \E e : Spared(files[r.key], r, files'[r.key], e)
  BY <1>1, <1>3 DEF Performed
<1>5. ASSUME NEW j \in Key, Locked(files[j])
      PROVE  /\ Locked(files'[j]) /\ (files'[j].is_open => files[j].is_open)
             /\ files'[j].length_in_bytes = files[j].length_in_bytes
  <2>1. CASE j # r.key
    BY <1>4, <1>5, <2>1
  <2>2. CASE j = r.key
    <3>1. r.op # "WRITE_FILE"
      BY <1>1 DEF OnlyMeWrites, Harmless
    <3> QED
      BY <1>4, <1>5, <2>2, <3>1 DEF Spared
  <2> QED
    BY <2>1, <2>2
<1>6. saved' = saved
  BY DEF Interfere
<1> QED
  BY <1>4, <1>5, <1>6 DEF Cared

\* A call of run_action_write_file after which the program goes on.
WriteCall(r, k) ==
  /\ pc = "list" /\ names # <<>> /\ Current.type = "W" /\ k = Real[Head(names)]
  /\ k \in Key /\ Length[k] \in Nat /\ CallOf[part] \in Calls
  /\ r \in Replies(CallOf[part], k, Length[k]) /\ Called(r) /\ r.up /\ r.ret = 0
  /\ saved' = saved \cup r.evicted /\ pc' = "list"
  /\ part' = NextPart[part] /\ names' = IF part = "close" THEN Tail(names) ELSE names

LEMMA WriteGoesOn ==
  ASSUME ShapeInv, RunType, Going', WriteListed PROVE \E r, k : WriteCall(r, k)
<1> DEFINE k == Real[Head(names)]
<1>1. pc = "list" /\ names # <<>> /\ Current.type = "W" /\ k # NULL
  BY DEF WriteListed, InList
<1>2. k \in Key /\ Length[k] \in Nat
  BY <1>1, NameType
<1>3. CallOf[part] \in Calls
  BY DEF CallOf, Calls, ShapeInv
<1>4. PICK r \in Replies(CallOf[part], k, Length[k]) :
        /\ Called(r) /\ ret' = r.ret
        /\ pc' = After(r, r.evicted # {} /\ EvictedDir(Current) = NULL, IF r.ret < 0 THEN "done" ELSE "list")
        /\ IF r.ret = 0 THEN saved' = saved \cup r.evicted ELSE \E S \in SUBSET r.evicted : saved' = saved \cup S
        /\ part' = NextPart[part] /\ names' = IF part = "close" THEN Tail(names) ELSE names
  BY DEF WriteListed
<1>5. r.up /\ pc' \notin {"killed", "crash"}
  BY <1>4 DEF Called, Going
<1>6. r.ret = 0 /\ pc' = "list"
  <2>1. r.ret \in {0, -1}
    BY RetType
  <2>2. pc' = IF r.ret < 0 THEN "done" ELSE "list"
    BY <1>4, <1>5 DEF After
  <2> QED
    BY <1>4, <2>1, <2>2 DEF Going
<1> HIDE DEF k
<1>7. WriteCall(r, k)
  BY <1>1, <1>2, <1>3, <1>4, <1>5, <1>6 DEF WriteCall, k
<1> QED
  BY <1>7

LEMMA FilesKept ==
  ASSUME ShapeInv, RunType, ParserType, KeptInv, OnlyMeWrites, [Next]_vars, Going, Going' PROVE Cared
<1>1. files \in Files /\ TodoKept /\ up' /\ ~Removes
  BY DEF KeptInv, Going
<1>2. pc' \notin {"killed", "crash"}
  BY DEF Going
<1>3. CASE WriteListed
  <2>1. PICK r, k : WriteCall(r, k)
    BY <1>3, WriteGoesOn
  <2> QED
    BY <1>1, <2>1, CallCares DEF WriteCall
<1>4. CASE ReadListed
  <2> DEFINE k == Real[Head(names)]
  <2>1. pc = "list" /\ names # <<>> /\ Current.type \in {"W", "r"} /\ k # NULL
    BY <1>4 DEF ReadListed, InList
  <2>2. k \in Key /\ Length[k] \in Nat
    BY <2>1, NameType
  <2>3. PICK r \in Replies("READ_FILE", k, 0) : Called(r) /\ saved' = saved
    BY <1>4 DEF ReadListed
  <2>4. r.up /\ "READ_FILE" \in Calls /\ "READ_FILE" # "WRITE_FILE"
    BY <1>1, <2>3 DEF Called, Calls
  <2> HIDE DEF k
  <2>5. r.evicted = {}
    BY <1>1, <2>2, <2>3, <2>4, Answered DEF Told
  <2> QED
    BY <1>1, <2>2, <2>3, <2>4, <2>5, CallCares
<1>5. CASE EachListed
  <2> DEFINE k == Head(names)
  <2>1. pc = "list" /\ names # <<>> /\ Current.type \in {"l", "u", "c"} /\ todo # <<>>
    BY <1>5 DEF EachListed, InList, RunType
  <2>2. k \in Key
    BY <2>1, NameType
  <2>3. Current.type = "l"
    <3>1. cli.head \in Seq(ActionSet)
      BY DEF ParserType, CliType
    <3> QED
      BY <1>1, <2>1, <3>1, CurrentInHead DEF Removes
  <2>4. PICK r \in Replies("LOCK_FILE", k, 0) : Called(r)
    BY <1>5, <2>3 DEF EachListed
  <2>5. r.up /\ "LOCK_FILE" \in Calls /\ "LOCK_FILE" # "WRITE_FILE" /\ saved' = saved
    BY <1>1, <1>5, <2>4 DEF Called, Calls, EachListed
  <2> HIDE DEF k
  <2>6. r.evicted = {}
    BY <1>1, <2>2, <2>4, <2>5, Answered DEF Told
  <2> QED
    BY <1>1, <2>2, <2>4, <2>5, <2>6, CallCares
<1>6. CASE DirFile
  <2> DEFINE k == Entry.name
  <2>1. pc = "dir" /\ ~DirEnds /\ Entry.type = "REG"
    BY <1>6 DEF DirFile
  <2>2. k \in Key /\ Length[k] \in Nat
    BY <2>1, EntryType
  <2>3. PICK r \in Replies("WRITE_FILE", k, Length[k]) :
          Called(r) /\ (~up \/ r.evicted # {} => pc' = After(r, r.evicted # {}, "dir"))
    BY <1>6 DEF DirFile
  <2>4. r.up /\ "WRITE_FILE" \in Calls /\ saved' = saved
    BY <1>1, <1>6, <2>3 DEF Called, Calls, DirFile
  <2>5. r.evicted = {}
    BY <1>2, <2>3 DEF After
  <2> HIDE DEF k
  <2> QED
    BY <1>1, <2>2, <2>3, <2>4, <2>5, CallCares
<1>7. CASE Interfere
  BY <1>1, <1>7, InterfereCares
<1>8. CASE UNCHANGED <<files, saved>>
  BY <1>1, <1>8 DEF Cared
<1>9. WriteListed \/ ReadListed \/ EachListed \/ DirFile \/ Interfere \/ UNCHANGED <<files, saved>>
  BY DEF Next, Step, ParseOption, Begin, Connect, NextAction, ActionDone, Finish, ListEnd, NoSuchFile,
         DirEnd, DirOther, DirSubdir, ReadRandom, NoAnswer, vars, world
<1> QED
  BY <1>3, <1>4, <1>5, <1>6, <1>7, <1>8, <1>9

LEMMA TodoStep ==
  ASSUME RunType, [Next]_vars, cli' = cli, cli.head \in Seq(ActionSet), Connect \/ TodoKept PROVE TodoKept' \/ pc' = "exit"
<1>1. CASE Connect
  BY <1>1 DEF Connect, TodoKept
<1>2. CASE TodoKept /\ todo' = todo
  BY <1>2 DEF TodoKept
<1>3. CASE TodoKept /\ ActionDone
  <2>1. todo \in Seq(ActionSet) /\ todo # <<>>
    BY <1>3 DEF RunType, ActionDone
  <2>2. /\ Len(Tail(todo)) = Len(todo) - 1
        /\ \A i \in DOMAIN Tail(todo) : i \in Nat /\ i + 1 \in DOMAIN todo /\ Tail(todo)[i] = todo[i + 1]
    BY <2>1
  <2>3. CASE todo' = <<>>
    BY <2>3 DEF TodoKept
  <2>4. CASE todo' = Tail(todo)
    <3>1. Len(cli.head) \in Nat /\ Len(todo) \in Nat
      BY <2>1
    <3>2. Len(todo') = Len(todo) - 1 /\ Len(todo') <= Len(cli.head)
      BY <1>3, <2>2, <2>4, <3>1 DEF TodoKept
    <3>3. ASSUME NEW i \in DOMAIN todo' PROVE todo'[i] = cli.head[Len(cli.head) - Len(todo') + i]
      <4>1. i \in Nat /\ i + 1 \in DOMAIN todo /\ todo'[i] = todo[i + 1]
        BY <2>2, <2>4, <3>3
      <4>2. todo[i + 1] = cli.head[Len(cli.head) - Len(todo) + (i + 1)]
        BY <1>3, <4>1 DEF TodoKept
      <4>3. Len(cli.head) - Len(todo) + (i + 1) = Len(cli.head) - (Len(todo) - 1) + i
        BY <3>1, <4>1
      <4> QED
        BY <3>2, <4>1, <4>2, <4>3
    <3> QED
      BY <3>2, <3>3 DEF TodoKept
  <2> QED
    BY <1>3, <2>3, <2>4 DEF ActionDone
<1>4. todo' = todo \/ Connect \/ ActionDone
  BY DEF Next, Step, ParseOption, Begin, NextAction, Finish, ListEnd, NoSuchFile,
         WriteListed, ReadListed, EachListed, DirEnd, DirOther, DirSubdir, DirFile, ReadRandom,
         Interfere, NoAnswer, vars
<1> QED
  BY <1>1, <1>2, <1>3, <1>4

\* The list of an action that has succeeded joins the files that are written.
LEMMA WrittenStep ==
  ASSUME TodoKept, RunType, ParserType, [Next]_vars, cli' = cli, ~Connect, Going', NEW k \in Written'
  PROVE  k \in Written \/ (ActionDone /\ ret = 0 /\ Current.type = "W" /\ k \in Done(Current))
<1> DEFINE n == Len(cli.head) - Len(todo)
<1>1. CASE todo' = todo
  BY <1>1 DEF Written, Done
<1>2. CASE ActionDone
  <2>1. ret = 0 /\ todo # <<>> /\ todo' = Tail(todo) /\ todo \in Seq(ActionSet)
    <3>1. ret' = ret /\ pc' \in {"next", "stuck"}
      BY <1>2 DEF ActionDone, Waits
    <3>2. ret = 0
      BY <3>1 DEF Going
    <3> QED
      BY <1>2, <3>2 DEF ActionDone, RunType
  <2>2. cli.head \in Seq(ActionSet)
    BY DEF ParserType, CliType
  <2>3. n + 1 \in DOMAIN cli.head /\ Current = cli.head[n + 1]
    BY <2>1, <2>2, CurrentInHead
  <2>4. n \in Int /\ Len(cli.head) - Len(todo') = n + 1
    BY <2>1, <2>2
  <2>5. PICK i \in 1 .. n + 1 : cli.head[i].type = "W" /\ k \in Done(cli.head[i])
    BY <2>4 DEF Written, Done
  <2>6. i \in 1 .. n \/ i = n + 1
    BY <2>4
  <2> QED
    BY <1>2, <2>1, <2>3, <2>5, <2>6 DEF Written
<1>3. todo' = todo \/ ActionDone
  BY DEF Next, Step, ParseOption, Begin, NextAction, Finish, ListEnd, NoSuchFile,
         WriteListed, ReadListed, EachListed, DirEnd, DirOther, DirSubdir, DirFile, ReadRandom,
         Interfere, NoAnswer, vars
<1> QED
  BY <1>1, <1>2, <1>3

LEMMA CaresForSafe == ASSUME Cared, NEW j \in Key \ saved', Safe(files, j) PROVE Safe(files', j)
BY DEF Cared, Safe

\* The list of the action that runs.
LEMMA CurrentShape ==
  ASSUME ShapeInv, RunType, todo # <<>>
  PROVE  Current.type \in Actions /\ (Current.type = "W" => Current.arg_s1 \in Seq(DOMAIN Real))
<1>1. Current \in ActionSet /\ 1 \in DOMAIN todo /\ Current = todo[1]
  BY CurrentType DEF Current, RunType
<1> QED
  BY <1>1 DEF ActionSet, ShapeInv, Fits

LEMMA WrittenKeptStep ==
  ASSUME ShapeInv, RunType, ParserType, KeptInv, [Next]_vars, cli' = cli, Going, Going', ~Connect, Cared
  PROVE  WrittenKept'
<1>1. TodoKept /\ WrittenKept
  BY DEF KeptInv
<1> SUFFICES ASSUME NEW k \in Written', k \notin saved' PROVE k \in Key /\ Safe(files', k)
  BY DEF WrittenKept
<1>2. k \notin saved
  BY DEF Cared
<1>3. k \in Key /\ Safe(files, k)
  <2>1. CASE k \in Written
    BY <1>1, <1>2, <2>1 DEF WrittenKept
  <2>2. CASE ActionDone /\ ret = 0 /\ Current.type = "W" /\ k \in Done(Current)
    <3>1. pc = "done" /\ todo # <<>>
      BY <2>2 DEF ActionDone, RunType
    <3>2. ListKept /\ names = <<>>
      BY <2>2, <3>1 DEF KeptInv, ListKept
    <3>3. Current.arg_s1 \in Seq(DOMAIN Real)
      BY <2>2, <3>1, CurrentShape
    <3>4. PICK i \in DOMAIN Current.arg_s1 : k = Real[Current.arg_s1[i]]
      BY <2>2 DEF Done
    <3>5. i \in 1 .. Len(Current.arg_s1) - Len(names)
      BY <3>2, <3>3
    <3> QED
      BY <1>2, <3>2, <3>4, <3>5 DEF ListKept
  <2> QED
    BY <1>1, <2>1, <2>2, WrittenStep
<1> QED
  BY <1>3, CaresForSafe

\* A list that another step than a write leaves alone.
LEMMA ListStays ==
  ASSUME ListKept, Cared, todo' = todo, names' = names, part' = part, pc' = "done" => names = <<>>,
         todo # <<>>, ShapeInv, RunType
  PROVE  ListKept'
<1> DEFINE a == Current.arg_s1
           n == Len(a) - Len(names)
<1>1. Current' = Current
  BY DEF Current
<1>2. ASSUME NEW i \in 1 .. n PROVE Real[a[i]] \in saved' \/ (Real[a[i]] \in Key /\ Safe(files', Real[a[i]]))
  <2>1. Real[a[i]] \in saved \/ (Real[a[i]] \in Key /\ Safe(files, Real[a[i]]))
    BY DEF ListKept
  <2> QED
    BY <2>1, CaresForSafe DEF Cared
<1>3. ASSUME part # "open", NEW k, k = Real[Head(names)]
      PROVE  /\ names # <<>> /\ k \in Key
             /\ k \in saved' \/ (Locked(files'[k]) /\ (part = "close" => files'[k].length_in_bytes = Length[k]))
  <2>1. /\ names # <<>> /\ k \in Key
        /\ k \in saved \/ (Locked(files[k]) /\ (part = "close" => files[k].length_in_bytes = Length[k]))
    BY <1>3 DEF ListKept
  <2> QED
    BY <2>1 DEF Cared
<1>4. n >= 0 /\ (\A i \in DOMAIN names : names[i] = a[n + i])
  BY DEF ListKept
<1> QED
  BY <1>1, <1>2, <1>3, <1>4 DEF ListKept

LEMMA ListWrites ==
  ASSUME ListKept, Cared, files \in Files, ShapeInv, RunType, NEW r, NEW k, WriteCall(r, k), todo' = todo
  PROVE  ListKept'
<1> DEFINE a == Current.arg_s1
           n == Len(a) - Len(names)
<1>1. todo # <<>> /\ Current' = Current /\ files' = r.files
  BY DEF WriteCall, RunType, Current, Called
<1>2. a \in Seq(DOMAIN Real) /\ names \in Seq(DOMAIN Real) /\ names # <<>> /\ Len(names) \in Nat /\ Len(a) \in Nat
  BY <1>1, CurrentShape, NameType DEF WriteCall
<1>3. n >= 0 /\ n \in Nat /\ (\A i \in DOMAIN names : names[i] = a[n + i])
  BY <1>2 DEF ListKept
<1>4. ASSUME NEW i \in 1 .. n PROVE Real[a[i]] \in saved' \/ (Real[a[i]] \in Key /\ Safe(files', Real[a[i]]))
  <2>1. Real[a[i]] \in saved \/ (Real[a[i]] \in Key /\ Safe(files, Real[a[i]]))
    BY DEF ListKept
  <2> QED
    BY <2>1, CaresForSafe DEF Cared
<1>5. k \in Key /\ k = Real[Head(names)] /\ r.evicted \subseteq saved' /\ pc' # "done"
  BY DEF WriteCall
<1>6. CASE part = "open"
  <2>1. part' = "write" /\ names' = names
    BY <1>6 DEF WriteCall, NextPart
  <2>2. Locked(files'[k])
    BY <1>1, <1>6, Created DEF WriteCall, CallOf
  <2> QED
    BY <1>1, <1>2, <1>3, <1>4, <1>5, <2>1, <2>2 DEF ListKept
<1>7. CASE part = "write"
  <2>1. part' = "close" /\ names' = names
    BY <1>7 DEF WriteCall, NextPart
  <2>2. k \in saved' \/ (Locked(files'[k]) /\ files'[k].length_in_bytes = Length[k])
    <3>1. k \in saved \/ Locked(files[k])
      BY <1>5, <1>7 DEF ListKept
    <3>2. CASE k \in Key \ r.evicted /\ Locked(files[k])
      <4>1. CallOf[part] = "WRITE_FILE"
        BY <1>7 DEF CallOf
      <4> QED
        BY <1>1, <3>2, <4>1, StillLocked DEF WriteCall
    <3> QED
      BY <1>5, <3>1, <3>2 DEF Cared
  <2> QED
    BY <1>1, <1>2, <1>3, <1>4, <1>5, <2>1, <2>2 DEF ListKept
<1>8. CASE part = "close"
  <2>1. part' = "open" /\ names' = Tail(names)
    BY <1>8 DEF WriteCall, NextPart
  <2>2. k \in saved' \/ Safe(files', k)
    <3>1. k \in saved \/ (Locked(files[k]) /\ files[k].length_in_bytes = Length[k])
      BY <1>5, <1>8 DEF ListKept
    <3>2. CASE k \in Key \ r.evicted /\ Locked(files[k]) /\ files[k].length_in_bytes = Length[k]
      <4>1. CallOf[part] = "CLOSE_FILE" /\ "CLOSE_FILE" # "WRITE_FILE"
        BY <1>8 DEF CallOf
      <4>2. /\ Locked(r.files[k]) /\ r.files[k].length_in_bytes = files[k].length_in_bytes
            /\ ~r.files[k].is_open
        BY <3>2, <4>1, StillLocked DEF WriteCall
      <4> QED
        BY <1>1, <3>2, <4>2 DEF Safe
    <3> QED
      BY <1>5, <3>1, <3>2 DEF Cared
  <2>3. /\ Len(names') = Len(names) - 1 /\ Len(a) - Len(names') = n + 1
        /\ \A i \in DOMAIN names' : i \in Nat /\ i + 1 \in DOMAIN names /\ names'[i] = names[i + 1]
    BY <1>2, <2>1
  <2>4. Head(names) = a[n + 1]
    <3>1. 1 \in DOMAIN names /\ Head(names) = names[1]
      BY <1>2
    <3> QED
      BY <1>3, <3>1
  <2>5. ASSUME NEW i \in 1 .. n + 1 PROVE Real[a[i]] \in saved' \/ (Real[a[i]] \in Key /\ Safe(files', Real[a[i]]))
    <3>1. i \in 1 .. n \/ i = n + 1
      BY <1>3
    <3> QED
      BY <1>4, <1>5, <2>2, <2>4, <3>1
  <2>6. ASSUME NEW i \in DOMAIN names' PROVE names'[i] = a[(n + 1) + i]
    <3>1. i \in Nat
      BY <2>3
    <3>2. n + (i + 1) = (n + 1) + i
      BY <1>3, <3>1
    <3>3. names'[i] = a[n + (i + 1)]
      BY <1>3, <2>3
    <3> QED
      BY <3>2, <3>3
  <2>7. n + 1 >= 0
    BY <1>3
  <2> QED
    BY <1>1, <1>5, <2>1, <2>3, <2>5, <2>6, <2>7 DEF ListKept
<1> QED
  BY <1>6, <1>7, <1>8 DEF ShapeInv

LEMMA ListStep ==
  ASSUME ShapeInv, RunType, ParserType, KeptInv, [Next]_vars, Going, Going', ~Connect, Cared,
         pc' \in {"list", "done"}, Current'.type = "W"
  PROVE  ListKept'
<1>1. CASE NextAction
  <2>1. todo # <<>> /\ todo' = todo /\ Current' = Current /\ Head(todo) = Current
    BY <1>1 DEF NextAction, Current
  <2>2. pc' = "list" /\ names' = Current.arg_s1 /\ part' = "open" /\ Current.type = "W"
    BY <1>1, <2>1 DEF NextAction, Lists
  <2>3. Current.arg_s1 \in Seq(DOMAIN Real)
    BY <2>1, <2>2, CurrentShape
  <2>4. Len(Current.arg_s1) - Len(Current.arg_s1) = 0 /\ 1 .. 0 = {}
        /\ \A i \in DOMAIN Current.arg_s1 : 0 + i = i
    BY <2>3
  <2> QED
    BY <2>1, <2>2, <2>4 DEF ListKept
<1>2. CASE pc = "list" /\ ~NextAction
  <2>1. todo' = todo /\ todo # <<>> /\ Current' = Current /\ Current.type = "W"
    <3>1. todo' = todo
      BY <1>2 DEF Next, Step, ParseOption, Begin, Connect, ActionDone, Finish, ListEnd, NoSuchFile,
         WriteListed, ReadListed, EachListed, DirEnd, DirOther, DirSubdir, DirFile, ReadRandom,
         Interfere, NoAnswer, vars
    <3> QED
      BY <1>2, <3>1 DEF Current, RunType
  <2>2. ListKept /\ files \in Files
    BY <1>2, <2>1 DEF KeptInv
  <2>3. CASE WriteListed
    <3>1. PICK r, k : WriteCall(r, k)
      BY <2>3, WriteGoesOn
    <3> QED
      BY <2>1, <2>2, <3>1, ListWrites
  <2>4. CASE ~WriteListed
    <3>1. names' = names /\ part' = part /\ (pc' = "done" => names = <<>>)
      BY <1>2, <2>1, <2>4 DEF Next, Step, ParseOption, Begin, Connect, ActionDone, Finish, ListEnd, NoSuchFile,
         InList, ReadListed, EachListed, DirEnd, DirOther, DirSubdir, DirFile, ReadRandom,
         Interfere, NoAnswer, vars, local, Going
    <3> QED
      BY <2>1, <2>2, <3>1, ListStays
  <2> QED
    BY <2>3, <2>4
<1>3. CASE pc # "list" /\ ~NextAction
  <2>1. (pc' = pc /\ pc = "done" /\ UNCHANGED <<todo, names, part>>) \/ (pc = "dir" /\ todo' = todo)
    <3>1. up'
      BY DEF Going
    <3> QED
      BY <1>3, <3>1 DEF Next, Step, ParseOption, Begin, Connect, ActionDone, Waits, Finish, ListEnd, NoSuchFile,
         InList, WriteListed, ReadListed, EachListed, DirEnd, DirOther, DirSubdir, DirFile, ReadRandom,
         Interfere, NoAnswer, vars, local
  <2>2. CASE pc = "dir" /\ todo' = todo
    <3>1. Current.type = "w" /\ Current' = Current
      BY <2>2 DEF ShapeInv, Current
    <3> QED
      BY <3>1
  <2>3. CASE pc' = pc /\ pc = "done" /\ UNCHANGED <<todo, names, part>>
    <3>1. Current' = Current /\ todo # <<>>
      BY <2>3 DEF Current, RunType
    <3>2. ListKept /\ names = <<>>
      BY <2>3, <3>1 DEF KeptInv, ListKept
    <3> QED
      BY <2>3, <3>1, <3>2, ListStays
  <2> QED
    BY <2>1, <2>2, <2>3
<1> QED
  BY <1>1, <1>2, <1>3

LEMMA KeptStep ==
  ASSUME ShapeInv, RunType, ParserType, KeptInv, OnlyMeWrites, [Next]_vars PROVE KeptInv'
<1> SUFFICES ASSUME Going'
             PROVE  /\ files' \in Files /\ TodoKept' /\ WrittenKept'
                    /\ pc' \in {"list", "done"} /\ Current'.type = "W" => ListKept'
  BY DEF KeptInv
<1>1. cli.head \in Seq(ActionSet) /\ pc' # "exit"
  BY DEF ParserType, CliType, Going
<1>2. CASE Connect
  <2>1. /\ pc = "connect" /\ pc' = "next" /\ todo' = cli.head /\ cli' = cli
        /\ files' = files /\ files = NoFiles
    BY <1>1, <1>2 DEF Connect, parsing, world, ShapeInv
  <2>2. files' \in Files
    BY <2>1 DEF NoFiles, Files
  <2>3. TodoKept'
    BY <1>1, <1>2, <2>1, TodoStep
  <2>4. Written' = {}
    <3>1. Len(cli.head) - Len(cli.head) = 0 /\ 1 .. 0 = {}
      BY <1>1
    <3> QED
      BY <2>1, <3>1 DEF Written
  <2> QED
    BY <2>1, <2>2, <2>3, <2>4 DEF WrittenKept
<1>3. CASE ~Connect
  <2>1. Going /\ cli' = cli /\ TodoKept
    BY <1>3, GoingBefore DEF KeptInv
  <2>2. Cared
    BY <2>1, FilesKept
  <2>3. TodoKept'
    BY <1>1, <2>1, TodoStep
  <2>4. WrittenKept'
    BY <1>3, <2>1, <2>2, WrittenKeptStep
  <2>5. pc' \in {"list", "done"} /\ Current'.type = "W" => ListKept'
    BY <1>3, <2>1, <2>2, ListStep
  <2> QED
    BY <2>2, <2>3, <2>4, <2>5 DEF Cared
<1> QED
  BY <1>2, <1>3

\* As long as its actions succeed and the server runs, -W loses no file (run_action.c): each
\* file of a list that is finished is stored, closed, locked and complete, or has been evicted
\* by this client and stands in the directory given with -D.  The lock that openFile takes is
\* what keeps the file from the other clients, as long as they do not write; and the answer to
\* each write says what it evicted.  The server has one worker (see Client).
THEOREM NoFileIsLost == ASSUME OnlyMeWrites PROVE Spec => []NothingLost
<1> DEFINE Inv == ParserType /\ ParserInv /\ RunType /\ ShapeInv /\ KeptInv
<1>1. Init => Inv
  <2> SUFFICES ASSUME Init PROVE RunType /\ ShapeInv /\ KeptInv
    BY ParserInit
  <2>1. RunType
    BY DEF Init, RunType
  <2>2. ShapeInv
    BY DEF Init, ShapeInv, CliArgs
  <2>3. KeptInv
    BY DEF Init, KeptInv, Going
  <2> QED
    BY <2>1, <2>2, <2>3
<1>2. Inv /\ [Next]_vars => Inv'
  <2> SUFFICES ASSUME Inv, [Next]_vars PROVE Inv'
    OBVIOUS
  <2>1. ParserType' /\ ParserInv'
    BY ParseStep, ParserUnchanged, OnlyParsing
  <2>2. RunType'
    BY RunTypeStep
  <2>3. ShapeInv'
    BY ShapeStep
  <2>4. KeptInv'
    BY KeptStep
  <2> QED
    BY <2>1, <2>2, <2>3, <2>4
<1>3. Inv => NothingLost
  <2> SUFFICES ASSUME Inv, pc \in {"next", "list", "dir", "random"}, ret = 0, up, ~Removes
               PROVE  \A k \in Written \ saved : Safe(files, k)
    BY DEF NothingLost
  <2>1. WrittenKept
    BY DEF KeptInv, Going
  <2> QED
    BY <2>1 DEF WrittenKept
<1> QED
  BY <1>1, <1>2, <1>3, PTL DEF Spec
=============================================================================
