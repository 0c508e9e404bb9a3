------------------------------ MODULE MCClient ------------------------------
(***************************************************************************)
(* A small instance of the client program for TLC: two files a and b in a  *)
(* directory d, with a subdirectory s that holds another file and a fifo.  *)
(***************************************************************************)
EXTENDS ClientProps, TLC

Opt(o, a) == [o |-> o, a |-> a]

MCKey == {"a", "/d/a", "/d/b", "/s/x"}
MCReal == ("a" :> "/d/a") @@ ("/d/a" :> "/d/a") @@ ("/d/b" :> "/d/b") @@ ("none" :> NULL)
MCLength == ("/d/a" :> 1) @@ ("/d/b" :> 2) @@ ("/s/x" :> 1)
Reg(n) == [type |-> "REG", name |-> n]
MCTree ==
  ("d" :> <<Reg("/d/a"), [type |-> "DIR", name |-> "s"], Reg("/d/b")>>)
    @@ ("s" :> <<Reg("/s/x"), [type |-> "OTHER", name |-> "fifo"]>>)

Dir(tag, abs) == [dir |-> "d", tag |-> tag, n |-> 2, absolute |-> abs]

MCOptions ==
  {Opt("f", "socket"), Opt("h", NULL), Opt("W", <<"a", "/d/b">>), Opt("W", <<"none">>),
   Opt("w", Dir("x", TRUE)), Opt("w", Dir("n", TRUE)), Opt("w", Dir("n", FALSE)), Opt("D", "out"), Opt("d", "in"),
   Opt("r", <<"/d/a", "none">>), Opt("R", NULL), Opt("t", 5), Opt("t", -1),
   Opt("l", <<"/d/a">>), Opt("u", <<"/d/a">>), Opt("c", <<"/d/b">>), Opt("n", "3")}

MCOthers == [op: {"LOCK_FILE", "UNLOCK_FILE", "REMOVE_FILE"}, key: {"/d/a"}, fd: {5}, arg: {0}]
              \cup [op: {"OPEN_FILE_CREATE"}, key: {"/d/b"}, fd: {5}, arg: {0}]
=============================================================================
