------------------------------- MODULE MCFtp -------------------------------
(* Ftp with the values TLC needs: a root directory with one file of length 2 *)
(* and a subdirectory sub, and in sub a directory deep whose name is too      *)
(* long; no file can be created in deep.                                      *)
EXTENDS Ftp, TLC

CONSTANTS c1, c2, root, sub, deep

OneClient == {c1}
TwoClients == {c1, c2}
ThreeDirectories == {root, sub, deep}
TwoDirectories == {root, sub}
Tree == root :> ("sub" :> sub @@ ".." :> root)
     @@ sub :> ("deep" :> deep @@ ".." :> root)
     @@ deep :> (".." :> sub)
SmallTree == root :> ("sub" :> sub @@ ".." :> root)
          @@ sub :> ("sub" :> NoDir @@ ".." :> root)
Files == root :> (<<"f", 0>> :> 2) @@ sub :> <<>> @@ deep :> <<>>
SmallFiles == root :> (<<"f", 0>> :> 2) @@ sub :> <<>>
OnlyDeep == {deep}
OnlySub == {sub}
Nothing == {}
NotInDeep == {<<deep, "f">>}

Cmd(verb, arg) == [verb |-> verb, arg |-> arg]
AllCommands ==
  {Cmd("ls", ""), Cmd("chmod", "f"), Cmd("get", "f"), Cmd("put", "f"),
   Cmd("pwd", ""), Cmd("cd", "sub"), Cmd("cd", "deep"), Cmd("cd", ".."), Cmd("close", "")}
ContendedCommands ==
  {Cmd("ls", ""), Cmd("get", "f"), Cmd("put", "f"), Cmd("cd", "sub")}
Symmetric == Permutations(Runners)
=============================================================================
