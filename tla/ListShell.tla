------------------------------ MODULE ListShell ------------------------------
(***************************************************************************)
(* npg_shell.c: the shell that keeps its search paths and its stack of     *)
(* directories in linked lists, the newest element first.                  *)
(***************************************************************************)
EXTENDS ShellWorld

VARIABLES
  head,  \* the list of search paths
  node   \* the stack of directories

listVars == <<head, node>>

ListInit == head = <<>> /\ node = <<>>

(* manip_path.  Only one name is looked at, and it is compared, or opened, *)
(* without a test whether it is there at all.                              *)
ListPathPlus(line) ==
  /\ Arg(line, 1) = "+" /\ Arg(line, 2) # Null
  /\ head' = IF Contains(head, Arg(line, 2)) \/ Arg(line, 2) \notin exists
             THEN head ELSE <<Arg(line, 2)>> \o head
  /\ Stay

ListPathMinus(line) ==
  /\ Arg(line, 1) = "-" /\ Arg(line, 2) # Null
  /\ head' = RemoveFirst(head, Arg(line, 2))
  /\ Stay

ListPathNull(line) ==
  /\ Arg(line, 1) \in {"+", "-"} /\ Arg(line, 2) = Null
  /\ \/ (Arg(line, 1) = "+" \/ head # <<>>) /\ Die
     \/ head = <<>> /\ Stay
  /\ UNCHANGED head

ListPath(line) ==
  /\ Arg(line, 0) = "path"
  /\ \/ ListPathPlus(line) \/ ListPathMinus(line) \/ ListPathNull(line)
     \/ Arg(line, 1) \notin {"+", "-"} /\ UNCHANGED head /\ Stay
  /\ UNCHANGED node

(* cd and pushd refuse a second argument.  Without any, the argument vector *)
(* ends early and chdir(NULL) fails.                                        *)
TooMany(line) == Arg(line, 2) # Null

ListCd(line) ==
  /\ Arg(line, 0) = "cd"
  /\ IF ~TooMany(line) /\ CanEnter(Arg(line, 1)) THEN Enter(Arg(line, 1)) ELSE Stay
  /\ UNCHANGED listVars

ListPushd(line) ==
  /\ Arg(line, 0) = "pushd"
  /\ IF ~TooMany(line) /\ CanEnter(Arg(line, 1))
     THEN node' = <<CwdName>> \o node /\ Enter(Arg(line, 1))
     ELSE UNCHANGED node /\ Stay
  /\ UNCHANGED head

(* The popped directory is gone from the stack also when it cannot be *)
(* entered any more.                                                  *)
ListPopd(line) ==
  /\ Arg(line, 0) = "popd"
  /\ IF node = <<>>
     THEN UNCHANGED node /\ Stay
     ELSE node' = Tail(node) /\ Enter(IF CanEnter(Head(node)) THEN Head(node) ELSE cwd)
  /\ UNCHANGED head

ListExit(line) == Arg(line, 0) = "exit" /\ Die /\ UNCHANGED listVars

(* dir prints the stack; a blank line is read over. *)
ListNothing(line) == Arg(line, 0) \in {"dir", Null} /\ Stay /\ UNCHANGED listVars

(* get_cmd_location: the current directory, if getcwd gave its name, then the *)
(* list from its head.                                                        *)
ListLocation ==
  LET found == SelectInSeq(head, LAMBDA p : p \in Holders)
  IN  IF CwdName \in Holders THEN cwd ELSE IF found = 0 THEN Nowhere ELSE head[found]

(* execute_cmd; the fork may fail. *)
ListRun(line) ==
  /\ Arg(line, 0) = Program
  /\ \E from \in IF CutNeverEnds(Arg(line, 1), Arg(line, 2)) THEN {Nowhere} ELSE {ListLocation, Nowhere} :
       Launch(from, CutFile(Arg(line, 1), Arg(line, 2)))
  /\ UNCHANGED listVars

(* The shell waits for a program that does not come back. *)
ListWaitsForEver(line) ==
  /\ Arg(line, 0) = Program
  /\ ListLocation # Nowhere
  /\ CutNeverEnds(Arg(line, 1), Arg(line, 2))
  /\ files' \in CutFile(Arg(line, 1), Arg(line, 2))
  /\ up' = FALSE
  /\ UNCHANGED <<exists, cwd, disk, ran, listVars>>

(* One pass of the loop in main. *)
ListShellLine(line) ==
  \/ ListPath(line) \/ ListCd(line) \/ ListPushd(line) \/ ListPopd(line)
  \/ ListExit(line) \/ ListNothing(line) \/ ListRun(line) \/ ListWaitsForEver(line)
=============================================================================
