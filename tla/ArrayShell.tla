----------------------------- MODULE ArrayShell -----------------------------
(***************************************************************************)
(* shell.c: the shell that keeps its search paths, its stack of directories *)
(* and the words of a line in arrays that are doubled when they are full.   *)
(* An array is modelled by the elements in use, oldest first: no_of_paths   *)
(* and top are their number less one.  What lies beyond is never read, but  *)
(* for the words that a line has lost.                                      *)
(***************************************************************************)
EXTENDS ShellWorld

CONSTANTS
  MaxTokens,  \* max_tokens at the beginning of parse, 10 in the code
  MaxPaths,   \* max_paths at the beginning, 5
  Capacity,   \* capacity at the beginning, 5
  Leftovers   \* the names to which freed memory may still point

(* The first three words of a line are never lost, see Lost. *)
ASSUME ArrayShellAssumption ==
  /\ MaxTokens \in Nat \ {0, 1} /\ MaxPaths \in Nat \ {0, 1, 2} /\ Capacity \in Nat \ {0}
  /\ Leftovers \subseteq Names

VARIABLES
  path_list,  \* the search paths
  max_paths,  \* the places there are for them
  dirc,       \* the stack of directories
  capacity    \* the places there are for them

arrayVars == <<path_list, max_paths, dirc, capacity>>

ArrayInit ==
  /\ path_list = <<>> /\ max_paths = MaxPaths
  /\ dirc = <<>> /\ capacity = Capacity

(* The first places of an array are copied to one of twice the size. *)
Copied_OneShort(array, places) == SubSeq(array, 1, places - 1)
Copied(array, places) == SubSeq(array, 1, places)

-----------------------------------------------------------------------------
(* parse.  With one word less than it has places the table is doubled, as   *)
(* often as the line is long enough for it.                                 *)
Doublings(line) ==
  {places \in 1 .. Len(line) + 1 : \E k \in 0 .. Len(line) : places = MaxTokens * 2^k}

(* As many words are copied as the path list has places, not the table.  The *)
(* words beyond are lost: in their places is what freed memory has left, that *)
(* is NULL, which ends the line, a pointer that cannot be used, or one to a   *)
(* word of an earlier line.                                                   *)
Wild == "wild"
Lost(line) == {n \in 1 .. Len(line) : n > max_paths /\ \E places \in Doublings(line) : n < places}
Tokens(line) ==
  LET lost == Lost(line) IN
  {[n \in 1 .. last |-> IF n \in lost THEN found[n] ELSE line[n]] :
     last \in {Len(line)} \cup {n - 1 : n \in lost}, found \in [lost -> {Wild} \cup Leftovers]}

(* With more places than the old table has the copy reads beyond that, which *)
(* may be fatal; with more than the new one has it also writes beyond that,  *)
(* and nothing is known of the shell from then on.                           *)
ReadsBeyond(line) == \E places \in Doublings(line) : max_paths > places
WritesBeyond(line) == \E places \in Doublings(line) : max_paths > 2 * places
ArrayOverrun(line) == ReadsBeyond(line) /\ Die /\ UNCHANGED arrayVars

(* A bare newline is read over, but in a line of blanks there is no first word *)
(* for strcmp.                                                                 *)
ArrayBlank(args) == args = <<>> /\ (Stay \/ Die) /\ UNCHANGED arrayVars

-----------------------------------------------------------------------------
(* path_plus, for one name; it need not exist. *)
PathPlus_LostWhenFull(list, name) ==
  IF Contains(list.names, name) THEN list
  ELSE IF Len(list.names) = list.places THEN [list EXCEPT !.places = 2 * @]
  ELSE [list EXCEPT !.names = Append(@, name)]
PathPlus(list, name) ==
  IF Contains(list.names, name) THEN list
  ELSE IF Len(list.names) = list.places
  THEN [names |-> Append(Copied(list.names, list.places), name), places |-> 2 * list.places]
  ELSE [list EXCEPT !.names = Append(@, name)]

(* The loops over the names of a line; path_minus moves those behind the name *)
(* up by one place.                                                           *)
AllPlus(list, names) ==
  LET after[n \in 0 .. Len(names)] ==
        IF n = 0 THEN list ELSE PathPlus(after[n - 1], names[n])
  IN  after[Len(names)]
AllMinus(list, names) ==
  LET after[n \in 0 .. Len(names)] ==
        IF n = 0 THEN list ELSE RemoveFirst(after[n - 1], names[n])
  IN  after[Len(names)]

ArrayPathPlus(names) ==
  LET list == AllPlus([names |-> path_list, places |-> max_paths], names)
  IN  path_list' = list.names /\ max_paths' = list.places

ArrayPathMinus(names) == path_list' = AllMinus(path_list, names) /\ UNCHANGED max_paths

ArrayPath(args) ==
  LET names == SubSeq(args, 3, Len(args)) IN
  /\ Arg(args, 0) = "path"
  /\ IF Arg(args, 1) \in {"+", "-"} /\ Contains(names, Wild)
     THEN Die /\ UNCHANGED <<path_list, max_paths>>
     ELSE /\ Stay
          /\ CASE Arg(args, 1) = "+" -> ArrayPathPlus(names)
               [] Arg(args, 1) = "-" -> ArrayPathMinus(names)
               [] OTHER -> UNCHANGED <<path_list, max_paths>>
  /\ UNCHANGED <<dirc, capacity>>

-----------------------------------------------------------------------------
ArrayCd(args) ==
  /\ Arg(args, 0) = "cd"
  /\ IF CanEnter(Arg(args, 1)) THEN Enter(Arg(args, 1)) ELSE Stay
  /\ UNCHANGED arrayVars

(* The stack is doubled before it is known whether the push succeeds. *)
ArrayPushd(args) ==
  LET d     == Arg(args, 1)
      grows == d # Null /\ Len(dirc) = capacity
      stack == IF grows THEN Copied(dirc, capacity) ELSE dirc
  IN
  /\ Arg(args, 0) = "pushd"
  /\ capacity' = IF grows THEN 2 * capacity ELSE capacity
  /\ IF CanEnter(d) THEN dirc' = Append(stack, CwdName) /\ Enter(d) ELSE dirc' = stack /\ Stay
  /\ UNCHANGED <<path_list, max_paths>>

(* Whether the chdir succeeds is not asked. *)
ArrayPopd(args) ==
  /\ Arg(args, 0) = "popd"
  /\ IF dirc = <<>>
     THEN UNCHANGED dirc /\ Stay
     ELSE dirc' = Front(dirc) /\ Enter(IF CanEnter(Last(dirc)) THEN Last(dirc) ELSE cwd)
  /\ UNCHANGED <<path_list, max_paths, capacity>>

ArrayExit(args) == Arg(args, 0) = "exit" /\ Die /\ UNCHANGED arrayVars
ArrayNothing(args) == Arg(args, 0) \in {"dir", "help"} /\ Stay /\ UNCHANGED arrayVars

-----------------------------------------------------------------------------
(* search_dir: the current directory, then the array from its beginning. *)
ArrayLocation ==
  LET found == SelectInSeq(path_list, LAMBDA p : p \in Holders)
  IN  IF cwd \in Holders THEN cwd ELSE IF found = 0 THEN Nowhere ELSE path_list[found]

(* new_cmd_launch; the fork may fail, and execv does on an unusable pointer. *)
ArrayRun(args) ==
  /\ Arg(args, 0) = Program
  /\ \E from \in IF Contains(args, Wild) THEN {Nowhere} ELSE {ArrayLocation, Nowhere} :
       Launch(from, MoveFile(Arg(args, 1), Arg(args, 2)))
  /\ UNCHANGED arrayVars

(* execute. *)
ArrayCommand(args) ==
  \/ ArrayBlank(args) \/ ArrayPath(args) \/ ArrayCd(args) \/ ArrayPushd(args)
  \/ ArrayPopd(args) \/ ArrayExit(args) \/ ArrayNothing(args) \/ ArrayRun(args)

(* One pass of the loop in shell_loop. *)
ArrayShellLine(line) ==
  \/ ArrayOverrun(line)
  \/ ~WritesBeyond(line) /\ \E args \in Tokens(line) : ArrayCommand(args)
=============================================================================
