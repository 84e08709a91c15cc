------------------------------- MODULE Shells -------------------------------
(***************************************************************************)
(* A user at one of the two shells, the programs that the shell runs, and   *)
(* somebody else who removes directories meanwhile.                         *)
(***************************************************************************)
EXTENDS ListShell, ArrayShell

CONSTANTS
  Lines,    \* bound: the lines that the user may type
  MaxLines  \* bound: how many lines the user types

(* A line is a sequence of words, those of a path command from the third on *)
(* being names.                                                             *)
ASSUME ShellsAssumption ==
  /\ Lines \subseteq Seq(UNION {ToSet(line) : line \in Lines})
  /\ \A line \in Lines : Arg(line, 0) = "path" => \A n \in 3 .. Len(line) : line[n] \in Names
  /\ Wild \notin Names
  /\ MaxLines \in Nat

VARIABLES
  which,  \* "list" or "array": the shell that runs
  typed   \* the number of lines typed so far

vars == <<world, listVars, arrayVars, which, typed>>

Init ==
  /\ WorldInit
  /\ ListInit
  /\ ArrayInit
  /\ which \in {"list", "array"}
  /\ typed = 0

Type(line) ==
  /\ up
  /\ typed < MaxLines
  /\ typed' = typed + 1
  /\ \/ which = "list" /\ ListShellLine(line) /\ UNCHANGED arrayVars
     \/ which = "array" /\ ArrayShellLine(line) /\ UNCHANGED listVars
  /\ UNCHANGED which

Elsewhere ==
  /\ up
  /\ \E d \in Dirs : Vanish(d)
  /\ UNCHANGED <<listVars, arrayVars, which, typed>>

Next == (\E line \in Lines : Type(line)) \/ Elsewhere

Spec == Init /\ [][Next]_vars

-----------------------------------------------------------------------------
(* Properties. *)

(* Both shells are the one shell that Shell describes, whatever they store it *)
(* in: popd takes the directory that was pushed last, also when the array has *)
(* grown; the search paths stay in their order, none of them twice, whatever  *)
(* is added or removed and whatever words a line has lost; and a program is   *)
(* run from the first place that has it.                                      *)
Sh == INSTANCE Shell WITH
        stack <- IF which = "list" THEN node ELSE Reverse(dirc),
        paths <- IF which = "list" THEN head ELSE path_list
ImplementsShell == Sh!Spec

(* A line about paths is obeyed to its last word, and the shell survives it,  *)
(* as long as all its words are safe: whenever the table of words is doubled, *)
(* the path list has places for the words read so far, and no more than the   *)
(* table has.  The path list itself may be doubled in the middle of the line. *)
WordsAreSafe(line) ==
  \A places \in Doublings(line) : places - 1 <= max_paths /\ max_paths <= places
Obeyed(line) ==
  \A n \in 3 .. Len(line) :
    CASE line[2] = "+" -> Contains(path_list', line[n])
      [] line[2] = "-" -> ~Contains(path_list', line[n])
      [] OTHER -> TRUE
PathLinesObeyed ==
  [][\A line \in Lines :
       which = "array" /\ Arg(line, 0) = "path" /\ WordsAreSafe(line) /\ Type(line)
         => up' /\ Obeyed(line)]_vars

(* No file is lost or doubled: unless the disk is full, its whole contents    *)
(* are in exactly one place, whatever is moved where, whatever was in the way, *)
(* and although a move that fails may leave an empty file behind.              *)
FilesKept ==
  disk = "room" =>
    \A f \in {name \in FileNames : IsFile(name)} :
      \E d \in Dirs, g \in FileNames :
        \A e \in Dirs, h \in FileNames :
          files[e][h] = InitialFile[f] <=> e = d /\ h = g
=============================================================================
