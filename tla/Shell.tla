------------------------------- MODULE Shell -------------------------------
(***************************************************************************)
(* What both shells of the repository are, however they store it: a stack  *)
(* of directories on which pushd leaves the current one and from which     *)
(* popd returns to it, a list of search paths that holds nothing twice,    *)
(* and a program that is looked for in the current directory first and in  *)
(* the search paths then.                                                  *)
(***************************************************************************)
EXTENDS Integers, Sequences

CONSTANTS
  Dirs,     \* the directories
  Deep,     \* those whose names are too long to be asked for
  Names,    \* what a path may be called, the directories included
  Holders,  \* the directories that hold the user's program
  Nowhere,  \* no program was run
  Junk      \* what is pushed for a directory whose name cannot be had

VARIABLES
  exists,  \* the directories that exist now
  cwd,     \* the current directory
  stack,   \* the directories that were pushed, the last one first
  paths,   \* the search paths, in the order of the search
  ran,     \* from where the last line has run the program
  up       \* does the shell still read lines?

vars == <<exists, cwd, stack, paths, ran, up>>

Init ==
  /\ exists = Dirs
  /\ cwd \in Dirs
  /\ stack = <<>>
  /\ paths = <<>>
  /\ ran = Nowhere
  /\ up = TRUE

GoTo(d) == d \in exists /\ cwd' = d

Cd(d) == GoTo(d) /\ UNCHANGED <<stack, paths>>
Pushd(d) ==
  /\ GoTo(d)
  /\ stack' = <<IF cwd \in exists \ Deep THEN cwd ELSE Junk>> \o stack
  /\ UNCHANGED paths
Popd ==
  /\ stack # <<>>
  /\ stack' = Tail(stack)
  /\ IF Head(stack) \in exists THEN GoTo(Head(stack)) ELSE UNCHANGED cwd
  /\ UNCHANGED paths

(* Of a search list each element is there once. *)
Once(list) == \A i, j \in 1 .. Len(list) : list[i] = list[j] => i = j

(* New paths come all before the old ones or all behind them; those keep their *)
(* places among each other.                                                    *)
AddPaths ==
  /\ paths' \in Seq(Names)
  /\ Once(paths')
  /\ Len(paths) <= Len(paths')
  /\ \E before \in {0, Len(paths') - Len(paths)} :
       \A i \in 1 .. Len(paths) : paths'[before + i] = paths[i]

(* What is left when paths are removed keeps its order. *)
RemovePaths ==
  /\ paths' \in Seq(Names)
  /\ Once(paths')
  /\ \A i \in 1 .. Len(paths') : \E k \in 1 .. Len(paths) : paths'[i] = paths[k]
  /\ \A i, j \in 1 .. Len(paths') : i < j =>
       \E k, l \in 1 .. Len(paths) : k < l /\ paths'[i] = paths[k] /\ paths'[j] = paths[l]

ChangePaths == (AddPaths \/ RemovePaths) /\ UNCHANGED <<cwd, stack>>
Nothing == UNCHANGED <<cwd, stack, paths>>

Line ==
  /\ up
  /\ ran' = Nowhere
  /\ (\E d \in Dirs : Cd(d) \/ Pushd(d)) \/ Popd \/ ChangePaths \/ Nothing
  /\ UNCHANGED <<exists, up>>

(* A program is run from the current directory if it is there, else from the *)
(* first of the search paths that holds it.  A shell that has to know the     *)
(* name of the current directory may miss it there, if it cannot be had.      *)
IsFirst(i) == paths[i] \in Holders /\ \A k \in 1 .. i - 1 : paths[k] \notin Holders
Run ==
  /\ up
  /\ \/ cwd \in Holders /\ ran' = cwd
     \/ /\ cwd \notin Holders \ Deep
        /\ \E i \in 1 .. Len(paths) : IsFirst(i) /\ ran' = paths[i]
  /\ UNCHANGED <<exists, cwd, stack, paths, up>>

(* The user leaves, or the shell breaks down, waits for ever, or runs over its *)
(* own memory, after which this says nothing about it.                         *)
Stop == up /\ up' = FALSE /\ UNCHANGED <<exists, cwd, stack, paths, ran>>

(* Somebody else removes a directory. *)
Vanish(d) ==
  /\ d \in exists
  /\ exists' = exists \ {d}
  /\ UNCHANGED <<cwd, stack, paths, ran, up>>

Next == Line \/ Run \/ Stop \/ \E d \in Dirs : Vanish(d)

Spec == Init /\ [][Next]_vars
=============================================================================
