----------------------------- MODULE ShellWorld -----------------------------
(***************************************************************************)
(* What the two shells work on: directories, the current directory, and    *)
(* the files of the user, together with the two programs that move a file: *)
(* cutp.c, which comes with the first shell, and module1.c, which comes    *)
(* with the second.  A shell waits for the program that it has started, so *)
(* that a run of a program is one step.                                    *)
(*                                                                         *)
(* A file's contents are a value; Torn stands for any that was not written *)
(* to its end, Empty for none, and Folder for those of a directory.  A line *)
(* is a sequence of words.                                                 *)
(***************************************************************************)
EXTENDS Integers, SequencesExt

CONSTANTS
  Dirs,         \* the directories, by their absolute names
  Names,        \* what the user may give as a path, the directories included
  Fleeting,     \* bound: the directories that somebody else may remove
  Deep,         \* those whose names are too long for the buffer given to getcwd
  Holders,      \* the directories in which the program that moves files lies
  Home,         \* where the shell is started
  FileNames,    \* the names of files, and of directories within a directory
  InitialFile,  \* the contents of those in Home
  Absent, Empty, Torn, Folder,
  Program,      \* the word that runs the program
  Null,         \* an argument that is not there
  Nowhere,
  Junk          \* what a buffer holds when getcwd has failed

(* A directory that holds the program is not empty, and stays. *)
ASSUME ShellWorldAssumption ==
  /\ Dirs \subseteq Names
  /\ Fleeting \subseteq Dirs
  /\ Deep \subseteq Dirs
  /\ Holders \subseteq Dirs \ Fleeting
  /\ Home \in Dirs
  /\ Nowhere \notin Dirs
  /\ Junk \notin Names

(* The first word of a line tells what is wanted.  The contents of the user's *)
(* files tell the files apart, and none of them is what a move may leave.     *)
Commands == {"path", "cd", "pushd", "popd", "dir", "help", "exit"}
ASSUME WordsAssumption == Program \notin Commands /\ Null \notin Commands
IsFile(f) == InitialFile[f] # Folder
ASSUME FilesAssumption ==
  /\ \A f \in FileNames : InitialFile[f] \notin {Absent, Empty, Torn}
  /\ \A f, g \in FileNames : IsFile(f) /\ InitialFile[f] = InitialFile[g] => f = g
  /\ Folder \notin {Absent, Empty, Torn}

VARIABLES
  exists,  \* the directories that exist now
  cwd,     \* the current directory of the shell
  files,   \* the contents of the files of each directory, or Absent
  disk,    \* "room", or "full" if a write may fail
  ran,     \* the directory from which the last line has run the program
  up       \* does the shell still read lines?

world == <<exists, cwd, files, disk, ran, up>>

WorldInit ==
  /\ exists = Dirs
  /\ cwd = Home
  /\ files = [d \in Dirs |-> [f \in FileNames |-> IF d = Home THEN InitialFile[f] ELSE Absent]]
  /\ disk \in {"room", "full"}
  /\ ran = Nowhere
  /\ up = TRUE

Arg(line, n) == IF n < Len(line) THEN line[n + 1] ELSE Null

(* chdir fails for what is not a directory (any more), and so for Junk. *)
CanEnter(d) == d \in exists

(* getcwd fails in a directory that is gone, and where the name is too long; *)
(* neither shell looks at what it returned.                                  *)
CwdName == IF cwd \in exists \ Deep THEN cwd ELSE Junk

(* Somebody else removes an empty directory, the shell's own perhaps. *)
Vanish(d) ==
  /\ d \in Fleeting \cap exists
  /\ \A f \in FileNames : files[d][f] = Absent
  /\ exists' = exists \ {d}
  /\ UNCHANGED <<cwd, files, disk, ran, up>>

-----------------------------------------------------------------------------
(* Both programs copy and then delete, and neither looks at what write     *)
(* returned: on a full disk the copy may be torn.                          *)
Copies(contents) == IF disk = "room" THEN {contents} ELSE {contents, Torn}

Moved(d, f, dir, name) ==
  {[files EXCEPT ![dir][name] = copy, ![d][f] = Absent] : copy \in Copies(files[d][f])}

Taken_Ignored(dir, name) == FALSE
Taken(dir, name) == files[dir][name] # Absent

(* cutp src dst: dst is created, O_EXCL, before it is known whether src could *)
(* be opened, and stays behind empty when it could not.  In a directory that   *)
(* is gone there is no src, and no dst can be created.                         *)
CanCreate(dst) == cwd \in exists /\ dst \in FileNames /\ ~Taken(cwd, dst)
HasFile(src) == src \in FileNames /\ files[cwd][src] \notin {Absent, Folder}
CutFile(src, dst) ==
  IF ~CanCreate(dst) THEN {files}
  ELSE IF ~HasFile(src) THEN {[files EXCEPT ![cwd][dst] = Empty]}
  ELSE Moved(cwd, src, cwd, dst)

(* Of a directory, cutp reads errors for ever, as it stops at 0 bytes only. *)
IsFolder(src) == src \in FileNames /\ files[cwd][src] = Folder
CutNeverEnds(src, dst) == (src \in exists \/ IsFolder(src)) /\ CanCreate(dst)

(* module1 src dir: the new file is dir/src, and must not exist.  Of a directory *)
(* nothing is read, so that nothing is written, and unlink refuses it.            *)
MoveFile(src, dir) ==
  IF \/ ~HasFile(src) /\ ~IsFolder(src)
     \/ dir \notin exists \/ Taken(dir, src)
  THEN {files}
  ELSE IF IsFolder(src) THEN {[files EXCEPT ![dir][src] = Empty]}
  ELSE Moved(cwd, src, dir, src)

(* The shell runs the program in from, whose effect on the files is one of *)
(* results; Nowhere if it was not found or could not be started.           *)
Launch(from, results) ==
  /\ ran' = from
  /\ IF from = Nowhere THEN UNCHANGED files ELSE files' \in results
  /\ UNCHANGED <<exists, cwd, disk, up>>

Enter(d) == cwd' = d /\ ran' = Nowhere /\ UNCHANGED <<exists, files, disk, up>>
Stay == Enter(cwd)
Die == up' = FALSE /\ UNCHANGED <<exists, cwd, files, disk, ran>>
=============================================================================
