------------------------------ MODULE FtpServer ------------------------------
(***************************************************************************)
(* The session threads (runner) of the FTP server.  Each serves one client *)
(* over one connection, but all of them share the process: its current     *)
(* directory and, as globals, the receive buffer buf, the command word,    *)
(* the file name and the stat record obj.  A mutex is held from the        *)
(* parsing of a command until its files are open; the receive into buf,    *)
(* the reply and the two bzero calls at the end of the loop run outside.   *)
(* The output of ls and chmod goes through /tmp/temps.txt, shared as well. *)
(*                                                                         *)
(* A step is the code between two accesses to what the threads share.      *)
(* Abstracted: a command is one message, received in one piece but perhaps *)
(* together with those behind it, a reply one item, file contents a number *)
(* of blocks that are no commands, an output its provenance and its length. *)
(***************************************************************************)
EXTENDS Integers, Sequences, FiniteSets

CONSTANTS
  Runners,      \* the session threads, each named after its connection
  Dirs,         \* the directories of the server's file system
  Home,         \* the directory in which the server was started
  Resolve,      \* Resolve[d][path]: where chdir(path) leads from d, or NoDir
  NoDir,        \* no such directory; as a name, the empty one
  Deep,         \* the directories whose names take 100 characters or more
  Refused,      \* <<d, word>>: d does not let the server create a file word
  InitialFiles, \* InitialFiles[d]: file name -> length, when the server starts
  Free          \* the owner of the mutex when no thread holds it

ASSUME FtpServerAssumption ==
  /\ Home \in Dirs
  /\ NoDir \notin Dirs
  /\ Free \notin Runners
  /\ \A d \in Dirs : \A path \in DOMAIN Resolve[d] : Resolve[d][path] \in Dirs \cup {NoDir}
  /\ Deep \subseteq Dirs
  /\ DOMAIN InitialFiles = Dirs
  /\ \A d \in Dirs :
       /\ IsFiniteSet(DOMAIN InitialFiles[d])
       /\ \A name \in DOMAIN InitialFiles[d] : InitialFiles[d][name] \in Nat

VARIABLES
  lock,      \* the thread that holds the mutex, or Free
  cwd,       \* the current directory of the process
  buf,       \* global: the command last received
  command,   \* global: the command word last parsed
  filename,  \* global: the file name last parsed
  obj,       \* global: st_size of the last successful stat
  exists,    \* the directories that have not been removed
  files,     \* the files of each directory and their lengths
  temps,     \* /tmp/temps.txt, or NoText while the name does not exist
  pc,        \* where each thread is
  pwd,       \* runner(): the directory of the session, NoDir while it is ""
  fd,        \* runner(): the open file, or NoFd
  size,      \* runner(): the length promised to the client
  c,         \* runner(): whether the last chdir succeeded
  inbox,     \* what each client has sent and the server has not received
  outbox,    \* what the server has sent and the client has not received
  gone       \* the clients that have closed their side of the connection

globals == <<buf, command, filename, obj>>
disk == <<exists, files, temps>>
locals == <<pwd, fd, size, c>>
wires == <<inbox, outbox, gone>>
serverVars == <<lock, cwd, globals, disk, pc, locals, wires>>

-----------------------------------------------------------------------------
(* A command is a word and an argument; a file name is what the client typed *)
(* and the number of 1s that put has appended to it.                         *)
Blank == [verb |-> "", arg |-> ""]
Data == [verb |-> "data", arg |-> ""]
NameOf(word) == <<word, 0>>
Garbled == [verb |-> "?", arg |-> ""]
NoFd == [kind |-> "none"]
FileFd(d, name) == [kind |-> "file", dir |-> d, name |-> name]
TempsFd == [kind |-> "temps"]
OrphanFd(text) == [kind |-> "orphan", text |-> text]
NoText == [by |-> {}, len |-> -1]

Goto(r, place) == pc' = [pc EXCEPT ![r] = place]
Reply(r, item) == outbox' = [outbox EXCEPT ![r] = Append(@, item)]

(* The client sends no final 0 either: n messages that have queued up may be *)
(* received as one, the second glued to the last word of the first.          *)
Arrived(queue, n) ==
  CASE n = 1                -> Head(queue)
    [] n > 1 /\ Head(queue).arg = "" -> Garbled
    [] OTHER                -> [Head(queue) EXCEPT !.arg = "?"]

(* recv writes what has arrived over the front of buf and adds no final 0:  *)
(* unless buf was blank, the end of an older, longer command may stay behind *)
(* it, as a further argument or, if there was none, glued to the word.       *)
Received(m) ==
  {m} \cup (IF buf = Blank THEN {}
            ELSE {[m EXCEPT !.arg = "?"]} \cup
                 (IF m.arg = "" THEN {Garbled} ELSE {}))

(* sscanf(buf, "%s%s", filename, filename): the second word if there is one, *)
(* else the first, else filename stays as it was.                            *)
FileNamed ==
  CASE buf = Blank  -> filename
    [] buf.arg # "" -> NameOf(buf.arg)
    [] OTHER        -> NameOf(buf.verb)

(* chdir(pwd), with c for its outcome: when the directory of the session is *)
(* gone or was never known, the process stays wherever it is.               *)
EnterOwnDirectory(r) ==
  /\ cwd' = IF pwd[r] \in exists THEN pwd[r] ELSE cwd
  /\ c' = [c EXCEPT ![r] = IF pwd[r] \in exists THEN 1 ELSE 0]

(* getcwd(name, 100) while the process is in d: it fails, and leaves the old *)
(* name, when d is gone or its name does not fit.                            *)
Getcwd(d, old) == IF d \in exists \ Deep THEN d ELSE old

(* open(name, O_CREAT | O_EXCL) in d fails whatever is appended to the name. *)
Refuses(d, name) == d \notin exists \/ <<d, name[1]>> \in Refused

(* The name that put opens: sprintf appends a 1 until O_EXCL succeeds. *)
FreshName_Clobbers(d, name) == name
FreshName(d, name) ==
  LET k == CHOOSE n \in name[2] .. name[2] + Cardinality(DOMAIN files[d]) :
             /\ <<name[1], n>> \notin DOMAIN files[d]
             /\ \A m \in name[2] .. n - 1 : <<name[1], m>> \in DOMAIN files[d]
  IN  <<name[1], k>>

(* The output of the program that buf names, run in d: ls lists one line per *)
(* file, chmod is silent, anything else leaves a line of complaint.          *)
Output(d) ==
  [by  |-> {<<buf, d>>},
   len |-> CASE buf.verb = "ls" /\ buf.arg = "" -> Cardinality(DOMAIN files[d])
             [] buf.verb = "chmod" -> 0
             [] OTHER -> 1]

(* The child opens temps.txt without O_TRUNC and writes from its start. *)
Overwrite(old, new) ==
  IF old.len <= new.len THEN new
  ELSE [by |-> new.by \cup old.by, len |-> old.len]

ServerInit ==
  /\ lock = Free
  /\ cwd = Home
  /\ buf = Blank
  /\ command = ""
  /\ filename = NameOf("")
  /\ obj = 0
  /\ exists = Dirs
  /\ files = InitialFiles
  /\ temps = NoText
  /\ pc = [r \in Runners |-> "start"]
  /\ pwd = [r \in Runners |-> NoDir]
  /\ fd = [r \in Runners |-> NoFd]
  /\ size = [r \in Runners |-> 0]
  /\ c = [r \in Runners |-> 0]
  /\ inbox = [r \in Runners |-> <<>>]
  /\ outbox = [r \in Runners |-> <<>>]
  /\ gone = {}

-----------------------------------------------------------------------------
(* The loop of runner up to the branch on the command word. *)

(* getcwd(pwd): a session starts wherever the process happens to be, or, if *)
(* that has no name that fits, with an empty one.                           *)
Start(r) ==
  /\ pc[r] = "start"
  /\ pwd' = [pwd EXCEPT ![r] = Getcwd(cwd, NoDir)]
  /\ Goto(r, "recv")
  /\ UNCHANGED <<lock, cwd, globals, disk, fd, size, c, wires>>

RecvCommand(r) ==
  /\ pc[r] = "recv"
  /\ inbox[r] # <<>>
  /\ \E n \in 1 .. Len(inbox[r]) :
       /\ buf' \in Received(Arrived(inbox[r], n))
       /\ inbox' = [inbox EXCEPT ![r] = SubSeq(@, n + 1, Len(@))]
  /\ Goto(r, "lock")
  /\ UNCHANGED <<lock, cwd, command, filename, obj, disk, locals, outbox, gone>>

(* recv returns 0 when the client is gone; the socket stays open. *)
RecvEnd(r) ==
  /\ pc[r] = "recv"
  /\ inbox[r] = <<>> /\ r \in gone
  /\ Goto(r, "exit")
  /\ UNCHANGED <<lock, cwd, globals, disk, locals, wires>>

Acquire(r) ==
  /\ pc[r] = "lock"
  /\ lock = Free
  /\ lock' = r
  /\ Goto(r, "parse")
  /\ UNCHANGED <<cwd, globals, disk, locals, wires>>

(* sscanf(buf, "%s", command) leaves command alone when buf is blank. *)
ParseCommand(r) ==
  /\ pc[r] = "parse"
  /\ command' = IF buf = Blank THEN command ELSE buf.verb
  /\ Goto(r, "dispatch")
  /\ UNCHANGED <<lock, cwd, buf, filename, obj, disk, locals, wires>>

Dispatch(r) ==
  /\ pc[r] = "dispatch"
  /\ Goto(r, CASE command \in {"ls", "chmod"} -> "run"
               [] command \in {"get", "put", "pwd", "cd", "close"} -> command
               [] OTHER -> "unknown")
  /\ UNCHANGED <<lock, cwd, globals, disk, locals, wires>>

-----------------------------------------------------------------------------
(* ls and chmod: run a program with its output in /tmp/temps.txt; when fork *)
(* fails, nothing is written there and the server goes on all the same.     *)

RunCommand_NoChdir(r) ==
  /\ pc[r] = "run"
  /\ temps' = Overwrite(temps, Output(cwd))
  /\ Goto(r, "stat")
  /\ UNCHANGED <<lock, cwd, globals, exists, files, locals, wires>>
RunCommand(r) ==
  /\ pc[r] = "run"
  /\ EnterOwnDirectory(r)
  /\ temps' \in {Overwrite(temps, Output(cwd')), temps}
  /\ Goto(r, "stat")
  /\ UNCHANGED <<lock, globals, exists, files, pwd, fd, size, wires>>

(* A stat of a name that is gone leaves the previous size in obj. *)
StatSize == IF temps = NoText THEN obj ELSE temps.len

StatOutput(r) ==
  /\ pc[r] = "stat"
  /\ obj' = StatSize
  /\ size' = [size EXCEPT ![r] = obj']
  /\ Goto(r, "open")
  /\ UNCHANGED <<lock, cwd, buf, command, filename, disk, pwd, fd, c, wires>>

OpenOutput(r) ==
  /\ pc[r] = "open"
  /\ fd' = [fd EXCEPT ![r] = IF temps = NoText THEN NoFd ELSE TempsFd]
  /\ lock' = Free
  /\ Goto(r, "list")
  /\ UNCHANGED <<cwd, globals, disk, pwd, size, c, wires>>

(* send(size), sendfile and close: what is in the file by now goes out. *)
SendListing(r) ==
  /\ pc[r] = "list"
  /\ Reply(r, [kind |-> "listing", size |-> size[r],
               text |-> CASE fd[r] = TempsFd -> temps
                          [] fd[r] = NoFd    -> NoText
                          [] OTHER           -> fd[r].text])
  /\ fd' = [fd EXCEPT ![r] = NoFd]
  /\ Goto(r, "remove")
  /\ UNCHANGED <<lock, cwd, globals, disk, pwd, size, c, inbox, gone>>

(* remove("/tmp/temps.txt"), whoever has written to it since; a thread that *)
(* still has it open keeps what it then held.                               *)
RemoveOutput_Kept(r) ==
  /\ pc[r] = "remove"
  /\ Goto(r, "clearBuf")
  /\ UNCHANGED <<lock, cwd, globals, disk, locals, wires>>
RemoveOutput(r) ==
  /\ pc[r] = "remove"
  /\ temps' = NoText
  /\ fd' = [s \in Runners |-> IF fd[s] = TempsFd THEN OrphanFd(temps) ELSE fd[s]]
  /\ Goto(r, "clearBuf")
  /\ UNCHANGED <<lock, cwd, globals, exists, files, pwd, size, c, wires>>

-----------------------------------------------------------------------------
(* get and put. *)

GetFile(r) ==
  LET name == FileNamed
      found == name \in DOMAIN files[cwd'] IN
  /\ pc[r] = "get"
  /\ EnterOwnDirectory(r)
  /\ filename' = name
  /\ obj' = IF found THEN files[cwd'][name] ELSE obj
  /\ fd' = [fd EXCEPT ![r] = IF found THEN FileFd(cwd', name) ELSE NoFd]
  /\ size' = [size EXCEPT ![r] = IF found THEN obj' ELSE 0]
  /\ lock' = Free
  /\ Goto(r, "sendFile")
  /\ UNCHANGED <<buf, command, disk, pwd, wires>>

SendFile(r) ==
  /\ pc[r] = "sendFile"
  /\ Reply(r, [kind |-> "file", size |-> size[r], from |-> fd[r]])
  /\ fd' = [fd EXCEPT ![r] = NoFd]
  /\ Goto(r, "clearBuf")
  /\ UNCHANGED <<lock, cwd, globals, disk, pwd, size, c, inbox, gone>>

PutFile(r) ==
  /\ pc[r] = "put"
  /\ EnterOwnDirectory(r)
  /\ ~Refuses(cwd', FileNamed)
  /\ filename' = FreshName(cwd', FileNamed)
  /\ files' = [files EXCEPT ![cwd'] =
                 [n \in DOMAIN @ \cup {filename'} |-> IF n = filename' THEN 0 ELSE @[n]]]
  /\ fd' = [fd EXCEPT ![r] = FileFd(cwd', filename')]
  /\ lock' = Free
  /\ Goto(r, "ack")
  /\ UNCHANGED <<buf, command, obj, exists, temps, pwd, size, wires>>

(* Every failure to open counts as a name that exists: where no file can be *)
(* created the loop has no end, and it runs with the mutex held.  The name  *)
(* grows beyond filename[20] meanwhile, which may end the whole process.    *)
PutLoops(r) ==
  /\ pc[r] = "put"
  /\ EnterOwnDirectory(r)
  /\ Refuses(cwd', FileNamed)
  /\ filename' = FileNamed
  /\ Goto(r, "stuck")
  /\ UNCHANGED <<lock, buf, command, obj, disk, pwd, fd, size, wires>>

AckPut(r) ==
  /\ pc[r] = "ack"
  /\ Reply(r, [kind |-> "ack"])
  /\ Goto(r, "upload")
  /\ UNCHANGED <<lock, cwd, globals, disk, locals, inbox, gone>>

(* Whatever arrives now goes into the file, a command too. *)
StoreBlock(r) ==
  /\ pc[r] = "upload"
  /\ inbox[r] # <<>>
  /\ inbox' = [inbox EXCEPT ![r] = Tail(@)]
  /\ files' = [files EXCEPT ![fd[r].dir][fd[r].name] = @ + 1]
  /\ UNCHANGED <<lock, cwd, globals, exists, temps, pc, locals, outbox, gone>>

(* Nothing for five seconds, or the client is gone: the upload is complete. *)
EndUpload_AcksAgain(r) ==
  /\ pc[r] = "upload"
  /\ inbox[r] = <<>>
  /\ Reply(r, [kind |-> "ack"])
  /\ fd' = [fd EXCEPT ![r] = NoFd]
  /\ Goto(r, "clearBuf")
  /\ UNCHANGED <<lock, cwd, globals, disk, pwd, size, c, inbox, gone>>
UploadOver_OnlyEOF(r) == inbox[r] = <<>> /\ r \in gone
UploadOver(r) == inbox[r] = <<>>

EndUpload(r) ==
  /\ pc[r] = "upload"
  /\ UploadOver(r)
  /\ fd' = [fd EXCEPT ![r] = NoFd]
  /\ Goto(r, "clearBuf")
  /\ UNCHANGED <<lock, cwd, globals, disk, pwd, size, c, wires>>

-----------------------------------------------------------------------------
(* pwd, cd, close and everything else. *)

Pwd(r) ==
  /\ pc[r] = "pwd"
  /\ lock' = Free
  /\ Goto(r, "sendPwd")
  /\ UNCHANGED <<cwd, globals, disk, locals, wires>>

SendPwd(r) ==
  /\ pc[r] = "sendPwd"
  /\ Reply(r, [kind |-> "pwd", dir |-> pwd[r]])
  /\ Goto(r, "clearBuf")
  /\ UNCHANGED <<lock, cwd, globals, disk, locals, inbox, gone>>

(* chdir(buf + 3): relative to the directory the process is in.  The third  *)
(* byte begins a path if buf still holds a cd, or an ls of another session;  *)
(* what follows it in a buf that was overwritten may name any directory.     *)
Leads(d, path) == IF path \in DOMAIN Resolve[d] THEN Resolve[d][path] ELSE NoDir
CdTargets ==
  LET named == CASE buf.verb \in {"cd", "ls"} /\ buf.arg # "?" -> {Leads(cwd, buf.arg)}
                 [] buf.verb \in {"?", "data"} \/ buf.arg = "?" ->
                      {NoDir} \cup {Leads(cwd, path) : path \in DOMAIN Resolve[cwd]}
                 [] OTHER -> {NoDir}
  IN  {IF d \in exists \cup {cwd} THEN d ELSE NoDir : d \in named}

(* The status tells of the chdir only: that the session may not have got the *)
(* name of its new directory is not noticed.                                 *)
ChangeDirectory_NoGetcwd(r) ==
  /\ pc[r] = "cd"
  /\ \E target \in CdTargets :
       /\ c' = [c EXCEPT ![r] = IF target = NoDir THEN 0 ELSE 1]
       /\ cwd' = IF target = NoDir THEN cwd ELSE target
  /\ lock' = Free
  /\ Goto(r, "sendCd")
  /\ UNCHANGED <<globals, disk, pwd, fd, size, wires>>
ChangeDirectory(r) ==
  /\ pc[r] = "cd"
  /\ \E target \in CdTargets :
       /\ c' = [c EXCEPT ![r] = IF target = NoDir THEN 0 ELSE 1]
       /\ cwd' = IF target = NoDir THEN cwd ELSE target
  /\ pwd' = [pwd EXCEPT ![r] = Getcwd(cwd', @)]
  /\ lock' = Free
  /\ Goto(r, "sendCd")
  /\ UNCHANGED <<globals, disk, fd, size, wires>>

SendCd(r) ==
  /\ pc[r] = "sendCd"
  /\ Reply(r, [kind |-> "status", ok |-> c[r]])
  /\ Goto(r, "clearBuf")
  /\ UNCHANGED <<lock, cwd, globals, disk, locals, inbox, gone>>

Close(r) ==
  /\ pc[r] = "close"
  /\ lock' = Free
  /\ Goto(r, "bye")
  /\ UNCHANGED <<cwd, globals, disk, locals, wires>>

SendBye(r) ==
  /\ pc[r] = "bye"
  /\ Reply(r, [kind |-> "ack"])
  /\ Goto(r, "lastClearBuf")
  /\ UNCHANGED <<lock, cwd, globals, disk, locals, inbox, gone>>

Unknown_KeepsLock(r) ==
  /\ pc[r] = "unknown"
  /\ Goto(r, "clearBuf")
  /\ UNCHANGED <<lock, cwd, globals, disk, locals, wires>>
Unknown(r) ==
  /\ pc[r] = "unknown"
  /\ lock' = Free
  /\ Goto(r, "clearBuf")
  /\ UNCHANGED <<cwd, globals, disk, locals, wires>>

(* The two bzero calls at the end of the loop, and before the exit. *)
ClearBuf(r) ==
  /\ \/ pc[r] = "clearBuf" /\ Goto(r, "clearCommand")
     \/ pc[r] = "lastClearBuf" /\ Goto(r, "lastClearCommand")
  /\ buf' = Blank
  /\ UNCHANGED <<lock, cwd, command, filename, obj, disk, locals, wires>>

ClearCommand(r) ==
  /\ \/ pc[r] = "clearCommand" /\ Goto(r, "recv")
     \/ pc[r] = "lastClearCommand" /\ Goto(r, "exit")
  /\ command' = ""
  /\ UNCHANGED <<lock, cwd, buf, filename, obj, disk, locals, wires>>

-----------------------------------------------------------------------------
ReceiveStep(r) ==
  Start(r) \/ RecvCommand(r) \/ RecvEnd(r) \/ Acquire(r) \/ ParseCommand(r)
    \/ Dispatch(r) \/ ClearBuf(r) \/ ClearCommand(r)
ListStep(r) ==
  RunCommand(r) \/ StatOutput(r) \/ OpenOutput(r) \/ SendListing(r)
    \/ RemoveOutput(r)
TransferStep(r) ==
  GetFile(r) \/ SendFile(r) \/ PutFile(r) \/ PutLoops(r) \/ AckPut(r)
    \/ StoreBlock(r)
SessionStep(r) ==
  Pwd(r) \/ SendPwd(r) \/ ChangeDirectory(r) \/ SendCd(r) \/ Close(r)
    \/ SendBye(r) \/ Unknown(r)
RunnerStep(r) ==
  ReceiveStep(r) \/ ListStep(r) \/ TransferStep(r) \/ SessionStep(r)

Places ==
  {"start", "recv", "lock", "parse", "dispatch", "run", "stat", "open", "list",
   "remove", "get", "sendFile", "put", "stuck", "ack", "upload", "pwd", "sendPwd", "cd",
   "sendCd", "close", "bye", "unknown", "clearBuf", "clearCommand",
   "lastClearBuf", "lastClearCommand", "exit"}
Locked ==
  {"parse", "dispatch", "run", "stat", "open", "get", "put", "stuck", "pwd", "cd",
   "close", "unknown"}
=============================================================================
