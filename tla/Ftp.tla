-------------------------------- MODULE Ftp --------------------------------
(***************************************************************************)
(* The FTP program: the session threads of FtpServer together with the     *)
(* clients and with a file system from which directories may disappear.    *)
(* A client (execute_server) sends one command and waits for its reply.    *)
(* Most commands set a five second receive timeout on the socket, which is *)
(* never taken back, so that later commands can time out as well.          *)
(*                                                                         *)
(* Time is not modelled: a timeout may fire at any moment of the wait.  One *)
(* that fires while there is still something to come is too early, and     *)
(* `hasty` remembers the connections on which that has happened: from then  *)
(* on the two sides may be out of step.                                    *)
(***************************************************************************)
EXTENDS FtpServer

CONSTANTS
  Commands,     \* what the users type and the client sends
  Fleeting,     \* the directories that others may remove, once they are empty
  MaxCommands,  \* bound: commands typed, by all users together
  MaxBlocks     \* bound: length of an uploaded file

Verbs == {"ls", "chmod", "get", "put", "pwd", "cd", "close"}

(* Any other word is refused by the client, which also breaks down at a get *)
(* without a name.                                                          *)
ASSUME FtpAssumption ==
  /\ MaxCommands \in Nat
  /\ MaxBlocks \in Nat
  /\ \A m \in Commands :
       /\ m = [verb |-> m.verb, arg |-> m.arg]
       /\ m.verb \in Verbs /\ m.arg # "?"
       /\ m.verb = "get" => m.arg # ""

VARIABLES
  at,     \* each client: "prompt", "wait", "upload", "reading" or "left"
  asked,  \* execute_server(): the command each client last sent
  armed,  \* the clients whose socket has the five second timeout set
  typed,  \* bound: how many commands have been typed
  place,  \* history: where each user expects the session to be; NoDir once
          \* it has gone to a directory whose name the session cannot know
  owed,   \* history: the commands each client has sent less the replies it got
  hasty   \* history: the connections on which a timeout has fired too early

history == <<place, owed, hasty>>
clientVars == <<at, asked, armed, typed, history>>
vars == <<serverVars, clientVars>>
serverOnly == <<lock, cwd, globals, disk, pc, locals>>

Nameable(d) == IF d \in Deep THEN NoDir ELSE d

Init ==
  /\ ServerInit
  /\ at = [r \in Runners |-> "prompt"]
  /\ asked = [r \in Runners |-> Blank]
  /\ armed = {}
  /\ typed = 0
  /\ place = [r \in Runners |-> Nameable(Home)]
  /\ owed = [r \in Runners |-> 0]
  /\ hasty = {}

-----------------------------------------------------------------------------
(* send(sock, buffer, strlen(buffer)), and the timeout where the code sets it. *)
SendCommand(r) ==
  /\ at[r] = "prompt"
  /\ typed < MaxCommands
  /\ \E m \in Commands :
       /\ asked' = [asked EXCEPT ![r] = m]
       /\ inbox' = [inbox EXCEPT ![r] = Append(@, m)]
       /\ armed' = IF m.verb \in {"ls", "chmod", "pwd"} THEN armed \cup {r} ELSE armed
  /\ typed' = typed + 1
  /\ owed' = [owed EXCEPT ![r] = @ + 1]
  /\ at' = [at EXCEPT ![r] = "wait"]
  /\ UNCHANGED <<serverOnly, outbox, gone, place, hasty>>

(* What the client does next when it has received item.  A get whose size is *)
(* not 0 reads on until the timeout, which it sets for that; any other reply *)
(* in the place of the size is taken for one.                                *)
AfterReply(r, item) ==
  CASE asked[r].verb = "put"   -> {"upload"}
    [] asked[r].verb = "close" -> {"left"}
    [] asked[r].verb = "get"   ->
         IF item.kind = "file"
         THEN {IF item.size = 0 THEN "prompt" ELSE "reading"} ELSE {"prompt", "reading"}
    [] OTHER                   -> {"prompt"}

(* Where a user who was in d believes to be after a cd that succeeded. *)
Expected(d, path) ==
  IF d = NoDir \/ Leads(d, path) = NoDir THEN d ELSE Nameable(Leads(d, path))

(* The reply: a user who is told that cd succeeded relies on it. *)
ReceiveReply(r) ==
  LET item == Head(outbox[r]) IN
  /\ at[r] = "wait"
  /\ outbox[r] # <<>>
  /\ outbox' = [outbox EXCEPT ![r] = Tail(@)]
  /\ \E next \in AfterReply(r, item) : at' = [at EXCEPT ![r] = next]
  /\ armed' = IF at'[r] = "reading" THEN armed \cup {r} ELSE armed
  /\ place' = IF asked[r].verb = "cd" /\ item.kind = "status" /\ item.ok = 1
              THEN [place EXCEPT ![r] = Expected(@, asked[r].arg)] ELSE place
  /\ owed' = [owed EXCEPT ![r] = @ - 1]
  /\ gone' = IF asked[r].verb = "close" THEN gone \cup {r} ELSE gone
  /\ UNCHANGED <<serverOnly, inbox, asked, typed, hasty>>

(* A get reads whatever else arrives, as contents of its file. *)
ReadOn(r) ==
  /\ at[r] = "reading"
  /\ outbox[r] # <<>>
  /\ outbox' = [outbox EXCEPT ![r] = Tail(@)]
  /\ owed' = [owed EXCEPT ![r] = @ - 1]
  /\ UNCHANGED <<serverOnly, inbox, gone, at, asked, armed, typed, place, hasty>>

ReadingEnds(r) ==
  /\ at[r] = "reading"
  /\ outbox[r] = <<>>
  /\ at' = [at EXCEPT ![r] = "prompt"]
  /\ UNCHANGED <<serverVars, asked, armed, typed, history>>

(* sendfile to the server; an empty or missing file sends nothing. *)
UploadFile(r) ==
  /\ at[r] = "upload"
  /\ \E n \in 0 .. MaxBlocks :
       inbox' = [inbox EXCEPT ![r] = @ \o [i \in 1 .. n |-> Data]]
  /\ at' = [at EXCEPT ![r] = "prompt"]
  /\ UNCHANGED <<serverOnly, outbox, gone, asked, armed, typed, history>>

(* No reply is on its way to client r. *)
NothingComing(r) ==
  outbox[r] = <<>> /\ inbox[r] = <<>> /\ pc[r] \in {"recv", "exit"}

(* The receive times out: put uploads all the same, get has a size that was *)
(* never set, the others give up.                                           *)
GiveUp(r) ==
  /\ at[r] = "wait"
  /\ r \in armed
  /\ outbox[r] = <<>>
  /\ \E next \in CASE asked[r].verb = "put" -> {"upload"}
                   [] asked[r].verb = "get" -> {"prompt", "reading"}
                   [] OTHER                 -> {"prompt"} :
       at' = [at EXCEPT ![r] = next]
  /\ hasty' = IF NothingComing(r) THEN hasty ELSE hasty \cup {r}
  /\ UNCHANGED <<serverVars, asked, armed, typed, place, owed>>

(* The user kills the client. *)
Leave(r) ==
  /\ at[r] = "prompt"
  /\ at' = [at EXCEPT ![r] = "left"]
  /\ gone' = gone \cup {r}
  /\ UNCHANGED <<serverOnly, inbox, outbox, asked, armed, typed, history>>

(* The server's own timeout: too early against a client yet to upload. *)
UploadTimesOut(r) ==
  /\ EndUpload(r)
  /\ hasty' = IF at[r] = "upload" \/ outbox[r] # <<>> THEN hasty \cup {r} ELSE hasty
  /\ UNCHANGED <<at, asked, armed, typed, place, owed>>

(* Somebody removes an empty directory; a session that has yet to start there *)
(* will not learn its name.                                                    *)
Vanish(d) ==
  /\ d \in Fleeting \cap exists
  /\ files[d] = <<>>
  /\ exists' = exists \ {d}
  /\ place' = [r \in Runners |->
                 IF pc[r] = "start" /\ place[r] = d THEN NoDir ELSE place[r]]
  /\ UNCHANGED <<lock, cwd, globals, files, temps, pc, locals, wires,
                 at, asked, armed, typed, owed, hasty>>

-----------------------------------------------------------------------------
ServerStep(r) == (RunnerStep(r) /\ UNCHANGED clientVars) \/ UploadTimesOut(r)
Continue(r) ==
  ReceiveReply(r) \/ ReadOn(r) \/ ReadingEnds(r) \/ UploadFile(r) \/ GiveUp(r)
ClientStep(r) == SendCommand(r) \/ Continue(r) \/ Leave(r)

Next ==
  \/ \E r \in Runners : ServerStep(r) \/ ClientStep(r)
  \/ \E d \in Fleeting : Vanish(d)

(* Session threads and client programs keep running; the users owe nothing. *)
Fairness ==
  \A r \in Runners : WF_vars(ServerStep(r)) /\ WF_vars(Continue(r))

Spec == Init /\ [][Next]_vars
FairSpec == Spec /\ Fairness

-----------------------------------------------------------------------------
(* Properties. *)

TypeOK ==
  /\ lock \in Runners \cup {Free}
  /\ cwd \in Dirs
  /\ exists \subseteq Dirs
  /\ pc \in [Runners -> Places]
  /\ pwd \in [Runners -> Dirs \cup {NoDir}]
  /\ obj \in Nat
  /\ size \in [Runners -> Nat]
  /\ c \in [Runners -> {0, 1}]
  /\ \A d \in Dirs : \A n \in DOMAIN files[d] : files[d][n] \in Nat
  /\ at \in [Runners -> {"prompt", "wait", "upload", "reading", "left"}]
  /\ place \in [Runners -> Dirs \cup {NoDir}]
  /\ owed \in [Runners -> Int]

(* The mutex is held exactly between the parsing of a command and the opening *)
(* of its files, whichever of the eight branches the command takes; only a    *)
(* put that finds no name it can create keeps it.                             *)
LockDiscipline == \A r \in Runners : (pc[r] \in Locked) <=> (lock = r)

(* The mutex and the places of the sessions agree, on a well-typed state: in  *)
(* particular every descriptor, size and directory a session keeps is one the  *)
(* server has, whatever the other session did to the globals meanwhile.        *)
LockConsistent == TypeOK /\ LockDiscipline

(* A session does its work in its own directory, although there is one        *)
(* current directory for all: as long as its directory exists, the process is  *)
(* there while the session looks at its output, and the files it has open are  *)
(* in it.  Without one it works wherever the last command left the process.   *)
WorksInOwnDirectory ==
  \A r \in Runners :
    pwd[r] \in exists =>
      /\ pc[r] \in {"stat", "open"} => cwd = pwd[r]
      /\ fd[r].kind = "file" => fd[r].dir = pwd[r]

(* Uploads are kept apart: no two sessions write one file, even when two     *)
(* clients put the same name into the same directory at the same time.        *)
Uploading(r) == pc[r] \in {"ack", "upload"}
UploadsKeptApart ==
  \A r, s \in Runners : Uploading(r) /\ Uploading(s) /\ fd[r] = fd[s] => r = s

(* A get can keep its promise: when the file is sent it still has all the    *)
(* bytes that were announced, though others may be uploading meanwhile.       *)
GetKeepsPromise ==
  \A r \in Runners :
    pc[r] = "sendFile" /\ fd[r].kind = "file"
      => size[r] <= files[fd[r].dir][fd[r].name]

(* No reply without a command: there are never more replies on their way than *)
(* commands without an answer, not even after timeouts that came too early.   *)
(* Until one did, a client that is not waiting has no reply pending at all,    *)
(* so that none is taken for the answer to a later command.                   *)
RepliesAreExpected ==
  \A r \in Runners :
    /\ Len(outbox[r]) <= owed[r]
    /\ r \notin hasty /\ outbox[r] # <<>> => at[r] = "wait" /\ Len(outbox[r]) = 1

(* The directories that a user who expects to be in d may be in. *)
Possible(d) == IF d = NoDir THEN Dirs ELSE {d}

(* What item must be to answer command m of a user in directory d.  When no   *)
(* process could be created for ls or chmod there is no listing, under a size  *)
(* that means nothing; a cd is refused only where there is no such directory.  *)
Answers(item, m, d) ==
  CASE m.verb \in {"ls", "chmod"} ->
         /\ item.kind = "listing"
         /\ \/ item.text = NoText
            \/ /\ item.size = item.text.len
               /\ \E e \in Possible(d) : item.text.by = {<<m, e>>}
    [] m.verb = "get"   ->
         /\ item.kind = "file"
         /\ item.from \in {NoFd} \cup {FileFd(e, NameOf(m.arg)) : e \in Possible(d)}
    [] m.verb = "pwd"   -> item.kind = "pwd" /\ (d # NoDir => item.dir = d)
    [] m.verb = "cd"    ->
         /\ item.kind = "status"
         /\ d # NoDir =>
              IF item.ok = 1 THEN Leads(d, m.arg) # NoDir
              ELSE Leads(d, m.arg) \notin exists
    [] m.verb \in {"put", "close"} -> item.kind = "ack"
    [] OTHER -> FALSE

(* The reply that a client receives answers the command it sent, from the     *)
(* directory its session is in, unless a timeout has fired too early on its   *)
(* connection.                                                                *)
AnswersOwnCommand ==
  \A r \in Runners :
    r \notin hasty /\ at[r] = "wait" /\ outbox[r] # <<>>
      => Answers(Head(outbox[r]), asked[r], place[r])

(* Between two commands the session is where its user expects it to be, with  *)
(* the same exception, for as long as the way led only through directories    *)
(* whose names the session can know.                                          *)
SessionKeepsItsPlace ==
  \A r \in Runners :
    r \notin hasty /\ at[r] = "prompt" /\ pc[r] # "start" /\ place[r] # NoDir
      => pwd[r] = place[r]

(* Every command that the server receives is carried through, and its thread *)
(* is back at the receive: no branch keeps the mutex, no upload lasts forever. *)
(* The one exception stops all sessions: a put into a directory that does not  *)
(* take the file.                                                              *)
CommandsFinish ==
  \A r \in Runners :
    (pc[r] = "lock") ~>
      (pc[r] \in {"recv", "exit"} \/ \E s \in Runners : pc[s] = "stuck")
============================================================================
