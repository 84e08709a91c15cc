------------------------------ MODULE FtpAccept ------------------------------
(***************************************************************************)
(* The accept loop of the FTP server.  main accepts a connection into its  *)
(* variable client_socket and starts a thread with the ADDRESS of that     *)
(* variable; the thread copies the descriptor whenever it gets to run.     *)
(* After a batch of threads main accepts nothing until it has joined them  *)
(* all.  What a thread does with its connection is FtpServer's subject;    *)
(* here it only lasts until the client ends it.                            *)
(***************************************************************************)
EXTENDS Integers, FiniteSets

CONSTANTS
  Batch,       \* threads started before main joins them (50 in the code)
  Slots,       \* length of the array tid (60 in the code)
  Connections  \* bound: how many clients connect; they are 1 .. Connections

ASSUME FtpAcceptAssumption ==
  /\ Batch \in Nat \ {0} /\ Slots \in Nat
  /\ Batch <= Slots
  /\ Connections \in Nat

Clients == 1 .. Connections
Threads == 1 .. Connections
Descriptors == 1 .. Connections
Unused == 0   \* a descriptor that is not open, an unused slot of tid
Failed == -1  \* what accept returns when it fails

VARIABLES
  i,              \* main(): the next slot of tid to fill, or to join
  client_socket,  \* main(): the descriptor last accepted; threads point to it
  tid,            \* main(): the threads of this batch
  mainPc,         \* "accept", "create" or "join"
  thread,         \* each thread: "none", "born", "serving" or "done"
  sock,           \* runner(): each thread's own copy of the descriptor
  open,           \* the connection behind each descriptor, or Unused
  connected,      \* how many clients have connected
  accepted,       \* how many connections main has accepted
  left            \* the clients that have ended their connection

vars == <<i, client_socket, tid, mainPc, thread, sock, open, connected,
          accepted, left>>

Init ==
  /\ i = 0
  /\ client_socket = Failed
  /\ tid = [n \in 0 .. Slots - 1 |-> Unused]
  /\ mainPc = "accept"
  /\ thread = [t \in Threads |-> "none"]
  /\ sock = [t \in Threads |-> Failed]
  /\ open = [f \in Descriptors |-> Unused]
  /\ connected = 0
  /\ accepted = 0
  /\ left = {}

-----------------------------------------------------------------------------
(* main. *)

LowestFree == CHOOSE f \in Descriptors :
                open[f] = Unused /\ \A g \in 1 .. f - 1 : open[g] # Unused
Born == {t \in Threads : thread[t] # "none"}

Accept ==
  /\ mainPc = "accept"
  /\ accepted < connected
  /\ client_socket' = LowestFree
  /\ open' = [open EXCEPT ![LowestFree] = accepted + 1]
  /\ accepted' = accepted + 1
  /\ mainPc' = "create"
  /\ UNCHANGED <<i, tid, thread, sock, connected, left>>

(* accept fails (an aborted connection, say) and its -1 is stored all the same. *)
AcceptFails ==
  /\ mainPc = "accept"
  /\ client_socket' = Failed
  /\ UNCHANGED <<i, tid, mainPc, thread, sock, open, connected, accepted, left>>

BatchFull_OffByOne == i + 1 > Batch
BatchFull == i + 1 >= Batch

CreateThread ==
  LET t == Cardinality(Born) + 1 IN
  /\ mainPc = "create"
  /\ tid' = [tid EXCEPT ![i] = t]
  /\ thread' = [thread EXCEPT ![t] = "born"]
  /\ IF BatchFull
     THEN i' = 0 /\ mainPc' = "join"
     ELSE i' = i + 1 /\ mainPc' = "accept"
  /\ UNCHANGED <<client_socket, sock, open, connected, accepted, left>>

JoinThread ==
  /\ mainPc = "join"
  /\ thread[tid[i]] = "done"
  /\ IF i + 1 < Batch
     THEN i' = i + 1 /\ UNCHANGED mainPc
     ELSE i' = 0 /\ mainPc' = "accept"
  /\ UNCHANGED <<client_socket, tid, thread, sock, open, connected, accepted, left>>

-----------------------------------------------------------------------------
(* runner. *)

ReadSocket(t) ==
  /\ thread[t] = "born"
  /\ sock' = [sock EXCEPT ![t] = client_socket]
  /\ thread' = [thread EXCEPT ![t] = "serving"]
  /\ UNCHANGED <<i, client_socket, tid, mainPc, open, connected, accepted, left>>

(* recv returns 0 or less: the client is gone or the descriptor is not open. *)
(* The thread ends and leaves the descriptor open.                           *)
RecvEnd_OnlyEOF(t) ==
  /\ thread[t] = "serving"
  /\ sock[t] \in Descriptors /\ open[sock[t]] \in left
  /\ thread' = [thread EXCEPT ![t] = "done"]
  /\ UNCHANGED <<i, client_socket, tid, mainPc, sock, open, connected, accepted, left>>
RecvEnd(t) ==
  /\ thread[t] = "serving"
  /\ sock[t] \in Descriptors => open[sock[t]] \in left \cup {Unused}
  /\ thread' = [thread EXCEPT ![t] = "done"]
  /\ UNCHANGED <<i, client_socket, tid, mainPc, sock, open, connected, accepted, left>>

(* The client sends close: the thread closes the descriptor and ends. *)
CloseCommand(t) ==
  /\ thread[t] = "serving"
  /\ sock[t] \in Descriptors /\ open[sock[t]] \in Clients \ left
  /\ left' = left \cup {open[sock[t]]}
  /\ open' = [open EXCEPT ![sock[t]] = Unused]
  /\ thread' = [thread EXCEPT ![t] = "done"]
  /\ UNCHANGED <<i, client_socket, tid, mainPc, sock, connected, accepted>>

-----------------------------------------------------------------------------
(* The clients. *)

Connect ==
  /\ connected < Connections
  /\ connected' = connected + 1
  /\ UNCHANGED <<i, client_socket, tid, mainPc, thread, sock, open, accepted, left>>

Leave(k) ==
  /\ k \in 1 .. connected \ left
  /\ left' = left \cup {k}
  /\ UNCHANGED <<i, client_socket, tid, mainPc, thread, sock, open, connected, accepted>>

MainStep == Accept \/ CreateThread \/ JoinThread
RunnerStep(t) == ReadSocket(t) \/ RecvEnd(t)

Next ==
  \/ MainStep
  \/ AcceptFails
  \/ \E t \in Threads : RunnerStep(t) \/ CloseCommand(t)
  \/ Connect
  \/ \E k \in Clients : Leave(k)

(* The threads keep running and every client ends its connection some day. *)
Fairness ==
  /\ WF_vars(MainStep)
  /\ \A t \in Threads : WF_vars(RunnerStep(t))
  /\ \A k \in Clients : WF_vars(Leave(k))

Spec == Init /\ [][Next]_vars
FairSpec == Spec /\ Fairness

-----------------------------------------------------------------------------
(* Properties. *)

Live == {t \in Threads : thread[t] \in {"born", "serving"}}

TypeOK ==
  /\ i \in 0 .. Slots - 1
  /\ client_socket \in Descriptors \cup {Failed}
  /\ tid \in [0 .. Slots - 1 -> Threads \cup {Unused}]
  /\ mainPc \in {"accept", "create", "join"}
  /\ thread \in [Threads -> {"none", "born", "serving", "done"}]
  /\ sock \in [Threads -> Descriptors \cup {Failed}]
  /\ open \in [Descriptors -> Clients \cup {Unused}]
  /\ connected \in 0 .. Connections /\ accepted \in 0 .. connected
  /\ left \subseteq Clients

(* Batches do not overlap: whenever main is ready to start the i-th thread of *)
(* a batch, only the threads already in tid[0 .. i-1] can still be alive, so   *)
(* that no live thread ever loses its slot and more than Batch never run.     *)
BatchesDoNotOverlap ==
  mainPc # "join" => Live \subseteq {tid[n] : n \in 0 .. i - 1}

(* The slots agree with the threads: no live thread is missing from tid when  *)
(* main goes on, and the index, the descriptors and the threads stay within    *)
(* their ranges although accept may fail and descriptors are used again.       *)
SlotsConsistent == TypeOK /\ BatchesDoNotOverlap

(* The batch ends: main never waits for ever in its joins while the clients  *)
(* do leave, even if a thread has copied another thread's descriptor, one     *)
(* that has been closed, or a -1.                                             *)
BatchEnds == mainPc = "join" ~> mainPc = "accept"

(* Each thread serves a connection of its own. *)
OneThreadPerConnection ==
  \A t, u \in Threads :
    /\ thread[t] = "serving" /\ thread[u] = "serving"
    /\ sock[t] = sock[u] /\ sock[t] \in Descriptors
    => t = u
=============================================================================
