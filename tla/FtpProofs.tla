------------------------------ MODULE FtpProofs ------------------------------
(***************************************************************************)
(* Proofs about Ftp, for any number of clients, any file tree, any set of  *)
(* commands and any number of them, with timeouts that fire at any moment,  *)
(* directories that disappear, and every failure of fork, chdir, getcwd and *)
(* open that the model knows.                                               *)
(***************************************************************************)
EXTENDS Ftp, FiniteSetTheorems, SequenceTheorems, TLAPS

Message == Commands \cup {Data}

(* What the type invariant needs to know of the messages, and of the files: *)
(* that there are finitely many, so that put finds a free name.             *)
WiresTyped ==
  /\ inbox \in [Runners -> Seq(Message)]
  /\ asked \in [Runners -> Commands \cup {Blank}]
DiskTyped ==
  /\ DOMAIN files = Dirs
  /\ \A d \in Dirs : IsFiniteSet(DOMAIN files[d])
  /\ filename[2] \in Nat
  /\ temps = NoText \/ temps.len \in Nat

(* The inductive invariant behind LockConsistent. *)
TypeInv == TypeOK /\ LockDiscipline /\ WiresTyped /\ DiskTyped

-----------------------------------------------------------------------------
(* Where a path leads, what a cd may lead to, and where the process is once it *)
(* has tried to enter the directory of a session: always a directory, or none. *)
LEMMA LeadsTyped ==
  ASSUME NEW d \in Dirs, NEW path PROVE Leads(d, path) \in Dirs \cup {NoDir}
BY FtpServerAssumption DEF Leads

LEMMA CdTargetsTyped ==
  ASSUME cwd \in Dirs PROVE CdTargets \subseteq Dirs \cup {NoDir}
<1>1. ASSUME NEW path PROVE Leads(cwd, path) \in Dirs \cup {NoDir}
  BY LeadsTyped
<1>2. \A path \in DOMAIN Resolve[cwd] : Leads(cwd, path) \in Dirs \cup {NoDir}
  BY <1>1
<1> QED
  BY <1>1, <1>2 DEF CdTargets

LEMMA OwnDirectoryTyped ==
  ASSUME NEW r \in Runners, EnterOwnDirectory(r), cwd \in Dirs, exists \subseteq Dirs,
         c \in [Runners -> {0, 1}]
  PROVE  cwd' \in Dirs /\ c' \in [Runners -> {0, 1}] /\ (pwd[r] \in exists => cwd' = pwd[r])
BY DEF EnterOwnDirectory

(* The least number principle, for the search of put for a free name. *)
LEMMA LeastNatural ==
  ASSUME NEW S \in SUBSET Nat, S # {}
  PROVE  \E n \in S : \A m \in S : n <= m
<1>1. \E x \in S : \A y \in S : ~(<<y, x>> \in OpToRel(<, Nat))
  BY NatLessThanWellFounded, WFMin, Zenon
<1>2. \A x, y \in S : <<y, x>> \in OpToRel(<, Nat) <=> y < x
  BY DEF OpToRel
<1>3. \E x \in S : \A y \in S : ~(y < x)
  BY <1>1, <1>2, Zenon
<1> QED
  BY <1>3

(* The loop of put over the names ends, and with a name that no file has: of *)
(* one name more than there are files, one is free.                          *)
LEMMA FreshNameIsFresh ==
  ASSUME NEW d, NEW name, IsFiniteSet(DOMAIN files[d]), name[2] \in Nat
  PROVE  /\ FreshName(d, name) \notin DOMAIN files[d]
         /\ FreshName(d, name)[2] \in Nat
<1> DEFINE D == DOMAIN files[d]
           I == name[2] .. name[2] + Cardinality(D)
           f == [n \in I |-> <<name[1], n>>]
           S == {n \in I : <<name[1], n>> \notin D}
<1>1. Cardinality(D) \in Nat
  BY FS_CardinalityType
<1>2. Cardinality(I) = Cardinality(D) + 1
  <2> DEFINE low == name[2]
             high == name[2] + Cardinality(D)
  <2>1. low \in Int /\ high \in Int /\ low <= high /\ high - low + 1 = Cardinality(D) + 1
    BY <1>1
  <2>2. Cardinality(low .. high) = high - low + 1
    <3> HIDE DEF low, high
    <3> QED
      BY <2>1, FS_Interval
  <2> QED
    BY <2>1, <2>2
<1>3. S # {}
  <2> SUFFICES ASSUME S = {} PROVE FALSE
    OBVIOUS
  <2>1. f \in [I -> D]
    OBVIOUS
  <2>2. \A m, n \in I : f[m] = f[n] => m = n
    OBVIOUS
  <2>3. f \in Injection(I, D)
    BY <2>1, <2>2 DEF Injection, IsInjective
  <2>4. Cardinality(I) <= Cardinality(D)
    BY <2>3, FS_Injection
  <2> QED
    BY <2>4, <1>1, <1>2
<1>4. S \in SUBSET Nat
  BY <1>1
<1>5. PICK n \in S : \A m \in S : n <= m
  BY <1>3, <1>4, LeastNatural
<1>6. /\ n \in I /\ <<name[1], n>> \notin D
      /\ \A m \in name[2] .. n - 1 : <<name[1], m>> \in D
  BY <1>1, <1>5
<1> DEFINE k == CHOOSE m_ \in I :
             /\ <<name[1], m_>> \notin D
             /\ \A m \in name[2] .. m_ - 1 : <<name[1], m>> \in D
<1>7. k \in I /\ <<name[1], k>> \notin D
  <2> HIDE DEF D, I
  <2> QED
    BY <1>6
<1>8. FreshName(d, name) = <<name[1], k>>
  BY DEF FreshName
<1>9. k \in Nat
  BY <1>1, <1>7
<1> HIDE DEF k
<1> QED
  BY <1>7, <1>8, <1>9

(* What is left of a queue when its first n messages have been taken. *)
LEMMA QueueRest ==
  ASSUME NEW q \in Seq(Message), NEW n \in 1 .. Len(q)
  PROVE  /\ SubSeq(q, n + 1, Len(q)) \in Seq(Message)
         /\ Len(SubSeq(q, n + 1, Len(q))) = Len(q) - n
         /\ \A k \in 1 .. Len(q) - n : SubSeq(q, n + 1, Len(q))[k] = q[k + n]
<1>1. n \in Nat /\ Len(q) \in Nat /\ n + 1 \in 1 .. Len(q) + 1
  OBVIOUS
<1>2. \A k \in n + 1 .. Len(q) : q[k] \in Message
  BY <1>1
<1> QED
  BY <1>1, <1>2
(* An upload is a sequence of messages. *)
LEMMA ConstantSeq ==
  ASSUME NEW S, NEW m \in S, NEW n \in Nat
  PROVE  [i \in 1 .. n |-> m] \in Seq(S)
OBVIOUS

(* A count of commands goes up and down by one. *)
LEMMA OneMoreOrLess ==
  ASSUME NEW f \in [Runners -> Int], NEW r \in Runners
  PROVE  /\ [f EXCEPT ![r] = @ + 1] \in [Runners -> Int]
         /\ [f EXCEPT ![r] = @ - 1] \in [Runners -> Int]
OBVIOUS

(* The steps of Next one by one, as the proofs below go through them. *)
LEMMA NextCases ==
  ASSUME Next
  PROVE  \/ \E d \in Fleeting : Vanish(d)
         \/ \E r \in Runners :
           \/ /\ UNCHANGED clientVars
              /\ \/ Start(r) \/ RecvCommand(r) \/ RecvEnd(r) \/ Acquire(r) \/ ParseCommand(r)
                 \/ Dispatch(r) \/ ClearBuf(r) \/ ClearCommand(r)
                 \/ RunCommand(r) \/ StatOutput(r) \/ OpenOutput(r) \/ SendListing(r)
                 \/ RemoveOutput(r)
                 \/ GetFile(r) \/ SendFile(r) \/ PutFile(r) \/ PutLoops(r) \/ AckPut(r)
                 \/ StoreBlock(r)
                 \/ Pwd(r) \/ SendPwd(r) \/ ChangeDirectory(r) \/ SendCd(r) \/ Close(r)
                 \/ SendBye(r) \/ Unknown(r)
           \/ UploadTimesOut(r)
           \/ SendCommand(r) \/ ReceiveReply(r) \/ ReadOn(r) \/ ReadingEnds(r)
           \/ UploadFile(r) \/ GiveUp(r) \/ Leave(r)
BY DEF Next, ServerStep, ClientStep, Continue, RunnerStep, ReceiveStep, ListStep, TransferStep,
       SessionStep

(* The program starts well typed, with the mutex free. *)
LEMMA TypeInvInit == Init => TypeInv
<1> SUFFICES ASSUME Init PROVE TypeInv
  OBVIOUS
<1> USE FtpServerAssumption, FtpAssumption DEF Init, ServerInit
<1>1. TypeOK
  <2>1. pc \in [Runners -> Places] /\ pwd \in [Runners -> Dirs \cup {NoDir}]
    BY DEF Places
  <2>2. place \in [Runners -> Dirs \cup {NoDir}] /\ owed \in [Runners -> Int]
    <3>1. Nameable(Home) \in Dirs \cup {NoDir}
      BY ONLY FtpServerAssumption DEF Nameable
    <3>2. place = [r \in Runners |-> Nameable(Home)] /\ owed = [r \in Runners |-> 0]
      OBVIOUS
    <3> QED
      BY ONLY <3>1, <3>2
  <2>3. \A d \in Dirs : \A n \in DOMAIN files[d] : files[d][n] \in Nat
    OBVIOUS
  <2> QED
    BY <2>1, <2>2, <2>3 DEF TypeOK
<1>2. LockDiscipline
  BY DEF LockDiscipline, Locked
<1>3. WiresTyped
  <2>1. inbox \in [Runners -> Seq(Message)]
    BY EmptySeq, Zenon
  <2> QED
    BY <2>1 DEF WiresTyped
<1>4. DiskTyped
  BY DEF DiskTyped, NameOf
<1> QED
  BY <1>1, <1>2, <1>3, <1>4 DEF TypeInv

(* Every step of a session thread or of a client keeps it so. *)
LEMMA TypeInvStep == TypeInv /\ [Next]_vars => TypeInv'
<1> SUFFICES ASSUME TypeInv, [Next]_vars PROVE TypeInv'
  OBVIOUS
<1> USE FtpServerAssumption, FtpAssumption
    DEF TypeInv, TypeOK, LockDiscipline, WiresTyped, DiskTyped, Goto, Reply, Places, Locked,
        globals, disk, locals, wires, serverOnly, clientVars, history
<1>1. ASSUME NEW r \in Runners, Start(r), UNCHANGED clientVars PROVE TypeInv'
  BY <1>1 DEF Start, Getcwd
<1>2. ASSUME NEW r \in Runners, RecvCommand(r), UNCHANGED clientVars
      PROVE  TypeInv'
  <2>1. PICK n \in 1 .. Len(inbox[r]) :
          inbox' = [inbox EXCEPT ![r] = SubSeq(inbox[r], n + 1, Len(inbox[r]))]
    BY <1>2 DEF RecvCommand
  <2>2. inbox[r] \in Seq(Message)
    OBVIOUS
  <2>3. SubSeq(inbox[r], n + 1, Len(inbox[r])) \in Seq(Message)
    BY <2>2, QueueRest
  <2>4. inbox' \in [Runners -> Seq(Message)]
    BY <2>1, <2>3
  <2> QED
    BY <1>2, <2>4 DEF RecvCommand
<1>3. ASSUME NEW r \in Runners, RecvEnd(r), UNCHANGED clientVars PROVE TypeInv'
  BY <1>3 DEF RecvEnd
<1>4. ASSUME NEW r \in Runners, Acquire(r), UNCHANGED clientVars PROVE TypeInv'
  BY <1>4 DEF Acquire
<1>5. ASSUME NEW r \in Runners, ParseCommand(r), UNCHANGED clientVars
      PROVE  TypeInv'
  BY <1>5 DEF ParseCommand
<1>6. ASSUME NEW r \in Runners, Dispatch(r), UNCHANGED clientVars
      PROVE  TypeInv'
  BY <1>6 DEF Dispatch
<1>7. ASSUME NEW r \in Runners, ClearBuf(r), UNCHANGED clientVars
      PROVE  TypeInv'
  <2>1. \E to \in {"clearCommand", "lastClearCommand"} :
          pc[r] \notin Locked /\ pc' = [pc EXCEPT ![r] = to]
    BY <1>7 DEF ClearBuf
  <2>2. LockDiscipline' /\ pc' \in [Runners -> Places]
    BY <1>7, <2>1 DEF ClearBuf
  <2> QED
    BY <1>7, <2>2 DEF ClearBuf
<1>8. ASSUME NEW r \in Runners, ClearCommand(r), UNCHANGED clientVars
      PROVE  TypeInv'
  <2>1. \E to \in {"recv", "exit"} :
          pc[r] \notin Locked /\ pc' = [pc EXCEPT ![r] = to]
    BY <1>8 DEF ClearCommand
  <2>2. LockDiscipline' /\ pc' \in [Runners -> Places]
    BY <1>8, <2>1 DEF ClearCommand
  <2> QED
    BY <1>8, <2>2 DEF ClearCommand
<1>9. ASSUME NEW r \in Runners, RunCommand(r), UNCHANGED clientVars
      PROVE  TypeInv'
  <2>1. cwd' \in Dirs /\ c' \in [Runners -> {0, 1}]
    BY <1>9, OwnDirectoryTyped DEF RunCommand
  <2> DEFINE d == cwd'
  <2>2. Cardinality(DOMAIN files[d]) \in Nat
    BY <2>1, FS_CardinalityType
  <2>3. Output(d).len \in Nat
    BY <2>2 DEF Output
  <2>4. temps' = NoText \/ temps'.len \in Nat
    <3>1. temps' = temps \/ temps' = Overwrite(temps, Output(d))
      BY <1>9 DEF RunCommand
    <3>2. temps.len \in Int
      <4>1. NoText.len = -1 /\ (temps = NoText \/ temps.len \in Nat)
        BY DEF NoText
      <4> QED
        BY ONLY <4>1
    <3>3. Overwrite(temps, Output(d)).len \in Nat
      BY ONLY <2>3, <3>2 DEF Overwrite
    <3> QED
      BY <3>1, <3>3
  <2> QED
    BY <1>9, <2>1, <2>4 DEF RunCommand
<1>10. ASSUME NEW r \in Runners, StatOutput(r), UNCHANGED clientVars
      PROVE  TypeInv'
  BY <1>10 DEF StatOutput, StatSize
<1>11. ASSUME NEW r \in Runners, OpenOutput(r), UNCHANGED clientVars
      PROVE  TypeInv'
  BY <1>11 DEF OpenOutput
<1>12. ASSUME NEW r \in Runners, SendListing(r), UNCHANGED clientVars
      PROVE  TypeInv'
  BY <1>12 DEF SendListing
<1>13. ASSUME NEW r \in Runners, RemoveOutput(r), UNCHANGED clientVars
      PROVE  TypeInv'
  BY <1>13 DEF RemoveOutput
<1>14. ASSUME NEW r \in Runners, GetFile(r), UNCHANGED clientVars
      PROVE  TypeInv'
  <2>1. cwd' \in Dirs /\ c' \in [Runners -> {0, 1}]
    BY <1>14, OwnDirectoryTyped DEF GetFile
  <2> DEFINE d == cwd'
             name == FileNamed
  <2>2. name[2] \in Nat
    BY DEF FileNamed, NameOf
  <2>3. obj' \in Nat /\ size' \in [Runners -> Nat]
    BY <1>14, <2>1 DEF GetFile
  <2> QED
    BY <1>14, <2>1, <2>2, <2>3 DEF GetFile
<1>15. ASSUME NEW r \in Runners, SendFile(r), UNCHANGED clientVars
      PROVE  TypeInv'
  BY <1>15 DEF SendFile
<1>16. ASSUME NEW r \in Runners, PutFile(r), UNCHANGED clientVars
      PROVE  TypeInv'
  <2>1. cwd' \in Dirs /\ c' \in [Runners -> {0, 1}]
    BY <1>16, OwnDirectoryTyped DEF PutFile
  <2> DEFINE d == cwd'
             D == DOMAIN files[d]
  <2>2. FileNamed[2] \in Nat
    BY DEF FileNamed, NameOf
  <2>3. filename'[2] \in Nat
    BY <1>16, <2>1, <2>2, FreshNameIsFresh DEF PutFile
  <2>4. /\ files' = [files EXCEPT ![d] = [n \in D \cup {filename'} |->
                                   IF n = filename' THEN 0 ELSE files[d][n]]]
        /\ IsFiniteSet(D \cup {filename'})
    BY <1>16, <2>1, FS_AddElement DEF PutFile
  <2> HIDE DEF d
  <2>5. DOMAIN files' = Dirs /\ \A e \in Dirs : IsFiniteSet(DOMAIN files'[e])
    BY <2>1, <2>4
  <2>6. \A e \in Dirs : \A n \in DOMAIN files'[e] : files'[e][n] \in Nat
    BY <2>1, <2>4
  <2> QED
    BY <1>16, <2>1, <2>3, <2>5, <2>6 DEF PutFile
<1>33. ASSUME NEW r \in Runners, PutLoops(r), UNCHANGED clientVars
      PROVE  TypeInv'
  <2>1. cwd' \in Dirs /\ c' \in [Runners -> {0, 1}]
    BY <1>33, OwnDirectoryTyped DEF PutLoops
  <2>2. filename'[2] \in Nat
    BY <1>33 DEF PutLoops, FileNamed, NameOf
  <2> QED
    BY <1>33, <2>1, <2>2 DEF PutLoops
<1>17. ASSUME NEW r \in Runners, AckPut(r), UNCHANGED clientVars PROVE TypeInv'
  BY <1>17 DEF AckPut
<1>18. ASSUME NEW r \in Runners, StoreBlock(r), UNCHANGED clientVars
      PROVE  TypeInv'
  <2>1. files' = [files EXCEPT ![fd[r].dir][fd[r].name] = files[fd[r].dir][fd[r].name] + 1]
    BY <1>18 DEF StoreBlock
  <2>2. /\ DOMAIN files' = Dirs
        /\ \A d \in Dirs : /\ DOMAIN files'[d] = DOMAIN files[d]
                           /\ \A n \in DOMAIN files[d] : files'[d][n] \in Nat
    <3>1. DOMAIN files = Dirs /\ \A d \in Dirs : \A n \in DOMAIN files[d] : files[d][n] \in Nat
      OBVIOUS
    <3> QED
      BY ONLY <2>1, <3>1
  <2>3. inbox' \in [Runners -> Seq(Message)]
    <3>1. inbox[r] \in Seq(Message) /\ inbox[r] # <<>>
      BY <1>18 DEF StoreBlock
    <3>2. Tail(inbox[r]) \in Seq(Message)
      BY ONLY <3>1
    <3> QED
      BY <1>18, <3>2 DEF StoreBlock
  <2> QED
    BY <1>18, <2>2, <2>3 DEF StoreBlock
<1>19. ASSUME NEW r \in Runners, UploadTimesOut(r) PROVE TypeInv'
  BY <1>19 DEF UploadTimesOut, EndUpload
<1>20. ASSUME NEW r \in Runners, Pwd(r), UNCHANGED clientVars PROVE TypeInv'
  BY <1>20 DEF Pwd
<1>21. ASSUME NEW r \in Runners, SendPwd(r), UNCHANGED clientVars
      PROVE  TypeInv'
  BY <1>21 DEF SendPwd
<1>22. ASSUME NEW r \in Runners, ChangeDirectory(r), UNCHANGED clientVars
      PROVE  TypeInv'
  <2>1. PICK target \in CdTargets :
          /\ c' = [c EXCEPT ![r] = IF target = NoDir THEN 0 ELSE 1]
          /\ cwd' = IF target = NoDir THEN cwd ELSE target
    BY <1>22 DEF ChangeDirectory
  <2>2. cwd' \in Dirs /\ c' \in [Runners -> {0, 1}]
    BY <2>1, CdTargetsTyped
  <2>3. pwd' \in [Runners -> Dirs \cup {NoDir}]
    BY <1>22, <2>2 DEF ChangeDirectory, Getcwd
  <2>4. /\ pc[r] = "cd" /\ lock' = Free /\ pc' = [pc EXCEPT ![r] = "sendCd"]
        /\ UNCHANGED <<globals, disk, fd, size, wires, clientVars>>
    BY ONLY <1>22 DEF ChangeDirectory, Goto
  <2> QED
    BY <2>2, <2>3, <2>4
<1>23. ASSUME NEW r \in Runners, SendCd(r), UNCHANGED clientVars PROVE TypeInv'
  BY <1>23 DEF SendCd
<1>24. ASSUME NEW r \in Runners, Close(r), UNCHANGED clientVars PROVE TypeInv'
  BY <1>24 DEF Close
<1>25. ASSUME NEW r \in Runners, SendBye(r), UNCHANGED clientVars
      PROVE  TypeInv'
  BY <1>25 DEF SendBye
<1>26. ASSUME NEW r \in Runners, Unknown(r), UNCHANGED clientVars
      PROVE  TypeInv'
  BY <1>26 DEF Unknown
<1>27. ASSUME NEW r \in Runners, SendCommand(r) PROVE TypeInv'
  <2>1. PICK m \in Commands : /\ asked' = [asked EXCEPT ![r] = m]
                              /\ inbox' = [inbox EXCEPT ![r] = Append(@, m)]
    BY <1>27 DEF SendCommand
  <2>2. inbox[r] \in Seq(Message) /\ m \in Message
    BY DEF Message
  <2>3. Append(inbox[r], m) \in Seq(Message)
    BY ONLY <2>2
  <2>4. inbox' \in [Runners -> Seq(Message)] /\ asked' \in [Runners -> Commands \cup {Blank}]
    BY <2>1, <2>3
  <2>5. owed' \in [Runners -> Int]
    BY <1>27, OneMoreOrLess DEF SendCommand
  <2> QED
    BY <1>27, <2>4, <2>5 DEF SendCommand
<1>28. ASSUME NEW r \in Runners, ReceiveReply(r) PROVE TypeInv'
  <2>1. Expected(place[r], asked[r].arg) \in Dirs \cup {NoDir}
    BY LeadsTyped DEF Expected, Nameable
  <2>2. place' \in [Runners -> Dirs \cup {NoDir}]
    BY <1>28, <2>1 DEF ReceiveReply
  <2>3. at' \in [Runners -> {"prompt", "wait", "upload", "reading", "left"}]
    BY <1>28 DEF ReceiveReply, AfterReply
  <2>4. owed' \in [Runners -> Int]
    BY <1>28, OneMoreOrLess DEF ReceiveReply
  <2> QED
    BY <1>28, <2>2, <2>3, <2>4 DEF ReceiveReply
<1>34. ASSUME NEW r \in Runners, ReadOn(r) PROVE TypeInv'
  <2>1. owed' \in [Runners -> Int]
    BY <1>34, OneMoreOrLess DEF ReadOn
  <2> QED
    BY <1>34, <2>1 DEF ReadOn
<1>35. ASSUME NEW r \in Runners, ReadingEnds(r) PROVE TypeInv'
  BY <1>35 DEF ReadingEnds, serverVars
<1>29. ASSUME NEW r \in Runners, UploadFile(r) PROVE TypeInv'
  <2>1. Data \in Message /\ inbox[r] \in Seq(Message)
    BY DEF Message
  <2>2. ASSUME NEW n \in Nat PROVE [i \in 1 .. n |-> Data] \in Seq(Message)
    BY <2>1, ConstantSeq
  <2>3. PICK n \in 0 .. MaxBlocks :
          inbox' = [inbox EXCEPT ![r] = inbox[r] \o [i \in 1 .. n |-> Data]]
    BY <1>29 DEF UploadFile
  <2>4. inbox[r] \o [i \in 1 .. n |-> Data] \in Seq(Message)
    <3>1. n \in Nat
      <4>1. n \in 0 .. MaxBlocks /\ MaxBlocks \in Nat
        OBVIOUS
      <4> QED
        BY ONLY <4>1
    <3>2. [i \in 1 .. n |-> Data] \in Seq(Message)
      BY <2>2, <3>1
    <3> QED
      BY ONLY <2>1, <3>2
  <2>5. inbox' \in [Runners -> Seq(Message)]
    BY <2>3, <2>4
  <2> QED
    BY <1>29, <2>5 DEF UploadFile
<1>30. ASSUME NEW r \in Runners, GiveUp(r) PROVE TypeInv'
  <2>1. at' \in [Runners -> {"prompt", "wait", "upload", "reading", "left"}]
    BY <1>30 DEF GiveUp
  <2> QED
    BY <1>30, <2>1 DEF GiveUp, serverVars
<1>31. ASSUME NEW r \in Runners, Leave(r) PROVE TypeInv'
  BY <1>31 DEF Leave
<1>36. ASSUME NEW d \in Fleeting, Vanish(d) PROVE TypeInv'
  BY <1>36 DEF Vanish
<1>32. CASE UNCHANGED vars
  BY <1>32 DEF vars, serverVars
<1> QED
  BY <1>1, <1>2, <1>3, <1>4, <1>5, <1>6, <1>7, <1>8, <1>9, <1>10, <1>11,
     <1>12, <1>13, <1>14, <1>15, <1>16, <1>17, <1>18, <1>19, <1>20, <1>21,
     <1>22, <1>23, <1>24, <1>25, <1>26, <1>27, <1>28, <1>29, <1>30, <1>31,
     <1>32, <1>33, <1>34, <1>35, <1>36, NextCases

(* The mutex is held exactly from the parsing of a command to the opening of   *)
(* its files, in every one of the eight branches, and the state is well typed. *)
THEOREM LockIsConsistent == Spec => []LockConsistent
<1>1. TypeInv => LockConsistent
  BY DEF TypeInv, LockConsistent
<1> QED
  BY <1>1, TypeInvInit, TypeInvStep, PTL DEF Spec

(* The stronger invariant, for the theorems below. *)
LEMMA TypeInvariant == Spec => []TypeInv
BY TypeInvInit, TypeInvStep, PTL DEF Spec

-----------------------------------------------------------------------------
(* What a session knows of the file it has open: it has one only between the *)
(* opening and the end of a transfer, and the file is there, as nobody ever   *)
(* removes one.                                                              *)
HoldsFile(r) == pc[r] \in {"sendFile", "ack", "upload"}
FdsKnown ==
  /\ DOMAIN fd = Runners
  /\ \A r \in Runners :
       /\ fd[r].kind \in {"none", "temps", "orphan", "file"}
       /\ fd[r].kind = "file" => /\ HoldsFile(r)
                                 /\ fd[r] = FileFd(fd[r].dir, fd[r].name)
                                 /\ fd[r].dir \in Dirs
                                 /\ fd[r].name \in DOMAIN files[fd[r].dir]
       /\ Uploading(r) => fd[r].kind = "file"

(* The three properties of the files, inductive together and with FdsKnown, *)
(* once TypeInv holds.                                                      *)
FileInv == FdsKnown /\ WorksInOwnDirectory /\ UploadsKeptApart /\ GetKeepsPromise

(* No file is open before the first command. *)
LEMMA FileInvInit == Init => FileInv
<1> SUFFICES ASSUME Init PROVE FileInv
  OBVIOUS
<1>1. /\ DOMAIN fd = Runners
      /\ \A r \in Runners : fd[r].kind = "none" /\ pc[r] = "start"
  BY DEF Init, ServerInit, NoFd
<1> QED
  BY <1>1 DEF FileInv, FdsKnown, WorksInOwnDirectory, UploadsKeptApart,
       GetKeepsPromise, Uploading, HoldsFile

(* The steps that matter are those of get and put, which open a file, and the *)
(* store of a block: they all see the globals and the current directory that  *)
(* other sessions may have changed a moment before.                           *)
LEMMA FileInvStep == TypeInv /\ FileInv /\ [Next]_vars => FileInv'
<1> SUFFICES ASSUME TypeInv, FileInv, [Next]_vars PROVE FileInv'
  OBVIOUS
<1>t. /\ pc \in [Runners -> Places]
      /\ pwd \in [Runners -> Dirs \cup {NoDir}]
      /\ size \in [Runners -> Nat]
      /\ obj \in Nat
      /\ cwd \in Dirs /\ exists \subseteq Dirs /\ c \in [Runners -> {0, 1}]
      /\ DOMAIN files = Dirs
      /\ \A d \in Dirs : \A n \in DOMAIN files[d] : files[d][n] \in Nat
      /\ LockDiscipline
  BY DEF TypeInv, TypeOK, DiskTyped
<1> USE <1>t
    DEF FileInv, FdsKnown, WorksInOwnDirectory, UploadsKeptApart, GetKeepsPromise,
        Uploading, HoldsFile, LockDiscipline, Locked, Goto, Reply,
        globals, disk, locals, wires, serverOnly, clientVars, history
<1>1. ASSUME NEW r \in Runners, Start(r), UNCHANGED clientVars PROVE FileInv'
  BY <1>1 DEF Start
<1>2. ASSUME NEW r \in Runners, RecvCommand(r), UNCHANGED clientVars
      PROVE  FileInv'
  BY <1>2 DEF RecvCommand
<1>3. ASSUME NEW r \in Runners, RecvEnd(r), UNCHANGED clientVars PROVE FileInv'
  BY <1>3 DEF RecvEnd
<1>4. ASSUME NEW r \in Runners, Acquire(r), UNCHANGED clientVars PROVE FileInv'
  BY <1>4 DEF Acquire
<1>5. ASSUME NEW r \in Runners, ParseCommand(r), UNCHANGED clientVars
      PROVE  FileInv'
  BY <1>5 DEF ParseCommand
<1>6. ASSUME NEW r \in Runners, Dispatch(r), UNCHANGED clientVars
      PROVE  FileInv'
  BY <1>6 DEF Dispatch
<1>7. ASSUME NEW r \in Runners, ClearBuf(r), UNCHANGED clientVars
      PROVE  FileInv'
  BY <1>7 DEF ClearBuf
<1>8. ASSUME NEW r \in Runners, ClearCommand(r), UNCHANGED clientVars
      PROVE  FileInv'
  <2>1. /\ pc[r] \in {"clearCommand", "lastClearCommand"}
        /\ pc'[r] \in {"recv", "exit"}
        /\ \A s \in Runners \ {r} : pc'[s] = pc[s]
    BY <1>8 DEF ClearCommand
  <2>2. UNCHANGED <<fd, files, exists, pwd, cwd, size>>
    BY <1>8 DEF ClearCommand
  <2> QED
    BY <2>1, <2>2
<1>9. ASSUME NEW r \in Runners, RunCommand(r), UNCHANGED clientVars
      PROVE  FileInv'
  BY <1>9 DEF RunCommand, EnterOwnDirectory
<1>10. ASSUME NEW r \in Runners, StatOutput(r), UNCHANGED clientVars
      PROVE  FileInv'
  BY <1>10 DEF StatOutput, StatSize
<1>11. ASSUME NEW r \in Runners, OpenOutput(r), UNCHANGED clientVars
      PROVE  FileInv'
  BY <1>11 DEF OpenOutput, NoFd, TempsFd
<1>12. ASSUME NEW r \in Runners, SendListing(r), UNCHANGED clientVars
      PROVE  FileInv'
  BY <1>12 DEF SendListing, NoFd
<1>13. ASSUME NEW r \in Runners, RemoveOutput(r), UNCHANGED clientVars
      PROVE  FileInv'
  BY <1>13 DEF RemoveOutput, TempsFd, OrphanFd
<1>14. ASSUME NEW r \in Runners, GetFile(r), UNCHANGED clientVars
      PROVE  FileInv'
  <2>1. cwd' \in Dirs /\ (pwd[r] \in exists => cwd' = pwd[r])
    BY <1>14, OwnDirectoryTyped DEF GetFile
  <2> DEFINE name == FileNamed
             d == cwd'
             found == name \in DOMAIN files[d]
  <2>2. /\ pc[r] = "get" /\ pc'[r] = "sendFile"
        /\ fd'[r] = IF found THEN FileFd(d, name) ELSE NoFd
        /\ size'[r] = IF found THEN files[d][name] ELSE 0
        /\ \A s \in Runners \ {r} : /\ pc'[s] = pc[s] /\ pc[s] \notin Locked
                                   /\ fd'[s] = fd[s] /\ size'[s] = size[s]
        /\ DOMAIN fd' = Runners
        /\ UNCHANGED <<files, exists, pwd>>
    BY <1>14 DEF GetFile
  <2> HIDE DEF name, d
  <2>3. d \in Dirs /\ (pwd[r] \in exists => d = pwd[r])
    BY <2>1 DEF d
  <2>4. FdsKnown'
    BY <2>2, <2>3 DEF NoFd, FileFd
  <2>5. WorksInOwnDirectory'
    BY <2>2, <2>3 DEF NoFd, FileFd
  <2>6. UploadsKeptApart'
    BY <2>2
  <2>7. GetKeepsPromise'
    BY <2>2, <2>3 DEF NoFd, FileFd
  <2> QED
    BY <2>4, <2>5, <2>6, <2>7
<1>15. ASSUME NEW r \in Runners, SendFile(r), UNCHANGED clientVars
      PROVE  FileInv'
  BY <1>15 DEF SendFile, NoFd
<1>16. ASSUME NEW r \in Runners, PutFile(r), UNCHANGED clientVars
      PROVE  FileInv'
  <2>1. cwd' \in Dirs /\ (pwd[r] \in exists => cwd' = pwd[r])
    BY <1>16, OwnDirectoryTyped DEF PutFile
  <2> DEFINE d == cwd'
             name == filename'
             D == DOMAIN files[d]
  <2>2. IsFiniteSet(DOMAIN files[d]) /\ FileNamed[2] \in Nat
    BY <2>1 DEF TypeInv, DiskTyped, FileNamed, NameOf
  <2>3. filename' \notin DOMAIN files[d]
    BY <1>16, <2>2, FreshNameIsFresh DEF PutFile
  <2>4. /\ pc[r] = "put" /\ pc'[r] = "ack"
        /\ fd'[r] = FileFd(d, name)
        /\ \A s \in Runners \ {r} : /\ pc'[s] = pc[s] /\ pc[s] \notin Locked
                                   /\ fd'[s] = fd[s] /\ size'[s] = size[s]
        /\ DOMAIN fd' = Runners
        /\ UNCHANGED <<pwd, exists>>
    BY <1>16 DEF PutFile
  <2>5. files' = [files EXCEPT ![d] = [n \in D \cup {name} |->
                                   IF n = name THEN 0 ELSE files[d][n]]]
    BY <1>16 DEF PutFile
  <2>6. d \in Dirs /\ (pwd[r] \in exists => d = pwd[r]) /\ name \notin D
    BY <2>1, <2>3
  <2> HIDE DEF name, d
  <2>7. \A e \in Dirs : \A n \in DOMAIN files[e] :
          n \in DOMAIN files'[e] /\ files'[e][n] = files[e][n]
    BY <2>5, <2>6
  <2>8. name \in DOMAIN files'[d]
    BY <2>5, <2>6
  <2>9. FdsKnown'
    BY <2>4, <2>6, <2>7, <2>8 DEF FileFd
  <2>10. WorksInOwnDirectory'
    BY <2>4, <2>6 DEF FileFd
  <2>11. UploadsKeptApart'
    BY <2>4, <2>6 DEF FileFd
  <2>12. GetKeepsPromise'
    BY <2>4, <2>7
  <2> QED
    BY <2>9, <2>10, <2>11, <2>12
<1>33. ASSUME NEW r \in Runners, PutLoops(r), UNCHANGED clientVars
      PROVE  FileInv'
  BY <1>33 DEF PutLoops, EnterOwnDirectory
<1>17. ASSUME NEW r \in Runners, AckPut(r), UNCHANGED clientVars PROVE FileInv'
  BY <1>17 DEF AckPut
<1>18. ASSUME NEW r \in Runners, StoreBlock(r), UNCHANGED clientVars
      PROVE  FileInv'
  BY <1>18 DEF StoreBlock
<1>19. ASSUME NEW r \in Runners, UploadTimesOut(r) PROVE FileInv'
  BY <1>19 DEF UploadTimesOut, EndUpload, NoFd
<1>20. ASSUME NEW r \in Runners, Pwd(r), UNCHANGED clientVars PROVE FileInv'
  BY <1>20 DEF Pwd
<1>21. ASSUME NEW r \in Runners, SendPwd(r), UNCHANGED clientVars
      PROVE  FileInv'
  BY <1>21 DEF SendPwd
<1>22. ASSUME NEW r \in Runners, ChangeDirectory(r), UNCHANGED clientVars
      PROVE  FileInv'
  <2>1. /\ pc[r] = "cd" /\ pc'[r] = "sendCd"
        /\ \A s \in Runners \ {r} : pc'[s] = pc[s] /\ pwd'[s] = pwd[s] /\ pc[s] \notin Locked
        /\ UNCHANGED <<fd, files, exists, size>>
    BY <1>22 DEF ChangeDirectory
  <2> QED
    BY <2>1
<1>23. ASSUME NEW r \in Runners, SendCd(r), UNCHANGED clientVars PROVE FileInv'
  BY <1>23 DEF SendCd
<1>24. ASSUME NEW r \in Runners, Close(r), UNCHANGED clientVars PROVE FileInv'
  BY <1>24 DEF Close
<1>25. ASSUME NEW r \in Runners, SendBye(r), UNCHANGED clientVars
      PROVE  FileInv'
  BY <1>25 DEF SendBye
<1>26. ASSUME NEW r \in Runners, Unknown(r), UNCHANGED clientVars
      PROVE  FileInv'
  BY <1>26 DEF Unknown
<1>27. ASSUME NEW r \in Runners, SendCommand(r) PROVE FileInv'
  BY <1>27 DEF SendCommand
<1>28. ASSUME NEW r \in Runners, ReceiveReply(r) PROVE FileInv'
  BY <1>28 DEF ReceiveReply
<1>34. ASSUME NEW r \in Runners, ReadOn(r) PROVE FileInv'
  BY <1>34 DEF ReadOn
<1>35. ASSUME NEW r \in Runners, ReadingEnds(r) PROVE FileInv'
  BY <1>35 DEF ReadingEnds, serverVars
<1>29. ASSUME NEW r \in Runners, UploadFile(r) PROVE FileInv'
  BY <1>29 DEF UploadFile
<1>30. ASSUME NEW r \in Runners, GiveUp(r) PROVE FileInv'
  BY <1>30 DEF GiveUp, serverVars
<1>31. ASSUME NEW r \in Runners, Leave(r) PROVE FileInv'
  BY <1>31 DEF Leave
<1>36. ASSUME NEW d \in Fleeting, Vanish(d) PROVE FileInv'
  <2>1. exists' \subseteq exists /\ UNCHANGED <<cwd, pc, pwd, fd, files, size>>
    BY <1>36 DEF Vanish
  <2> QED
    BY <2>1
<1>32. CASE UNCHANGED vars
  BY <1>32 DEF vars, serverVars
<1> QED
  BY <1>1, <1>2, <1>3, <1>4, <1>5, <1>6, <1>7, <1>8, <1>9, <1>10, <1>11,
     <1>12, <1>13, <1>14, <1>15, <1>16, <1>17, <1>18, <1>19, <1>20, <1>21,
     <1>22, <1>23, <1>24, <1>25, <1>26, <1>27, <1>28, <1>29, <1>30, <1>31,
     <1>32, <1>33, <1>34, <1>35, <1>36, NextCases

(* A session whose directory exists looks at its output and keeps its files *)
(* there, although all sessions move the one current directory of the       *)
(* process; chdir fails for no other.                                       *)
THEOREM SessionsKeepTheirDirectory == Spec => []WorksInOwnDirectory
<1>1. FileInv => WorksInOwnDirectory
  BY DEF FileInv
<1> QED
  BY <1>1, TypeInvariant, FileInvInit, FileInvStep, PTL DEF Spec

(* No two sessions ever write one file, however many clients put the same *)
(* name into the same directory at the same time.                         *)
THEOREM NoTwoUploadsMeet == Spec => []UploadsKeptApart
<1>1. FileInv => UploadsKeptApart
  BY DEF FileInv
<1> QED
  BY <1>1, TypeInvariant, FileInvInit, FileInvStep, PTL DEF Spec

(* A file that is being sent has at least the bytes that were announced: no *)
(* upload truncates or replaces it meanwhile.                               *)
THEOREM GetsKeepTheirPromise == Spec => []GetKeepsPromise
<1>1. FileInv => GetKeepsPromise
  BY DEF FileInv
<1> QED
  BY <1>1, TypeInvariant, FileInvInit, FileInvStep, PTL DEF Spec
-----------------------------------------------------------------------------
(* One session, with any timeouts. *)
LoneClient == \E r \in Runners : Runners = {r}

(* The places of a session that has a command in hand. *)
Taken == {"lock", "parse", "dispatch"}
PlacesOf(verb) ==
  CASE verb \in {"ls", "chmod"} -> {"run", "stat", "open", "list"}
    [] verb = "get"   -> {"get", "sendFile"}
    [] verb = "put"   -> {"put", "stuck", "ack"}
    [] verb = "pwd"   -> {"pwd", "sendPwd"}
    [] verb = "cd"    -> {"cd", "sendCd"}
    [] verb = "close" -> {"close", "bye"}
    [] OTHER          -> {"unknown"}
Idle == {"start", "recv", "exit", "clearCommand", "lastClearCommand"}
Ending == {"remove", "upload", "clearBuf", "lastClearBuf"}

(* Whatever the timeouts did: the session works on what is in buf, and nobody *)
(* else changes that.                                                         *)
InHand(r) ==
  /\ pc[r] \in Idle => buf = Blank
  /\ pc[r] \notin Idle \cup Ending =>
       /\ buf.verb \in Verbs \cup {"data", "?"}
       /\ buf.verb = "get" => buf.arg # ""
       /\ pc[r] \in Taken \cup PlacesOf(buf.verb)
       /\ pc[r] \notin {"lock", "parse"} => command = buf.verb

(* Every command that was sent is waiting in the inbox, or in hand, or its *)
(* reply is on its way, or it has been answered, and none is so twice.     *)
CommandsIn(q) == Cardinality({k \in 1 .. Len(q) : q[k] # Data})
Busy(r) == IF pc[r] \notin Idle \cup Ending /\ buf.verb \in Verbs THEN 1 ELSE 0
Paid(r) ==
  /\ \E S : outbox[r] \in Seq(S)
  /\ Busy(r) + CommandsIn(inbox[r]) + Len(outbox[r]) <= owed[r]

(* Before the session has started nothing has moved the process. *)
Starting(r) ==
  pc[r] = "start" =>
    /\ outbox[r] = <<>> /\ cwd = Home
    /\ place[r] # NoDir => place[r] = Home /\ Home \in exists \ Deep

(* temps.txt is there only for the command that has written it. *)
OwnOutput(r) ==
  /\ temps = NoText \/ pc[r] \in {"stat", "open", "list", "remove"}
  /\ pc[r] \in {"stat", "open", "list"} => temps = NoText \/ temps.by = {<<buf, cwd>>}
  /\ pc[r] \in {"open", "list"} => temps = NoText \/ size[r] = temps.len
  /\ pc[r] = "list" => fd[r] = IF temps = NoText THEN NoFd ELSE TempsFd
  /\ pc[r] = "sendFile" => fd[r] \in {NoFd, FileFd(cwd, NameOf(buf.arg))}

SoloSession(r) == InHand(r) /\ Paid(r) /\ Starting(r) /\ OwnOutput(r)
SoloInv ==
  /\ DOMAIN fd = Runners /\ DOMAIN outbox = Runners
  /\ \A r \in Runners : SoloSession(r)

(* How many commands a queue holds: one that is taken from it, or glued to   *)
(* another and lost, is no longer there; one that is sent is one more.        *)
LEMMA CountTyped ==
  ASSUME NEW q \in Seq(Message)
  PROVE  /\ IsFiniteSet({k \in 1 .. Len(q) : q[k] # Data})
         /\ CommandsIn(q) \in Nat
<1>1. IsFiniteSet(1 .. Len(q))
  BY FS_Interval
<1>2. IsFiniteSet({k \in 1 .. Len(q) : q[k] # Data})
  BY <1>1, FS_Subset
<1> QED
  BY <1>2, FS_CardinalityType DEF CommandsIn

LEMMA CountRest ==
  ASSUME NEW q \in Seq(Message), NEW n \in 1 .. Len(q)
  PROVE  CommandsIn(SubSeq(q, n + 1, Len(q))) + (IF Head(q) # Data THEN 1 ELSE 0)
           <= CommandsIn(q)
<1> DEFINE b == SubSeq(q, n + 1, Len(q))
           Of(x) == {k \in 1 .. Len(x) : x[k] # Data}
           f == [k \in Of(b) |-> k + n]
<1>1. /\ b \in Seq(Message) /\ Len(b) = Len(q) - n
      /\ \A k \in 1 .. Len(q) - n : b[k] = q[k + n]
  BY QueueRest
<1>2. n \in Nat \ {0} /\ Len(q) \in Nat /\ Head(q) = q[1] /\ 1 \in 1 .. Len(q)
  OBVIOUS
<1> HIDE DEF b
<1>3. IsFiniteSet(Of(q)) /\ IsFiniteSet(Of(b)) /\ CommandsIn(q) \in Nat /\ CommandsIn(b) \in Nat
  BY <1>1, CountTyped
<1>4. IsFiniteSet(Of(q) \ {1})
  BY <1>3, FS_Subset
<1>5. f \in Injection(Of(b), Of(q) \ {1})
  <2>1. ASSUME NEW k \in Of(b) PROVE k + n \in Of(q) \ {1}
    BY <1>1, <1>2
  <2>2. f \in [Of(b) -> Of(q) \ {1}]
    BY <2>1
  <2>3. \A j, k \in Of(b) : f[j] = f[k] => j = k
    BY <1>1, <1>2
  <2> QED
    BY <2>2, <2>3 DEF Injection, IsInjective
<1>6. Cardinality(Of(b)) <= Cardinality(Of(q) \ {1})
  BY <1>4, <1>5, FS_Injection
<1>7. Cardinality(Of(q) \ {1}) = Cardinality(Of(q)) - (IF Head(q) # Data THEN 1 ELSE 0)
  <2>1. 1 \in Of(q) <=> Head(q) # Data
    BY <1>2
  <2>2. CASE 1 \in Of(q)
    BY <2>1, <2>2, <1>3, FS_RemoveElement
  <2>3. CASE 1 \notin Of(q)
    <3>1. Of(q) \ {1} = Of(q)
      BY <2>3
    <3>2. Cardinality(Of(q)) \in Nat
      BY <1>3 DEF CommandsIn
    <3>3. (IF Head(q) # Data THEN 1 ELSE 0) = 0
      BY <2>1, <2>3
    <3>4. \A x \in Nat : x = x - 0
      OBVIOUS
    <3> QED
      BY ONLY <3>1, <3>2, <3>3, <3>4
  <2> QED
    BY <2>2, <2>3
<1>8. Cardinality(Of(b)) = CommandsIn(b) /\ Cardinality(Of(q)) = CommandsIn(q)
  BY DEF CommandsIn
<1> HIDE DEF Of
<1>9. CommandsIn(b) <= CommandsIn(q) - (IF Head(q) # Data THEN 1 ELSE 0)
  BY <1>6, <1>7, <1>8
<1> QED
  BY <1>3, <1>9 DEF b

LEMMA CountTail ==
  ASSUME NEW q \in Seq(Message), q # <<>>
  PROVE  Tail(q) \in Seq(Message) /\ CommandsIn(Tail(q)) <= CommandsIn(q)
<1>1. 1 \in 1 .. Len(q)
  OBVIOUS
<1>2. Tail(q) \in Seq(Message) /\ Tail(q) = SubSeq(q, 1 + 1, Len(q))
  OBVIOUS
<1>3. CommandsIn(Tail(q)) + (IF Head(q) # Data THEN 1 ELSE 0) <= CommandsIn(q)
  BY <1>1, <1>2, CountRest
<1>4. CommandsIn(q) \in Nat /\ CommandsIn(Tail(q)) \in Nat
  BY <1>2, CountTyped
<1> QED
  BY <1>2, <1>3, <1>4

LEMMA QueueAppend ==
  ASSUME NEW q \in Seq(Message), NEW m \in Message
  PROVE  /\ Len(q) \in Nat /\ Len(Append(q, m)) = Len(q) + 1
         /\ \A k \in 1 .. Len(q) + 1 :
              \/ k \in 1 .. Len(q) /\ Append(q, m)[k] = q[k]
              \/ k = Len(q) + 1 /\ Append(q, m)[k] = m
OBVIOUS

LEMMA CountAppend ==
  ASSUME NEW q \in Seq(Message), NEW m \in Message
  PROVE  CommandsIn(Append(q, m)) <= CommandsIn(q) + 1
<1> DEFINE Of(x) == {k \in 1 .. Len(x) : x[k] # Data}
           n == Len(q) + 1
<1>1. Append(q, m) \in Seq(Message)
  OBVIOUS
<1>2. Of(Append(q, m)) \subseteq Of(q) \cup {n}
  BY QueueAppend
<1>3. IsFiniteSet(Of(q)) /\ Cardinality(Of(q)) \in Nat
  BY CountTyped DEF CommandsIn
<1>4. Cardinality(Of(q) \cup {n}) <= Cardinality(Of(q)) + 1 /\ IsFiniteSet(Of(q) \cup {n})
  <2> HIDE DEF Of, n
  <2>1. /\ IsFiniteSet(Of(q) \cup {n})
        /\ \/ Cardinality(Of(q) \cup {n}) = Cardinality(Of(q))
           \/ Cardinality(Of(q) \cup {n}) = Cardinality(Of(q)) + 1
    BY <1>3, FS_AddElement
  <2> QED
    BY <1>3, <2>1
<1>5. Cardinality(Of(Append(q, m))) <= Cardinality(Of(q) \cup {n})
  BY <1>2, <1>4, FS_Subset
<1>6. Cardinality(Of(Append(q, m))) \in Nat /\ Cardinality(Of(q) \cup {n}) \in Nat
  BY <1>1, <1>4, CountTyped, FS_CardinalityType DEF CommandsIn
<1>7. /\ CommandsIn(Append(q, m)) = Cardinality(Of(Append(q, m)))
      /\ CommandsIn(q) = Cardinality(Of(q))
  BY DEF CommandsIn
<1> HIDE DEF Of, n
<1> QED
  BY <1>3, <1>4, <1>5, <1>6, <1>7

LEMMA QueueUpload ==
  ASSUME NEW q \in Seq(Message), NEW n \in Nat
  PROVE  \A k \in 1 .. Len(q \o [i \in 1 .. n |-> Data]) :
           \/ k \in 1 .. Len(q) /\ (q \o [i \in 1 .. n |-> Data])[k] = q[k]
           \/ (q \o [i \in 1 .. n |-> Data])[k] = Data
<1>1. [i \in 1 .. n |-> Data] \in Seq(Message) /\ Len([i \in 1 .. n |-> Data]) = n
  BY ConstantSeq DEF Message
<1>2. ASSUME NEW b \in Seq(Message), NEW k \in 1 .. Len(q \o b)
      PROVE  \/ k \in 1 .. Len(q) /\ (q \o b)[k] = q[k]
             \/ k - Len(q) \in 1 .. Len(b) /\ (q \o b)[k] = b[k - Len(q)]
  OBVIOUS
<1> QED
  BY <1>1, <1>2

LEMMA CountUpload ==
  ASSUME NEW q \in Seq(Message), NEW n \in Nat
  PROVE  CommandsIn(q \o [i \in 1 .. n |-> Data]) <= CommandsIn(q)
<1> DEFINE b == q \o [i \in 1 .. n |-> Data]
<1>1. {k \in 1 .. Len(b) : b[k] # Data} \subseteq {k \in 1 .. Len(q) : q[k] # Data}
  BY QueueUpload
<1> HIDE DEF b
<1>2. CommandsIn(b) <= CommandsIn(q)
  BY <1>1, CountTyped, FS_Subset DEF CommandsIn
<1> QED
  BY <1>2 DEF b

(* A reply is put at the end of the outbox, or its first one is taken. *)
LEMMA OutboxMoves ==
  ASSUME NEW q, \E S : q \in Seq(S), NEW item
  PROVE  /\ Len(q) \in Nat /\ (q # <<>> => Len(q) # 0)
         /\ (\E S : Append(q, item) \in Seq(S)) /\ Len(Append(q, item)) = Len(q) + 1
         /\ q # <<>> => (\E S : Tail(q) \in Seq(S)) /\ Len(Tail(q)) = Len(q) - 1
<1>1. PICK S : q \in Seq(S)
  OBVIOUS
<1>2. q \in Seq(S \cup {item}) /\ item \in S \cup {item}
  BY <1>1
<1>3. Append(q, item) \in Seq(S \cup {item}) /\ Len(Append(q, item)) = Len(q) + 1
  BY <1>2
<1>4. q # <<>> => Tail(q) \in Seq(S) /\ Len(Tail(q)) = Len(q) - 1
  BY <1>1
<1>5. Len(q) \in Nat /\ (q # <<>> => Len(q) # 0)
  BY <1>1, EmptySeq
<1> QED
  BY <1>3, <1>4, <1>5

(* A get names the file of the command in buf, not of an earlier one. *)
LEMMA GetNamesItsFile ==
  ASSUME buf.verb = "get", buf.arg # "" PROVE FileNamed = NameOf(buf.arg)
<1>1. buf # Blank
  <2>1. Blank.verb = ""
    BY DEF Blank
  <2> QED
    BY <2>1
<1> QED
  BY <1>1 DEF FileNamed

(* What recv makes of the front of a queue: the first message, as it is or with *)
(* the word at its end spoilt.                                                  *)
LEMMA ArrivedKnown ==
  ASSUME NEW q \in Seq(Message), NEW n \in 1 .. Len(q), NEW b, b = Arrived(q, n)
  PROVE  /\ b.verb \in Verbs \cup {"data", "?"}
         /\ b.verb = "get" => b.arg # ""
         /\ b.verb \in Verbs => Head(q) # Data
         /\ n = 1 => b = q[1]
         /\ n # 1 /\ q[1] = Data => b = Garbled
<1>1. Head(q) = q[1] /\ q[1] \in Message /\ n \in Nat \ {0}
  OBVIOUS
<1>2. Data.verb = "data" /\ Data.arg = "" /\ Garbled.verb = "?" /\ "data" \notin Verbs /\ "?" \notin Verbs
  BY DEF Data, Garbled, Verbs
<1>3. \A m \in Commands : /\ m = [verb |-> m.verb, arg |-> m.arg] /\ m.verb \in Verbs
                          /\ m.verb = "get" => m.arg # ""
  BY FtpAssumption
<1>4. CASE n = 1
  <2>1. b = q[1]
    BY <1>1, <1>4 DEF Arrived
  <2> QED
    BY <1>1, <1>2, <1>3, <1>4, <2>1 DEF Message
<1>5. CASE n # 1 /\ q[1].arg = ""
  <2>1. b = Garbled
    <3>2. n \in Nat \ {0} /\ n # 1
      BY <1>1, <1>5
    <3>3. n > 1
      BY ONLY <3>2
    <3>1. n > 1 /\ Head(q).arg = "" /\ n # 1
      BY ONLY <1>1, <1>5, <3>3
    <3> QED
      BY ONLY <3>1, b = Arrived(q, n) DEF Arrived
  <2> QED
    BY <1>2, <1>5, <2>1
<1>6. CASE n # 1 /\ q[1].arg # ""
  <2>1. q[1] \in Commands /\ b = [q[1] EXCEPT !.arg = "?"]
    BY <1>1, <1>2, <1>6 DEF Arrived, Message
  <2>2. b.verb = q[1].verb /\ b.arg = "?"
    BY <1>3, <2>1
  <2> QED
    BY <1>1, <1>2, <1>3, <1>6, <2>1, <2>2
<1> QED
  BY <1>4, <1>5, <1>6

(* The program starts with nothing on its way. *)
LEMMA SoloInvInit == Init => SoloInv
<1> SUFFICES ASSUME Init PROVE SoloInv
  OBVIOUS
<1>1. ASSUME NEW r \in Runners
      PROVE  /\ pc[r] = "start" /\ buf = Blank /\ outbox[r] = <<>> /\ inbox[r] = <<>>
             /\ cwd = Home /\ exists = Dirs /\ place[r] = Nameable(Home) /\ owed[r] = 0 /\ temps = NoText
  BY DEF Init, ServerInit
<1>2. DOMAIN fd = Runners /\ DOMAIN outbox = Runners
  BY DEF Init, ServerInit
<1>3. ASSUME NEW r \in Runners PROVE Paid(r)
  <2>1. {k \in 1 .. Len(inbox[r]) : inbox[r][k] # Data} = {}
    BY <1>1
  <2>2. CommandsIn(inbox[r]) = 0
    BY <2>1, FS_EmptySet DEF CommandsIn
  <2>3. Busy(r) = 0 /\ Len(outbox[r]) = 0 /\ \E S : outbox[r] \in Seq(S)
    BY <1>1, EmptySeq DEF Busy, Idle
  <2> QED
    BY <1>1, <2>2, <2>3 DEF Paid
<1>4. ASSUME NEW r \in Runners PROVE Starting(r)
  BY <1>1, FtpServerAssumption DEF Starting, Nameable
<1>5. ASSUME NEW r \in Runners PROVE InHand(r) /\ OwnOutput(r)
  BY <1>1 DEF InHand, OwnOutput, Idle
<1> QED
  BY <1>2, <1>3, <1>4, <1>5 DEF SoloInv, SoloSession

(* Each step of the session, of its client or of others on the disk keeps it so. *)
LEMMA SoloInvStep == LoneClient /\ TypeInv /\ SoloInv /\ [Next]_vars => SoloInv'
<1> SUFFICES ASSUME LoneClient, TypeInv, SoloInv, [Next]_vars PROVE SoloInv'
  OBVIOUS
<1>s. PICK s \in Runners : Runners = {s}
  BY DEF LoneClient
<1>t. /\ pc \in [Runners -> Places] /\ size \in [Runners -> Nat]
      /\ DOMAIN fd = Runners /\ DOMAIN outbox = Runners
      /\ place \in [Runners -> Dirs \cup {NoDir}] /\ owed \in [Runners -> Int]
      /\ inbox \in [Runners -> Seq(Message)]
  BY DEF TypeInv, TypeOK, WiresTyped, SoloInv
<1>i. InHand(s) /\ Paid(s) /\ Starting(s) /\ OwnOutput(s)
  BY DEF SoloInv, SoloSession
<1>n. /\ CommandsIn(inbox[s]) \in Nat /\ Len(outbox[s]) \in Nat /\ owed[s] \in Int
      /\ Busy(s) \in {0, 1} /\ Busy(s)' \in {0, 1}
  <2>1. CommandsIn(inbox[s]) \in Nat
    BY <1>t, CountTyped
  <2>2. Len(outbox[s]) \in Nat
    BY <1>i, OutboxMoves DEF Paid
  <2> QED
    BY <1>t, <2>1, <2>2 DEF Busy
<1>g. ASSUME DOMAIN fd' = Runners, DOMAIN outbox' = Runners,
             InHand(s)', Paid(s)', Starting(s)', OwnOutput(s)'
      PROVE  SoloInv'
  BY <1>s, <1>g DEF SoloInv, SoloSession
(* A step that moves no message and takes no new command in hand. *)
<1>p. ASSUME UNCHANGED <<inbox, outbox, owed>>,
             pc'[s] \in Idle \cup Ending \/ (pc[s] \notin Idle \cup Ending /\ UNCHANGED buf)
      PROVE  Paid(s)'
  <2>1. Busy(s)' <= Busy(s)
    BY <1>p, <1>n DEF Busy
  <2>2. Busy(s)' + CommandsIn(inbox[s]) + Len(outbox[s]) <= owed[s]
    <3>1. Busy(s) + CommandsIn(inbox[s]) + Len(outbox[s]) <= owed[s]
      BY <1>i DEF Paid
    <3> QED
      BY ONLY <1>n, <2>1, <3>1
  <2> QED
    BY <1>p, <1>i, <2>2 DEF Paid
(* A reply to the command in hand, which ends there. *)
<1>y. ASSUME NEW item, Reply(s, item), Busy(s) = 1, Busy(s)' = 0, UNCHANGED <<inbox, owed>>
      PROVE  Paid(s)' /\ DOMAIN outbox' = Runners /\ outbox'[s] = Append(outbox[s], item)
  <2>1. DOMAIN outbox' = Runners /\ outbox'[s] = Append(outbox[s], item)
    BY <1>y, <1>t DEF Reply
  <2>2. (\E S : outbox'[s] \in Seq(S)) /\ Len(outbox'[s]) = Len(outbox[s]) + 1
    BY <2>1, <1>i, OutboxMoves DEF Paid
  <2> QED
    BY <1>y, <1>i, <1>n, <2>1, <2>2 DEF Paid
(* A step that leaves the session, the wires and the disk alone. *)
<1>q. ASSUME UNCHANGED <<pc, buf, command, temps, cwd, exists, fd, size, inbox, outbox, owed, place>>
      PROVE  SoloInv'
  <2>1. InHand(s)' /\ Starting(s)' /\ OwnOutput(s)'
    BY <1>q, <1>i DEF InHand, Starting, OwnOutput
  <2>2. Busy(s)' = Busy(s)
    BY <1>q DEF Busy
  <2>3. Paid(s)'
    BY <1>q, <1>i, <2>2 DEF Paid
  <2> QED
    BY <1>q, <1>t, <1>g, <2>1, <2>3
(* A session at a place of its own has a command in hand. *)
<1>v. ASSUME pc[s] \notin Idle \cup Ending \cup Taken \cup {"unknown"}
      PROVE  /\ buf.verb \in Verbs /\ command = buf.verb /\ Busy(s) = 1
             /\ pc[s] \in PlacesOf(buf.verb)
  <2>1. pc[s] \in PlacesOf(buf.verb) /\ buf.verb \in Verbs \cup {"data", "?"} /\ command = buf.verb
    BY <1>v, <1>i DEF InHand, Taken
  <2>2. buf.verb \in Verbs
    BY <1>v, <2>1 DEF PlacesOf
  <2> QED
    BY <1>v, <2>1, <2>2 DEF Busy
<1> HIDE DEF SoloInv
<1> USE <1>t, <1>i
    DEF InHand, Starting, OwnOutput, Idle, Taken, Ending, PlacesOf,
        Goto, globals, disk, locals, wires, serverOnly, clientVars, history
<1>1. ASSUME Start(s), UNCHANGED clientVars PROVE SoloInv'
  <2>1. /\ pc[s] = "start" /\ pc'[s] = "recv"
        /\ UNCHANGED <<cwd, buf, command, temps, inbox, outbox, fd, owed>>
    BY <1>1 DEF Start
  <2>2. Paid(s)'
    BY <1>p, <2>1
  <2> QED
    BY <1>g, <2>1, <2>2
<1>2. ASSUME RecvCommand(s), UNCHANGED clientVars PROVE SoloInv'
  <2>1. /\ pc[s] = "recv" /\ pc'[s] = "lock" /\ inbox[s] \in Seq(Message)
        /\ UNCHANGED <<cwd, temps, outbox, fd, owed>>
    BY <1>2 DEF RecvCommand
  <2>2. PICK n \in 1 .. Len(inbox[s]) :
          /\ buf' \in Received(Arrived(inbox[s], n))
          /\ inbox' = [inbox EXCEPT ![s] = SubSeq(inbox[s], n + 1, Len(inbox[s]))]
    BY <1>2 DEF RecvCommand
  <2>3. buf' = Arrived(inbox[s], n)
    BY <2>1, <2>2 DEF Received
  <2>4. /\ buf'.verb \in Verbs \cup {"data", "?"} /\ (buf'.verb = "get" => buf'.arg # "")
        /\ buf'.verb \in Verbs => Head(inbox[s]) # Data
    BY <2>1, <2>3, ArrivedKnown
  <2>5. Paid(s)'
    <3>1. inbox'[s] = SubSeq(inbox[s], n + 1, Len(inbox[s])) /\ inbox'[s] \in Seq(Message)
      BY <2>1, <2>2, QueueRest
    <3>2. CommandsIn(inbox'[s]) + (IF Head(inbox[s]) # Data THEN 1 ELSE 0) <= CommandsIn(inbox[s])
      BY <2>1, <3>1, CountRest
    <3>3. CommandsIn(inbox'[s]) \in Nat
      BY <3>1, CountTyped
    <3>4. Busy(s)' <= IF Head(inbox[s]) # Data THEN 1 ELSE 0
      <4>1. buf'.verb \notin Verbs => Busy(s)' = 0
        BY ONLY DEF Busy
      <4>2. CASE buf'.verb \in Verbs
        <5>1. Head(inbox[s]) # Data
          BY ONLY <2>4, <4>2
        <5> QED
          BY ONLY <1>n, <5>1
      <4>3. CASE buf'.verb \notin Verbs
        BY ONLY <4>1, <4>3
      <4> QED
        BY ONLY <4>2, <4>3
    <3>5. Busy(s)' + CommandsIn(inbox'[s]) <= CommandsIn(inbox[s])
      BY ONLY <1>n, <3>2, <3>3, <3>4
    <3>6. Busy(s)' + CommandsIn(inbox'[s]) + Len(outbox[s]) <= owed[s]
      <4>1. Busy(s) + CommandsIn(inbox[s]) + Len(outbox[s]) <= owed[s]
        BY DEF Paid
      <4> QED
        BY ONLY <1>n, <3>3, <3>5, <4>1
    <3> QED
      BY <2>1, <3>6 DEF Paid
  <2> QED
    BY <1>g, <2>1, <2>4, <2>5
<1>3. ASSUME RecvEnd(s), UNCHANGED clientVars PROVE SoloInv'
  <2>1. /\ pc[s] = "recv" /\ pc'[s] = "exit"
        /\ UNCHANGED <<cwd, buf, command, temps, inbox, outbox, fd, owed>>
    BY <1>3 DEF RecvEnd
  <2>2. Paid(s)'
    BY <1>p, <2>1
  <2> QED
    BY <1>g, <2>1, <2>2
<1>4. ASSUME Acquire(s), UNCHANGED clientVars PROVE SoloInv'
  <2>1. /\ pc[s] = "lock" /\ pc'[s] = "parse"
        /\ UNCHANGED <<cwd, buf, command, temps, inbox, outbox, fd, owed>>
    BY <1>4 DEF Acquire
  <2>2. Paid(s)'
    BY <1>p, <2>1
  <2> QED
    BY <1>g, <2>1, <2>2
<1>5. ASSUME ParseCommand(s), UNCHANGED clientVars PROVE SoloInv'
  <2>1. pc[s] = "parse" /\ pc'[s] = "dispatch" /\ UNCHANGED <<cwd, buf, temps, inbox, outbox, fd, owed>>
    BY <1>5 DEF ParseCommand
  <2>2. buf # Blank
    <3>1. buf.verb \in Verbs \cup {"data", "?"}
      BY <2>1
    <3>2. Blank.verb \notin Verbs \cup {"data", "?"}
      BY ONLY DEF Blank, Verbs
    <3> QED
      BY ONLY <3>1, <3>2
  <2>3. command' = buf.verb
    BY <1>5, <2>2 DEF ParseCommand
  <2>4. Paid(s)'
    BY <1>p, <2>1
  <2> QED
    BY <1>g, <2>1, <2>3, <2>4
<1>6. ASSUME Dispatch(s), UNCHANGED clientVars PROVE SoloInv'
  <2>1. /\ pc[s] = "dispatch" /\ pc'[s] \in PlacesOf(buf.verb) /\ pc'[s] \notin {"stat", "open", "list", "sendFile"}
        /\ UNCHANGED <<cwd, buf, command, temps, inbox, outbox, fd, owed>>
    BY <1>6 DEF Dispatch
  <2>2. pc'[s] \notin Idle \cup Ending /\ pc[s] \notin Idle \cup Ending
    BY <2>1
  <2>3. Paid(s)'
    BY <1>p, <2>1, <2>2
  <2>4. InHand(s)' /\ Starting(s)' /\ OwnOutput(s)'
    BY <2>1, <2>2
  <2> QED
    BY <1>g, <2>1, <2>3, <2>4
<1>7. ASSUME ClearBuf(s), UNCHANGED clientVars PROVE SoloInv'
  <2>1. /\ pc[s] \in {"clearBuf", "lastClearBuf"} /\ pc'[s] \in {"clearCommand", "lastClearCommand"} /\ buf' = Blank
        /\ UNCHANGED <<cwd, command, temps, inbox, outbox, fd, owed>>
    BY <1>7 DEF ClearBuf
  <2>2. Paid(s)'
    BY <1>p, <2>1
  <2> QED
    BY <1>g, <2>1, <2>2
<1>8. ASSUME ClearCommand(s), UNCHANGED clientVars PROVE SoloInv'
  <2>1. /\ pc[s] \in {"clearCommand", "lastClearCommand"} /\ pc'[s] \in {"recv", "exit"}
        /\ UNCHANGED <<cwd, buf, temps, inbox, outbox, fd, owed>>
    BY <1>8 DEF ClearCommand
  <2>2. Paid(s)'
    BY <1>p, <2>1
  <2> QED
    BY <1>g, <2>1, <2>2
<1>9. ASSUME RunCommand(s), UNCHANGED clientVars PROVE SoloInv'
  <2>1. /\ pc[s] = "run" /\ pc'[s] = "stat" /\ temps = NoText
        /\ temps' \in {Overwrite(temps, Output(cwd')), temps}
        /\ UNCHANGED <<buf, command, inbox, outbox, fd, owed>>
    BY <1>9 DEF RunCommand
  <2>2. temps' = NoText \/ temps'.by = {<<buf, cwd'>>}
    <3> DEFINE d == cwd'
    <3>1. Overwrite(NoText, Output(d)).by = {<<buf, d>>}
      <4>1. Output(d).by = {<<buf, d>>} /\ NoText.by = {}
        BY DEF Output, NoText
      <4> QED
        BY <4>1 DEF Overwrite
    <3> QED
      BY <2>1, <3>1
  <2>3. buf.verb \in {"ls", "chmod"} /\ command = buf.verb /\ buf.verb \in Verbs
    BY <1>v, <2>1
  <2>4. Paid(s)'
    BY <1>p, <2>1, <2>3
  <2> QED
    BY <1>g, <2>1, <2>2, <2>3, <2>4
<1>10. ASSUME StatOutput(s), UNCHANGED clientVars PROVE SoloInv'
  <2>2. pc[s] = "stat" /\ pc'[s] = "open" /\ UNCHANGED <<buf, inbox, outbox, owed>>
    BY <1>10 DEF StatOutput
  <2>1. Paid(s)'
    BY <1>p, <2>2
  <2> QED
    BY <1>10, <1>g, <2>1 DEF StatOutput, StatSize
<1>11. ASSUME OpenOutput(s), UNCHANGED clientVars PROVE SoloInv'
  <2>2. pc[s] = "open" /\ pc'[s] = "list" /\ UNCHANGED <<buf, inbox, outbox, owed>>
    BY <1>11 DEF OpenOutput
  <2>1. Paid(s)'
    BY <1>p, <2>2
  <2> QED
    BY <1>11, <1>g, <2>1 DEF OpenOutput
<1>12. ASSUME SendListing(s), UNCHANGED clientVars PROVE SoloInv'
  <2>1. PICK item : Reply(s, item)
    BY <1>12 DEF SendListing
  <2>2. Busy(s) = 1 /\ Busy(s)' = 0
    BY <1>12, <1>v DEF SendListing, Busy
  <2>3. Paid(s)' /\ DOMAIN outbox' = Runners
    BY <1>12, <1>y, <2>1, <2>2 DEF SendListing
  <2> QED
    BY <1>12, <1>g, <2>3 DEF SendListing
<1>13. ASSUME RemoveOutput(s), UNCHANGED clientVars PROVE SoloInv'
  <2>1. /\ pc[s] = "remove" /\ pc'[s] = "clearBuf" /\ DOMAIN fd' = Runners /\ temps' = NoText
        /\ UNCHANGED <<cwd, buf, command, inbox, outbox, owed>>
    BY <1>13 DEF RemoveOutput
  <2>2. Paid(s)'
    BY <1>p, <2>1
  <2> QED
    BY <1>g, <2>1, <2>2
<1>14. ASSUME GetFile(s), UNCHANGED clientVars PROVE SoloInv'
  <2>1. /\ pc[s] = "get" /\ pc'[s] = "sendFile" /\ UNCHANGED <<buf, command, temps, inbox, outbox, owed>>
        /\ fd'[s] \in {NoFd, FileFd(cwd', FileNamed)} /\ DOMAIN fd' = Runners
    BY <1>14 DEF GetFile
  <2>2. buf.verb = "get" /\ command = buf.verb /\ buf.arg # ""
    BY <1>v, <2>1
  <2>3. FileNamed = NameOf(buf.arg)
    BY <2>2, GetNamesItsFile
  <2>4. Paid(s)'
    BY <1>p, <2>1
  <2> QED
    BY <1>g, <2>1, <2>2, <2>3, <2>4
<1>15. ASSUME SendFile(s), UNCHANGED clientVars PROVE SoloInv'
  <2>1. PICK item : Reply(s, item)
    BY <1>15 DEF SendFile
  <2>2. Busy(s) = 1 /\ Busy(s)' = 0
    BY <1>15, <1>v DEF SendFile, Busy
  <2>3. Paid(s)' /\ DOMAIN outbox' = Runners
    BY <1>15, <1>y, <2>1, <2>2 DEF SendFile
  <2> QED
    BY <1>15, <1>g, <2>3 DEF SendFile
<1>16. ASSUME PutFile(s), UNCHANGED clientVars PROVE SoloInv'
  <2>1. /\ pc[s] = "put" /\ pc'[s] = "ack" /\ DOMAIN fd' = Runners
        /\ UNCHANGED <<buf, command, temps, inbox, outbox, owed>>
    BY <1>16 DEF PutFile
  <2>2. buf.verb = "put" /\ command = buf.verb /\ temps = NoText
    BY <1>v, <2>1
  <2>3. Paid(s)'
    BY <1>p, <2>1
  <2> QED
    BY <1>g, <2>1, <2>2, <2>3 DEF Verbs
<1>33. ASSUME PutLoops(s), UNCHANGED clientVars PROVE SoloInv'
  <2>1. /\ pc[s] = "put" /\ pc'[s] = "stuck"
        /\ UNCHANGED <<buf, command, temps, inbox, outbox, owed, fd>>
    BY <1>33 DEF PutLoops
  <2>2. buf.verb = "put" /\ command = buf.verb /\ temps = NoText
    BY <1>v, <2>1
  <2>3. Paid(s)'
    BY <1>p, <2>1
  <2> QED
    BY <1>g, <2>1, <2>2, <2>3 DEF Verbs
<1>17. ASSUME AckPut(s), UNCHANGED clientVars PROVE SoloInv'
  <2>1. PICK item : Reply(s, item)
    BY <1>17 DEF AckPut
  <2>2. Busy(s) = 1 /\ Busy(s)' = 0
    BY <1>17, <1>v DEF AckPut, Busy
  <2>3. Paid(s)' /\ DOMAIN outbox' = Runners
    BY <1>17, <1>y, <2>1, <2>2 DEF AckPut
  <2> QED
    BY <1>17, <1>g, <2>3 DEF AckPut
<1>18. ASSUME StoreBlock(s), UNCHANGED clientVars PROVE SoloInv'
  <2>1. /\ pc[s] = "upload" /\ inbox[s] # <<>> /\ inbox[s] \in Seq(Message) /\ inbox'[s] = Tail(inbox[s])
        /\ UNCHANGED <<cwd, buf, command, temps, outbox, owed, fd, pc>>
    BY <1>18 DEF StoreBlock
  <2>2. /\ CommandsIn(inbox'[s]) <= CommandsIn(inbox[s]) /\ CommandsIn(inbox'[s]) \in Nat
        /\ Busy(s)' = Busy(s)
    BY <2>1, CountTail, CountTyped DEF Busy
  <2>3. Paid(s)'
    <3>1. Busy(s) + CommandsIn(inbox[s]) + Len(outbox[s]) <= owed[s]
      BY DEF Paid
    <3>2. Busy(s)' + CommandsIn(inbox'[s]) + Len(outbox[s]) <= owed[s]
      BY ONLY <1>n, <2>2, <3>1
    <3> QED
      BY <2>1, <3>2 DEF Paid
  <2> QED
    BY <1>g, <2>1, <2>3
<1>19. ASSUME UploadTimesOut(s) PROVE SoloInv'
  BY <1>19, <1>g, <1>p DEF UploadTimesOut, EndUpload, Busy
<1>20. ASSUME Pwd(s), UNCHANGED clientVars PROVE SoloInv'
  <2>1. /\ pc[s] = "pwd" /\ pc'[s] = "sendPwd"
        /\ UNCHANGED <<cwd, buf, command, temps, inbox, outbox, fd, owed>>
    BY <1>20 DEF Pwd
  <2>2. Paid(s)'
    BY <1>p, <2>1
  <2> QED
    BY <1>g, <2>1, <2>2
<1>21. ASSUME SendPwd(s), UNCHANGED clientVars PROVE SoloInv'
  <2>1. PICK item : Reply(s, item)
    BY <1>21 DEF SendPwd
  <2>2. Busy(s) = 1 /\ Busy(s)' = 0
    BY <1>21, <1>v DEF SendPwd, Busy
  <2>3. Paid(s)' /\ DOMAIN outbox' = Runners
    BY <1>21, <1>y, <2>1, <2>2 DEF SendPwd
  <2> QED
    BY <1>21, <1>g, <2>3 DEF SendPwd
<1>22. ASSUME ChangeDirectory(s), UNCHANGED clientVars PROVE SoloInv'
  <2>1. /\ pc[s] = "cd" /\ pc'[s] = "sendCd"
        /\ UNCHANGED <<buf, command, temps, inbox, outbox, owed, fd>>
    BY <1>22 DEF ChangeDirectory
  <2>2. Paid(s)'
    BY <1>p, <2>1
  <2> QED
    BY <1>g, <2>1, <2>2
<1>23. ASSUME SendCd(s), UNCHANGED clientVars PROVE SoloInv'
  <2>1. PICK item : Reply(s, item)
    BY <1>23 DEF SendCd
  <2>2. Busy(s) = 1 /\ Busy(s)' = 0
    BY <1>23, <1>v DEF SendCd, Busy
  <2>3. Paid(s)' /\ DOMAIN outbox' = Runners
    BY <1>23, <1>y, <2>1, <2>2 DEF SendCd
  <2> QED
    BY <1>23, <1>g, <2>3 DEF SendCd
<1>24. ASSUME Close(s), UNCHANGED clientVars PROVE SoloInv'
  <2>1. /\ pc[s] = "close" /\ pc'[s] = "bye"
        /\ UNCHANGED <<cwd, buf, command, temps, inbox, outbox, fd, owed>>
    BY <1>24 DEF Close
  <2>2. Paid(s)'
    BY <1>p, <2>1
  <2> QED
    BY <1>g, <2>1, <2>2
<1>25. ASSUME SendBye(s), UNCHANGED clientVars PROVE SoloInv'
  <2>1. PICK item : Reply(s, item)
    BY <1>25 DEF SendBye
  <2>2. Busy(s) = 1 /\ Busy(s)' = 0
    BY <1>25, <1>v DEF SendBye, Busy
  <2>3. Paid(s)' /\ DOMAIN outbox' = Runners
    BY <1>25, <1>y, <2>1, <2>2 DEF SendBye
  <2> QED
    BY <1>25, <1>g, <2>3 DEF SendBye
<1>26. ASSUME Unknown(s), UNCHANGED clientVars PROVE SoloInv'
  <2>1. /\ pc[s] = "unknown" /\ pc'[s] = "clearBuf"
        /\ UNCHANGED <<cwd, buf, command, temps, inbox, outbox, fd, owed>>
    BY <1>26 DEF Unknown
  <2>2. Paid(s)'
    BY <1>p, <2>1
  <2> QED
    BY <1>g, <2>1, <2>2
<1>27. ASSUME SendCommand(s) PROVE SoloInv'
  <2>1. PICK m \in Commands : inbox' = [inbox EXCEPT ![s] = Append(@, m)]
    BY <1>27 DEF SendCommand
  <2>2. /\ inbox[s] \in Seq(Message) /\ inbox'[s] = Append(inbox[s], m) /\ m \in Message
        /\ owed'[s] = owed[s] + 1
        /\ UNCHANGED <<cwd, exists, buf, command, temps, outbox, fd, pc, place, size>>
    BY <1>27, <2>1 DEF SendCommand, Message
  <2>3. /\ CommandsIn(inbox'[s]) <= CommandsIn(inbox[s]) + 1 /\ CommandsIn(inbox'[s]) \in Nat
        /\ Busy(s)' = Busy(s)
    <3>1. Append(inbox[s], m) \in Seq(Message)
      BY ONLY <2>2
    <3> QED
      BY <2>2, <3>1, CountAppend, CountTyped DEF Busy
  <2>4. Paid(s)'
    <3>1. Busy(s) + CommandsIn(inbox[s]) + Len(outbox[s]) <= owed[s]
      BY DEF Paid
    <3>2. Busy(s)' + CommandsIn(inbox'[s]) + Len(outbox[s]) <= owed'[s]
      BY ONLY <1>n, <2>2, <2>3, <3>1
    <3> QED
      BY <2>2, <3>2 DEF Paid
  <2> QED
    BY <1>g, <2>2, <2>4
<1>28. ASSUME ReceiveReply(s) \/ ReadOn(s) PROVE SoloInv'
  <2>1. /\ outbox[s] # <<>> /\ outbox'[s] = Tail(outbox[s]) /\ owed'[s] = owed[s] - 1
        /\ DOMAIN outbox' = Runners
        /\ UNCHANGED <<cwd, buf, command, temps, inbox, fd, pc, size>>
    BY <1>28, DOMAIN outbox = Runners DEF ReceiveReply, ReadOn
  <2>2. (\E S : outbox'[s] \in Seq(S)) /\ Len(outbox'[s]) = Len(outbox[s]) - 1
    <3>1. \E S : outbox[s] \in Seq(S)
      BY DEF Paid
    <3> QED
      BY ONLY <2>1, <3>1, OutboxMoves
  <2>4. Busy(s)' = Busy(s)
    BY ONLY <2>1 DEF Busy
  <2>5. Busy(s)' + CommandsIn(inbox'[s]) + Len(outbox'[s]) <= owed'[s]
    <3>1. Busy(s) + CommandsIn(inbox[s]) + Len(outbox[s]) <= owed[s]
      BY DEF Paid
    <3> QED
      BY ONLY <1>n, <2>1, <2>2, <2>4, <3>1
  <2>3. Paid(s)'
    BY ONLY <2>2, <2>5 DEF Paid
  <2> QED
    BY <1>g, <2>1, <2>3
<1>35. ASSUME ReadingEnds(s) PROVE SoloInv'
  BY <1>35, <1>q DEF ReadingEnds, serverVars
<1>29. ASSUME UploadFile(s) PROVE SoloInv'
  <2>1. PICK n \in 0 .. MaxBlocks : inbox' = [inbox EXCEPT ![s] = @ \o [i \in 1 .. n |-> Data]]
    BY <1>29 DEF UploadFile
  <2>2. /\ inbox[s] \in Seq(Message) /\ n \in Nat /\ inbox'[s] = inbox[s] \o [i \in 1 .. n |-> Data]
        /\ inbox'[s] \in Seq(Message)
        /\ UNCHANGED <<cwd, exists, buf, command, temps, outbox, fd, pc, place, size, owed>>
    <3>1. n \in 0 .. MaxBlocks /\ MaxBlocks \in Nat
      BY FtpAssumption
    <3>2. n \in Nat
      BY ONLY <3>1
    <3>3. [i \in 1 .. n |-> Data] \in Seq(Message)
      BY <3>2, ConstantSeq DEF Message
    <3>4. inbox[s] \in Seq(Message)
      OBVIOUS
    <3>5. inbox[s] \o [i \in 1 .. n |-> Data] \in Seq(Message)
      BY ONLY <3>3, <3>4
    <3> QED
      BY <1>29, <2>1, <3>2, <3>4, <3>5 DEF UploadFile
  <2>3. /\ CommandsIn(inbox'[s]) <= CommandsIn(inbox[s]) /\ CommandsIn(inbox'[s]) \in Nat
        /\ Busy(s)' = Busy(s)
    BY <2>2, CountUpload, CountTyped DEF Busy
  <2>4. Paid(s)'
    <3>1. Busy(s) + CommandsIn(inbox[s]) + Len(outbox[s]) <= owed[s]
      BY DEF Paid
    <3>2. Busy(s)' + CommandsIn(inbox'[s]) + Len(outbox[s]) <= owed[s]
      BY ONLY <1>n, <2>3, <3>1
    <3> QED
      BY <2>2, <3>2 DEF Paid
  <2> QED
    BY <1>g, <2>2, <2>4
<1>30. ASSUME GiveUp(s) PROVE SoloInv'
  BY <1>30, <1>q DEF GiveUp, serverVars
<1>31. ASSUME Leave(s) PROVE SoloInv'
  BY <1>31, <1>q DEF Leave
<1>36. ASSUME NEW d \in Fleeting, Vanish(d) PROVE SoloInv'
  <2>1. /\ exists' = exists \ {d}
        /\ place'[s] = IF pc[s] = "start" /\ place[s] = d THEN NoDir ELSE place[s]
        /\ UNCHANGED <<cwd, buf, command, temps, inbox, outbox, fd, pc, size, owed>>
    BY <1>36 DEF Vanish
  <2>2. Paid(s)'
    BY <1>p, <2>1
  <2> QED
    BY <1>g, <2>1, <2>2
<1>32. CASE UNCHANGED vars
  BY <1>32, <1>q DEF vars, serverVars
<1> QED
  BY <1>1, <1>2, <1>3, <1>4, <1>5, <1>6, <1>7, <1>8, <1>9, <1>10, <1>11,
     <1>12, <1>13, <1>14, <1>15, <1>16, <1>17, <1>18, <1>19, <1>20, <1>21,
     <1>22, <1>23, <1>24, <1>25, <1>26, <1>27, <1>28, <1>29, <1>30, <1>31,
     <1>32, <1>33, <1>35, <1>36, <1>s, NextCases

-----------------------------------------------------------------------------
(* As long as no timeout of the connection has fired too early, the client  *)
(* and the session are in step.                                             *)

(* There is at most one reply, and it answers what was asked. *)
OneReply(r) ==
  outbox[r] # <<>> =>
    /\ at[r] = "wait" /\ inbox[r] = <<>>
    /\ \E item : /\ outbox[r] = <<item>>
                 /\ Answers(item, asked[r], place[r])
                 /\ asked[r].verb = "cd" => item.ok = c[r]

(* There is at most one command on its way, behind the data of an upload. *)
OneCommand(r) ==
  \A k \in 1 .. Len(inbox[r]) :
    \/ inbox[r][k] = Data
    \/ /\ k = Len(inbox[r]) /\ inbox[r][k] = asked[r] /\ asked[r] \in Commands
       /\ at[r] = "wait" /\ outbox[r] = <<>>

(* What the session has in hand is the command of its client, unspoilt, or *)
(* what was left of an upload.                                             *)
Mine(r) ==
  pc[r] \notin Idle \cup Ending =>
    \/ buf \in {Data, Garbled}
    \/ /\ buf = asked[r] /\ asked[r] \in Commands
       /\ at[r] = "wait" /\ inbox[r] = <<>> /\ outbox[r] = <<>>

(* The session is where its user expects it to be, or, when a cd has been  *)
(* carried out and its status is still on the way, where that cd led.      *)
Moving(r) == asked[r].verb = "cd" /\ at[r] = "wait" /\ (pc[r] = "sendCd" \/ outbox[r] # <<>>)
Placed(r, d) == cwd = d /\ pwd[r] = d
InPlace(r) ==
  place[r] # NoDir /\ pc[r] # "start" =>
    IF Moving(r) /\ c[r] = 1
    THEN /\ Leads(place[r], asked[r].arg) # NoDir
         /\ Expected(place[r], asked[r].arg) # NoDir => Placed(r, Expected(place[r], asked[r].arg))
    ELSE /\ Placed(r, place[r])
         /\ Moving(r) => Leads(place[r], asked[r].arg) \notin exists

InStep(r) == OneReply(r) /\ OneCommand(r) /\ Mine(r) /\ InPlace(r)
StepInv == \A r \in Runners : r \notin hasty => InStep(r)

LEMMA StepInvInit == Init => StepInv
<1>1. SUFFICES ASSUME Init, NEW r \in Runners PROVE InStep(r)
  BY DEF StepInv
<1>2. pc[r] = "start" /\ outbox[r] = <<>> /\ inbox[r] = <<>>
  BY <1>1 DEF Init, ServerInit
<1>3. Len(inbox[r]) = 0
  BY <1>2
<1> QED
  BY <1>2, <1>3 DEF InStep, OneReply, OneCommand, Mine, InPlace, Idle

(* Each step of the session, of its client or of others on the disk keeps so. *)
LEMMA StepInvStep == LoneClient /\ TypeInv /\ SoloInv /\ StepInv /\ [Next]_vars => StepInv'
<1> SUFFICES ASSUME LoneClient, TypeInv, SoloInv, StepInv, [Next]_vars PROVE StepInv'
  OBVIOUS
<1>s. PICK s \in Runners : Runners = {s}
  BY DEF LoneClient
<1>t. /\ pc \in [Runners -> Places] /\ cwd \in Dirs /\ exists \subseteq Dirs
      /\ DOMAIN fd = Runners /\ DOMAIN outbox = Runners
      /\ c \in [Runners -> {0, 1}] /\ pwd \in [Runners -> Dirs \cup {NoDir}]
      /\ at \in [Runners -> {"prompt", "wait", "upload", "reading", "left"}]
      /\ DOMAIN asked = Runners
      /\ place \in [Runners -> Dirs \cup {NoDir}] /\ NoDir \notin Dirs
      /\ inbox \in [Runners -> Seq(Message)]
  BY FtpServerAssumption DEF TypeInv, TypeOK, WiresTyped, SoloInv
<1>i. InHand(s) /\ Starting(s) /\ OwnOutput(s)
  BY DEF SoloInv, SoloSession
<1>j. s \notin hasty => OneReply(s) /\ OneCommand(s) /\ Mine(s) /\ InPlace(s)
  BY DEF StepInv, InStep
<1> DEFINE Stays == OneReply(s)' /\ OneCommand(s)' /\ Mine(s)' /\ InPlace(s)'
<1>h. SUFFICES ASSUME s \notin hasty' PROVE Stays
  BY <1>s DEF StepInv, InStep
(* A session at a place of its own has the command of its client in hand. *)
<1>v. ASSUME s \notin hasty, pc[s] \notin Idle \cup Ending \cup Taken \cup {"unknown"}
      PROVE  /\ buf = asked[s] /\ asked[s] \in Commands /\ asked[s].verb \in Verbs
             /\ pc[s] \in PlacesOf(asked[s].verb)
             /\ at[s] = "wait" /\ inbox[s] = <<>> /\ outbox[s] = <<>>
  <2>1. pc[s] \in PlacesOf(buf.verb)
    BY <1>v, <1>i DEF InHand, Taken
  <2>2. PlacesOf("data") = {"unknown"} /\ PlacesOf("?") = {"unknown"}
    BY ONLY DEF PlacesOf
  <2>3. buf \notin {Data, Garbled}
    <3>1. Data.verb = "data" /\ Garbled.verb = "?" /\ pc[s] # "unknown"
      BY <1>v DEF Data, Garbled
    <3> QED
      BY <2>1, <2>2, <3>1
  <2>4. /\ buf = asked[s] /\ asked[s] \in Commands
        /\ at[s] = "wait" /\ inbox[s] = <<>> /\ outbox[s] = <<>>
    BY <1>v, <1>j, <2>3 DEF Mine
  <2> QED
    BY <2>1, <2>4, FtpAssumption
(* Where the session is, unless a cd is under way. *)
<1>d. ASSUME s \notin hasty, ~Moving(s), pc[s] # "start", place[s] # NoDir
      PROVE  cwd = place[s] /\ pwd[s] = place[s]
  BY <1>d, <1>j DEF InPlace, Placed
(* A step that moves no message and nobody. *)
<1>q. ASSUME s \notin hasty, UNCHANGED <<inbox, outbox, asked, at, place, cwd, exists>>,
             pwd'[s] = pwd[s], c'[s] = c[s],
             pc[s] \notin {"start", "sendCd"}, pc'[s] \notin {"start", "sendCd"},
             pc'[s] \in Idle \cup Ending \/ (pc[s] \notin Idle \cup Ending /\ UNCHANGED buf)
      PROVE  Stays
  <2>1. OneReply(s)'
    BY <1>q, <1>j DEF OneReply, Answers, Possible
  <2>2. OneCommand(s)'
    BY <1>q, <1>j DEF OneCommand
  <2>3. Mine(s)'
    BY <1>q, <1>j DEF Mine
  <2>4. Moving(s)' = Moving(s)
    BY <1>q DEF Moving
  <2>5. InPlace(s)'
    BY <1>q, <1>j, <2>4 DEF InPlace, Placed, Expected
  <2> QED
    BY <2>1, <2>2, <2>3, <2>5
(* A command other than cd enters the session's directory: it is there. *)
<1>w. ASSUME s \notin hasty, EnterOwnDirectory(s),
             UNCHANGED <<inbox, outbox, asked, at, place, exists, buf, pwd>>,
             pc[s] \in {"run", "get", "put"}, pc'[s] \in {"stat", "sendFile", "ack", "stuck"}
      PROVE  Stays
  <2>1. /\ buf = asked[s] /\ asked[s] \in Commands /\ at[s] = "wait"
        /\ inbox[s] = <<>> /\ outbox[s] = <<>>
    BY <1>w, <1>v DEF Idle, Ending, Taken
  <2>2. OneReply(s)' /\ Mine(s)'
    BY <1>w, <2>1 DEF OneReply, Mine
  <2>3. OneCommand(s)'
    BY <1>w, <1>j DEF OneCommand
  <2>4. ~Moving(s) /\ ~Moving(s)'
    BY <1>w, <2>1 DEF Moving
  <2>5. place[s] # NoDir => cwd' = place[s] /\ pwd[s] = place[s]
    BY <1>w, <1>d, <2>4 DEF EnterOwnDirectory
  <2>6. InPlace(s)'
    BY <1>w, <2>4, <2>5 DEF InPlace, Placed
  <2> QED
    BY <2>2, <2>3, <2>6
(* A reply to the command in hand. *)
<1>y. ASSUME NEW item, s \notin hasty, Reply(s, item),
             UNCHANGED <<inbox, asked, at, place, exists, cwd>>,
             pwd'[s] = pwd[s], c'[s] = c[s],
             pc[s] \notin Idle \cup Ending \cup Taken \cup {"unknown"}, pc'[s] \in Ending,
             Answers(item, asked[s], place[s]),
             IF asked[s].verb = "cd" THEN pc[s] = "sendCd" /\ item.ok = c[s] ELSE pc[s] # "sendCd"
      PROVE  Stays
  <2>1. /\ buf = asked[s] /\ asked[s] \in Commands /\ at[s] = "wait"
        /\ inbox[s] = <<>> /\ outbox[s] = <<>>
    BY <1>y, <1>v
  <2>2. outbox'[s] = <<item>> /\ <<item>> # <<>>
    BY <1>y, <1>t, <2>1 DEF Reply
  <2>3. Answers(item, asked[s], place[s])'
    BY <1>y DEF Answers, Possible
  <2>4. OneReply(s)'
    BY <1>y, <2>1, <2>2, <2>3 DEF OneReply
  <2>5. OneCommand(s)'
    <3>1. Len(inbox'[s]) = 0
      BY <1>y, <2>1
    <3> QED
      BY <3>1 DEF OneCommand
  <2>6. Mine(s)'
    BY <1>y DEF Mine, Ending
  <2>7. Moving(s)' = Moving(s)
    BY <1>y, <2>1, <2>2 DEF Moving
  <2>8. pc[s] # "start" /\ pc'[s] # "start"
    BY <1>y DEF Idle, Ending
  <2>9. InPlace(s)'
    BY <1>y, <1>j, <2>7, <2>8 DEF InPlace, Placed, Expected
  <2> QED
    BY <2>4, <2>5, <2>6, <2>9
<1> USE DEF Goto, globals, disk, locals, wires, serverOnly, clientVars, history
<1>1. ASSUME Start(s), UNCHANGED clientVars PROVE Stays
  <2>1. /\ pc[s] = "start" /\ pc'[s] = "recv" /\ pwd'[s] = Getcwd(cwd, NoDir)
        /\ UNCHANGED <<inbox, outbox, asked, at, place, cwd, c>> /\ s \notin hasty
    BY <1>1, <1>t, <1>h DEF Start
  <2>2. outbox[s] = <<>> /\ (place[s] # NoDir => cwd = place[s] /\ cwd \in exists \ Deep)
    BY <2>1, <1>i DEF Starting
  <2>3. OneReply(s)' /\ OneCommand(s)' /\ Mine(s)' /\ ~Moving(s)'
    BY <2>1, <2>2, <1>j DEF OneReply, OneCommand, Mine, Moving, Idle
  <2>4. InPlace(s)'
    BY <2>1, <2>2, <2>3 DEF InPlace, Placed, Getcwd
  <2> QED
    BY <2>3, <2>4
<1>2. ASSUME RecvCommand(s), UNCHANGED clientVars PROVE Stays
  <2>1. /\ pc[s] = "recv" /\ pc'[s] = "lock" /\ inbox[s] # <<>> /\ inbox[s] \in Seq(Message)
        /\ UNCHANGED <<outbox, asked, at, place, cwd, exists, c, pwd>> /\ s \notin hasty
    BY <1>2, <1>t, <1>h DEF RecvCommand
  <2>2. PICK n \in 1 .. Len(inbox[s]) :
          /\ buf' \in Received(Arrived(inbox[s], n))
          /\ inbox' = [inbox EXCEPT ![s] = SubSeq(inbox[s], n + 1, Len(inbox[s]))]
    BY <1>2 DEF RecvCommand
  <2>3. buf' = Arrived(inbox[s], n)
    BY <2>1, <2>2, <1>i DEF Received, InHand, Idle
  <2>4. /\ inbox'[s] = SubSeq(inbox[s], n + 1, Len(inbox[s]))
        /\ Len(inbox'[s]) = Len(inbox[s]) - n
        /\ \A k \in 1 .. Len(inbox[s]) - n : inbox'[s][k] = inbox[s][k + n]
    <3>1. inbox'[s] = SubSeq(inbox[s], n + 1, Len(inbox[s]))
      BY <2>2, <1>t
    <3> QED
      BY <2>1, <2>2, <3>1, QueueRest
  <2>5. Len(inbox[s]) \in Nat /\ n \in Nat /\ 1 <= n /\ n <= Len(inbox[s])
    BY <2>1, <2>2
  <2>6. outbox[s] = <<>>
    BY <2>1, <1>j DEF OneReply
  <2>7. OneReply(s)'
    BY <2>1, <2>6 DEF OneReply
  <2>8. ASSUME NEW k \in 1 .. Len(inbox[s]) - n
        PROVE  \/ inbox'[s][k] = Data
               \/ /\ k = Len(inbox[s]) - n /\ inbox'[s][k] = asked[s]
                  /\ asked[s] \in Commands /\ at[s] = "wait"
    <3>1. k + n \in 1 .. Len(inbox[s]) /\ k \in Nat
      BY ONLY <2>5, k \in 1 .. Len(inbox[s]) - n
    <3>2. \/ inbox[s][k + n] = Data
          \/ /\ k + n = Len(inbox[s]) /\ inbox[s][k + n] = asked[s]
             /\ asked[s] \in Commands /\ at[s] = "wait"
      BY <2>1, <3>1, <1>j DEF OneCommand
    <3>3. inbox'[s][k] = inbox[s][k + n]
      BY <2>4
    <3>4. k + n = Len(inbox[s]) => k = Len(inbox[s]) - n
      BY ONLY <2>5, <3>1
    <3> QED
      BY <3>2, <3>3, <3>4
  <2>9. OneCommand(s)'
    BY <2>1, <2>4, <2>6, <2>8 DEF OneCommand
  <2>10. Mine(s)'
    <3>1. CASE n = 1
      <4>1. buf' = inbox[s][1] /\ 1 \in 1 .. Len(inbox[s])
        BY <2>1, <2>2, <2>3, <2>5, <3>1, ArrivedKnown
      <4>2. \/ inbox[s][1] = Data
            \/ /\ Len(inbox[s]) = 1 /\ inbox[s][1] = asked[s]
               /\ asked[s] \in Commands /\ at[s] = "wait"
        BY <2>1, <4>1, <1>j DEF OneCommand
      <4>3. Len(inbox[s]) = 1 => inbox'[s] = <<>>
        BY <2>1, <2>4, <3>1
      <4> QED
        BY <2>1, <2>6, <4>1, <4>2, <4>3 DEF Mine
    <3>2. CASE n # 1
      <4>5. \A m, l \in Nat : 1 <= m /\ m <= l /\ m # 1 => 1 \in 1 .. l /\ 1 # l
        OBVIOUS
      <4>1. 1 \in 1 .. Len(inbox[s]) /\ 1 # Len(inbox[s])
        BY ONLY <2>5, <3>2, <4>5
      <4>2. inbox[s][1] = Data
        BY <2>1, <4>1, <1>j DEF OneCommand
      <4>3. buf' = Garbled
        BY <2>1, <2>2, <2>3, <3>2, <4>2, ArrivedKnown
      <4> QED
        BY <4>3 DEF Mine, Garbled
    <3> QED
      BY <3>1, <3>2
  <2>11. InPlace(s)'
    BY <2>1, <2>6, <1>j DEF InPlace, Moving, Placed, Expected
  <2> QED
    BY <2>7, <2>9, <2>10, <2>11
<1>3. ASSUME RecvEnd(s), UNCHANGED clientVars PROVE Stays
  BY <1>3, <1>t, <1>h, <1>q DEF RecvEnd, Idle, Ending
<1>4. ASSUME Acquire(s), UNCHANGED clientVars PROVE Stays
  BY <1>4, <1>t, <1>h, <1>q DEF Acquire, Idle, Ending
<1>5. ASSUME ParseCommand(s), UNCHANGED clientVars PROVE Stays
  BY <1>5, <1>t, <1>h, <1>q DEF ParseCommand, Idle, Ending
<1>6. ASSUME Dispatch(s), UNCHANGED clientVars PROVE Stays
  <2>1. /\ pc[s] = "dispatch" /\ pc'[s] \in {"run", "get", "put", "pwd", "cd", "close", "unknown"}
        /\ UNCHANGED <<inbox, outbox, asked, at, place, cwd, exists, pwd, c, buf, hasty>>
    BY <1>6, <1>t DEF Dispatch
  <2> QED
    BY <2>1, <1>h, <1>q DEF Idle, Ending
<1>7. ASSUME ClearBuf(s), UNCHANGED clientVars PROVE Stays
  BY <1>7, <1>t, <1>h, <1>q DEF ClearBuf, Idle, Ending
<1>8. ASSUME ClearCommand(s), UNCHANGED clientVars PROVE Stays
  BY <1>8, <1>t, <1>h, <1>q DEF ClearCommand, Idle, Ending
<1>9. ASSUME RunCommand(s), UNCHANGED clientVars PROVE Stays
  BY <1>9, <1>t, <1>h, <1>w DEF RunCommand
<1>10. ASSUME StatOutput(s), UNCHANGED clientVars PROVE Stays
  BY <1>10, <1>t, <1>h, <1>q DEF StatOutput, Idle, Ending
<1>11. ASSUME OpenOutput(s), UNCHANGED clientVars PROVE Stays
  BY <1>11, <1>t, <1>h, <1>q DEF OpenOutput, Idle, Ending
<1>12. ASSUME SendListing(s), UNCHANGED clientVars PROVE Stays
  <2>1. /\ pc[s] = "list" /\ pc'[s] = "remove" /\ s \notin hasty
        /\ UNCHANGED <<inbox, asked, at, place, cwd, exists, pwd, c>>
    BY <1>12, <1>t, <1>h DEF SendListing
  <2>2. /\ buf = asked[s] /\ asked[s].verb \in {"ls", "chmod"} /\ outbox[s] = <<>>
    BY <2>1, <1>v DEF PlacesOf, Idle, Ending, Taken
  <2>3. /\ temps = NoText \/ (temps.by = {<<buf, cwd>>} /\ size[s] = temps.len)
        /\ fd[s] = IF temps = NoText THEN NoFd ELSE TempsFd
    BY <2>1, <1>i DEF OwnOutput
  <2>4. NoFd # TempsFd
    BY DEF NoFd, TempsFd
  <2> DEFINE item == [kind |-> "listing", size |-> size[s],
               text |-> CASE fd[s] = TempsFd -> temps
                          [] fd[s] = NoFd    -> NoText
                          [] OTHER           -> fd[s].text]
  <2>5. item.kind = "listing" /\ item.size = size[s] /\ item.text = temps
    BY <2>3, <2>4
  <2>6. Reply(s, item)
    BY <1>12 DEF SendListing
  <2> HIDE DEF item
  <2>7. cwd \in Possible(place[s])
    <3>1. ~Moving(s)
      BY <2>1, <2>2 DEF Moving
    <3> QED
      BY <2>1, <3>1, <1>d, <1>t DEF Possible
  <2>8. Answers(item, asked[s], place[s])
    BY <2>2, <2>3, <2>5, <2>7 DEF Answers
  <2> QED
    BY <2>1, <2>2, <2>6, <2>8, <1>y DEF Idle, Ending, Taken
<1>13. ASSUME RemoveOutput(s), UNCHANGED clientVars PROVE Stays
  BY <1>13, <1>t, <1>h, <1>q DEF RemoveOutput, Idle, Ending
<1>14. ASSUME GetFile(s), UNCHANGED clientVars PROVE Stays
  BY <1>14, <1>t, <1>h, <1>w DEF GetFile
<1>15. ASSUME SendFile(s), UNCHANGED clientVars PROVE Stays
  <2>1. /\ pc[s] = "sendFile" /\ pc'[s] = "clearBuf" /\ s \notin hasty
        /\ UNCHANGED <<inbox, asked, at, place, cwd, exists, pwd, c>>
    BY <1>15, <1>t, <1>h DEF SendFile
  <2>2. /\ buf = asked[s] /\ asked[s].verb = "get" /\ outbox[s] = <<>>
    BY <2>1, <1>v DEF PlacesOf, Idle, Ending, Taken
  <2>3. fd[s] \in {NoFd, FileFd(cwd, NameOf(asked[s].arg))}
    BY <2>1, <2>2, <1>i DEF OwnOutput
  <2> DEFINE item == [kind |-> "file", size |-> size[s], from |-> fd[s]]
  <2>5. item.kind = "file" /\ item.from = fd[s]
    OBVIOUS
  <2>6. Reply(s, item)
    BY <1>15 DEF SendFile
  <2> HIDE DEF item
  <2>7. cwd \in Possible(place[s])
    <3>1. ~Moving(s)
      BY <2>1, <2>2 DEF Moving
    <3> QED
      BY <2>1, <3>1, <1>d, <1>t DEF Possible
  <2>8. Answers(item, asked[s], place[s])
    BY <2>2, <2>3, <2>5, <2>7 DEF Answers
  <2> QED
    BY <2>1, <2>2, <2>6, <2>8, <1>y DEF Idle, Ending, Taken
<1>16. ASSUME PutFile(s), UNCHANGED clientVars PROVE Stays
  BY <1>16, <1>t, <1>h, <1>w DEF PutFile
<1>33. ASSUME PutLoops(s), UNCHANGED clientVars PROVE Stays
  BY <1>33, <1>t, <1>h, <1>w DEF PutLoops
<1>17. ASSUME AckPut(s), UNCHANGED clientVars PROVE Stays
  <2>1. /\ pc[s] = "ack" /\ pc'[s] = "upload" /\ s \notin hasty
        /\ UNCHANGED <<inbox, asked, at, place, cwd, exists, pwd, c>>
        /\ Reply(s, [kind |-> "ack"])
    BY <1>17, <1>t, <1>h DEF AckPut
  <2>2. asked[s].verb = "put"
    BY <2>1, <1>v DEF PlacesOf, Idle, Ending, Taken
  <2>3. Answers([kind |-> "ack"], asked[s], place[s])
    BY <2>2 DEF Answers
  <2> QED
    BY <2>1, <2>2, <2>3, <1>y DEF Idle, Ending, Taken
<1>18. ASSUME StoreBlock(s), UNCHANGED clientVars PROVE Stays
  <2>1. /\ pc[s] = "upload" /\ inbox[s] # <<>> /\ inbox[s] \in Seq(Message)
        /\ inbox'[s] = Tail(inbox[s]) /\ s \notin hasty
        /\ UNCHANGED <<cwd, exists, buf, outbox, pc, c, pwd, asked, at, place>>
    BY <1>18, <1>t, <1>h DEF StoreBlock
  <2>2. outbox[s] = <<>>
    BY <2>1, <1>j DEF OneReply
  <2>3. /\ Len(inbox'[s]) = Len(inbox[s]) - 1 /\ Len(inbox[s]) \in Nat
        /\ \A k \in 1 .. Len(inbox[s]) - 1 : inbox'[s][k] = inbox[s][k + 1]
    BY ONLY <2>1
  <2>4. ASSUME NEW k \in 1 .. Len(inbox[s]) - 1
        PROVE  \/ inbox'[s][k] = Data
               \/ /\ k = Len(inbox[s]) - 1 /\ inbox'[s][k] = asked[s]
                  /\ asked[s] \in Commands /\ at[s] = "wait"
    <3>1. k + 1 \in 1 .. Len(inbox[s]) /\ (k + 1 = Len(inbox[s]) => k = Len(inbox[s]) - 1)
      BY ONLY <2>3, k \in 1 .. Len(inbox[s]) - 1
    <3>2. \/ inbox[s][k + 1] = Data
          \/ /\ k + 1 = Len(inbox[s]) /\ inbox[s][k + 1] = asked[s]
             /\ asked[s] \in Commands /\ at[s] = "wait"
      BY <2>1, <3>1, <1>j DEF OneCommand
    <3> QED
      BY <2>3, <3>1, <3>2
  <2>5. OneReply(s)' /\ Mine(s)'
    BY <2>1, <2>2 DEF OneReply, Mine, Ending
  <2>6. OneCommand(s)'
    BY <2>1, <2>2, <2>3, <2>4 DEF OneCommand
  <2>7. InPlace(s)'
    BY <2>1, <1>j DEF InPlace, Moving, Placed, Expected
  <2> QED
    BY <2>5, <2>6, <2>7
<1>19. ASSUME UploadTimesOut(s) PROVE Stays
  <2>1. /\ pc[s] = "upload" /\ pc'[s] = "clearBuf" /\ s \notin hasty
        /\ UNCHANGED <<inbox, outbox, asked, at, place, cwd, exists, pwd, c>>
    BY <1>19, <1>t, <1>h DEF UploadTimesOut, EndUpload
  <2> QED
    BY <2>1, <1>q DEF Ending
<1>20. ASSUME Pwd(s), UNCHANGED clientVars PROVE Stays
  BY <1>20, <1>t, <1>h, <1>q DEF Pwd, Idle, Ending
<1>21. ASSUME SendPwd(s), UNCHANGED clientVars PROVE Stays
  <2>1. /\ pc[s] = "sendPwd" /\ pc'[s] = "clearBuf" /\ s \notin hasty
        /\ UNCHANGED <<inbox, asked, at, place, cwd, exists, pwd, c>>
        /\ Reply(s, [kind |-> "pwd", dir |-> pwd[s]])
    BY <1>21, <1>t, <1>h DEF SendPwd
  <2>2. asked[s].verb = "pwd"
    BY <2>1, <1>v DEF PlacesOf, Idle, Ending, Taken
  <2>3. ~Moving(s)
    BY <2>2 DEF Moving
  <2>4. Answers([kind |-> "pwd", dir |-> pwd[s]], asked[s], place[s])
    BY <2>1, <2>2, <2>3, <1>d DEF Answers
  <2> QED
    BY <2>1, <2>2, <2>4, <1>y DEF Idle, Ending, Taken
<1>22. ASSUME ChangeDirectory(s), UNCHANGED clientVars PROVE Stays
  <2>1. PICK target \in CdTargets :
          /\ c' = [c EXCEPT ![s] = IF target = NoDir THEN 0 ELSE 1]
          /\ cwd' = IF target = NoDir THEN cwd ELSE target
    BY <1>22 DEF ChangeDirectory
  <2>2. /\ pc[s] = "cd" /\ pc'[s] = "sendCd" /\ s \notin hasty
        /\ pwd'[s] = Getcwd(cwd', pwd[s]) /\ c'[s] = IF target = NoDir THEN 0 ELSE 1
        /\ UNCHANGED <<inbox, outbox, buf, asked, at, place, exists>>
    BY <1>22, <1>t, <1>h, <2>1 DEF ChangeDirectory
  <2>3. /\ buf = asked[s] /\ asked[s] \in Commands /\ asked[s].verb = "cd" /\ at[s] = "wait"
        /\ inbox[s] = <<>> /\ outbox[s] = <<>>
    BY <2>2, <1>v DEF PlacesOf, Idle, Ending, Taken
  <2>4. target = IF Leads(cwd, asked[s].arg) \in exists \cup {cwd} THEN Leads(cwd, asked[s].arg) ELSE NoDir
    <3>1. asked[s].arg # "?"
      BY <2>3, FtpAssumption
    <3> QED
      BY <2>1, <2>3, <3>1 DEF CdTargets
  <2>5. OneReply(s)' /\ Mine(s)'
    BY <2>2, <2>3 DEF OneReply, Mine
  <2>6. OneCommand(s)'
    BY <2>2, <1>j DEF OneCommand
  <2>7. Moving(s)' /\ ~Moving(s)
    BY <2>2, <2>3 DEF Moving
  <2>8. place[s] # NoDir => cwd = place[s] /\ pwd[s] = place[s]
    BY <2>2, <2>7, <1>d
  <2>9. InPlace(s)'
    <3> SUFFICES ASSUME place[s] # NoDir
                 PROVE  IF c'[s] = 1
                        THEN /\ Leads(place[s], asked[s].arg) # NoDir
                             /\ Expected(place[s], asked[s].arg) # NoDir
                                  => Placed(s, Expected(place[s], asked[s].arg))'
                        ELSE Placed(s, place[s])' /\ Leads(place[s], asked[s].arg) \notin exists
      BY <2>2, <2>7 DEF InPlace, Expected
    <3>1. CASE target = NoDir
      <4>1. c'[s] = 0 /\ cwd' = cwd /\ pwd'[s] = place[s]
        BY <2>1, <2>2, <2>8, <3>1 DEF Getcwd
      <4>2. Leads(place[s], asked[s].arg) \notin exists
        BY <2>4, <2>8, <3>1, <1>t
      <4> QED
        BY <2>2, <2>8, <4>1, <4>2 DEF Placed
    <3>2. CASE target # NoDir
      <4>1. c'[s] = 1 /\ target = Leads(place[s], asked[s].arg) /\ cwd' = target
            /\ target \in exists \cup {place[s]}
        BY <2>1, <2>2, <2>4, <2>8, <3>2
      <4>2. ASSUME Expected(place[s], asked[s].arg) # NoDir
            PROVE  Expected(place[s], asked[s].arg) = target /\ target \notin Deep
        BY <4>1, <4>2, <3>2 DEF Expected, Nameable
      <4>3. ASSUME target \notin Deep PROVE pwd'[s] = target
        BY <4>1, <4>3, <2>2, <2>8 DEF Getcwd
      <4> QED
        BY <3>2, <4>1, <4>2, <4>3, <2>2 DEF Placed, Expected
    <3> QED
      BY <3>1, <3>2
  <2> QED
    BY <2>5, <2>6, <2>9
<1>23. ASSUME SendCd(s), UNCHANGED clientVars PROVE Stays
  <2>1. /\ pc[s] = "sendCd" /\ pc'[s] = "clearBuf" /\ s \notin hasty
        /\ UNCHANGED <<inbox, asked, at, place, cwd, exists, pwd, c>>
        /\ Reply(s, [kind |-> "status", ok |-> c[s]])
    BY <1>23, <1>t, <1>h DEF SendCd
  <2>2. asked[s].verb = "cd" /\ Moving(s)
    BY <2>1, <1>v DEF PlacesOf, Idle, Ending, Taken, Moving
  <2>3. place[s] # NoDir => IF c[s] = 1 THEN Leads(place[s], asked[s].arg) # NoDir
                            ELSE Leads(place[s], asked[s].arg) \notin exists
    BY <2>1, <2>2, <1>j DEF InPlace
  <2>4. Answers([kind |-> "status", ok |-> c[s]], asked[s], place[s])
    BY <2>2, <2>3 DEF Answers
  <2> QED
    BY <2>1, <2>2, <2>4, <1>y DEF Idle, Ending, Taken
<1>24. ASSUME Close(s), UNCHANGED clientVars PROVE Stays
  BY <1>24, <1>t, <1>h, <1>q DEF Close, Idle, Ending
<1>25. ASSUME SendBye(s), UNCHANGED clientVars PROVE Stays
  <2>1. /\ pc[s] = "bye" /\ pc'[s] = "lastClearBuf" /\ s \notin hasty
        /\ UNCHANGED <<inbox, asked, at, place, cwd, exists, pwd, c>>
        /\ Reply(s, [kind |-> "ack"])
    BY <1>25, <1>t, <1>h DEF SendBye
  <2>2. asked[s].verb = "close"
    BY <2>1, <1>v DEF PlacesOf, Idle, Ending, Taken
  <2>3. Answers([kind |-> "ack"], asked[s], place[s])
    BY <2>2 DEF Answers
  <2> QED
    BY <2>1, <2>2, <2>3, <1>y DEF Idle, Ending, Taken
<1>26. ASSUME Unknown(s), UNCHANGED clientVars PROVE Stays
  BY <1>26, <1>t, <1>h, <1>q DEF Unknown, Idle, Ending
<1>27. ASSUME SendCommand(s) PROVE Stays
  <2>1. PICK m \in Commands : asked' = [asked EXCEPT ![s] = m] /\ inbox' = [inbox EXCEPT ![s] = Append(@, m)]
    BY <1>27 DEF SendCommand
  <2>2. /\ at[s] = "prompt" /\ at'[s] = "wait" /\ s \notin hasty /\ m \in Message
        /\ inbox[s] \in Seq(Message) /\ inbox'[s] = Append(inbox[s], m) /\ asked'[s] = m
        /\ UNCHANGED <<cwd, exists, buf, outbox, pc, c, pwd, place>>
    BY <1>27, <1>t, <1>h, <2>1 DEF SendCommand, Message
  <2>3. outbox[s] = <<>>
    BY <2>2, <1>j DEF OneReply
  <2>4. Mine(s) => (pc[s] \notin Idle \cup Ending => buf \in {Data, Garbled})
    BY <2>2 DEF Mine
  <2>5. pc[s] # "sendCd"
    BY <2>2, <1>v DEF Idle, Ending, Taken
  <2>6. OneReply(s)' /\ Mine(s)'
    BY <2>2, <2>3, <2>4, <1>j DEF OneReply, Mine
  <2>7. OneCommand(s)'
    <3>1. /\ Len(inbox[s]) \in Nat /\ Len(inbox'[s]) = Len(inbox[s]) + 1
          /\ \A k \in 1 .. Len(inbox[s]) + 1 :
               \/ k \in 1 .. Len(inbox[s]) /\ inbox'[s][k] = inbox[s][k]
               \/ k = Len(inbox[s]) + 1 /\ inbox'[s][k] = m
      BY <2>2, QueueAppend
    <3>2. \A k \in 1 .. Len(inbox[s]) : inbox[s][k] = Data
      BY <2>2, <1>j DEF OneCommand
    <3> QED
      BY <2>2, <2>3, <3>1, <3>2, <2>1 DEF OneCommand
  <2>8. InPlace(s)'
    BY <2>2, <2>3, <2>5, <1>j DEF InPlace, Moving, Placed, Expected
  <2> QED
    BY <2>6, <2>7, <2>8
<1>28. ASSUME ReceiveReply(s) PROVE Stays
  <2>1. /\ at[s] = "wait" /\ outbox[s] # <<>> /\ outbox'[s] = Tail(outbox[s]) /\ s \notin hasty
        /\ at'[s] # "wait"
        /\ place'[s] = IF asked[s].verb = "cd" /\ Head(outbox[s]).kind = "status" /\ Head(outbox[s]).ok = 1
                       THEN Expected(place[s], asked[s].arg) ELSE place[s]
        /\ UNCHANGED <<cwd, exists, buf, inbox, pc, c, pwd, asked>>
    BY <1>28, <1>t, <1>h DEF ReceiveReply, AfterReply
  <2>2. PICK item : /\ outbox[s] = <<item>> /\ Answers(item, asked[s], place[s])
                    /\ asked[s].verb = "cd" => item.ok = c[s]
    BY <2>1, <1>j DEF OneReply
  <2>3. outbox'[s] = <<>> /\ Head(outbox[s]) = item /\ inbox[s] = <<>>
    BY <2>1, <2>2, <1>j DEF OneReply
  <2>4. pc[s] \in Idle \cup Ending \/ buf \in {Data, Garbled}
    BY <2>1, <1>j DEF Mine
  <2>5. OneReply(s)' /\ Mine(s)' /\ ~Moving(s)'
    BY <2>1, <2>3, <2>4 DEF OneReply, Mine, Moving
  <2>6. OneCommand(s)'
    <3>1. Len(inbox'[s]) = 0
      BY <2>1, <2>3
    <3> QED
      BY <3>1 DEF OneCommand
  <2>7. InPlace(s)'
    <3> SUFFICES ASSUME pc[s] # "start", place'[s] # NoDir
                 PROVE  cwd = place'[s] /\ pwd[s] = place'[s]
      BY <2>1, <2>5 DEF InPlace, Placed
    <3>1. place[s] # NoDir
      BY <2>1 DEF Expected
    <3>2. CASE asked[s].verb = "cd"
      <4>1. item.kind = "status" /\ item.ok = c[s] /\ Moving(s)
        BY <2>1, <2>2, <3>2 DEF Answers, Moving
      <4> QED
        BY <2>1, <2>3, <3>1, <3>2, <4>1, <1>j DEF InPlace, Placed
    <3>3. CASE asked[s].verb # "cd"
      <4>1. ~Moving(s) /\ place'[s] = place[s]
        BY <2>1, <3>3 DEF Moving
      <4> QED
        BY <2>1, <3>1, <4>1, <1>d
    <3> QED
      BY <3>2, <3>3
  <2> QED
    BY <2>5, <2>6, <2>7
<1>34. ASSUME ReadOn(s) PROVE Stays
  BY <1>34, <1>h, <1>j DEF ReadOn, OneReply
(* The client goes on without a message. *)
<1>z. ASSUME at[s] # "wait" \/ (outbox[s] = <<>> /\ inbox[s] = <<>> /\ pc[s] \in Idle),
             s \notin hasty, at'[s] # "wait",
             UNCHANGED <<cwd, exists, buf, inbox, outbox, pc, c, pwd, asked, place>>
      PROVE  Stays
  <2>1. outbox[s] = <<>> /\ ~Moving(s) /\ ~Moving(s)'
    BY <1>z, <1>j DEF OneReply, Moving, Idle
  <2>2. OneReply(s)' /\ Mine(s)'
    BY <1>z, <1>j, <2>1 DEF OneReply, Mine
  <2>3. OneCommand(s)'
    BY <1>z, <1>j DEF OneCommand
  <2>4. InPlace(s)'
    BY <1>z, <1>j, <2>1 DEF InPlace, Placed
  <2> QED
    BY <2>2, <2>3, <2>4
<1>35. ASSUME ReadingEnds(s) PROVE Stays
  BY <1>35, <1>t, <1>h, <1>z DEF ReadingEnds, serverVars
<1>29. ASSUME UploadFile(s) PROVE Stays
  <2>1. PICK n \in 0 .. MaxBlocks : inbox' = [inbox EXCEPT ![s] = @ \o [i \in 1 .. n |-> Data]]
    BY <1>29 DEF UploadFile
  <2>2. /\ at[s] = "upload" /\ at'[s] = "prompt" /\ s \notin hasty
        /\ inbox[s] \in Seq(Message) /\ inbox'[s] = inbox[s] \o [i \in 1 .. n |-> Data]
        /\ UNCHANGED <<cwd, exists, buf, outbox, pc, c, pwd, asked, place>>
    BY <1>29, <1>t, <1>h, <2>1 DEF UploadFile
  <2>3. n \in Nat
    <3>1. n \in 0 .. MaxBlocks /\ MaxBlocks \in Nat
      BY FtpAssumption
    <3> QED
      BY ONLY <3>1
  <2>4. outbox[s] = <<>>
    BY <2>2, <1>j DEF OneReply
  <2>5. \A k \in 1 .. Len(inbox'[s]) : inbox'[s][k] = Data
    <3>1. \A k \in 1 .. Len(inbox[s]) : inbox[s][k] = Data
      BY <2>2, <1>j DEF OneCommand
    <3> QED
      BY <2>2, <2>3, <3>1, QueueUpload
  <2>6. OneReply(s)' /\ OneCommand(s)' /\ ~Moving(s) /\ ~Moving(s)'
    BY <2>2, <2>4, <2>5 DEF OneReply, OneCommand, Moving
  <2>7. Mine(s)'
    BY <2>2, <1>j DEF Mine
  <2>8. InPlace(s)'
    BY <2>2, <2>6, <1>j DEF InPlace, Placed
  <2> QED
    BY <2>6, <2>7, <2>8
<1>30. ASSUME GiveUp(s) PROVE Stays
  <2>1. /\ s \notin hasty /\ NothingComing(s) /\ at'[s] # "wait"
        /\ UNCHANGED <<cwd, exists, buf, inbox, outbox, pc, c, pwd, asked, place>>
    BY <1>30, <1>t, <1>h DEF GiveUp, serverVars
  <2> QED
    BY <2>1, <1>z DEF NothingComing, Idle
<1>31. ASSUME Leave(s) PROVE Stays
  BY <1>31, <1>t, <1>h, <1>z DEF Leave
<1>36. ASSUME NEW d \in Fleeting, Vanish(d) PROVE Stays
  <2>1. /\ exists' \subseteq exists /\ s \notin hasty
        /\ place'[s] = IF pc[s] = "start" /\ place[s] = d THEN NoDir ELSE place[s]
        /\ UNCHANGED <<cwd, buf, inbox, outbox, pc, c, pwd, asked, at>>
    BY <1>36, <1>t, <1>h DEF Vanish
  <2>2. outbox[s] # <<>> => place'[s] = place[s]
    BY <2>1, <1>i DEF Starting
  <2>3. OneReply(s)'
    BY <2>1, <2>2, <1>j DEF OneReply, Answers, Possible
  <2>4. OneCommand(s)' /\ Mine(s)'
    BY <2>1, <1>j DEF OneCommand, Mine
  <2>5. InPlace(s)'
    BY <2>1, <1>j DEF InPlace, Moving, Placed, Expected
  <2> QED
    BY <2>3, <2>4, <2>5
<1>32. CASE UNCHANGED vars
  <2>1. /\ s \notin hasty
        /\ UNCHANGED <<cwd, exists, buf, inbox, outbox, pc, c, pwd, asked, at, place>>
    BY <1>32, <1>h DEF vars, serverVars
  <2> QED
    BY <2>1, <1>j DEF OneReply, OneCommand, Mine, InPlace, Moving, Placed, Expected, Answers, Possible
<1> QED
  BY <1>1, <1>2, <1>3, <1>4, <1>5, <1>6, <1>7, <1>8, <1>9, <1>10, <1>11,
     <1>12, <1>13, <1>14, <1>15, <1>16, <1>17, <1>18, <1>19, <1>20, <1>21,
     <1>22, <1>23, <1>24, <1>25, <1>26, <1>27, <1>28, <1>29, <1>30, <1>31,
     <1>32, <1>33, <1>34, <1>35, <1>36, <1>s, NextCases

(* Both hold throughout of a lone client. *)
LEMMA SoloInvariant == Spec => [](LoneClient => SoloInv /\ StepInv)
<1> DEFINE Inv == TypeInv /\ (LoneClient => SoloInv /\ StepInv)
<1>1. Init => Inv
  BY TypeInvInit, SoloInvInit, StepInvInit
<1>2. Inv /\ [Next]_vars => Inv'
  <2>1. LoneClient' = LoneClient
    BY DEF LoneClient
  <2> QED
    BY <2>1, TypeInvStep, SoloInvStep, StepInvStep
<1>3. Inv => (LoneClient => SoloInv /\ StepInv)
  OBVIOUS
<1> HIDE DEF Inv
<1> QED
  BY <1>1, <1>2, <1>3, PTL DEF Spec

(* With one client at a time there are never more replies on their way than  *)
(* commands without an answer, whatever timeouts fired; and until one fires  *)
(* too early no reply is left over for a later command.                      *)
THEOREM ALoneClientGetsItsReplies == Spec => [](LoneClient => RepliesAreExpected)
<1>1. TypeInv /\ SoloInv /\ StepInv => RepliesAreExpected
  <2> SUFFICES ASSUME TypeInv, SoloInv, StepInv, NEW r \in Runners
               PROVE  /\ Len(outbox[r]) <= owed[r]
                      /\ r \notin hasty /\ outbox[r] # <<>>
                           => at[r] = "wait" /\ Len(outbox[r]) = 1
    BY DEF RepliesAreExpected
  <2>1. Len(outbox[r]) <= owed[r]
    <3>1. Paid(r) /\ inbox[r] \in Seq(Message) /\ owed[r] \in Int
      BY DEF SoloInv, SoloSession, TypeInv, TypeOK, WiresTyped
    <3>2. CommandsIn(inbox[r]) \in Nat /\ Len(outbox[r]) \in Nat
      BY <3>1, CountTyped, OutboxMoves DEF Paid
    <3>3. Busy(r) \in {0, 1}
      BY DEF Busy
    <3>4. Busy(r) + CommandsIn(inbox[r]) + Len(outbox[r]) <= owed[r]
      BY <3>1 DEF Paid
    <3> QED
      BY ONLY <3>1, <3>2, <3>3, <3>4
  <2>2. ASSUME r \notin hasty, outbox[r] # <<>> PROVE at[r] = "wait" /\ Len(outbox[r]) = 1
    <3>1. PICK item : at[r] = "wait" /\ outbox[r] = <<item>>
      BY <2>2 DEF StepInv, InStep, OneReply
    <3> QED
      BY <3>1
  <2> QED
    BY <2>1, <2>2
<1> QED
  BY <1>1, TypeInvariant, SoloInvariant, PTL

(* Until a timeout fires too early, its reply answers the command that it     *)
(* sent, from the directory in which its session is, though fork, chdir and    *)
(* getcwd may fail and directories disappear on the way.                       *)
THEOREM ALoneClientIsAnswered == Spec => [](LoneClient => AnswersOwnCommand)
<1>1. StepInv => AnswersOwnCommand
  <2> SUFFICES ASSUME StepInv, NEW r \in Runners, r \notin hasty, outbox[r] # <<>>
               PROVE  Answers(Head(outbox[r]), asked[r], place[r])
    BY DEF AnswersOwnCommand
  <2>1. PICK item : outbox[r] = <<item>> /\ Answers(item, asked[r], place[r])
    BY DEF StepInv, InStep, OneReply
  <2> QED
    BY <2>1
<1> QED
  BY <1>1, SoloInvariant, PTL

(* Until then, too, its session is at the prompt where the user expects it to *)
(* be, whatever cd failed or succeeded before, unless the way led through a    *)
(* directory whose name the session could not learn.                          *)
THEOREM ALoneClientKeepsItsPlace == Spec => [](LoneClient => SessionKeepsItsPlace)
<1>1. StepInv => SessionKeepsItsPlace
  BY DEF StepInv, InStep, InPlace, Placed, Moving, SessionKeepsItsPlace
<1> QED
  BY <1>1, SoloInvariant, PTL
=============================================================================
