# Operating_System_Projects in TLA+

This directory models the programs of `src/`: a multi-threaded service counter,
an FTP server with its client, a set of CPU scheduling simulations and two
shells. TLA+ modules describe what the programs do, TLC checks them on small
instances, and TLAPS proves the safety properties and the refinements for every
size.

The core is the concurrent code, where a test run says least: the condition
variable of the service counter and the state that the FTP sessions share. The
scheduling simulations are sequential but move a process along many paths; their
models answer whether one can get lost and whether the reported numbers are true.

## 1. Inventory

| Part (source) | State | Operations | What is hard | What makes it correct |
|---|---|---|---|---|
| Service counter (`Producer Consumer/2019EET2345_…cpp`) | `buffer` (deque), `customerNo_cs`, one mutex `mu`, one condition variable `cond`; local `customerNo`, `cnt` | `customer`: arrive, be turned away or queue, notify all. `counterService`: wait, call, notify one, serve | notifications after unlock, one condition variable for both sides, loop test outside the mutex, termination | each customer settled exactly once and in order, no lost wake-up, the program ends |
| FTP server sessions (`f_server.c`, `runner`) | process-wide: `buf`, `command`, `filename`, `obj`, `lock`, the current directory, `/tmp/temps.txt`; per thread: `pwd`, `fd`, `size`, `c` | receive, `ls`, `chmod`, `get`, `put`, `pwd`, `cd`, `close`, anything else | the receive, the reply and the clearing run outside the mutex; uploads end by timeout | the mutex is given back on every branch, a session works in its own directory, uploads and downloads are kept apart, a reply answers its own command |
| FTP accept loop (`f_server.c`, `main`) | `client_socket`, `tid[60]`, `i`, descriptors | accept, create a thread, join a batch of 50 | the thread reads `client_socket` later; the joins block everybody | batches do not overlap, joins end, one thread per connection |
| FTP client (`f_client.c`) | the connection, the receive timeout, local commands | send a command, wait for the reply, upload | the timeout is never taken back; late replies | no reply is taken for the answer to another command |
| MLFQ (`sched_mlfq.cpp`) | three heaps, process table, running process, slice, time | admit and move, choose, preempt, run, demote, age | keys that change, moves between heaps | no process lost, the best runs, demotion and ageing keep to their bands, true waiting times |
| CFS (`sched_cfs.cpp`) | tree by virtual run time, process table, slice, time | admit, choose, preempt, charge | keys copied into the tree, two charging paths | tree in order, each unit charged once, true waiting times |
| SJF and priorities (`sjf_priority.cpp`) | process table, place `x`, remembered best value, time | `sjf_sched`, `solver`, `prt_main_func`, `prt_main_func2` | `x` of an earlier round, comparison with a remembered value, ageing meanwhile | the best runs, nobody is served twice, equals by arrival, true waiting times |
| FIFO, round robin, multi-level queue (`sched_frm.c`) | process table, position, time | `fifo_sched`, `rr_sched`, `mlq_sched` | jumps back to the first process, waiting loops, system processes started early | turns in order, no time wasted, each process finishes, true waiting times |
| Shell 1 (`npg_shell.c`), Shell 2 (`shell.c`) | path list, directory stack, current directory, table of words | `path`, `pushd`, `popd`, `cd`, `dir`, `exit`, run a program | growing arrays at their limit, removal from lists, directories that vanish, lines that break the shell | the stack undoes the pushes, a path is there once, the words of a line survive the growth |
| File commands (`cutp.c`, `module1.c`; `creat_file.c`, `module2.c`) | files | copy and delete; create; list | deleting after a failed copy, a target that exists | a file is never lost or doubled |

How they interact: the threads of the service counter share everything through
`mu`. The accept loop starts the sessions; client and session exchange messages
over one connection; the sessions share the process. The scheduling programs and
the shells stand alone, and the shells start the file commands as processes.

## 2. Modules

| Module | Stands for | Remarks |
|---|---|---|
| `WaitingRoom` | what the service counter promises | abstract: no threads, no locks |
| `ServiceCounter` | the three threads, the mutex and the condition variable | refines `WaitingRoom` |
| `FtpServer` | `runner`: one action per access to what the sessions share | used by `Ftp` |
| `Ftp` | `FtpServer` and the clients | the composed system |
| `FtpAccept` | `main` of the server with its threads | a session is reduced to "serving" |
| `UniProcessor` | what every preemptive simulation promises | abstract: a work-conserving processor and a true account of waiting |
| `Mlfq`, `Cfs`, `SjfPriority` | the preemptive simulations | each refines `UniProcessor` |
| `Sjf` | `sjf_sched`, non-preemptive SJF | extended by `SjfPriority`: one program runs both |
| `RoundRobin` | `rr_sched`, `mlq_sched` and `fifo_sched` | one walk through one table |
| `Shell` | what both shells promise | abstract: a stack, an ordered list of paths without repetition, the first place that has a program |
| `ShellWorld` | directories, files and the two programs that move a file | used by both shells |
| `ListShell`, `ArrayShell` | `npg_shell.c`, `shell.c` | the code's lists and arrays |
| `Shells` | a user at either shell | refines `Shell` |
| `MC…` | the values TLC needs | one per checked module |
| `ServiceCounterProofs`, `FtpProofs`, `FtpAcceptProofs`, `MlfqProofs`, `CfsProofs`, `SjfPriorityProofs`, `RoundRobinProofs`, `ShellsProofs` | theorems about the module of that name, `SjfPriorityProofs` about `Sjf` too | TLAPS |

A definition keeps the name it has in the source. A definition `X_Bug` is a
variant of `X` with one mistake in it; the entry "mutants" of `PROJECT.json`
says which property finds it. "map" gives the lines of the source for every
definition that models code.

### Service counter

A step of a thread is what happens between two points at which another thread
could see a difference: getting `mu`, a critical section, giving `mu` back, a
notification, and the loop test of a counter, which reads `customerNo_cs` without
`mu`. `cond.wait` is the test of the predicate with `mu` held, then going on or
blocking (`CondWait`), and, once notified, getting `mu` again (`Lock`) and a new
test. `notify_one` wakes any blocked thread, `notify_all` all of them;
a blocked thread may also wake by itself (`SpuriousWakeup`). Sleeps may last
any time, so `currTime` and the arrival and service times play no role.

`ServiceCounter` implements `WaitingRoom` under the mapping `WR`: the queue is
`buffer`, the arrivals are `customerNo`, and a counter serves `cnt[k]` from the
pop to the end of its sleep.

### FTP

A session receives a command into the global `buf`, takes the mutex, parses,
does the part that opens files, gives the mutex back, replies, and clears `buf`
and `command`. Each of these accesses is an action of `FtpServer`, named after
what it does. `RunCommand` is `execute_cmd`: the child writes over
`/tmp/temps.txt` from its start without truncating it (`Overwrite`).
`RemoveOutput` deletes that file under whoever has it open. `Received` adds what
may stay behind an incoming command when `buf` was not blank, since `recv` adds
no final 0, and `Arrived` lets messages that have queued up be received as one.
`cd` is relative to the process, as in the code, and `chdir(buf+3)` may follow any
path that an overwritten `buf` may hold (`CdTargets`).

System calls fail where they can, and the code does not look:

* `chdir(pwd)` fails when the directory of the session is gone or its name was
  never known: the process stays where it is, and `ls`, `get` and `put` work there
  (`EnterOwnDirectory`).
* `getcwd(pwd, 100)` fails in a directory that is gone or whose name is too long
  (`Deep`): the session keeps the old name, and `cd` reports success all the same
  (`Getcwd`).
* `fork` may fail: nothing is written to `temps.txt`, and the size of an earlier
  file is announced (`RunCommand`, `StatSize`).
* `open` in `put` may fail for other reasons than a name that exists: the loop then
  has no end and keeps the mutex (`PutLoops`; `Refuses`, for a directory that is gone
  and for those in `Refused`).

`Vanish` is somebody else who removes an empty directory.

Abstractions: a message is not split; contents are a number of blocks;
the output of `ls` is known by the command and directory that made it and its
length; file names are words plus the 1s that `put` appends. `command[5]` has no
room for the final 0 of `chmod` and `close`; what that write hits depends on the
build and is left out, as is the same kind of undersized allocation in `catstr`.

A client sends one command and waits. `armed` is the receive timeout that `ls`,
`chmod`, `pwd` and a successful `get` set on the socket for good. A timeout, the
client's or that of an upload, may fire at any moment of a wait. One that fires
while something is still to come is too early, and the history `hasty` remembers the
connection: a late reply is then read as the answer to the next command, and the two
sides stay out of step. What is said of answers is said until then.

`FtpAccept` keeps the address that `pthread_create` passes: a born thread reads
`client_socket` in a step of its own. Descriptors are reused, lowest first.

### Scheduling

One pass of a `while` loop is one unit of time, cut into phases (admit, pick,
run, age; or scan, run) so that invariants can speak of the moment at which a
process is chosen. The random process table is chosen in `Init` from small sets.
`waited` counts, as history, the units a process really spends waiting; it is not
in the code, and `UniProcessor` requires that the waiting time the code
computes from its times equals it.

In Q2 and Q3 of `Mlfq` two processes that entered at the same time may run in
either order: the comparator then looks at priorities that have changed since the
heap was arranged. `FirstComeFirstRun` says that a process that entered earlier
always goes first; the comment in `sched_mlfq.cpp:1` about a demoted process that
sometimes overtakes can in this model only concern equal entry times.
In `Cfs` virtual run times are integers, as all that is added to them is, and a
slice is rounded up to the units after which `tsl <= 0`.

`Sjf` names a process by its place in the sorted table. One action is one round
of the second loop of `sjf_sched`: the place found (`FindAndServe`), or, when
nobody has arrived who is as short as the process in place `i`, the place left in
`x` by an earlier round (`ServeStale`). Before the first find `x` is
uninitialised: any place of the table may be taken, or the access may crash
(`SjfCrash`). `NoGap` says that arrivals leave no gap; under it the stale `x` is
never used. `SjfPriority` starts from the table that this leaves in order of
arrival, as `main` calls `sjf_sched` first.

`RoundRobin` has one action for a turn and one for the move to the next process,
with the wait for its arrival if everybody before is finished. A burst may be 0,
a system process may start before it has arrived, and time starts with the first
arrival, so that `UniProcessor` is not the right promise here; the histories
`waited` and `passed` take its place. The search for unfinished predecessors
reads the flag at index -1, whose value makes no difference.

### Shells

A step is one line, from the prompt to the next prompt: both shells are
sequential and wait for the program they have started, so that a run of `cutp` or
`module1` is part of the step. Between two lines somebody else may remove an empty
directory (`Vanish`). A line is a sequence of words.

`ListShell` keeps the lists from head to tail. `ArrayShell` keeps of each array
the elements in use and the number of places: what lies beyond is never
read. Growth copies the places of the old array (`Copied`). The one array whose
unused places are read is the table of words: `parse` copies as many words as the
*path list* has places, as often as the line is long enough for another doubling
(`Doublings`). With fewer places than words read so far the words beyond are `Lost`,
and what freed memory holds is found in their places: NULL, which ends the line, a
pointer that cannot be used (`Wild`: `strcmp` breaks the shell, `execv` fails), or a
valid one to a word of an earlier line (`Leftovers`; a freed array of directories has
the size of a doubled table). With more places than the old table has, the copy reads
beyond it, which may be fatal (`ReadsBeyond`); with more than the new one has, it
also writes beyond that (`WritesBeyond`), and as nothing is known of the program from
then on, the model ends the shell there (`ArrayOverrun`). `WordsAreSafe` names the
lines to which nothing of this happens.

`fork` may fail, and so does `getcwd` in a directory that is gone or whose name is
too long: `pushd` then pushes what the buffer held, `Junk`, with which `popd` goes
nowhere (`CwdName`). A word that is missing is `Null`; where the code passes it to
`strcmp`, the shell stops (`ListPathNull`, `ArrayBlank` for a line of blanks; a bare
newline is read over). In `npg_shell.c` old
words stay behind in `sep_arr`; they can only make `cd` and `pushd` without an
argument complain of too many, with no effect either way. Both shells implement
`Shell` under the mapping `Sh`: the stack is the list `node`, or the array `dirc`
reversed, and the paths are `head`, or `path_list`, in the order of the search. `Shell`
keeps that order, holds no path twice, adds new paths at one end only and runs a program
from the first place that has it. What a line with lost words does to the paths is
within it, as long as the shell survives.

## 3. What the runs check

| Run | Instance | Shows |
|---|---|---|
| `ServiceCounter` | 1 or 2 counters, 5 customers, 2 places | mutex discipline, no lost wake-up, each customer once and in order, refinement of `WaitingRoom`, everyone settled; with one counter the program ends |
| `ServiceCounterHang` | 2 counters, 2 customers, 1 place | **violated**: `ShopCloses` |
| `FtpOne` | 1 client, 3 commands, 3 directories: one that may vanish, one with too long a name that takes no file | no reply without a command; until a timeout fires too early right answers and the session where the user expects it; every command finishes but a `put` that can create no file |
| `FtpTwo` | 2 clients, 2 commands, 2 directories, one may vanish | mutex discipline, own directory while it exists, uploads apart, announced length kept |
| `FtpCross` | 2 clients, 2 commands | **violated**: `AnswersOwnCommand` |
| `FtpAccept` | batches of 2, 4 clients | batches do not overlap, the joins end |
| `FtpAcceptRace` | batches of 2, 2 clients | **violated**: `OneThreadPerConnection` |
| `Mlfq` | 3 processes, priorities 3, 9, 11, 21, bursts 1 and 9 | no process lost, best runs, a demotion costs one band and ageing ends at Q2, order of entry, refinement of `UniProcessor` |
| `Cfs` | 3 processes, three weights, bursts 1, 5, 8 | tree in order, charging, refinement of `UniProcessor` |
| `SjfPriority` | 4 processes, `sjf_sched` and then one of three policies, bursts 1, 3, 5 | shortest first and a true table where arrivals leave no gap; best runs, no preemption between equals, ties by arrival, refinement of `UniProcessor` |
| `RoundRobin` | 4 processes, quantum 2, bursts 0, 2, 5, every set of system processes | true waits, FIFO for short bursts, no idle time while somebody is there, turns in order, every process finishes |
| `Shells` | either shell, 4 lines, 3 directories: one that may vanish, one with too long a name; 3 places for paths, 2 for directories, 4 for words; full disk or not | refinement of `Shell`, path lines obeyed to the last word, no file lost or doubled |

The three violated properties are real behaviours of the code.

* *Hang.* A counter passes `while(customerNo_cs < val)`, the other one calls the
  last customer, and the first waits at line 88 for a customer who never comes.
  `main` never returns from `join`. Every customer is settled all the same
  (`EveryoneSettled` holds), and with a single counter it cannot happen.
* *Crossed commands.* Two sessions receive into the same `buf` before either
  has the mutex; both then carry out the second command.
* *Lost connection.* Two connections accepted in quick succession leave two
  threads on the second descriptor.

### Bounds

Bounds are CONSTANTS or sets in the `MC` modules: `NumberOfCustomers` and
`MaxBufferSize` (five customers fill a queue of two while both counters are busy,
so that customers are turned away, queue and overtake in all ways), `MaxCommands`
(three in a row let every command meet what two others have left behind; two among
two clients are the least that interfere), `MaxBlocks` (an empty and a non-empty
upload), `Connections` and `Batch` (two whole batches), `Arrivals`, `Bursts`,
`Prts`, `Nices` (values on both sides of every band and slice length; three
processes let one run, one wait and one arrive, the fourth of `SjfPriority` and
`RoundRobin` leaves a gap), `Quantum` (bursts end within, at and after a quantum),
`MaxPaths`, `Capacity` and `MaxTokens` (two or three elements fill an array; four
lines push past the limit and pop back; the third and the seventh word double the
table of four; seven names bring the path list from three places over six, where the
copy reads beyond the table of four, to twelve, where it writes beyond the doubled
one), `MaxLines`. Deadlock is checked for the
service counter, whose end is an explicit step; elsewhere the runs have a bound
at which everything stops, or the simulation is over.

Several named parts may form one property of a run: `CustomersInOrder`,
`LockConsistent`, `SlotsConsistent`, `QueuesConsistent`, `TreeConsistent` and
`FairAmongEquals` are such conjunctions, most of them with the type invariant.

### Fairness

Every thread and every client program is weakly fair: the operating system runs what
can run. Weak fairness is enough although threads compete for a mutex, for a thread
contends with finitely many others that each do finitely much. Nothing wakes a
blocked thread for no reason for ever: the liveness properties of the service
counter assume `QuietCondition`, that spurious wake-ups cease (spinning on them
would hide the hang as well). Users owe nothing: a client may stay at its prompt.
`RoundRobin` is a sequential program that goes on while it can. In `FtpAccept`
clients do leave in the end, else a join may wait for ever, as it does in the code.

## 4. What is proved

Every safety property, action property and refinement that a passing run checks
is also a theorem, for all values of the constants that the named assumptions of
the modules allow; `PROJECT.json` lists them by name. Each proof rests on an
inductive invariant, because the property alone is not inductive. The invariants
that are not properties of a run were checked with TLC on the instances of
section 3 before they were proved.

### Service counter

`LockInv` is `TypeOK`, `MutexDiscipline` and what each side still knows inside its
critical section: the customer thread that there is room (`CustomerKnows`), a
counter that someone is there (`CountersKnow`). That the queue stays within its
length needs that the room seen at line 63 is still there at line 72, which needs
the mutex, which needs that only its holder is in between. On top of it

* `QueueInv` (`CountMatchesQueue`, `NoLostWakeup`): a customer is appended with the
  mutex held, and from then until the `notify_all` the customer thread is at
  `unlock` or `notify`, which is what `NoLostWakeup` allows; a counter that blocks
  has just seen an empty queue;
* `CustomersInOrder` is inductive once `LockInv` holds: only four steps move a
  customer (turned away, queued, called, served), and lemmas on `Append` and `Tail`
  say what they do to the order;
* `TheCounterIsAWaitingRoom`: these four are the four actions of `WaitingRoom`
  under `WR`, every other step is invisible to it.

### FTP

* `TypeInv` (types, `LockDiscipline`, well-formed messages, finitely many files of
  finite length in each directory) gives `LockIsConsistent`: the mutex is held
  exactly between parse and open, and for ever by a `put` that can create no file.
  `put` needs a lemma that its search for a fresh name ends: of one name more than
  there are files one is free, a pigeonhole argument.
* `FileInv` adds that only `get` and `put` hold a file, that it exists, and that it
  is in the session's own directory if that one still exists: directories only
  disappear, so that `chdir` has not failed for one that exists now. It gives the
  three theorems on files. They hold for any number of clients and whenever timeouts
  fire, and although the globals from which the names come belong to nobody.
* Answers are not right with two clients (`FtpCross`). With one session (`LoneClient`,
  the case of run `FtpOne`) `RepliesAreExpected`, `AnswersOwnCommand` and
  `SessionKeepsItsPlace` are theorems, with no assumption on when timeouts fire. Two
  invariants carry them. `SoloInv` holds whatever the timeouts do: the session works on
  what is in `buf` (`InHand`), every command is waiting, in hand or answered at most once
  (`Paid`), and `temps.txt` exists only while the command that wrote it runs
  (`OwnOutput`). `StepInv` holds until a timeout has fired too early:
  what the session has in hand is what the client asked last, or a block of an upload
  that was taken for a command; a reply is alone on its way; and session and user
  agree on the directory, but between a `chdir` and the receipt of its status. After a
  timeout that was too early only the count of replies is claimed, and more does not
  hold.
* What the three say under failures: after a failed `fork` there is a reply without a
  listing, never an old listing; a `cd` is refused only where there is no such directory;
  once the user has gone to a directory whose name `getcwd` cannot give, it is left open
  where the session is (`NoDir` in `place`).
* `SlotsAgree` (`SlotsInv`) for any batch that the array of threads can hold: threads
  are born in the order of their connections, the open descriptors belong to different
  connections, so that one is left for `accept`, and while `main` joins, the live
  threads are in the slots still to come.

### Scheduling

Assumed are natural arrival times, positive bursts (not in `RoundRobin`, where a
burst may be 0) and priorities and nice values in the 40 values that the code
draws; `SjfPriority` assumes bursts below `INT_MAX`, from which the search for
the shortest starts (the code draws at most 30).

* The common part of the invariants is `Accounts`: of the time since it arrived a
  process has run what is missing of its burst and waited the rest. With "when
  nobody runs, nobody is ready" it gives the refinements of `UniProcessor`.
* `Mlfq`: a process is in exactly one heap or on the processor, the processor knows
  from which band (`CpuConsistent`), and a process still to come is untouched.
  The best runs although priorities change in the same unit of time: ageing
  never brings a process into Q1, so that it changes the order of no choice there.
* `Cfs`: `IsTree`, the tree is sorted by the *current* virtual run times, holds
  nobody twice and not the running process. The three places that insert all need
  the same lemma, that an insertion into a sorted sequence keeps it sorted and
  that a key may change only outside the tree. `Charged` says what each process
  owes in units of its rate; that rates and shares are numbers needs the weights
  to be positive, and the sum over a tree which is not empty too.
* `SjfPriority`: `Remembers` relates the value from which the scan starts, computed
  in an earlier round, to the process as it is now: they agree, but the ageing may
  have raised the running process while it was first among equals. The scan itself is
  proved by induction on the end of the table.
* `Sjf`: `TableInv`, under `NoGap`: the table is a permutation, a displaced process
  has arrived, the finishing times are the sums of the bursts before, and all time
  since the first arrival has been used. The last two make that the process in place
  `i` has always arrived: if nobody was displaced, all before it are served and there
  is no gap. So the search finds somebody and the old `x` is never used.
* `RoundRobin`: `InTurn` says who can have passed whom: only those that the walk
  has met since. `InLine`, for short bursts, ties the walk to the recursion of
  `fifo_sched`.

### Shells

* `Stored` (a current directory, a stack of directories and `Junk`, no path twice, at
  least one place for paths) and, line by line, what each handler does to the stack and
  to the order of the paths give `BothAreTheShell`. The lines with many names are loops;
  their result is described by a function of the pass, and lemmas say that all names are
  added behind the old ones, or removed with the order of the rest kept.
  `path -` removes one place, which is enough as a path is there once. The
  theorem includes the growth, through any number of doublings: the arrays of paths and
  directories lose nothing, and a line whose words the table has spoiled still does
  no more than some line, or stops the shell.
* `PathLinesAreObeyed` holds for lines of any length with `WordsAreSafe`, which is what
  the copy of `max_paths` entries needs at each doubling of the table.
* `FilesInv`: the contents of a file are in one directory and nowhere else, or a copy is
  torn, which needs a full disk. `O_EXCL` is what keeps a move from ending on
  another file. `FilesAssumption` lets the contents tell the files apart.

### How recursion and choice are reasoned about

No operator is `RECURSIVE`; loops are recursive functions. An induction principle
with an operator parameter cannot be used here, so lemmas like `Passes`,
`SumsExist` and `SumIsUnique` do the induction on a *set* of numbers, by way of the
least number outside of it. Where alternatives of the
code overlap, the definitions use IF and ELSE, as a CASE with overlapping guards
does not say which is taken; a scan of the process table goes over it in order, as
the code does, since keys are given out on the way (`Scanned`).

### Only model-checked

Liveness under fairness: `EveryoneSettled`, `OneCounterCloses`, `CommandsFinish`,
`BatchEnds`, `AllFinish`. TLAPS does not prove liveness with ENABLED here. The
violated properties are counterexamples, which TLC finds.

## 5. Plan

The model is complete but for what section 6 lists. What is left is to make
the proofs shorter and to share the numeric lemmas they repeat: the least number
principle and the induction over passes appear in several of the eight proof modules.

## 6. Not modelled

* `f_client.c`: the local commands `lls`, `lchmod`, `lpwd` and `lcd`, which touch
  nothing that the server shares, and the file that `get` writes on the client's
  disk, whose name overflows its eight bytes as soon as it is made unique.
* Failures of system calls: `fork`, `chdir` and `getcwd` of the server and of both
  shells are modelled, and so are `stat` of the server, `open` in `get`, `put`,
  `cutp` and `module1` and of `temps.txt`, where the file is not there or the name
  is taken, and the writes of the two programs. When the child cannot create
  `temps.txt`, its output goes to the server's own terminal, which to the client is
  the same as a failed `fork`. Not modelled: `malloc`, `pthread_create`, writes of
  an upload to a full disk, and files or directories whose permissions change while
  the server runs (those that never take a file are `Refused`). A `get` of a
  directory, which opens and cannot be sent, is left out. That nothing else moves
  the process between `chdir` and `getcwd` of a `cd` is due to the mutex; that the
  directory is not removed between the two is an abstraction.
* FTP messages that arrive in pieces (`f_client.c:245`), uploaded contents that begin
  with a command word and are read as one, replies of which the client reads a part,
  blocks that are padded to eight bytes (`f_server.c:308`), words longer than the
  buffers `filename` and `command`, what `put` hits when its endless loop has
  run over `filename[20]`, and the SIGPIPE that a reply to a client who has left may
  raise.
* What `shell.c` does after it has written beyond its table of words (line 138), and the
  rest of the memory that an over-read may bring into the table's unused places.
* A source of `module1` given by an absolute name, which it appends to the target.
* `fifo_sched` in `sjf_priority.cpp`, which is never called.
* `creat_file.c` and `module2.c`, single system calls without state.
* Writes out of bounds whose effect depends on the build: `catstr` allocates the
  size of a number, `remove_space` writes behind the pointer it was given,
  `module1.c:54` and `shell.c:437` use or allocate too little and start from
  memory that is not blank; the read of `flag[-1]` at `sched_frm.c:172`, whose value
  makes no difference.
* The end of the input of a shell (`npg_shell.c` prompts for ever, `shell.c`
  breaks), more than 31 words on a line of `npg_shell.c`.
* Terminal input, printing, Gantt charts, averages and turnaround times, which
  carry no state; committed binaries, figures and the PDF.
