# A TLA+ model of os2016spring

The repository holds two operating-systems projects in C. `prj1` is a
user-space process scheduler with four policies. `prj2` is a file transfer
between two user programs through two character devices that talk TCP inside
the kernel. They share nothing, and the modules here fall into two families
accordingly.

## 1. The system

### prj1: scheduling child processes

| part | state it keeps | operations |
|---|---|---|
| `fifo.c` | array of jobs sorted by ready time, `clock`, `Index`, `nextforfork`, remaining times, flags, time stamps | `readFile`, `waitLoop`, `executeFork`, `decideTime`, `assign`, printing |
| `sjf.c` | the same | the same, plus a sort of the forked jobs before each dispatch |
| `psjf.c` | array cut in finished / queued / to come by `Head`, `ElementCount`, `UnReadyCount`; `TimeCounter` | fork one job, wait, sort and select, `SendToChild`, `waitpid` |
| `rr.c` | array by ready time, circular doubly linked list of forked jobs, `cur_time`, rest of the quantum | `fork_child`, `add_list`, `wait_for_job`, `run_job`, `remove_list` |
| `child.c` | its own counter of units left | read a slice, burn it, yield or exit |
| `main.c` | none | picks a policy by name |
| system calls 314, 315 | none | read the clock, print a result |

main runs at SCHED_FIFO priority 98. It hands a child a number of time units
over a pipe and raises it to 99; the child burns them and drops itself to 97,
which gives the CPU back. main never learns how far a child is: it adds the
length of the slice to its clock the next time it runs. Everything rests on the
order in which the kernel runs the processes, which no test exercises on
purpose. What makes it correct: main's clock and its books agree with reality
whenever it uses them, no arrival is missed, `wait()` returns for the job main
means, the stamps it prints are true, and the units are handed out as the
policy says. Calls that may fail on the way: `fork()`, `execl()`, a `write()`
to a child that has died.

### prj2: a file through two devices

| part | state it keeps | operations |
|---|---|---|
| `ksocket.c` | none of its own; TCP sockets | `ksocket`, `kbind`, `klisten`, `kconnect`, `kaccept`, `ksend`, `krecv`, `kclose`, ... |
| `master_device.c` | a listening socket, one static `sockfd_cli`, a page per open file, what is registered with the kernel | init, exit, open, release, write, mmap, page fault, ioctls accept / send / close |
| `slave_device.c` | one static `sockfd_cli`, a page per open file, what is registered with the kernel | init, exit, open, release, read, mmap, page fault, ioctls connect / receive / close |
| `master.c`, `slave.c` | offsets, sizes, the files | one transfer by `read`/`write` or by `mmap` |
| `test_md.c` | a descriptor and a mapping | writes to the page of the master device, closes the descriptor, leaves the mapping to the kernel |
| `compile.sh`, `clean.sh` | none | insmod and rmmod of the three modules, going on after an error |

The hard part is the stream: TCP forgets the boundaries of the pages that were
sent, either program may be started first, be killed, and be run again, and the
devices keep their sockets when a program goes. Runs of one program that
overlap share the socket of their device, which `kclose()` leaves dangling.
Correct means: a slave stores the bytes of its own master, in order, all of
them, and both programs end.

Around it is the life cycle of the modules. They depend on each other, register
files and devices that must not outlive them, listen on a port that a closed
connection occupies for a while, and hand out pages that a program may unmap
after it has closed the device. Correct means: no function or page is used
after it is gone, and nothing is left behind.

## 2. The modules

| module | stands for |
|---|---|
| `Dispatch` | `child.c`, the pipes, and the kernel as the schedulers use it: who may run, fork, exec, exit, descriptors, wait |
| `Batch` | what `fifo.c` and `sjf.c` have in common, function by function |
| `Fifo`, `Sjf` | the flag test (and sort) of `FIFO()` and `SJF()`, and the whole programs |
| `Psjf` | `psjf.c` |
| `Rr` | `rr.c`, with the links of its list |
| `IdealCpu`, `IdealRr` | what the four policies promise, unit by unit; no processes, pipes or priorities |
| `KSocket` | `ksocket.c` over TCP: backlog, ends, byte stream |
| `Devices` | the operations of the two device modules, over `KSocket` |
| `Transfer` | `master.c` and `slave.c` over `Devices` |
| `FileCopy` | what the two programs promise together; no sockets, pages or devices |
| `Modules` | init and exit of the three modules, `compile.sh` and `clean.sh`, and the open files, mappings and pages of `master`, `slave` and `test_md` |
| `BatchInv` | the parts of the inductive invariants of `fifo.c` and `sjf.c` that they share, and `FaultInv`, which holds when `execl()` fails too |
| `FifoInv`, `SjfInv`, `PsjfInv`, `RrInv`, `TransferInv` | the inductive invariants (`RrInv` has `IInv`, `MainInv` and `FaultInv`; that of `Modules` is in `ModulesProofs`) |
| `DispatchProofs`, `BatchProofs` | proofs about the machinery the schedulers share |
| `FifoProofs`, `SjfProofs`, `PsjfProofs`, `RrProofs`, `TransferProofs`, `ModulesProofs` | the theorems of each program, and the proof that its invariant is inductive |
| `MCFifo`, `MCSjf`, `MCPsjf`, `MCRr`, `MCTransfer`, `MCModules` | instances for TLC |

**Dispatch.** Time is counted in units of the busy loop. `elapsed` is the real
time; main's clocks are variables of the scheduler modules. A child is `none`,
`forked`, `scan` (in `scanf`), `run`, `zombie` or `reaped`. `ChildMayRun` and
`MainMayRun` are SCHED_FIFO on one CPU: a step belongs to a runnable process of
maximal priority; among equals the choice is left open, which includes what the
kernel does. A write end is held by everyone who inherited it, so end-of-file
depends on FD_CLOEXEC as it does in the code. `qsort()` may order ties in any
way. `began` and `ended` are history variables that say when a job really got
the CPU and exited.

**Batch, Fifo, Sjf, Psjf, Rr.** `pc` names the place in main between two calls
the kernel can see (a write, a priority change, a wait, an iteration of a busy
loop); everything between two such places is one action. So `assign()` is
`AssignWrite`, `AssignRaise`, `AssignCharge`, `AssignWait`. In `Rr` a node of
the ring is named by its job, and `nodes` is the set of nodes that are
malloc'ed and not freed.

**Transfer.** Each run of `master` and `slave` has a record of its own state in
the functions `master` and `slave`. Byte i of the input of run r is the pair
`<<r, i>>`, so that each byte of an output file can be traced. `ksend()` queues
byte by byte and blocks when the buffer is full; `krecv()` returns any
non-empty part of what is there. `kaccept()` and the assignment to `sockfd_cli`
are two actions, as are `ksocket()` and `kconnect()`, and a call keeps the
socket it has read from `sockfd_cli` (`sk`). A call through a pointer to a
released socket stops the program, or uses a socket accepted since that may
have taken its place (`MasterSock`). A killed program leaves the sockets of its
device as they are, because neither `master_close()` nor `slave_close()` closes
them. What the users and the kernel do is a *scenario*: file sizes, methods,
and which of kills, overlapping runs, reloading of `master_device` and a failing
`sock_create()` (`memory`: in `ksocket()` or in `kaccept()`; the ioctl fails and
leaves a null `sockfd_cli`) may happen. `source`
and `disturbed` are history variables: whose connection a slave got, and which
runs overlapped.

**Modules.** A script is the sequence of its remaining commands. `master_init()`
is two actions, before and after the device is registered, because a program
may open it in between. `misc` is the kernel's list of misc devices, newest
first; `stale` are the entries whose module was freed after its init function
had failed. A walk over such an entry either reads as before or stops the
process with the lock of the list held (`stuck`). A file is alive as long as a
descriptor or a mapping of it is left; `count` is the reference count of its
page, `reference` the field of `struct mmap_info` (which the code counts and
never reads). The bytes are left to `Transfer`: of a connection only its
hold on the port is kept.

## 3. What is checked

Every run stops when its programs do, so none checks for deadlock; the liveness
properties say instead that the programs end where they should. No run uses
symmetry: the jobs and the file sizes are enumerated as they are.

| run | question |
|---|---|
| `fifo`, `sjf` | Are main's clock, books, wait and results right, is the policy implemented, and is every job run to its end, reaped and printed, for every input of three jobs? Does the inductive invariant of the proofs (`IInv`) hold? (For `sjf` that invariant implies the other parts, by the theorems of section 4.) In both `fork()` may fail. |
| `psjf` | The same for `psjf.c`, and is its array always cut where the indices say? (`IInv` contains `TypeOK` here and in `rr`.) |
| `rr` | The same for `rr.c`, on jobs that are not empty. |
| `fifo_faults`, `rr_faults` | `fork()` and `execl()` may fail: does every process end, and is what is printed of a job that got the CPU still true (`ServedAreTrue`)? Does `fifo.c` still fork every job at its time, although it charges slices that nobody runs? Does the list of `rr.c` stay a ring, although `wait(NULL)` may find another child than the one whose node was freed? |
| `transfer` | Does every slave copy the file of its own master, however the stream is cut (`ImplementsCopy`), are runs paired in order, does no master go on before it has accepted the slave of its own number, and do both programs get through their runs in whatever order they are started? Does `OrderlyInv`, the invariant of the proofs for programs nobody disturbs, hold? |
| `transfer_faults` | Is what an undisturbed slave stores still a prefix of its master's file when programs are killed anywhere and run again, when earlier runs overlapped on a shared socket, when `master_device` is removed and inserted, when connections are refused and reset, when a socket cannot be created? Does a slave that ends normally have the whole file, or a negative size and nothing stored? Is any byte ever stored twice? |
| `modules` | Does anybody call into a freed module, or stop in the list of devices, for any reason but a `master_init()` that failed with its device registered? Is the page of a file counted exactly, so that it is freed once and in time? Do the exit functions take everything back, and what does a failed init function leave? All this whatever the scripts and programs do and whichever init function fails. |
| `rr_zero`, `transfer_size`, `modules_reload` | The disagreements below, each a violation of one stated property. |

**Bounds.** Three jobs are the least with which one can run, one wait and one
be still to come at the same time. Ready times are chosen so that arrivals
coincide, fall inside a job, on its end, and after an idle gap; execution times
include 0 (not in the passing runs of `rr`, see below), 1 and more than a
quantum. The quantum is 2 units (500 in the code), so that a job needs two.
In the transfer a page has 2 bytes and the socket buffer 3, so that a page does
not fit beside another, and the files have 1 byte, a multiple of a page and one
byte more, or none; two runs of each program are the least with which one run
can get another's bytes or share its socket. The scenarios (module
`MCTransfer`) split the faults: kills with failing sockets, kills with
reloading, overlapping runs of both programs with failing sockets, overlapping
slaves with `mmap`. `MaxErrors` bounds how often one
slave counts a failing `read()`, which in the code may go on for ever. The
listening backlog of 10 is never reached. `Modules` needs no bound: it has one
program of each kind, run again and again, and its state is finite; the
constant `MemoryFails` says whether allocations in the init functions may fail
(always in `modules`, never in `modules_reload`, so that its violation is due
to the port alone).

**Refinement.** `ImplementsFifo`, `ImplementsSjf`, `ImplementsPsjf` map a
scheduler to `IdealCpu`: the time is `elapsed`, the service of a job the units
its child has counted. Each step of main is a stutter except those that burn
time, so the property says who gets every single unit and that no unit is
wasted while a job is ready. `ImplementsRr` maps the ring, read from `cur_job`,
to the queue of `IdealRr`, and the used part of the quantum as well.
`ImplementsCopy` maps `Transfer` to `FileCopy`: the pairing is `source`, what a
slave has is the first `file_size` bytes of its output, and a slave is done when
one that uses `read()` has ended normally. (A slave with `mmap` may stop early,
see `transfer_size`; it takes only correct bytes as well.) The transmission,
the pages and the errors are stutters.

**Fairness.** prj1: weak fairness of the whole next-state relation. The kernel
does not leave the CPU idle while a process can run, and which one runs is
determined by the priorities; nothing is assumed about a particular process.
prj2: weak fairness of each run of each program separately (ordinary processes
on a kernel that schedules all of them), none for being killed and none for the
scripts.

### Disagreements the runs show

* `rr_zero`: a job of length 0 makes `rr.c` wait for ever. `run_job()` returns
  without writing, the child stays in `scanf()`, main in `wait(NULL)`. The other
  three schedulers write the 0.
* `transfer_size`: a slave with `mmap` that receives less than a page cannot map
  the next part (the offset is off a page boundary), stops, and prints a size
  smaller than that of the file it has already extended.
* `modules_reload`: `README.txt` has `compile.sh` install the modules. Soon after
  a transfer, `clean.sh` and `compile.sh` do not: the port is in TIME_WAIT,
  `kbind()` fails, and `master_init()` returns without taking back the device
  and the debugfs file, so that the list of misc devices leads into freed
  memory. `insmod` of `slave_device` may run into it at once, and the name
  `master_device` stays taken for every later attempt.

Found on the way, without a run of their own:

* `master` with `mmap` and an empty file leaves without closing the connection
  (`master.c:75-83`), and the slave waits for ever; `BothEnd` excepts this case.
* After a reset `read()` of the slave device returns -1, which `slave.c:56-59`
  takes for a length: it goes on, and the size it prints is too small by the
  number of errors; on a socket that is not connected it goes on for ever.
  `ReadSlaveIsComplete` says what is true of a slave that ends like this: the
  size is negative, nothing is stored, and no master had its connection.
* A program that opens `master_device` in the middle of a `master_init()` that
  then fails keeps a file whose module is freed, and is stopped by its next
  call. `OnlyStaleStops` names this, and the stale entry it comes with, as the
  only way in which anybody is stopped.
* `clean.sh` removes `ksocket` first, which never succeeds while the devices are
  there: it stays loaded.
* The loop in the report of prj1 (`report.tex:112`) waits for the next arrival
  whenever it has nothing to fork; `psjf.c:188` waits only if the queue is
  empty.
* When `fork()` fails, the children of `psjf.c` and their inherited write ends
  keep each other waiting in `scanf()`.

## 4. What is proved

Every invariant and every refinement that a passing run checks is also a
theorem: it holds for every value of the constants, as far as the assumptions
below go, and not only for the instance of the run.

| program | theorems | beyond the `ASSUME`s of the modules |
|---|---|---|
| `fifo.c` | `FifoInvariance`; `FifoTypeOK`, `FifoBooks`, `FifoCurrent`, `FifoWait`, `FifoResults`; `FifoIsIdeal` | `~ExecMayFail` |
| | `FifoFaultInvariance`; `FifoArrivals`, `FifoServed`; `FifoEof` | none |
| `sjf.c` | `SjfInvariance`; `SjfBooks`, `SjfWait`, `SjfResults`; `SjfIsIdeal` | `~ExecMayFail` |
| | `SjfFaultInvariance`; `SjfArrivals`, `SjfServed`; `SjfEof` | none |
| `psjf.c` | `PsjfInvariance`; `PsjfClock`, `PsjfArrivals`, `PsjfQueue`, `PsjfWait`, `PsjfResults`; `PsjfIsIdeal` | none |
| `rr.c` | `RrInvariance`; `RrClock`, `RrResults` | `~ExecMayFail` |
| | `RrBooksInvariance`, `RrFaultInvariance`; `RrRing`, `RrArrivals`, `RrServed` | none |
| | `RrIsIdeal` | `~ExecMayFail`, no job of length 0 |
| `master.c`, `slave.c` | `TransferInvariance`; `TransferTypes`, `StoredBytes`, `CompleteFiles`, `BytesOnce` | none: any scenarios |
| | `CopyIsImplemented` | `OneByOne`: kills and failing `sock_create()`, but no overlaps and no reloads |
| | `OrderlyInvariance`, `PairedInOrder` | `LeftAlone`: neither kills nor failures |
| the kernel modules | `ModulesInvariance`, `StopsInvariance`; `StopsExplained`, `PagesAreCounted`, `ExitsCleanUp` | none |

The `ASSUME`s of the modules say that the jobs are a finite set without `Main`,
that times are natural numbers, that the quantum, the page and the socket
buffer are not 0, and that switches are Booleans; in `Transfer`, that there is
one connection and one output file per run of `slave`. Unless the table says
otherwise, any `fork()` may fail; where it says "none", so may any `execl()`.

The extra assumptions are those under which the code keeps its promise.
`~ExecMayFail`: a job without a `./child` does no work, so books that charge it
are wrong; what is left then is proved of every run (see below). `psjf.c` needs no
such assumption because the model leaves that case out (section 5). A job of
length 0 makes `rr.c` hang (`rr_zero`). Runs that overlap share one socket, so
that a slave may store bytes of two masters, and after a reload `read()` may
fail, which `slave.c` takes for a length: neither is a step of `FileCopy`.
Pairing in order needs more, since a killed slave may leave its connection in
the backlog for the next master.

### The schedulers

None of the properties is inductive. That main's clock is right at the next
decision depends on a slice in flight being burnt completely before main
resumes, which depends on the priority of the child, which depends on where main
is. Each invariant therefore says where every child is.

* *`fifo.c`, `sjf.c`* (`BooksInv` in `BatchInv`). The array is cut at `Index`
  and `nextforfork`: the jobs below `Index` are `Finished`, those between are
  `Resting`, those above `ToCome`, and only the current job may have a slice
  under way, `Handed` (in the pipe) or `Taken` (being burnt). In both cases
  main's remaining time, the child's counter, the clock and the real time differ
  by exactly the part of the slice that is not burnt. `SliceIsBurnt` is the key
  step: main can charge the slice only if no child of priority 99 is runnable,
  so nothing of it is left. The rest are the order of the jobs to come
  (`ListingInv`), the ranges of the indices (`IndexInv`), the distance to the
  next arrival (`ClockInv`), who holds which end of a pipe (`FdInv`), and that
  nobody burns units once main has gone (`ExitInv`). `EofInv`, which needs none
  of this, is the invariant of `FifoEof` and `SjfEof`. `BatchProofs` has one lemma
  per action and invariant.
* `TimesInv` adds what has been stamped and when the job really began and ended,
  for `ResultsAreTrue`. `OrderInv` (`fifo.c`) and `ShortestInv` (`sjf.c`) say
  which job is current in terms of arrival and length. Of the sort in `sjf.c`
  they need that it permutes resting jobs, moves nothing else, and puts the
  shortest first (`SortFacts`).
* *`psjf.c`* (`PsjfInv`). The same, with three cuts: `SlotsInv` says what the
  slots below `Head`, in the queue and above it hold, `RunningInv` what the
  running job has; `ChargeFacts` is its `SliceIsBurnt`, `SortedFacts` its sort.
* *`rr.c`* (`RrInv`). The links are a ring (`IsRing`): following the
  links from `cur_job` meets every node once, and the links back are the inverse. `RingAdd`,
  `RingRemove` and `RingRotate` are what `add_list()`, `remove_list()` and the
  end of a quantum do to that sequence. `AccountFacts` is its `SliceIsBurnt`;
  `SliceInv` bounds the slice by the rest of the quantum.
* *When `execl()` fails* (`FaultInv` in `BatchInv` and `RrInv`). A child that
  could not start is dead with all its units left (`Failed`), yet main goes on
  to charge it, so the equations above are lost and inequalities take their
  place. main's clock may run ahead of the real time, by what it charged in
  vain, but never behind it (`LeadInv`), and no slice is planned past the next
  arrival (`PlanInv`). `NoMissedArrival` speaks of both clocks: when main
  decides, `PlanInv` keeps the clock it tests for equality at or before the
  next ready time, and `LeadInv` then does the same for the real time. Each job off the
  ring, or below `Index`, has run to its end (`Gone`) or `Failed`, which gives
  `ServedAreTrue`; that all are reaped at the end is a count, since a `wait()`
  may find any of several dead children (`EndInv`). `Given` is `Handed` or
  `Taken` with the real time at most main's; `CurrentServed` relates it to the
  stamps. In `rr.c` main's side, the ring and its books, does not look at the
  children: `MainInv` is inductive by itself, `RrRing` and `RrArrivals` build on
  it, and `FaultInv` adds the children (`ChildrenInv`). A job of length 0 leaves
  the ring of `rr.c` with its child still waiting (`Passed`).
* *Refinements.* A unit burnt is a step of the ideal CPU that serves the job
  the policy names (`BurnUnitServes`): a job the ideal CPU could choose instead
  is forked and in the queue (`PendingIsForked`, `PendingIsQueued`), so the order
  of the queue decides. An iteration of a waiting loop is an idle unit, since
  nothing has arrived that is not done (`WaitLoopIdles`, `IdleIdles`). All other
  steps are stutters (`ForkIsUnseen`, `MainIsUnseen`, `ChildIsUnseen`).

### The transfer

* `FlowInv` is the core: what a slave has stored, what is in its page, what is
  in the stream of its connection and what its master has not queued yet are
  consecutive parts of one file, as long as neither run has overlapped with
  another. It needs `BooksInv` (the page of a master is the part of its file
  before `offset`), `ConnInv` (a connection goes from made to the backlog, to
  one master, to closed), and `MasterInv` and `SlaveInv` (a run that is `Alone`
  has the socket of its device to itself, and no later run touches its
  connection: the static `sockfd_cli` is safe for runs one after the other, even
  after a kill).
* `BytesInv` holds for overlapping runs too: each byte is in one place, a page,
  a stream, a message buffer or an output file (`BytesMoved`). `NoByteTwice`
  follows.
* `QuietInv`: without overlaps and reloads no connection is reset or refused and
  `read()` never fails. With it each step is one of `FileCopy` (`CopyStep`):
  `kaccept()` is `Pair`, storing or mapping a part is `Receive`, the end of the
  slave is `Finish`, and everything else is a stutter.
* `TurnsInv`: if moreover nobody is killed, the runs of each program take turns,
  every slave gets into the backlog in its order, and the next master accepts
  the slave of its own number (`AcceptsOwn`).

TLC checks `OrderlyInv`, which contains all of these, in `transfer`. The part
that holds in every scenario (`IInv`) has also been checked on the scenarios of
`transfer_faults`, outside the runs: they have 4 million states and take long
enough without it, and the theorem says more.

### The modules

`ProgramsInv` says what each program holds at each place of its code and what
the two counters of its page are then. `FilesInv` says that whoever holds a file
whose module is gone has opened it in the middle of a `master_init()` that
failed, `ListInv` that `ksocket` is loaded with either device and that an entry
of the list of devices whose module is not loaded is stale, `LeftInv` what an
`exit` or a failed `init` leaves behind. `StopsInvariant` is inductive on top of
these: every process that is stopped has its explanation, a stale entry of
`master_device` it walked over or a file it opened early, and a program that is
off has no file. A stop has no other cause because `FilesInv` says that a file
whose module is gone was opened early; this is what the `.owner` of both
devices buys. `NothingLeft` needs both invariants.

### What is only model-checked

* Liveness (`AllDone`, `NobodyHangs`, `BothEnd`): like everything that depends on
  fairness, it is beyond the proof system used.
* `ImplementsRr` has no claim about jobs of length 0, and none of the
  refinements has one about runs in which `execl()` fails: main's clock is then
  ahead, and it may fork a job before the real time is its ready time.
* The three disagreements: each is a behaviour TLC shows.

Not claimed, because it is not meant to hold: `ImplementsCopy` with reloads or
overlapping runs, `RunsArePaired` with kills or failing sockets.

## 5. What is not modelled

* A failing `execl()` in `psjf.c`: the child has no `exit()` there and becomes a
  second scheduler.
* More than one CPU, and a main without the right to set its priority: the
  design excludes both.
* The width of the integers: times near 2^31 units are months of CPU time.
* Policy selection, the format of what is printed, `child2.c`, `p.c`, the files
  of the Linux tree.
* The debugging ioctl of the devices (it prints a page table entry), a failing
  `kmalloc()` or `get_zeroed_page()` when a device is opened, `set_fs()`.
* The wrappers of `ksocket.c` that nobody calls, and the conversion of
  addresses.
* What a program does with memory that is freed under it beyond "reads as
  before, or is stopped".
* In `Modules`, the bytes that are sent, and a kernel that has been restarted.

## 6. Plan

Done: prj1 with all four schedulers, their policies and faults; prj2 with
overlapping, killed and repeated programs, its abstract specification, the life
cycle of its modules, files and pages; the inductive invariants of all of them,
those of `fifo.c`, `sjf.c` and `rr.c` under a failing `execl()` included; every
invariant and every refinement the runs check, as theorems.

What could follow, in this order:

1. Action properties as theorems: that slots of finished jobs and stamps are never
   touched again, that a slave's size only grows while nothing is reset.
2. Pairing under kills, in the form that does hold: which master a slave gets
   when runs before it have died.
3. `psjf.c` with a failing `execl()`, as several instances of main.
