# Verification of mckernel-ostest

mckernel-ostest is a test suite for an operating system kernel (McKernel, or
Linux for comparison).  A test suite is itself a concurrent program: its test
points fork, trace, signal and map memory, and its verdict is only worth
something if a correct kernel passes in every interleaving, a wrong one is
reported, and no test point hangs.  That is what this project specifies and
checks, together with the kernel module the tests use.

The kernel under test is external to the repository.  It is modelled from how
the tests use it, as a correct kernel plus calls that may fail (`Faulty`,
`MayFail`) or named defects (`Defects`).

## The system and its parts

| Part | Source | Here |
|---|---|---|
| ptrace test points 000 to 020 | `src/test_mck/src/ptrace` | `PtraceTests`, `PtraceSession` |
| mremap_mmap_anon test points (68) | `src/test_mck/src/mremap_mmap_anon` | `MremapTests`, `MremapAnon` |
| cpu_thread_limits 000, 001 | `src/test_mck/src/cpu_thread_limits` | `CpuThreadLimits` |
| cpu_proc_limits 000 | `src/test_mck/src/cpu_proc_limits` | `CpuProcLimits` |
| all other test points that fork or create threads, and several that send signals to themselves (56, listed in `ProcTests`) | `src/test_mck/src/<suite>` | `ProcTests`, `ProcSession` |
| test driver: setup, cleanup, load scripts | `src/test_drv/test_mck_drv.c`, `util/insmod_test_drv.sh`, `util/rmmod_test_drv.sh` | `TestDrv` |
| devices mmap_dev, mmap_dev2 and their tests | `src/test_drv/*mmap_dev*.c`, `src/test_mck/src/mmap_dev` | `MmapDev` |
| the tests running on the driver while it is loaded and unloaded | both of the above | `DriverTests` |
| lv07, threads that print in turn | `src/lv07_read-write_with-glibc/entry-pth.c` | `ReadWriteThreads` |
| socket_TP, client and server | `src/socket_TP` | `Sockets` |
| what the limits tests and lv07's barrier have in common | | `Rendezvous` |
| framework `test_mck` (find, setup, run, teardown, report) | `src/test_mck/src/test_mck.c` | only where a test depends on it (`CpuThreadLimits`, `ProcSession!Return`) |
| helpers per architecture | `src/test_mck/src/arch` | the x86 stubs (`PtraceTests!x86_stubs`) |
| suites of single calls | `src/test_mck/src/*` | not modelled, see below |
| other stand-alone programs | `src/*` | not modelled |
| shell harness and result scripts | `util` | the skip list of ptrace, the order of the mmap_dev tests, loading and unloading |

The harness starts one `test_mck` process per test point.  `main` finds the
test case, calls its setup, run and teardown functions, prints `RESULT: ok` or
the message the run function returned, and exits.  Test points of one suite
share nothing but what outlives a process: the driver's buffer (modelled in
`MmapDev`) and files.

## Modules

**PtraceTests, PtraceSession.**  Every ptrace test point has a `child_func`, a
`parent_func` and a `RUN_FUNC`.  `PtraceTests` writes each function as a
sequence of steps in source order, with the label its error branch jumps to.
`PtraceSession` gives the steps their meaning: `P_*` are steps of the parent,
`C_*` of the child, `Run*` of `RUN_FUNC`, `K_*` and `G_stop` what the kernel
does by itself (delivering SIGSTOP, single steps, the grandchild's first stop).
State: the two program positions `p` and `c`, the child as the kernel sees it
(`k`: running, stopped, zombie; stop already collected; signal pending; asleep
in futex), the grandchild `g` of 015, the semaphores, the child's memory by
cells, the calls that have failed, and the verdict.  A failing `sem_wait` or
`sem_post` changes nothing else: the functions do not look at its value and go on.

**MremapTests, MremapAnon.**  `MremapTests` holds the 68 test points as data:
the areas to lay out, the mremap call, what it must answer, and the checks.
`MremapAnon` has the layout function (`Reserve`, `Format`), the call, and the
data, access and signal checks on an address space of pages.  Nine kernel
defects can be chosen; `Shapes` names the test points that call mremap in a way that
shows the defect and look at what it spoils.

**CpuThreadLimits.**  `RUN_FUNC` and `thread_num` threads: creation, the retry
loop over `waiting`, the barrier, the joins, the free.  001 sums slices of
`numdiv` divisions; a sum is represented by the number of divisions in it.

**CpuProcLimits.**  `RUN_FUNC` and `proc_num` children over pairs of pipes.  The
state is who holds which end of which pipe, because a forked child inherits
the ends of its elder siblings.

**Rendezvous.**  The abstract specification of the two limits suites and of a round
of lv07's barrier: workers arrive, nobody is let go before all are there, a test that
gives up has let nobody go.  In lv07 a test may also fail afterwards (`LateFailure`):
a `pthread_join` that fails ends `main` behind the last round, but then all have come
to it.  The three modules implement it under the mappings `Meeting` and `Round` at
their ends.

**ProcTests, ProcSession.**  `ProcTests` writes what each process or thread of 56
test points does, a step per call, with the steps taken when the call
fails.  `ProcSession` gives the steps their meaning on a model of the kernel:
processes `pr` (state, remaining steps, handlers, pending and blocked signals, alarm,
group, CPU, affinity mask), global variables per address space `glob` (a vfork child
and a thread share their parent's), pipes, shared memory and semaphores `pipe`, and
the process each CPU runs `cur`.  CPUs do not preempt: a process that busy-waits keeps
its CPU, one that blocks or yields gives it up, and fork gives every child a CPU of
its own, as McKernel does.  A pid the test never stored is an arbitrary word.  A test
point that ends with a message asking to look at its output ("ask") passes when the
output is as the message says.

**TestDrv.**  Each kernel call of `test_mck_setup` is an action that may fail;
`fail` is its error path with the whole of `test_mck_cleanup`; the two scripts
and processes that open and close device files run beside it.

**MmapDev.**  The buffer of mmap_dev2, the fault handler and the reset ioctl,
and tests 000 to 002 one after the other on the same buffer.

**DriverTests.**  The two composed: one process of TestDrv runs the tests of MmapDev,
the others hold devices open, and the scripts load and unload the driver at any
moment.  The tests reach a device only through a device file of a registered device;
loading the driver fills the buffer anew.

**ReadWriteThreads.**  `main`, the threads and `read_write`; the barrier is the C
library's, with threads that leave a round only when they are scheduled.

**Sockets.**  The server and the client as two processes or as two threads, the
connection between them in messages: accepted by send, arrived, returned by recv;
`reset` once a message has met a closed socket.  A send may fail at any time; the
client prints that and goes on with the next message.

`MC*` modules give the constants values for TLC; `*Proofs` modules hold theorems.

## Runs

| Run | Shows |
|---|---|
| `ptrace_faults` | All 21 test points, in the build for each architecture, every combination of failing calls. A NULL verdict is sound (`VerdictSound`: not claimed for 000, 015 and a crashed child) and hides no failed call whose value the code looks at (`FaultsReported`: not claimed for 000 and 015; a crash is not a call). The semaphore calls are the ones it does not look at: a failed `sem_wait` can go by, a failed `sem_post` only if the `sem_wait` it was for failed too, or the child crashed or, in 018, was to be killed; a test point that needs a helper its architecture lacks never passes, and no other meets a stub (`StubsReported`); ptrace requests go only to a child seen stopped (`RequestsOnStopped`, except in 000, which never stops it); the child cannot pass its semaphore before the parent has seen it stopped, unless its `sem_wait` fails (`ChildHeld`); without failing calls nothing but 008, 015 and 016 can fail (`NoFalseFailure`), and these only through the race each has (`RacesNamed`); with the stubs of arch/x86 those skipped for a stub fail, those that are run do not meet one (`X86SkipList`); every run returns or is in one of four hangs, each after a named failed call (`HangExplained`). |
| `ptrace_015_fork_event` | violation: the wait for the fork event may return the grandchild. |
| `ptrace_006_peektext` | violation: a failed PTRACE_PEEKTEXT is not noticed and -1 is written back as an instruction. |
| `cpu_thread_limits` | All threads run at once before one ends (`ThreadsMeet`, the refinement of `Rendezvous`), the array is freed too early only after a failed `pthread_create`, a success is complete, the process ends. |
| `cpu_proc_limits` | A NULL result means every child was there at once and answered (`ProcsMeet`, the refinement of `Rendezvous`); end-of-file is met only by children of a run that gave up, and never taken for an answer (`EofMeansGivenUp`); no SIGPIPE; everybody ends. |
| `mremap_defects` | The layout is the one described, a correct kernel passes all 68 test points, and each of nine defects is reported by exactly the test points whose checks look at what it spoils. A tail or an old area that stays mapped is noticed by 014 and by 015 and 016 of each hundred; 002 shrinks, 005 to 007, 012 and 013 move an area as well, do not look at what is left, and pass. |
| `proc_tests` | 56 test points with processes or threads, every combination of failing calls (those in `Faulty`: read, write and the semaphore calls, whose values most of the code ignores, do not fail). On a correct kernel none but setpgid 004 can fail (`NoFalseFailure`); sixteen kernel defects are reported by the test points about them (`DefectReported`); a pass means that every child waited for got to its own `_exit(0)` and was reaped (`OkMeansReaped`); only one process prints a RESULT, except after named failures, and the two of process_vm agree (`OneResult`); every run ends with a RESULT, or by the signal or execve it is meant to end by (`EndsWithResult`), and leaves no process (`NoneLeft`), except after the failures `Stuck` and `Leaves` list. Without any one of those entries TLC finds a run that hangs or leaves a child. |
| `proc_asserts` | violation: the assertion getppid 000 is about returns to a caller that ignores it. |
| `driver_tests` | The driver loaded and unloaded any number of times, any call failing, with tests on it: an unloaded driver leaves nothing behind, an open device is set up, classes are released once unless `class_create` failed; the tests keep to what TestDrv allows (`DriverKept`), rmmod never takes the buffer from a test (`BufferLive`), and what a test or an earlier load leaves neither fails the next test on a correct kernel (`Independent`) nor hides a defect from it (`DefectReported`). |
| `testdrv_class` | violation: a failed `class_create` leaves the module loaded and empty. |
| `read_write_threads` | The lines come out in the order of the thread numbers; a thread without the file holds all others in the first round; `main` returns otherwise; the last round is a rendezvous, also when a join behind it fails (`RoundMeets`). |
| `sockets` | A server whose own calls work receives every message that was sent, all ten unless a send failed, however the stream is cut; only a failed server kills its client; both end unless the client has used up its retries before the server listens. |

### Bounds

The ptrace programs are finite, so that run is exhaustive: every call may fail,
and the kernel may crash the child once.  All ptrace runs set `PromptStop`: a
pending SIGSTOP stops the child before its next step.  Without it the child
could pass an already posted `sem_wait` in user mode before the signal is taken;
the test points rely on this not happening, and so does `ChildHeld`.
Three threads and three children are the least with a first, a middle and a
last one; seven divisions are not a multiple of three.  mremap counts pages: an area
has the four pages of the code, a large one five instead of 512, and the 26 pages of
the address space hold the widest layout at two places, or a layout of two areas
and the place it moves to.  The
process test points have four CPUs and three children for kill, gettid and tls, the
least with a pid never stored inside the loop of kill 002; the test points
that look at CPUs start on any of them.  Five sleeps count as long enough:
`sleep(3)` of kill before the signal, `sleep(5)` of tkill 001 and tgkill 002 for the
thread to store its id, `sleep(1)` of the child of wait4 003 and the sleep of the child
of nanosleep 001 for the parent to wait, and the interval in sched_yield 000 for the
child to block; the other sleeps order nothing.  An alarm may go off at any time after
it was set.  A defect is only tried on the test points that are about it.  The driver
has two devices, as `test_suite.list` has, and two processes, one of which runs the
tests.  `MmapDev` has the real three-page buffer, mappings of up to four pages, one more
than fits, and three tests in a row: one to dirty the buffer, one to meet it, one more.
lv07 has four threads, so that there are rounds with threads before and after the one
whose turn it is; the round shown to be a rendezvous is the last (the proof is for
every round).  `Sockets` has the constants of the source, ten messages and
`CONNECT_RETRY` 5, which gives seven attempts to connect.

### Fairness

`PtraceSession!FairSpec` assumes that each process that can take a step
eventually does, as the scheduler guarantees.  It does not assume that a blocked
`wait` fails or that the child crashes: `Owed` leaves out a `wait` with nothing
to return, so that a failure cannot rescue a hang.  `CpuThreadLimits` and
`CpuProcLimits` assume weak fairness of each process or thread; in the first the
threads spin, so this is the assumption that a spinning thread does not keep
others off the processor for ever, which preemption, or one core per thread as
the test is meant to be run, gives.

`ProcSession!Fairness` is weak fairness of each process while it has a CPU, of
each alarm and of each CPU's change to another process; failing calls are not part of it.  It does
not assume that a spinning process is ever preempted.

`ReadWriteThreads!FairSpec` is weak fairness of `main`, for steps in which no join
fails, and of each thread.
`Sockets!FairSpec` is weak fairness of both programs for steps in which no call fails,
and of delivery: TCP hands over what was sent as long as both ends are there.

## Proofs

All are checked by TLAPS for every value of the constants that satisfies the
named assumptions, which TLC evaluates in the runs.  Every inductive invariant
was model-checked as well.

* `PtraceSessionProofs`: `TypeCorrect`, `RequestsStopped`, `VerdictsSound`,
  `ChildIsHeld`, `FaultsAreReported`, `StubsAreReported`, for any table of test points
  that satisfies the assumptions of `PtraceSession` on the order of the steps, and any
  set of failing calls.  `StopAssumption` (a request follows a wait or another request; early
  failures leave through `out`) gives `RequestsStopped` through `Held`: a step after a
  holding step finds the child stopped and seen.  `VerdictsSound` rests on `Fate` and
  `VerdictLast`, which tie the way the child ended to its return value and the
  verdict to the last wait.  `HandshakeAssumption` (before its first wait the parent
  resumes nobody, and stops the child before it posts `cwait`) gives `ChildIsHeld`
  through `Handshake`: up to that wait either SIGSTOP has not been sent and `cwait` is
  0, or it is pending or has stopped the child, and then the child makes no step.
  `FaultsAreReported` says that no failed call goes unnoticed but those of the
  semaphores, and of these no lost post that somebody waited for.  Its invariant is
  `FaultInv`, with `Recorded` at its centre: a call that has failed has sent the parent
  or the child to an error label with `ret` still -1, from which no label leads back, or
  is `Pending`, or was a semaphore call.  Pending failures are those of the three steps that go on after one: a
  lost POKEDATA, the PEEKTEXT whose error test looks at the wrong variable, the address
  in 003.  Each leaves a value behind that a later step stumbles over; `QuietAssumption`
  says where the two steps are (`AddrPlan`, `BufPlan`, `TextPlan`), and `AddrInv`,
  `BufInv` and `TextInv` carry the value from the one to the other, through the other
  process where it has to go there.  For the semaphores `SemAssumption` says that each
  side has one post and a wait for the other's (`SemPlan`), and `SemInv` that without the
  post the semaphore is 0 and the wait on it has not been passed, but by its failure; in
  a passed test both sides have got to their end.  `EndInv` and `CrashInv` exclude that the child died
  of a crash instead of ending with its own return value, `KillInv` (for 018, where the
  child's result is not looked at) that a child without PTRACE_TRACEME was killed.
  `StubsAreReported` follows: `StubInv` says that a step needing a missing helper has
  left a failure on record once it is passed, and that only helpers with a step fail
  (`StubAssumption`: a stub is a helper, not a system call of `RUN_FUNC`).
* `ProcSessionProofs`: `ResultPrintedOnce`, for any number of children and CPUs, every
  defect and every set of failing calls.  Which steps the parent and the children of a
  test point can get to (`ParentCode`, `ChildCode`) is computed from the table and checked
  by TLC to be closed under `After` (`CodeAssumption`); that the kernel adds no other way
  is what the proof shows, action by action: `RolesInv` says that a live
  process is inside the code of its role, and that only the child of process_vm, a
  test point of its own, has `return` in it.  For that child `OwnTestInv` follows the
  parent through three stages, before the fork, before it has seen an exit status 0, and
  after (`JudgedAssumption`), so that the two results agree.  `PrintInv` is the two
  together; it gives up after a failed call in the test points of `ReturnsOnError`,
  whose children return from `RUN_FUNC` on an error.
* `CpuThreadLimitsProofs`: `ThreadsAllAtOnce`, `ThreadsOkComplete`,
  `ThreadsFreeIsLast`, and `ThreadsImplementMeeting`, the refinement of `Rendezvous`.
  The invariant adds how far the create loop is, that the
  retry loop has seen `waiting` of every thread before `ith`, and that after `ith`
  joins the sum is `istart(ith)`: consecutive slices meet, so the total is `numdiv`.
* `CpuProcLimitsProofs`: `ProcsAllAnswered`, `ProcsEofMeansGivenUp`,
  `ProcsNoSigpipe`, and the refinement `ProcsImplementMeeting`.  The invariant says which
  ends each side must still hold (`HoldInv`) and what the messages so far say about a
  child (`MsgInv`).
* `ReadWriteThreadsProofs`: `LinesInOrder`, `FailedOpenHoldsAll` and the refinement
  `RoundsImplementMeeting`, for every number of threads and every round, with failing
  joins behind the last.  `Level` says
  that a thread's counter is the barrier's round or, inside the barrier, one behind;
  `Said` that its line is out exactly from its turn on.
* `DriverTestsProofs`: first `TestDrv`, then the composition, for the two devices of
  `test_suite.list` and any number of processes.  `DrvCleanSlate`,
  `DrvOpenIsServed`, `DrvNodesServed` follow from `DrvInvariant`: `Progress` says what
  is set up at each step of setup, `InUse` that device files and open files exist only
  while a complete driver is loaded, `Clean` that an unloaded module holds nothing.
  `DrvReleasedOnce`, a property of steps, uses the same invariant.
  `DriverImplements`: the composition implements TestDrv, so that the theorems about
  TestDrv hold of it; `Holds` says that the test has its device open exactly while it
  uses it.  `BufferStays` follows from that and `DrvOpenIsServed`.  From it follow
  `TestsIndependent` and `TestsReportDefects`, for every buffer size, mapping size and
  number of tests: a load in the middle of a test would refill the buffer under it.
  `TestInv` adds that the fill of every page survives all tests (`Filled`), what the
  test has written since its reset (`Written`), and that a comparison that got past
  the first page has ruled the defect out (`Compared`).
* `MremapAnonProofs`: `AreasLaidOut`, `CorrectMremapPasses` and
  `MremapDefectsReported`, for all 68 test points, every address space, and areas of
  any size above one page (`RangeAssumption`), the large ones of 512 pages in the code
  among them, for which TLC has five.  The table is 17 shapes, private or
  shared, with two sizes.  The invariant says of the layout which areas are in place
  and what their pages hold (`Formatted`), and of the checks that those still to come
  all hold on a correct kernel and that one of them does not on a kernel with a defect
  the point is about (`Decided`).  The step in between is `mremap` itself: for each
  shape and each result a kernel may give, `Outcome` shows that the result is
  not the expected one or leaves a memory in which `Decided` holds.
* `SocketsProofs`: `ServerReceivesAll`, `ClientKilledByFailure`, for every number of
  messages and retries and every set of failing calls.  When recv returns 0 the client
  has closed after all its turns (`ClosedAfterAll`) and no reset has swallowed a message
  (`NoEarlyReset`), so that everything sent was received (`EndOfStream`); and all
  `SEND_COUNT` messages were sent unless a send failed.

Model-checked only:

* liveness (`HangExplained`, `Terminates`, `AllEnd`, `Completes`, `BothEnd`,
  `EndsWithResult`, `NoneLeft`), which is out of the provers' reach;
* `NoFalseFailure`, `RacesNamed` and `X86SkipList` of the ptrace test points.  They speak
  of the 21 functions of this suite and the values they compare, not of a constant; TLC
  goes through all of their behaviours;
* `NoFalseFailure`, `DefectReported` and `OkMeansReaped` of `ProcSession`, for the same
  reason: what the checks of 56 programs compare, and they have nothing in common but the
  kernel they run on.

tlapm's SMT backend takes every function for a sequence once `Len` or `<<>>` occurs in
an obligation, from which with a function of another domain anything follows.  The
obligations with sequences that it proves were solved again with only the half of the
axiom that is true (a function with domain `1..n` has length `n`); all of them hold.

## What the checks found

The four violation runs are described in PROJECT.json with the line each
contradicts.  Seen while modelling, and not given a run: mmap's MAP_FAILED
passes the check for NULL in ptrace 001 to 020; `usleep(1000)` of ptrace 008 does
not order the parent after the child's `feraiseexcept`; NG_item_list.txt expects
mremap_mmap_anon 14 to 16 to end by SIGSEGV, but their handler calls `exit(0)`; the
same list (lines 104 to 108) expects the socket server to print messages 0 to 9 one by
one, but a `recv` that returns several prints one line;
waitid 000, wait4 000 and 003 and setpgid 004 return NULL when fork fails; a failed
`sched_setaffinity` of sched_setaffinity 010 signals a group that does not exist and
leaves both children spinning; in kill 002 a failed fork can put the parent
into the group it signals; setpgid 004 fails when its child ends between
`setpgid` and `waitpid`; the child of vfork 000 and 002 returns from `RUN_FUNC` when
`execve` fails, into a frame its suspended parent still uses (not modelled); the last wait of ptrace 015 may
collect the grandchild; ptrace 016 may stop in the restarted futex call; the
mmap of mmap_dev logs the error of `remap_pfn_range` and returns 0.

In the process test points: `pause` 000 and rt_sigsuspend 000 hang when the alarm goes
off before they wait; in msync 001 an assertion of the thread never sets the status
its parent spins on, and tls 000 and 001 join a thread without having looked whether it
was created (run_testset_x86.sh marks msync 1 and tls 1 as HANG); the threads of tls 001
increment at the same time, so that a lost update may hide a shared variable; procfs
002 fills a buffer after only reporting that `calloc` failed; the mappings of
sched_yield 000 and getrusage 000 and 002 are compared with NULL, not MAP_FAILED;
fpregs 005 compares an unsigned CPU number with a negative one.  Outside the models:
siginfo 001 waits for a set with SIGPWR, which siginfo_send_signal never sends;
rt_sigaction 000 to 003 return NULL when the handler never ran; check/default.sh looks
for a digit where test_mck prints "RESULT: ok"; check/page_fault.sh, which
extestcase_autotest.awk names, does not exist.

## Not modelled

* Test points that make one call, or map one area and use it, in one thread and compare
  the result: user and group ids, resource limits, clocks, `sched_get_priority_*`,
  `mlock`, `mmap_file`, `mprotect`, `mincore`, `madvise`, `remap_file_pages`, most of the
  signal calls, ...  There is no order of events to get wrong: a model would be the
  table of expected results again.
* Timers and usage: elapsed times and their bounds.
* The limits of memory and stack, which depend on the size of the machine.
* `popen` and `system`, whose processes are the C library's, and what siginfo 001 and
  force_exit do together with a person or a script that signals them.
* Inline assembly, register contents, formats of /proc files, core dumps.
* Option parsing of the test points and `find_test_case`; the sizes and counts they
  yield are constants or choices here.
* The stand-alone programs other than lv07's threads and socket_TP: each runs in one
  thread and prints what it sees.
* The lists of command lines in `util` and the scripts that process logs line by line.
