----------------------------- MODULE DriverTests -----------------------------
(***************************************************************************)
(* The test driver in use: TestDrv's scripts load and unload test_mck.ko   *)
(* while one process, tester, runs the mmap_dev test points of MmapDev on  *)
(* its devices and the other ones hold a device open, as force_exit does   *)
(* in the background.  mmap_dev2's buffer lives as long as the load.       *)
(***************************************************************************)
EXTENDS TestDrv

CONSTANTS tester, BufPages, MaxPages, Defects, Runs

ASSUME DriverTestsAssumption ==
    /\ tester \in Procs
    /\ test_mck_nr_devs = 2
    /\ BufPages \in Nat \ {0} /\ MaxPages \in Nat \ {0} /\ Runs \in Nat

VARIABLES defect, runs, buf, t, pages, pc, page, data, empty, verdict

\* test_suite.list: the devices in the order of their numbers.
mmap_dev == 0
mmap_dev2 == 1
Reachable(d) == d \in nodes /\ d \in cdev

Tests == INSTANCE MmapDev WITH
    i <- page,
    present <- {n \in {"mmap_dev", "mmap_dev2"} :
                  Reachable(IF n = "mmap_dev" THEN mmap_dev ELSE mmap_dev2)}

drvvars == <<script, step, i, mod, setup, nodes, classfail, twice>>
testvars == <<defect, runs, buf, t, pages, pc, page, data, empty, verdict>>
dvars == <<vars, testvars>>

DInit == Init /\ Tests!Init

\* A step of the scripts; dev->init of mmap_dev2 allocates the buffer and fills it.
DriverStep ==
    /\ Scripts
    /\ buf' = IF mmap_dev2 \in inited' \ inited THEN Tests!test_mck_mmap_dev2_buffer_reset ELSE buf
    /\ UNCHANGED <<defect, runs, t, pages, pc, page, data, empty, verdict>>

\* A step of the test: it has the device open from its open to its end, which closes
\* the descriptor and the mapping with the process.
TestStep ==
    /\ Tests!Next
    /\ file' = [file EXCEPT ![tester] =
                  IF pc' = "idle" THEN Closed
                  ELSE IF pc = "open" THEN (IF t = 0 THEN mmap_dev ELSE mmap_dev2) ELSE @]
    /\ UNCHANGED drvvars

HolderStep ==
    /\ \E p \in Procs \ {tester} : Close(p) \/ \E d \in Devs : Open(p, d)
    /\ UNCHANGED testvars

DNext == DriverStep \/ TestStep \/ HolderStep

DSpec == DInit /\ [][DNext]_dvars
-----------------------------------------------------------------------------
\* What the driver was shown to be by itself it is in this composition: every step
\* of the tests is one that TestDrv allows its processes.
DriverKept == Spec

\* As MmapDev's property, with loads, unloads and reloads between the tests: on a
\* correct kernel nothing an earlier test or an earlier load has left makes a test
\* fail in which no call fails.
Independent == Tests!Independent

\* As MmapDev's property: a kernel defect in a mapping is reported whatever is left in
\* the buffer and however often the driver was loaded.
DefectReported == Tests!DefectReported

\* While a test works on mmap_dev2 its buffer is not freed: rmmod, run at any moment,
\* finds the device in use.
BufferLive == [][pc \notin {"idle", "open"} /\ t # 0 => mmap_dev2 \in inited']_dvars
==============================================================================
