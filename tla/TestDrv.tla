------------------------------- MODULE TestDrv -------------------------------
(***************************************************************************)
(* The test driver test_mck.ko: test_mck_setup and test_mck_cleanup, the   *)
(* scripts insmod_test_drv.sh and rmmod_test_drv.sh that load it, make and *)
(* remove its device files, and test processes that hold a device open     *)
(* (run_testset_x86.sh starts force_exit on one in the background and then *)
(* runs the rmmod script).                                                 *)
(*                                                                         *)
(* Each kernel call of test_mck_setup is a step, and the calls named in    *)
(* Faulty may fail.  The kernel's side is external: a module is loaded iff *)
(* its init function returns 0, its static data goes with it, and it is    *)
(* not unloaded while one of its devices is open.                          *)
(***************************************************************************)
EXTENDS Integers

CONSTANTS
    test_mck_nr_devs,   \* the devices of test_suite.list
    Procs,              \* test processes
    Faulty              \* calls that may fail

Devs == 0 .. test_mck_nr_devs - 1
proc_ents == {"devno", "tp_names"}
Closed == -1

ASSUME DrvAssumption == test_mck_nr_devs \in Nat \ {0}

VARIABLES
    script,     \* "idle", "insmod", "mknod" (insmod returned), "rmmod" (files removed)
    step,       \* while insmod runs: the call test_mck_setup makes next
    i,          \* its loop counter
    mod,        \* "unloaded", "setup", "loaded"
    region,     \* 1: the range of device numbers is allocated
    class,      \* dev->class: "null", "live", "freed" (a pointer to a class destroyed)
    cdev,       \* the devices added by cdev_add
    device,     \* the devices made by device_create
    inited,     \* the devices whose init has allocated what it needs
    procdir,    \* 1: /proc/test_mck is there
    pent,       \* the proc entries
    nodes,      \* the device files in /dev/test_mck
    file,       \* file[p]: the device p has open
    classfail,  \* 1: class_create has failed since the module was last unloaded (history)
    twice       \* 1: a class has been destroyed twice (history)

setup == <<region, class, cdev, device, inited, procdir, pent>>
vars == <<script, step, i, mod, setup, nodes, file, classfail, twice>>

Init ==
    /\ script = "idle" /\ step = "none" /\ i = 0 /\ mod = "unloaded"
    /\ region = 0
    /\ class = [d \in Devs |-> "null"]
    /\ cdev = {} /\ device = {} /\ inited = {}
    /\ procdir = 0 /\ pent = {}
    /\ nodes = {}
    /\ file = [p \in Procs |-> Closed]
    /\ classfail = 0
    /\ twice = 0
-----------------------------------------------------------------------------
\* insmod: the kernel calls test_mck_setup, or answers that the module is
\* loaded already.
Insmod ==
    /\ script = "idle"
    /\ IF mod = "unloaded"
       THEN script' = "insmod" /\ mod' = "setup" /\ step' = "alloc_chrdev_region" /\ i' = 0
       ELSE script' = "mknod" /\ UNCHANGED <<mod, step, i>>
    /\ UNCHANGED <<setup, nodes, file, classfail, twice>>

Fails(call) == call \in Faulty

cleanup_only_completed ==
    /\ procdir' = 0 /\ pent' = {}
    /\ inited' = inited \ 0 .. i - 1 /\ cdev' = cdev \ 0 .. i - 1 /\ device' = device \ 0 .. i - 1
    /\ region' = 0

\* procfs first, then every device of the list, set up or not, then the region.
test_mck_cleanup ==
    /\ procdir' = 0 /\ pent' = {}
    /\ inited' = {} /\ cdev' = {} /\ device' = {}
    /\ region' = 0

\* class_destroy in test_mck_cleanup lets NULL pass and leaves dev->class as it
\* is; the pointer goes with the module, when that is unloaded afterwards.
destroy_classes(m) ==
    /\ class' = [d \in Devs |-> IF class[d] = "null" \/ m = "unloaded" THEN "null" ELSE "freed"]
    /\ twice' = IF \E d \in Devs : class[d] = "freed" THEN 1 ELSE twice

\* goto fail with res = r.
fail(r) ==
    /\ test_mck_cleanup
    /\ mod' = IF r = 0 THEN "loaded" ELSE "unloaded"
    /\ destroy_classes(mod')
    /\ script' = "mknod" /\ step' = "none" /\ i' = 0

Goto(s) == step' = s /\ UNCHANGED <<script, mod, twice>>

alloc_chrdev_region ==
    /\ step = "alloc_chrdev_region"
    /\ \/ region' = 1 /\ Goto("class_create") /\ UNCHANGED <<i, class, cdev, device, inited, procdir, pent>>
       \/ Fails("alloc_chrdev_region") /\ fail(-1)
    /\ UNCHANGED <<nodes, file, classfail>>

\* The error branch does not set res: it still holds the 0 of the last call.
class_create ==
    /\ step = "class_create"
    /\ \/ /\ class' = [class EXCEPT ![i] = "live"] /\ Goto("cdev_add")
          /\ UNCHANGED <<i, region, cdev, device, inited, procdir, pent, classfail>>
       \/ Fails("class_create") /\ fail(0) /\ classfail' = 1
    /\ UNCHANGED <<nodes, file>>

cdev_add ==
    /\ step = "cdev_add"
    /\ \/ cdev' = cdev \cup {i} /\ Goto("device_create") /\ UNCHANGED <<i, region, class, device, inited, procdir, pent>>
       \/ Fails("cdev_add") /\ fail(-1)
    /\ UNCHANGED <<nodes, file, classfail>>

\* The value of device_create is not looked at.
device_create ==
    /\ step = "device_create"
    /\ device' \in {device \cup {i}} \cup (IF Fails("device_create") THEN {device} ELSE {})
    /\ Goto("init")
    /\ UNCHANGED <<i, region, class, cdev, inited, procdir, pent, nodes, file, classfail>>

dev_init_unchecked ==
    /\ step = "init"
    /\ inited' \in {inited \cup {i}} \cup (IF Fails("init") THEN {inited} ELSE {})
    /\ IF i + 1 < test_mck_nr_devs
       THEN i' = i + 1 /\ Goto("class_create")
       ELSE i' = 0 /\ Goto("proc_mkdir")
    /\ UNCHANGED <<region, class, cdev, device, procdir, pent, nodes, file, classfail>>

\* dev->init: mmap_dev2 allocates and fills its buffer.
dev_init ==
    /\ step = "init"
    /\ \/ /\ inited' = inited \cup {i}
          /\ IF i + 1 < test_mck_nr_devs
             THEN i' = i + 1 /\ Goto("class_create")
             ELSE i' = 0 /\ Goto("proc_mkdir")
          /\ UNCHANGED <<region, class, cdev, device, procdir, pent>>
       \/ Fails("init") /\ fail(-1)
    /\ UNCHANGED <<nodes, file, classfail>>

proc_mkdir_no_error ==
    /\ step = "proc_mkdir"
    /\ \/ procdir' = 1 /\ Goto("proc_create_data") /\ UNCHANGED <<i, region, class, cdev, device, inited, pent>>
       \/ Fails("proc_mkdir") /\ fail(0)
    /\ UNCHANGED <<nodes, file, classfail>>

\* The directory /proc/test_mck.
proc_mkdir ==
    /\ step = "proc_mkdir"
    /\ \/ procdir' = 1 /\ Goto("proc_create_data") /\ UNCHANGED <<i, region, class, cdev, device, inited, pent>>
       \/ Fails("proc_mkdir") /\ fail(-1)
    /\ UNCHANGED <<nodes, file, classfail>>

\* The loop of test_mck_init_procfs; after the last entry insmod returns 0.
proc_create_data ==
    /\ step = "proc_create_data"
    /\ \/ /\ pent' = pent \cup {IF i = 0 THEN "devno" ELSE "tp_names"}
          /\ IF i = 0
             THEN i' = 1 /\ UNCHANGED <<script, step, mod>>
             ELSE i' = 0 /\ script' = "mknod" /\ step' = "none" /\ mod' = "loaded"
          /\ UNCHANGED <<region, class, cdev, device, inited, procdir, twice>>
       \/ Fails("proc_create_data") /\ fail(-1)
    /\ UNCHANGED <<nodes, file, classfail>>

\* The rest of insmod_test_drv.sh: one file for each entry of /proc/test_mck/devno.
Mknod ==
    /\ script = "mknod"
    /\ nodes' = IF "devno" \in pent THEN nodes \cup Devs ELSE nodes
    /\ script' = "idle"
    /\ UNCHANGED <<step, i, mod, setup, file, classfail, twice>>
-----------------------------------------------------------------------------
\* rmmod_test_drv.sh removes the device files ...
RemoveNodes ==
    /\ script = "idle"
    /\ nodes' = {}
    /\ script' = "rmmod"
    /\ UNCHANGED <<step, i, mod, setup, file, classfail, twice>>

Rmmod_in_use ==
    /\ script = "rmmod"
    /\ script' = "idle"
    /\ IF mod = "loaded"
       THEN test_mck_cleanup /\ destroy_classes("unloaded") /\ mod' = "unloaded" /\ classfail' = 0
       ELSE UNCHANGED <<setup, mod, classfail, twice>>
    /\ UNCHANGED <<step, i, nodes, file>>

\* ... and then the module, if it is loaded and not in use (test_mck_exit).
Rmmod ==
    /\ script = "rmmod"
    /\ script' = "idle"
    /\ IF mod = "loaded" /\ \A p \in Procs : file[p] = Closed
       THEN test_mck_cleanup /\ destroy_classes("unloaded") /\ mod' = "unloaded" /\ classfail' = 0
       ELSE UNCHANGED <<setup, mod, classfail, twice>>
    /\ UNCHANGED <<step, i, nodes, file>>

\* A test process opens a device file; without a cdev it gets ENXIO.
Open(p, d) ==
    /\ file[p] = Closed
    /\ d \in nodes /\ d \in cdev
    /\ file' = [file EXCEPT ![p] = d]
    /\ UNCHANGED <<script, step, i, mod, setup, nodes, classfail, twice>>

Close(p) ==
    /\ file[p] # Closed
    /\ file' = [file EXCEPT ![p] = Closed]
    /\ UNCHANGED <<script, step, i, mod, setup, nodes, classfail, twice>>

Setup == \/ alloc_chrdev_region \/ class_create \/ cdev_add \/ device_create
         \/ dev_init \/ proc_mkdir \/ proc_create_data
Scripts == Insmod \/ Setup \/ Mknod \/ RemoveNodes \/ Rmmod
Next == Scripts \/ \E p \in Procs : Close(p) \/ \E d \in Devs : Open(p, d)

Spec == Init /\ [][Next]_vars
-----------------------------------------------------------------------------
\* The variables have their types: no loop of test_mck_setup leaves the device list.
TypeOK ==
    /\ script \in {"idle", "insmod", "mknod", "rmmod"}
    /\ step \in {"none", "alloc_chrdev_region", "class_create", "cdev_add", "device_create",
                 "init", "proc_mkdir", "proc_create_data"}
    /\ i \in Nat
    /\ mod \in {"unloaded", "setup", "loaded"}
    /\ region \in {0, 1} /\ procdir \in {0, 1}
    /\ class \in [Devs -> {"null", "live", "freed"}]
    /\ cdev \subseteq Devs /\ device \subseteq Devs /\ inited \subseteq Devs
    /\ pent \subseteq proc_ents
    /\ nodes \subseteq Devs
    /\ file \in [Procs -> Devs \cup {Closed}]
    /\ classfail \in {0, 1} /\ twice \in {0, 1}

Nothing == /\ region = 0 /\ procdir = 0 /\ pent = {}
           /\ cdev = {} /\ device = {} /\ inited = {}
Everything == /\ region = 1 /\ procdir = 1 /\ pent = proc_ents
              /\ cdev = Devs /\ inited = Devs
              /\ \A d \in Devs : class[d] = "live"

\* Whichever call of test_mck_setup fails, and after any number of loads and
\* unloads, an unloaded driver has left nothing registered or allocated.
CleanSlate == mod = "unloaded" => Nothing

\* A device that a process has open is registered and its init has run: no
\* file operation meets a driver that is half set up or half torn down.
OpenIsServed == \A p \in Procs : file[p] # Closed => mod = "loaded" /\ file[p] \in cdev \cap inited

\* Once the scripts are done, every device file leads to a registered device.
NodesServed == script = "idle" => nodes \subseteq cdev

\* A class is destroyed twice only in the wake of a failed class_create.
ReleasedOnce == [][twice' = twice \/ classfail = 1]_vars

\* "error create class(%s)": a setup that has met an error is not a loaded
\* driver; a loaded driver has all its devices and proc entries.
LoadedMeansReady == mod = "loaded" => Everything
=============================================================================
