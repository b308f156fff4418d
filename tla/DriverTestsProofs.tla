-------------------------- MODULE DriverTestsProofs --------------------------
(***************************************************************************)
(* Proofs about TestDrv and DriverTests.  First TestDrv alone, for the two *)
(* devices of the list, every set of test processes and every set of       *)
(* failing calls.  Then the driver with the tests that use it: the         *)
(* composition implements TestDrv, so that TestDrv's theorems hold of it.  *)
(* From one of them follows that rmmod never takes the buffer away from a  *)
(* test, and that the tests can rely on what they have put there.          *)
(***************************************************************************)
EXTENDS DriverTests, TLAPS

(* TestDrv: the scripts, the driver and processes that open its devices.   *)

\* Where test_mck_setup is tells what it has made so far.
Progress ==
    /\ step = "none" <=> script # "insmod"
    /\ mod = "setup" <=> script = "insmod"
    /\ step = "alloc_chrdev_region" => i = 0 /\ cdev = {} /\ inited = {}
    /\ step \in {"class_create", "cdev_add", "device_create", "init"} => i \in Devs
    /\ step \in {"class_create", "cdev_add", "device_create", "init"} => inited = 0 .. i - 1
    /\ step \in {"class_create", "cdev_add"} => cdev = 0 .. i - 1
    /\ step \in {"device_create", "init"} => cdev = 0 .. i
    /\ step \in {"proc_mkdir", "proc_create_data"} => cdev = Devs /\ inited = Devs /\ i \in {0, 1}

\* Device files and open files exist only while a complete driver is loaded.
InUse ==
    /\ nodes # {} => mod = "loaded" /\ cdev = Devs /\ inited = Devs
    /\ \A p \in Procs : file[p] # Closed => mod = "loaded" /\ cdev = Devs /\ inited = Devs
    /\ script = "rmmod" => nodes = {}
    /\ mod = "loaded" /\ pent # {} => cdev = Devs /\ inited = Devs

Clean == mod = "unloaded" => Nothing

IInv == TypeOK /\ Progress /\ InUse /\ Clean

LEMMA InitIInv == Init => IInv
  BY DrvAssumption DEF Init, IInv, TypeOK, Progress, InUse, Clean, Nothing, Devs, Closed, proc_ents

\* What goto fail leaves behind, whichever call failed.
Failed ==
    /\ region' = 0 /\ procdir' = 0 /\ pent' = {}
    /\ cdev' = {} /\ device' = {} /\ inited' = {}
    /\ class' \in [Devs -> {"null", "freed"}]
    /\ mod' \in {"loaded", "unloaded"}
    /\ script' = "mknod" /\ step' = "none" /\ i' = 0
    /\ twice' \in {1, twice}

LEMMA FailFails == fail(-1) \/ fail(0) => Failed
<1> SUFFICES ASSUME NEW r \in {-1, 0}, fail(r) PROVE Failed
  OBVIOUS
<1>1. region' = 0 /\ procdir' = 0 /\ pent' = {} /\ cdev' = {} /\ device' = {} /\ inited' = {}
  BY DEF fail, test_mck_cleanup
<1>2. mod' \in {"loaded", "unloaded"}
  BY DEF fail
<1>3. class' \in [Devs -> {"null", "freed"}]
  BY DEF fail, destroy_classes
<1>4. twice' \in {1, twice}
  BY DEF fail, destroy_classes
<1> QED
  BY <1>1, <1>2, <1>3, <1>4 DEF fail, Failed

LEMMA TypeStep == IInv /\ [Next]_vars => TypeOK'
<1> SUFFICES ASSUME IInv, [Next]_vars PROVE TypeOK'
  OBVIOUS
<1> USE DrvAssumption DEF IInv, TypeOK, Progress, Devs, Closed, proc_ents, Goto
<1>1. CASE Insmod
  BY <1>1 DEF Insmod, setup
<1>2. CASE alloc_chrdev_region
  <2>1. CASE fail(-1)
    <3>1. Failed
      BY <2>1, FailFails
    <3> QED
      BY <1>2, <3>1 DEF alloc_chrdev_region, Failed
  <2>2. CASE ~fail(-1)
    BY <1>2, <2>2 DEF alloc_chrdev_region
  <2> QED
    BY <2>1, <2>2
<1>3. CASE class_create
  <2>1. CASE fail(0)
    <3>1. Failed
      BY <2>1, FailFails
    <3> QED
      BY <1>3, <3>1 DEF class_create, Failed
  <2>2. CASE ~fail(0)
    BY <1>3, <2>2 DEF class_create
  <2> QED
    BY <2>1, <2>2
<1>4. CASE cdev_add
  <2>1. CASE fail(-1)
    <3>1. Failed
      BY <2>1, FailFails
    <3> QED
      BY <1>4, <3>1 DEF cdev_add, Failed
  <2>2. CASE ~fail(-1)
    BY <1>4, <2>2 DEF cdev_add
  <2> QED
    BY <2>1, <2>2
<1>5. CASE device_create
  BY <1>5 DEF device_create
<1>6. CASE dev_init
  <2>1. CASE fail(-1)
    <3>1. Failed
      BY <2>1, FailFails
    <3> QED
      BY <1>6, <3>1 DEF dev_init, Failed
  <2>2. CASE ~fail(-1)
    <3>1. /\ inited' = inited \cup {i}
          /\ UNCHANGED <<region, class, cdev, device, procdir, pent, nodes, file, classfail, script, mod, twice>>
          /\ step = "init"
      BY <1>6, <2>2 DEF dev_init
    <3>2. i' \in Nat /\ step' \in {"class_create", "proc_mkdir"}
      BY <1>6, <2>2 DEF dev_init
    <3> QED
      BY <3>1, <3>2
  <2> QED
    BY <2>1, <2>2
<1>7. CASE proc_mkdir
  <2>1. CASE fail(-1)
    <3>1. Failed
      BY <2>1, FailFails
    <3> QED
      BY <1>7, <3>1 DEF proc_mkdir, Failed
  <2>2. CASE ~fail(-1)
    BY <1>7, <2>2 DEF proc_mkdir
  <2> QED
    BY <2>1, <2>2
<1>8. CASE proc_create_data
  <2>1. CASE fail(-1)
    <3>1. Failed
      BY <2>1, FailFails
    <3> QED
      BY <1>8, <3>1 DEF proc_create_data, Failed
  <2>2. CASE ~fail(-1)
    <3>1. UNCHANGED <<region, class, cdev, device, inited, procdir, twice, nodes, file, classfail>>
      BY <1>8, <2>2 DEF proc_create_data
    <3>2. pent' \subseteq proc_ents
      BY <1>8, <2>2 DEF proc_create_data
    <3>3. /\ i' \in {0, 1} /\ script' \in {script, "mknod"}
          /\ step' \in {step, "none"} /\ mod' \in {mod, "loaded"}
      BY <1>8, <2>2 DEF proc_create_data
    <3> QED
      BY <3>1, <3>2, <3>3
  <2> QED
    BY <2>1, <2>2
<1>9. CASE Mknod
  BY <1>9 DEF Mknod, setup
<1>10. CASE RemoveNodes
  BY <1>10 DEF RemoveNodes, setup
<1>11. CASE Rmmod
  <2>1. CASE mod = "loaded" /\ \A p \in Procs : file[p] = Closed
    <3>1. class' \in [Devs -> {"null", "freed"}] /\ twice' \in {1, twice}
      BY <1>11, <2>1 DEF Rmmod, destroy_classes
    <3> QED
      BY <1>11, <2>1, <3>1 DEF Rmmod, test_mck_cleanup
  <2>2. CASE ~(mod = "loaded" /\ \A p \in Procs : file[p] = Closed)
    BY <1>11, <2>2 DEF Rmmod, setup
  <2> QED
    BY <2>1, <2>2
<1>12. CASE \E p \in Procs : Close(p) \/ \E d \in Devs : Open(p, d)
  <2>1. CASE \E p \in Procs : Close(p)
    BY <2>1 DEF Close, setup
  <2>2. CASE \E p \in Procs : \E d \in Devs : Open(p, d)
    BY <2>2 DEF Open, setup
  <2> QED
    BY <1>12, <2>1, <2>2
<1>13. CASE UNCHANGED vars
  BY <1>13 DEF vars, setup
<1> QED
  BY <1>1, <1>2, <1>3, <1>4, <1>5, <1>6, <1>7, <1>8, <1>9, <1>10, <1>11, <1>12, <1>13 DEF Next, Scripts, Setup

LEMMA ProgressStep == IInv /\ [Next]_vars => Progress'
<1> SUFFICES ASSUME IInv, [Next]_vars PROVE Progress'
  OBVIOUS
<1>t. TypeOK'
  BY TypeStep
<1> USE DrvAssumption DEF IInv, Progress
<1>1. CASE Insmod
  BY <1>1 DEF Insmod, setup, Clean, Nothing
<1>2. CASE alloc_chrdev_region
  <2>1. CASE fail(-1)
    <3>1. Failed
      BY <2>1, FailFails
    <3> QED
      BY <1>2, <3>1 DEF alloc_chrdev_region, Failed
  <2>2. CASE ~fail(-1)
    <3>1. 0 \in Devs /\ 0 .. 0 - 1 = {}
      BY DEF Devs
    <3> QED
      BY <1>2, <2>2, <3>1 DEF alloc_chrdev_region, Goto
  <2> QED
    BY <2>1, <2>2
<1>3. CASE class_create
  <2>1. CASE fail(0)
    <3>1. Failed
      BY <2>1, FailFails
    <3> QED
      BY <1>3, <3>1 DEF class_create, Failed
  <2>2. CASE ~fail(0)
    BY <1>3, <2>2, <1>t DEF class_create, Goto, TypeOK, Devs
  <2> QED
    BY <2>1, <2>2
<1>4. CASE cdev_add
  <2>1. CASE fail(-1)
    <3>1. Failed
      BY <2>1, FailFails
    <3> QED
      BY <1>4, <3>1 DEF cdev_add, Failed
  <2>2. CASE ~fail(-1)
    <3>1. 0 .. i = (0 .. i - 1) \cup {i}
      BY <1>4 DEF cdev_add, Devs
    <3> QED
      BY <1>4, <2>2, <3>1 DEF cdev_add, Goto
  <2> QED
    BY <2>1, <2>2
<1>5. CASE device_create
  BY <1>5, <1>t DEF device_create, Goto, TypeOK, Devs
<1>6. CASE dev_init
  <2>1. CASE fail(-1)
    <3>1. Failed
      BY <2>1, FailFails
    <3> QED
      BY <1>6, <3>1 DEF dev_init, Failed
  <2>2. CASE ~fail(-1)
    <3>1. 0 .. i = (0 .. i - 1) \cup {i} /\ (i + 1) - 1 = i
      BY <1>6 DEF dev_init, Devs
    <3>2. inited' = 0 .. i /\ cdev' = 0 .. i
      BY <1>6, <2>2, <3>1 DEF dev_init
    <3>3. CASE i + 1 < test_mck_nr_devs
      <4>1. i' = i + 1 /\ step' = "class_create" /\ UNCHANGED <<script, mod>>
        BY <1>6, <2>2, <3>3 DEF dev_init, Goto
      <4>2. i + 1 \in Devs
        BY <1>6, <3>3 DEF dev_init, Devs
      <4> QED
        BY <1>6, <3>1, <3>2, <4>1, <4>2 DEF dev_init
    <3>4. CASE ~(i + 1 < test_mck_nr_devs)
      <4>1. i' = 0 /\ step' = "proc_mkdir" /\ UNCHANGED <<script, mod>>
        BY <1>6, <2>2, <3>4 DEF dev_init, Goto
      <4>2. Devs = 0 .. i
        BY <1>6, <3>4 DEF dev_init, Devs
      <4> QED
        BY <1>6, <3>2, <4>1, <4>2 DEF dev_init
    <3> QED
      BY <3>3, <3>4
  <2> QED
    BY <2>1, <2>2
<1>7. CASE proc_mkdir
  <2>1. CASE fail(-1)
    <3>1. Failed
      BY <2>1, FailFails
    <3> QED
      BY <1>7, <3>1 DEF proc_mkdir, Failed
  <2>2. CASE ~fail(-1)
    BY <1>7, <2>2, <1>t DEF proc_mkdir, Goto, TypeOK, Devs
  <2> QED
    BY <2>1, <2>2
<1>8. CASE proc_create_data
  <2>1. CASE fail(-1)
    <3>1. Failed
      BY <2>1, FailFails
    <3> QED
      BY <1>8, <3>1 DEF proc_create_data, Failed
  <2>2. CASE ~fail(-1)
    BY <1>8, <2>2, <1>t DEF proc_create_data, Goto, TypeOK, Devs
  <2> QED
    BY <2>1, <2>2
<1>9. CASE Mknod
  BY <1>9 DEF Mknod, setup
<1>10. CASE RemoveNodes
  BY <1>10 DEF RemoveNodes, setup
<1>11. CASE Rmmod
  <2>1. CASE mod = "loaded" /\ \A p \in Procs : file[p] = Closed
    BY <1>11, <2>1 DEF Rmmod, test_mck_cleanup
  <2>2. CASE ~(mod = "loaded" /\ \A p \in Procs : file[p] = Closed)
    BY <1>11, <2>2 DEF Rmmod, setup
  <2> QED
    BY <2>1, <2>2
<1>12. CASE \E p \in Procs : Close(p) \/ \E d \in Devs : Open(p, d)
  <2>1. CASE \E p \in Procs : Close(p)
    BY <2>1 DEF Close, setup
  <2>2. CASE \E p \in Procs : \E d \in Devs : Open(p, d)
    BY <2>2 DEF Open, setup
  <2> QED
    BY <1>12, <2>1, <2>2
<1>13. CASE UNCHANGED vars
  BY <1>13 DEF vars, setup
<1> QED
  BY <1>1, <1>2, <1>3, <1>4, <1>5, <1>6, <1>7, <1>8, <1>9, <1>10, <1>11, <1>12, <1>13 DEF Next, Scripts, Setup

LEMMA InUseStep == IInv /\ [Next]_vars => InUse'
<1> SUFFICES ASSUME IInv, [Next]_vars PROVE InUse'
  OBVIOUS
<1>t. TypeOK'
  BY TypeStep
<1> USE DrvAssumption DEF IInv, Progress, InUse, Clean, Nothing
<1>1. CASE Insmod
  BY <1>1 DEF Insmod, setup
<1>2. CASE alloc_chrdev_region
  <2>1. CASE fail(-1)
    <3>1. Failed
      BY <2>1, FailFails
    <3> QED
      BY <1>2, <3>1 DEF alloc_chrdev_region, Failed
  <2>2. CASE ~fail(-1)
    BY <1>2, <2>2, <1>t DEF alloc_chrdev_region, Goto, TypeOK, Devs
  <2> QED
    BY <2>1, <2>2
<1>3. CASE class_create
  <2>1. CASE fail(0)
    <3>1. Failed
      BY <2>1, FailFails
    <3> QED
      BY <1>3, <3>1 DEF class_create, Failed
  <2>2. CASE ~fail(0)
    BY <1>3, <2>2, <1>t DEF class_create, Goto, TypeOK, Devs
  <2> QED
    BY <2>1, <2>2
<1>4. CASE cdev_add
  <2>1. CASE fail(-1)
    <3>1. Failed
      BY <2>1, FailFails
    <3> QED
      BY <1>4, <3>1 DEF cdev_add, Failed
  <2>2. CASE ~fail(-1)
    BY <1>4, <2>2, <1>t DEF cdev_add, Goto, TypeOK, Devs
  <2> QED
    BY <2>1, <2>2
<1>5. CASE device_create
  BY <1>5, <1>t DEF device_create, Goto, TypeOK, Devs
<1>6. CASE dev_init
  <2>1. CASE fail(-1)
    <3>1. Failed
      BY <2>1, FailFails
    <3> QED
      BY <1>6, <3>1 DEF dev_init, Failed
  <2>2. CASE ~fail(-1)
    BY <1>6, <2>2, <1>t DEF dev_init, Goto, TypeOK, Devs
  <2> QED
    BY <2>1, <2>2
<1>7. CASE proc_mkdir
  <2>1. CASE fail(-1)
    <3>1. Failed
      BY <2>1, FailFails
    <3> QED
      BY <1>7, <3>1 DEF proc_mkdir, Failed
  <2>2. CASE ~fail(-1)
    BY <1>7, <2>2, <1>t DEF proc_mkdir, Goto, TypeOK, Devs
  <2> QED
    BY <2>1, <2>2
<1>8. CASE proc_create_data
  <2>1. CASE fail(-1)
    <3>1. Failed
      BY <2>1, FailFails
    <3> QED
      BY <1>8, <3>1 DEF proc_create_data, Failed
  <2>2. CASE ~fail(-1)
    BY <1>8, <2>2, <1>t DEF proc_create_data, Goto, TypeOK, Devs
  <2> QED
    BY <2>1, <2>2
<1>9. CASE Mknod
  <2>1. UNCHANGED <<mod, cdev, inited, pent, file>> /\ script' = "idle"
    BY <1>9 DEF Mknod, setup
  <2>2. "devno" \in pent => mod = "loaded"
    BY <1>9 DEF Mknod, TypeOK
  <2>3. nodes' # {} => nodes # {} \/ "devno" \in pent
    BY <1>9 DEF Mknod
  <2> QED
    BY <2>1, <2>2, <2>3
<1>10. CASE RemoveNodes
  BY <1>10 DEF RemoveNodes, setup
<1>11. CASE Rmmod
  <2>1. CASE mod = "loaded" /\ \A p \in Procs : file[p] = Closed
    BY <1>11, <2>1 DEF Rmmod, test_mck_cleanup
  <2>2. CASE ~(mod = "loaded" /\ \A p \in Procs : file[p] = Closed)
    BY <1>11, <2>2 DEF Rmmod, setup
  <2> QED
    BY <2>1, <2>2
<1>12. CASE \E p \in Procs : Close(p) \/ \E d \in Devs : Open(p, d)
  <2>1. CASE \E p \in Procs : Close(p)
    BY <2>1 DEF Close, setup
  <2>2. CASE \E p \in Procs : \E d \in Devs : Open(p, d)
    BY <2>2 DEF Open, setup
  <2> QED
    BY <1>12, <2>1, <2>2
<1>13. CASE UNCHANGED vars
  BY <1>13 DEF vars, setup
<1> QED
  BY <1>1, <1>2, <1>3, <1>4, <1>5, <1>6, <1>7, <1>8, <1>9, <1>10, <1>11, <1>12, <1>13 DEF Next, Scripts, Setup

LEMMA CleanStep == IInv /\ [Next]_vars => Clean'
<1> SUFFICES ASSUME IInv, [Next]_vars PROVE Clean'
  OBVIOUS
<1>t. TypeOK'
  BY TypeStep
<1> USE DrvAssumption DEF IInv, Progress, InUse, Clean, Nothing
<1>1. CASE Insmod
  BY <1>1 DEF Insmod, setup
<1>2. CASE alloc_chrdev_region
  <2>1. CASE fail(-1)
    <3>1. Failed
      BY <2>1, FailFails
    <3> QED
      BY <1>2, <3>1 DEF alloc_chrdev_region, Failed
  <2>2. CASE ~fail(-1)
    BY <1>2, <2>2, <1>t DEF alloc_chrdev_region, Goto, TypeOK, Devs
  <2> QED
    BY <2>1, <2>2
<1>3. CASE class_create
  <2>1. CASE fail(0)
    <3>1. Failed
      BY <2>1, FailFails
    <3> QED
      BY <1>3, <3>1 DEF class_create, Failed
  <2>2. CASE ~fail(0)
    BY <1>3, <2>2, <1>t DEF class_create, Goto, TypeOK, Devs
  <2> QED
    BY <2>1, <2>2
<1>4. CASE cdev_add
  <2>1. CASE fail(-1)
    <3>1. Failed
      BY <2>1, FailFails
    <3> QED
      BY <1>4, <3>1 DEF cdev_add, Failed
  <2>2. CASE ~fail(-1)
    BY <1>4, <2>2, <1>t DEF cdev_add, Goto, TypeOK, Devs
  <2> QED
    BY <2>1, <2>2
<1>5. CASE device_create
  BY <1>5, <1>t DEF device_create, Goto, TypeOK, Devs
<1>6. CASE dev_init
  <2>1. CASE fail(-1)
    <3>1. Failed
      BY <2>1, FailFails
    <3> QED
      BY <1>6, <3>1 DEF dev_init, Failed
  <2>2. CASE ~fail(-1)
    BY <1>6, <2>2, <1>t DEF dev_init, Goto, TypeOK, Devs
  <2> QED
    BY <2>1, <2>2
<1>7. CASE proc_mkdir
  <2>1. CASE fail(-1)
    <3>1. Failed
      BY <2>1, FailFails
    <3> QED
      BY <1>7, <3>1 DEF proc_mkdir, Failed
  <2>2. CASE ~fail(-1)
    BY <1>7, <2>2, <1>t DEF proc_mkdir, Goto, TypeOK, Devs
  <2> QED
    BY <2>1, <2>2
<1>8. CASE proc_create_data
  <2>1. CASE fail(-1)
    <3>1. Failed
      BY <2>1, FailFails
    <3> QED
      BY <1>8, <3>1 DEF proc_create_data, Failed
  <2>2. CASE ~fail(-1)
    BY <1>8, <2>2, <1>t DEF proc_create_data, Goto, TypeOK, Devs
  <2> QED
    BY <2>1, <2>2
<1>9. CASE Mknod
  BY <1>9 DEF Mknod, setup
<1>10. CASE RemoveNodes
  BY <1>10 DEF RemoveNodes, setup
<1>11. CASE Rmmod
  <2>1. CASE mod = "loaded" /\ \A p \in Procs : file[p] = Closed
    BY <1>11, <2>1 DEF Rmmod, test_mck_cleanup
  <2>2. CASE ~(mod = "loaded" /\ \A p \in Procs : file[p] = Closed)
    BY <1>11, <2>2 DEF Rmmod, setup
  <2> QED
    BY <2>1, <2>2
<1>12. CASE \E p \in Procs : Close(p) \/ \E d \in Devs : Open(p, d)
  <2>1. CASE \E p \in Procs : Close(p)
    BY <2>1 DEF Close, setup
  <2>2. CASE \E p \in Procs : \E d \in Devs : Open(p, d)
    BY <2>2 DEF Open, setup
  <2> QED
    BY <1>12, <2>1, <2>2
<1>13. CASE UNCHANGED vars
  BY <1>13 DEF vars, setup
<1> QED
  BY <1>1, <1>2, <1>3, <1>4, <1>5, <1>6, <1>7, <1>8, <1>9, <1>10, <1>11, <1>12, <1>13 DEF Next, Scripts, Setup

\* IInv is an invariant of the driver's life.
THEOREM DrvInvariant == Spec => []IInv
<1>1. IInv /\ [Next]_vars => IInv'
  BY TypeStep, ProgressStep, InUseStep, CleanStep DEF IInv
<1> QED
  BY InitIInv, <1>1, PTL DEF Spec

\* Whatever call fails, and however often the driver is loaded and unloaded,
\* an unloaded driver has left nothing behind.
THEOREM DrvCleanSlate == Spec => []CleanSlate
<1>1. IInv => CleanSlate
  BY DEF IInv, Clean, CleanSlate
<1> QED
  BY DrvInvariant, <1>1, PTL

\* A device a process has open is registered and initialised.
THEOREM DrvOpenIsServed == Spec => []OpenIsServed
<1>1. IInv => OpenIsServed
  BY DEF IInv, TypeOK, InUse, OpenIsServed, Closed
<1> QED
  BY DrvInvariant, <1>1, PTL

\* When the scripts are done every device file leads to a registered device.
THEOREM DrvNodesServed == Spec => []NodesServed
<1>1. IInv => NodesServed
  BY DEF IInv, TypeOK, InUse, NodesServed
<1> QED
  BY DrvInvariant, <1>1, PTL

\* A pointer to a destroyed class is only left behind by a failed class_create.
Freed == (\E d \in Devs : class[d] = "freed") => classfail = 1

\* An error branch with a negative res unloads the module, and its class pointers
\* with it.
LEMMA FailFreed ==
    ASSUME Freed, fail(-1)
    PROVE  (\A d \in Devs : class'[d] # "freed") /\ (twice' = twice \/ classfail = 1)
<1>1. mod' = "unloaded" /\ destroy_classes("unloaded")
  BY DEF fail
<1> QED
  BY <1>1 DEF destroy_classes, Freed

\* Freed is kept, and a class is destroyed twice only while it excuses that.
LEMMA FreedStep ==
    IInv /\ Freed /\ [Next]_vars => Freed' /\ (twice' = twice \/ classfail = 1)
<1> SUFFICES ASSUME IInv, Freed, [Next]_vars PROVE Freed' /\ (twice' = twice \/ classfail = 1)
  OBVIOUS
<1>a. ASSUME UNCHANGED <<class, classfail, twice>> PROVE Freed' /\ (twice' = twice \/ classfail = 1)
  BY <1>a DEF Freed
<1>b. ASSUME fail(-1), UNCHANGED classfail PROVE Freed' /\ (twice' = twice \/ classfail = 1)
  BY <1>b, FailFreed DEF Freed
<1>1. CASE Insmod
  BY <1>1, <1>a DEF Insmod, setup
<1>2. CASE alloc_chrdev_region
  BY <1>2, <1>a, <1>b DEF alloc_chrdev_region, Goto
<1>3. CASE class_create
  <2>1. CASE fail(0) /\ classfail' = 1
    BY <2>1 DEF fail, destroy_classes, Freed
  <2>2. CASE class' = [class EXCEPT ![i] = "live"] /\ UNCHANGED <<classfail, twice>>
    BY <2>2 DEF Freed, IInv, TypeOK
  <2> QED
    BY <1>3, <2>1, <2>2 DEF class_create, Goto
<1>4. CASE cdev_add
  BY <1>4, <1>a, <1>b DEF cdev_add, Goto
<1>5. CASE device_create
  BY <1>5, <1>a DEF device_create, Goto
<1>6. CASE dev_init
  BY <1>6, <1>a, <1>b DEF dev_init, Goto
<1>7. CASE proc_mkdir
  BY <1>7, <1>a, <1>b DEF proc_mkdir, Goto
<1>8. CASE proc_create_data
  BY <1>8, <1>a, <1>b DEF proc_create_data
<1>9. CASE Mknod
  BY <1>9, <1>a DEF Mknod, setup
<1>10. CASE RemoveNodes
  BY <1>10, <1>a DEF RemoveNodes, setup
<1>11. CASE Rmmod
  <2>1. CASE destroy_classes("unloaded")
    BY <2>1 DEF destroy_classes, Freed
  <2>2. CASE UNCHANGED <<setup, classfail, twice>>
    BY <2>2, <1>a DEF setup
  <2> QED
    BY <1>11, <2>1, <2>2 DEF Rmmod
<1>12. CASE \E p \in Procs : Close(p) \/ \E d \in Devs : Open(p, d)
  BY <1>12, <1>a DEF Close, Open, setup
<1>13. CASE UNCHANGED vars
  BY <1>13, <1>a DEF vars, setup
<1> QED
  BY <1>1, <1>2, <1>3, <1>4, <1>5, <1>6, <1>7, <1>8, <1>9, <1>10, <1>11, <1>12, <1>13 DEF Next, Scripts, Setup

\* A class is destroyed twice only when class_create has failed since the last unload,
\* for any number of processes.
THEOREM DrvReleasedOnce == Spec => ReleasedOnce
<1>1. Init => Freed
  BY DEF Init, Freed
<1>2. IInv /\ Freed /\ [Next]_vars => Freed' /\ [twice' = twice \/ classfail = 1]_vars
  BY FreedStep
<1> QED
  BY DrvInvariant, <1>1, <1>2, PTL DEF Spec, ReleasedOnce

-----------------------------------------------------------------------------
(* DriverTests: the driver with the tests that use it.                     *)

Using == pc \notin {"idle", "open"}
MyDev == IF t = 0 THEN mmap_dev ELSE mmap_dev2

\* The tester holds the device of its test exactly while it uses it.
Holds ==
    /\ file \in [Procs -> Devs \cup {Closed}]
    /\ file[tester] = IF Using THEN MyDev ELSE Closed

\* What a step of the tests does to the position of the test.
LEMMA TestMoves ==
    ASSUME Tests!Next
    PROVE  /\ pc = "idle" => pc' = "open"
           /\ pc = "open" => UNCHANGED t /\ (pc' = "idle" \/ (pc' = "ioctl" /\ Reachable(MyDev)))
           /\ Using => UNCHANGED t /\ pc' # "open"
<1> USE DEF Using, MyDev
<1>1. CASE Tests!Start
  BY <1>1 DEF Tests!Start
<1>2. CASE Tests!open
  BY <1>2 DEF Tests!open, Tests!Call, Tests!End, Tests!path
<1>3. CASE Tests!ioctl
  BY <1>3 DEF Tests!ioctl, Tests!Call, Tests!End
<1>4. CASE Tests!mmap
  BY <1>4 DEF Tests!mmap, Tests!Call, Tests!End
<1>5. CASE Tests!access
  <2>1. pc = "access" /\ UNCHANGED t
    BY <1>5 DEF Tests!access
  <2>2. pc' # "open"
    BY <1>5 DEF Tests!access, Tests!End
  <2> QED
    BY <2>1, <2>2
<1>6. CASE Tests!peek
  BY <1>6 DEF Tests!peek, Tests!Call, Tests!End
<1>7. CASE Tests!validate
  <2>1. pc = "validate" /\ UNCHANGED t
    BY <1>7 DEF Tests!validate
  <2>2. pc' # "open"
    BY <1>7 DEF Tests!validate, Tests!End
  <2> QED
    BY <2>1, <2>2
<1>8. CASE Tests!munmap
  BY <1>8 DEF Tests!munmap, Tests!End
<1> QED
  BY <1>1, <1>2, <1>3, <1>4, <1>5, <1>6, <1>7, <1>8 DEF Tests!Next

LEMMA MyDevice == MyDev \in Devs /\ MyDev # Closed
  BY DriverTestsAssumption DEF MyDev, mmap_dev, mmap_dev2, Devs, Closed

\* The scripts leave open files alone.
LEMMA ScriptsFile == Scripts => UNCHANGED file
<1> SUFFICES ASSUME Scripts PROVE UNCHANGED file
  OBVIOUS
<1>1. CASE Insmod \/ Mknod \/ RemoveNodes \/ Rmmod
  BY <1>1 DEF Insmod, Mknod, RemoveNodes, Rmmod
<1>2. CASE Setup
  BY <1>2 DEF Setup, alloc_chrdev_region, class_create, cdev_add, device_create, dev_init,
              proc_mkdir, proc_create_data
<1> QED
  BY <1>1, <1>2 DEF Scripts

LEMMA HoldsInit == DInit => Holds
  BY DriverTestsAssumption DEF DInit, Init, Tests!Init, Holds, Using

LEMMA HoldsStep == Holds /\ [DNext]_dvars => Holds'
<1> SUFFICES ASSUME Holds, [DNext]_dvars PROVE Holds'
  OBVIOUS
<1> USE DriverTestsAssumption
<1>1. CASE DriverStep
  BY <1>1, ScriptsFile DEF DriverStep, Holds, Using, MyDev
<1>2. CASE TestStep
  <2>1. file' = [file EXCEPT ![tester] = IF pc' = "idle" THEN Closed
                                         ELSE IF pc = "open" THEN MyDev ELSE file[tester]]
    BY <1>2 DEF TestStep, MyDev
  <2>2. file' \in [Procs -> Devs \cup {Closed}]
    BY <2>1, MyDevice DEF Holds
  <2>3. CASE pc = "idle"
    <3>1. pc' = "open" /\ file'[tester] = Closed
      BY <1>2, <2>1, <2>3, TestMoves DEF TestStep, Holds, Using
    <3> QED
      BY <2>2, <3>1 DEF Holds, Using
  <2>4. CASE pc = "open"
    <3>1. UNCHANGED t /\ (pc' = "idle" \/ pc' = "ioctl")
      BY <1>2, <2>4, TestMoves DEF TestStep
    <3>2. file'[tester] = IF pc' = "idle" THEN Closed ELSE MyDev
      BY <2>1, <2>4 DEF Holds
    <3> QED
      BY <2>2, <3>1, <3>2 DEF Holds, Using, MyDev
  <2>5. CASE Using
    <3>1. UNCHANGED t /\ pc' # "open"
      BY <1>2, <2>5, TestMoves DEF TestStep
    <3>2. file'[tester] = IF pc' = "idle" THEN Closed ELSE MyDev
      BY <2>1, <2>5 DEF Holds, Using
    <3> QED
      BY <2>2, <3>1, <3>2 DEF Holds, Using, MyDev
  <2> QED
    BY <2>3, <2>4, <2>5 DEF Using
<1>3. CASE HolderStep
  <2>1. file' \in [Procs -> Devs \cup {Closed}] /\ file'[tester] = file[tester]
    BY <1>3 DEF HolderStep, Close, Open, Holds
  <2> QED
    BY <1>3, <2>1 DEF HolderStep, testvars, Holds, Using, MyDev
<1>4. CASE UNCHANGED dvars
  BY <1>4 DEF dvars, vars, testvars, Holds, Using, MyDev
<1> QED
  BY <1>1, <1>2, <1>3, <1>4 DEF DNext

\* A step of the composition is one of the driver's own or invisible to it.
LEMMA StepKept == Holds /\ [DNext]_dvars => [Next]_vars
<1> SUFFICES ASSUME Holds, [DNext]_dvars PROVE [Next]_vars
  OBVIOUS
<1> USE DriverTestsAssumption
<1>1. CASE DriverStep
  BY <1>1 DEF DriverStep, Next
<1>2. CASE TestStep
  <2>1. /\ file' = [file EXCEPT ![tester] = IF pc' = "idle" THEN Closed
                                            ELSE IF pc = "open" THEN MyDev ELSE file[tester]]
        /\ UNCHANGED drvvars
    BY <1>2 DEF TestStep, MyDev
  <2>2. CASE pc = "open" /\ pc' # "idle"
    <3>1. Reachable(MyDev) /\ file[tester] = Closed
      BY <1>2, <2>2, TestMoves DEF TestStep, Holds, Using
    <3>2. Open(tester, MyDev)
      BY <2>1, <2>2, <3>1 DEF Open, Reachable, drvvars, setup
    <3> QED
      BY <3>2, MyDevice DEF Next
  <2>3. CASE pc' = "idle" /\ file[tester] # Closed
    <3>1. Close(tester)
      BY <2>1, <2>3 DEF Close, drvvars, setup
    <3> QED
      BY <3>1 DEF Next
  <2>4. CASE ~(pc = "open" /\ pc' # "idle") /\ ~(pc' = "idle" /\ file[tester] # Closed)
    <3>1. file' = file
      BY <2>1, <2>4 DEF Holds
    <3> QED
      BY <2>1, <3>1 DEF drvvars, vars
  <2> QED
    BY <2>2, <2>3, <2>4
<1>3. CASE HolderStep
  BY <1>3 DEF HolderStep, Next
<1>4. CASE UNCHANGED dvars
  BY <1>4 DEF dvars
<1> QED
  BY <1>1, <1>2, <1>3, <1>4 DEF DNext

LEMMA AlwaysHolds == DSpec => []Holds
  BY HoldsInit, HoldsStep, PTL DEF DSpec

\* The driver under test load behaves as TestDrv: its theorems hold of it, whatever
\* the size of the buffer and the number of tests and processes.
THEOREM DriverImplements == DSpec => DriverKept
<1>1. DInit => Init
  BY DEF DInit
<1> QED
  BY AlwaysHolds, StepKept, <1>1, PTL DEF DSpec, Spec, DriverKept

\* A test that uses mmap_dev2 keeps its buffer: rmmod meets an open file.
THEOREM BufferStays == DSpec => BufferLive
<1>1. Holds /\ OpenIsServed /\ OpenIsServed' /\ [DNext]_dvars =>
          [pc \notin {"idle", "open"} /\ t # 0 => mmap_dev2 \in inited']_dvars
  <2> SUFFICES ASSUME Holds, OpenIsServed, OpenIsServed', DNext, Using, t # 0 PROVE mmap_dev2 \in inited'
    BY DEF Using
  <2> USE DriverTestsAssumption
  <2>1. file[tester] = mmap_dev2 /\ mmap_dev2 # Closed
    BY MyDevice DEF Holds, MyDev
  <2>2. mmap_dev2 \in inited
    BY <2>1 DEF OpenIsServed
  <2>3. CASE TestStep
    BY <2>2, <2>3 DEF TestStep, drvvars, setup
  <2>4. CASE DriverStep
    BY <2>1, <2>4, ScriptsFile DEF DriverStep, OpenIsServed
  <2>5. CASE HolderStep
    BY <2>2, <2>5 DEF HolderStep, Close, Open, setup
  <2> QED
    BY <2>3, <2>4, <2>5 DEF DNext
<1> QED
  BY AlwaysHolds, DriverImplements, DrvOpenIsServed, <1>1, PTL DEF DSpec, DriverKept, BufferLive
-----------------------------------------------------------------------------
(* What a test finds in its mapping.  A load of the driver in the middle   *)
(* of a test would break all of it: that there is none is BufferStays.     *)

PagesOf(n) == 0 .. n - 1
\* A page a private mapping has copied: its content, or nothing of it.
Copy(q) == Tests!Page(Tests!Z, IF defect = "zero_page" THEN 0 ELSE Tests!Fill(q))

\* Every page keeps its fill: the tests write first bytes only.
Filled ==
    /\ buf \in [Tests!Pages -> [first : Int, rest : Int]]
    /\ \A q \in Tests!Pages : buf[q].rest = Tests!Fill(q)

TestType ==
    /\ t \in {0, 1, 2} /\ pages \in Nat \ {0} /\ page \in PagesOf(pages)
    /\ empty \in {0, 1}
    /\ t # 0 => empty = 0
    /\ pc \in {"open", "ioctl", "mmap", "peek"} => page = 0

\* After the ioctl a test on mmap_dev2 knows the pages it has written: n of them.
Wrote(n) ==
    /\ n <= BufPages
    /\ Tests!Private => /\ buf = Tests!test_mck_mmap_dev2_buffer_reset
                        /\ \A q \in PagesOf(n) : data[q] = Copy(q)
    /\ ~Tests!Private => \A q \in PagesOf(n) : buf[q].first = Tests!Z

Written ==
    t # 0 =>
        /\ pc = "mmap" => Wrote(0)
        /\ pc = "access" => Wrote(page)
        /\ pc \in {"peek", "validate"} => Wrote(pages)

\* The kernel has no defect the test is about.
Sound == (t = 2 => defect # "shared_copied") /\ (t = 1 => defect # "zero_page")

\* The comparison of the first page tells.
Compared ==
    /\ pc \in {"peek", "validate"} => t # 0
    /\ pc = "validate" /\ page > 0 => Sound
    /\ pc = "munmap" => Sound /\ (t # 0 => pages <= BufPages)

TestInv == TestType /\ Filled /\ Written /\ Compared /\ Independent /\ DefectReported

\* The fill is a byte; the one of the first page is neither 0 nor 'Z'.
LEMMA FillBytes == (\A q \in Int : Tests!Fill(q) \in 0 .. 255) /\ Tests!Fill(0) = 1
  BY DEF Tests!Fill

LEMMA ResetFilled ==
    /\ Tests!test_mck_mmap_dev2_buffer_reset \in [Tests!Pages -> [first : Int, rest : Int]]
    /\ \A q \in Tests!Pages : Tests!test_mck_mmap_dev2_buffer_reset[q] = Tests!Page(Tests!Fill(q), Tests!Fill(q))
<1>1. \A q \in Tests!Pages : Tests!Fill(q) \in Int
  BY FillBytes, DriverTestsAssumption DEF Tests!Pages
<1> QED
  BY <1>1 DEF Tests!test_mck_mmap_dev2_buffer_reset, Tests!Page

LEMMA TestInit == DInit => TestInv
<1> SUFFICES ASSUME DInit PROVE TestInv
  OBVIOUS
<1>1. buf = Tests!test_mck_mmap_dev2_buffer_reset
  BY DEF DInit, Tests!Init, Tests!test_mck_mmap_dev2_buffer_reset
<1>2. Filled
  BY <1>1, ResetFilled DEF Filled, Tests!Page
<1>3. TestType
  BY DEF DInit, Tests!Init, TestType, PagesOf
<1>4. Written /\ Compared /\ Independent /\ DefectReported
  BY DEF DInit, Tests!Init, Written, Compared, Independent, DefectReported,
         Tests!Independent, Tests!DefectReported, Tests!Judged
<1> QED
  BY <1>2, <1>3, <1>4 DEF TestInv

LEMMA FirstPage == \A n \in 1 .. MaxPages : n \in Nat \ {0} /\ 0 \in PagesOf(n)
<1> TAKE n \in 1 .. MaxPages
<1>1. n \in Int /\ 1 <= n
  BY DriverTestsAssumption
<1> QED
  BY <1>1 DEF PagesOf

LEMMA StartInv == TestInv /\ Tests!Start => TestInv'
<1> SUFFICES ASSUME TestInv, Tests!Start PROVE TestInv'
  OBVIOUS
<1> USE DriverTestsAssumption DEF Tests!Start
<1>1. TestType' /\ Filled'
  <2>0. pages' \in 1 .. MaxPages
    OBVIOUS
  <2>1. pages' \in Nat \ {0} /\ 0 \in PagesOf(pages')
    BY <2>0, FirstPage
  <2>2. TestType'
    BY <2>1 DEF TestType, PagesOf
  <2>3. Filled'
    BY DEF TestInv, Filled
  <2> QED
    BY <2>2, <2>3
<1>2. Written' /\ Compared'
  BY DEF Written, Compared
<1>3. Independent' /\ DefectReported'
  BY DEF Independent, DefectReported, Tests!Independent, Tests!DefectReported, Tests!Judged
<1> QED
  BY <1>1, <1>2, <1>3 DEF TestInv

\* A step that leaves a test over with a failed call.
LEMMA CallFails ==
    ASSUME TestInv, Tests!End("call error"), Filled',
           UNCHANGED <<t, pages, page, empty>>
    PROVE  TestInv'
<1>1. pc' = "idle" /\ verdict' = "call error"
  BY DEF Tests!End
<1>2. TestType'
  BY <1>1 DEF TestInv, TestType
<1>3. Written' /\ Compared'
  BY <1>1 DEF Written, Compared
<1>4. Independent' /\ DefectReported'
  BY <1>1 DEF Independent, DefectReported, Tests!Independent, Tests!DefectReported, Tests!Judged
<1> QED
  BY <1>2, <1>3, <1>4 DEF TestInv

\* While the test is not over nothing is said about its result.
LEMMA NotJudged == pc' # "idle" => Independent' /\ DefectReported'
  BY DEF Independent, DefectReported, Tests!Independent, Tests!DefectReported, Tests!Judged

LEMMA openInv == TestInv /\ Tests!open => TestInv'
<1> SUFFICES ASSUME TestInv, Tests!open PROVE TestInv'
  OBVIOUS
<1>1. UNCHANGED <<defect, runs, buf, t, pages, page, data, empty>> /\ pc = "open"
  BY DEF Tests!open
<1>2. Filled'
  BY <1>1 DEF TestInv, Filled
<1>3. Tests!End("call error") \/ pc' = "ioctl"
  BY DEF Tests!open, Tests!Call
<1>4. CASE pc' = "ioctl"
  BY <1>1, <1>2, <1>4, NotJudged DEF TestInv, TestType, Written, Compared
<1> QED
  BY <1>1, <1>2, <1>3, <1>4, CallFails

LEMMA ioctlInv == TestInv /\ Tests!ioctl => TestInv'
<1> SUFFICES ASSUME TestInv, Tests!ioctl PROVE TestInv'
  OBVIOUS
<1>1. UNCHANGED <<defect, runs, t, pages, page, data, empty>> /\ pc = "ioctl"
  BY DEF Tests!ioctl
<1>2. buf' \in {buf, Tests!test_mck_mmap_dev2_buffer_reset}
  BY DEF Tests!ioctl
<1>3. Filled'
  BY <1>2, ResetFilled DEF TestInv, Filled, Tests!Page
<1>4. Tests!End("call error") \/ pc' = "mmap"
  BY DEF Tests!ioctl, Tests!Call
<1>5. CASE pc' = "mmap"
  <2>1. t # 0 => buf' = Tests!test_mck_mmap_dev2_buffer_reset
    BY <1>5 DEF Tests!ioctl
  <2>2. Written'
    BY <1>1, <1>5, <2>1, DriverTestsAssumption DEF Written, Wrote, PagesOf, Tests!test_mck_mmap_dev2_buffer_reset, Tests!Pages
  <2>3. TestType' /\ Compared'
    BY <1>1, <1>5 DEF TestInv, TestType, Compared
  <2> QED
    BY <1>3, <1>5, <2>2, <2>3, NotJudged DEF TestInv
<1> QED
  BY <1>1, <1>3, <1>4, <1>5, CallFails

LEMMA mmapInv == TestInv /\ Tests!mmap => TestInv'
<1> SUFFICES ASSUME TestInv, Tests!mmap PROVE TestInv'
  OBVIOUS
<1>1. UNCHANGED <<defect, runs, buf, t, pages, page, data>> /\ pc = "mmap" /\ page = 0
  BY DEF Tests!mmap, TestInv, TestType
<1>2. Filled'
  BY <1>1 DEF TestInv, Filled
<1>3. empty' \in {0, 1} /\ (t # 0 => empty' = 0)
  BY DEF Tests!mmap
<1>4. CASE pc' = "access"
  <2>1. TestType'
    BY <1>1, <1>3, <1>4 DEF TestInv, TestType, PagesOf
  <2>2. Written'
    BY <1>1, <1>4 DEF TestInv, Written, Wrote, Copy, Tests!Private, Tests!test_mck_mmap_dev2_buffer_reset, Tests!Pages
  <2> QED
    BY <1>2, <1>4, <2>1, <2>2, NotJudged DEF TestInv, Compared
<1>5. CASE Tests!End("call error")
  <2>1. TestType'
    BY <1>1, <1>3, <1>5 DEF TestInv, TestType, PagesOf, Tests!End
  <2>2. Written' /\ Compared'
    BY <1>5 DEF Written, Compared, Tests!End
  <2>3. Independent' /\ DefectReported'
    BY <1>5 DEF Independent, DefectReported, Tests!Independent, Tests!DefectReported, Tests!Judged, Tests!End
  <2> QED
    BY <1>2, <2>1, <2>2, <2>3 DEF TestInv
<1> QED
  BY <1>4, <1>5 DEF Tests!mmap, Tests!Call

\* A write to the next page of the mapping: one more page is written.
LEMMA accessWrites ==
    ASSUME TestInv, pc = "access", Tests!access, t # 0, pc' # "idle",
           NEW n, n = page + 1
    PROVE  page \in Tests!Pages /\ Filled' /\ Wrote(n)'
<1> USE DriverTestsAssumption
<1>1. /\ page \in Int /\ 0 <= page
      /\ Filled /\ Wrote(page)
  BY DEF TestInv, TestType, PagesOf, Written
<1>2. page < BufPages
  BY <1>1 DEF Tests!access, Tests!End, Tests!vma_fault
<1>3. page \in Tests!Pages /\ buf[page].rest = Tests!Fill(page)
  BY <1>1, <1>2 DEF Filled, Tests!Pages
<1>4. UNCHANGED <<t, defect>> /\ (Tests!Private' <=> Tests!Private)
  BY DEF Tests!access, Tests!Private
<1>5. CASE Tests!Private
  <2>1. /\ UNCHANGED buf
        /\ data' = [q \in 0 .. page |-> IF q < page THEN data[q] ELSE
                       Tests!Page(Tests!Z, IF defect = "zero_page" THEN 0 ELSE buf[page].rest)]
    BY <1>5 DEF Tests!access, Tests!End
  <2>2. ASSUME NEW q \in PagesOf(n) PROVE data'[q] = Copy(q)'
    <3>1. q \in 0 .. page /\ (q < page => q \in PagesOf(page)) /\ (~(q < page) => q = page)
      BY <1>1, <2>2 DEF PagesOf
    <3>2. CASE q < page
      BY <1>1, <1>4, <1>5, <2>1, <3>1, <3>2 DEF Wrote, Copy
    <3>3. CASE ~(q < page)
      BY <1>3, <1>4, <2>1, <3>1, <3>3 DEF Copy
    <3> QED
      BY <3>2, <3>3
  <2>3. buf' = Tests!test_mck_mmap_dev2_buffer_reset'
    BY <1>1, <1>5, <2>1 DEF Wrote, Tests!test_mck_mmap_dev2_buffer_reset, Tests!Pages
  <2>4. n <= BufPages
    BY <1>1, <1>2
  <2>5. Wrote(n)'
    BY <1>4, <1>5, <2>2, <2>3, <2>4 DEF Wrote
  <2> QED
    BY <1>1, <1>3, <2>1, <2>5 DEF Filled
<1>6. CASE ~Tests!Private
  <2>1. buf' = [buf EXCEPT ![page] = [buf[page] EXCEPT !.first = Tests!Z]]
    BY <1>6 DEF Tests!access, Tests!End
  <2>2. buf[page] \in [first : Int, rest : Int] /\ Tests!Z \in Int
    BY <1>1, <1>3 DEF Filled, Tests!Z
  <2>3. [buf[page] EXCEPT !.first = Tests!Z] = Tests!Page(Tests!Z, Tests!Fill(page))
    BY <1>3, <2>2 DEF Tests!Page
  <2>4. /\ buf' \in [Tests!Pages -> [first : Int, rest : Int]]
        /\ \A q \in Tests!Pages : buf'[q] = IF q = page THEN Tests!Page(Tests!Z, Tests!Fill(page)) ELSE buf[q]
    BY <1>1, <1>3, <2>1, <2>2, <2>3 DEF Filled, Tests!Page
  <2>5. Filled'
    BY <1>1, <1>3, <2>4 DEF Filled, Tests!Page
  <2>6. \A q \in PagesOf(n) : buf'[q].first = Tests!Z
    <3> TAKE q \in PagesOf(n)
    <3>1. q \in Tests!Pages /\ (q # page => q \in PagesOf(page))
      BY <1>1, <1>2 DEF PagesOf, Tests!Pages
    <3> QED
      BY <1>1, <1>6, <2>4, <3>1 DEF Wrote, Tests!Page
  <2>7. n <= BufPages
    BY <1>1, <1>2
  <2> QED
    BY <1>3, <1>4, <1>6, <2>5, <2>6, <2>7 DEF Wrote
<1> QED
  BY <1>5, <1>6

LEMMA accessInv == TestInv /\ Tests!access => TestInv'
<1> SUFFICES ASSUME TestInv, Tests!access PROVE TestInv'
  OBVIOUS
<1> USE DriverTestsAssumption
<1>1. UNCHANGED <<defect, runs, t, pages, empty>> /\ pc = "access"
  BY DEF Tests!access
<1>2. /\ t \in {0, 1, 2} /\ empty \in {0, 1} /\ (t # 0 => empty = 0)
      /\ pages \in Int /\ 1 <= pages /\ page \in Int /\ 0 <= page /\ page < pages
  BY DEF TestInv, TestType, PagesOf
<1>3. CASE pc' = "idle"
  <2>1. /\ empty = 1 \/ ~Tests!vma_fault(page)
        /\ verdict' = "SIGBUS" /\ UNCHANGED <<buf, data, page>>
    BY <1>1, <1>3 DEF Tests!access, Tests!End
  <2>2. TestType' /\ Filled'
    BY <1>1, <1>3, <2>1 DEF TestInv, TestType, Filled
  <2>3. Written' /\ Compared'
    BY <1>3 DEF Written, Compared
  <2>4. empty = 0 => t # 0 /\ pages > BufPages
    BY <1>2, <2>1 DEF Tests!vma_fault
  <2>5. Independent' /\ DefectReported'
    BY <1>1, <2>1, <2>4 DEF Independent, DefectReported, Tests!Independent, Tests!DefectReported, Tests!Judged
  <2> QED
    BY <2>2, <2>3, <2>5 DEF TestInv
<1>4. CASE pc' # "idle"
  <2>1. Filled'
    <3>1. CASE t = 0
      BY <1>4, <3>1 DEF Tests!access, Tests!End, TestInv, Filled
    <3>2. CASE t # 0
      BY <1>1, <1>2, <1>4, <3>2, accessWrites
    <3> QED
      BY <3>1, <3>2
  <2>2. CASE page + 1 < pages
    <3>1. page' = page + 1 /\ pc' = "access"
      BY <1>1, <1>4, <2>2 DEF Tests!access, Tests!End
    <3>2. TestType'
      BY <1>1, <1>2, <2>2, <3>1 DEF TestType, PagesOf
    <3>3. t # 0 => Wrote(page)'
      BY <1>1, <1>2, <1>4, <3>1, accessWrites DEF Wrote
    <3>4. Written' /\ Compared'
      BY <1>1, <3>1, <3>3 DEF Written, Compared
    <3> QED
      BY <1>4, <2>1, <3>2, <3>4, NotJudged DEF TestInv
  <2>3. CASE ~(page + 1 < pages)
    <3>1. /\ page' = 0 /\ page + 1 = pages
          /\ pc' = IF t = 0 THEN "munmap" ELSE IF t = 1 THEN "validate" ELSE "peek"
      BY <1>2, <1>4, <2>3 DEF Tests!access, Tests!End
    <3>2. TestType'
      BY <1>1, <1>2, <3>1 DEF TestType, PagesOf
    <3>3. t # 0 => Wrote(pages)'
      BY <1>1, <1>2, <1>4, <3>1, accessWrites DEF Wrote
    <3>4. Written' /\ Compared'
      BY <1>1, <1>2, <3>1, <3>3 DEF Written, Compared, Sound
    <3> QED
      BY <1>4, <2>1, <3>2, <3>4, NotJudged DEF TestInv
  <2> QED
    BY <2>2, <2>3
<1> QED
  BY <1>3, <1>4

LEMMA peekInv == TestInv /\ Tests!peek => TestInv'
<1> SUFFICES ASSUME TestInv, Tests!peek PROVE TestInv'
  OBVIOUS
<1>1. UNCHANGED <<defect, runs, buf, t, pages, page, data, empty>> /\ pc = "peek" /\ page = 0
  BY DEF Tests!peek, TestInv, TestType
<1>2. Filled'
  BY <1>1 DEF TestInv, Filled
<1>3. Tests!End("call error") \/ pc' = "validate"
  BY DEF Tests!peek, Tests!Call
<1>4. CASE pc' = "validate"
  <2>1. t # 0 => Wrote(pages)'
    BY <1>1 DEF TestInv, Written, Wrote, Copy, Tests!Private, Tests!test_mck_mmap_dev2_buffer_reset, Tests!Pages
  <2>2. t # 0
    BY <1>1 DEF TestInv, Compared
  <2>3. TestType' /\ Written' /\ Compared'
    BY <1>1, <1>4, <2>1, <2>2 DEF TestInv, TestType, Written, Compared
  <2> QED
    BY <1>2, <1>4, <2>3, NotJudged DEF TestInv
<1> QED
  BY <1>1, <1>2, <1>3, <1>4, CallFails

\* The page compared next differs from what the test expects just when the kernel has
\* the defect the test is about.
LEMMA comparison ==
    ASSUME TestInv, pc = "validate"
    PROVE  ((IF t = 1 THEN data[page] ELSE buf[page]) = Tests!Page(Tests!Z, Tests!Fill(page))) => (page = 0 => Sound)
<1> USE DriverTestsAssumption
<1>1. /\ t \in {1, 2} /\ pages \in Int /\ page \in PagesOf(pages) /\ Filled
      /\ Wrote(pages) /\ pages <= BufPages
  BY DEF TestInv, TestType, Written, Compared, Wrote
<1>2. page \in Int /\ page \in Tests!Pages
  BY <1>1 DEF PagesOf, Tests!Pages
<1>3. CASE t = 1 /\ defect = "zero_page"
  <2>1. data[page] = Tests!Page(Tests!Z, 0)
    BY <1>1, <1>3 DEF Wrote, Copy, Tests!Private
  <2> QED
    BY <1>2, <1>3, <2>1, FillBytes DEF Tests!Page
<1>4. CASE t = 2 /\ defect = "shared_copied"
  <2>1. buf[page] = Tests!Page(Tests!Fill(page), Tests!Fill(page))
    BY <1>1, <1>2, <1>4, ResetFilled DEF Wrote, Tests!Private
  <2> QED
    BY <1>2, <1>4, <2>1, FillBytes DEF Tests!Page, Tests!Z
<1> QED
  BY <1>1, <1>3, <1>4 DEF Sound

\* With a correct kernel they are the same.
LEMMA comparisonHolds ==
    ASSUME TestInv, pc = "validate", defect = "none"
    PROVE  (IF t = 1 THEN data[page] ELSE buf[page]) = Tests!Page(Tests!Z, Tests!Fill(page))
<1> USE DriverTestsAssumption
<1>1. /\ t \in {1, 2} /\ pages \in Int /\ page \in PagesOf(pages) /\ Filled
      /\ Wrote(pages) /\ pages <= BufPages
  BY DEF TestInv, TestType, Written, Compared, Wrote
<1>2. page \in Int /\ page \in Tests!Pages
  BY <1>1 DEF PagesOf, Tests!Pages
<1>3. CASE t = 1
  BY <1>1, <1>3 DEF Wrote, Copy, Tests!Private
<1>4. CASE t = 2
  <2>1. buf[page].first = Tests!Z /\ buf[page].rest = Tests!Fill(page) /\ buf[page] \in [first : Int, rest : Int]
    BY <1>1, <1>2, <1>4 DEF Wrote, Filled, Tests!Private
  <2> QED
    BY <1>4, <2>1 DEF Tests!Page
<1> QED
  BY <1>1, <1>3, <1>4

LEMMA validateInv == TestInv /\ Tests!validate => TestInv'
<1> SUFFICES ASSUME TestInv, Tests!validate PROVE TestInv'
  OBVIOUS
<1>1. UNCHANGED <<defect, runs, buf, t, pages, data, empty>> /\ pc = "validate"
  BY DEF Tests!validate
<1>2. /\ t \in {1, 2} /\ empty = 0 /\ pages \in Int /\ 1 <= pages
      /\ page \in Int /\ 0 <= page /\ page < pages /\ pages <= BufPages
  BY <1>1 DEF TestInv, TestType, PagesOf, Written, Compared, Wrote
<1>3. Filled'
  BY <1>1 DEF TestInv, Filled
<1>4. CASE (IF t = 1 THEN data[page] ELSE buf[page]) # Tests!Page(Tests!Z, Tests!Fill(page))
  <2>1. pc' = "idle" /\ verdict' = "compare error" /\ UNCHANGED page
    BY <1>4 DEF Tests!validate, Tests!End
  <2>2. TestType' /\ Written' /\ Compared'
    BY <1>1, <2>1 DEF TestInv, TestType, Written, Compared
  <2>3. defect # "none"
    BY <1>1, <1>4, comparisonHolds
  <2>4. Independent' /\ DefectReported'
    BY <1>1, <2>1, <2>3 DEF Independent, DefectReported, Tests!Independent, Tests!DefectReported, Tests!Judged
  <2> QED
    BY <1>3, <2>2, <2>4 DEF TestInv
<1>5. CASE (IF t = 1 THEN data[page] ELSE buf[page]) = Tests!Page(Tests!Z, Tests!Fill(page))
  <2>1. Sound
    BY <1>1, <1>2, <1>5, comparison DEF TestInv, Compared
  <2>2. CASE page + 1 < pages
    <3>1. page' = page + 1 /\ pc' = pc
      BY <1>5, <2>2 DEF Tests!validate
    <3>2. TestType'
      BY <1>1, <1>2, <2>2, <3>1 DEF TestType, PagesOf
    <3>3. Wrote(pages)'
      BY <1>1, <1>2 DEF TestInv, Written, Wrote, Copy, Tests!Private, Tests!test_mck_mmap_dev2_buffer_reset, Tests!Pages
    <3>4. Written' /\ Compared'
      BY <1>1, <1>2, <2>1, <3>1, <3>3 DEF Written, Compared, Sound
    <3> QED
      BY <1>1, <1>3, <3>1, <3>2, <3>4, NotJudged DEF TestInv
  <2>3. CASE ~(page + 1 < pages)
    <3>1. page' = 0 /\ pc' = "munmap"
      BY <1>5, <2>3 DEF Tests!validate
    <3>2. TestType'
      BY <1>1, <1>2, <3>1 DEF TestType, PagesOf
    <3>3. Written' /\ Compared'
      BY <1>1, <1>2, <2>1, <3>1 DEF Written, Compared, Sound
    <3> QED
      BY <1>3, <3>1, <3>2, <3>3, NotJudged DEF TestInv
  <2> QED
    BY <2>2, <2>3
<1> QED
  BY <1>4, <1>5

LEMMA munmapInv == TestInv /\ Tests!munmap => TestInv'
<1> SUFFICES ASSUME TestInv, Tests!munmap PROVE TestInv'
  OBVIOUS
<1>1. UNCHANGED <<defect, runs, buf, t, pages, page, data, empty>> /\ pc = "munmap"
  BY DEF Tests!munmap
<1>2. Filled'
  BY <1>1 DEF TestInv, Filled
<1>3. CASE Tests!End("ok")
  <2>1. pc' = "idle" /\ verdict' = "ok"
    BY <1>3 DEF Tests!End
  <2>2. TestType' /\ Written' /\ Compared'
    BY <1>1, <2>1 DEF TestInv, TestType, Written, Compared
  <2>3. Sound /\ (t # 0 => pages <= BufPages) /\ pages \in Int /\ BufPages \in Int
    BY <1>1, DriverTestsAssumption DEF TestInv, Compared, TestType
  <2>4. Independent' /\ DefectReported'
    BY <1>1, <2>1, <2>3 DEF Sound, Independent, DefectReported, Tests!Independent, Tests!DefectReported, Tests!Judged
  <2> QED
    BY <1>2, <2>2, <2>4 DEF TestInv
<1> QED
  BY <1>1, <1>2, <1>3, CallFails DEF Tests!munmap

\* The scripts never give the tester a new buffer in the middle of a test on mmap_dev2.
LEMMA DriverStepInv == TestInv /\ Holds /\ OpenIsServed /\ DriverStep => TestInv'
<1> SUFFICES ASSUME TestInv, Holds, OpenIsServed, DriverStep PROVE TestInv'
  OBVIOUS
<1>1. UNCHANGED <<defect, runs, t, pages, pc, page, data, empty, verdict>>
  BY DEF DriverStep
<1>2. Filled'
  BY ResetFilled DEF DriverStep, TestInv, Filled, Tests!Page
<1>3. Using /\ t # 0 => UNCHANGED buf
  <2> SUFFICES ASSUME Using, t # 0 PROVE UNCHANGED buf
    OBVIOUS
  <2>1. file[tester] = mmap_dev2 /\ mmap_dev2 # Closed
    BY MyDevice DEF Holds, MyDev
  <2>2. mmap_dev2 \in inited
    BY <2>1, DriverTestsAssumption DEF OpenIsServed
  <2> QED
    BY <2>2 DEF DriverStep
<1>4. Written'
  <2>1. ASSUME NEW n, t # 0, UNCHANGED buf, Wrote(n) PROVE Wrote(n)'
    BY <1>1, <2>1 DEF Wrote, Copy, Tests!Private, Tests!test_mck_mmap_dev2_buffer_reset, Tests!Pages
  <2>2. t # 0 /\ pc = "mmap" => Wrote(0)'
    BY <1>3, <2>1 DEF TestInv, Written, Using
  <2>3. t # 0 /\ pc = "access" => Wrote(page)'
    BY <1>1, <1>3, <2>1 DEF TestInv, Written, Using, Wrote
  <2>4. t # 0 /\ pc \in {"peek", "validate"} => Wrote(pages)'
    BY <1>1, <1>3, <2>1 DEF TestInv, Written, Using, Wrote
  <2> QED
    BY <1>1, <2>2, <2>3, <2>4 DEF Written
<1>5. TestType' /\ Compared' /\ Independent' /\ DefectReported'
  BY <1>1 DEF TestInv, TestType, Compared, Sound, Independent, DefectReported,
              Tests!Independent, Tests!DefectReported, Tests!Judged
<1> QED
  BY <1>2, <1>4, <1>5 DEF TestInv

LEMMA TestInvStep == TestInv /\ Holds /\ OpenIsServed /\ [DNext]_dvars => TestInv'
<1> SUFFICES ASSUME TestInv, Holds, OpenIsServed, [DNext]_dvars PROVE TestInv'
  OBVIOUS
<1>1. CASE DriverStep
  BY <1>1, DriverStepInv
<1>2. CASE TestStep
  BY <1>2, StartInv, openInv, ioctlInv, mmapInv, accessInv, peekInv, validateInv, munmapInv
     DEF TestStep, Tests!Next
<1>3. CASE UNCHANGED testvars
  <2>1. TestType' /\ Filled' /\ Compared'
    BY <1>3 DEF testvars, TestInv, TestType, Filled, Compared, Sound
  <2>2. Written'
    <3>1. \A n : Wrote(n)' = Wrote(n)
      BY <1>3 DEF testvars, Wrote, Copy, Tests!Private, Tests!test_mck_mmap_dev2_buffer_reset, Tests!Pages
    <3> QED
      BY <1>3, <3>1 DEF testvars, TestInv, Written
  <2>3. Independent' /\ DefectReported'
    BY <1>3 DEF testvars, TestInv, Independent, DefectReported, Tests!Independent, Tests!DefectReported,
                Tests!Judged
  <2> QED
    BY <2>1, <2>2, <2>3 DEF TestInv
<1> QED
  BY <1>1, <1>2, <1>3 DEF DNext, HolderStep, dvars

\* What the tests know of the buffer, for every size of it, every number of tests,
\* loads and unloads, every set of failing calls and of kernel defects.
THEOREM TestsInvariant == DSpec => []TestInv
  BY TestInit, TestInvStep, AlwaysHolds, DriverImplements, DrvOpenIsServed, PTL DEF DSpec, DriverKept

\* A test in which no call fails passes on a correct kernel, or is stopped by the
\* fault handler where its mapping is longer than the buffer: what earlier tests and
\* earlier loads have left in the buffer makes no difference.
THEOREM TestsIndependent == DSpec => []Independent
<1>1. TestInv => Independent
  BY DEF TestInv
<1> QED
  BY <1>1, TestsInvariant, PTL

\* 001 and 002 do not pass on a kernel with the defect they are about.
THEOREM TestsReportDefects == DSpec => []DefectReported
<1>1. TestInv => DefectReported
  BY DEF TestInv
<1> QED
  BY <1>1, TestsInvariant, PTL
==============================================================================
