------------------------------ MODULE MCTestDrv ------------------------------
(***************************************************************************)
(* Model checking of TestDrv with the two devices of test_suite.list and   *)
(* two test processes.                                                     *)
(***************************************************************************)
EXTENDS TestDrv

CONSTANTS p1, p2
AnyCall == {"alloc_chrdev_region", "class_create", "cdev_add", "device_create",
            "init", "proc_mkdir", "proc_create_data"}
ClassOnly == {"class_create"}
TwoProcs == {p1, p2}
=============================================================================
