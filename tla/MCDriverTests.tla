---------------------------- MODULE MCDriverTests ----------------------------
(***************************************************************************)
(* Model checking of DriverTests: the two devices, a tester and a process  *)
(* that holds a device; the buffer has its three pages, a test may map one *)
(* page more, and three tests follow each other.                           *)
(***************************************************************************)
EXTENDS DriverTests

CONSTANTS p1, p2
TwoProcs == {p1, p2}
BothDefects == {"shared_copied", "zero_page"}
AnyCall == {"alloc_chrdev_region", "class_create", "cdev_add", "device_create",
            "init", "proc_mkdir", "proc_create_data",
            "open", "ioctl", "mmap", "remap_pfn_range", "munmap"}
==============================================================================
