------------------------------- MODULE MmapDev -------------------------------
(***************************************************************************)
(* The devices mmap_dev and mmap_dev2 of the test driver and the test      *)
(* points mmap_dev 000, 001 and 002 that map them: one test after another, *)
(* as run_testset_x86.sh runs them.  DriverTests composes them with the    *)
(* loading of the driver, which decides whether a device can be opened.    *)
(*                                                                         *)
(* mmap_dev2 has a buffer of BufPages pages.  It outlives the tests, and   *)
(* 002 maps it shared, so each test meets what the last one left.  A page  *)
(* is its first byte, which the tests write, and the fill of the others.   *)
(* defect names one way the kernel gets the mapping of the running test    *)
(* wrong, "none" for a correct one.                                        *)
(***************************************************************************)
EXTENDS Integers

CONSTANTS
    BufPages,   \* test_mck_mmap_dev2_buf_size in pages
    MaxPages,   \* bound on -s, in pages
    Defects,    \* the kernel defects to try
    Faulty,     \* calls that may fail
    Runs        \* bound on the number of tests run

Pages == 0 .. BufPages - 1
Z == 90
Page(b, v) == [first |-> b, rest |-> v]

\* memset stores the low byte of val, which starts at 1 and goes up by 1 a page.
Fill(p) == (p + 1) % 256

VARIABLES
    present,    \* the devices that can be opened: "mmap_dev", "mmap_dev2" (the driver's)
    defect,
    runs,       \* tests started
    buf,        \* the buffer of mmap_dev2
    t,          \* TEST_NUMBER
    pages,      \* the size of the mapping
    pc,
    i,          \* loop counter over the pages
    data,       \* the pages of the mapping that are private copies: page -> content
    empty,      \* 1: remap_pfn_range has failed, there is nothing behind the mapping
    verdict     \* of the last test

\* present is not among them: it belongs to the driver.
vars == <<defect, runs, buf, t, pages, pc, i, data, empty, verdict>>

\* test_mck_mmap_dev2_buffer_reset: every page has its own fill.
test_mck_mmap_dev2_buffer_reset == [p \in Pages |-> Page(Fill(p), Fill(p))]

Init ==
    /\ defect = "none"
    /\ runs = 0
    /\ buf = [p \in Pages |-> Page(Fill(p), Fill(p))]      \* test_mck_mmap_dev2_init
    /\ t = 0 /\ pages = 1 /\ pc = "idle" /\ i = 0
    /\ data = <<>> /\ empty = 0
    /\ verdict = "none"

\* The script starts the next test point.  What the kernel gets wrong may differ
\* from test to test.
Start ==
    /\ pc = "idle" /\ runs < Runs
    /\ runs' = runs + 1
    /\ defect' \in {"none"} \cup Defects
    /\ t' \in {0, 1, 2}
    /\ pages' \in 1 .. MaxPages
    /\ pc' = "open" /\ i' = 0
    /\ data' = <<>> /\ empty' = 0 /\ verdict' = "none"
    /\ UNCHANGED buf

End(v) == pc' = "idle" /\ verdict' = v
Call(name, next) ==
    \/ pc' = next /\ UNCHANGED verdict
    \/ name \in Faulty /\ End("call error")

\* The device the script names with -d.
path == IF t = 0 THEN "mmap_dev" ELSE "mmap_dev2"

open_anything ==
    /\ pc = "open"
    /\ Call("open", "ioctl")
    /\ UNCHANGED <<defect, runs, buf, t, pages, i, data, empty>>

open ==
    /\ pc = "open"
    /\ IF path \in present THEN Call("open", "ioctl") ELSE End("call error")
    /\ UNCHANGED <<defect, runs, buf, t, pages, i, data, empty>>

ioctl_no_reset ==
    /\ pc = "ioctl"
    /\ Call("ioctl", "mmap")
    /\ UNCHANGED <<defect, runs, buf, t, pages, i, data, empty>>

\* ioctl: mmap_dev ignores it, mmap_dev2 resets its buffer.
ioctl ==
    /\ pc = "ioctl"
    /\ Call("ioctl", "mmap")
    /\ buf' = IF t = 0 \/ pc' = "idle" THEN buf ELSE test_mck_mmap_dev2_buffer_reset
    /\ UNCHANGED <<defect, runs, t, pages, i, data, empty>>

\* mmap in the kernel, which may fail, and then in the driver: mmap_dev's returns
\* 0 even when remap_pfn_range has failed.
mmap ==
    /\ pc = "mmap"
    /\ Call("mmap", "access")
    /\ \/ empty' = 0
       \/ empty' = 1 /\ t = 0 /\ pc' = "access" /\ "remap_pfn_range" \in Faulty
    /\ UNCHANGED <<defect, runs, buf, t, pages, i, data>>

vma_fault_short(p) == t = 0 \/ p + 1 < BufPages

\* test_mck_mmap_dev2_vma_fault refuses pages behind the buffer; mmap_dev has
\* mapped its range in advance.
vma_fault(p) == t = 0 \/ p < BufPages

Private == t # 2 \/ defect = "shared_copied"

\* *ptr = 'Z' on the next page.  A write to a private mapping copies the page.  With
\* nothing behind the mapping and no vm_ops a kernel may refuse the access, or hand
\* out an anonymous page as older ones do.
access ==
    /\ pc = "access"
    /\ \/ /\ empty = 1 \/ ~vma_fault(i)
          /\ End("SIGBUS") /\ UNCHANGED <<buf, data, i>>
       \/ /\ vma_fault(i)
          /\ IF t = 0 THEN UNCHANGED <<buf, data>>
             ELSE IF Private
             THEN /\ data' = [p \in 0 .. i |-> IF p < i THEN data[p] ELSE
                               Page(Z, IF defect = "zero_page" THEN 0 ELSE buf[i].rest)]
                  /\ UNCHANGED buf
             ELSE buf' = [buf EXCEPT ![i].first = Z] /\ UNCHANGED data
          /\ IF i + 1 < pages
             THEN i' = i + 1 /\ UNCHANGED pc
             ELSE i' = 0 /\ pc' = IF t = 0 THEN "munmap" ELSE IF t = 1 THEN "validate" ELSE "peek"
          /\ UNCHANGED verdict
    /\ UNCHANGED <<defect, runs, t, pages, empty>>

\* 002 maps the buffer a second time.
peek ==
    /\ pc = "peek"
    /\ Call("mmap", "validate")
    /\ UNCHANGED <<defect, runs, buf, t, pages, i, data, empty>>

\* memcmp of the next page: 001 looks at its own mapping, 002 at the second one.
validate ==
    /\ pc = "validate"
    /\ IF (IF t = 1 THEN data[i] ELSE buf[i]) # Page(Z, Fill(i))
       THEN End("compare error") /\ UNCHANGED i
       ELSE IF i + 1 < pages THEN i' = i + 1 /\ UNCHANGED <<pc, verdict>>
       ELSE i' = 0 /\ pc' = "munmap" /\ UNCHANGED verdict
    /\ UNCHANGED <<defect, runs, buf, t, pages, data, empty>>

munmap ==
    /\ pc = "munmap"
    /\ \/ End("ok")
       \/ "munmap" \in Faulty /\ End("call error")
    /\ UNCHANGED <<defect, runs, buf, t, pages, i, data, empty>>

Next == Start \/ open \/ ioctl \/ mmap \/ access \/ peek \/ validate \/ munmap

Spec == Init /\ [][Next]_vars
-----------------------------------------------------------------------------
Judged == pc = "idle" /\ verdict # "none"

\* The variables have their types; a private copy is never longer than the buffer.
TypeOK ==
    /\ runs \in 0 .. Runs
    /\ \A p \in Pages : buf[p].first \in 0 .. 255 /\ buf[p].rest \in 0 .. 255
    /\ t \in {0, 1, 2} /\ pages \in 1 .. MaxPages
    /\ pc \in {"idle", "open", "ioctl", "mmap", "access", "peek", "validate", "munmap"}
    /\ i \in 0 .. MaxPages
    /\ DOMAIN data \subseteq Pages
    /\ empty \in {0, 1}
    /\ verdict \in {"none", "ok", "call error", "compare error", "SIGBUS"}

\* With a correct kernel a test in which no call fails passes whatever the tests
\* before it have left in the buffer (one that ended at a failing call included),
\* unless it asks for more pages than the buffer has: then the fault handler
\* stops it at the first page behind.
Independent ==
    Judged /\ defect = "none" /\ empty = 0 /\ verdict # "call error" =>
        verdict = IF t # 0 /\ pages > BufPages THEN "SIGBUS" ELSE "ok"

\* A kernel that gives a shared mapping its own copies fails 002, and one that
\* copies a page without its content fails 001: the 'Z' that an earlier 002 has
\* left in the buffer never makes them pass.
DefectReported ==
    Judged /\ verdict = "ok" =>
        /\ t = 2 => defect # "shared_copied"
        /\ t = 1 => defect # "zero_page"
=============================================================================
