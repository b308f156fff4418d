----------------------------- MODULE MremapAnon -----------------------------
(***************************************************************************)
(* A run of a test point of mremap_mmap_anon: mremap_mmap_anon lays out    *)
(* the areas of params, RUN_FUNC calls mremap and judges what it did.      *)
(*                                                                         *)
(* mem maps every page of the address space to Unmapped or to a mapping:   *)
(* its protection, its bytes (one value for the page, since the tests fill *)
(* whole pages) and whether it lies beyond the end of a shared object.     *)
(* The system calls are external and modelled from the assertions made of  *)
(* them; defect names one way in which the kernel under test gets mremap   *)
(* wrong, "none" for a correct kernel.                                     *)
(***************************************************************************)
EXTENDS MremapTests, Sequences, FiniteSetsExt

CONSTANTS
    Pages,      \* the address space is 0 .. Pages - 1
    Slack,      \* the last page the kernel reserves at: it has room for a move
    Defects,    \* the kernel defects to try
    MayFail     \* may mmap, munmap and sigaction fail?

ASSUME SpaceAssumption == Pages \in Nat /\ Slack \in Nat /\ MayFail \in BOOLEAN

VARIABLES
    t,          \* the test number
    defect,
    pc,         \* "reserve", "format", "mremap", "check", "exited"
    i,          \* the area being formatted, or the check being made
    mem,
    addr,       \* addr[k]: params[k].addr
    remapped,   \* the address mremap returned
    errno,
    handler,    \* the signal whose handler is installed
    verdict     \* "none", "ok", an error, "exit0", or the signal that killed us

vars == <<t, defect, pc, i, mem, addr, remapped, errno, handler, verdict>>

P == Points[t].params
Call == Points[t].call
Space == 0 .. Pages - 1
MAP_FAILED == Pages         \* no address

Unmapped == [prot |-> {}, ch |-> "none", shared |-> 0, beyond |-> 0]
Span(a, n) == {p \in Space : a <= p /\ p < a + n}
AllFree(m, a, n) == a + n <= Pages /\ \A p \in Span(a, n) : m[p] = Unmapped
Mapping(prot, ch, sh) == [prot |-> prot, ch |-> ch, shared |-> sh, beyond |-> 0]

\* The sum over params, which has at most five areas.
Size(k) == IF k \in DOMAIN P THEN P[k].size ELSE 0
total_size == Size(1) + Size(2) + Size(3) + Size(4) + Size(5)

Init ==
    /\ t \in Numbers
    /\ defect \in {"none"} \cup Defects
    /\ pc = "reserve"
    /\ i = 1
    /\ mem = [p \in Space |-> Unmapped]
    /\ addr = [k \in DOMAIN P |-> MAP_FAILED]
    /\ remapped = MAP_FAILED
    /\ errno = "0"
    /\ handler = "SIG_DFL"
    /\ verdict = "none"

Exit(v) == pc' = "exited" /\ verdict' = v

\* One mmap reserves the whole range, wherever the kernel likes.
Reserve ==
    /\ pc = "reserve"
    /\ \/ \E a \in 0 .. Slack :
            /\ AllFree(mem, a, total_size)
            /\ mem' = [p \in Space |-> IF p \in Span(a, total_size) THEN Mapping({}, "nul", 1) ELSE mem[p]]
            /\ addr' = [addr EXCEPT ![1] = a]
            /\ pc' = "format"
            /\ UNCHANGED verdict
       \/ MayFail /\ Exit("mmap error.") /\ UNCHANGED <<mem, addr>>
    /\ UNCHANGED <<t, defect, i, remapped, errno, handler>>

\* '0' + i, with the areas counted from one.
Digit(k) == CASE k = 1 -> "0" [] k = 2 -> "1" [] k = 3 -> "2" [] k = 4 -> "3" [] OTHER -> "4"

Format_no_advance ==
    /\ pc = "format"
    /\ mem' = [p \in Space |->
                  IF p \notin Span(addr[i], P[i].size) THEN mem[p]
                  ELSE IF P[i].nopage = 1 THEN Unmapped
                  ELSE Mapping(P[i].prot, IF "PROT_WRITE" \in P[i].prot THEN Digit(i) ELSE "nul", P[i].shared)]
    /\ IF i = Len(P)
       THEN i' = 1 /\ pc' = "mremap" /\ UNCHANGED addr
       ELSE i' = i + 1 /\ addr' = [addr EXCEPT ![i + 1] = addr[i]] /\ UNCHANGED pc
    /\ UNCHANGED <<t, defect, remapped, errno, handler, verdict>>

\* One turn of the formatting loop: unmap the area, or map it anew at its fixed
\* place and fill it when it is writable.  A failure is a short count, which
\* RUN_FUNC reports.
Format ==
    /\ pc = "format"
    /\ \/ /\ mem' = [p \in Space |->
                        IF p \notin Span(addr[i], P[i].size) THEN mem[p]
                        ELSE IF P[i].nopage = 1 THEN Unmapped
                        ELSE Mapping(P[i].prot, IF "PROT_WRITE" \in P[i].prot THEN Digit(i) ELSE "nul", P[i].shared)]
          /\ IF i = Len(P)
             THEN i' = 1 /\ pc' = "mremap" /\ UNCHANGED addr
             ELSE i' = i + 1 /\ addr' = [addr EXCEPT ![i + 1] = addr[i] + P[i].size] /\ UNCHANGED pc
          /\ UNCHANGED verdict
       \/ MayFail /\ Exit("mmap error.") /\ UNCHANGED <<mem, addr, i>>
    /\ UNCHANGED <<t, defect, remapped, errno, handler>>
-----------------------------------------------------------------------------
(* mremap, as the assertions of the tests describe it.                     *)

Bad(d) == defect = d
Result(a, e, m) == [addr |-> a, errno |-> e, mem |-> m]
Fail(e) == {Result(MAP_FAILED, IF Bad("wrong_errno") THEN "EFAULT" ELSE e, mem)}

\* Pages a grown mapping gains: zero pages, or beyond the end of a shared object.
Gained(pg) ==
    [pg EXCEPT !.ch = "nul",
               !.beyond = IF pg.shared = 1 /\ ~Bad("shared_grows") THEN 1 ELSE 0,
               !.prot = IF Bad("grow_readonly") THEN {"PROT_READ"} ELSE @]

Unmap(m, a, n) == [p \in Space |-> IF p \in Span(a, n) THEN Unmapped ELSE m[p]]

\* The old n pages at a, placed at b with new size.
Move(m, a, n, b, new) ==
    LET gone == IF Bad("keep_old") THEN m ELSE Unmap(m, a, n)
    IN  [p \in Space |->
            IF p \notin Span(b, new) THEN gone[p]
            ELSE IF p - b < n THEN IF Bad("no_copy") THEN [m[a + (p - b)] EXCEPT !.ch = "nul"] ELSE m[a + (p - b)]
            ELSE Gained(m[a])]

Overlap(a, n, b, k) == a < b + k /\ b < a + n

\* The possible outcomes of mremap(a, old, new, flags, b) in the present state.
mremap(a, old, new, flags, b) ==
    IF "MREMAP_FIXED" \in flags
    THEN IF Overlap(a, old, b, new) /\ ~Bad("overlap")
         THEN Fail("EINVAL")
         ELSE LET most == IF Bad("clears_more") THEN new + 1 ELSE new
                  cleared == IF Overlap(a, old, b, most) THEN mem ELSE Unmap(mem, b, most)
              IN  {Result(b, "0", Move(cleared, a, old, b, new))}
    ELSE IF new <= old
    THEN {Result(a, "0", IF Bad("keep_tail") \/ new = old THEN mem ELSE Unmap(mem, a + new, old - new))}
    ELSE IF AllFree(mem, a + old, new - old) \/ (Bad("grow_over") /\ "MREMAP_MAYMOVE" \notin flags)
    THEN {Result(a, "0", [p \in Space |-> IF p \in Span(a + old, new - old) THEN Gained(mem[a]) ELSE mem[p]])}
    ELSE IF "MREMAP_MAYMOVE" \in flags
    THEN {Result(c, "0", Move(mem, a, old, c, new)) : c \in {d \in Space : AllFree(mem, d, new)}}
    ELSE Fail("ENOMEM")
-----------------------------------------------------------------------------
Address(w) == (IF w.area = 0 THEN remapped ELSE addr[w.area]) + w.off

Expected_no_errno(r) ==
    LET e == Points[t].expect
    IN  CASE e = "any" -> r.addr # MAP_FAILED
          [] e = "naddr" -> r.addr = addr[Call.naddr.area] + Call.naddr.off
          [] OTHER -> r.addr = MAP_FAILED

\* The assertions on the returned address and on errno.
Expected(r) ==
    LET e == Points[t].expect
    IN  CASE e = "any" -> r.addr # MAP_FAILED /\ r.errno = "0"
          [] e = "naddr" -> r.addr = addr[Call.naddr.area] + Call.naddr.off /\ r.errno = "0"
          [] OTHER -> r.addr = MAP_FAILED /\ r.errno = e

Remap ==
    /\ pc = "mremap"
    /\ \E r \in mremap(addr[Call.addr.area], Call.old, Call.new, Call.flags,
                       addr[Call.naddr.area] + Call.naddr.off) :
          /\ mem' = r.mem
          /\ remapped' = r.addr
          /\ errno' = r.errno
          /\ IF ~Expected(r) THEN Exit("error")
             ELSE IF Points[t].checks = <<>> THEN Exit("ok")
             ELSE pc' = "check" /\ UNCHANGED verdict
    /\ UNCHANGED <<t, defect, i, addr, handler>>

\* What reading, or writing, page p raises: "none" if nothing.
Fault(p, prot) ==
    IF p \notin Space \/ mem[p] = Unmapped THEN "SIGSEGV"
    ELSE IF prot \notin mem[p].prot THEN "SIGSEGV"
    ELSE IF mem[p].beyond = 1 THEN "SIGBUS"
    ELSE "none"

\* The handler ends the process with exit(0); without one the signal kills it.
Raise(sig) == Exit(IF handler = sig THEN "exit0" ELSE sig)

Advance ==
    IF i = Len(Points[t].checks)
    THEN Exit("ok") /\ UNCHANGED i
    ELSE i' = i + 1 /\ UNCHANGED <<pc, verdict>>

Here == Points[t].checks[i]
First == Address(Here.at)
Touched == First .. First + Here.len - 1

\* Reads the bytes one after the other, and stops at the first that faults or
\* differs.
mremap_mmap_anon_data_check ==
    /\ pc = "check" /\ Here.check = "data"
    /\ LET bad == {p \in Touched : Fault(p, "PROT_READ") # "none" \/ mem[p].ch # Here.exp}
       IN  IF bad = {} THEN Advance
           ELSE /\ IF Fault(Min(bad), "PROT_READ") # "none" THEN Raise(Fault(Min(bad), "PROT_READ")) ELSE Exit("error")
                /\ UNCHANGED i
    /\ UNCHANGED <<t, defect, mem, addr, remapped, errno, handler>>

\* Writes the first page, the last page and then every page.
mremap_mmap_anon_access_check ==
    /\ pc = "check" /\ Here.check = "access"
    /\ LET order == <<First, First + Here.len - 1>>
           bad == {p \in Touched : Fault(p, "PROT_WRITE") # "none"}
           worst == IF order[1] \in bad THEN order[1] ELSE IF order[2] \in bad THEN order[2] ELSE Min(bad)
       IN  IF bad = {}
           THEN /\ mem' = [p \in Space |-> IF p \in Touched THEN [mem[p] EXCEPT !.ch = "0"] ELSE mem[p]]
                /\ Advance
           ELSE /\ Raise(Fault(worst, "PROT_WRITE"))
                /\ UNCHANGED <<mem, i>>
    /\ UNCHANGED <<t, defect, addr, remapped, errno, handler>>

\* Installs the handler and reads: no signal means "signal handling error".
signal_check ==
    /\ pc = "check" /\ Here.check = "signal"
    /\ \/ /\ handler' = Here.exp
          /\ LET f == Fault(First, "PROT_READ")
             IN  Exit(IF f = "none" THEN "error" ELSE IF f = Here.exp THEN "exit0" ELSE f)
       \/ MayFail /\ Exit("sigaction error.") /\ UNCHANGED handler
    /\ UNCHANGED <<t, defect, i, mem, addr, remapped, errno>>

Finished == pc = "exited" /\ UNCHANGED vars

Next == \/ Reserve \/ Format \/ Remap
        \/ mremap_mmap_anon_data_check \/ mremap_mmap_anon_access_check \/ signal_check
        \/ Finished

Spec == Init /\ [][Next]_vars
-----------------------------------------------------------------------------
Passed == verdict \in {"ok", "exit0"}
Judged == pc = "exited" /\ verdict \notin {"mmap error.", "sigaction error."}

\* The variables have their types; only the first three areas are ever filled,
\* so a page holds zeros or one of three digits.
TypeOK ==
    /\ t \in Numbers
    /\ pc \in {"reserve", "format", "mremap", "check", "exited"}
    /\ i \in 1 .. 5
    /\ \A p \in Space : mem[p] = Unmapped \/ mem[p].ch \in {"nul", "0", "1", "2"}
    /\ \A k \in DOMAIN P : addr[k] \in 0 .. Pages
    /\ remapped \in 0 .. Pages
    /\ handler \in {"SIG_DFL", "SIGSEGV", "SIGBUS"}
    /\ verdict \in {"none", "ok", "exit0", "error", "mmap error.", "sigaction error.", "SIGSEGV", "SIGBUS"}

\* When RUN_FUNC calls mremap the areas lie side by side, in order, each with
\* the protection, the sharing and the fill its params ask for, and nothing
\* around them has changed: what a test does next depends on the neighbours.
LaidOut ==
    pc = "mremap" =>
        /\ \A k \in 1 .. Len(P) - 1 : addr[k + 1] = addr[k] + P[k].size
        /\ \A k \in DOMAIN P : \A p \in Span(addr[k], P[k].size) :
              IF P[k].nopage = 1 THEN mem[p] = Unmapped
              ELSE /\ mem[p].prot = P[k].prot /\ mem[p].shared = P[k].shared
                   /\ "PROT_WRITE" \in P[k].prot => mem[p].ch = Digit(k)
        /\ \A p \in Space \ Span(addr[1], total_size) : mem[p] = Unmapped

\* With a correct kernel every test point passes, wherever the kernel puts the
\* areas: no check depends on an address, reads a page it may not, or is made
\* before the handler it needs is there.
CorrectKernelPasses == Judged /\ defect = "none" => Passed

\* The shapes whose checks look at what each defect spoils.  A shape that makes the
\* same call and does not look there is not among them: 2 shrinks as 14 does and 5, 6,
\* 7, 12 and 13 move as 15 and 16 do, but they check the new area only, so that a tail
\* or an old area that stays mapped goes unseen; and only 7 looks behind the new area.
Shapes(d) ==
    CASE d = "keep_old" -> {15, 16}
      [] d = "no_copy" -> {5, 6, 7, 12, 13, 15, 16}
      [] d = "keep_tail" -> {14}
      [] d = "overlap" -> {8, 9, 10, 11}
      [] d = "grow_over" -> {4}
      [] d = "wrong_errno" -> {4, 8, 9, 10, 11}
      [] d = "clears_more" -> {7}
      [] d \in {"grow_readonly", "shared_grows"} -> {3, 5}
      [] OTHER -> {}

\* Private growth is tested by writing, shared growth by the bus error.
Catches(d) ==
    {n \in Numbers : /\ n % 100 \in Shapes(d)
                     /\ d = "grow_readonly" => (n \div 100) % 2 = 0
                     /\ d = "shared_grows" => (n \div 100) % 2 = 1}

\* A kernel that gets mremap wrong in one of the nine ways is reported by exactly the
\* test points of Catches, wherever it puts the areas: each of them fails, and all
\* others pass, the ones that make the same call included.
DefectReported == Judged /\ defect # "none" => (t \in Catches(defect) <=> ~Passed)
=============================================================================
