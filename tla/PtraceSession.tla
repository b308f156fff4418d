--------------------------- MODULE PtraceSession ---------------------------
(***************************************************************************)
(* One run of a ptrace test point: the test process (parent), the process  *)
(* it forks (child), in test 015 a grandchild, and the part of the kernel  *)
(* they synchronise through: two process-shared semaphores, signals,       *)
(* ptrace stops and wait.  The parent and the child follow the programs of *)
(* PtraceTests; every kernel call is one step, so the two interleave at    *)
(* every call.                                                             *)
(*                                                                         *)
(* The kernel is what the suite tests, so it is not assumed to be right:   *)
(* every call named in Faulty may fail.  A call paired with its test point *)
(* in Stub always fails: a helper that arch/x86 does not implement.        *)
(***************************************************************************)
EXTENDS Integers, Sequences

CONSTANTS
    Tests,       \* the test points under check
    Program,     \* their child_func, parent_func and RUN_FUNC
    Faulty,      \* calls that may fail
    Stub,        \* <<test point, helper>>: the helper always returns -1
    PromptStop   \* a pending SIGSTOP stops the child before its next step

VARIABLES
    test,        \* TEST_NUMBER of this run
    p,           \* parent: label, index in parent_func, its locals
    c,           \* child: label, index in child_func, ret
    k,           \* the child as the kernel sees it
    g,           \* the grandchild of test 015 as the kernel sees it
    sem,         \* values of the semaphores pwait and cwait
    cmem,        \* memory, registers and siginfo of the child
    failed,      \* calls that have failed so far (history)
    verdict      \* what RUN_FUNC returned; "ok" stands for NULL

vars == <<test, p, c, k, g, sem, cmem, failed, verdict>>

Stops == {"STOP", "TRAP", "ILL", "SEGV", "FORK", "FUTEX", "GETPID"}
Exits == {"EXIT0", "EXIT255", "KILL", "CRASH"}
Cells == {"buf", "addr", "text", "fpregs", "regs", "regno0", "regno1", "hw",
          "siginfo", "options", "eventpid", "eventmsg"}
Values == {"none", "ZERO", "CHILD", "PARENT", "INST", "-1", "NOP", "BRK", "BAD",
           "RAISED", "ON", "OFF", "MOD", "ALL", "TRACEFORK", "GRANDCHILD"}
              \cup Stops

(* The calls of the test points: of the system, of ptrace by request name, *)
(* and of the helpers in arch/; csem_ are the child's semaphore calls.     *)
(* "crash" is no call but the kernel's doing.                              *)
Calls ==
    {"mmap", "munmap", "sem_init", "sem_wait", "sem_post", "csem_wait", "csem_post",
     "fork", "gfork", "wait", "kill", "gkill", "raise", "getpid", "sleep", "crash",
     "TRACEME", "ATTACH", "DETACH", "CONT", "SYSCALL", "SINGLESTEP", "KILL",
     "PEEKDATA", "PEEKTEXT", "PEEKUSER", "POKEDATA", "POKETEXT", "POKEUSER",
     "GETFPREGS", "GETSIGINFO", "SETSIGINFO", "SETOPTIONS", "BADOPTIONS",
     "GETEVENTMSG", "get_inst", "do_inst", "get_store", "do_store", "regset",
     "regset_child", "set_hw", "clear_hw", "trap_addr", "syscallno", "local"}

(* Steps at which the parent uses the child it has stopped.               *)
RequestKinds == {"peek", "poke", "peekaddr", "peektext", "load", "restore",
                 "refused", "checkbuf", "stopsig", "syscallno", "gkill"}
ParentKinds == {"sem_wait", "sem_post", "setbuf", "kill", "attach", "wait",
                "waitpid", "resume"} \cup RequestKinds
ChildKinds == {"traceme", "getaddr", "set", "check", "sem_post", "sem_wait",
               "exec", "fork", "raise", "getpid", "sleep"}
ParentSteps ==
    {s \in [kind : ParentKinds, op : Calls, cell : Cells \cup {"none"},
            val : Values, fail : {"cont", "out", "next"}] :
        s.kind = "load" => s.cell \in Cells}
ChildSteps == [kind : ChildKinds, op : Calls,
               cell : Cells \cup {"none"}, val : Values,
               fail : {"out", "next", "post"}]

(* What every test point has in common.  The calls before the first stop   *)
(* leave through "out"; a step that needs the child stopped follows a wait  *)
(* or another such step (test 000 has no semaphores and never stops it);    *)
(* only test 018 kills the child, and judges the last wait accordingly.     *)
HoldKinds == RequestKinds \cup {"wait", "waitpid"}
UsesKind(prog, kind) == \E i \in DOMAIN prog : prog[i].kind = kind
ASSUME ProgramAssumption ==
    /\ PromptStop \in BOOLEAN
    /\ \A t \in Tests :
        /\ Program[t].start \in {"mmap", "fork"}
        /\ Program[t].tail \in {"cont", "out", "done"}
        /\ Program[t].final \in {"exit", "killed", "none"}
        /\ Program[t].parent \in Seq(ParentSteps)
        /\ Program[t].child \in Seq(ChildSteps)
ASSUME StopAssumption ==
    \A t \in Tests : Program[t].start = "mmap" =>
        /\ Program[t].tail = "cont" =>
              /\ Len(Program[t].parent) > 0
              /\ Program[t].parent[Len(Program[t].parent)].kind \in HoldKinds
        /\ \A i \in 1 .. Len(Program[t].parent) :
              /\ Program[t].parent[i].kind \in {"kill", "attach", "wait", "waitpid"}
                    => Program[t].parent[i].fail = "out"
              /\ Program[t].parent[i].kind \in RequestKinds \cup {"resume"}
                    => i > 1 /\ Program[t].parent[i - 1].kind \in HoldKinds
\* Where the child waits for cwait, no statement before the parent's first
\* wait resumes it, and SIGSTOP is sent before cwait is posted.
StopKinds == {"kill", "attach"}
ASSUME HandshakeAssumption ==
    \A t \in Tests : UsesKind(Program[t].child, "sem_wait") =>
        /\ Program[t].start = "mmap"
        /\ \E w \in 1 .. Len(Program[t].child) :
              /\ Program[t].child[w].kind = "sem_wait"
              /\ \A j \in 1 .. (w - 1) : Program[t].child[j].kind # "sem_wait"
        /\ \E f \in 1 .. Len(Program[t].parent) :
              /\ Program[t].parent[f].kind = "wait"
              /\ \A j \in 1 .. (f - 1) :
                    /\ Program[t].parent[j].kind \notin {"wait", "resume"}
                    /\ Program[t].parent[j].kind = "sem_post"
                          => \E s \in 1 .. (j - 1) : Program[t].parent[s].kind \in StopKinds
ASSUME JudgeAssumption ==
    \A t \in Tests :
        /\ Program[t].tail = "done" <=> Program[t].final = "none"
        /\ Program[t].final = "exit" =>
              \A i \in 1 .. Len(Program[t].parent) : Program[t].parent[i].op # "KILL"

\* A RUN_FUNC that waits for its child has set up the semaphores.  In one that
\* kills the child, the child makes no call that can fail but its first,
\* PTRACE_TRACEME, and munmap; nobody else has it traced.
ASSUME ErrorAssumption ==
    \A t \in Tests :
        /\ Program[t].final # "none" => Program[t].start = "mmap"
        /\ Program[t].final = "killed" =>
              /\ \A i \in 1 .. Len(Program[t].parent) : Program[t].parent[i].kind # "attach"
              /\ \A i \in 1 .. Len(Program[t].child) :
                    /\ Program[t].child[i].kind \in {"traceme", "sem_post", "sem_wait"}
                    /\ Program[t].child[i].kind = "traceme" => i = 1

\* Three steps go on when their call has failed.  Each leaves a wrong value
\* behind that a later step of the test point stumbles over.
Judged(t) == Program[t].final # "none" /\ ~UsesKind(Program[t].child, "fork")
Writes(s, cell) == s.kind \in {"poke", "restore", "set"} /\ s.cell = cell
\* A getaddr that goes on leaves -1 in addr; nobody else writes it, and the
\* parent has to look at the text there.
AddrPlan(t, a, j) ==
    LET child == Program[t].child  parent == Program[t].parent IN
    /\ child[a].kind = "getaddr" /\ child[a].fail = "next"
    /\ \A n \in 1 .. Len(child) :
          /\ child[n].kind = "getaddr" => n = a
          /\ ~Writes(child[n], "addr")
    /\ \A n \in 1 .. Len(parent) : ~Writes(parent[n], "addr")
    /\ parent[j].kind = "peek" /\ parent[j].cell = "text"
    /\ parent[j].fail # "next"
\* The one write of buf by the parent is a value the child never has there,
\* and the child's last use of buf is to compare it with that value.
BufPlan(t, b, w) ==
    LET child == Program[t].child  parent == Program[t].parent IN
    /\ parent[b].kind = "poke" /\ parent[b].cell = "buf" /\ parent[b].val # "ZERO"
    /\ \A n \in 1 .. Len(parent) : Writes(parent[n], "buf") => n = b
    /\ child[w].kind = "check" /\ child[w].cell = "buf" /\ child[w].val = parent[b].val
    /\ \A n \in 1 .. Len(child) :
          Writes(child[n], "buf") => n < w /\ child[n].val # parent[b].val
\* The instruction fetched at b is put back at r, after the stop at s has been
\* found to be a SIGTRAP: the child is at the instrumented instruction.
TextPlan(t, b, s, r) ==
    LET child == Program[t].child  parent == Program[t].parent IN
    /\ parent[b].kind = "peektext"
    /\ b < s /\ parent[s].kind = "stopsig" /\ parent[s].val = "TRAP"
    /\ s > 1 /\ parent[s - 1].kind \in {"wait", "waitpid"}
    /\ s < r /\ parent[r].kind = "restore" /\ parent[r].cell = "text"
    /\ \A n \in 1 .. Len(parent) :
          /\ parent[n].kind \in {"peektext", "load"} => n = b
          /\ n \in s .. r => parent[n].kind \in RequestKinds
          /\ n < s => parent[n].op \notin {"SYSCALL", "SINGLESTEP"}
          /\ n > r => ~Writes(parent[n], "text")
    /\ \A n \in 1 .. Len(child) : ~Writes(child[n], "text")
\* Every other step looks at its result.  The parent waits for a stop of the
\* child at least once, and a child it detaches uses nothing but semaphores.
ASSUME QuietAssumption ==
    \A t \in Tests : Judged(t) =>
        LET child == Program[t].child  parent == Program[t].parent IN
        /\ \E i \in 1 .. Len(parent) : parent[i].kind \in {"wait", "waitpid"}
        /\ \A i \in 1 .. Len(parent) :
              /\ parent[i].fail # "next"
              /\ parent[i].kind = "poke" /\ parent[i].cell = "buf" =>
                    \E w \in 1 .. Len(child) : BufPlan(t, i, w)
              /\ parent[i].kind = "peektext" =>
                    \E s, r \in 1 .. Len(parent) : TextPlan(t, i, s, r)
              /\ parent[i].op = "DETACH" =>
                    \A n \in 1 .. Len(child) : child[n].kind \in {"sem_post", "sem_wait"}
        /\ \A a \in 1 .. Len(child) :
              child[a].kind = "getaddr" /\ child[a].fail = "next" =>
                 \E j \in 1 .. Len(parent) : AddrPlan(t, a, j)

\* Steps that come to their end only with the call they are about.
HelperKinds == {"peek", "poke", "peekaddr", "peektext", "load", "restore", "refused",
                "syscallno", "resume", "getaddr", "check", "exec"}
SemCalls == {"sem_wait", "sem_post", "csem_wait", "csem_post"}
\* The semaphores: each of the two processes posts once, the child at q after
\* its getaddr (which posts in its stead when it fails), the parent at r, and
\* waits for the other, the parent at w and the child at v.
SemPlan(t, q, w, r, v) ==
    LET child == Program[t].child  parent == Program[t].parent IN
    /\ child[q].kind = "sem_post" /\ parent[w].kind = "sem_wait"
    /\ parent[r].kind = "sem_post" /\ child[v].kind = "sem_wait"
    /\ \A n \in 1 .. Len(child) :
          /\ child[n].kind = "sem_post" => n = q
          /\ child[n].kind = "getaddr" => n < q
    /\ \A n \in 1 .. Len(parent) : parent[n].kind = "sem_post" => n = r
\* Nobody looks at what the semaphore calls return, nor at the kill and the
\* raise that only a test point with a grandchild has.
ASSUME SemAssumption ==
    \A t \in Tests : Judged(t) =>
        LET child == Program[t].child  parent == Program[t].parent IN
        /\ \E q, v \in 1 .. Len(child) : \E w, r \in 1 .. Len(parent) : SemPlan(t, q, w, r, v)
        /\ \A n \in 1 .. Len(child) :
              child[n].kind # "raise" /\ (child[n].kind \in HelperKinds => child[n].op \notin SemCalls)
        /\ \A n \in 1 .. Len(parent) :
              parent[n].kind # "gkill" /\ (parent[n].kind \in HelperKinds => parent[n].op \notin SemCalls)

\* A call that always fails (Stub) is a helper of arch/, not a system call.
SysCalls == {"mmap", "sem_init", "fork", "munmap", "wait", "kill", "gkill", "raise",
             "ATTACH", "TRACEME", "gfork", "CONT", "crash"} \cup SemCalls
ASSUME StubAssumption == \A t \in Tests : \A op \in SysCalls : <<t, op>> \notin Stub
Missing(t, s) == s.kind \in HelperKinds /\ <<t, s.op>> \in Stub
NeedsStub(t) ==
    \/ \E i \in 1 .. Len(Program[t].parent) : Missing(t, Program[t].parent[i])
    \/ \E i \in 1 .. Len(Program[t].child) : Missing(t, Program[t].child[i])

CanPass(op) == <<test, op>> \notin Stub
CanFail(op) == op \in Faulty \/ <<test, op>> \in Stub
Errs(op) == failed' = failed \cup {op}
Passes == UNCHANGED failed

(* WEXITSTATUS of a wait status: stops and exit(-1) leave it non-zero, a   *)
(* death by signal leaves it zero.                                         *)
WEXITSTATUS(why) == IF why \in {"EXIT0", "KILL", "CRASH"} THEN 0 ELSE 1
\* WSTOPSIG is SIGTRAP for a trap and for every ptrace event.
WSTOPSIG(why) == IF why \in {"TRAP", "FORK", "FUTEX", "GETPID"} THEN "TRAP" ELSE why

--------------------------------------------------------------------------
Init ==
    /\ test \in Tests
    /\ p = [at |-> Program[test].start, ix |-> 1, ret |-> -1, buf |-> "ZERO",
            read_val |-> "ZERO", inst_val |-> "ZERO", status |-> "none"]
    /\ c = [at |-> "unborn", ix |-> 1, ret |-> -1]
    /\ k = [st |-> "unborn", why |-> "none", seen |-> FALSE, pending |-> FALSE,
            traced |-> FALSE, mode |-> "CONT", futex |-> "no"]
    /\ g = [st |-> "unborn", seen |-> FALSE]
    /\ sem = [pwait |-> 0, cwait |-> 0]
    /\ cmem = [x \in Cells |-> IF x = "text" THEN "NOP" ELSE "ZERO"]
    /\ failed = {}
    /\ verdict = "none"

(* ------------------------------ RUN_FUNC ------------------------------ *)
\* mmap returns MAP_FAILED, not NULL, so "!pwait" does not see the failure
\* and sem_init writes through the bad pointer.
RunMmap ==
    /\ p.at = "mmap" /\ verdict = "none"
    /\ \/ /\ CanFail("mmap") /\ Errs("mmap")
          /\ verdict' = "SIGSEGV"
          /\ p' = [p EXCEPT !.at = "done"]
       \/ /\ CanFail("sem_init") /\ Errs("sem_init")
          /\ verdict' = "sem_init() failed."
          /\ p' = [p EXCEPT !.at = "done"]
       \/ /\ Passes
          /\ p' = [p EXCEPT !.at = "fork"]
          /\ UNCHANGED verdict
    /\ UNCHANGED <<test, c, k, g, sem, cmem>>

RunFork ==
    /\ p.at = "fork"
    /\ \/ /\ CanFail("fork") /\ Errs("fork")
          /\ verdict' = "fork() failed."
          /\ p' = [p EXCEPT !.at = "done"]
          /\ UNCHANGED <<c, k>>
       \/ /\ Passes
          /\ p' = [p EXCEPT !.at = "func"]
          /\ c' = [c EXCEPT !.at = "func"]
          /\ k' = [k EXCEPT !.st = "run"]
          /\ UNCHANGED verdict
    /\ UNCHANGED <<test, g, sem, cmem>>

RunUnmap ==
    /\ p.at = "out"
    /\ \/ /\ CanFail("munmap") /\ Errs("munmap")
          /\ verdict' = "munmap() failed."
          /\ p' = [p EXCEPT !.at = "done"]
       \/ /\ Passes
          /\ p' = [p EXCEPT !.at = "final"]
          /\ UNCHANGED verdict
    /\ UNCHANGED <<test, c, k, g, sem, cmem>>

Judge_parent_only(why) == IF p.ret = 0 THEN "ok" ELSE "TP failed." \* mutant
\* What RUN_FUNC makes of the status its last wait returned.
Judge(why) ==
    IF Program[test].final = "killed"
    THEN CASE why = "CRASH" -> "child is not terminated by SIGKILL"
           [] why = "KILL" -> IF p.ret = 0 THEN "ok" ELSE "TP failed."
           [] OTHER -> "child is not terminated by signal"
    ELSE IF WEXITSTATUS(why) = 0 /\ p.ret = 0 THEN "ok" ELSE "TP failed."

(* ------------------------- wait, as the kernel does it ----------------- *)
\* A stop is reported to the tracer once; a zombie is reaped.
ChildEvent == \/ k.st = "stop" /\ k.traced /\ ~k.seen
              \/ k.st = "zombie"
ReapChild == k' = [k EXCEPT !.seen = TRUE,
                            !.st = IF k.st = "zombie" THEN "gone" ELSE @]
GrandchildEvent == g.st \in {"stop", "zombie"} /\ ~g.seen
ReapGrandchild == g' = [g EXCEPT !.seen = TRUE,
                                 !.st = IF g.st = "zombie" THEN "gone" ELSE @]
NoChildren == k.st = "gone" /\ g.st \in {"unborn", "gone"}

RunWait ==
    /\ p.at = "final"
    /\ p' = [p EXCEPT !.at = "done"]
    /\ \/ ChildEvent /\ ReapChild /\ verdict' = Judge(k.why)
          /\ Passes /\ UNCHANGED g
       \/ GrandchildEvent /\ ReapGrandchild
          /\ verdict' = Judge(IF g.st = "zombie" THEN "KILL" ELSE "STOP")
          /\ Passes /\ UNCHANGED k
       \/ /\ NoChildren \/ CanFail("wait")
          /\ Errs("wait") /\ verdict' = "wait() failed."
          /\ UNCHANGED <<k, g>>
    /\ UNCHANGED <<test, c, sem, cmem>>

(* ------------------------------ parent_func ---------------------------- *)
PStep == Program[test].parent[p.ix]
AtP(kind) == /\ p.at = "func" /\ p.ix <= Len(Program[test].parent)
             /\ PStep.kind = kind
pNext == [p EXCEPT !.ix = @ + 1]
\* the error branch of a step: goto cont, goto out, or ignore the error
pFail == IF PStep.fail = "next" THEN pNext ELSE [p EXCEPT !.at = PStep.fail]

\* Nobody looks at what sem_wait and sem_post return: a parent whose sem_wait
\* failed goes on without having waited.
P_sem_wait ==
    /\ AtP("sem_wait") /\ p' = pNext
    /\ \/ sem.pwait > 0 /\ sem' = [sem EXCEPT !.pwait = @ - 1] /\ Passes
       \/ CanFail("sem_wait") /\ Errs("sem_wait") /\ UNCHANGED sem
    /\ UNCHANGED <<test, c, k, g, cmem, verdict>>

\* wakes the child if it sleeps in its futex call; a child that has already
\* left the call for a stop will make it again
P_sem_post ==
    /\ AtP("sem_post") /\ p' = pNext
    /\ \/ /\ sem' = [sem EXCEPT !.cwait = @ + 1] /\ Passes
          /\ k' = [k EXCEPT !.futex = IF @ = "asleep" /\ k.st = "run" THEN "woken" ELSE @]
       \/ CanFail("sem_post") /\ Errs("sem_post") /\ UNCHANGED <<sem, k>>
    /\ UNCHANGED <<test, c, g, cmem, verdict>>

P_buf ==
    /\ \/ AtP("setbuf") /\ p' = [pNext EXCEPT !.buf = PStep.val]
       \/ AtP("checkbuf") /\ p' = IF p.buf = PStep.val THEN pNext ELSE pFail
    /\ UNCHANGED <<test, c, k, g, sem, cmem, failed, verdict>>

P_kill_signal0 == \* mutant
    /\ AtP("kill") /\ p' = pNext
    /\ UNCHANGED <<test, c, k, g, sem, cmem, failed, verdict>>
\* kill(cpid, SIGSTOP): queued for a child that runs or is stopped, lost on a zombie.
P_kill ==
    /\ AtP("kill")
    /\ \/ /\ CanFail("kill") /\ Errs("kill")
          /\ p' = pFail /\ UNCHANGED k
       \/ /\ Passes /\ p' = pNext
          /\ k' = [k EXCEPT !.pending = (k.st \in {"run", "stop"})]
    /\ UNCHANGED <<test, c, g, sem, cmem, verdict>>

P_attach ==
    /\ AtP("attach")
    /\ \/ /\ CanFail("ATTACH") \/ k.st # "run"
          /\ Errs("ATTACH") /\ p' = pFail /\ UNCHANGED k
       \/ /\ k.st = "run" /\ Passes /\ p' = pNext
          /\ k' = [k EXCEPT !.pending = TRUE, !.traced = TRUE]
    /\ UNCHANGED <<test, c, g, sem, cmem, verdict>>

P_wait_no_wifstopped == \* mutant
    /\ AtP("wait") \/ AtP("waitpid")
    /\ ChildEvent /\ ReapChild
    /\ p' = [pNext EXCEPT !.status = k.why]
    /\ UNCHANGED <<test, c, g, sem, cmem, failed, verdict>>
\* wait or waitpid, and the tests "pid == cpid" and WIFSTOPPED(status)
P_wait ==
    /\ AtP("wait") \/ AtP("waitpid")
    /\ \/ /\ ChildEvent /\ ReapChild /\ Passes /\ UNCHANGED g
          /\ p' = IF k.st = "stop" THEN [pNext EXCEPT !.status = k.why] ELSE pFail
       \/ /\ PStep.kind = "wait"
          /\ GrandchildEvent /\ ReapGrandchild /\ Passes /\ UNCHANGED k
          /\ p' = pFail
       \/ /\ NoChildren \/ CanFail("wait")
          /\ Errs("wait") /\ UNCHANGED <<k, g>>
          /\ p' = pFail
    /\ UNCHANGED <<test, c, sem, cmem, verdict>>

\* A ptrace request is refused (ESRCH) unless the child is in a ptrace stop,
\* and an access to its text is refused (EIO) where no instruction is.
Tracee == k.st = "stop" /\ k.traced
Legal(s) == Tracee /\ (s.cell = "text" => p.read_val = "INST")
Accepted(s) == Legal(s) /\ CanPass(s.op) /\ Passes
Rejected(s) == (~Legal(s) \/ CanFail(s.op)) /\ Errs(s.op)

P_peek_ignored == \* mutant
    /\ AtP("peek")
    /\ \/ Accepted(PStep) /\ p' = IF cmem[PStep.cell] = PStep.val THEN pNext ELSE pFail
       \/ Rejected(PStep) /\ p' = pNext
    /\ UNCHANGED <<test, c, k, g, sem, cmem, verdict>>
P_peek ==
    /\ AtP("peek")
    /\ \/ /\ Accepted(PStep)
          /\ p' = IF cmem[PStep.cell] = PStep.val THEN pNext ELSE pFail
       \/ Rejected(PStep) /\ p' = pFail
    /\ UNCHANGED <<test, c, k, g, sem, cmem, verdict>>

\* A hardware breakpoint set anywhere but at the instruction does not trigger.
\* A faulty write of "buf" may also be lost, or land in the caller's "buf".
P_poke ==
    /\ AtP("poke")
    /\ \/ /\ Accepted(PStep) /\ p' = pNext
          /\ cmem' = [cmem EXCEPT ![PStep.cell] =
                         IF PStep.cell = "hw" /\ p.read_val # "INST" THEN "OFF" ELSE PStep.val]
       \/ Rejected(PStep) /\ p' = pFail /\ UNCHANGED cmem
       \/ /\ PStep.op \in Faulty /\ PStep.cell = "buf" /\ Errs(PStep.op)
          /\ p' \in {pNext, [pNext EXCEPT !.buf = PStep.val]}
          /\ UNCHANGED cmem
    /\ UNCHANGED <<test, c, k, g, sem, verdict>>

\* "(read_val == -1) && errno": a stale errno decides when -1 was read
P_peekaddr ==
    /\ AtP("peekaddr")
    /\ \/ /\ Accepted(PStep)
          /\ \/ p' = [pNext EXCEPT !.read_val = cmem["addr"]]
             \/ cmem["addr"] = "-1" /\ p' = [pFail EXCEPT !.read_val = "-1"]
       \/ Rejected(PStep) /\ p' = [pFail EXCEPT !.read_val = "-1"]
    /\ UNCHANGED <<test, c, k, g, sem, cmem, verdict>>

\* The result goes to inst_val, but the error test looks at read_val.
P_peektext ==
    /\ AtP("peektext")
    /\ \/ /\ Accepted(PStep)
          /\ p' = [pNext EXCEPT !.inst_val = cmem["text"]]
       \/ /\ Rejected(PStep)
          /\ p' = IF p.read_val = "-1" THEN pFail
                  ELSE [pNext EXCEPT !.inst_val = "BAD"]
    /\ UNCHANGED <<test, c, k, g, sem, cmem, verdict>>

P_load ==
    /\ AtP("load")
    /\ \/ /\ Accepted(PStep)
          /\ p' = [pNext EXCEPT !.inst_val = cmem[PStep.cell]]
       \/ Rejected(PStep) /\ p' = pFail
    /\ UNCHANGED <<test, c, k, g, sem, cmem, verdict>>

P_restore ==
    /\ AtP("restore")
    /\ \/ /\ Accepted(PStep) /\ p' = pNext
          /\ cmem' = [cmem EXCEPT ![PStep.cell] = p.inst_val]
       \/ Rejected(PStep) /\ p' = pFail /\ UNCHANGED cmem
    /\ UNCHANGED <<test, c, k, g, sem, verdict>>

\* A request the kernel must refuse: the fault is that it does not.
P_refused ==
    /\ AtP("refused")
    /\ \/ Accepted(PStep) /\ p' = pNext
       \/ Rejected(PStep) /\ p' = pFail
    /\ UNCHANGED <<test, c, k, g, sem, cmem, verdict>>

P_stopsig_unread == \* mutant
    /\ \/ /\ AtP("stopsig") /\ Passes
          /\ p' = IF WSTOPSIG(p.status) = PStep.val THEN pNext ELSE pFail
       \/ /\ AtP("syscallno") /\ Accepted(PStep)
          /\ p' = IF p.status = PStep.val THEN pNext ELSE pFail
       \/ AtP("syscallno") /\ Rejected(PStep) /\ p' = pNext
    /\ UNCHANGED <<test, c, k, g, sem, cmem, verdict>>
\* WSTOPSIG of the last stop, or the system call it was in
P_stopsig ==
    /\ \/ /\ AtP("stopsig") /\ Passes
          /\ p' = IF WSTOPSIG(p.status) = PStep.val THEN pNext ELSE pFail
       \/ /\ AtP("syscallno") /\ Accepted(PStep)
          /\ p' = IF p.status = PStep.val THEN pNext ELSE pFail
       \/ AtP("syscallno") /\ Rejected(PStep) /\ p' = pFail
    /\ UNCHANGED <<test, c, k, g, sem, cmem, verdict>>

\* PTRACE_CONT, SYSCALL, SINGLESTEP, KILL and DETACH on the child
Resumed(op) ==
    IF op = "KILL"
    THEN [k EXCEPT !.st = "zombie", !.why = "KILL", !.seen = FALSE]
    ELSE [k EXCEPT !.st = "run", !.traced = (op # "DETACH"),
                   !.mode = IF op \in {"SYSCALL", "SINGLESTEP"} THEN op ELSE "CONT"]

P_resume ==
    /\ AtP("resume")
    /\ \/ Accepted(PStep) /\ p' = pNext /\ k' = Resumed(PStep.op)
       \/ Rejected(PStep) /\ p' = pFail /\ UNCHANGED k
    /\ UNCHANGED <<test, c, g, sem, cmem, verdict>>

P_gkill ==
    /\ AtP("gkill") /\ p' = pNext
    /\ \/ CanFail("gkill") /\ Errs("gkill") /\ UNCHANGED g
       \/ /\ g' = IF g.st \in {"run", "stop"} THEN [st |-> "zombie", seen |-> FALSE] ELSE g
          /\ Passes
    /\ UNCHANGED <<test, c, k, sem, cmem, verdict>>

\* "ret = 0" and the label the function falls into
P_success ==
    /\ p.at = "func" /\ p.ix > Len(Program[test].parent)
    /\ p' = [p EXCEPT !.ret = 0, !.at = Program[test].tail]
    /\ verdict' = IF Program[test].tail = "done" THEN "ok" ELSE verdict
    /\ UNCHANGED <<test, c, k, g, sem, cmem, failed>>

CONT == [op |-> "CONT", cell |-> "none"]
P_cont ==
    /\ p.at = "cont"
    /\ \/ /\ Accepted(CONT) /\ k' = Resumed("CONT")
          /\ p' = [p EXCEPT !.at = "out"]
       \/ /\ Rejected(CONT) /\ UNCHANGED k
          /\ p' = [p EXCEPT !.at = "out", !.ret = -1]
    /\ UNCHANGED <<test, c, g, sem, cmem, verdict>>

(* ------------------------------ child_func ----------------------------- *)
CStep == Program[test].child[c.ix]
AtC(kind) == /\ c.at = "func" /\ c.ix <= Len(Program[test].child)
             /\ CStep.kind = kind
cNext == [c EXCEPT !.ix = @ + 1]
cFail == [c EXCEPT !.at = "out"]
\* A pending SIGSTOP is taken on the way out of the kernel at the latest;
\* without PromptStop user-mode instructions may still run before that.
Runs(user) == k.st = "run" /\ (k.pending => user /\ ~PromptStop)
Stopped(why) == [k EXCEPT !.st = "stop", !.why = why, !.seen = FALSE,
                          !.pending = @ /\ why # "STOP", !.mode = "CONT",
                          !.futex = IF @ = "woken" THEN "no" ELSE @]
SetInfo(why) == [cmem EXCEPT !["siginfo"] = why]

K_deliver ==
    /\ k.st = "run" /\ k.pending
    /\ k' = Stopped("STOP") /\ cmem' = SetInfo("STOP")
    /\ UNCHANGED <<test, p, c, g, sem, failed, verdict>>

\* PTRACE_SINGLESTEP: one instruction, then SIGTRAP (or what it raised)
K_step ==
    /\ k.st = "run" /\ k.mode = "SINGLESTEP" /\ ~k.pending
    /\ LET why == IF cmem["text"] = "BAD" THEN "ILL" ELSE "TRAP" IN
       k' = Stopped(why) /\ cmem' = SetInfo(why)
    /\ UNCHANGED <<test, p, c, g, sem, failed, verdict>>

\* PTRACE_SYSCALL: an interrupted futex call is restarted and traps first
K_futex_restart ==
    /\ k.st = "run" /\ k.mode = "SYSCALL" /\ k.futex = "asleep" /\ ~k.pending
    /\ k' = Stopped("FUTEX") /\ cmem' = SetInfo("TRAP")
    /\ UNCHANGED <<test, p, c, g, sem, failed, verdict>>

Free(user) == Runs(user) /\ k.mode # "SINGLESTEP" /\ ~(k.mode = "SYSCALL" /\ k.futex = "asleep")

C_traceme ==
    /\ AtC("traceme") /\ Free(FALSE)
    /\ \/ CanFail("TRACEME") /\ Errs("TRACEME") /\ c' = cFail /\ UNCHANGED k
       \/ Passes /\ c' = cNext /\ k' = [k EXCEPT !.traced = TRUE]
    /\ UNCHANGED <<test, p, g, sem, cmem, verdict>>

C_getaddr ==
    /\ AtC("getaddr") /\ Free(TRUE)
    /\ \/ /\ CanPass(CStep.op) /\ Passes /\ c' = cNext
          /\ cmem' = [cmem EXCEPT !["addr"] = "INST"]
          /\ UNCHANGED sem
       \/ /\ CanFail(CStep.op)
          /\ cmem' = [cmem EXCEPT !["addr"] = "-1"]
          /\ c' = IF CStep.fail = "next" THEN cNext ELSE cFail
          /\ \/ /\ Errs(CStep.op)
                /\ sem' = [sem EXCEPT !.pwait = IF CStep.fail = "post" THEN @ + 1 ELSE @]
             \/ /\ CStep.fail = "post" /\ CanFail("csem_post")
                /\ failed' = failed \cup {CStep.op, "csem_post"} /\ UNCHANGED sem
    /\ UNCHANGED <<test, p, k, g, verdict>>

C_set ==
    /\ AtC("set") /\ Free(TRUE)
    /\ cmem' = [cmem EXCEPT ![CStep.cell] = CStep.val]
    /\ c' = cNext
    /\ UNCHANGED <<test, p, k, g, sem, failed, verdict>>

C_check ==
    /\ AtC("check") /\ Free(TRUE)
    /\ \/ /\ CanPass(CStep.op) /\ Passes
          /\ c' = IF cmem[CStep.cell] = CStep.val THEN cNext ELSE cFail
       \/ CanFail(CStep.op) /\ Errs(CStep.op) /\ c' = cFail
    /\ UNCHANGED <<test, p, k, g, sem, cmem, verdict>>

C_sem_post ==
    /\ AtC("sem_post") /\ Free(FALSE) /\ c' = cNext
    /\ \/ sem' = [sem EXCEPT !.pwait = @ + 1] /\ Passes
       \/ CanFail("csem_post") /\ Errs("csem_post") /\ UNCHANGED sem
    /\ UNCHANGED <<test, p, k, g, cmem, verdict>>

\* sem_wait finds 0 and sleeps in the futex call
C_sem_block ==
    /\ AtC("sem_wait") /\ Free(FALSE)
    /\ sem.cwait = 0 /\ k.futex = "no"
    /\ k' = [k EXCEPT !.futex = "asleep"]
    /\ UNCHANGED <<test, p, c, g, sem, cmem, failed, verdict>>

C_sem_wait ==
    /\ AtC("sem_wait") /\ c' = cNext
    /\ \/ /\ Free(k.futex = "no") /\ sem.cwait > 0
          /\ sem' = [sem EXCEPT !.cwait = @ - 1] /\ Passes
       \/ /\ Free(FALSE) /\ CanFail("csem_wait")
          /\ Errs("csem_wait") /\ UNCHANGED sem
    /\ k' = [k EXCEPT !.futex = "no"]
    /\ UNCHANGED <<test, p, g, cmem, verdict>>

\* The instrumented instruction: traps while a breakpoint is in place.
C_exec ==
    /\ AtC("exec") /\ Free(TRUE)
    /\ \/ /\ cmem["text"] = "BRK" \/ cmem["hw"] = "ON"
          /\ k' = Stopped("TRAP") /\ cmem' = SetInfo("TRAP")
          /\ Passes /\ UNCHANGED c
       \/ /\ cmem["text"] = "BAD"
          /\ k' = Stopped("ILL") /\ cmem' = SetInfo("ILL")
          /\ Passes /\ UNCHANGED c
       \/ /\ cmem["text"] = "NOP" /\ cmem["hw"] # "ON" /\ CanPass(CStep.op)
          /\ c' = cNext /\ Passes /\ UNCHANGED <<k, cmem>>
       \/ /\ cmem["text"] = "NOP" /\ cmem["hw"] # "ON" /\ CanFail(CStep.op)
          /\ c' = cFail /\ Errs(CStep.op) /\ UNCHANGED <<k, cmem>>
    /\ UNCHANGED <<test, p, g, sem, verdict>>

\* fork under PTRACE_O_TRACEFORK: the grandchild starts traced, with a stop
\* of its own to take, and the child stops at the fork event.
C_fork ==
    /\ AtC("fork") /\ Free(FALSE)
    /\ \/ CanFail("gfork") /\ Errs("gfork") /\ c' = cFail /\ UNCHANGED <<k, g, cmem>>
       \/ /\ Passes /\ c' = cNext /\ cmem["options"] = "TRACEFORK"
          /\ g' = [g EXCEPT !.st = "run"]
          /\ k' = Stopped("FORK")
          /\ cmem' = [SetInfo("TRAP") EXCEPT !["eventmsg"] = "GRANDCHILD"]
       \/ /\ Passes /\ c' = cNext /\ cmem["options"] # "TRACEFORK"
          /\ UNCHANGED <<k, g, cmem>>
    /\ UNCHANGED <<test, p, sem, verdict>>

G_stop ==
    /\ g.st = "run"
    /\ g' = [g EXCEPT !.st = "stop"]
    /\ UNCHANGED <<test, p, c, k, sem, cmem, failed, verdict>>

C_raise ==
    /\ AtC("raise") /\ Free(FALSE) /\ c' = cNext
    /\ \/ CanFail("raise") /\ Errs("raise") /\ UNCHANGED <<k, cmem>>
       \/ k' = Stopped("STOP") /\ cmem' = SetInfo("STOP") /\ Passes
    /\ UNCHANGED <<test, p, g, sem, verdict>>

\* Under PTRACE_SYSCALL the call is entered through a stop.
C_getpid ==
    /\ AtC("getpid") /\ Free(FALSE)
    /\ \/ /\ k.mode = "SYSCALL"
          /\ k' = Stopped("GETPID") /\ cmem' = SetInfo("TRAP")
          /\ UNCHANGED c
       \/ k.mode # "SYSCALL" /\ c' = cNext /\ UNCHANGED <<k, cmem>>
    /\ UNCHANGED <<test, p, g, sem, failed, verdict>>

C_sleep ==
    /\ AtC("sleep") /\ Free(FALSE)
    /\ c' = cNext
    /\ UNCHANGED <<test, p, k, g, sem, cmem, failed, verdict>>

\* "ret = 0" at the end of child_func
C_success ==
    /\ c.at = "func" /\ c.ix > Len(Program[test].child) /\ Free(TRUE)
    /\ c' = [c EXCEPT !.ret = 0, !.at = "out"]
    /\ UNCHANGED <<test, p, k, g, sem, cmem, failed, verdict>>

Exited(ret) == [k EXCEPT !.st = "zombie", !.seen = FALSE,
                         !.why = IF ret = 0 THEN "EXIT0" ELSE "EXIT255"]

\* munmap of the semaphores, then exit(func_ret)
C_exit ==
    /\ c.at = "out" /\ Free(FALSE)
    /\ \/ Passes /\ c' = [c EXCEPT !.at = "done"] /\ k' = Exited(c.ret)
       \/ /\ Program[test].start = "mmap" /\ CanFail("munmap") /\ Errs("munmap")
          /\ c' = [c EXCEPT !.at = "done", !.ret = -1] /\ k' = Exited(-1)
    /\ UNCHANGED <<test, p, g, sem, cmem, verdict>>

\* The kernel under test kills the child where it should have run: traced,
\* it stops with the signal; untraced, it dies of it.
K_crash ==
    /\ CanFail("crash") /\ k.st = "run" /\ "crash" \notin failed
    /\ Errs("crash")
    /\ \/ k.traced /\ k' = Stopped("SEGV") /\ cmem' = SetInfo("SEGV")
       \/ /\ ~k.traced /\ UNCHANGED cmem
          /\ k' = [k EXCEPT !.st = "zombie", !.why = "CRASH", !.seen = FALSE]
    /\ UNCHANGED <<test, p, c, g, sem, verdict>>

--------------------------------------------------------------------------
Parent ==
    \/ RunMmap \/ RunFork \/ RunUnmap \/ RunWait
    \/ P_sem_wait \/ P_sem_post \/ P_buf \/ P_kill \/ P_attach \/ P_wait
    \/ P_peek \/ P_poke \/ P_peekaddr \/ P_peektext \/ P_load \/ P_restore
    \/ P_refused \/ P_stopsig \/ P_resume \/ P_gkill \/ P_success \/ P_cont

Child ==
    \/ K_deliver \/ K_step \/ K_futex_restart
    \/ C_traceme \/ C_getaddr \/ C_set \/ C_check \/ C_sem_post
    \/ C_sem_block \/ C_sem_wait \/ C_exec \/ C_fork \/ C_raise
    \/ C_getpid \/ C_sleep \/ C_success \/ C_exit

\* RUN_FUNC has returned; the framework takes over.
Finished == verdict # "none" /\ UNCHANGED vars

Next == Parent \/ Child \/ G_stop \/ K_crash \/ Finished

Spec == Init /\ [][Next]_vars

\* The parent is in a wait that has nothing to return, or in a sem_wait nobody
\* has posted, or the child is.  Such a call may fail, but nobody can count on
\* it: the other steps of the two are owed, this one and the crash of the child
\* are not.
Waiting ==
    \/ AtP("sem_wait") /\ sem.pwait = 0
    \/ /\ p.at = "final" \/ AtP("wait") \/ AtP("waitpid")
       /\ ~ChildEvent /\ ~NoChildren
       /\ AtP("waitpid") \/ ~GrandchildEvent
Sleeping == AtC("sem_wait") /\ Free(FALSE) /\ k.futex # "no" /\ sem.cwait = 0
\* Both processes are scheduled for as long as they can run.
FairSpec ==
    Spec /\ WF_vars(Parent /\ ~Waiting) /\ WF_vars(Child /\ ~Sleeping) /\ WF_vars(G_stop)

(* ------------------------------ properties ----------------------------- *)
Verdicts == {"none", "ok", "TP failed.", "wait() failed.", "munmap() failed.",
             "fork() failed.", "sem_init() failed.", "SIGSEGV",
             "child is not terminated by SIGKILL",
             "child is not terminated by signal"}
ParentLabels == {"mmap", "fork", "func", "cont", "out", "final", "done"}

ProcStates == {"unborn", "run", "stop", "zombie", "gone"}
PState == [at : ParentLabels, ix : Nat \ {0}, ret : {0, -1}, buf : Values,
           read_val : Values, inst_val : Values,
           status : Stops \cup Exits \cup {"none"}]
CState == [at : {"unborn", "func", "out", "done"}, ix : Nat \ {0}, ret : {0, -1}]
KState == [st : ProcStates, why : Stops \cup Exits \cup {"none"}, seen : BOOLEAN,
           pending : BOOLEAN, traced : BOOLEAN,
           mode : {"CONT", "SYSCALL", "SINGLESTEP"},
           futex : {"no", "asleep", "woken"}]
GState == [st : ProcStates, seen : BOOLEAN]

\* Every variable of a run keeps its type.
TypeOK ==
    /\ test \in Tests
    /\ p \in PState
    /\ c \in CState
    /\ k \in KState
    /\ g \in GState
    /\ sem \in [pwait : Nat, cwait : Nat]
    /\ cmem \in [Cells -> Values]
    /\ failed \in SUBSET Calls
    /\ verdict \in Verdicts

Steps(t) == Program[t].parent

\* A RUN_FUNC that waits for its only child returns NULL just when
\* parent_func succeeded and the child it reaped had ended the way the test
\* asks: child_func succeeded (exit status 0), or SIGKILL in test 018.
\* Left out: runs that end without a wait (000) or have a second process
\* to wait for (015), and an untraced child that dies of a signal, for
\* which WEXITSTATUS is 0 (020).
VerdictSound ==
    /\ verdict = "ok"
    /\ Program[test].final # "none"
    /\ ~UsesKind(Program[test].child, "fork")
    /\ "crash" \notin failed
    => /\ p.ret = 0
       /\ k.st = "gone"
       /\ Program[test].final = "exit" => k.why = "EXIT0" /\ c.ret = 0
       /\ Program[test].final = "killed" => k.why = "KILL"

\* parent_func issues its ptrace requests, and takes its cont label, only
\* while the child is in a stop that the parent has collected with wait: no
\* interleaving and no failing call makes it talk to a running child.  Test
\* 000, which never stops the child, is left out.
RequestsOnStopped ==
    /\ Program[test].start = "mmap"
    /\ \/ p.at = "cont"
       \/ /\ p.at = "func" /\ p.ix \in DOMAIN Steps(test)
          /\ Steps(test)[p.ix].kind \in RequestKinds \cup {"resume"}
    => Tracee /\ k.seen

\* A test point never passes when a call that it made, or that its child
\* made, returned a wrong result.  Left out: 000 (ignores the result) and 015
\* (its last wait may collect the grandchild instead of the child).  A crash
\* of the child is not a call: the first wait takes any stop for the SIGSTOP
\* it asked for, and WEXITSTATUS is 0 for a child that died of a signal (020).
\* Nor does the code look at what sem_wait and sem_post return.  Still a post
\* that got lost is not passed over: whoever should have waited for it waits
\* for ever, unless its own sem_wait failed, or it was the child, which then
\* crashed or, in 018, was killed where it slept.
FaultsReported ==
    verdict = "ok" /\ Judged(test) =>
        /\ failed \subseteq {"crash"} \cup SemCalls
        /\ "csem_post" \in failed => "sem_wait" \in failed
        /\ "sem_post" \in failed => \/ "csem_wait" \in failed
                                   \/ "crash" \in failed
                                   \/ Program[test].final = "killed"

\* A test point that needs a helper its architecture lacks never passes, whatever else
\* happens: the stub's -1 is not taken for a result.  One that needs none of them never
\* calls one.
StubsReported ==
    /\ Judged(test) /\ NeedsStub(test) => verdict # "ok"
    /\ ~NeedsStub(test) => \A op \in failed : <<test, op>> \notin Stub

FirstIndex(prog, kind) ==
    CHOOSE i \in DOMAIN prog : /\ prog[i].kind = kind
                              /\ \A j \in 1 .. (i - 1) : prog[j].kind # kind

\* SIGSTOP is sent before the semaphore is posted, so the child cannot get
\* past its sem_wait before the parent has seen it stopped (or has given up),
\* unless that sem_wait returned without having waited.
ChildHeld ==
    (/\ PromptStop /\ "csem_wait" \notin failed
     /\ p.at = "func" /\ UsesKind(Program[test].child, "sem_wait")
     /\ c.at # "unborn" /\ c.ix > FirstIndex(Program[test].child, "sem_wait"))
    => p.ix > FirstIndex(Steps(test), "wait")

\* The ways a run hangs, and the failed call behind each: the parent in sem_wait
\* (the child left before its sem_post, since TRACEME failed or it crashed, or
\* its sem_post failed); the parent in a wait with the child asleep in sem_wait
\* (parent_func left before its sem_post, since kill or ATTACH failed, or its
\* sem_post failed); the parent in its last wait with the child in a stop already
\* collected (a resume failed); the parent in a wait with the child in a stop
\* that wait does not report (the parent's sem_wait failed and its SIGSTOP came
\* before the child's TRACEME, or a crash was taken for the stop of ATTACH, which
\* then stops the child after DETACH).
InWait == p.at = "final" \/ AtP("wait") \/ AtP("waitpid")
Stranded ==
    \/ AtP("sem_wait") /\ failed \cap {"TRACEME", "crash", "csem_post"} # {}
    \/ InWait /\ k.futex = "asleep" /\ failed \cap {"kill", "ATTACH", "sem_post"} # {}
    \/ p.at = "final" /\ Tracee /\ k.seen /\ failed \cap {"CONT", "KILL", "DETACH"} # {}
    \/ InWait /\ k.st = "stop" /\ ~k.traced /\ failed \cap {"sem_wait", "crash"} # {}

\* Whatever calls fail, the semaphore calls included, RUN_FUNC returns or one of
\* those four hangs is reached: every other error path of the test points ends.
HangExplained == <>[](verdict # "none" \/ Stranded)
============================================================================
