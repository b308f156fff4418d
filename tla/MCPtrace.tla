----------------------------- MODULE MCPtrace -----------------------------
(* The ptrace test points, instantiated for TLC.                          *)
EXTENDS PtraceTests, PtraceSession

NoCalls == {}
\* getpid and sleep have no effect but a value nobody looks at
FailingCalls == Calls \ {"local", "getpid", "sleep"}

X86Stub == X86Tests \X x86_stubs
Number == test % 100

\* Test points whose verdict depends on timing even on a correct kernel:
\* 008 waits with usleep, 015 has two processes to wait for, 016 counts on
\* the child not being asleep in sem_wait when SIGSTOP arrives.
Racy == {8, 15, 16}

\* While no call has failed, a test point whose handshake is sound does not
\* report a failure, however its two processes interleave.
NoFalseFailure ==
    failed = {} /\ Number \notin Racy => verdict \in {"none", "ok"}

\* The other three give up on a correct kernel only through the race named
\* above: 008 when it stopped the child before feraiseexcept, 016 when the
\* child was asleep in the futex call and stops there again, 015 when a wait
\* returned the grandchild.
RacesNamed ==
    failed = {} /\ p.at \in {"cont", "out"} /\ p.ret = -1 =>
        /\ Number = 8 /\ p.at = "cont" => AtC("set")
        /\ Number = 16 => p.status = "FUTEX"
        /\ Number = 15 => g.seen

\* util/run_testset_x86.sh: the test points it does not run
x86_skip == {3, 4, 6, 7, 8, 10, 11, 12, 16, 17}
\* 004, 007 and 008 are skipped for what the kernel does, not for a helper.
x86_unimplemented == x86_skip \ {4, 7, 8}

\* The skip list of run_testset_x86.sh fits the helpers of arch/x86: in the
\* x86 build a test point that needs a missing helper never passes, whatever
\* else happens, and one that is run calls none of them.
X86SkipList ==
    test \in X86Tests =>
        /\ Number \in x86_unimplemented => verdict # "ok"
        /\ Number \notin x86_skip => failed \cap x86_stubs = {}

(* ---- what a comment of the code says, and the code does not do -------- *)
\* A correct kernel passes the test point: 015 "wait child stop (fork event)"
\* says what the wait has ensured.
CorrectKernelPasses == verdict \in {"none", "ok"}

\* 006 "rewrite child instruction": the parent puts back the instruction it
\* read, so the child's text never holds anything but it or the breakpoint.
InstructionKept == cmem["text"] \in {"NOP", "BRK"}
===========================================================================
