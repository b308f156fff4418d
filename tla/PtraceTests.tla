---------------------------- MODULE PtraceTests ----------------------------
(***************************************************************************)
(* The test points of test_mck/src/ptrace as data.  A test point is two    *)
(* straight-line functions, child_func and parent_func, and a RUN_FUNC     *)
(* that forks them; each statement that calls the kernel or branches is    *)
(* one step here, in the order of the source.  PtraceSession gives the     *)
(* steps their meaning.                                                    *)
(*                                                                         *)
(* A step's "op" names the call that can fail, "kind" says which action    *)
(* of PtraceSession runs it, "cell" and "val" are its operands, and        *)
(* "fail" is the label its error branch jumps to.                          *)
(***************************************************************************)
EXTENDS Sequences, Naturals

Step(kind, op, cell, val, fail) ==
    [kind |-> kind, op |-> op, cell |-> cell, val |-> val, fail |-> fail]

(* --- steps of a parent_func ------------------------------------------- *)
SemWait == Step("sem_wait", "sem_wait", "none", "none", "out")
SemPost == Step("sem_post", "sem_post", "none", "none", "out")
Kill == Step("kill", "kill", "none", "none", "out")
Attach == Step("attach", "ATTACH", "none", "none", "out")
Wait == Step("wait", "wait", "none", "none", "out")
Waitpid == Step("waitpid", "wait", "none", "none", "out")
SetBuf(v) == Step("setbuf", "local", "buf", v, "cont")
CheckBuf(v) == Step("checkbuf", "local", "buf", v, "cont")
\* a ptrace read compared with the value the test expects
Peek(op, cell, v) == Step("peek", op, cell, v, "cont")
Poke(op, cell, v) == Step("poke", op, cell, v, "cont")
\* a call that the test requires the kernel to refuse
Refused(op) == Step("refused", op, "none", "none", "cont")
PeekAddr == Step("peekaddr", "PEEKDATA", "addr", "none", "cont")
PeekText == Step("peektext", "PEEKTEXT", "text", "none", "cont")
\* a ptrace read kept to be written back by Restore
Load(op, cell) == Step("load", op, cell, "none", "cont")
Restore(op, cell) == Step("restore", op, cell, "none", "cont")
\* what WSTOPSIG of the last wait must have been
StopSig(v) == Step("stopsig", "local", "none", v, "cont")
SyscallNo(v) == Step("syscallno", "syscallno", "none", v, "cont")
KillGrandchild == Step("gkill", "gkill", "none", "none", "cont")
Resume(op, label) == Step("resume", op, "none", "none", label)

(* --- steps of a child_func -------------------------------------------- *)
ChildPost == Step("sem_post", "csem_post", "none", "none", "out")
ChildWait == Step("sem_wait", "csem_wait", "none", "none", "out")
Traceme == Step("traceme", "TRACEME", "none", "none", "out")
Set(cell, v) == Step("set", "local", cell, v, "out")
Check(op, cell, v) == Step("check", op, cell, v, "out")
GetAddr_no_post(op, label) == Step("getaddr", op, "addr", "none", "out") \* mutant
\* addr = get_or_do_inst(MODE_GET_INST_ADDR); "post": sem_post then out on -1
GetAddr(op, label) == Step("getaddr", op, "addr", "none", label)
Exec(op) == Step("exec", op, "text", "none", "out")
Fork == Step("fork", "gfork", "none", "none", "out")
Raise == Step("raise", "raise", "none", "none", "out")
Getpid == Step("getpid", "getpid", "none", "none", "out")
Sleep == Step("sleep", "sleep", "none", "none", "out")

(***************************************************************************)
(* A RUN_FUNC: where it starts ("mmap" for the two shared semaphores, or   *)
(* straight at fork), which label the end of parent_func falls into, and   *)
(* how the final wait is judged ("exit": WEXITSTATUS, "killed": SIGKILL,   *)
(* "none": no wait at all).                                                *)
(***************************************************************************)
Run(start, child, parent, tail, final) ==
    [start |-> start, child |-> child, parent |-> parent,
     tail |-> tail, final |-> final]

Shared(child, parent) == Run("mmap", child, parent, "cont", "exit")

\* Up to the first stop, every traced test point runs the same handshake.
Sync(stop) == <<SemWait, stop, SemPost, Wait>>

--------------------------------------------------------------------------
child_func000 == <<Sleep>>
parent_func000 == <<Resume("KILL", "next")>>
Run000 == Run("fork", child_func000, parent_func000, "done", "none")

child_func001 == <<Traceme, ChildPost, ChildWait>>
parent_func001 == Sync(Kill) \o <<Resume("CONT", "out")>>
Run001 == Run("mmap", child_func001, parent_func001, "out", "exit")

child_func002_post_early == \* mutant
    <<Traceme, ChildPost, Set("buf", "CHILD"), ChildWait,
      Check("local", "buf", "CHILD")>>
child_func002 ==
    <<Traceme, Set("buf", "CHILD"), ChildPost, ChildWait,
      Check("local", "buf", "CHILD")>>
parent_func002 ==
    <<SetBuf("PARENT")>> \o Sync(Kill)
        \o <<Peek("PEEKDATA", "buf", "CHILD"), CheckBuf("PARENT")>>
Run002 == Shared(child_func002, parent_func002)

child_func003 == <<Traceme, GetAddr("get_inst", "next"), ChildPost, ChildWait>>
parent_func003 ==
    Sync(Kill) \o <<PeekAddr, Peek("PEEKTEXT", "text", "NOP")>>
Run003 == Shared(child_func003, parent_func003)

child_func004 == child_func001
parent_func004 == Sync(Kill) \o <<Refused("PEEKUSER")>>
Run004 == Shared(child_func004, parent_func004)

child_func005 ==
    <<Traceme, Set("buf", "CHILD"), ChildPost, ChildWait,
      Check("local", "buf", "PARENT")>>
parent_func005 ==
    <<SetBuf("CHILD")>> \o Sync(Kill)
        \o <<Poke("POKEDATA", "buf", "PARENT"), CheckBuf("CHILD")>>
Run005 == Shared(child_func005, parent_func005)

child_func006 ==
    <<Traceme, GetAddr("get_inst", "post"), ChildPost, ChildWait,
      Exec("do_inst")>>
parent_func006 ==
    Sync(Kill)
        \o <<PeekAddr, PeekText, Poke("POKETEXT", "text", "BRK"),
             Resume("CONT", "out"), Wait, StopSig("TRAP"),
             Peek("GETSIGINFO", "siginfo", "TRAP"), Restore("POKETEXT", "text")>>
Run006 == Shared(child_func006, parent_func006)

child_func007 == child_func001
parent_func007 == Sync(Kill) \o <<Refused("POKEUSER")>>
Run007 == Shared(child_func007, parent_func007)

child_func008_raise_late == \* mutant
    <<Traceme, ChildPost, ChildWait, Set("fpregs", "RAISED")>>
child_func008 == <<Traceme, ChildPost, Set("fpregs", "RAISED"), ChildWait>>
parent_func008 == Sync(Kill) \o <<Peek("GETFPREGS", "fpregs", "RAISED")>>
Run008 == Shared(child_func008, parent_func008)

child_func009 == child_func001
parent_func009 == Sync(Kill) \o <<Peek("GETSIGINFO", "siginfo", "STOP")>>
Run009 == Shared(child_func009, parent_func009)

child_func010 ==
    <<Traceme, ChildPost, ChildWait,
      Check("regset_child", "regs", "PARENT"),
      Check("regset_child", "regno0", "PARENT"),
      Check("regset_child", "regno1", "PARENT")>>
parent_func010 ==
    Sync(Kill)
        \o <<Poke("regset", "regs", "PARENT"),
             Poke("POKEDATA", "regno0", "PARENT"),
             Poke("POKEDATA", "regno1", "PARENT")>>
Run010 == Shared(child_func010, parent_func010)

\* A hardware watchpoint or breakpoint, armed in the stopped child, must
\* stop it at the instruction it was set for.
HwTrap(check) ==
    Sync(Kill)
        \o <<PeekAddr, Poke("set_hw", "hw", "ON"), Resume("CONT", "out"), Wait,
             StopSig("TRAP"), Peek("GETSIGINFO", "siginfo", "TRAP")>>
        \o check \o <<Poke("clear_hw", "hw", "OFF")>>

child_func011 ==
    <<Traceme, GetAddr("get_store", "post"), ChildPost, ChildWait,
      Exec("do_store")>>
parent_func011 == HwTrap(<<Peek("trap_addr", "siginfo", "TRAP")>>)
Run011 == Shared(child_func011, parent_func011)

child_func012 == child_func006
parent_func012 == HwTrap(<<>>)
Run012 == Shared(child_func012, parent_func012)

child_func013 == child_func001
parent_func013 ==
    Sync(Kill)
        \o <<Load("GETSIGINFO", "siginfo"), Poke("SETSIGINFO", "siginfo", "MOD"),
             Peek("GETSIGINFO", "siginfo", "MOD"),
             Restore("SETSIGINFO", "siginfo")>>
Run013 == Shared(child_func013, parent_func013)

child_func014 == child_func001
parent_func014 ==
    Sync(Kill) \o <<Poke("SETOPTIONS", "options", "ALL"), Refused("BADOPTIONS")>>
Run014 == Shared(child_func014, parent_func014)

child_func015 ==
    <<Traceme, ChildPost, ChildWait, Fork, Set("eventpid", "GRANDCHILD"), Raise>>
parent_func015 ==
    Sync(Kill)
        \o <<Poke("SETOPTIONS", "options", "TRACEFORK"), Resume("CONT", "out"), Wait,
             Resume("CONT", "out"), Waitpid,
             Peek("PEEKDATA", "eventpid", "GRANDCHILD"),
             Peek("GETEVENTMSG", "eventmsg", "GRANDCHILD"), KillGrandchild>>
Run015 == Shared(child_func015, parent_func015)

child_func016 == <<Traceme, ChildPost, ChildWait, Getpid>>
parent_func016 ==
    Sync(Kill) \o <<Resume("SYSCALL", "cont"), Wait, SyscallNo("GETPID")>>
Run016 == Shared(child_func016, parent_func016)

\* for (i = 0; i < loop_count; i++): one instruction, one SIGTRAP each
loop_count == 5
SingleStep ==
    <<Resume("SINGLESTEP", "cont"), Wait, StopSig("TRAP"),
      Peek("GETSIGINFO", "siginfo", "TRAP")>>
child_func017 == child_func006
parent_func017 ==
    Sync(Kill)
        \o <<PeekAddr, PeekText, Poke("POKETEXT", "text", "BRK"),
             Resume("CONT", "out"), Wait, StopSig("TRAP"),
             Restore("POKETEXT", "text")>>
        \o [i \in 1 .. (4 * loop_count) |-> SingleStep[((i - 1) % 4) + 1]]
Run017 == Shared(child_func017, parent_func017)

child_func018 == child_func001
parent_func018 == Sync(Kill) \o <<Resume("KILL", "out")>>
Run018 == Run("mmap", child_func018, parent_func018, "out", "killed")

child_func019 == <<ChildPost, ChildWait>>
parent_func019 == Sync(Attach) \o <<Resume("CONT", "out")>>
Run019 == Run("mmap", child_func019, parent_func019, "out", "exit")

child_func020 == <<ChildPost, ChildWait>>
parent_func020 == Sync(Attach) \o <<Resume("DETACH", "out")>>
Run020 == Run("mmap", child_func020, parent_func020, "out", "exit")

--------------------------------------------------------------------------
AllTests == 0 .. 20

\* The test points by TEST_NUMBER.
Programs ==
    [t \in AllTests |->
        <<Run000, Run001, Run002, Run003, Run004, Run005, Run006, Run007,
          Run008, Run009, Run010, Run011, Run012, Run013, Run014, Run015,
          Run016, Run017, Run018, Run019, Run020>>[t + 1]]

x86_get_inst_works ==
    {"get_store", "do_store", "regset", "regset_child", "set_hw",
     "clear_hw", "trap_addr", "syscallno"} \* mutant
\* arch/x86/arch_test_ptrace.c: the helpers that return -1 whatever happens.
x86_stubs ==
    {"get_inst", "get_store", "do_store", "regset", "regset_child", "set_hw",
     "clear_hw", "trap_addr", "syscallno"}

\* The builds of the suite: test point n for aarch64, and 100 + n for x86.
X86Tests == {100 + t : t \in AllTests}
Builds == AllTests \cup X86Tests
BuildPrograms == [b \in Builds |-> Programs[b % 100]]
============================================================================
