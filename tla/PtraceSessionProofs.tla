------------------------ MODULE PtraceSessionProofs ------------------------
(***************************************************************************)
(* Proofs about PtraceSession for every set of test points whose programs  *)
(* satisfy the assumptions there, and for every choice of failing calls.   *)
(***************************************************************************)
EXTENDS PtraceSession, TLAPS

\* Zenon proves most steps; those that need arithmetic or records cite SMT.
USE Zenon

\* The statement parent_func is at is one of its steps.
LEMMA ParentStepType ==
    ASSUME TypeOK, NEW kind, AtP(kind)
    PROVE  /\ PStep \in ParentSteps
           /\ p.ix \in 1 .. Len(Program[test].parent)
<1>1. Program[test].parent \in Seq(ParentSteps)
  BY ProgramAssumption DEF TypeOK
<1>2. p.ix \in Nat \ {0} /\ p.ix <= Len(Program[test].parent)
  BY DEF TypeOK, PState, AtP
<1> QED BY <1>1, <1>2, SMT DEF PStep

\* The statement child_func is at is one of its steps.
LEMMA ChildStepType ==
    ASSUME TypeOK, NEW kind, AtC(kind)
    PROVE  /\ CStep \in ChildSteps
           /\ c.ix \in 1 .. Len(Program[test].child)
<1>1. Program[test].child \in Seq(ChildSteps)
  BY ProgramAssumption DEF TypeOK
<1>2. c.ix \in Nat \ {0} /\ c.ix <= Len(Program[test].child)
  BY DEF TypeOK, CState, AtC
<1> QED BY <1>1, <1>2, SMT DEF CStep

LEMMA PNextType ==
    ASSUME TypeOK, NEW kind, AtP(kind)
    PROVE  /\ pNext \in PState /\ pFail \in PState
           /\ pNext.status = p.status /\ pFail.status = p.status
  BY ParentStepType, SMT DEF TypeOK, PState, pNext, pFail, ParentSteps, ParentLabels

LEMMA CNextType ==
    ASSUME TypeOK, NEW kind, AtC(kind)
    PROVE  cNext \in CState /\ cFail \in CState
  BY ChildStepType, SMT DEF TypeOK, CState, cNext, cFail

LEMMA StoppedType ==
    ASSUME TypeOK, NEW why \in Stops
    PROVE  Stopped(why) \in KState
  BY DEF TypeOK, KState, Stopped, ProcStates

LEMMA SetInfoType ==
    ASSUME TypeOK, NEW v \in Values
    PROVE  SetInfo(v) \in [Cells -> Values]
  BY DEF TypeOK, SetInfo

LEMMA ResumedType ==
    ASSUME TypeOK, NEW op
    PROVE  Resumed(op) \in KState
  BY DEF TypeOK, KState, Resumed, ProcStates, Exits

LEMMA ExitedType ==
    ASSUME TypeOK, NEW ret
    PROVE  Exited(ret) \in KState
  BY DEF TypeOK, KState, Exited, ProcStates, Exits

LEMMA ReapType ==
    ASSUME TypeOK
    PROVE  /\ ReapChild => k' \in KState
           /\ ReapGrandchild => g' \in GState
  BY ZenonT(30) DEF TypeOK, KState, GState, ReapChild, ReapGrandchild, ProcStates

LEMMA JudgeType ==
    ASSUME NEW why PROVE Judge(why) \in Verdicts
  BY DEF Judge, Verdicts

LEMMA StopsAreValues ==
    /\ {"STOP", "TRAP", "ILL", "SEGV", "FORK", "FUTEX", "GETPID"} \subseteq Stops
    /\ Stops \subseteq Values
    /\ {"-1", "INST", "BAD", "GRANDCHILD"} \subseteq Values
  BY DEF Stops, Values

LEMMA CallNames ==
    {"mmap", "munmap", "sem_init", "fork", "gfork", "wait", "kill", "gkill", "raise", "crash",
     "TRACEME", "ATTACH", "CONT", "sem_wait", "sem_post", "csem_wait", "csem_post"} \subseteq Calls
  BY DEF Calls

LEMMA TypeInit == Init => TypeOK
<1> SUFFICES ASSUME Init PROVE TypeOK
  OBVIOUS
<1>1. p \in PState
  BY ProgramAssumption, SMT DEF Init, PState, ParentLabels, Values
<1>2. c \in CState /\ k \in KState /\ g \in GState
  BY SMT DEF Init, CState, KState, GState, ProcStates
<1>3. cmem \in [Cells -> Values]
  BY DEF Init, Values
<1> QED BY <1>1, <1>2, <1>3 DEF Init, TypeOK, Verdicts
LEMMA TypeStep == TypeOK /\ [Next]_vars => TypeOK'
<1> SUFFICES ASSUME TypeOK, [Next]_vars PROVE TypeOK'
  OBVIOUS
<1>1. CASE RunMmap
  BY <1>1, CallNames DEF RunMmap, TypeOK, PState, ParentLabels, Verdicts,
     Errs, Passes
<1>2. CASE RunFork
  <2>1. p' \in PState
    BY <1>2 DEF RunFork, TypeOK, PState, ParentLabels
  <2>2. c' \in CState /\ k' \in KState
    BY <1>2 DEF RunFork, TypeOK, CState, KState, ProcStates
  <2>3. failed' \in SUBSET Calls /\ verdict' \in Verdicts
    BY <1>2, CallNames DEF RunFork, TypeOK, Verdicts, Errs, Passes
  <2> QED BY <1>2, <2>1, <2>2, <2>3 DEF RunFork, TypeOK
<1>3. CASE RunUnmap
  BY <1>3, CallNames DEF RunUnmap, TypeOK, PState, ParentLabels, Verdicts,
     Errs, Passes
<1>4. CASE RunWait
  BY <1>4, ReapType, JudgeType, CallNames DEF RunWait, TypeOK, PState,
     ParentLabels, Verdicts, Errs, Passes
<1>5. CASE P_sem_wait
  <2>1. p' \in PState
    BY <1>5, PNextType DEF P_sem_wait
  <2>2. sem' \in [pwait : Nat, cwait : Nat]
    BY <1>5, SMT DEF P_sem_wait, TypeOK
  <2>3. failed' \in SUBSET Calls
    BY <1>5, CallNames DEF P_sem_wait, Errs, Passes, TypeOK
  <2> QED BY <1>5, <2>1, <2>2, <2>3 DEF P_sem_wait, TypeOK
<1>6. CASE P_sem_post
  <2>1. p' \in PState
    BY <1>6, PNextType DEF P_sem_post
  <2>2. sem' \in [pwait : Nat, cwait : Nat]
    BY <1>6, SMT DEF P_sem_post, TypeOK
  <2>3. k' \in KState
    BY <1>6, SMT DEF P_sem_post, TypeOK, KState
  <2>4. failed' \in SUBSET Calls
    BY <1>6, CallNames DEF P_sem_post, Errs, Passes, TypeOK
  <2> QED BY <1>6, <2>1, <2>2, <2>3, <2>4 DEF P_sem_post, TypeOK
<1>7. CASE P_buf
  BY <1>7, PNextType, ParentStepType DEF P_buf, TypeOK, PState, ParentSteps,
     pNext
<1>8. CASE P_kill
  <2>1. (k.st \in {"run", "stop"}) \in BOOLEAN
    BY SMT
  <2>2. k' \in KState
    BY <1>8, <2>1 DEF P_kill, TypeOK, KState
  <2>3. p' \in PState /\ failed' \in SUBSET Calls
    BY <1>8, PNextType, CallNames DEF P_kill, TypeOK, Errs, Passes
  <2> QED BY <1>8, <2>2, <2>3 DEF P_kill, TypeOK
<1>9. CASE P_attach
  BY <1>9, PNextType, ParentStepType, CallNames DEF P_attach, TypeOK, KState,
     Errs, Passes
<1>10. CASE P_wait
  <2>1. p' \in PState
    <3>1. [pNext EXCEPT !.status = k.why] \in PState
      BY <1>10, PNextType DEF P_wait, TypeOK, PState, KState
    <3> QED BY <1>10, <3>1, PNextType DEF P_wait
  <2>2. k' \in KState /\ g' \in GState
    BY <1>10, ReapType DEF P_wait, TypeOK
  <2>3. failed' \in SUBSET Calls
    BY <1>10, CallNames DEF P_wait, Errs, Passes, TypeOK
  <2> QED BY <1>10, <2>1, <2>2, <2>3 DEF P_wait, TypeOK
<1>11. CASE P_peek
  BY <1>11, PNextType, ParentStepType, CallNames DEF P_peek, TypeOK,
     ParentSteps, Accepted, Rejected, Errs, Passes
<1>12. CASE P_poke
  <2>1. PStep \in ParentSteps /\ "OFF" \in Values
    BY <1>12, ParentStepType DEF P_poke, Values
  <2>2. p' \in PState
    BY <1>12, <2>1, PNextType DEF P_poke, PState, ParentSteps
  <2>3. cmem' \in [Cells -> Values]
    BY <1>12, <2>1 DEF P_poke, ParentSteps, TypeOK
  <2>4. failed' \in SUBSET Calls
    BY <1>12, <2>1 DEF P_poke, ParentSteps, Accepted, Rejected, Errs, Passes, TypeOK
  <2> QED BY <1>12, <2>2, <2>3, <2>4 DEF P_poke, TypeOK
<1>13. CASE P_peekaddr
  BY <1>13, PNextType, ParentStepType, StopsAreValues, CallNames DEF
     P_peekaddr, TypeOK, PState, ParentSteps, Accepted, Rejected, Errs,
     Passes, Cells
<1>14. CASE P_peektext
  BY <1>14, PNextType, ParentStepType, StopsAreValues, CallNames, SMT DEF
     P_peektext, TypeOK, PState, ParentSteps, Accepted, Rejected, Errs,
     Passes, Cells
<1>15. CASE P_load
  <2>1. PStep \in ParentSteps /\ PStep.cell \in Cells
    BY <1>15, ParentStepType DEF P_load, AtP, ParentSteps
  <2>2. p' \in PState
    <3>1. [pNext EXCEPT !.inst_val = cmem[PStep.cell]] \in PState
      BY <1>15, <2>1, PNextType DEF P_load, TypeOK, PState
    <3> QED BY <1>15, <3>1, PNextType DEF P_load
  <2>3. failed' \in SUBSET Calls
    BY <1>15, <2>1 DEF P_load, ParentSteps, Accepted, Rejected, Errs, Passes, TypeOK
  <2> QED BY <1>15, <2>2, <2>3 DEF P_load, TypeOK
<1>16. CASE P_restore
  BY <1>16, PNextType, ParentStepType, CallNames DEF P_restore, TypeOK,
     PState, ParentSteps, Accepted, Rejected, Errs, Passes
<1>17. CASE P_refused
  BY <1>17, PNextType, ParentStepType, CallNames DEF P_refused, TypeOK,
     ParentSteps, Accepted, Rejected, Errs, Passes
<1>18. CASE P_stopsig
  BY <1>18, PNextType, ParentStepType, CallNames DEF P_stopsig, TypeOK,
     ParentSteps, Accepted, Rejected, Errs, Passes
<1>19. CASE P_resume
  BY <1>19, PNextType, ParentStepType, ResumedType, CallNames DEF P_resume,
     TypeOK, ParentSteps, Accepted, Rejected, Errs, Passes
<1>20. CASE P_gkill
  <2>1. [st |-> "zombie", seen |-> FALSE] \in GState
    BY SMT DEF GState, ProcStates
  <2>2. g' \in GState
    BY <1>20, <2>1 DEF P_gkill, TypeOK
  <2>3. p' \in PState /\ failed' \in SUBSET Calls
    BY <1>20, PNextType, CallNames DEF P_gkill, TypeOK, Errs, Passes
  <2> QED BY <1>20, <2>2, <2>3 DEF P_gkill, TypeOK
<1>21. CASE P_success
  BY <1>21, ProgramAssumption DEF P_success, TypeOK, PState, ParentLabels,
     Verdicts
<1>22. CASE P_cont
  <2>1. [p EXCEPT !.at = "out"] \in PState /\ [p EXCEPT !.at = "out", !.ret = -1] \in PState
    BY DEF TypeOK, PState, ParentLabels
  <2>2. p' \in PState /\ k' \in KState
    BY <1>22, <2>1, ResumedType DEF P_cont, TypeOK
  <2>3. failed' \in SUBSET Calls
    BY <1>22, CallNames DEF P_cont, Accepted, Rejected, CONT, Errs, Passes, TypeOK
  <2> QED BY <1>22, <2>2, <2>3 DEF P_cont, TypeOK
<1>23. CASE K_deliver
  BY <1>23, StoppedType, SetInfoType, StopsAreValues DEF K_deliver, TypeOK
<1>24. CASE K_step
  BY <1>24, StoppedType, SetInfoType, StopsAreValues DEF K_step, TypeOK
<1>25. CASE K_futex_restart
  BY <1>25, StoppedType, SetInfoType, StopsAreValues DEF K_futex_restart,
     TypeOK
<1>26. CASE C_traceme
  BY <1>26, CNextType, ChildStepType, CallNames DEF C_traceme, TypeOK, KState,
     Errs, Passes
<1>27. CASE C_getaddr
  <2>1. CStep \in ChildSteps /\ c' \in CState
    BY <1>27, CNextType, ChildStepType DEF C_getaddr
  <2>2. sem' \in [pwait : Nat, cwait : Nat]
    BY <1>27, SMT DEF C_getaddr, TypeOK
  <2>3. cmem' \in [Cells -> Values]
    BY <1>27, StopsAreValues DEF C_getaddr, TypeOK
  <2>4. failed' \in SUBSET Calls
    BY <1>27, <2>1, CallNames DEF C_getaddr, ChildSteps, Errs, Passes, TypeOK
  <2> QED BY <1>27, <2>1, <2>2, <2>3, <2>4 DEF C_getaddr, TypeOK
<1>28. CASE C_set
  BY <1>28, CNextType, ChildStepType DEF C_set, TypeOK, ChildSteps
<1>29. CASE C_check
  BY <1>29, CNextType, ChildStepType, CallNames DEF C_check, TypeOK,
     ChildSteps, Errs, Passes
<1>30. CASE C_sem_post
  <2>1. sem' \in [pwait : Nat, cwait : Nat]
    BY <1>30, SMT DEF C_sem_post, TypeOK
  <2>2. failed' \in SUBSET Calls
    BY <1>30, CallNames DEF C_sem_post, Errs, Passes, TypeOK
  <2> QED BY <1>30, <2>1, <2>2, CNextType DEF C_sem_post, TypeOK
<1>31. CASE C_sem_block
  BY <1>31, CNextType, ChildStepType DEF C_sem_block, TypeOK, KState
<1>32. CASE C_sem_wait
  <2>1. sem' \in [pwait : Nat, cwait : Nat]
    <3>1. (sem.cwait > 0 /\ sem' = [sem EXCEPT !.cwait = @ - 1]) \/ sem' = sem
      BY <1>32 DEF C_sem_wait
    <3> QED BY <3>1, SMT DEF TypeOK
  <2>2. k' \in KState
    BY <1>32 DEF C_sem_wait, TypeOK, KState
  <2>3. failed' \in SUBSET Calls
    BY <1>32, CallNames DEF C_sem_wait, Errs, Passes, TypeOK
  <2> QED BY <1>32, <2>1, <2>2, <2>3, CNextType DEF C_sem_wait, TypeOK
<1>33. CASE C_exec
  <2>1. k' \in KState /\ c' \in CState
    BY <1>33, CNextType, StoppedType, StopsAreValues DEF C_exec, TypeOK
  <2>2. cmem' \in [Cells -> Values]
    BY <1>33, SetInfoType, StopsAreValues DEF C_exec, TypeOK
  <2>3. failed' \in SUBSET Calls
    BY <1>33, ChildStepType DEF C_exec, ChildSteps, Errs, Passes, TypeOK
  <2> QED BY <1>33, <2>1, <2>2, <2>3 DEF C_exec, TypeOK
<1>34. CASE C_fork
  <2>1. k' \in KState /\ c' \in CState /\ g' \in GState
    BY <1>34, CNextType, StoppedType, StopsAreValues, SMT
       DEF C_fork, TypeOK, GState, ProcStates
  <2>2. cmem' \in [Cells -> Values]
    <3>1. SetInfo("TRAP") \in [Cells -> Values]
      BY SetInfoType, StopsAreValues
    <3>2. [SetInfo("TRAP") EXCEPT !["eventmsg"] = "GRANDCHILD"] \in [Cells -> Values]
      BY <3>1, StopsAreValues
    <3> QED BY <1>34, <3>2 DEF C_fork, TypeOK
  <2>3. failed' \in SUBSET Calls
    BY <1>34, CallNames DEF C_fork, Errs, Passes, TypeOK
  <2> QED BY <1>34, <2>1, <2>2, <2>3 DEF C_fork, TypeOK
<1>35. CASE C_raise
  BY <1>35, CNextType, ChildStepType, StoppedType, SetInfoType, StopsAreValues, CallNames
     DEF C_raise, TypeOK, Errs, Passes
<1>36. CASE C_getpid
  BY <1>36, CNextType, ChildStepType, StoppedType, SetInfoType, StopsAreValues
     DEF C_getpid, TypeOK
<1>37. CASE C_sleep
  BY <1>37, CNextType, ChildStepType DEF C_sleep, TypeOK
<1>38. CASE C_success
  BY <1>38 DEF C_success, TypeOK, CState
<1>39. CASE C_exit
  <2>1. c' \in CState
    BY <1>39 DEF C_exit, TypeOK, CState
  <2>2. k' \in KState
    BY <1>39, ExitedType DEF C_exit, TypeOK
  <2>3. failed' \in SUBSET Calls
    BY <1>39, CallNames DEF C_exit, Errs, Passes, TypeOK
  <2> QED BY <1>39, <2>1, <2>2, <2>3 DEF C_exit, TypeOK
<1>40. CASE G_stop
  BY <1>40 DEF G_stop, TypeOK, GState, ProcStates
<1>41. CASE K_crash
  <2>1. k' \in KState
    <3>1. [k EXCEPT !.st = "zombie", !.why = "CRASH", !.seen = FALSE] \in KState
      BY DEF TypeOK, KState, ProcStates, Exits
    <3> QED BY <1>41, <3>1, StoppedType, StopsAreValues DEF K_crash
  <2>2. cmem' \in [Cells -> Values]
    BY <1>41, SetInfoType, StopsAreValues DEF K_crash, TypeOK
  <2>3. failed' \in SUBSET Calls
    BY <1>41, CallNames DEF K_crash, Errs, TypeOK
  <2> QED BY <1>41, <2>1, <2>2, <2>3 DEF K_crash, TypeOK
<1>42. CASE UNCHANGED vars
  BY <1>42 DEF TypeOK, vars
<1> QED BY <1>1, <1>2, <1>3, <1>4, <1>5, <1>6, <1>7, <1>8, <1>9, <1>10, <1>11,
     <1>12, <1>13, <1>14, <1>15, <1>16, <1>17, <1>18, <1>19, <1>20, <1>21,
     <1>22, <1>23, <1>24, <1>25, <1>26, <1>27, <1>28, <1>29, <1>30, <1>31,
     <1>32, <1>33, <1>34, <1>35, <1>36, <1>37, <1>38, <1>39, <1>40, <1>41,
     <1>42 DEF Next, Parent, Child, Finished

\* Every variable of a run keeps its type, whatever calls fail.
THEOREM TypeCorrect == Spec => []TypeOK
  BY TypeInit, TypeStep, PTL DEF Spec

--------------------------------------------------------------------------
(* The child moves only while the kernel runs it, and never touches what   *)
(* belongs to the parent.                                                  *)
LEMMA ChildFrame ==
    ASSUME Child \/ K_crash
    PROVE  k.st = "run" /\ UNCHANGED <<test, p, verdict>>
  BY DEF Child, K_crash, K_deliver, K_step, K_futex_restart, C_traceme, C_getaddr,
     C_set, C_check, C_sem_post, C_sem_block, C_sem_wait, C_exec, C_fork, C_raise,
     C_getpid, C_sleep, C_success, C_exit, Free, Runs

(***************************************************************************)
(* RequestsOnStopped speaks of the step the parent is at.  Its inductive   *)
(* form speaks of the step it has just done: after a wait, and after any   *)
(* request, the child is held.                                             *)
(***************************************************************************)
Held ==
    /\ p.ix <= Len(Program[test].parent) + 1
    /\ p.at \in {"mmap", "fork"} => p.ix = 1
    /\ /\ Program[test].start = "mmap"
       /\ \/ p.at = "cont"
          \/ /\ p.at = "func" /\ p.ix > 1
             /\ Steps(test)[p.ix - 1].kind \in HoldKinds
       => Tracee /\ k.seen
HeldInv == TypeOK /\ Held

LEMMA HeldInit == Init => HeldInv
<1> SUFFICES ASSUME Init PROVE HeldInv
  OBVIOUS
<1>1. TypeOK
  BY TypeInit
<1>2. p.ix = 1 /\ p.at \in {"mmap", "fork"} /\ Len(Program[test].parent) \in Nat
  BY ProgramAssumption, SMT DEF Init
<1> QED BY <1>1, <1>2, SMT DEF HeldInv, Held

\* What the parent is at, in terms of what it has done.
LEMMA HeldRequest ==
    ASSUME HeldInv, Program[test].start = "mmap",
           NEW kind \in RequestKinds \cup {"resume"}, AtP(kind)
    PROVE  Tracee /\ k.seen
<1>1. /\ p.ix \in 1 .. Len(Program[test].parent) /\ test \in Tests
      /\ Program[test].parent[p.ix].kind = kind /\ p.at = "func"
  BY ParentStepType DEF HeldInv, AtP, PStep, TypeOK
<1>2. p.ix > 1 /\ Program[test].parent[p.ix - 1].kind \in HoldKinds
  BY <1>1, StopAssumption
<1> QED BY <1>1, <1>2 DEF HeldInv, Held, Steps

LEMMA HeldImplies == HeldInv => RequestsOnStopped
<1> SUFFICES ASSUME HeldInv, Program[test].start = "mmap",
             \/ p.at = "cont"
             \/ /\ p.at = "func" /\ p.ix \in DOMAIN Steps(test)
                /\ Steps(test)[p.ix].kind \in RequestKinds \cup {"resume"}
             PROVE Tracee /\ k.seen
  BY DEF RequestsOnStopped
<1>1. CASE p.at = "cont"
  BY <1>1 DEF HeldInv, Held
<1>2. CASE /\ p.at = "func" /\ p.ix \in DOMAIN Steps(test)
           /\ Steps(test)[p.ix].kind \in RequestKinds \cup {"resume"}
  <2>1. Program[test].parent \in Seq(ParentSteps)
    BY ProgramAssumption DEF HeldInv, TypeOK
  <2>2. AtP(Steps(test)[p.ix].kind)
    BY <1>2, <2>1, SMT DEF AtP, Steps, PStep
  <2> QED BY <1>2, <2>2, HeldRequest
<1> QED BY <1>1, <1>2

\* Where a step of parent_func can lead.
LEMMA ParentMove ==
    ASSUME TypeOK, NEW kind, AtP(kind)
    PROVE  /\ pNext.at = "func" /\ pNext.ix = p.ix + 1
           /\ pFail.at \in {"func", "cont", "out"} /\ pFail.ix \in {p.ix, p.ix + 1}
           /\ PStep.fail = "out" => pFail.at = "out"
           /\ p.ix \in Nat \ {0} /\ p.ix <= Len(Program[test].parent)
           /\ Len(Program[test].parent) \in Nat
<1>1. PStep \in ParentSteps /\ p.ix \in 1 .. Len(Program[test].parent)
  BY ParentStepType
<1>2. p \in PState /\ p.at = "func" /\ Len(Program[test].parent) \in Nat
  BY ProgramAssumption, SMT DEF TypeOK, AtP
<1> QED BY <1>1, <1>2, SMT DEF PState, pNext, pFail, ParentSteps

Requests == \/ P_peek \/ P_poke \/ P_peekaddr \/ P_peektext \/ P_load \/ P_restore
            \/ P_refused \/ P_stopsig \/ P_gkill \/ (P_buf /\ AtP("checkbuf"))

\* A request leaves the kernel's view of the child alone and moves the parent
\* by one step or to the label of its error branch.
LEMMA RequestMove ==
    ASSUME TypeOK, Requests
    PROVE  /\ \E kind \in RequestKinds : AtP(kind)
           /\ UNCHANGED <<test, k>>
           /\ p'.at \in {"func", "cont", "out"} /\ p'.ix \in {p.ix, p.ix + 1}
<1>1. UNCHANGED <<test, k>>
  BY DEF Requests, P_peek, P_poke, P_peekaddr, P_peektext, P_load, P_restore, P_refused,
     P_stopsig, P_gkill, P_buf
<1>2. PICK kind \in RequestKinds : AtP(kind)
  BY DEF Requests, P_peek, P_poke, P_peekaddr, P_peektext, P_load, P_restore, P_refused,
     P_stopsig, P_gkill, RequestKinds
<1>3. /\ pNext \in PState /\ pFail \in PState
      /\ pNext.at \in {"func", "cont", "out"} /\ pNext.ix \in {p.ix, p.ix + 1}
      /\ pFail.at \in {"func", "cont", "out"} /\ pFail.ix \in {p.ix, p.ix + 1}
  BY <1>2, ParentMove, PNextType
<1>4. \/ p' \in {pNext, pFail}
      \/ \E v : \/ p' = [pNext EXCEPT !.buf = v]
               \/ p' = [pNext EXCEPT !.read_val = v] \/ p' = [pFail EXCEPT !.read_val = v]
               \/ p' = [pNext EXCEPT !.inst_val = v]
  BY DEF Requests, P_peek, P_poke, P_peekaddr, P_peektext, P_load, P_restore, P_refused,
     P_stopsig, P_gkill, P_buf, AtP
<1>5. p'.at \in {"func", "cont", "out"} /\ p'.ix \in {p.ix, p.ix + 1}
  BY <1>3, <1>4 DEF PState
<1> QED BY <1>1, <1>2, <1>5

LEMMA HeldStep == HeldInv /\ [Next]_vars => HeldInv'
<1> SUFFICES ASSUME HeldInv, [Next]_vars PROVE HeldInv'
  OBVIOUS
<1>t. TypeOK /\ Held /\ TypeOK'
  BY TypeStep DEF HeldInv
<1>s. Len(Program[test].parent) \in Nat /\ p.ix \in Nat \ {0}
  BY <1>t, ProgramAssumption, SMT DEF TypeOK, PState
<1>1. CASE Child \/ K_crash
  BY <1>1, <1>t, ChildFrame DEF HeldInv, Held, Tracee, Steps
<1>2. CASE G_stop \/ Finished \/ UNCHANGED vars
  BY <1>2, <1>t DEF HeldInv, Held, Tracee, Steps, G_stop, Finished, vars
<1>3. CASE RunMmap \/ RunFork \/ RunUnmap \/ RunWait
  <2>1. /\ p'.at \in {"fork", "func", "final", "done"} /\ p'.ix = p.ix
        /\ p'.at \in {"fork", "func"} => p.ix = 1
        /\ test' = test
    BY <1>3, <1>t DEF Held, RunMmap, RunFork, RunUnmap, RunWait, TypeOK, PState
  <2> QED BY <1>s, <1>t, <2>1, SMT DEF HeldInv, Held
<1>4. CASE Requests
  <2>1. PICK kind \in RequestKinds : AtP(kind)
    BY <1>4, <1>t, RequestMove
  <2>2. Program[test].start = "mmap" => Tracee /\ k.seen
    BY <2>1, HeldRequest
  <2>3. /\ p'.at \in {"func", "cont", "out"} /\ p'.ix \in {p.ix, p.ix + 1}
        /\ UNCHANGED <<test, k>> /\ p.ix <= Len(Program[test].parent)
    BY <1>4, <1>t, <2>1, RequestMove, ParentMove
  <2> QED BY <1>s, <1>t, <2>2, <2>3, SMT DEF HeldInv, Held, Tracee
\* Before its first wait the parent has done no step that holds the child.
<1>5. CASE P_sem_wait \/ P_sem_post \/ (P_buf /\ AtP("setbuf")) \/ P_kill \/ P_attach
  <2>1. PICK kind \in {"sem_wait", "sem_post", "setbuf", "kill", "attach"} : AtP(kind)
    BY <1>5 DEF P_sem_wait, P_sem_post, P_kill, P_attach
  <2>2. /\ test' = test
        /\ \/ p' = pNext \/ (p' = pFail /\ kind \in {"kill", "attach"})
           \/ p' = [pNext EXCEPT !.buf = PStep.val]
    BY <1>5, <2>1 DEF P_sem_wait, P_sem_post, P_buf, P_kill, P_attach, AtP
  <2>3. /\ PStep.kind = kind /\ PStep = Steps(test)[p.ix] /\ kind \notin HoldKinds
        /\ p.ix \in 1 .. Len(Program[test].parent)
    BY <1>t, <2>1, ParentStepType DEF AtP, PStep, Steps, HoldKinds, RequestKinds
  <2>4. Program[test].start = "mmap" /\ kind \in {"kill", "attach"} => PStep.fail = "out"
    BY <1>t, <2>3, StopAssumption DEF Steps, TypeOK
  <2>5. \/ p'.at = "func" /\ p'.ix = p.ix + 1
        \/ /\ p'.at \in {"func", "cont", "out"} /\ p'.ix \in {p.ix, p.ix + 1}
           /\ Program[test].start = "mmap" => p'.at = "out"
    BY <1>t, <2>1, <2>2, <2>4, ParentMove, PNextType DEF PState
  <2> QED BY <1>s, <1>t, <2>2, <2>3, <2>5, SMT DEF HeldInv, Held, Steps
<1>6. CASE P_wait
  <2>1. PICK kind \in {"wait", "waitpid"} : AtP(kind)
    BY <1>6 DEF P_wait
  <2>2. p.ix \in 1 .. Len(Program[test].parent) /\ PStep = Program[test].parent[p.ix]
    BY <1>t, <2>1, ParentStepType DEF PStep
  <2>3. Program[test].start = "mmap" => PStep.fail = "out"
    BY <1>t, <2>1, <2>2, StopAssumption DEF AtP, TypeOK
  <2>4. CASE p' = pFail
    BY <1>6, <1>s, <1>t, <2>1, <2>3, <2>4, ParentMove, SMT DEF P_wait, HeldInv, Held
  <2>5. CASE p' # pFail
    <3>1. /\ ChildEvent /\ ReapChild /\ k.st = "stop" /\ test' = test
          /\ p' = [pNext EXCEPT !.status = k.why]
      BY <1>6, <2>5 DEF P_wait
    <3>2. k'.st = "stop" /\ k'.traced /\ k'.seen
      BY <1>t, <3>1 DEF ChildEvent, ReapChild, TypeOK, KState
    <3>3. p'.at = "func" /\ p'.ix = p.ix + 1
      BY <1>t, <2>1, <3>1, ParentMove, PNextType DEF PState
    <3> QED BY <1>s, <1>t, <2>2, <3>1, <3>2, <3>3, SMT DEF HeldInv, Held, Tracee
  <2> QED BY <2>4, <2>5
<1>7. CASE P_resume
  <2>1. AtP("resume") /\ PStep.kind = "resume" /\ test' = test
    BY <1>7 DEF P_resume, AtP
  <2>2. p.ix \in 1 .. Len(Program[test].parent) /\ PStep = Steps(test)[p.ix]
    BY <1>t, <2>1, ParentStepType DEF PStep, Steps
  <2>3. CASE p' = pNext
    <3>1. p'.at = "func" /\ p'.ix = p.ix + 1 /\ p.ix <= Len(Program[test].parent)
      BY <1>t, <2>1, <2>3, ParentMove
    <3>2. p'.ix - 1 = p.ix
      BY <1>s, <3>1, SMT
    <3>3. Steps(test)[p'.ix - 1].kind \notin HoldKinds
      BY <2>1, <2>2, <3>2 DEF HoldKinds, RequestKinds
    <3> QED BY <1>s, <1>t, <2>1, <3>1, <3>3, SMT DEF HeldInv, Held, Steps
  <2>4. CASE p' = pFail /\ k' = k
    <3>1. Program[test].start = "mmap" => Tracee /\ k.seen
      BY <2>1, HeldRequest
    <3> QED BY <1>s, <1>t, <2>1, <2>2, <2>4, <3>1, ParentMove, SMT DEF HeldInv, Held, Tracee
  <2> QED BY <1>7, <2>3, <2>4 DEF P_resume
<1>8. CASE P_success
  <2>1. /\ test' = test /\ k' = k /\ test \in Tests
        /\ p.ix = Len(Program[test].parent) + 1
        /\ p'.at = Program[test].tail /\ p'.ix = p.ix /\ p.at = "func"
        /\ Program[test].tail \in {"cont", "out", "done"}
    <3>1. test' = test /\ k' = k /\ p.at = "func" /\ test \in Tests
      BY <1>8, <1>t DEF P_success, TypeOK
    <3>2. p'.at = Program[test].tail /\ p'.ix = p.ix
      BY <1>8, <1>t DEF P_success, TypeOK, PState
    <3>3. p.ix = Len(Program[test].parent) + 1
      BY <1>8, <1>s, <1>t, SMT DEF P_success, Held
    <3> QED BY <3>1, <3>2, <3>3, ProgramAssumption
  <2>2. Program[test].start = "mmap" /\ Program[test].tail = "cont" => Tracee /\ k.seen
    BY <1>s, <1>t, <2>1, StopAssumption, SMT DEF Held, Steps
  <2>3. Program[test].start = "mmap" /\ p'.at = "cont" => (Tracee /\ k.seen)'
    BY <2>1, <2>2 DEF Tracee
  <2>4. p'.ix <= Len(Program[test'].parent) + 1 /\ p'.at \notin {"mmap", "fork", "func"}
    BY <1>s, <2>1, SMT
  <2> QED BY <1>t, <2>1, <2>3, <2>4 DEF HeldInv, Held
<1>9. CASE P_cont
  <2>1. p'.at = "out" /\ p'.ix = p.ix /\ test' = test
    BY <1>9, <1>t DEF P_cont, TypeOK, PState
  <2> QED BY <1>t, <2>1 DEF HeldInv, Held
<1> QED
  <2>1. P_buf => AtP("setbuf") \/ AtP("checkbuf")
    BY DEF P_buf
  <2> QED BY <2>1, <1>1, <1>2, <1>3, <1>4, <1>5, <1>6, <1>7, <1>8, <1>9
          DEF Next, Parent, Requests

\* The parent never asks ptrace anything of a child it has not seen stopped,
\* in any test point of this shape and whatever calls fail.
THEOREM RequestsStopped == Spec => []RequestsOnStopped
  BY HeldInit, HeldStep, HeldImplies, PTL DEF Spec

--------------------------------------------------------------------------
(***************************************************************************)
(* VerdictSound rests on how a child can have stopped or ended, and on the *)
(* verdict being the parent's last act.                                    *)
(***************************************************************************)
Fate ==
    /\ k.st = "stop" => k.why \in Stops
    /\ k.st \in {"zombie", "gone"} =>
          \/ k.why = "EXIT0" /\ c.ret = 0
          \/ k.why = "EXIT255"
          \/ k.why = "KILL" /\ Program[test].final # "exit"
          \/ k.why = "CRASH" /\ "crash" \in failed
    /\ g.st # "unborn" => UsesKind(Program[test].child, "fork")
VerdictLast == p.at = "done" <=> verdict # "none"
VerdictInv == TypeOK /\ Fate /\ VerdictLast /\ VerdictSound

LEMMA FateOfChild ==
    ASSUME TypeOK, Fate, Child \/ K_crash
    PROVE  Fate'
<1>0. k.st = "run" /\ UNCHANGED test
  BY ChildFrame
<1>1. \/ k'.st = "run"
      \/ k'.st = "stop" /\ k'.why \in Stops
      \/ k'.st = "zombie" /\ k'.why = "EXIT0" /\ c'.ret = 0
      \/ k'.st = "zombie" /\ k'.why = "EXIT255"
      \/ k'.st = "zombie" /\ k'.why = "CRASH" /\ "crash" \in failed'
  <2>0. \A w \in Stops : Stopped(w).st = "stop" /\ Stopped(w).why = w
    BY DEF Stopped, TypeOK, KState
  <2>1. CASE K_deliver \/ K_step \/ K_futex_restart \/ C_raise
    <3>1. \/ k' = Stopped("STOP") \/ k' = Stopped("ILL") \/ k' = Stopped("TRAP")
          \/ k' = Stopped("FUTEX") \/ k' = k
      BY <2>1 DEF K_deliver, K_step, K_futex_restart, C_raise
    <3> QED BY <1>0, <2>0, <3>1, StopsAreValues, SMT
  <2>2. CASE C_getaddr \/ C_set \/ C_check \/ C_sem_post \/ C_sleep \/ C_success
    BY <1>0, <2>2 DEF C_getaddr, C_set, C_check, C_sem_post, C_sleep, C_success
  <2>3. CASE C_traceme \/ C_sem_block \/ C_sem_wait
    BY <1>0, <2>3 DEF C_traceme, C_sem_block, C_sem_wait, TypeOK, KState
  <2>4. CASE C_exec
    BY <1>0, <2>0, <2>4, StopsAreValues, SMT DEF C_exec
  <2>5. CASE C_fork \/ C_getpid
    <3>1. k' = k \/ k' = Stopped("FORK") \/ k' = Stopped("GETPID")
      BY <2>5 DEF C_fork, C_getpid
    <3> QED BY <1>0, <2>0, <3>1, StopsAreValues
  <2>6. CASE C_exit
    <3>1. Exited(c.ret).st = "zombie" /\ Exited(-1).st = "zombie"
      BY DEF Exited, TypeOK, KState
    <3>2. Exited(c.ret).why = (IF c.ret = 0 THEN "EXIT0" ELSE "EXIT255")
      BY DEF Exited, TypeOK, KState
    <3>3. Exited(-1).why = "EXIT255"
      BY SMT DEF Exited, TypeOK, KState
    <3>4. [c EXCEPT !.at = "done"].ret = c.ret
      BY DEF TypeOK, CState
    <3> QED BY <2>6, <3>1, <3>2, <3>3, <3>4 DEF C_exit
  <2>7. CASE K_crash
    <3>1. "crash" \in failed'
      BY <2>7 DEF K_crash, Errs
    <3>2. \/ k' = Stopped("SEGV")
          \/ k' = [k EXCEPT !.st = "zombie", !.why = "CRASH", !.seen = FALSE]
      BY <2>7 DEF K_crash
    <3>3. CASE k' = Stopped("SEGV")
      BY <2>0, <3>3, StopsAreValues
    <3>4. CASE k' = [k EXCEPT !.st = "zombie", !.why = "CRASH", !.seen = FALSE]
      BY <3>1, <3>4 DEF TypeOK, KState
    <3> QED BY <3>2, <3>3, <3>4
  <2> QED BY <2>1, <2>2, <2>3, <2>4, <2>5, <2>6, <2>7 DEF Child
<1>2. g' = g \/ AtC("fork")
  BY DEF Child, K_crash, K_deliver, K_step, K_futex_restart, C_traceme, C_getaddr,
     C_set, C_check, C_sem_post, C_sem_block, C_sem_wait, C_exec, C_fork, C_raise,
     C_getpid, C_sleep, C_success, C_exit
<1>3. AtC("fork") => UsesKind(Program[test].child, "fork")
  <2> SUFFICES ASSUME AtC("fork") PROVE UsesKind(Program[test].child, "fork")
    OBVIOUS
  <2>1. c.ix \in 1 .. Len(Program[test].child) /\ CStep.kind = "fork"
    BY ChildStepType DEF AtC
  <2>2. Program[test].child \in Seq(ChildSteps)
    BY ProgramAssumption DEF TypeOK
  <2> QED BY <2>1, <2>2, SMT DEF UsesKind, CStep
<1> QED BY <1>0, <1>1, <1>2, <1>3 DEF Fate

\* failed only grows.
LEMMA FailedGrows ==
    ASSUME Parent \/ Child \/ G_stop \/ K_crash \/ Finished
    PROVE  failed \subseteq failed'
<1>1. failed' = failed \/ (\E op : Errs(op)) \/ (\E op, other : failed' = failed \cup {op, other})
  BY DEF Parent, RunMmap, RunFork, RunUnmap, RunWait, P_sem_wait, P_sem_post, P_buf,
     P_kill, P_attach, P_wait, P_peek, P_poke, P_peekaddr, P_peektext, P_load,
     P_restore, P_refused, P_stopsig, P_resume, P_gkill, P_success, P_cont,
     Child, K_deliver, K_step, K_futex_restart, C_traceme, C_getaddr,
     C_set, C_check, C_sem_post, C_sem_block, C_sem_wait, C_exec, C_fork, C_raise,
     C_getpid, C_sleep, C_success, C_exit, G_stop, K_crash, Finished, vars,
     Accepted, Rejected, Passes
<1> QED BY <1>1 DEF Errs

\* The parent changes how the child stopped or ended only by PTRACE_KILL.
LEMMA FateOfParent ==
    ASSUME TypeOK, Fate, Parent
    PROVE  Fate'
<1>0. UNCHANGED test /\ failed \subseteq failed'
  BY FailedGrows DEF Parent, RunMmap, RunFork, RunUnmap, RunWait, P_sem_wait,
     P_sem_post, P_buf, P_kill, P_attach, P_wait, P_peek, P_poke, P_peekaddr,
     P_peektext, P_load, P_restore, P_refused, P_stopsig, P_resume, P_gkill,
     P_success, P_cont
<1>1. CASE Requests \/ P_buf \/ P_sem_wait \/ P_success \/ RunMmap \/ RunUnmap
  <2>1. UNCHANGED <<c, k>>
    BY <1>1 DEF Requests, P_peek, P_poke, P_peekaddr, P_peektext, P_load, P_restore,
       P_refused, P_stopsig, P_gkill, P_buf, P_sem_wait, P_success, RunMmap, RunUnmap
  <2>2. g' = g \/ g.st \in {"run", "stop"}
    BY <1>1 DEF Requests, P_peek, P_poke, P_peekaddr, P_peektext, P_load, P_restore,
       P_refused, P_stopsig, P_gkill, P_buf, P_sem_wait, P_success, RunMmap, RunUnmap
  <2> QED BY <1>0, <2>1, <2>2 DEF Fate
<1>2. CASE P_sem_post \/ P_kill \/ P_attach
  <2>1. k'.st = k.st /\ k'.why = k.why /\ UNCHANGED <<c, g>>
    BY <1>2 DEF P_sem_post, P_kill, P_attach, TypeOK, KState
  <2> QED BY <1>0, <2>1 DEF Fate
<1>3. CASE RunFork
  <2>1. (k' = k /\ c' = c) \/ k'.st = "run"
    BY <1>3 DEF RunFork, TypeOK, KState
  <2> QED BY <1>0, <1>3, <2>1 DEF Fate, RunFork
<1>4. CASE RunWait \/ P_wait
  <2>1. c' = c /\ (k' = k \/ (ChildEvent /\ ReapChild)) /\ (g' = g \/ GrandchildEvent)
    BY <1>4 DEF RunWait, P_wait
  <2>2. k'.why = k.why /\ (k'.st = k.st \/ (k.st = "zombie" /\ k'.st = "gone"))
    BY <2>1 DEF ReapChild, TypeOK, KState
  <2> QED BY <1>0, <2>1, <2>2 DEF Fate, GrandchildEvent
<1>5. CASE P_resume \/ P_cont
  <2>1. UNCHANGED <<c, g>>
    BY <1>5 DEF P_resume, P_cont
  <2>2. \/ k' = k
        \/ k' = Resumed("CONT")
        \/ k' = Resumed(PStep.op) /\ AtP("resume")
    BY <1>5 DEF P_resume, P_cont
  <2>3. AtP("resume") /\ PStep.op = "KILL" => Program[test].final # "exit"
    BY ParentStepType, JudgeAssumption DEF TypeOK, PStep
  <2>4. \A op : \/ op # "KILL" /\ Resumed(op).st = "run"
               \/ /\ op = "KILL"
                  /\ Resumed(op).st = "zombie" /\ Resumed(op).why = "KILL"
    BY DEF Resumed, TypeOK, KState
  <2> QED BY <1>0, <2>1, <2>2, <2>3, <2>4, SMT DEF Fate
<1> QED BY <1>1, <1>2, <1>3, <1>4, <1>5 DEF Parent, Requests

LEMMA VerdictInit == Init => VerdictInv
  BY TypeInit, ProgramAssumption, SMT DEF Init, VerdictInv, Fate, VerdictLast, VerdictSound

\* Only RunWait and P_success return NULL, and the parent ends with its verdict.
LEMMA ParentVerdict ==
    ASSUME TypeOK, VerdictLast, Parent
    PROVE  /\ verdict = "none" /\ VerdictLast'
           /\ verdict' = "ok" => RunWait \/ (P_success /\ Program[test].final = "none")
<1>1. CASE RunMmap \/ RunFork \/ RunUnmap \/ RunWait
  <2>1. verdict = "none"
    BY <1>1 DEF RunMmap, RunFork, RunUnmap, RunWait, VerdictLast
  <2>2. CASE RunWait
    <3>1. p'.at = "done" /\ (verdict' = "wait() failed." \/ \E why : verdict' = Judge(why))
      BY <2>2 DEF RunWait, TypeOK, PState
    <3>2. \A why : Judge(why) # "none"
      BY DEF Judge
    <3> QED BY <2>1, <2>2, <3>1, <3>2 DEF VerdictLast
  <2>3. CASE RunMmap \/ RunFork \/ RunUnmap
    <3>1. \/ p'.at = "done" /\ verdict' \in {"SIGSEGV", "sem_init() failed.",
                                         "fork() failed.", "munmap() failed."}
          \/ p'.at \in {"fork", "func", "final"} /\ verdict' = verdict
      BY <2>3 DEF RunMmap, RunFork, RunUnmap, TypeOK, PState
    <3> QED BY <2>1, <3>1 DEF VerdictLast
  <2> QED BY <1>1, <2>2, <2>3
<1>2. CASE P_success
  <2>1. /\ p.at = "func" /\ p'.at = Program[test].tail
        /\ verdict' = IF Program[test].tail = "done" THEN "ok" ELSE verdict
    BY <1>2 DEF P_success, TypeOK, PState
  <2>2. Program[test].tail = "done" => Program[test].final = "none"
    BY JudgeAssumption DEF TypeOK
  <2> QED BY <1>2, <2>1, <2>2 DEF VerdictLast
<1>3. CASE P_cont
  BY <1>3 DEF P_cont, VerdictLast, TypeOK, PState
<1>4. CASE Requests
  <2>1. p.at = "func" /\ p'.at \in {"func", "cont", "out"}
    BY <1>4, RequestMove DEF AtP
  <2>2. verdict' = verdict
    BY <1>4 DEF Requests, P_peek, P_poke, P_peekaddr, P_peektext, P_load, P_restore,
       P_refused, P_stopsig, P_gkill, P_buf
  <2> QED BY <2>1, <2>2 DEF VerdictLast
<1>5. CASE \/ P_sem_wait \/ P_sem_post \/ P_buf \/ P_kill \/ P_attach
           \/ P_wait \/ P_resume
  <2>1. PICK kind : AtP(kind)
    BY <1>5 DEF P_sem_wait, P_sem_post, P_buf, P_kill, P_attach, P_wait, P_resume
  <2>2. /\ verdict' = verdict
        /\ \/ p' \in {pNext, pFail} \/ p' = [pNext EXCEPT !.status = k.why]
           \/ p' = [pNext EXCEPT !.buf = PStep.val]
    BY <1>5 DEF P_sem_wait, P_sem_post, P_buf, P_kill, P_attach, P_wait, P_resume
  <2>3. p.at = "func" /\ p'.at \in {"func", "cont", "out"}
    BY <2>1, <2>2, ParentMove, PNextType DEF AtP, PState
  <2> QED BY <2>2, <2>3 DEF VerdictLast
<1> QED BY <1>1, <1>2, <1>3, <1>4, <1>5 DEF Parent, Requests

\* The last wait returns NULL only for a child that ended as the test asks.
LEMMA JudgeSound ==
    ASSUME TypeOK, Fate, RunWait, verdict' = "ok",
           ~UsesKind(Program[test].child, "fork"), Program[test].final # "none"
    PROVE  /\ p'.ret = 0 /\ k'.st = "gone" /\ c' = c
           /\ Program[test].final = "exit" => \/ k'.why = "EXIT0" /\ c.ret = 0
                                              \/ k'.why = "CRASH" /\ "crash" \in failed
           /\ Program[test].final = "killed" => k'.why = "KILL"
<1>1. g.st = "unborn" /\ Program[test].final \in {"exit", "killed"}
  BY ProgramAssumption DEF Fate, TypeOK
<1>2. ChildEvent /\ ReapChild /\ Judge(k.why) = "ok" /\ c' = c /\ p'.ret = p.ret
  BY <1>1 DEF RunWait, GrandchildEvent, TypeOK, PState
<1>3. /\ p.ret = 0
      /\ Program[test].final = "killed" => k.why = "KILL"
      /\ Program[test].final = "exit" => WEXITSTATUS(k.why) = 0
  BY <1>1, <1>2 DEF Judge
<1>4. k.why \notin Stops
  BY <1>1, <1>3, SMT DEF WEXITSTATUS, Stops
<1>5. k.st = "zombie" /\ k'.st = "gone" /\ k'.why = k.why
  BY <1>2, <1>4 DEF Fate, ChildEvent, ReapChild, TypeOK, KState
<1>6. Program[test].final = "exit" => \/ k.why = "EXIT0" /\ c.ret = 0
                                      \/ k.why = "CRASH" /\ "crash" \in failed
  BY <1>3, <1>5, SMT DEF Fate, WEXITSTATUS
<1> QED BY <1>2, <1>3, <1>5, <1>6

LEMMA VerdictStep == VerdictInv /\ [Next]_vars => VerdictInv'
<1> SUFFICES ASSUME VerdictInv, [Next]_vars PROVE VerdictInv'
  OBVIOUS
<1>t. TypeOK /\ TypeOK' /\ Fate /\ VerdictLast /\ VerdictSound
  BY TypeStep DEF VerdictInv
<1>1. CASE Parent
  <2>1. Fate' /\ VerdictLast'
    BY <1>1, <1>t, FateOfParent, ParentVerdict
  <2>2. VerdictSound'
    <3>0. failed \subseteq failed'
      BY <1>1, FailedGrows
    <3>1. CASE RunWait /\ verdict' = "ok"
      <4>1. test' = test
        BY <3>1 DEF RunWait
      <4> QED BY <1>t, <3>0, <3>1, <4>1, JudgeSound DEF VerdictSound
    <3>2. CASE P_success /\ Program[test].final = "none"
      BY <3>2 DEF P_success, VerdictSound
    <3> QED BY <1>1, <1>t, <3>1, <3>2, ParentVerdict DEF VerdictSound
  <2> QED BY <1>t, <2>1, <2>2 DEF VerdictInv
<1>2. CASE Child \/ K_crash
  <2>1. k.st = "run" /\ UNCHANGED <<test, p, verdict>> /\ failed \subseteq failed'
    BY <1>2, ChildFrame, FailedGrows
  <2>2. Fate'
    BY <1>2, <1>t, FateOfChild
  <2>3. VerdictSound'
    BY <1>t, <2>1 DEF VerdictSound
  <2> QED BY <1>t, <2>1, <2>2, <2>3 DEF VerdictInv, VerdictLast
<1>3. CASE G_stop
  BY <1>3, <1>t DEF G_stop, VerdictInv, Fate, VerdictLast, VerdictSound
<1>4. CASE Finished \/ UNCHANGED vars
  BY <1>4, <1>t DEF Finished, vars, VerdictInv, Fate, VerdictLast, VerdictSound
<1> QED BY <1>1, <1>2, <1>3, <1>4 DEF Next

\* A NULL from RUN_FUNC means what it should, in any test point of this
\* shape and whatever calls fail.
THEOREM VerdictsSound == Spec => []VerdictSound
<1>1. VerdictInv => VerdictSound
  BY DEF VerdictInv
<1> QED BY <1>1, VerdictInit, VerdictStep, PTL DEF Spec


--------------------------------------------------------------------------
(***************************************************************************)
(* ChildHeld.  Up to the parent's first wait nothing resumes the child, so *)
(* either SIGSTOP has not been sent, then cwait has not been posted, or it *)
(* is pending or has stopped the child, which then makes no step.          *)
(***************************************************************************)
FirstWait == FirstIndex(Steps(test), "wait")
FirstSemWait == FirstIndex(Program[test].child, "sem_wait")
Sent == \E j \in 1 .. (p.ix - 1) : Steps(test)[j].kind \in StopKinds

Handshake ==
    PromptStop /\ "csem_wait" \notin failed /\ UsesKind(Program[test].child, "sem_wait")
        /\ p.at \in {"mmap", "fork", "func"} /\ p.ix <= FirstWait
    => /\ c.ix <= FirstSemWait
       /\ k.mode = "CONT"
       /\ ~Sent => sem.cwait = 0
       /\ Sent => k.pending \/ k.st # "run"
HandshakeInv == HeldInv /\ Handshake

\* The two indices of a program that uses the semaphores.
LEMMA FirstIndices ==
    ASSUME test \in Tests, UsesKind(Program[test].child, "sem_wait")
    PROVE  /\ FirstSemWait \in 1 .. Len(Program[test].child)
           /\ Program[test].child[FirstSemWait].kind = "sem_wait"
           /\ FirstWait \in 1 .. Len(Program[test].parent)
           /\ Steps(test)[FirstWait].kind = "wait"
           /\ \A j \in 1 .. (FirstWait - 1) :
                 /\ Steps(test)[j].kind \notin {"wait", "resume"}
                 /\ Steps(test)[j].kind = "sem_post"
                       => \E s \in 1 .. (j - 1) : Steps(test)[s].kind \in StopKinds
<1>1. PICK w \in 1 .. Len(Program[test].child) :
         /\ Program[test].child[w].kind = "sem_wait"
         /\ \A j \in 1 .. (w - 1) : Program[test].child[j].kind # "sem_wait"
  BY HandshakeAssumption
<1>2. PICK f \in 1 .. Len(Program[test].parent) :
         /\ Program[test].parent[f].kind = "wait"
         /\ \A j \in 1 .. (f - 1) :
               /\ Program[test].parent[j].kind \notin {"wait", "resume"}
               /\ Program[test].parent[j].kind = "sem_post"
                     => \E s \in 1 .. (j - 1) : Program[test].parent[s].kind \in StopKinds
  BY HandshakeAssumption
<1>3. /\ Program[test].child \in Seq(ChildSteps) /\ Program[test].parent \in Seq(ParentSteps)
      /\ DOMAIN Program[test].child = 1 .. Len(Program[test].child)
      /\ DOMAIN Program[test].parent = 1 .. Len(Program[test].parent)
      /\ Len(Program[test].child) \in Nat /\ Len(Program[test].parent) \in Nat
  BY ProgramAssumption, SMT
<1>4. FirstSemWait = w
  <2>1. \A i \in DOMAIN Program[test].child :
           /\ Program[test].child[i].kind = "sem_wait"
           /\ \A j \in 1 .. (i - 1) : Program[test].child[j].kind # "sem_wait"
           => i = w
    <3> TAKE i \in DOMAIN Program[test].child
    <3>1. i \in Int /\ w \in Int /\ 1 <= i /\ 1 <= w
      BY <1>3, SMT
    <3>2. i < w => i \in 1 .. (w - 1)
      BY <3>1, SMT
    <3>3. w < i => w \in 1 .. (i - 1)
      BY <3>1, SMT
    <3> QED BY <1>1, <3>1, <3>2, <3>3, SMT
  <2> QED BY <1>1, <1>3, <2>1 DEF FirstSemWait, FirstIndex
<1>5. FirstWait = f
  <2>1. \A i \in DOMAIN Program[test].parent :
           /\ Program[test].parent[i].kind = "wait"
           /\ \A j \in 1 .. (i - 1) : Program[test].parent[j].kind # "wait"
           => i = f
    <3> TAKE i \in DOMAIN Program[test].parent
    <3>1. i \in Int /\ f \in Int /\ 1 <= i /\ 1 <= f
      BY <1>3, SMT
    <3>2. i < f => i \in 1 .. (f - 1)
      BY <3>1, SMT
    <3>3. f < i => f \in 1 .. (i - 1)
      BY <3>1, SMT
    <3> QED BY <1>2, <3>1, <3>2, <3>3, SMT
  <2>2. \A j \in 1 .. (f - 1) : Program[test].parent[j].kind # "wait"
    BY <1>2
  <2> QED BY <1>2, <1>3, <2>1, <2>2 DEF FirstWait, FirstIndex, Steps
<1> QED BY <1>1, <1>2, <1>4, <1>5 DEF Steps

\* A step of the child: only sem_wait on a posted cwait, or one that fails, takes it past
\* its sem_wait, and
\* a pending SIGSTOP leaves it no step but to stop or to die.
LEMMA ChildMove ==
    ASSUME TypeOK, Child \/ K_crash
    PROVE  /\ \/ c'.ix = c.ix
              \/ /\ c'.ix = c.ix + 1
                 /\ Program[test].child[c.ix].kind = "sem_wait" => sem.cwait > 0 \/ "csem_wait" \in failed'
           /\ sem'.cwait = sem.cwait \/ sem.cwait > 0
           /\ k'.mode \in {k.mode, "CONT"}
           /\ PromptStop /\ k.pending /\ k.mode = "CONT" => k'.st # "run" /\ c' = c /\ sem' = sem
<1>0. \A w \in Stops : Stopped(w).st = "stop" /\ Stopped(w).mode = "CONT"
  BY DEF Stopped, TypeOK, KState
<1>1. cNext.ix = c.ix + 1 /\ cFail.ix = c.ix
  BY DEF cNext, cFail, TypeOK, CState
<1>2. \A v : [sem EXCEPT !.pwait = v].cwait = sem.cwait
  BY DEF TypeOK
<1>3. CASE K_deliver \/ K_step \/ K_futex_restart
  <2>1. c' = c /\ sem' = sem
    BY <1>3 DEF K_deliver, K_step, K_futex_restart
  <2>2. k' = Stopped("STOP") \/ k' = Stopped("ILL") \/ k' = Stopped("TRAP") \/ k' = Stopped("FUTEX")
    BY <1>3 DEF K_deliver, K_step, K_futex_restart
  <2> QED BY <1>0, <2>1, <2>2, StopsAreValues
<1>4. CASE K_crash
  <2>1. c' = c /\ sem' = sem
    BY <1>4 DEF K_crash
  <2>2. \/ k' = Stopped("SEGV")
        \/ k' = [k EXCEPT !.st = "zombie", !.why = "CRASH", !.seen = FALSE]
    BY <1>4 DEF K_crash
  <2>3. [k EXCEPT !.st = "zombie", !.why = "CRASH", !.seen = FALSE].mode = k.mode
    BY DEF TypeOK, KState
  <2>4. [k EXCEPT !.st = "zombie", !.why = "CRASH", !.seen = FALSE].st = "zombie"
    BY DEF TypeOK, KState
  <2> QED BY <1>0, <2>1, <2>2, <2>3, <2>4, StopsAreValues
<1>5. CASE \/ C_traceme \/ C_getaddr \/ C_set \/ C_check \/ C_sem_post \/ C_sem_block \/ C_sem_wait
           \/ C_exec \/ C_fork \/ C_raise \/ C_getpid \/ C_sleep \/ C_success \/ C_exit
  <2>1. ~(PromptStop /\ k.pending)
    BY <1>5 DEF C_traceme, C_getaddr, C_set, C_check, C_sem_post, C_sem_block, C_sem_wait, C_exec,
       C_fork, C_raise, C_getpid, C_sleep, C_success, C_exit, Free, Runs
  <2>2. sem'.cwait = sem.cwait \/ sem.cwait > 0
    <3>1. sem' = sem \/ (\E v : sem' = [sem EXCEPT !.pwait = v]) \/ sem.cwait > 0
      BY <1>5 DEF C_traceme, C_getaddr, C_set, C_check, C_sem_post, C_sem_block, C_sem_wait, C_exec,
         C_fork, C_raise, C_getpid, C_sleep, C_success, C_exit
    <3> QED BY <1>2, <3>1
  <2>3. k'.mode \in {k.mode, "CONT"}
    <3>1. \/ k' = k
          \/ k' = [k EXCEPT !.traced = TRUE]
          \/ k' = [k EXCEPT !.futex = "asleep"]
          \/ k' = [k EXCEPT !.futex = "no"]
          \/ \E w \in {"TRAP", "ILL", "FORK", "STOP", "GETPID"} : k' = Stopped(w)
          \/ \E r : k' = Exited(r)
      BY <1>5 DEF C_traceme, C_getaddr, C_set, C_check, C_sem_post, C_sem_block, C_sem_wait, C_exec,
         C_fork, C_raise, C_getpid, C_sleep, C_success, C_exit
    <3>2. \A r : Exited(r).mode = k.mode
      BY DEF Exited, TypeOK, KState
    <3>3. /\ [k EXCEPT !.traced = TRUE].mode = k.mode
          /\ [k EXCEPT !.futex = "asleep"].mode = k.mode
          /\ [k EXCEPT !.futex = "no"].mode = k.mode
      BY DEF TypeOK, KState
    <3> QED BY <1>0, <3>1, <3>2, <3>3, StopsAreValues
  <2>4. \/ c'.ix = c.ix
        \/ /\ c'.ix = c.ix + 1
           /\ Program[test].child[c.ix].kind = "sem_wait" => sem.cwait > 0 \/ "csem_wait" \in failed'
    <3>1. CASE C_sem_wait
      BY <1>1, <3>1 DEF C_sem_wait, Errs
    <3>2. CASE C_success \/ C_exit
      BY <3>2 DEF C_success, C_exit, TypeOK, CState
    <3>3. CASE \/ C_traceme \/ C_getaddr \/ C_set \/ C_check \/ C_sem_post \/ C_sem_block
               \/ C_exec \/ C_fork \/ C_raise \/ C_getpid \/ C_sleep
      <4>1. c' \in {c, cFail} \/ (c' = cNext /\ CStep.kind # "sem_wait")
        BY <3>3 DEF C_traceme, C_getaddr, C_set, C_check, C_sem_post, C_sem_block, C_exec,
           C_fork, C_raise, C_getpid, C_sleep, AtC
      <4> QED BY <1>1, <4>1 DEF CStep
    <3> QED BY <1>5, <3>1, <3>2, <3>3
  <2> QED BY <2>1, <2>2, <2>3, <2>4
<1> QED BY <1>3, <1>4, <1>5 DEF Child

\* The steps of parent_func, by what they do to the kernel's view of the child.
Others == P_sem_wait \/ P_buf \/ Requests
FuncSteps == Others \/ P_sem_post \/ P_kill \/ P_attach \/ P_wait \/ P_resume

\* A step that stays in parent_func goes to the next statement.
LEMMA ParentAdvance ==
    ASSUME TypeOK, FuncSteps, p'.at = "func"
    PROVE  p'.ix = p.ix + 1
<1>1. PICK kind : AtP(kind)
  BY DEF FuncSteps, Others, Requests, P_sem_wait, P_sem_post, P_buf, P_kill, P_attach, P_wait, P_resume,
     P_peek, P_poke, P_peekaddr, P_peektext, P_load, P_restore, P_refused, P_stopsig, P_gkill
<1>2. pNext \in PState /\ pFail \in PState /\ pNext.ix = p.ix + 1
  BY <1>1, PNextType, ParentMove
<1>3. pFail.at = "func" => pFail = pNext
  BY <1>1, ParentStepType DEF pFail, ParentSteps, TypeOK, PState
<1>4. \/ p' \in {pNext, pFail}
      \/ \E v : \/ p' = [pNext EXCEPT !.buf = v] \/ p' = [pNext EXCEPT !.status = v]
               \/ p' = [pNext EXCEPT !.read_val = v] \/ p' = [pFail EXCEPT !.read_val = v]
               \/ p' = [pNext EXCEPT !.inst_val = v]
  BY DEF FuncSteps, Others, Requests, P_sem_wait, P_sem_post, P_buf, P_kill, P_attach, P_wait, P_resume,
     P_peek, P_poke, P_peekaddr, P_peektext, P_load, P_restore, P_refused, P_stopsig, P_gkill
<1> QED BY <1>2, <1>3, <1>4 DEF PState

\* What is known of a statement before the first wait.
LEMMA BeforeFirstWait ==
    ASSUME HandshakeInv, UsesKind(Program[test].child, "sem_wait"), NEW kind, AtP(kind),
           test' = test, p'.ix = p.ix + 1, p'.ix <= FirstWait
    PROVE  /\ kind \notin {"wait", "resume"}
           /\ kind = "sem_post" => Sent
           /\ Sent' <=> Sent \/ kind \in StopKinds
           /\ kind \in StopKinds => pFail.at = "out"
           /\ p.at = "func" /\ p.ix <= FirstWait
<1>1. p.ix \in Nat \ {0} /\ p.at = "func" /\ Steps(test)[p.ix].kind = kind /\ test \in Tests
  BY DEF HandshakeInv, HeldInv, TypeOK, PState, AtP, PStep, Steps
<1>2. FirstWait \in Nat /\ p.ix \in 1 .. (FirstWait - 1)
  <2>1. FirstWait \in Nat
    BY <1>1, FirstIndices, SMT
  <2> QED BY <1>1, <2>1, SMT
<1>3. kind \notin {"wait", "resume"} /\ (kind = "sem_post" => Sent)
  BY <1>1, <1>2, FirstIndices DEF Sent
<1>4. Sent' <=> Sent \/ kind \in StopKinds
  <2>1. Sent' <=> \E j \in 1 .. p.ix : Steps(test)[j].kind \in StopKinds
    <3>1. p'.ix - 1 = p.ix
      BY <1>1, SMT
    <3> QED BY <3>1 DEF Sent, Steps
  <2>2. \A j : j \in 1 .. p.ix <=> j \in 1 .. (p.ix - 1) \/ j = p.ix
    BY <1>1, SMT
  <2> QED BY <1>1, <2>1, <2>2 DEF Sent
<1>5. kind \in StopKinds => pFail.at = "out"
  <2>1. Program[test].start = "mmap"
    BY <1>1, HandshakeAssumption
  <2>2. p.ix \in 1 .. Len(Program[test].parent)
    BY ParentStepType DEF HandshakeInv, HeldInv
  <2>3. kind \in StopKinds => PStep.fail = "out"
    BY <1>1, <2>1, <2>2, StopAssumption DEF StopKinds, PStep, Steps
  <2> QED BY <2>3, ParentMove DEF HandshakeInv, HeldInv
<1> QED BY <1>1, <1>2, <1>3, <1>4, <1>5, SMT

\* What a statement before the first wait does to the child.
LEMMA HandshakeFunc ==
    ASSUME HandshakeInv, PromptStop, "csem_wait" \notin failed,
           UsesKind(Program[test].child, "sem_wait"), FuncSteps, p'.at = "func", p'.ix <= FirstWait
    PROVE  /\ c' = c /\ k'.mode = "CONT"
           /\ ~Sent' => sem'.cwait = 0
           /\ Sent' => k'.pending \/ k'.st # "run"
<1>t. TypeOK /\ Handshake
  BY DEF HandshakeInv, HeldInv
<1>1. p'.ix = p.ix + 1
  BY <1>t, ParentAdvance
<1>2. UNCHANGED <<test, c>>
  BY DEF FuncSteps, Others, Requests, P_sem_wait, P_sem_post, P_buf, P_kill, P_attach, P_wait, P_resume,
     P_peek, P_poke, P_peekaddr, P_peektext, P_load, P_restore, P_refused, P_stopsig, P_gkill
<1>3. ASSUME NEW kind, AtP(kind)
      PROVE  /\ kind \notin {"wait", "resume"} /\ (kind = "sem_post" => Sent)
             /\ Sent' <=> Sent \/ kind \in StopKinds
             /\ kind \in StopKinds => pFail.at = "out"
             /\ k.mode = "CONT"
             /\ ~Sent => sem.cwait = 0
             /\ Sent => k.pending \/ k.st # "run"
  BY <1>t, <1>1, <1>2, <1>3, BeforeFirstWait DEF Handshake
<1>4. CASE Others
  <2>1. PICK kind : AtP(kind) /\ kind \notin StopKinds
    <3>1. CASE P_sem_wait \/ P_buf
      BY <3>1, SMT DEF P_sem_wait, P_buf, StopKinds
    <3>2. CASE Requests
      BY <1>t, <3>2, RequestMove DEF RequestKinds, StopKinds
    <3> QED BY <1>4, <3>1, <3>2 DEF Others
  <2>2. k' = k
    <3>1. CASE P_sem_wait \/ P_buf
      BY <3>1 DEF P_sem_wait, P_buf
    <3>2. CASE Requests
      BY <1>t, <3>2, RequestMove
    <3> QED BY <1>4, <3>1, <3>2 DEF Others
  <2>3. sem'.cwait = sem.cwait
    <3>1. CASE P_sem_wait
      BY <1>t, <3>1 DEF P_sem_wait, TypeOK
    <3>2. CASE P_buf \/ Requests
      BY <3>2 DEF P_buf, Requests, P_peek, P_poke, P_peekaddr, P_peektext, P_load, P_restore, P_refused,
         P_stopsig, P_gkill
    <3> QED BY <1>4, <3>1, <3>2 DEF Others
  <2> QED BY <1>2, <1>3, <2>1, <2>2, <2>3
<1>5. CASE P_sem_post
  <2>1. /\ AtP("sem_post")
        /\ k' = k \/ k' = [k EXCEPT !.futex = IF @ = "asleep" /\ k.st = "run" THEN "woken" ELSE @]
    BY <1>5 DEF P_sem_post
  <2>2. k'.mode = k.mode /\ k'.pending = k.pending /\ k'.st = k.st
    BY <1>t, <2>1 DEF TypeOK, KState
  <2>3. Sent /\ Sent' /\ k.mode = "CONT" /\ (k.pending \/ k.st # "run")
    BY <1>3, <2>1
  <2> QED BY <1>2, <2>2, <2>3
<1>6. CASE P_kill
  <2>1. AtP("kill") /\ "kill" \in StopKinds
    BY <1>6 DEF P_kill, StopKinds
  <2>2. p' # pFail
    BY <1>3, <2>1
  <2>3. k' = [k EXCEPT !.pending = (k.st \in {"run", "stop"})]
    BY <1>6, <2>2 DEF P_kill
  <2>4. k'.mode = k.mode /\ k'.pending = (k.st \in {"run", "stop"}) /\ k'.st = k.st
    BY <1>t, <2>3 DEF TypeOK, KState
  <2>5. Sent' /\ k.mode = "CONT"
    BY <1>3, <2>1
  <2> QED BY <1>2, <2>4, <2>5
<1>7. CASE P_attach
  <2>1. AtP("attach") /\ "attach" \in StopKinds
    BY <1>7 DEF P_attach, StopKinds
  <2>2. p' # pFail
    BY <1>3, <2>1
  <2>3. k' = [k EXCEPT !.pending = TRUE, !.traced = TRUE]
    BY <1>7, <2>2 DEF P_attach
  <2>4. k'.mode = k.mode /\ k'.pending = TRUE
    BY <1>t, <2>3 DEF TypeOK, KState
  <2>5. Sent' /\ k.mode = "CONT"
    BY <1>3, <2>1
  <2> QED BY <1>2, <2>4, <2>5
<1>8. CASE P_wait
  <2>1. AtP("waitpid")
    BY <1>3, <1>8 DEF P_wait
  <2>2. sem' = sem /\ (k' = k \/ ReapChild)
    BY <1>8 DEF P_wait
  <2>3. k'.mode = k.mode /\ k'.pending = k.pending /\ (k'.st = "run" => k.st = "run")
    BY <1>t, <2>2 DEF ReapChild, TypeOK, KState
  <2>4. /\ Sent' <=> Sent
        /\ k.mode = "CONT"
        /\ ~Sent => sem.cwait = 0
        /\ Sent => k.pending \/ k.st # "run"
    BY <1>3, <2>1, SMT DEF StopKinds
  <2> QED BY <1>2, <2>2, <2>3, <2>4
<1>9. CASE P_resume
  BY <1>3, <1>9 DEF P_resume
<1> QED BY <1>4, <1>5, <1>6, <1>7, <1>8, <1>9 DEF FuncSteps

LEMMA HandshakeInit == Init => HandshakeInv
<1> SUFFICES ASSUME Init PROVE HandshakeInv
  OBVIOUS
<1>1. HeldInv
  BY HeldInit
<1>2. p.ix = 1 /\ c.ix = 1 /\ k.mode = "CONT" /\ sem.cwait = 0 /\ ~Sent
  BY SMT DEF Init, Sent
<1>3. UsesKind(Program[test].child, "sem_wait") => c.ix <= FirstSemWait
  BY <1>1, <1>2, FirstIndices, SMT DEF HeldInv, TypeOK
<1> QED BY <1>1, <1>2, <1>3 DEF HandshakeInv, Handshake

LEMMA HandshakeStep == HandshakeInv /\ [Next]_vars => HandshakeInv'
<1> SUFFICES ASSUME HandshakeInv, [Next]_vars PROVE HandshakeInv'
  OBVIOUS
<1>t. HeldInv /\ HeldInv' /\ TypeOK /\ Handshake
  BY HeldStep DEF HandshakeInv, HeldInv
<1>u. UNCHANGED test => UNCHANGED <<FirstWait, FirstSemWait>>
  BY DEF FirstWait, FirstSemWait, Steps, FirstIndex
<1>v. UNCHANGED <<test, p>> => UNCHANGED Sent
  BY DEF Sent, Steps
<1>f. "csem_wait" \notin failed' => "csem_wait" \notin failed
  BY FailedGrows DEF Next, vars
<1>1. CASE RunMmap \/ RunFork
  <2>1. /\ p.at \in {"mmap", "fork"} /\ p'.ix = p.ix /\ p.ix = 1
        /\ c'.ix = c.ix /\ k'.mode = k.mode /\ UNCHANGED <<test, sem>>
    BY <1>1, <1>t, ZenonT(30) DEF RunMmap, RunFork, TypeOK, PState, CState, KState, HeldInv, Held
  <2>2. ~Sent /\ ~Sent'
    BY <2>1, SMT DEF Sent
  <2>3. Handshake'
    BY <1>t, <1>u, <1>f, <2>1, <2>2 DEF Handshake
  <2> QED BY <1>t, <2>3 DEF HandshakeInv
<1>2. CASE RunUnmap \/ RunWait \/ P_success \/ P_cont
  <2>1. p'.at \in {"final", "done", "cont", "out"}
    BY <1>2, <1>t, ProgramAssumption DEF RunUnmap, RunWait, P_success, P_cont, TypeOK, PState
  <2> QED BY <1>t, <2>1 DEF HandshakeInv, Handshake
<1>3. CASE FuncSteps
  <2>1. test' = test /\ p.at = "func"
    BY <1>3 DEF FuncSteps, Others, Requests, P_sem_wait, P_sem_post, P_buf, P_kill, P_attach, P_wait,
       P_resume, P_peek, P_poke, P_peekaddr, P_peektext, P_load, P_restore, P_refused, P_stopsig, P_gkill, AtP
  <2>2. p'.at \notin {"mmap", "fork"}
    <3>1. PICK kind : AtP(kind)
      BY <1>3 DEF FuncSteps, Others, Requests, P_sem_wait, P_sem_post, P_buf, P_kill, P_attach, P_wait,
         P_resume, P_peek, P_poke, P_peekaddr, P_peektext, P_load, P_restore, P_refused, P_stopsig, P_gkill
    <3>2. pNext \in PState /\ pFail \in PState /\ pNext.at = "func" /\ pFail.at \in {"func", "cont", "out"}
      BY <1>t, <3>1, PNextType, ParentMove
    <3>3. \/ p' \in {pNext, pFail}
          \/ \E x : \/ p' = [pNext EXCEPT !.buf = x] \/ p' = [pNext EXCEPT !.status = x]
                   \/ p' = [pNext EXCEPT !.read_val = x] \/ p' = [pFail EXCEPT !.read_val = x]
                   \/ p' = [pNext EXCEPT !.inst_val = x]
      BY <1>3 DEF FuncSteps, Others, Requests, P_sem_wait, P_sem_post, P_buf, P_kill, P_attach, P_wait,
         P_resume, P_peek, P_poke, P_peekaddr, P_peektext, P_load, P_restore, P_refused, P_stopsig, P_gkill
    <3> QED BY <3>2, <3>3 DEF PState
  <2>3. Handshake'
    <3> SUFFICES ASSUME PromptStop, "csem_wait" \notin failed, UsesKind(Program[test].child, "sem_wait"),
                        p'.at = "func", p'.ix <= FirstWait
                 PROVE  /\ c'.ix <= FirstSemWait /\ k'.mode = "CONT"
                        /\ ~Sent' => sem'.cwait = 0
                        /\ Sent' => k'.pending \/ k'.st # "run"
      BY <1>u, <1>f, <2>1, <2>2 DEF Handshake
    <3>1. /\ c' = c /\ k'.mode = "CONT"
          /\ ~Sent' => sem'.cwait = 0
          /\ Sent' => k'.pending \/ k'.st # "run"
      BY <1>3, HandshakeFunc
    <3>2. p.ix <= FirstWait
      <4>1. p'.ix = p.ix + 1
        BY <1>3, <1>t, ParentAdvance
      <4>2. FirstWait \in Nat /\ p.ix \in Nat
        BY <1>t, FirstIndices, SMT DEF TypeOK, PState
      <4> QED BY <4>1, <4>2, SMT
    <3> QED BY <1>t, <2>1, <3>1, <3>2 DEF Handshake
  <2> QED BY <1>t, <2>3 DEF HandshakeInv
<1>4. CASE Child \/ K_crash
  <2>1. k.st = "run" /\ UNCHANGED <<test, p>>
    BY <1>4, ChildFrame
  <2>2. Handshake'
    <3> SUFFICES ASSUME PromptStop, "csem_wait" \notin failed', "csem_wait" \notin failed,
                        UsesKind(Program[test].child, "sem_wait"),
                        p.at \in {"mmap", "fork", "func"}, p.ix <= FirstWait
                 PROVE  /\ c'.ix <= FirstSemWait /\ k'.mode = "CONT"
                        /\ ~Sent => sem'.cwait = 0
                        /\ Sent => k'.pending \/ k'.st # "run"
      BY <1>u, <1>v, <1>f, <2>1 DEF Handshake
    <3>1. /\ c.ix <= FirstSemWait /\ k.mode = "CONT"
          /\ ~Sent => sem.cwait = 0
          /\ Sent => k.pending
      BY <1>t, <2>1 DEF Handshake
    <3>2. /\ FirstSemWait \in Nat /\ Program[test].child[FirstSemWait].kind = "sem_wait"
          /\ c.ix \in Nat /\ sem.cwait \in Nat
      BY <1>t, FirstIndices, SMT DEF TypeOK, CState
    <3>3. CASE Sent
      BY <1>4, <1>t, <3>1, <3>3, ChildMove
    <3>4. CASE ~Sent
      <4>1. c'.ix = c.ix \/ (c'.ix = c.ix + 1 /\ c.ix # FirstSemWait)
        BY <1>4, <1>t, <3>1, <3>2, <3>4, ChildMove, SMT
      <4>2. sem'.cwait = 0 /\ k'.mode = "CONT"
        BY <1>4, <1>t, <3>1, <3>2, <3>4, ChildMove, SMT
      <4> QED BY <3>1, <3>2, <3>4, <4>1, <4>2, SMT
    <3> QED BY <3>3, <3>4
  <2> QED BY <1>t, <2>2 DEF HandshakeInv
<1>5. CASE G_stop \/ Finished \/ UNCHANGED vars
  <2>1. UNCHANGED <<test, p, c, k, sem, failed>>
    BY <1>5 DEF G_stop, Finished, vars
  <2> QED BY <1>t, <1>u, <1>v, <2>1, SMT DEF HandshakeInv, Handshake
<1> QED BY <1>1, <1>2, <1>3, <1>4, <1>5 DEF Next, Parent, FuncSteps, Others, Requests

\* The child cannot get past its sem_wait before the parent has collected its stop, in
\* any test point with the handshake of the suite and whatever calls fail but that one.
THEOREM ChildIsHeld == Spec => []ChildHeld
<1>1. HandshakeInv => ChildHeld
  <2> SUFFICES ASSUME HandshakeInv, PromptStop, "csem_wait" \notin failed, p.at = "func", UsesKind(Program[test].child, "sem_wait"),
                      c.ix > FirstSemWait, ~(p.ix > FirstWait)
               PROVE  FALSE
    BY DEF ChildHeld, FirstWait, FirstSemWait
  <2>1. FirstWait \in Nat /\ p.ix \in Nat /\ FirstSemWait \in Nat /\ c.ix \in Nat
    BY FirstIndices, SMT DEF HandshakeInv, HeldInv, TypeOK, PState, CState
  <2>2. c.ix <= FirstSemWait
    BY <2>1, SMT DEF HandshakeInv, Handshake
  <2> QED BY <2>1, <2>2, SMT
<1> QED BY <1>1, HandshakeInit, HandshakeStep, PTL DEF Spec

--------------------------------------------------------------------------
(***************************************************************************)
(* Faults are reported.  A call that fails sends the function that made it *)
(* to an error label with ret still -1, and from there nothing leads back, *)
(* or the step goes on and its fault is pending: the wrong value it left   *)
(* is still there, and a step the test point cannot do without will meet   *)
(* it.                                                                     *)
(***************************************************************************)
ParentGaveUp ==
    /\ p.at \in {"cont", "out", "final", "done"}
    /\ p.ret = -1 \/ verdict \notin {"none", "ok"}
ChildGaveUp == c.at \in {"out", "done"} /\ c.ret = -1

PIndex == 1 .. Len(Program[test].parent)
CIndex == 1 .. Len(Program[test].child)

AddrPending(op) ==
    \E a \in CIndex : \E j \in PIndex :
        /\ AddrPlan(test, a, j)
        /\ Program[test].child[a].op = op /\ c.ix > a
        /\ cmem["addr"] = "-1"
BufPending(op) ==
    \E b \in PIndex : \E w \in CIndex :
        /\ BufPlan(test, b, w)
        /\ Program[test].parent[b].op = op /\ p.ix > b
        /\ cmem["buf"] # Program[test].parent[b].val
TextPending(op) ==
    \E b, s, r \in PIndex :
        /\ TextPlan(test, b, s, r)
        /\ Program[test].parent[b].op = op
        /\ \/ p.at = "func" /\ b < p.ix /\ p.ix <= r /\ p.inst_val = "BAD"
           \/ p.ix > r /\ cmem["text"] = "BAD" /\ AtC("exec")
Pending == {op \in Calls : AddrPending(op) \/ BufPending(op) \/ TextPending(op)}

Unseen == {"crash"} \cup SemCalls
Recorded == failed \subseteq Pending \cup Unseen \/ ParentGaveUp \/ ChildGaveUp

\* Both functions begin with ret = -1, the child once the parent has forked, and
\* set it to 0 behind their last step.
Early ==
    /\ p.at \in {"mmap", "fork", "func"} => p.ret = -1
    /\ p.at \in {"mmap", "fork"} => c.at = "unborn"
    /\ c.at \in {"unborn", "func"} => c.ret = -1
    /\ c.at = "unborn" => /\ p.at \in {"mmap", "fork", "done"}
                          /\ k.st = "unborn" /\ ~k.traced /\ c.ix = 1
    /\ p.ret = 0 => p.ix > Len(Program[test].parent)
    /\ c.ret = 0 => c.ix > Len(Program[test].child)

\* A child that was killed had not given up: without PTRACE_TRACEME it cannot be.
KillInv ==
    /\ c.at = "done" => k.st \in {"zombie", "gone"}
    /\ k.why = "KILL" => k.st \in {"zombie", "gone"}
    /\ Program[test].final = "killed" =>
          /\ c.at = "func" /\ c.ix = 1 => ~k.traced
          /\ c.at = "out" /\ c.ret = -1 => ~k.traced
          /\ k.why = "KILL" => ~ChildGaveUp

\* A child dies of a crash only untraced: before the parent's first wait, or
\* after PTRACE_DETACH, and then it had not given up.
Detaches == \E i \in PIndex : Program[test].parent[i].op = "DETACH"
HasWaited == \E i \in PIndex : i < p.ix /\ Program[test].parent[i].kind \in {"wait", "waitpid"}
CrashInv ==
    /\ k.why = "CRASH" => ~k.traced /\ k.st \in {"zombie", "gone"}
    /\ Judged(test) /\ HasWaited /\ ~Detaches => k.traced
    /\ Judged(test) /\ Detaches /\ ChildGaveUp => c.at = "done" /\ k.why = "EXIT255"

\* The plans.  Addr: only getaddr gives an address, and without it the parent does
\* not get past the look at the text.
AddrInv ==
    \A a \in CIndex : \A j \in PIndex : AddrPlan(test, a, j) =>
        /\ c.ix <= a => cmem["addr"] # "INST"
        /\ p.read_val = "INST" \/ p.ix > j => cmem["addr"] = "INST"
\* Buf: the child does not get past its check without the value.
BufInv ==
    \A b \in PIndex : \A w \in CIndex : BufPlan(test, b, w) =>
        /\ p.ix <= b => cmem["buf"] # Program[test].parent[b].val
        /\ c.ix > w => cmem["buf"] = Program[test].parent[b].val
\* Text: until the stop at s nothing but the breakpoint gives a SIGTRAP, and from
\* there to r the child is where it stopped.
StatusInv ==
    /\ p.at = "func" /\ p.ix > 1 /\ Program[test].start = "mmap"
    /\ Program[test].parent[p.ix - 1].kind \in {"wait", "waitpid"}
    => p.status = k.why
TextInv ==
    Judged(test) =>
    \A b, s, r \in PIndex : TextPlan(test, b, s, r) =>
        /\ p.at \in {"mmap", "fork", "func"} /\ p.ix <= s => k.mode = "CONT"
        /\ p.at = "func" /\ p.ix <= s /\ k.st = "stop" /\ WSTOPSIG(k.why) = "TRAP" => AtC("exec")
        /\ p.at = "func" /\ s < p.ix /\ p.ix <= r => AtC("exec")

\* Sem: without the other's one post a semaphore is 0, and nobody has got past the
\* sem_wait on it but by its failure.
SemInv ==
    Judged(test) =>
    \A q, v \in CIndex : \A w, r \in PIndex : SemPlan(test, q, w, r, v) =>
        /\ c.at \in {"unborn", "func"} /\ c.ix <= q => "csem_post" \notin failed
        /\ (c.at \in {"unborn", "func"} /\ c.ix <= q) \/ "csem_post" \in failed =>
              sem.pwait = 0 /\ (p.ix > w => "sem_wait" \in failed)
        /\ p.ix <= r => "sem_post" \notin failed
        /\ p.ix <= r \/ "sem_post" \in failed =>
              sem.cwait = 0 /\ (c.ix > v => "csem_wait" \in failed)

\* A NULL for a child that has ended, as the test asks or by a crash.
EndInv ==
    verdict = "ok" /\ Judged(test) =>
        /\ p.ret = 0 /\ k.st = "gone"
        /\ Program[test].final = "exit" => (k.why = "EXIT0" /\ c.ret = 0) \/ k.why = "CRASH"
        /\ Program[test].final = "killed" => k.why = "KILL"

FaultInv ==
    /\ HeldInv /\ VerdictInv /\ Early /\ KillInv /\ CrashInv /\ EndInv
    /\ AddrInv /\ BufInv /\ StatusInv /\ TextInv /\ SemInv
    /\ Judged(test) => Recorded

\* The error label of a step.
LEMMA ErrorLabel ==
    ASSUME TypeOK, Early, NEW kind, AtP(kind)
    PROVE  /\ PStep.fail = "next" \/ pFail.at \in {"cont", "out"}
           /\ p.ret = -1 /\ pFail.ret = -1
<1>1. p \in PState /\ p.at = "func" /\ PStep.fail \in {"cont", "out", "next"}
  BY ParentStepType DEF TypeOK, AtP, ParentSteps
<1>2. p.ret = -1
  BY <1>1 DEF Early
<1> QED BY <1>1, <1>2 DEF pFail, pNext, PState

\* A step of parent_func goes to the next statement or to an error label, and
\* keeps its locals but for the ones it is about.
LEMMA FuncShape ==
    ASSUME TypeOK, Early, FuncSteps
    PROVE  /\ \E kind : AtP(kind)
           /\ UNCHANGED <<test, c, verdict>>
           /\ p.at = "func" /\ p.ix \in PIndex /\ p'.ret = -1
           /\ \/ p'.at = "func" /\ p'.ix = p.ix + 1
              \/ p'.at \in {"cont", "out"} /\ p'.ix = p.ix
           /\ p'.read_val = p.read_val \/ P_peekaddr
           /\ p'.inst_val = p.inst_val \/ P_peektext \/ P_load
<1>1. PICK kind : AtP(kind)
  BY DEF FuncSteps, Others, Requests, P_sem_wait, P_sem_post, P_buf, P_kill, P_attach, P_wait,
     P_resume, P_peek, P_poke, P_peekaddr, P_peektext, P_load, P_restore, P_refused, P_stopsig, P_gkill
<1>2. UNCHANGED <<test, c, verdict>>
  BY DEF FuncSteps, Others, Requests, P_sem_wait, P_sem_post, P_buf, P_kill, P_attach, P_wait,
     P_resume, P_peek, P_poke, P_peekaddr, P_peektext, P_load, P_restore, P_refused, P_stopsig, P_gkill
<1>3. p.at = "func" /\ p.ix \in PIndex
  BY <1>1, ParentStepType DEF AtP, PIndex
<1>4. /\ pNext \in PState /\ pNext.at = "func" /\ pNext.ret = -1 /\ pNext.ix = p.ix + 1
      /\ pNext.read_val = p.read_val /\ pNext.inst_val = p.inst_val
  <2>1. p.ret = -1
    BY <1>1, ErrorLabel
  <2>2. pNext \in PState /\ pNext.at = "func" /\ pNext.ix = p.ix + 1
    BY <1>1, PNextType, ParentMove
  <2> QED BY <2>1, <2>2 DEF pNext, TypeOK, PState
<1>5. /\ pFail \in PState /\ pFail.ret = -1
      /\ \/ pFail.at = "func" /\ pFail.ix = p.ix + 1
         \/ pFail.at \in {"cont", "out"} /\ pFail.ix = p.ix
      /\ pFail.read_val = p.read_val /\ pFail.inst_val = p.inst_val
  <2>1. pFail \in PState /\ pFail.ret = -1
    BY <1>1, PNextType, ErrorLabel
  <2>2. CASE PStep.fail = "next"
    BY <1>4, <2>1, <2>2 DEF pFail
  <2>3. CASE PStep.fail # "next"
    <3>1. pFail = [p EXCEPT !.at = PStep.fail] /\ pFail.at \in {"cont", "out"}
      BY <1>1, <2>3, ErrorLabel DEF pFail
    <3> QED BY <2>1, <3>1 DEF TypeOK, PState
  <2> QED BY <2>2, <2>3
<1>6. CASE P_peekaddr \/ P_peektext \/ P_load
  <2>1. \/ p' \in {pNext, pFail}
        \/ \E v : p' = [pNext EXCEPT !.read_val = v] /\ P_peekaddr
        \/ \E v : p' = [pFail EXCEPT !.read_val = v] /\ P_peekaddr
        \/ \E v : p' = [pNext EXCEPT !.inst_val = v] /\ (P_peektext \/ P_load)
    <3>1. CASE P_peekaddr
      <4>1. PICK v : p' = [pNext EXCEPT !.read_val = v] \/ p' = [pFail EXCEPT !.read_val = v]
        BY <3>1 DEF P_peekaddr
      <4> QED BY <3>1, <4>1
    <3>2. CASE P_peektext
      BY <3>2 DEF P_peektext
    <3>3. CASE P_load
      BY <3>3 DEF P_load
    <3> QED BY <1>6, <3>1, <3>2, <3>3
  <2>2. \A v : /\ [pNext EXCEPT !.read_val = v].at = pNext.at /\ [pNext EXCEPT !.read_val = v].ix = pNext.ix
               /\ [pNext EXCEPT !.read_val = v].ret = pNext.ret
               /\ [pNext EXCEPT !.read_val = v].inst_val = pNext.inst_val
    BY <1>4 DEF PState
  <2>3. \A v : /\ [pFail EXCEPT !.read_val = v].at = pFail.at /\ [pFail EXCEPT !.read_val = v].ix = pFail.ix
               /\ [pFail EXCEPT !.read_val = v].ret = pFail.ret
               /\ [pFail EXCEPT !.read_val = v].inst_val = pFail.inst_val
    BY <1>5 DEF PState
  <2>4. \A v : /\ [pNext EXCEPT !.inst_val = v].at = pNext.at /\ [pNext EXCEPT !.inst_val = v].ix = pNext.ix
               /\ [pNext EXCEPT !.inst_val = v].ret = pNext.ret
               /\ [pNext EXCEPT !.inst_val = v].read_val = pNext.read_val
    BY <1>4 DEF PState
  <2>5. CASE p' \in {pNext, pFail}
    BY <1>1, <1>2, <1>3, <1>4, <1>5, <2>5
  <2>6. CASE \E v : p' = [pNext EXCEPT !.read_val = v] /\ P_peekaddr
    BY <1>1, <1>2, <1>3, <1>4, <2>2, <2>6
  <2>7. CASE \E v : p' = [pFail EXCEPT !.read_val = v] /\ P_peekaddr
    BY <1>1, <1>2, <1>3, <1>5, <2>3, <2>7, ZenonT(30)
  <2>8. CASE \E v : p' = [pNext EXCEPT !.inst_val = v] /\ (P_peektext \/ P_load)
    BY <1>1, <1>2, <1>3, <1>4, <2>4, <2>8
  <2> QED BY <2>1, <2>5, <2>6, <2>7, <2>8
<1>7. CASE ~(P_peekaddr \/ P_peektext \/ P_load)
  <2>1. \/ p' \in {pNext, pFail}
        \/ \E v : p' = [pNext EXCEPT !.buf = v] \/ p' = [pNext EXCEPT !.status = v]
    BY <1>7 DEF FuncSteps, Others, Requests, P_sem_wait, P_sem_post, P_buf, P_kill, P_attach,
       P_wait, P_resume, P_peek, P_poke, P_restore, P_refused, P_stopsig, P_gkill
  <2> QED BY <1>1, <1>2, <1>3, <1>4, <1>5, <2>1 DEF PState
<1> QED BY <1>6, <1>7

\* The other steps of the parent: RUN_FUNC, the end of parent_func and its cont label.
Frames == RunMmap \/ RunFork \/ RunUnmap \/ RunWait \/ P_success \/ P_cont
LEMMA FrameShape ==
    ASSUME TypeOK, Frames
    PROVE  /\ UNCHANGED <<test, sem, cmem>>
           /\ p'.ix = p.ix /\ p'.read_val = p.read_val /\ p'.inst_val = p.inst_val
           /\ p'.at = "func" => RunFork
           /\ p'.at \in {"mmap", "fork"} => p.at = "mmap"
           /\ c' = c \/ (RunFork /\ c' = [c EXCEPT !.at = "func"])
           /\ p.at = "func" => P_success
<1>1. CASE RunFork
  <2>1. p' = [p EXCEPT !.at = "done"] \/ p' = [p EXCEPT !.at = "func"]
    BY <1>1 DEF RunFork
  <2>2. UNCHANGED <<test, sem, cmem>> /\ (c' = c \/ c' = [c EXCEPT !.at = "func"]) /\ p.at = "fork"
    BY <1>1 DEF RunFork
  <2> QED BY <1>1, <2>1, <2>2 DEF TypeOK, PState
<1>3. CASE RunMmap \/ RunUnmap \/ RunWait \/ P_cont
  <2>1. UNCHANGED <<test, c, sem, cmem>> /\ p.at # "func"
    BY <1>3 DEF RunMmap, RunUnmap, RunWait, P_cont
  <2>2. \/ p' = [p EXCEPT !.at = "done"] \/ p' = [p EXCEPT !.at = "final"]
        \/ p' = [p EXCEPT !.at = "fork"] /\ p.at = "mmap"
        \/ p' = [p EXCEPT !.at = "out"] \/ p' = [p EXCEPT !.at = "out", !.ret = -1]
    BY <1>3 DEF RunMmap, RunUnmap, RunWait, P_cont
  <2>3. /\ p'.ix = p.ix /\ p'.read_val = p.read_val /\ p'.inst_val = p.inst_val
        /\ p'.at \in {"done", "final", "out"} \/ (p'.at = "fork" /\ p.at = "mmap")
    <3>1. \A x : /\ [p EXCEPT !.at = x].at = x /\ [p EXCEPT !.at = x].ix = p.ix
                 /\ [p EXCEPT !.at = x].read_val = p.read_val
                 /\ [p EXCEPT !.at = x].inst_val = p.inst_val
      BY DEF TypeOK, PState
    <3>2. /\ [p EXCEPT !.at = "out", !.ret = -1].at = "out"
          /\ [p EXCEPT !.at = "out", !.ret = -1].ix = p.ix
          /\ [p EXCEPT !.at = "out", !.ret = -1].read_val = p.read_val
          /\ [p EXCEPT !.at = "out", !.ret = -1].inst_val = p.inst_val
      BY DEF TypeOK, PState
    <3>3. CASE p' = [p EXCEPT !.at = "out", !.ret = -1]
      BY <3>2, <3>3
    <3>4. CASE \E x \in {"done", "final", "out"} : p' = [p EXCEPT !.at = x]
      BY <3>1, <3>4
    <3>5. CASE p' = [p EXCEPT !.at = "fork"] /\ p.at = "mmap"
      BY <3>1, <3>5
    <3> QED BY <2>2, <3>3, <3>4, <3>5
  <2> QED BY <2>1, <2>3
<1>2. CASE P_success
  <2>1. Program[test].tail \in {"cont", "out", "done"}
    BY ProgramAssumption DEF TypeOK
  <2> QED BY <1>2, <2>1 DEF P_success, TypeOK, PState
<1> QED BY <1>1, <1>2, <1>3 DEF Frames

LEMMA ParentParts == Parent <=> FuncSteps \/ Frames
<1>1. P_buf <=> P_buf \/ (P_buf /\ AtP("checkbuf"))
  OBVIOUS
<1> QED BY <1>1 DEF Parent, FuncSteps, Others, Requests, Frames

\* What a step of the child does to its function.
LEMMA ChildShape ==
    ASSUME TypeOK, Child \/ K_crash
    PROVE  /\ c' = c \/ C_success \/ C_exit \/ (c.at = "func" /\ c.ix \in CIndex /\ c' \in {cNext, cFail})
           /\ cNext.at = c.at /\ cNext.ix = c.ix + 1 /\ cNext.ret = c.ret
           /\ cFail.at = "out" /\ cFail.ix = c.ix /\ cFail.ret = c.ret
           /\ C_success => c.ix > Len(Program[test].child) /\ c'.at = "out" /\ c'.ix = c.ix /\ c'.ret = 0
           /\ C_exit => c.at = "out" /\ c'.at = "done" /\ c'.ix = c.ix /\ c'.ret \in {c.ret, -1}
<1>1. /\ cNext.at = c.at /\ cNext.ix = c.ix + 1 /\ cNext.ret = c.ret
      /\ cFail.at = "out" /\ cFail.ix = c.ix /\ cFail.ret = c.ret
  BY DEF cNext, cFail, TypeOK, CState
<1>2. C_success => c.ix > Len(Program[test].child) /\ c'.at = "out" /\ c'.ix = c.ix /\ c'.ret = 0
  BY DEF C_success, TypeOK, CState
<1>3. C_exit => c.at = "out" /\ c'.at = "done" /\ c'.ix = c.ix /\ c'.ret \in {c.ret, -1}
  <2>1. /\ [c EXCEPT !.at = "done"].at = "done" /\ [c EXCEPT !.at = "done"].ix = c.ix
        /\ [c EXCEPT !.at = "done"].ret = c.ret
    BY DEF TypeOK, CState
  <2>2. /\ [c EXCEPT !.at = "done", !.ret = -1].at = "done"
        /\ [c EXCEPT !.at = "done", !.ret = -1].ix = c.ix
        /\ [c EXCEPT !.at = "done", !.ret = -1].ret = -1
    BY DEF TypeOK, CState
  <2>3. C_exit => /\ c.at = "out"
                  /\ c' = [c EXCEPT !.at = "done"] \/ c' = [c EXCEPT !.at = "done", !.ret = -1]
    BY DEF C_exit
  <2>4. CASE c' = [c EXCEPT !.at = "done"]
    BY <2>1, <2>3, <2>4
  <2>5. CASE c' = [c EXCEPT !.at = "done", !.ret = -1]
    BY <2>2, <2>3, <2>5
  <2> QED BY <2>3, <2>4, <2>5
<1>4. ASSUME NEW kind, AtC(kind), c' \in {c, cNext, cFail}
      PROVE  c' = c \/ (c.at = "func" /\ c.ix \in CIndex /\ c' \in {cNext, cFail})
  <2>1. c.at = "func" /\ c.ix \in CIndex
    BY <1>4, ChildStepType DEF AtC, CIndex
  <2> QED BY <1>4, <2>1
<1>5. CASE C_traceme \/ C_getaddr \/ C_set \/ C_check \/ C_sem_post \/ C_sem_block \/ C_sem_wait
  <2>1. c' \in {c, cNext, cFail} /\ \E kind : AtC(kind)
    BY <1>5 DEF C_traceme, C_getaddr, C_set, C_check, C_sem_post, C_sem_block, C_sem_wait
  <2> QED BY <1>1, <1>2, <1>3, <1>4, <2>1
<1>6. CASE C_exec \/ C_fork \/ C_raise \/ C_getpid \/ C_sleep
  <2>1. c' \in {c, cNext, cFail} /\ \E kind : AtC(kind)
    BY <1>6 DEF C_exec, C_fork, C_raise, C_getpid, C_sleep
  <2> QED BY <1>1, <1>2, <1>3, <1>4, <2>1
<1>7. CASE K_deliver \/ K_step \/ K_futex_restart \/ K_crash
  <2>1. c' = c
    BY <1>7 DEF K_deliver, K_step, K_futex_restart, K_crash
  <2> QED BY <1>1, <1>2, <1>3, <2>1
<1>8. CASE C_success \/ C_exit
  BY <1>1, <1>2, <1>3, <1>8
<1> QED BY <1>5, <1>6, <1>7, <1>8 DEF Child

\* Who writes the three cells the plans are about.
PlanCells == {"addr", "buf", "text"}
LEMMA ParentWrites ==
    ASSUME TypeOK, FuncSteps, NEW x \in PlanCells
    PROVE  \/ cmem'[x] = cmem[x]
           \/ P_poke /\ AtP("poke") /\ PStep.cell = x /\ p' = pNext /\ cmem'[x] = PStep.val
           \/ P_restore /\ AtP("restore") /\ PStep.cell = x /\ p' = pNext /\ cmem'[x] = p.inst_val
<1>0. x \in Cells
  BY DEF PlanCells, Cells
<1>1. CASE P_poke
  <2> DEFINE new == IF PStep.cell = "hw" /\ p.read_val # "INST" THEN "OFF" ELSE PStep.val
  <2>1. AtP("poke") /\ (cmem' = cmem \/ (p' = pNext /\ cmem' = [cmem EXCEPT ![PStep.cell] = new]))
    BY <1>1 DEF P_poke
  <2>2. x # "hw"
    BY DEF PlanCells
  <2>3. PStep.cell # "hw" => new = PStep.val
    OBVIOUS
  <2> HIDE DEF new
  <2> QED BY <1>0, <1>1, <2>1, <2>2, <2>3 DEF TypeOK
<1>2. CASE P_restore
  <2>1. AtP("restore") /\ (cmem' = cmem \/ (p' = pNext /\ cmem' = [cmem EXCEPT ![PStep.cell] = p.inst_val]))
    BY <1>2 DEF P_restore
  <2> QED BY <1>0, <1>2, <2>1 DEF TypeOK
<1>3. CASE ~P_poke /\ ~P_restore
  BY <1>3 DEF FuncSteps, Others, Requests, P_sem_wait, P_sem_post, P_buf, P_kill, P_attach, P_wait,
     P_resume, P_peek, P_peekaddr, P_peektext, P_load, P_refused, P_stopsig, P_gkill
<1> QED BY <1>1, <1>2, <1>3

LEMMA ChildWrites ==
    ASSUME TypeOK, Child \/ K_crash, NEW x \in PlanCells
    PROVE  \/ cmem'[x] = cmem[x]
           \/ C_set /\ AtC("set") /\ CStep.cell = x /\ c' = cNext /\ cmem'[x] = CStep.val
           \/ C_getaddr /\ AtC("getaddr") /\ x = "addr"
<1>0. x \in Cells /\ x # "siginfo" /\ x # "eventmsg"
  BY DEF PlanCells, Cells
<1>1. \A w : SetInfo(w)[x] = cmem[x] /\ [SetInfo(w) EXCEPT !["eventmsg"] = "GRANDCHILD"][x] = cmem[x]
  <2> TAKE w
  <2>1. SetInfo(w)[x] = cmem[x] /\ x \in DOMAIN SetInfo(w)
    BY <1>0 DEF SetInfo, TypeOK
  <2> QED BY <1>0, <2>1
<1>2. CASE C_set
  <2>1. AtC("set") /\ c' = cNext /\ cmem' = [cmem EXCEPT ![CStep.cell] = CStep.val]
    BY <1>2 DEF C_set
  <2> QED BY <1>0, <1>2, <2>1 DEF TypeOK
<1>3. CASE C_getaddr
  <2>1. AtC("getaddr") /\ \E v : cmem' = [cmem EXCEPT !["addr"] = v]
    BY <1>3 DEF C_getaddr
  <2>2. x # "addr" => cmem'[x] = cmem[x]
    BY <1>0, <2>1 DEF TypeOK
  <2> QED BY <1>3, <2>1, <2>2
<1>4. CASE \/ C_traceme \/ C_check \/ C_sem_post \/ C_sem_block \/ C_sem_wait
           \/ C_sleep \/ C_success \/ C_exit
  <2>1. cmem' = cmem
    BY <1>4 DEF C_traceme, C_check, C_sem_post, C_sem_block, C_sem_wait, C_sleep, C_success, C_exit
  <2> QED BY <2>1
<1>5. CASE K_deliver \/ K_step \/ K_futex_restart \/ C_exec \/ C_fork \/ C_raise \/ C_getpid \/ K_crash
  <2>1. \/ cmem' = cmem
        \/ \E w : cmem' = SetInfo(w)
        \/ \E w : cmem' = [SetInfo(w) EXCEPT !["eventmsg"] = "GRANDCHILD"]
    <3>1. CASE K_deliver \/ K_futex_restart \/ C_raise \/ K_crash
      BY <3>1 DEF K_deliver, K_futex_restart, C_raise, K_crash
    <3>2. CASE K_step
      BY <3>2 DEF K_step
    <3>3. CASE C_exec
      BY <3>3 DEF C_exec
    <3>4. CASE C_fork \/ C_getpid
      BY <3>4 DEF C_fork, C_getpid
    <3> QED BY <1>5, <3>1, <3>2, <3>3, <3>4
  <2> QED BY <1>1, <2>1
<1> QED BY <1>2, <1>3, <1>4, <1>5 DEF Child

LEMMA EarlyStep ==
    ASSUME TypeOK, VerdictLast, Early, [Next]_vars
    PROVE  Early'
<1>1. CASE RunFork
  <2>1. c.at = "unborn" /\ c.ret = -1 /\ p.ret = -1 /\ c.ix = 1 /\ k.st = "unborn" /\ ~k.traced
    BY <1>1 DEF RunFork, Early
  <2>2. CASE p' = [p EXCEPT !.at = "done"] /\ UNCHANGED <<c, k>>
    BY <2>1, <2>2, SMT DEF Early, TypeOK, PState
  <2>3. CASE p' = [p EXCEPT !.at = "func"] /\ c' = [c EXCEPT !.at = "func"]
    BY <2>1, <2>3, SMT DEF Early, TypeOK, PState, CState
  <2> QED BY <1>1, <2>2, <2>3 DEF RunFork
<1>2. CASE RunMmap
  <2>1. UNCHANGED <<test, c, k>> /\ (p' = [p EXCEPT !.at = "done"] \/ p' = [p EXCEPT !.at = "fork"])
    BY <1>2 DEF RunMmap
  <2>2. p.at = "mmap"
    BY <1>2 DEF RunMmap
  <2>3. p'.at \in {"done", "fork"} /\ p'.ret = p.ret /\ p'.ix = p.ix
    BY <2>1 DEF TypeOK, PState
  <2> QED BY <2>1, <2>2, <2>3 DEF Early
<1>3. CASE FuncSteps
  <2>1. UNCHANGED <<test, c>> /\ p.at = "func" /\ p'.ret = -1 /\ p'.at \in {"func", "cont", "out"}
    BY <1>3, FuncShape
  <2> QED BY <2>1, SMT DEF Early
<1>4. CASE RunUnmap \/ RunWait \/ P_success \/ P_cont
  <2>1. UNCHANGED <<test, c>> /\ p.at \in {"func", "cont", "out", "final"}
    BY <1>4 DEF RunUnmap, RunWait, P_success, P_cont
  <2>2. p'.at \notin {"mmap", "fork", "func"} /\ p'.ix = p.ix
    <3>1. p'.at = "func" => RunFork
      BY <1>4, FrameShape DEF Frames
    <3>2. RunFork => p.at = "fork"
      BY DEF RunFork
    <3> QED BY <1>4, <2>1, <3>1, <3>2, FrameShape DEF Frames
  <2>3. p'.ret = 0 => p.ret = 0 \/ p.ix > Len(Program[test].parent)
    <3>1. CASE P_success
      BY <3>1 DEF P_success
    <3>2. CASE RunUnmap \/ RunWait \/ P_cont
      <4>1. \/ \E x : p' = [p EXCEPT !.at = x]
            \/ p' = [p EXCEPT !.at = "out", !.ret = -1]
        BY <3>2 DEF RunUnmap, RunWait, P_cont
      <4>2. \A x : [p EXCEPT !.at = x].ret = p.ret
        BY DEF TypeOK, PState
      <4>3. [p EXCEPT !.at = "out", !.ret = -1].ret = -1
        BY DEF TypeOK, PState
      <4>4. CASE p' = [p EXCEPT !.at = "out", !.ret = -1]
        BY <4>3, <4>4, SMT
      <4>5. CASE \E x : p' = [p EXCEPT !.at = x]
        BY <4>2, <4>5
      <4> QED BY <4>1, <4>4, <4>5
    <3> QED BY <1>4, <3>1, <3>2
  <2> QED BY <2>1, <2>2, <2>3 DEF Early
<1>5. CASE Child \/ K_crash
  <2>1. c.at # "unborn" /\ UNCHANGED <<test, p>> /\ Len(Program[test].child) \in Nat /\ c.ix \in Nat
    BY <1>5, ChildFrame, ProgramAssumption, SMT DEF Early, TypeOK, CState
  <2>2. /\ c'.at # "unborn" /\ (c'.at = "func" => c'.ret = -1)
        /\ c'.ret = 0 => c'.ix > Len(Program[test].child)
    <3>1. CASE c' = c
      BY <2>1, <3>1 DEF Early
    <3>2. CASE C_success \/ C_exit
      BY <1>5, <2>1, <3>2, ChildShape, SMT DEF Early
    <3>3. CASE c.at = "func" /\ c' \in {cNext, cFail}
      BY <1>5, <2>1, <3>3, ChildShape, SMT DEF Early
    <3> QED BY <1>5, <3>1, <3>2, <3>3, ChildShape
  <2> QED BY <2>1, <2>2 DEF Early
<1>6. CASE G_stop \/ Finished \/ UNCHANGED vars
  BY <1>6 DEF G_stop, Finished, vars, Early
<1> QED BY <1>1, <1>2, <1>3, <1>4, <1>5, <1>6, ParentParts DEF Next, Frames

\* What the parent does to the kernel's view of the child.
LEMMA ParentOnChild ==
    ASSUME TypeOK, Parent
    PROVE  \/ /\ k'.why = k.why /\ (k'.st = k.st \/ (k.st = "zombie" /\ k'.st = "gone"))
              /\ c' = c /\ (k'.traced = k.traced \/ AtP("attach"))
           \/ /\ Tracee /\ c' = c
              /\ (k'.st = "zombie" /\ k'.why = "KILL") \/ (k'.st = "run" /\ k'.why = k.why)
           \/ RunFork
<1>1. CASE Requests \/ P_buf \/ P_sem_wait \/ P_success \/ RunMmap \/ RunUnmap
  BY <1>1 DEF Requests, P_peek, P_poke, P_peekaddr, P_peektext, P_load, P_restore,
     P_refused, P_stopsig, P_gkill, P_buf, P_sem_wait, P_success, RunMmap, RunUnmap
<1>2. CASE P_sem_post \/ P_kill
  BY <1>2 DEF P_sem_post, P_kill, TypeOK, KState
<1>3. CASE P_attach
  BY <1>3 DEF P_attach, TypeOK, KState
<1>4. CASE RunWait \/ P_wait
  <2>1. c' = c /\ (k' = k \/ ReapChild)
    BY <1>4 DEF RunWait, P_wait
  <2>2. ReapChild => /\ k'.why = k.why /\ k'.traced = k.traced
                     /\ k'.st = k.st \/ (k.st = "zombie" /\ k'.st = "gone")
    BY DEF ReapChild, TypeOK, KState
  <2> QED BY <2>1, <2>2
<1>5. CASE P_resume \/ P_cont
  <2>1. c' = c /\ (k' = k \/ (Tracee /\ \E op : k' = Resumed(op)))
    <3>1. CASE P_resume
      BY <3>1 DEF P_resume, Accepted, Legal
    <3>2. CASE P_cont
      BY <3>2 DEF P_cont, Accepted, Legal
    <3> QED BY <1>5, <3>1, <3>2
  <2>2. \A op : \/ Resumed(op).st = "run" /\ Resumed(op).why = k.why
                \/ Resumed(op).st = "zombie" /\ Resumed(op).why = "KILL"
    BY DEF Resumed, TypeOK, KState
  <2> QED BY <2>1, <2>2
<1> QED BY <1>1, <1>2, <1>3, <1>4, <1>5 DEF Parent, Requests

LEMMA KillOfParent ==
    ASSUME TypeOK, Early, KillInv, Parent
    PROVE  KillInv'
<1>0. test' = test /\ test \in Tests
  BY DEF TypeOK, Parent, RunMmap, RunFork, RunUnmap, RunWait, P_sem_wait,
     P_sem_post, P_buf, P_kill, P_attach, P_wait, P_peek, P_poke, P_peekaddr,
     P_peektext, P_load, P_restore, P_refused, P_stopsig, P_resume, P_gkill,
     P_success, P_cont
<1>1. CASE RunFork
  <2>1. c.at = "unborn" /\ k.st = "unborn" /\ ~k.traced /\ k.why # "KILL"
    BY <1>1 DEF RunFork, Early, KillInv
  <2>2. k'.why = k.why /\ k'.traced = k.traced /\ c'.at \in {"unborn", "func"}
    BY <1>1, <2>1 DEF RunFork, TypeOK, KState, CState
  <2> QED BY <1>0, <2>1, <2>2 DEF KillInv
<1>2. CASE /\ k'.why = k.why /\ (k'.st = k.st \/ (k.st = "zombie" /\ k'.st = "gone"))
           /\ c' = c /\ (k'.traced = k.traced \/ AtP("attach"))
  <2>1. Program[test].final = "killed" => k'.traced = k.traced
    <3> SUFFICES ASSUME Program[test].final = "killed", AtP("attach") PROVE FALSE
      BY <1>2
    <3> QED BY <1>0, ParentStepType, ErrorAssumption DEF AtP, PStep
  <2> QED BY <1>0, <1>2, <2>1 DEF KillInv, ChildGaveUp
<1>3. CASE /\ Tracee /\ c' = c
           /\ (k'.st = "zombie" /\ k'.why = "KILL") \/ (k'.st = "run" /\ k'.why = k.why)
  <2>1. k.st = "stop" /\ k.traced
    BY <1>3 DEF Tracee
  <2>2. c.at # "done" /\ k.why # "KILL"
    BY <2>1 DEF KillInv
  <2> QED BY <1>0, <1>3, <2>1, <2>2 DEF KillInv, ChildGaveUp
<1> QED BY <1>1, <1>2, <1>3, ParentOnChild

LEMMA KillOfChild ==
    ASSUME TypeOK, Early, KillInv, Child \/ K_crash
    PROVE  KillInv'
<1>0. /\ k.st = "run" /\ test' = test /\ test \in Tests
      /\ c.at # "done" /\ c.at # "unborn" /\ k.why # "KILL"
  BY ChildFrame DEF TypeOK, KillInv, Early
<1>1. \A w \in Stops : Stopped(w).why # "KILL" /\ Stopped(w).traced = k.traced
  BY DEF Stopped, TypeOK, KState, Stops
<1>2. cNext.ix = c.ix + 1 /\ cNext.at = c.at /\ cFail.at = "out" /\ c.ix \in Nat \ {0}
  BY DEF cNext, cFail, TypeOK, CState
<1>3. CASE K_deliver \/ K_step \/ K_futex_restart \/ K_crash
  <2>1. /\ c' = c
        /\ \/ k' = Stopped("STOP") \/ k' = Stopped("ILL") \/ k' = Stopped("TRAP") \/ k' = Stopped("FUTEX")
           \/ k' = Stopped("SEGV") \/ k' = [k EXCEPT !.st = "zombie", !.why = "CRASH", !.seen = FALSE]
    BY <1>3 DEF K_deliver, K_step, K_futex_restart, K_crash
  <2>2. LET z == [k EXCEPT !.st = "zombie", !.why = "CRASH", !.seen = FALSE]
        IN  z.why = "CRASH" /\ z.traced = k.traced
    BY DEF TypeOK, KState
  <2>3. k'.why # "KILL" /\ k'.traced = k.traced
    BY <1>1, <2>1, <2>2, StopsAreValues
  <2> QED BY <1>0, <2>1, <2>3 DEF KillInv
<1>4. CASE C_traceme
  <2>1. c.at = "func" /\ AtC("traceme")
    BY <1>4 DEF C_traceme, AtC
  <2>2. Program[test].final = "killed" => c.ix = 1 /\ ~k.traced
    BY <1>0, <2>1, ChildStepType, ErrorAssumption DEF AtC, CStep, KillInv
  <2>3. (c' = cFail /\ k' = k) \/ (c' = cNext /\ k'.why = k.why)
    BY <1>4 DEF C_traceme, TypeOK, KState
  <2> QED BY <1>0, <1>2, <2>1, <2>2, <2>3, SMT DEF KillInv
<1>5. CASE C_sem_post \/ C_sem_block \/ C_sem_wait
  <2>1. c' \in {c, cNext} /\ k'.why = k.why /\ k'.traced = k.traced /\ c.at = "func"
    BY <1>5 DEF C_sem_post, C_sem_block, C_sem_wait, AtC, TypeOK, KState
  <2> QED BY <1>0, <1>2, <2>1, SMT DEF KillInv
<1>6. CASE C_success
  <2>1. c'.at = "out" /\ c'.ret = 0 /\ k' = k
    BY <1>6 DEF C_success, TypeOK, CState
  <2> QED BY <1>0, <2>1, SMT DEF KillInv
<1>7. CASE C_exit
  <2>1. c'.at = "done"
    BY <1>7 DEF C_exit, TypeOK, CState
  <2>2. \A r : Exited(r).st = "zombie" /\ Exited(r).why \in {"EXIT0", "EXIT255"}
    BY DEF Exited, TypeOK, KState
  <2>3. \E r : k' = Exited(r)
    BY <1>7 DEF C_exit
  <2> QED BY <1>0, <2>1, <2>2, <2>3 DEF KillInv
<1>8. CASE C_getaddr \/ C_set \/ C_check \/ C_exec \/ C_fork \/ C_raise \/ C_getpid \/ C_sleep
  <2>1. PICK kind \in {"getaddr", "set", "check", "exec", "fork", "raise", "getpid", "sleep"} : AtC(kind)
    BY <1>8 DEF C_getaddr, C_set, C_check, C_exec, C_fork, C_raise, C_getpid, C_sleep
  <2>2. Program[test].final # "killed"
    BY <1>0, <2>1, ChildStepType, ErrorAssumption DEF AtC, CStep
  <2>3. c' \in {c, cNext, cFail} /\ (k' = k \/ \E w \in {"TRAP", "ILL", "FORK", "STOP", "GETPID"} : k' = Stopped(w))
    BY <1>8 DEF C_getaddr, C_set, C_check, C_exec, C_fork, C_raise, C_getpid, C_sleep
  <2>4. k'.why # "KILL" /\ c'.at # "done"
    BY <1>0, <1>1, <1>2, <2>3, StopsAreValues
  <2> QED BY <1>0, <2>2, <2>4 DEF KillInv
<1> QED BY <1>3, <1>4, <1>5, <1>6, <1>7, <1>8 DEF Child

\* When the child becomes or stops being traced.
LEMMA TracedMoves ==
    ASSUME TypeOK, Parent
    PROVE  \/ k'.traced = k.traced
           \/ k'.traced /\ k.st = "run"
           \/ k'.traced /\ P_cont
           \/ AtP("resume") /\ Tracee /\ (PStep.op # "DETACH" => k'.traced)
<1>1. CASE Requests \/ P_buf \/ P_sem_wait \/ P_success \/ RunMmap \/ RunUnmap
  <2>1. k' = k
    BY <1>1 DEF Requests, P_peek, P_poke, P_peekaddr, P_peektext, P_load, P_restore,
       P_refused, P_stopsig, P_gkill, P_buf, P_sem_wait, P_success, RunMmap, RunUnmap
  <2> QED BY <2>1
<1>2. CASE P_sem_post \/ P_kill
  <2>1. \E x : k' = k \/ k' = [k EXCEPT !.pending = x] \/ k' = [k EXCEPT !.futex = x]
    BY <1>2 DEF P_sem_post, P_kill
  <2>2. \A x : [k EXCEPT !.pending = x].traced = k.traced /\ [k EXCEPT !.futex = x].traced = k.traced
    BY DEF TypeOK, KState
  <2> QED BY <2>1, <2>2
<1>3. CASE P_attach
  <2>1. k' = k \/ (k.st = "run" /\ k' = [k EXCEPT !.pending = TRUE, !.traced = TRUE])
    BY <1>3 DEF P_attach
  <2> QED BY <2>1 DEF TypeOK, KState
<1>4. CASE RunWait \/ P_wait
  <2>1. k' = k \/ ReapChild
    BY <1>4 DEF RunWait, P_wait
  <2> QED BY <2>1 DEF ReapChild, TypeOK, KState
<1>5. CASE RunFork
  <2>1. k' = k \/ k' = [k EXCEPT !.st = "run"]
    BY <1>5 DEF RunFork
  <2> QED BY <2>1 DEF TypeOK, KState
<1>6. \A op : Resumed(op).traced = (IF op = "KILL" THEN k.traced ELSE op # "DETACH")
  BY DEF Resumed, TypeOK, KState
<1>7. CASE P_resume
  <2>1. k' = k \/ (AtP("resume") /\ Tracee /\ k' = Resumed(PStep.op))
    BY <1>7 DEF P_resume, Accepted, Legal
  <2> QED BY <1>6, <2>1
<1>8. CASE P_cont
  <2>1. k' = k \/ k' = Resumed("CONT")
    BY <1>8 DEF P_cont
  <2> QED BY <1>6, <1>8, <2>1
<1> QED BY <1>1, <1>2, <1>3, <1>4, <1>5, <1>7, <1>8 DEF Parent, Requests

\* A step the parent has passed since.
LEMMA HasWaitedMoves ==
    ASSUME TypeOK, Early, Parent, Judged(test), HasWaited'
    PROVE  HasWaited \/ k'.traced
<1>1. PICK i \in PIndex : i < p'.ix /\ Program[test].parent[i].kind \in {"wait", "waitpid"}
  BY ParentParts, FuncShape, FrameShape DEF HasWaited, PIndex
<1>2. CASE p'.ix = p.ix
  BY <1>1, <1>2 DEF HasWaited
<1>3. CASE p'.ix # p.ix
  <2>1. FuncSteps /\ p'.ix = p.ix + 1 /\ p'.at = "func" /\ p.ix \in PIndex
    BY <1>3, ParentParts, FuncShape, FrameShape
  <2>2. CASE i = p.ix
    <3>1. AtP("wait") \/ AtP("waitpid")
      BY <1>1, <2>1, <2>2, FuncShape, SMTT(30) DEF AtP, PStep, PIndex
    <3>2. PStep.fail # "next"
      BY <2>1, QuietAssumption DEF TypeOK, PStep, PIndex
    <3>3. p' # pFail
      BY <2>1, <3>1, <3>2, ErrorLabel
    <3>4. P_wait
      BY <2>1, <3>1 DEF FuncSteps, Others, Requests, P_sem_wait, P_sem_post, P_buf, P_kill, P_attach, P_wait,
         P_resume, P_peek, P_poke, P_peekaddr, P_peektext, P_load, P_restore, P_refused, P_stopsig, P_gkill, AtP
    <3>5. ChildEvent /\ ReapChild /\ k.st = "stop"
      BY <3>3, <3>4 DEF P_wait
    <3> QED BY <3>5 DEF ChildEvent, ReapChild, TypeOK, KState
  <2>3. CASE i # p.ix
    <3>1. i < p.ix
      BY <1>1, <2>1, <2>3, SMT DEF PIndex
    <3> QED BY <1>1, <3>1 DEF HasWaited
  <2> QED BY <2>2, <2>3
<1> QED BY <1>2, <1>3

LEMMA CrashOfParent ==
    ASSUME TypeOK, Early, KillInv, CrashInv, Parent
    PROVE  CrashInv'
<1>0. test' = test /\ test \in Tests
  BY ParentParts, FuncShape, FrameShape DEF TypeOK
<1>1. (k.why = "CRASH" => ~k.traced /\ k.st \in {"zombie", "gone"})'
  <2>1. CASE RunFork
    <3>1. k.st = "unborn" /\ k'.why = k.why
      BY <2>1 DEF RunFork, Early, TypeOK, KState
    <3> QED BY <3>1 DEF CrashInv
  <2>2. CASE ~RunFork
    <3> SUFFICES ASSUME k'.why = "CRASH" PROVE ~k'.traced /\ k'.st \in {"zombie", "gone"}
      OBVIOUS
    <3>1. k.why = "CRASH" \/ Tracee
      BY <2>2, ParentOnChild
    <3>2. k.why = "CRASH"
      BY <2>2, <3>1, ParentOnChild
    <3>3. ~k.traced /\ k.st \in {"zombie", "gone"}
      BY <3>2 DEF CrashInv
    <3>4. k'.st \in {"zombie", "gone"}
      BY <2>2, <3>3, ParentOnChild DEF Tracee
    <3>5. ~P_cont \/ k' = k
      BY <3>3 DEF P_cont, Accepted, Legal, Tracee
    <3> QED BY <3>3, <3>4, <3>5, TracedMoves DEF Tracee
  <2> QED BY <2>1, <2>2
<1>2. (Judged(test) /\ HasWaited /\ ~Detaches => k.traced)'
  <2> SUFFICES ASSUME Judged(test), HasWaited', ~Detaches PROVE k'.traced
    BY <1>0 DEF Judged, Detaches, PIndex
  <2>1. k.traced \/ k'.traced
    BY HasWaitedMoves DEF CrashInv
  <2>2. AtP("resume") => PStep.op # "DETACH"
    BY ParentStepType DEF Detaches, PIndex, PStep
  <2> QED BY <2>1, <2>2, TracedMoves
<1>3. (Judged(test) /\ Detaches /\ ChildGaveUp => c.at = "done" /\ k.why = "EXIT255")'
  <2> SUFFICES ASSUME Judged(test), Detaches, ChildGaveUp' PROVE c'.at = "done" /\ k'.why = "EXIT255"
    BY <1>0 DEF Judged, Detaches, PIndex
  <2>1. c' = c \/ (RunFork /\ c' = [c EXCEPT !.at = "func"])
    BY ParentParts, FuncShape, FrameShape
  <2>2. c' = c
    BY <2>1 DEF ChildGaveUp, TypeOK, CState
  <2>3. c.at = "done" /\ k.why = "EXIT255" /\ k.st \in {"zombie", "gone"}
    BY <2>2 DEF CrashInv, KillInv, ChildGaveUp
  <2>4. ~RunFork
    BY <2>3 DEF RunFork, Early
  <2> QED BY <2>2, <2>3, <2>4, ParentOnChild DEF Tracee
<1> QED BY <1>1, <1>2, <1>3 DEF CrashInv

\* What a step of the child does to how the kernel sees it.
LEMMA ChildOnKernel ==
    ASSUME TypeOK, Child \/ K_crash
    PROVE  /\ k'.traced = k.traced \/ k'.traced
           /\ k'.why = "CRASH" => k.why = "CRASH" \/ (~k'.traced /\ k'.st = "zombie")
<1>1. \A w \in Stops : Stopped(w).why = w /\ Stopped(w).traced = k.traced
  BY DEF Stopped, TypeOK, KState
<1>2. \A r : Exited(r).why \in {"EXIT0", "EXIT255"} /\ Exited(r).traced = k.traced
  BY DEF Exited, TypeOK, KState
<1>3. "CRASH" \notin Stops
  BY DEF Stops
<1>4. \/ k' = k \/ k' = [k EXCEPT !.traced = TRUE]
      \/ \E x : k' = [k EXCEPT !.futex = x]
      \/ \E w \in Stops : k' = Stopped(w)
      \/ \E r : k' = Exited(r)
      \/ ~k.traced /\ k' = [k EXCEPT !.st = "zombie", !.why = "CRASH", !.seen = FALSE]
  <2>1. CASE K_deliver \/ K_futex_restart \/ C_raise
    BY <2>1, StopsAreValues DEF K_deliver, K_futex_restart, C_raise
  <2>2. CASE K_step
    BY <2>2, StopsAreValues DEF K_step
  <2>3. CASE C_exec
    BY <2>3, StopsAreValues DEF C_exec
  <2>4. CASE C_fork \/ C_getpid
    BY <2>4, StopsAreValues DEF C_fork, C_getpid
  <2>5. CASE K_crash
    BY <2>5, StopsAreValues DEF K_crash
  <2>6. CASE C_traceme \/ C_getaddr \/ C_set \/ C_check \/ C_sem_post \/ C_sleep \/ C_success
    BY <2>6 DEF C_traceme, C_getaddr, C_set, C_check, C_sem_post, C_sleep, C_success
  <2>7. CASE C_sem_block \/ C_sem_wait \/ C_exit
    BY <2>7 DEF C_sem_block, C_sem_wait, C_exit
  <2> QED BY <2>1, <2>2, <2>3, <2>4, <2>5, <2>6, <2>7 DEF Child
<1>5. \A x : [k EXCEPT !.futex = x].why = k.why /\ [k EXCEPT !.futex = x].traced = k.traced
  BY DEF TypeOK, KState
<1>6. [k EXCEPT !.traced = TRUE].why = k.why /\ [k EXCEPT !.traced = TRUE].traced
  BY DEF TypeOK, KState
<1>7. LET z == [k EXCEPT !.st = "zombie", !.why = "CRASH", !.seen = FALSE]
      IN  z.traced = k.traced /\ z.st = "zombie"
  BY DEF TypeOK, KState
<1>8. CASE \E w \in Stops : k' = Stopped(w)
  BY <1>1, <1>3, <1>8, SMT
<1>9. CASE \E r : k' = Exited(r)
  BY <1>2, <1>9
<1>10. CASE \E x : k' = [k EXCEPT !.futex = x]
  BY <1>5, <1>10
<1>11. CASE k' = k \/ k' = [k EXCEPT !.traced = TRUE]
  BY <1>6, <1>11
<1>12. CASE ~k.traced /\ k' = [k EXCEPT !.st = "zombie", !.why = "CRASH", !.seen = FALSE]
  BY <1>7, <1>12
<1> QED BY <1>4, <1>8, <1>9, <1>10, <1>11, <1>12

LEMMA CrashOfChild ==
    ASSUME TypeOK, Early, KillInv, CrashInv, Child \/ K_crash
    PROVE  CrashInv'
<1>0. UNCHANGED <<test, p>> /\ k.st = "run" /\ test \in Tests /\ k.why # "CRASH" /\ c.at # "done"
  BY ChildFrame DEF TypeOK, CrashInv, KillInv
<1>1. (k.why = "CRASH" => ~k.traced /\ k.st \in {"zombie", "gone"})'
  BY <1>0, ChildOnKernel
<1>2. (Judged(test) /\ HasWaited /\ ~Detaches => k.traced)'
  BY <1>0, ChildOnKernel DEF CrashInv, Judged, HasWaited, Detaches, PIndex
<1>3. (Judged(test) /\ Detaches /\ ChildGaveUp => c.at = "done" /\ k.why = "EXIT255")'
  <2> SUFFICES ASSUME Judged(test), Detaches, ChildGaveUp' PROVE c'.at = "done" /\ k'.why = "EXIT255"
    BY <1>0 DEF Judged, Detaches, PIndex
  <2>1. ~ChildGaveUp
    BY <1>0 DEF CrashInv
  <2>2. \A n \in CIndex : Program[test].child[n].kind \in {"sem_post", "sem_wait"}
    BY <1>0, QuietAssumption DEF Detaches, PIndex, CIndex
  <2>3. c.at = "func" /\ c.ix \in CIndex => c' # cFail
    <3> SUFFICES ASSUME c.at = "func", c.ix \in CIndex, c' = cFail PROVE FALSE
      OBVIOUS
    <3>1. CStep.kind \in {"sem_post", "sem_wait"}
      BY <2>2 DEF CStep
    <3>2. ~C_success /\ ~C_exit
      <4>1. ~(c.ix > Len(Program[test].child))
        BY ProgramAssumption, SMT DEF CIndex, TypeOK, CState
      <4> QED BY <4>1, ChildShape
    <3>3. c' \in {c, cNext}
      <4>1. CASE K_deliver \/ K_step \/ K_futex_restart \/ K_crash
        BY <4>1 DEF K_deliver, K_step, K_futex_restart, K_crash
      <4>2. CASE C_sem_post \/ C_sem_block \/ C_sem_wait
        BY <4>2 DEF C_sem_post, C_sem_block, C_sem_wait
      <4>3. CASE \/ C_traceme \/ C_getaddr \/ C_set \/ C_check \/ C_exec \/ C_fork \/ C_raise
                 \/ C_getpid \/ C_sleep
        BY <3>1, <4>3 DEF C_traceme, C_getaddr, C_set, C_check, C_exec, C_fork, C_raise, C_getpid, C_sleep, AtC
      <4> QED BY <3>2, <4>1, <4>2, <4>3 DEF Child
    <3> QED BY <3>3, ChildShape
  <2>4. C_exit
    BY <2>1, <2>3, ChildShape, SMT DEF ChildGaveUp
  <2>5. c.at = "out" /\ c.ret # -1
    BY <2>1, <2>4, ChildShape DEF ChildGaveUp
  <2>6. k' = Exited(-1) \/ c' = [c EXCEPT !.at = "done"]
    BY <2>4 DEF C_exit
  <2>7. k' = Exited(-1)
    BY <2>5, <2>6 DEF ChildGaveUp, TypeOK, CState
  <2>8. k'.why = "EXIT255"
    BY <2>7, SMT DEF Exited, TypeOK, KState
  <2> QED BY <2>4, <2>8, ChildShape
<1> QED BY <1>1, <1>2, <1>3 DEF CrashInv

\* Where the two functions are, for the plans.
LEMMA IndexTypes ==
    ASSUME TypeOK
    PROVE  /\ p.ix \in Nat \ {0} /\ c.ix \in Nat \ {0} /\ sem.pwait \in Nat /\ sem.cwait \in Nat
           /\ Len(Program[test].parent) \in Nat /\ Len(Program[test].child) \in Nat
           /\ PIndex \subseteq Nat \ {0} /\ CIndex \subseteq Nat \ {0}
<1>1. Len(Program[test].parent) \in Nat /\ Len(Program[test].child) \in Nat
  BY ProgramAssumption, SMT DEF TypeOK
<1> QED BY <1>1, SMT DEF TypeOK, PState, CState, PIndex, CIndex

LEMMA StepsAtIndex ==
    ASSUME TypeOK
    PROVE  /\ \A kind : AtP(kind) => p.ix \in PIndex /\ Program[test].parent[p.ix].kind = kind
           /\ \A kind : AtC(kind) => c.ix \in CIndex /\ Program[test].child[c.ix].kind = kind
  BY ParentStepType, ChildStepType DEF AtP, AtC, PStep, CStep, PIndex, CIndex

\* Which action runs a step of parent_func.
LEMMA StepAction ==
    ASSUME FuncSteps
    PROVE  /\ AtP("sem_wait") => P_sem_wait
           /\ AtP("sem_post") => P_sem_post
           /\ AtP("peekaddr") => P_peekaddr
           /\ AtP("peek") => P_peek
           /\ AtP("stopsig") => P_stopsig
           /\ AtP("restore") => P_restore
           /\ AtP("wait") \/ AtP("waitpid") => P_wait
<1>1. \A kind, other : AtP(kind) /\ AtP(other) => kind = other
  BY DEF AtP
<1>2. \/ P_sem_wait /\ AtP("sem_wait")
      \/ P_sem_post /\ AtP("sem_post")
      \/ P_peekaddr /\ AtP("peekaddr")
      \/ P_peek /\ AtP("peek")
      \/ P_stopsig
      \/ P_restore /\ AtP("restore")
      \/ P_wait
      \/ AtP("setbuf") \/ AtP("checkbuf") \/ AtP("kill") \/ AtP("attach")
      \/ AtP("resume") \/ AtP("poke") \/ AtP("peektext") \/ AtP("load") \/ AtP("refused") \/ AtP("gkill")
  BY DEF FuncSteps, Others, Requests, P_sem_wait, P_sem_post, P_buf, P_kill, P_attach,
     P_resume, P_peek, P_poke, P_peekaddr, P_peektext, P_load, P_restore, P_refused, P_gkill
<1>3. P_stopsig => AtP("stopsig") \/ AtP("syscallno")
  BY DEF P_stopsig
<1>4. P_wait => AtP("wait") \/ AtP("waitpid")
  BY DEF P_wait
<1> QED BY <1>1, <1>2, <1>3, <1>4

LEMMA AddrOfParent ==
    ASSUME TypeOK, Early, AddrInv, Parent
    PROVE  AddrInv'
<1>0. test' = test
  BY ParentParts, FuncShape, FrameShape
<1> SUFFICES ASSUME NEW a \in CIndex, NEW j \in PIndex, AddrPlan(test, a, j)
             PROVE  /\ c'.ix <= a => cmem'["addr"] # "INST"
                    /\ p'.read_val = "INST" \/ p'.ix > j => cmem'["addr"] = "INST"
  BY <1>0 DEF AddrInv, PIndex, CIndex
<1>1. /\ c.ix <= a => cmem["addr"] # "INST"
      /\ p.read_val = "INST" \/ p.ix > j => cmem["addr"] = "INST"
  BY DEF AddrInv
<1>2. p.ix \in Nat /\ j \in Nat
  BY IndexTypes
<1>3. /\ Program[test].parent[j].kind = "peek" /\ Program[test].parent[j].cell = "text"
      /\ Program[test].parent[j].fail # "next"
      /\ \A n \in PIndex : ~Writes(Program[test].parent[n], "addr")
  BY DEF AddrPlan, PIndex
<1>4. CASE Frames
  <2>1. p'.ix = p.ix /\ p'.read_val = p.read_val /\ cmem' = cmem /\ c'.ix = c.ix
    BY <1>4, FrameShape DEF TypeOK, CState
  <2> QED BY <1>1, <2>1
<1>5. CASE FuncSteps
  <2>1. /\ c' = c /\ p.at = "func" /\ p.ix \in PIndex
        /\ (p'.at = "func" /\ p'.ix = p.ix + 1) \/ p'.ix = p.ix
        /\ p'.read_val = p.read_val \/ P_peekaddr
    BY <1>5, FuncShape
  <2>2. AtP(Program[test].parent[p.ix].kind) /\ PStep = Program[test].parent[p.ix]
    BY <2>1, SMT DEF AtP, PStep, PIndex
  <2>3. cmem'["addr"] = cmem["addr"]
    <3>1. ~Writes(PStep, "addr")
      BY <1>3, <2>1, <2>2
    <3> QED BY <1>5, <3>1, ParentWrites DEF PlanCells, Writes, AtP
  <2>4. P_peekaddr => p'.read_val \in {cmem["addr"], "-1"}
    <3>1. P_peekaddr => /\ AtP("peekaddr")
                        /\ \/ p' = [pNext EXCEPT !.read_val = cmem["addr"]]
                           \/ p' = [pFail EXCEPT !.read_val = "-1"]
      BY DEF P_peekaddr
    <3> QED BY <3>1, PNextType DEF PState
  <2>5. p.ix = j => p'.ix = p.ix \/ cmem["addr"] = "INST"
    <3> SUFFICES ASSUME p.ix = j, cmem["addr"] # "INST" PROVE p'.ix = p.ix
      OBVIOUS
    <3>1. P_peek /\ PStep.cell = "text" /\ PStep.fail # "next" /\ p.read_val # "INST" /\ AtP("peek")
      BY <1>1, <1>3, <1>5, <2>2, StepAction
    <3>2. p' = pFail
      BY <3>1 DEF P_peek, Accepted, Legal
    <3>3. p'.at # "func"
      BY <3>1, <3>2, ErrorLabel
    <3> QED BY <2>1, <3>3
  <2>6. p'.ix > j => p.ix > j \/ (p.ix = j /\ p'.ix # p.ix)
    BY <1>2, <2>1, SMT
  <2> QED BY <1>1, <2>1, <2>3, <2>4, <2>5, <2>6
<1> QED BY <1>4, <1>5, ParentParts

LEMMA AddrOfChild ==
    ASSUME TypeOK, AddrInv, Child \/ K_crash
    PROVE  AddrInv'
<1>0. UNCHANGED <<test, p>>
  BY ChildFrame
<1> SUFFICES ASSUME NEW a \in CIndex, NEW j \in PIndex, AddrPlan(test, a, j)
             PROVE  /\ c'.ix <= a => cmem'["addr"] # "INST"
                    /\ p.read_val = "INST" \/ p.ix > j => cmem'["addr"] = "INST"
  BY <1>0 DEF AddrInv, PIndex, CIndex
<1>1. /\ c.ix <= a => cmem["addr"] # "INST"
      /\ p.read_val = "INST" \/ p.ix > j => cmem["addr"] = "INST"
  BY DEF AddrInv
<1>2. c.ix \in Nat /\ a \in Nat
  BY IndexTypes
<1>3. /\ Program[test].child[a].fail = "next"
      /\ \A n \in CIndex : /\ Program[test].child[n].kind = "getaddr" => n = a
                           /\ ~Writes(Program[test].child[n], "addr")
  BY DEF AddrPlan, CIndex
<1>4. C_getaddr => c.ix = a /\ CStep.fail = "next"
  BY <1>3, StepsAtIndex DEF C_getaddr, CStep
<1>5. cmem'["addr"] = cmem["addr"] \/ C_getaddr
  <2>1. AtC("set") => CStep.cell # "addr"
    BY <1>3, StepsAtIndex DEF Writes, CStep
  <2> QED BY <2>1, ChildWrites DEF PlanCells
<1>6. CASE C_getaddr
  <2>1. cmem["addr"] # "INST"
    BY <1>1, <1>2, <1>4, <1>6, SMT
  <2>2. c'.ix = c.ix + 1
    <3>1. c' = cNext
      BY <1>4, <1>6 DEF C_getaddr
    <3> QED BY <3>1, ChildShape
  <2>3. ~(c'.ix <= a)
    BY <1>2, <1>4, <1>6, <2>2, SMT
  <2> QED BY <1>1, <2>1, <2>3
<1>7. CASE ~C_getaddr
  <2>1. c'.ix <= a => c.ix <= a
    BY <1>2, ChildShape, SMT
  <2> QED BY <1>1, <1>5, <1>7, <2>1
<1> QED BY <1>6, <1>7

\* What a step does to the semaphores, and which of their calls it can fail.
LEMMA SemsOfParent ==
    ASSUME TypeOK, Parent, Judged(test)
    PROVE  /\ \/ P_sem_wait \/ P_sem_post
              \/ sem' = sem /\ (failed' \cap SemCalls) = (failed \cap SemCalls)
           /\ \A n \in PIndex : p.ix = n /\ p'.ix # p.ix /\ Program[test].parent[n].kind = "sem_wait" => P_sem_wait
           /\ P_sem_post => AtP("sem_post") /\ p'.ix = p.ix + 1
<1>1. \A kind : AtP(kind) /\ kind \in HelperKinds => PStep.op \notin SemCalls
  BY StepsAtIndex, SemAssumption DEF TypeOK, PStep, PIndex, AtP
<1>2. \A n \in PIndex : p.ix = n /\ p'.ix # p.ix /\ Program[test].parent[n].kind = "sem_wait" => P_sem_wait
  <2> SUFFICES ASSUME p.ix \in PIndex, p'.ix # p.ix, Program[test].parent[p.ix].kind = "sem_wait" PROVE P_sem_wait
    OBVIOUS
  <2>1. FuncSteps
    BY ParentParts, FrameShape
  <2>2. p.at = "func"
    BY <2>1 DEF FuncSteps, Others, Requests, P_sem_wait, P_sem_post, P_buf, P_kill, P_attach, P_wait,
       P_resume, P_peek, P_poke, P_peekaddr, P_peektext, P_load, P_restore, P_refused, P_stopsig, P_gkill, AtP
  <2>3. AtP("sem_wait")
    BY <2>2, SMT DEF AtP, PStep, PIndex
  <2> QED BY <2>1, <2>3, StepAction
<1>3. P_sem_post => AtP("sem_post") /\ p'.ix = p.ix + 1
  BY ParentMove DEF P_sem_post
<1>4. \A op : op \notin SemCalls /\ Errs(op) => (failed' \cap SemCalls) = (failed \cap SemCalls)
  BY DEF Errs
<1>5. CASE ~P_sem_wait /\ ~P_sem_post
  <2>1. sem' = sem
    BY <1>5 DEF Parent, RunMmap, RunFork, RunUnmap, RunWait, P_buf, P_kill, P_attach, P_wait,
       P_peek, P_poke, P_peekaddr, P_peektext, P_load, P_restore, P_refused, P_stopsig, P_resume,
       P_gkill, P_success, P_cont
  <2>2. ~AtP("gkill")
    BY StepsAtIndex, SemAssumption DEF TypeOK, PIndex
  <2>3. \/ failed' = failed
        \/ \E op \in {"mmap", "sem_init", "fork", "munmap", "wait", "kill", "ATTACH", "CONT"} : Errs(op)
        \/ Errs(PStep.op) /\ \E kind \in HelperKinds : AtP(kind)
    <3>1. CASE RunMmap \/ RunFork \/ RunUnmap \/ RunWait
      BY <3>1 DEF RunMmap, RunFork, RunUnmap, RunWait, Passes
    <3>2. CASE P_buf \/ P_gkill \/ P_success
      BY <2>2, <3>2 DEF P_buf, P_gkill, P_success
    <3>3. CASE P_cont \/ P_kill \/ P_attach \/ P_wait
      <4>1. CONT.op = "CONT"
        BY DEF CONT
      <4> QED BY <3>3, <4>1 DEF P_cont, P_kill, P_attach, P_wait, Accepted, Rejected, Passes
    <3>4. CASE \/ P_peek \/ P_poke \/ P_peekaddr \/ P_peektext \/ P_load \/ P_restore \/ P_refused
               \/ P_resume \/ P_stopsig
      <4>1. failed' = failed \/ Errs(PStep.op)
        BY <3>4 DEF P_peek, P_poke, P_peekaddr, P_peektext, P_load, P_restore, P_refused, P_resume, P_stopsig,
           Accepted, Rejected, Passes
      <4>2. failed' = failed \/ \E kind \in HelperKinds : AtP(kind)
        BY <3>4 DEF P_peek, P_poke, P_peekaddr, P_peektext, P_load, P_restore, P_refused, P_resume, P_stopsig,
           Passes, HelperKinds
      <4> QED BY <4>1, <4>2
    <3> QED BY <1>5, <3>1, <3>2, <3>3, <3>4 DEF Parent
  <2>4. \A op \in {"mmap", "sem_init", "fork", "munmap", "wait", "kill", "ATTACH", "CONT"} : op \notin SemCalls
    BY DEF SemCalls
  <2> QED BY <1>1, <1>2, <1>3, <1>4, <2>1, <2>3, <2>4
<1> QED BY <1>2, <1>3, <1>5

LEMMA SemsOfChild ==
    ASSUME TypeOK, Child \/ K_crash, Judged(test)
    PROVE  /\ \/ C_sem_wait \/ C_sem_post
              \/ C_getaddr /\ CStep.fail = "post" /\ c'.at = "out"
              \/ sem' = sem /\ (failed' \cap SemCalls) = (failed \cap SemCalls)
           /\ \A n \in CIndex : c.ix = n /\ c'.ix # c.ix /\ Program[test].child[n].kind = "sem_wait" => C_sem_wait
           /\ \A n \in CIndex : c.ix = n /\ c'.ix # c.ix /\ Program[test].child[n].kind = "sem_post" => C_sem_post
<1>1. \A kind : AtC(kind) /\ kind \in HelperKinds => CStep.op \notin SemCalls
  BY StepsAtIndex, SemAssumption DEF TypeOK, CStep, CIndex, AtC
<1>2. ASSUME c.ix \in CIndex, c'.ix # c.ix, Program[test].child[c.ix].kind \in {"sem_wait", "sem_post"}
      PROVE  /\ Program[test].child[c.ix].kind = "sem_wait" => C_sem_wait
             /\ Program[test].child[c.ix].kind = "sem_post" => C_sem_post
  <2>1. c' # c /\ ~C_success /\ ~C_exit /\ c.at = "func"
    BY <1>2, ChildShape
  <2>2. \A kind : AtC(kind) => kind = Program[test].child[c.ix].kind
    BY DEF AtC, CStep
  <2>3. ~(K_deliver \/ K_step \/ K_futex_restart \/ K_crash \/ C_sem_block)
    BY <2>1 DEF K_deliver, K_step, K_futex_restart, K_crash, C_sem_block
  <2>4. ~(C_traceme \/ C_getaddr \/ C_set \/ C_check \/ C_exec \/ C_fork \/ C_raise \/ C_getpid \/ C_sleep)
    BY <1>2, <2>2 DEF C_traceme, C_getaddr, C_set, C_check, C_exec, C_fork, C_raise, C_getpid, C_sleep
  <2>5. (C_sem_wait => AtC("sem_wait")) /\ (C_sem_post => AtC("sem_post"))
    BY DEF C_sem_wait, C_sem_post
  <2>6. C_sem_wait \/ C_sem_post
    BY <2>1, <2>3, <2>4 DEF Child
  <2> QED BY <2>2, <2>5, <2>6
<1>4. \A op : op \notin SemCalls /\ Errs(op) => (failed' \cap SemCalls) = (failed \cap SemCalls)
  BY DEF Errs
<1>5. \/ C_sem_wait \/ C_sem_post
      \/ C_getaddr /\ CStep.fail = "post" /\ c'.at = "out"
      \/ sem' = sem /\ (failed' \cap SemCalls) = (failed \cap SemCalls)
  <2>1. CASE C_getaddr
    <3>1. CASE CStep.fail = "post" /\ c' = cFail
      BY <2>1, <3>1, ChildShape
    <3>2. CASE ~(CStep.fail = "post" /\ c' = cFail)
      <4>1. /\ failed' = failed \/ Errs(CStep.op)
            /\ sem' = sem \/ sem' = [sem EXCEPT !.pwait = @]
        BY <2>1, <3>2 DEF C_getaddr, Passes
      <4>2. sem' = sem
        BY <4>1 DEF TypeOK
      <4>3. CStep.op \notin SemCalls
        BY <1>1, <2>1 DEF C_getaddr, HelperKinds
      <4> QED BY <1>4, <4>1, <4>2, <4>3
    <3> QED BY <3>1, <3>2
  <2>2. CASE \/ K_deliver \/ K_step \/ K_futex_restart \/ C_set \/ C_sem_block
             \/ C_getpid \/ C_sleep \/ C_success
    BY <2>2 DEF K_deliver, K_step, K_futex_restart, C_set, C_sem_block, C_getpid, C_sleep, C_success
  <2>3. CASE C_traceme \/ C_fork \/ C_exit \/ K_crash
    <3>1. /\ sem' = sem
          /\ failed' = failed \/ \E op \in {"TRACEME", "gfork", "munmap", "crash"} : Errs(op)
      BY <2>3 DEF C_traceme, C_fork, C_exit, K_crash, Passes
    <3>2. \A op \in {"TRACEME", "gfork", "munmap", "crash"} : op \notin SemCalls
      BY DEF SemCalls
    <3> QED BY <1>4, <3>1, <3>2
  <2>4. CASE C_check \/ C_exec
    <3>1. sem' = sem /\ (failed' = failed \/ Errs(CStep.op)) /\ \E kind \in HelperKinds : AtC(kind)
      BY <2>4 DEF C_check, C_exec, Passes, HelperKinds
    <3> QED BY <1>1, <1>4, <3>1
  <2>5. ~C_raise
    BY StepsAtIndex, SemAssumption DEF C_raise, TypeOK, CIndex
  <2> QED BY <2>1, <2>2, <2>3, <2>4, <2>5 DEF Child
<1> QED BY <1>2, <1>5

LEMMA SemOfParent ==
    ASSUME TypeOK, Early, SemInv, Parent
    PROVE  SemInv'
<1>0. test' = test
  BY ParentParts, FuncShape, FrameShape
<1> SUFFICES ASSUME Judged(test), NEW q \in CIndex, NEW v \in CIndex, NEW w \in PIndex, NEW r \in PIndex,
                    SemPlan(test, q, w, r, v)
             PROVE  /\ c'.at \in {"unborn", "func"} /\ c'.ix <= q => "csem_post" \notin failed'
                    /\ (c'.at \in {"unborn", "func"} /\ c'.ix <= q) \/ "csem_post" \in failed' =>
                          sem'.pwait = 0 /\ (p'.ix > w => "sem_wait" \in failed')
                    /\ p'.ix <= r => "sem_post" \notin failed'
                    /\ p'.ix <= r \/ "sem_post" \in failed' =>
                          sem'.cwait = 0 /\ (c'.ix > v => "csem_wait" \in failed')
  BY <1>0 DEF SemInv, PIndex, CIndex
<1>1. /\ c.at \in {"unborn", "func"} /\ c.ix <= q => "csem_post" \notin failed
      /\ (c.at \in {"unborn", "func"} /\ c.ix <= q) \/ "csem_post" \in failed =>
            sem.pwait = 0 /\ (p.ix > w => "sem_wait" \in failed)
      /\ p.ix <= r => "sem_post" \notin failed
      /\ p.ix <= r \/ "sem_post" \in failed =>
            sem.cwait = 0 /\ (c.ix > v => "csem_wait" \in failed)
  BY DEF SemInv
<1>2. p.ix \in Nat /\ c.ix \in Nat /\ w \in Nat /\ r \in Nat
  BY IndexTypes
<1>3. /\ Program[test].parent[w].kind = "sem_wait" /\ Program[test].parent[r].kind = "sem_post"
      /\ \A n \in PIndex : Program[test].parent[n].kind = "sem_post" => n = r
  BY DEF SemPlan, PIndex
<1>4. c'.ix = c.ix /\ (c'.at \in {"unborn", "func"} => c.at \in {"unborn", "func"})
  <2>1. c' = c \/ (RunFork /\ c' = [c EXCEPT !.at = "func"])
    BY ParentParts, FuncShape, FrameShape
  <2>2. RunFork => c.at = "unborn"
    BY DEF RunFork, Early
  <2> QED BY <2>1, <2>2 DEF TypeOK, CState
<1>5. p'.ix \in {p.ix, p.ix + 1}
  BY ParentParts, FuncShape, FrameShape
<1>6. CASE P_sem_wait
  <2>1. p'.ix = p.ix + 1 /\ p.ix # r
    BY <1>3, <1>6, ParentMove, StepsAtIndex DEF P_sem_wait
  <2>2. \/ /\ sem.pwait > 0 /\ sem' = [sem EXCEPT !.pwait = @ - 1] /\ failed' = failed
        \/ sem' = sem /\ failed' = failed \cup {"sem_wait"}
    BY <1>6 DEF P_sem_wait, Passes, Errs
  <2>3. sem'.cwait = sem.cwait /\ (sem.pwait = 0 => sem' = sem /\ "sem_wait" \in failed')
    BY <2>2, SMT DEF TypeOK
  <2>4. \A op \in {"csem_post", "sem_post", "csem_wait"} : op \in failed' <=> op \in failed
    BY <2>2
  <2>5. p'.ix <= r <=> p.ix <= r
    BY <1>2, <2>1, SMT
  <2> QED BY <1>1, <1>4, <2>3, <2>4, <2>5
<1>7. CASE P_sem_post
  <2>1. p.ix = r /\ p'.ix = p.ix + 1 /\ w # r
    BY <1>3, <1>7, SemsOfParent, StepsAtIndex
  <2>2. \/ /\ sem' = [sem EXCEPT !.cwait = @ + 1] /\ failed' = failed
        \/ sem' = sem /\ failed' = failed \cup {"sem_post"}
    BY <1>7 DEF P_sem_post, Passes, Errs
  <2>3. sem'.pwait = sem.pwait /\ (failed' = failed \/ sem' = sem)
    BY <2>2 DEF TypeOK
  <2>4. \A op \in {"csem_post", "sem_wait", "csem_wait"} : op \in failed' <=> op \in failed
    BY <2>2
  <2>5. p.ix <= r /\ ~(p'.ix <= r) /\ (p'.ix > w => p.ix > w)
    BY <1>2, <2>1, SMT
  <2>6. "sem_post" \in failed' => sem' = sem
    BY <1>1, <2>3, <2>5
  <2> QED BY <1>1, <1>4, <2>3, <2>4, <2>5, <2>6
<1>8. CASE ~P_sem_wait /\ ~P_sem_post
  <2>1. sem' = sem /\ \A op \in SemCalls : op \in failed' <=> op \in failed
    BY <1>8, SemsOfParent
  <2>2. p'.ix > w => p.ix > w
    <3>1. p.ix = w => p'.ix = p.ix
      BY <1>3, <1>8, SemsOfParent
    <3> QED BY <1>2, <1>5, <3>1, SMT
  <2>3. p'.ix <= r => p.ix <= r
    BY <1>2, <1>5, SMT
  <2>4. \A op \in {"csem_post", "sem_wait", "csem_wait", "sem_post"} : op \in failed' <=> op \in failed
    BY <2>1 DEF SemCalls
  <2> QED BY <1>1, <1>4, <2>1, <2>2, <2>3, <2>4
<1> QED BY <1>6, <1>7, <1>8

LEMMA SemOfChild ==
    ASSUME TypeOK, Early, SemInv, Child \/ K_crash
    PROVE  SemInv'
<1>0. UNCHANGED <<test, p>> /\ k.st = "run"
  BY ChildFrame
<1> SUFFICES ASSUME Judged(test), NEW q \in CIndex, NEW v \in CIndex, NEW w \in PIndex, NEW r \in PIndex,
                    SemPlan(test, q, w, r, v)
             PROVE  /\ c'.at \in {"unborn", "func"} /\ c'.ix <= q => "csem_post" \notin failed'
                    /\ (c'.at \in {"unborn", "func"} /\ c'.ix <= q) \/ "csem_post" \in failed' =>
                          sem'.pwait = 0 /\ (p.ix > w => "sem_wait" \in failed')
                    /\ p.ix <= r => "sem_post" \notin failed'
                    /\ p.ix <= r \/ "sem_post" \in failed' =>
                          sem'.cwait = 0 /\ (c'.ix > v => "csem_wait" \in failed')
  BY <1>0 DEF SemInv, PIndex, CIndex
<1>1. /\ c.at \in {"unborn", "func"} /\ c.ix <= q => "csem_post" \notin failed
      /\ (c.at \in {"unborn", "func"} /\ c.ix <= q) \/ "csem_post" \in failed =>
            sem.pwait = 0 /\ (p.ix > w => "sem_wait" \in failed)
      /\ p.ix <= r => "sem_post" \notin failed
      /\ p.ix <= r \/ "sem_post" \in failed =>
            sem.cwait = 0 /\ (c.ix > v => "csem_wait" \in failed)
  BY DEF SemInv
<1>2. c.ix \in Nat /\ q \in Nat /\ v \in Nat
  BY IndexTypes
<1>3. /\ Program[test].child[q].kind = "sem_post" /\ Program[test].child[v].kind = "sem_wait"
      /\ \A n \in CIndex : /\ Program[test].child[n].kind = "sem_post" => n = q
                           /\ Program[test].child[n].kind = "getaddr" => n < q
  BY DEF SemPlan, CIndex
<1>4. c.at # "unborn" /\ c'.ix \in {c.ix, c.ix + 1} /\ (c'.at \in {"unborn", "func"} => c.at = "func")
  <2>1. c.at # "unborn"
    BY <1>0 DEF Early
  <2> QED BY <2>1, ChildShape DEF TypeOK, CState
<1>5. c'.ix <= q => c.ix <= q
  BY <1>2, <1>4, SMT
<1>6. CASE C_sem_wait
  <2>1. AtC("sem_wait") /\ c' = cNext
    BY <1>6 DEF C_sem_wait
  <2>2. \/ /\ sem.cwait > 0 /\ sem' = [sem EXCEPT !.cwait = @ - 1] /\ failed' = failed
        \/ sem' = sem /\ failed' = failed \cup {"csem_wait"}
    BY <1>6 DEF C_sem_wait, Passes, Errs
  <2>3. sem'.pwait = sem.pwait /\ (sem.cwait = 0 => sem' = sem /\ "csem_wait" \in failed')
    BY <2>2, SMT DEF TypeOK
  <2>4. \A op \in {"csem_post", "sem_post", "sem_wait"} : op \in failed' <=> op \in failed
    BY <2>2
  <2> QED BY <1>1, <1>4, <1>5, <2>3, <2>4
<1>7. CASE C_sem_post
  <2>1. c.ix = q /\ c.at = "func" /\ c'.ix = c.ix + 1 /\ q # v
    <3>1. AtC("sem_post") /\ c' = cNext
      BY <1>7 DEF C_sem_post
    <3> QED BY <1>3, <3>1, ChildShape, StepsAtIndex DEF AtC
  <2>2. \/ /\ sem' = [sem EXCEPT !.pwait = @ + 1] /\ failed' = failed
        \/ sem' = sem /\ failed' = failed \cup {"csem_post"}
    BY <1>7 DEF C_sem_post, Passes, Errs
  <2>3. sem'.cwait = sem.cwait /\ (failed' = failed \/ sem' = sem)
    BY <2>2 DEF TypeOK
  <2>4. \A op \in {"sem_post", "sem_wait", "csem_wait"} : op \in failed' <=> op \in failed
    BY <2>2
  <2>5. c.ix <= q /\ ~(c'.ix <= q) /\ (c'.ix > v => c.ix > v)
    BY <1>2, <2>1, SMT
  <2>6. "csem_post" \in failed' => sem' = sem
    BY <1>1, <2>1, <2>3, <2>5
  <2> QED BY <1>1, <2>1, <2>3, <2>4, <2>5, <2>6
<1>8. CASE C_getaddr /\ CStep.fail = "post" /\ c'.at = "out"
  <2>1. c.ix < q /\ c.at = "func" /\ c'.ix = c.ix
    <3>1. AtC("getaddr") /\ c' = cFail
      <4>1. AtC("getaddr") /\ c' \in {cNext, cFail}
        BY <1>8 DEF C_getaddr
      <4>2. cNext.at # "out"
        BY <4>1, ChildShape DEF AtC
      <4> QED BY <1>8, <4>1, <4>2
    <3> QED BY <1>3, <3>1, ChildShape, StepsAtIndex DEF AtC
  <2>2. \/ CanFail(CStep.op) /\ failed' = failed \cup {CStep.op} /\ (\E x : sem' = [sem EXCEPT !.pwait = x])
        \/ failed' = failed \cup {CStep.op, "csem_post"} /\ sem' = sem
        \/ failed' = failed /\ sem' = sem
    BY <1>8 DEF C_getaddr, Errs, Passes
  <2>3. CStep.op \notin SemCalls
    <3>1. AtC("getaddr")
      BY <1>8 DEF C_getaddr
    <3> QED BY <3>1, StepsAtIndex, SemAssumption DEF CStep, CIndex, TypeOK, HelperKinds
  <2>4. sem'.cwait = sem.cwait
    BY <2>2 DEF TypeOK
  <2>5. \A op \in {"sem_post", "sem_wait", "csem_wait"} : op \in failed' <=> op \in failed
    BY <2>2, <2>3 DEF SemCalls
  <2>6. c.ix <= q
    BY <1>2, <2>1, SMT
  <2>7. "csem_post" \in failed' => sem' = sem
    BY <1>1, <2>1, <2>2, <2>3, <2>6 DEF SemCalls
  <2> QED BY <1>1, <1>8, <2>1, <2>4, <2>5, <2>6, <2>7
<1>9. CASE /\ ~C_sem_wait /\ ~C_sem_post
           /\ sem' = sem /\ (failed' \cap SemCalls) = (failed \cap SemCalls)
  <2>1. \A op \in {"csem_post", "sem_wait", "csem_wait", "sem_post"} : op \in failed' <=> op \in failed
    BY <1>9 DEF SemCalls
  <2>2. c'.ix > v => c.ix > v
    <3>1. c.ix = v => c'.ix = c.ix
      BY <1>3, <1>9, SemsOfChild
    <3> QED BY <1>2, <1>4, <3>1, SMT
  <2> QED BY <1>1, <1>4, <1>5, <1>9, <2>1, <2>2
<1> QED BY <1>6, <1>7, <1>8, <1>9, SemsOfChild

LEMMA BufOfParent ==
    ASSUME TypeOK, Early, BufInv, Parent
    PROVE  BufInv'
<1>0. test' = test
  BY ParentParts, FuncShape, FrameShape
<1> SUFFICES ASSUME NEW b \in PIndex, NEW w \in CIndex, BufPlan(test, b, w)
             PROVE  /\ p'.ix <= b => cmem'["buf"] # Program[test].parent[b].val
                    /\ c'.ix > w => cmem'["buf"] = Program[test].parent[b].val
  BY <1>0 DEF BufInv, PIndex, CIndex
<1>1. /\ p.ix <= b => cmem["buf"] # Program[test].parent[b].val
      /\ c.ix > w => cmem["buf"] = Program[test].parent[b].val
  BY DEF BufInv
<1>2. p.ix \in Nat /\ c.ix \in Nat /\ b \in Nat /\ w \in Nat
  BY IndexTypes
<1>3. /\ Program[test].parent[b].kind = "poke"
      /\ \A n \in PIndex : Writes(Program[test].parent[n], "buf") => n = b
  BY DEF BufPlan, PIndex
<1>4. CASE Frames
  <2>1. p'.ix = p.ix /\ cmem' = cmem /\ c'.ix = c.ix
    BY <1>4, FrameShape DEF TypeOK, CState
  <2> QED BY <1>1, <2>1
<1>5. CASE FuncSteps
  <2>1. c' = c /\ p.ix \in PIndex /\ p'.ix \in {p.ix, p.ix + 1}
    BY <1>5, FuncShape
  <2>2. \/ cmem'["buf"] = cmem["buf"]
        \/ p.ix = b /\ p'.ix = p.ix + 1 /\ cmem'["buf"] = Program[test].parent[b].val
    <3>1. AtP("restore") => PStep.cell # "buf"
      BY <1>3, StepsAtIndex, SMT DEF Writes, PStep
    <3>2. AtP("poke") /\ PStep.cell = "buf" => p.ix = b /\ PStep = Program[test].parent[b]
      BY <1>3, StepsAtIndex DEF Writes, PStep
    <3>3. AtP("poke") => pNext.ix = p.ix + 1
      BY ParentMove
    <3> QED BY <1>5, <3>1, <3>2, <3>3, ParentWrites, SMTT(30) DEF PlanCells
  <2> QED BY <1>1, <1>2, <2>1, <2>2, SMT
<1> QED BY <1>4, <1>5, ParentParts, SMTT(30)

LEMMA BufOfChild ==
    ASSUME TypeOK, BufInv, Child \/ K_crash
    PROVE  BufInv'
<1>0. UNCHANGED <<test, p>>
  BY ChildFrame
<1> SUFFICES ASSUME NEW b \in PIndex, NEW w \in CIndex, BufPlan(test, b, w)
             PROVE  /\ p.ix <= b => cmem'["buf"] # Program[test].parent[b].val
                    /\ c'.ix > w => cmem'["buf"] = Program[test].parent[b].val
  BY <1>0 DEF BufInv, PIndex, CIndex
<1>1. /\ p.ix <= b => cmem["buf"] # Program[test].parent[b].val
      /\ c.ix > w => cmem["buf"] = Program[test].parent[b].val
  BY DEF BufInv
<1>2. p.ix \in Nat /\ c.ix \in Nat /\ b \in Nat /\ w \in Nat
  BY IndexTypes
<1>3. /\ Program[test].child[w].kind = "check" /\ Program[test].child[w].cell = "buf"
      /\ Program[test].child[w].val = Program[test].parent[b].val
      /\ \A n \in CIndex : Writes(Program[test].child[n], "buf") =>
            n < w /\ Program[test].child[n].val # Program[test].parent[b].val
  BY DEF BufPlan, CIndex
<1>4. c'.ix \in {c.ix, c.ix + 1}
  BY ChildShape
<1>5. CASE cmem'["buf"] # cmem["buf"]
  <2>1. AtC("set") /\ CStep.cell = "buf" /\ cmem'["buf"] = CStep.val
    BY <1>5, ChildWrites, SMTT(30) DEF PlanCells
  <2>2. c.ix < w /\ cmem'["buf"] # Program[test].parent[b].val
    BY <1>3, <2>1, StepsAtIndex, SMTT(30) DEF Writes, CStep
  <2> QED BY <1>2, <1>4, <2>2, SMT
<1>6. CASE cmem'["buf"] = cmem["buf"]
  <2>1. c.ix = w /\ c'.ix = c.ix + 1 => cmem["buf"] = Program[test].parent[b].val
    <3> SUFFICES ASSUME c.ix = w, c'.ix = c.ix + 1 PROVE cmem["buf"] = Program[test].parent[b].val
      OBVIOUS
    <3>1. c' = cNext /\ c.at = "func" /\ c' # c /\ c' # cFail
      BY <1>2, ChildShape, SMT
    <3>2. CStep.kind = "check" /\ CStep.cell = "buf" /\ CStep.val = Program[test].parent[b].val
      BY <1>3, SMTT(30) DEF CStep
    <3>3. C_check
      BY <3>1, <3>2, ChildShape DEF Child, K_crash, K_deliver, K_step, K_futex_restart, C_traceme, C_getaddr,
         C_set, C_sem_post, C_sem_block, C_sem_wait, C_exec, C_fork, C_raise,
         C_getpid, C_sleep, AtC, C_success, C_exit
    <3> QED BY <3>1, <3>2, <3>3 DEF C_check
  <2> QED BY <1>1, <1>2, <1>4, <1>6, <2>1, SMT
<1> QED BY <1>5, <1>6

\* After a wait the status is that of the stop the child is in.
LEMMA StatusOfParent ==
    ASSUME HeldInv, Early, StatusInv, Parent
    PROVE  StatusInv'
<1>t. TypeOK /\ Held
  BY DEF HeldInv
<1>0. test' = test
  BY <1>t, ParentParts, FuncShape, FrameShape
<1> SUFFICES ASSUME p'.at = "func", p'.ix > 1, Program[test].start = "mmap",
                    Program[test].parent[p'.ix - 1].kind \in {"wait", "waitpid"}
             PROVE  p'.status = k'.why
  BY <1>0 DEF StatusInv
<1>1. CASE Frames
  <2>1. p'.ix = p.ix /\ p.at = "fork"
    BY <1>t, <1>1, FrameShape DEF RunFork
  <2> QED BY <1>t, <2>1, SMT DEF Held
<1>2. CASE FuncSteps
  <2>1. p'.ix = p.ix + 1 /\ p.at = "func" /\ p.ix \in PIndex
    BY <1>t, <1>2, FuncShape
  <2>2. p'.ix - 1 = p.ix
    BY <1>t, <2>1, IndexTypes, SMT
  <2>3. AtP("wait") \/ AtP("waitpid")
    BY <2>1, <2>2, SMT DEF AtP, PStep, PIndex
  <2>4. PStep.fail = "out"
    BY <1>t, <2>1, <2>2, StopAssumption DEF PStep, PIndex, TypeOK
  <2>5. p' # pFail
    BY <1>t, <2>3, <2>4, ErrorLabel
  <2>6. ReapChild /\ p' = [pNext EXCEPT !.status = k.why]
    BY <1>2, <2>3, <2>5, StepAction DEF P_wait
  <2>7. k'.why = k.why
    BY <1>t, <2>6 DEF ReapChild, TypeOK, KState
  <2>8. p'.status = k.why
    BY <1>t, <2>3, <2>6, PNextType DEF PState
  <2> QED BY <2>7, <2>8
<1> QED BY <1>1, <1>2, ParentParts

LEMMA StatusOfChild ==
    ASSUME HeldInv, StatusInv, Child \/ K_crash
    PROVE  StatusInv'
<1>1. k.st = "run" /\ UNCHANGED <<test, p>>
  BY ChildFrame
<1>2. ~(/\ p.at = "func" /\ p.ix > 1 /\ Program[test].start = "mmap"
        /\ Program[test].parent[p.ix - 1].kind \in {"wait", "waitpid"})
  BY <1>1 DEF HeldInv, Held, Tracee, HoldKinds, Steps
<1> QED BY <1>1, <1>2 DEF StatusInv

\* How the parent changes the mode in which the child runs.
LEMMA ModeOfParent ==
    ASSUME TypeOK, Parent
    PROVE  \/ k'.mode = k.mode
           \/ P_cont
           \/ AtP("resume") /\ (PStep.op \notin {"SYSCALL", "SINGLESTEP"} => k'.mode = "CONT")
<1>1. CASE Requests \/ P_buf \/ P_sem_wait \/ P_success \/ RunMmap \/ RunUnmap
  <2>1. k' = k
    BY <1>1 DEF Requests, P_peek, P_poke, P_peekaddr, P_peektext, P_load, P_restore,
       P_refused, P_stopsig, P_gkill, P_buf, P_sem_wait, P_success, RunMmap, RunUnmap
  <2> QED BY <2>1
<1>2. CASE P_sem_post \/ P_kill
  <2>1. \E x : k' = k \/ k' = [k EXCEPT !.pending = x] \/ k' = [k EXCEPT !.futex = x]
    BY <1>2 DEF P_sem_post, P_kill
  <2>2. \A x : [k EXCEPT !.pending = x].mode = k.mode /\ [k EXCEPT !.futex = x].mode = k.mode
    BY DEF TypeOK, KState
  <2> QED BY <2>1, <2>2
<1>3. CASE P_attach \/ RunFork
  <2>1. k' = k \/ k' = [k EXCEPT !.pending = TRUE, !.traced = TRUE] \/ k' = [k EXCEPT !.st = "run"]
    BY <1>3 DEF P_attach, RunFork
  <2> QED BY <2>1 DEF TypeOK, KState
<1>4. CASE RunWait \/ P_wait
  <2>1. k' = k \/ ReapChild
    BY <1>4 DEF RunWait, P_wait
  <2> QED BY <2>1 DEF ReapChild, TypeOK, KState
<1>5. CASE P_resume
  <2>1. \A op : Resumed(op).mode = k.mode \/ (op \notin {"SYSCALL", "SINGLESTEP"} => Resumed(op).mode = "CONT")
    BY DEF Resumed, TypeOK, KState
  <2>2. k' = k \/ (AtP("resume") /\ k' = Resumed(PStep.op))
    BY <1>5 DEF P_resume
  <2> QED BY <2>1, <2>2
<1> QED BY <1>1, <1>2, <1>3, <1>4, <1>5 DEF Parent, Requests

LEMMA TextOfParent ==
    ASSUME HeldInv, Early, StatusInv, TextInv, Parent
    PROVE  TextInv'
<1>t. TypeOK /\ Held
  BY DEF HeldInv
<1>0. test' = test
  BY <1>t, ParentParts, FuncShape, FrameShape
<1> SUFFICES ASSUME Judged(test), NEW b \in PIndex, NEW s \in PIndex, NEW r \in PIndex, TextPlan(test, b, s, r)
             PROVE  /\ p'.at \in {"mmap", "fork", "func"} /\ p'.ix <= s => k'.mode = "CONT"
                    /\ p'.at = "func" /\ p'.ix <= s /\ k'.st = "stop" /\ WSTOPSIG(k'.why) = "TRAP" => AtC("exec")'
                    /\ p'.at = "func" /\ s < p'.ix /\ p'.ix <= r => AtC("exec")'
  BY <1>0 DEF TextInv, PIndex
<1>1. /\ p.at \in {"mmap", "fork", "func"} /\ p.ix <= s => k.mode = "CONT"
      /\ p.at = "func" /\ p.ix <= s /\ k.st = "stop" /\ WSTOPSIG(k.why) = "TRAP" => AtC("exec")
      /\ p.at = "func" /\ s < p.ix /\ p.ix <= r => AtC("exec")
  BY DEF TextInv
<1>2. p.ix \in Nat \ {0} /\ b \in Nat /\ s \in Nat /\ r \in Nat /\ Program[test].start = "mmap"
  BY <1>t, IndexTypes, ErrorAssumption, SMTT(30) DEF Judged, TypeOK
<1>3. /\ s > 1 /\ Program[test].parent[s - 1].kind \in {"wait", "waitpid"}
      /\ Program[test].parent[s].kind = "stopsig" /\ Program[test].parent[s].val = "TRAP"
      /\ Program[test].parent[s].fail # "next"
      /\ \A n \in PIndex : n < s => Program[test].parent[n].op \notin {"SYSCALL", "SINGLESTEP"}
      /\ Program[test].parent[s].kind # "resume"
  BY <1>t, QuietAssumption, ZenonT(30) DEF TextPlan, PIndex, TypeOK
<1>4. CASE Frames
  <2>1. p'.ix = p.ix /\ (p'.at = "func" => RunFork) /\ (p'.at \in {"mmap", "fork"} => p.at = "mmap")
    BY <1>t, <1>4, FrameShape
  <2>2. RunFork => p.at = "fork" /\ p.ix = 1 /\ k.st = "unborn"
    <3>1. RunFork => p.at = "fork"
      BY DEF RunFork
    <3> QED BY <1>t, <3>1 DEF Held, Early
  <2>3. RunFork => k'.st # "stop"
    <3>1. RunFork => k' = k \/ k' = [k EXCEPT !.st = "run"]
      BY DEF RunFork
    <3> QED BY <1>t, <2>2, <3>1 DEF TypeOK, KState
  <2>4. ~AtP("resume") /\ (P_cont => p'.at = "out")
    <3>1. ~P_success => ~AtP("resume")
      BY <1>t, <1>4, FrameShape DEF AtP
    <3>2. P_success => ~AtP("resume")
      <4>1. P_success => p.ix > Len(Program[test].parent)
        BY DEF P_success
      <4> QED BY <1>t, <4>1, IndexTypes, SMT DEF AtP
    <3>3. P_cont => p'.at = "out"
      BY <1>t DEF P_cont, TypeOK, PState
    <3> QED BY <3>1, <3>2, <3>3
  <2>5. p'.at \in {"mmap", "fork", "func"} /\ p'.ix <= s => k'.mode = "CONT"
    BY <1>t, <1>1, <1>4, <2>1, <2>2, <2>4, ModeOfParent, ParentParts
  <2>6. ~(p'.at = "func" /\ s < p'.ix)
    BY <1>2, <1>3, <2>1, <2>2, SMT
  <2> QED BY <2>1, <2>3, <2>5, <2>6
<1>5. CASE FuncSteps
  <2>1. /\ c' = c /\ p.at = "func" /\ p.ix \in PIndex
        /\ p'.at = "func" => p'.ix = p.ix + 1
        /\ p'.at \in {"func", "cont", "out"} /\ \E kind : AtP(kind)
    BY <1>t, <1>5, FuncShape
  <2>2. AtC("exec")' <=> AtC("exec")
    BY <1>0, <2>1 DEF AtC, CStep
  <2>3. p'.at = "func" /\ p'.ix <= s => k'.mode = "CONT"
    <3> SUFFICES ASSUME p'.at = "func", p'.ix <= s PROVE k'.mode = "CONT"
      OBVIOUS
    <3>1. p.ix < s /\ k.mode = "CONT" /\ PStep.op \notin {"SYSCALL", "SINGLESTEP"}
      BY <1>1, <1>2, <1>3, <2>1, SMT DEF PStep
    <3>2. ~P_cont
      BY <2>1, SMTT(30) DEF P_cont
    <3> QED BY <1>t, <3>1, <3>2, ModeOfParent
  <2>4. p'.at = "func" /\ p'.ix <= s /\ k'.st = "stop" /\ WSTOPSIG(k'.why) = "TRAP" => AtC("exec")
    <3>1. ~RunFork
      BY <2>1 DEF RunFork
    <3>2. k'.st = "stop" => k.st = "stop" /\ k'.why = k.why
      BY <1>t, <3>1, ParentOnChild
    <3> QED BY <1>1, <1>2, <2>1, <3>2, SMT
  <2>5. p'.at = "func" /\ s < p'.ix /\ p'.ix <= r => AtC("exec")
    <3> SUFFICES ASSUME p'.at = "func", s < p'.ix, p'.ix <= r, p.ix = s PROVE AtC("exec")
      BY <1>1, <1>2, <2>1, SMTT(30)
    <3>1. AtP("stopsig") /\ PStep.val = "TRAP" /\ PStep.fail # "next"
      BY <1>3, <2>1 DEF AtP, PStep, PIndex
    <3>2. p' # pFail
      BY <1>t, <3>1, ErrorLabel
    <3>3. WSTOPSIG(p.status) = "TRAP"
      <4>1. P_stopsig /\ ~AtP("syscallno")
        BY <1>5, <3>1, StepAction DEF AtP
      <4> QED BY <3>1, <3>2, <4>1 DEF P_stopsig
    <3>4. k.st = "stop"
      BY <1>2, <3>1, HeldRequest DEF RequestKinds, Tracee
    <3>5. p.status = k.why
      BY <1>2, <1>3, <2>1 DEF StatusInv
    <3> QED BY <1>1, <1>2, <2>1, <3>3, <3>4, <3>5, SMT
  <2> QED BY <2>1, <2>2, <2>3, <2>4, <2>5
<1> QED BY <1>4, <1>5, ParentParts

LEMMA TextOfChild ==
    ASSUME HeldInv, TextInv, Child \/ K_crash
    PROVE  TextInv'
<1>t. TypeOK /\ Held
  BY DEF HeldInv
<1>0. k.st = "run" /\ UNCHANGED <<test, p>>
  BY ChildFrame
<1> SUFFICES ASSUME Judged(test), NEW b \in PIndex, NEW s \in PIndex, NEW r \in PIndex, TextPlan(test, b, s, r)
             PROVE  /\ p.at \in {"mmap", "fork", "func"} /\ p.ix <= s => k'.mode = "CONT"
                    /\ p.at = "func" /\ p.ix <= s /\ k'.st = "stop" /\ WSTOPSIG(k'.why) = "TRAP" => AtC("exec")'
                    /\ ~(p.at = "func" /\ s < p.ix /\ p.ix <= r)
  BY <1>0 DEF TextInv, PIndex
<1>1. p.at \in {"mmap", "fork", "func"} /\ p.ix <= s => k.mode = "CONT"
  BY SMTT(30) DEF TextInv
<1>2. p.ix \in Nat \ {0} /\ b \in Nat /\ s \in Nat /\ r \in Nat /\ Program[test].start = "mmap"
  BY <1>t, IndexTypes, ErrorAssumption, SMTT(30) DEF Judged, TypeOK
<1>3. p.at \in {"mmap", "fork", "func"} /\ p.ix <= s => k'.mode = "CONT"
  BY <1>t, <1>1, ChildMove
<1>4. ASSUME p.at = "func", p.ix <= s, k'.st = "stop", WSTOPSIG(k'.why) = "TRAP" PROVE AtC("exec")'
  <2>1. k.mode = "CONT"
    BY <1>1, <1>4, SMTT(30)
  <2>2. ~AtC("fork")
    BY <1>t, StepsAtIndex, ProgramAssumption, SMT DEF Judged, UsesKind, CIndex, TypeOK
  <2>3. ~K_step /\ ~K_futex_restart /\ ~C_fork /\ (C_getpid => k' = k)
    BY <2>1, <2>2 DEF K_step, K_futex_restart, C_fork, C_getpid
  <2>4. \A w \in {"STOP", "ILL", "SEGV"} : WSTOPSIG(Stopped(w).why) # "TRAP"
    BY <1>t DEF Stopped, TypeOK, KState, WSTOPSIG
  <2>5. ~K_deliver /\ ~C_raise
    BY <1>0, <1>4, <2>4 DEF K_deliver, C_raise
  <2>6. ~K_crash
    <3>1. K_crash => k' = Stopped("SEGV") \/ k' = [k EXCEPT !.st = "zombie", !.why = "CRASH", !.seen = FALSE]
      BY DEF K_crash
    <3> QED BY <1>t, <1>4, <2>4, <3>1 DEF TypeOK, KState
  <2>7. ~(C_getaddr \/ C_set \/ C_check \/ C_sem_post \/ C_sleep \/ C_success \/ C_getpid)
    <3>1. C_getaddr \/ C_set \/ C_check \/ C_sem_post \/ C_sleep \/ C_success \/ C_getpid => k' = k
      BY <2>3 DEF C_getaddr, C_set, C_check, C_sem_post, C_sleep, C_success
    <3> QED BY <1>0, <1>4, <3>1
  <2>8. ~(C_traceme \/ C_sem_block \/ C_sem_wait)
    <3>1. C_traceme \/ C_sem_block \/ C_sem_wait => k'.st = k.st
      BY <1>t DEF C_traceme, C_sem_block, C_sem_wait, TypeOK, KState
    <3> QED BY <1>0, <1>4, <3>1
  <2>9. ~C_exit
    <3>1. \A x : Exited(x).st = "zombie"
      BY <1>t DEF Exited, TypeOK, KState
    <3> QED BY <1>4, <3>1 DEF C_exit
  <2>10. C_exec
    BY <2>3, <2>5, <2>6, <2>7, <2>8, <2>9 DEF Child
  <2>11. AtC("exec") /\ (c' = c \/ k' = k)
    BY <2>10 DEF C_exec
  <2> QED BY <1>0, <1>4, <2>11 DEF AtC, CStep
<1>5. ~(p.at = "func" /\ s < p.ix /\ p.ix <= r)
  <2> SUFFICES ASSUME p.at = "func", s < p.ix, p.ix <= r PROVE FALSE
    OBVIOUS
  <2>1. p.ix \in PIndex /\ p.ix \in s .. r
    BY <1>t, <1>2, IndexTypes, SMTT(30) DEF PIndex
  <2>2. Program[test].parent[p.ix].kind \in RequestKinds
    BY <2>1 DEF TextPlan, PIndex
  <2>3. AtP(Program[test].parent[p.ix].kind)
    BY <2>1, SMT DEF AtP, PStep, PIndex
  <2> QED BY <1>0, <1>2, <2>2, <2>3, HeldRequest DEF Tracee
<1> QED BY <1>3, <1>4, <1>5

\* A failing call of the parent sends it to an error label, or is one of the two
\* that leave a wrong value behind, or a semaphore call.
LEMMA ParentFails ==
    ASSUME TypeOK, VerdictLast, Early, Parent, Judged(test)
    PROVE  \/ failed' = failed \/ Errs("sem_wait") \/ Errs("sem_post")
           \/ ParentGaveUp'
           \/ /\ AtP("poke") /\ PStep.cell = "buf" /\ Errs(PStep.op)
              /\ FuncSteps /\ p'.ix = p.ix + 1 /\ cmem' = cmem
           \/ /\ AtP("peektext") /\ Errs(PStep.op) /\ FuncSteps
              /\ p'.at = "func" /\ p'.ix = p.ix + 1 /\ p'.inst_val = "BAD"
<1>0. test \in Tests /\ \A kind : AtP(kind) => PStep.fail # "next"
  BY ParentStepType, QuietAssumption DEF TypeOK, PStep
<1>1. CASE RunMmap \/ RunFork \/ RunUnmap \/ RunWait
  <2>1. \/ failed' = failed
        \/ /\ p' = [p EXCEPT !.at = "done"]
           /\ verdict' # "none" /\ verdict' # "ok"
    BY <1>1 DEF RunMmap, RunFork, RunUnmap, RunWait, Passes
  <2> QED BY <2>1 DEF ParentGaveUp, TypeOK, PState
<1>2. CASE P_sem_wait \/ P_sem_post \/ P_buf \/ P_gkill \/ P_success
  <2>1. ~P_gkill
    BY StepsAtIndex, SemAssumption DEF P_gkill, TypeOK, PIndex
  <2> QED BY <1>2, <2>1 DEF P_sem_wait, P_sem_post, P_buf, P_success, Passes
<1>3. CASE P_cont
  <2>1. failed' = failed \/ p' = [p EXCEPT !.at = "out", !.ret = -1]
    BY <1>3 DEF P_cont, Accepted, Passes
  <2> QED BY <2>1 DEF ParentGaveUp, TypeOK, PState
<1>4. CASE P_kill \/ P_attach \/ P_wait \/ P_peek \/ P_load \/ P_restore \/ P_refused \/ P_stopsig \/ P_resume
  <2>1. PICK kind : AtP(kind)
    BY <1>4 DEF P_kill, P_attach, P_wait, P_peek, P_load, P_restore, P_refused, P_stopsig, P_resume
  <2>2. failed' = failed \/ p' = pFail
    BY <1>4 DEF P_kill, P_attach, P_wait, P_peek, P_load, P_restore, P_refused, P_stopsig, P_resume,
       Accepted, Rejected, Passes
  <2> QED BY <1>0, <2>1, <2>2, ErrorLabel DEF ParentGaveUp
<1>5. CASE P_poke
  <2>1. /\ AtP("poke") /\ FuncSteps
        /\ \/ failed' = failed
           \/ p' = pFail
           \/ /\ PStep.cell = "buf" /\ Errs(PStep.op) /\ cmem' = cmem
              /\ p' = pNext \/ p' = [pNext EXCEPT !.buf = PStep.val]
    BY <1>5 DEF P_poke, Accepted, Rejected, Passes, FuncSteps, Others, Requests
  <2>2. pNext.ix = p.ix + 1 /\ [pNext EXCEPT !.buf = PStep.val].ix = p.ix + 1
    BY <2>1, ParentMove, PNextType DEF PState
  <2> QED BY <1>0, <2>1, <2>2, ErrorLabel DEF ParentGaveUp
<1>6. CASE P_peekaddr
  <2>1. AtP("peekaddr") /\ (failed' = failed \/ p' = [pFail EXCEPT !.read_val = "-1"])
    BY <1>6 DEF P_peekaddr, Accepted, Rejected, Passes
  <2>2. [pFail EXCEPT !.read_val = "-1"].at = pFail.at /\ [pFail EXCEPT !.read_val = "-1"].ret = pFail.ret
    BY <2>1, PNextType DEF PState
  <2> QED BY <1>0, <2>1, <2>2, ErrorLabel DEF ParentGaveUp
<1>7. CASE P_peektext
  <2>1. /\ AtP("peektext") /\ FuncSteps
        /\ \/ failed' = failed
           \/ p' = pFail
           \/ p' = [pNext EXCEPT !.inst_val = "BAD"] /\ Errs(PStep.op)
    BY <1>7 DEF P_peektext, Accepted, Rejected, Passes, FuncSteps, Others, Requests
  <2>2. LET q == [pNext EXCEPT !.inst_val = "BAD"]
        IN  q.at = "func" /\ q.ix = p.ix + 1 /\ q.inst_val = "BAD"
    BY <2>1, ParentMove, PNextType DEF PState
  <2> QED BY <1>0, <2>1, <2>2, ErrorLabel DEF ParentGaveUp
<1> QED BY <1>1, <1>2, <1>3, <1>4, <1>5, <1>6, <1>7, SMTT(30) DEF Parent

\* A parent that has given up does not return NULL.
LEMMA ParentKeeps ==
    ASSUME TypeOK, VerdictLast, Parent, ParentGaveUp
    PROVE  ParentGaveUp'
<1>1. verdict = "none" /\ p.ret = -1 /\ p.at \in {"cont", "out", "final", "done"} /\ p \in PState
  BY ParentVerdict DEF ParentGaveUp, TypeOK
<1>2. P_cont \/ RunUnmap \/ RunWait
  BY <1>1 DEF Parent, RunMmap, RunFork, P_sem_wait, P_sem_post, P_buf, P_kill, P_attach, P_wait,
     P_peek, P_poke, P_peekaddr, P_peektext, P_load, P_restore, P_refused, P_stopsig, P_resume,
     P_gkill, P_success, AtP
<1>3. p'.ret = -1 /\ p'.at \in {"out", "final", "done"}
  BY <1>1, <1>2 DEF P_cont, RunUnmap, RunWait, PState
<1> QED BY <1>3 DEF ParentGaveUp

\* A child whose call has failed exits with -1, but for a getaddr that goes on and
\* the semaphore calls.
LEMMA ChildFails ==
    ASSUME TypeOK, Early, Child \/ K_crash, Judged(test)
    PROVE  \/ failed' = failed \/ Errs("crash") \/ Errs("csem_wait") \/ Errs("csem_post")
           \/ ChildGaveUp'
           \/ /\ AtC("getaddr") /\ CStep.fail = "next" /\ Errs(CStep.op)
              /\ c' = cNext /\ cmem'["addr"] = "-1"
<1>0. c.at = "func" => cFail.at = "out" /\ cFail.ret = -1
  BY DEF Early, cFail, TypeOK, CState
<1>1. CASE \/ K_deliver \/ K_step \/ K_futex_restart \/ C_set \/ C_sem_post \/ C_sem_block \/ C_sem_wait
           \/ C_raise \/ C_getpid \/ C_sleep \/ C_success
  <2>1. ~C_raise
    BY StepsAtIndex, SemAssumption DEF C_raise, TypeOK, CIndex
  <2> QED BY <1>1, <2>1 DEF K_deliver, K_step, K_futex_restart, C_set, C_sem_post, C_sem_block, C_sem_wait,
     C_getpid, C_sleep, C_success, Passes
<1>2. CASE C_traceme \/ C_check \/ C_exec \/ C_fork
  <2>1. (failed' = failed \/ c' = cFail) /\ c.at = "func"
    BY <1>2 DEF C_traceme, C_check, C_exec, C_fork, AtC, Passes
  <2> QED BY <1>0, <2>1 DEF ChildGaveUp
<1>3. CASE C_getaddr
  <2>1. AtC("getaddr") /\ c.at = "func"
    BY <1>3 DEF C_getaddr, AtC
  <2>2. \/ failed' = failed \/ c' = cFail
        \/ CStep.fail = "next" /\ Errs(CStep.op) /\ c' = cNext /\ cmem' = [cmem EXCEPT !["addr"] = "-1"]
    BY <1>3 DEF C_getaddr, Passes
  <2>3. [cmem EXCEPT !["addr"] = "-1"]["addr"] = "-1"
    BY DEF TypeOK, Cells
  <2> QED BY <1>0, <2>1, <2>2, <2>3 DEF ChildGaveUp
<1>4. CASE C_exit
  <2>1. failed' = failed \/ c' = [c EXCEPT !.at = "done", !.ret = -1]
    BY <1>4 DEF C_exit, Passes
  <2> QED BY <2>1 DEF ChildGaveUp, TypeOK, CState
<1>5. CASE K_crash
  BY <1>5 DEF K_crash
<1> QED BY <1>1, <1>2, <1>3, <1>4, <1>5 DEF Child

\* ... and nothing makes it return 0.
LEMMA ChildKeeps ==
    ASSUME TypeOK, Child \/ K_crash, ChildGaveUp
    PROVE  ChildGaveUp'
<1>1. ~C_success /\ c.at # "func"
  BY ZenonT(30) DEF ChildGaveUp, C_success
<1>2. CASE C_exit
  BY <1>2, ChildShape DEF ChildGaveUp
<1> QED BY <1>1, <1>2, ChildShape DEF ChildGaveUp

\* A pending fault stays pending, until the parent gives up.
LEMMA PendingOfParent ==
    ASSUME TypeOK, Early, TextInv, Judged(test), Parent
    PROVE  Pending \subseteq Pending' \/ ParentGaveUp'
<1>0. test' = test /\ test \in Tests
  BY ParentParts, FuncShape, FrameShape DEF TypeOK
<1> SUFFICES ASSUME ~ParentGaveUp', NEW op \in Calls, op \in Pending
             PROVE  AddrPending(op)' \/ BufPending(op)' \/ TextPending(op)'
  BY DEF Pending
<1>1. \A x \in PlanCells :
         \/ cmem'[x] = cmem[x]
         \/ /\ p.ix \in PIndex /\ Writes(Program[test].parent[p.ix], x)
            /\ P_restore => cmem'[x] = p.inst_val
  <2>1. CASE FuncSteps
    <3>1. \A x \in PlanCells : \/ cmem'[x] = cmem[x]
                               \/ /\ AtP("poke") \/ AtP("restore")
                                  /\ PStep.cell = x
                                  /\ P_restore => cmem'[x] = p.inst_val
      BY <2>1, ParentWrites DEF P_restore, AtP
    <3> QED BY <3>1, StepsAtIndex DEF Writes, PStep
  <2>2. CASE Frames
    BY <2>2, FrameShape
  <2> QED BY <2>1, <2>2, ParentParts
<1>2. p.ix \in Nat /\ p'.ix \in Nat /\ p'.ix >= p.ix /\ (c.at # "unborn" => c' = c)
  <2>1. CASE FuncSteps
    BY <2>1, FuncShape, IndexTypes, SMT
  <2>2. CASE Frames
    <3>1. RunFork => c.at = "unborn"
      BY ZenonT(30) DEF RunFork, Early
    <3> QED BY <2>2, <3>1, FrameShape, IndexTypes, SMT
  <2> QED BY <2>1, <2>2, ParentParts
<1>3. CASE AddrPending(op)
  <2>1. PICK a \in CIndex, j \in PIndex :
           /\ AddrPlan(test, a, j)
           /\ Program[test].child[a].op = op /\ c.ix > a
           /\ cmem["addr"] = "-1"
    BY <1>3, SMTT(30) DEF AddrPending
  <2>2. \A n \in PIndex : ~Writes(Program[test].parent[n], "addr")
    BY <2>1, SMTT(30) DEF AddrPlan, PIndex
  <2>3. cmem'["addr"] = "-1"
    BY <1>1, <2>1, <2>2 DEF PlanCells
  <2>4. c' = c
    BY <1>2, <2>1, IndexTypes, SMTT(30) DEF Early
  <2> QED BY <1>0, <2>1, <2>3, <2>4, SMTT(30) DEF AddrPending, PIndex, CIndex
<1>4. CASE BufPending(op)
  <2>1. PICK b \in PIndex, w \in CIndex :
           /\ BufPlan(test, b, w)
           /\ Program[test].parent[b].op = op /\ p.ix > b
           /\ cmem["buf"] # Program[test].parent[b].val
    BY <1>4, SMTT(30) DEF BufPending
  <2>2. \A n \in PIndex : Writes(Program[test].parent[n], "buf") => n = b
    BY <2>1, SMTT(30) DEF BufPlan, PIndex
  <2>3. cmem'["buf"] = cmem["buf"] /\ p'.ix > b
    BY <1>1, <1>2, <2>1, <2>2, IndexTypes, SMTT(30) DEF PlanCells
  <2> QED BY <1>0, <2>1, <2>3, SMTT(30) DEF BufPending, PIndex, CIndex
<1>5. CASE TextPending(op)
  <2>1. PICK b \in PIndex, s \in PIndex, r \in PIndex :
           /\ TextPlan(test, b, s, r)
           /\ Program[test].parent[b].op = op
           /\ \/ p.at = "func" /\ b < p.ix /\ p.ix <= r /\ p.inst_val = "BAD"
              \/ p.ix > r /\ cmem["text"] = "BAD" /\ AtC("exec")
    BY <1>5, SMTT(30) DEF TextPending
  <2>2. /\ b \in Nat /\ s \in Nat /\ r \in Nat /\ b < s /\ s < r
        /\ Program[test].parent[r].kind = "restore" /\ Program[test].parent[r].cell = "text"
        /\ \A n \in PIndex : /\ Program[test].parent[n].kind \in {"peektext", "load"} => n = b
                             /\ n > r => ~Writes(Program[test].parent[n], "text")
    BY <2>1, IndexTypes DEF TextPlan, PIndex
  <2>p. PIndex' = PIndex /\ TextPlan(test, b, s, r)' /\ (Program[test].parent[b].op = op)'
    BY <1>0, <2>1 DEF PIndex
  <2>3. CASE p.at = "func" /\ b < p.ix /\ p.ix <= r /\ p.inst_val = "BAD"
    <3>1. FuncSteps
      <4>1. ~P_success
        BY <2>3, IndexTypes, SMT DEF P_success, PIndex
      <4> QED BY <2>3, <4>1, ParentParts, FrameShape
    <3>2. p'.at = "func" /\ p'.ix = p.ix + 1 /\ p.ix \in PIndex
      BY <3>1, FuncShape, SMTT(30) DEF ParentGaveUp
    <3>3. p'.inst_val = "BAD"
      <4>1. ~P_peektext /\ ~P_load
        BY <1>2, <2>2, <2>3, StepsAtIndex, SMTT(30) DEF P_peektext, P_load
      <4> QED BY <2>3, <3>1, <4>1, FuncShape
    <3>4. CASE p.ix < r
      BY <1>2, <2>p, <2>2, <2>3, <3>2, <3>3, <3>4, SMTT(30) DEF TextPending
    <3>5. CASE p.ix = r
      <4>1. AtP("restore") /\ PStep.cell = "text" /\ PStep.fail # "next"
        BY <1>0, <2>2, <2>3, <3>2, <3>5, QuietAssumption, SMT DEF AtP, PStep, PIndex
      <4>2. P_restore
        BY <3>1, <4>1, StepAction
      <4>3. cmem' = [cmem EXCEPT !["text"] = "BAD"]
        <5>1. p' # pFail
          BY <3>2, <4>1, ErrorLabel
        <5> QED BY <2>3, <4>1, <4>2, <5>1 DEF P_restore
      <4>4. cmem'["text"] = "BAD"
        BY <4>3, SMTT(30) DEF TypeOK, Cells
      <4>5. AtC("exec") /\ c' = c
        BY <1>2, <2>1, <2>2, <2>3, <3>5, ZenonT(30) DEF TextInv, AtC
      <4>6. AtC("exec")'
        BY <1>0, <4>5 DEF AtC, CStep
      <4> QED BY <1>2, <2>p, <2>2, <3>2, <3>5, <4>4, <4>6, SMTT(30) DEF TextPending
    <3>6. p.ix < r \/ p.ix = r
      BY <1>2, <2>2, <2>3, SMT
    <3> QED BY <3>4, <3>5, <3>6
  <2>4. CASE p.ix > r /\ cmem["text"] = "BAD" /\ AtC("exec")
    <3>1. cmem'["text"] = "BAD" /\ p'.ix > r
      BY <1>1, <1>2, <2>2, <2>4, SMT DEF PlanCells
    <3>2. AtC("exec")'
      BY <1>0, <1>2, <2>4 DEF AtC, CStep
    <3> QED BY <2>p, <3>1, <3>2, SMTT(30) DEF TextPending
  <2> QED BY <2>1, <2>3, <2>4, ZenonT(30)
<1> QED BY <1>3, <1>4, <1>5 DEF Pending

LEMMA PendingOfChild ==
    ASSUME TypeOK, Child \/ K_crash
    PROVE  Pending \subseteq Pending'
<1>0. UNCHANGED <<test, p>>
  BY ChildFrame
<1> SUFFICES ASSUME NEW op \in Calls, op \in Pending
             PROVE  AddrPending(op)' \/ BufPending(op)' \/ TextPending(op)'
  BY DEF Pending
<1>1. c.ix \in Nat /\ c'.ix \in Nat /\ c'.ix >= c.ix
  BY ChildShape, IndexTypes, SMTT(30)
<1>2. \A x \in PlanCells :
         \/ cmem'[x] = cmem[x]
         \/ /\ c.ix \in CIndex /\ Writes(Program[test].child[c.ix], x)
            /\ cmem'[x] = Program[test].child[c.ix].val
         \/ c.ix \in CIndex /\ Program[test].child[c.ix].kind = "getaddr" /\ x = "addr"
  BY ChildWrites, StepsAtIndex DEF Writes, CStep, AtC
<1>3. CASE AddrPending(op)
  <2>1. PICK a \in CIndex, j \in PIndex :
           /\ AddrPlan(test, a, j)
           /\ Program[test].child[a].op = op /\ c.ix > a
           /\ cmem["addr"] = "-1"
    BY <1>3 DEF AddrPending
  <2>2. \A n \in CIndex : /\ ~Writes(Program[test].child[n], "addr")
                          /\ Program[test].child[n].kind = "getaddr" => n = a
    BY <2>1, SMTT(30) DEF AddrPlan, CIndex
  <2>3. cmem'["addr"] = "-1" /\ c'.ix > a
    BY <1>1, <1>2, <2>1, <2>2, IndexTypes, SMTT(30) DEF PlanCells
  <2> QED BY <1>0, <2>1, <2>3, SMTT(30) DEF AddrPending, PIndex, CIndex
<1>4. CASE BufPending(op)
  <2>1. PICK b \in PIndex, w \in CIndex :
           /\ BufPlan(test, b, w)
           /\ Program[test].parent[b].op = op /\ p.ix > b
           /\ cmem["buf"] # Program[test].parent[b].val
    BY <1>4, SMTT(30) DEF BufPending
  <2>2. \A n \in CIndex : Writes(Program[test].child[n], "buf")
                             => Program[test].child[n].val # Program[test].parent[b].val
    BY <2>1, SMTT(30) DEF BufPlan, CIndex
  <2>3. cmem'["buf"] # Program[test].parent[b].val
    BY <1>2, <2>1, <2>2, SMTT(30) DEF PlanCells
  <2> QED BY <1>0, <2>1, <2>3, SMTT(30) DEF BufPending, PIndex, CIndex
<1>5. CASE TextPending(op)
  <2>1. PICK b \in PIndex, s \in PIndex, r \in PIndex :
           /\ TextPlan(test, b, s, r)
           /\ Program[test].parent[b].op = op
           /\ \/ p.at = "func" /\ b < p.ix /\ p.ix <= r /\ p.inst_val = "BAD"
              \/ p.ix > r /\ cmem["text"] = "BAD" /\ AtC("exec")
    BY <1>5 DEF TextPending
  <2>2. PIndex' = PIndex /\ TextPlan(test, b, s, r)' /\ (Program[test].parent[b].op = op)'
    BY <1>0, <2>1 DEF PIndex
  <2>3. CASE p.at = "func" /\ b < p.ix /\ p.ix <= r /\ p.inst_val = "BAD"
    BY <1>0, <2>2, <2>3 DEF TextPending
  <2>4. CASE p.ix > r /\ cmem["text"] = "BAD" /\ AtC("exec")
    <3>1. c.at = "func" /\ CStep.kind = "exec" /\ c.ix <= Len(Program[test].child)
      BY <2>4 DEF AtC
    <3>2. K_deliver \/ K_step \/ K_futex_restart \/ C_exec \/ K_crash
      <4>1. ~C_success /\ ~C_exit
        BY <3>1, ChildShape, IndexTypes, SMT
      <4>2. \A kind : AtC(kind) => kind = "exec"
        BY <3>1 DEF AtC
      <4>3. ~(C_traceme \/ C_getaddr \/ C_set \/ C_check \/ C_sem_post \/ C_sem_block \/ C_sem_wait)
        BY <4>2 DEF C_traceme, C_getaddr, C_set, C_check, C_sem_post, C_sem_block, C_sem_wait
      <4>4. ~(C_fork \/ C_raise \/ C_getpid \/ C_sleep)
        BY <4>2 DEF C_fork, C_raise, C_getpid, C_sleep
      <4> QED BY <4>1, <4>3, <4>4 DEF Child
    <3>3. c' = c
      BY <2>4, <3>2 DEF K_deliver, K_step, K_futex_restart, C_exec, K_crash
    <3>4. cmem'["text"] = "BAD"
      <4>1. "text" \in PlanCells /\ ~AtC("set")
        BY <3>1 DEF PlanCells, AtC
      <4> QED BY <2>4, <4>1, ChildWrites
    <3>5. AtC("exec")'
      BY <1>0, <2>4, <3>3 DEF AtC, CStep
    <3> QED BY <1>0, <2>2, <2>4, <3>4, <3>5 DEF TextPending
  <2> QED BY <2>1, <2>3, <2>4, SMTT(30)
<1> QED BY <1>3, <1>4, <1>5 DEF Pending

\* The faults that are not looked at are pending from the step that has them.
LEMMA NewOfParent ==
    ASSUME TypeOK, VerdictLast, Early, BufInv, Judged(test), Parent
    PROVE  \/ failed' = failed \/ ParentGaveUp'
           \/ \E op \in Pending' \cup Unseen : failed' = failed \cup {op}
<1>0. test' = test /\ test \in Tests
  BY ParentParts, FuncShape, FrameShape DEF TypeOK
<1>1. \A kind : AtP(kind) => PStep.op \in Calls /\ p.ix \in PIndex
  BY ParentStepType DEF ParentSteps, PIndex
<1>2. CASE /\ AtP("poke") /\ PStep.cell = "buf" /\ Errs(PStep.op)
           /\ FuncSteps /\ p'.ix = p.ix + 1 /\ cmem' = cmem
  <2>0. PICK b \in PIndex, op \in Calls : b = p.ix /\ op = PStep.op
    BY <1>1, <1>2, SMTT(30)
  <2>1. PICK w \in CIndex : BufPlan(test, b, w)
    BY <2>0, <1>0, <1>1, <1>2, QuietAssumption, SMTT(30) DEF AtP, PStep, PIndex, CIndex
  <2>2. cmem'["buf"] # Program[test].parent[b].val
    <3>1. p.ix <= b
      BY <2>0, IndexTypes, SMT
    <3> QED BY <1>2, <2>1, <3>1 DEF BufInv
  <2>3. BufPending(op)'
    <3>1. /\ b \in PIndex' /\ w \in CIndex' /\ BufPlan(test, b, w)'
          /\ Program[test'].parent[b].op = op /\ p'.ix > b
          /\ cmem'["buf"] # Program[test'].parent[b].val
      BY <1>0, <1>2, <2>0, <2>1, <2>2, IndexTypes, SMT DEF PIndex, CIndex, PStep
    <3> QED BY <3>1, SMTT(30) DEF BufPending
  <2> QED BY <1>2, <2>0, <2>3 DEF Pending, Errs
<1>3. CASE /\ AtP("peektext") /\ Errs(PStep.op) /\ FuncSteps
           /\ p'.at = "func" /\ p'.ix = p.ix + 1 /\ p'.inst_val = "BAD"
  <2>0. PICK b \in PIndex, op \in Calls : b = p.ix /\ op = PStep.op
    BY <1>1, <1>3, SMTT(30)
  <2>1. PICK s \in PIndex, r \in PIndex : TextPlan(test, b, s, r)
    BY <2>0, <1>0, <1>1, <1>3, QuietAssumption, SMTT(30) DEF AtP, PStep, PIndex
  <2>2. TextPending(op)'
    <3>1. /\ b \in PIndex' /\ s \in PIndex' /\ r \in PIndex' /\ TextPlan(test, b, s, r)'
          /\ Program[test'].parent[b].op = op
      BY <1>0, <2>0, <2>1, SMTT(30) DEF PIndex, PStep
    <3>2. b < s /\ s < r
      BY <2>1 DEF TextPlan
    <3>3. b < p'.ix /\ p'.ix <= r
      BY <1>3, <2>0, <3>2, IndexTypes, SMT
    <3> QED BY <1>3, <3>1, <3>3 DEF TextPending
  <2> QED BY <1>3, <2>0, <2>2 DEF Pending, Errs
<1> QED BY <1>2, <1>3, ParentFails DEF Errs, Unseen, SemCalls

LEMMA NewOfChild ==
    ASSUME TypeOK, Early, Judged(test), Child \/ K_crash
    PROVE  \/ failed' = failed \/ ChildGaveUp'
           \/ \E op \in Pending' \cup Unseen : failed' = failed \cup {op}
<1>0. UNCHANGED <<test, p>> /\ test \in Tests
  BY ChildFrame DEF TypeOK
<1>1. \A kind : AtC(kind) => CStep.op \in Calls /\ c.ix \in CIndex
  BY ChildStepType DEF ChildSteps, CIndex
<1>2. CASE /\ AtC("getaddr") /\ CStep.fail = "next" /\ Errs(CStep.op)
           /\ c' = cNext /\ cmem'["addr"] = "-1"
  <2>0. PICK a \in CIndex, op \in Calls : a = c.ix /\ op = CStep.op
    BY <1>1, <1>2, SMTT(30)
  <2>1. PICK j \in PIndex : AddrPlan(test, a, j)
    BY <2>0, <1>0, <1>1, <1>2, QuietAssumption, SMTT(30) DEF AtC, CStep, PIndex, CIndex
  <2>2. AddrPending(op)'
    <3>1. /\ a \in CIndex' /\ j \in PIndex' /\ AddrPlan(test, a, j)'
          /\ Program[test'].child[a].op = op
      BY <1>0, <2>0, <2>1 DEF PIndex, CIndex, CStep
    <3>2. c'.ix > a
      BY <1>2, <2>0, ChildShape, IndexTypes, SMT
    <3> QED BY <1>2, <3>1, <3>2 DEF AddrPending
  <2> QED BY <1>2, <2>0, <2>2 DEF Pending, Errs
<1> QED BY <1>2, ChildFails DEF Errs, Unseen, SemCalls

LEMMA RecordedStep ==
    ASSUME TypeOK, VerdictLast, Early, BufInv, TextInv, Judged(test), Recorded, Parent \/ Child \/ K_crash
    PROVE  Recorded'
<1>1. CASE Parent
  <2>1. ChildGaveUp => c' = c
    <3>1. c' = c \/ (p.at = "fork" /\ RunFork)
      BY <1>1, ParentOnChild DEF RunFork
    <3> QED BY <3>1 DEF Early, ChildGaveUp
  <2>2. CASE ParentGaveUp \/ ChildGaveUp
    BY <1>1, <2>1, <2>2, ParentKeeps DEF Recorded, ChildGaveUp
  <2>3. CASE failed \subseteq Pending \cup Unseen
    BY <1>1, <2>3, PendingOfParent, NewOfParent DEF Recorded
  <2> QED BY <2>2, <2>3 DEF Recorded
<1>2. CASE Child \/ K_crash
  <2>1. UNCHANGED <<test, p, verdict>>
    BY <1>2, ChildFrame
  <2>2. CASE ParentGaveUp \/ ChildGaveUp
    BY <1>2, <2>1, <2>2, ChildKeeps DEF Recorded, ParentGaveUp
  <2>3. CASE failed \subseteq Pending \cup Unseen
    BY <1>2, <2>3, PendingOfChild, NewOfChild DEF Recorded
  <2> QED BY <2>2, <2>3 DEF Recorded
<1> QED BY <1>1, <1>2

LEMMA EndStep ==
    ASSUME VerdictInv, EndInv, Parent \/ Child \/ K_crash
    PROVE  EndInv'
<1>t. TypeOK /\ Fate /\ VerdictLast
  BY DEF VerdictInv
<1>1. CASE Parent
  <2>1. /\ verdict = "none"
        /\ verdict' = "ok" => RunWait \/ (P_success /\ Program[test].final = "none")
    BY <1>1, <1>t, ParentVerdict
  <2>2. test' = test
    BY <1>1, <1>t, ParentParts DEF FuncSteps, Others, Requests, Frames, RunMmap, RunFork, RunUnmap, RunWait, P_sem_wait,
       P_sem_post, P_buf, P_kill, P_attach, P_wait, P_peek, P_poke, P_peekaddr,
       P_peektext, P_load, P_restore, P_refused, P_stopsig, P_resume, P_gkill,
       P_success, P_cont
  <2> QED BY <1>t, <2>1, <2>2, JudgeSound DEF EndInv, Judged
<1>2. CASE Child \/ K_crash
  BY <1>2, ChildFrame DEF EndInv
<1> QED BY <1>1, <1>2

LEMMA FaultInit == Init => FaultInv
<1> SUFFICES ASSUME Init PROVE FaultInv
  OBVIOUS
<1>1. TypeOK /\ test \in Tests
  BY TypeInit, SMTT(30) DEF TypeOK
<1>2. p.ix = 1 /\ c.ix = 1 /\ p.at = Program[test].start /\ c.at = "unborn" /\ p.ret = -1 /\ c.ret = -1
  BY SMTT(30) DEF Init
<1>3. /\ k.st = "unborn" /\ ~k.traced /\ k.why = "none" /\ k.mode = "CONT"
      /\ sem.pwait = 0 /\ sem.cwait = 0 /\ failed = {} /\ verdict = "none"
      /\ cmem["addr"] # "INST" /\ p.read_val # "INST" /\ cmem["buf"] = "ZERO"
  BY SMTT(30) DEF Init, Cells
<1>4. Early /\ KillInv /\ EndInv /\ Recorded
  BY <1>1, <1>2, <1>3, ProgramAssumption, SMTT(30) DEF Early, KillInv, ChildGaveUp, EndInv, Recorded
<1>5. CrashInv
  BY <1>2, <1>3, IndexTypes, <1>1, SMT DEF CrashInv, ChildGaveUp, HasWaited, PIndex
<1>6. AddrInv
  BY <1>1, <1>2, <1>3, IndexTypes, SMT DEF AddrInv, PIndex, CIndex
<1>7. BufInv
  <2> SUFFICES ASSUME NEW b \in PIndex, NEW w \in CIndex, BufPlan(test, b, w)
               PROVE  cmem["buf"] # Program[test].parent[b].val /\ ~(c.ix > w)
    BY DEF BufInv
  <2>1. Program[test].parent[b].val # "ZERO"
    BY DEF BufPlan
  <2> QED BY <1>1, <1>2, <1>3, <2>1, IndexTypes, SMT
<1>8. StatusInv
  BY <1>2, SMTT(30) DEF StatusInv
<1>9. TextInv
  BY <1>1, <1>2, <1>3, IndexTypes, SMT DEF TextInv, TextPlan, PIndex
<1>10. SemInv
  BY <1>1, <1>2, <1>3, IndexTypes, SMT DEF SemInv, PIndex, CIndex
<1> QED BY <1>4, <1>5, <1>6, <1>7, <1>8, <1>9, <1>10, HeldInit, VerdictInit DEF FaultInv

LEMMA FaultStep == FaultInv /\ [Next]_vars => FaultInv'
<1> SUFFICES ASSUME FaultInv, [Next]_vars PROVE FaultInv'
  OBVIOUS
<1>1. /\ TypeOK /\ VerdictLast /\ HeldInv /\ VerdictInv /\ Early /\ KillInv /\ CrashInv /\ EndInv
      /\ AddrInv /\ BufInv /\ StatusInv /\ TextInv /\ SemInv /\ (Judged(test) => Recorded)
  BY DEF FaultInv, VerdictInv
<1>2. HeldInv' /\ VerdictInv' /\ Early'
  BY <1>1, HeldStep, VerdictStep, EarlyStep
<1>3. CASE Parent
  <2>1. test' = test
    BY <1>1, <1>3, ParentParts, FuncShape, FrameShape
  <2>2. KillInv' /\ CrashInv' /\ EndInv' /\ AddrInv' /\ BufInv' /\ StatusInv' /\ TextInv'
    BY <1>1, <1>3, KillOfParent, CrashOfParent, EndStep, AddrOfParent, BufOfParent, StatusOfParent, TextOfParent
  <2>3. Judged(test) => Recorded'
    BY <1>1, <1>3, RecordedStep
  <2>4. Judged(test') <=> Judged(test)
    BY <2>1
  <2>5. SemInv'
    BY <1>1, <1>3, SemOfParent
  <2> QED BY <1>2, <2>2, <2>3, <2>4, <2>5 DEF FaultInv
<1>4. CASE Child \/ K_crash
  <2>1. test' = test
    BY <1>4, ChildFrame
  <2>2. KillInv' /\ CrashInv' /\ EndInv' /\ AddrInv' /\ BufInv' /\ StatusInv' /\ TextInv'
    BY <1>1, <1>4, KillOfChild, CrashOfChild, EndStep, AddrOfChild, BufOfChild, StatusOfChild, TextOfChild
  <2>3. Judged(test) => Recorded'
    BY <1>1, <1>4, RecordedStep
  <2>4. Judged(test') <=> Judged(test)
    BY <2>1
  <2>5. SemInv'
    BY <1>1, <1>4, SemOfChild
  <2> QED BY <1>2, <2>2, <2>3, <2>4, <2>5 DEF FaultInv
<1>5. CASE G_stop \/ Finished \/ UNCHANGED vars
  <2>1. UNCHANGED <<test, p, c, k, sem, cmem, failed, verdict>>
    BY <1>5, SMTT(30) DEF G_stop, Finished, vars
  <2>2. KillInv' /\ CrashInv' /\ EndInv'
    BY <1>1, <2>1 DEF KillInv, CrashInv, EndInv, ChildGaveUp, Judged, Detaches, HasWaited, PIndex
  <2>3. PIndex' = PIndex /\ CIndex' = CIndex /\ (AtC("exec"))' = AtC("exec")
    BY <2>1, SMTT(30) DEF PIndex, CIndex, AtC, CStep
  <2>4. AddrInv' /\ BufInv' /\ StatusInv' /\ TextInv'
    BY <1>1, <2>1, <2>3, ZenonT(30) DEF AddrInv, BufInv, StatusInv, TextInv
  <2>7. SemInv'
    BY <1>1, <2>1, <2>3, ZenonT(30) DEF SemInv
  <2>5. Recorded => Recorded'
    <3>1. ParentGaveUp' = ParentGaveUp /\ ChildGaveUp' = ChildGaveUp
      BY <2>1 DEF ParentGaveUp, ChildGaveUp
    <3>2. ASSUME NEW op
          PROVE  /\ AddrPending(op) => AddrPending(op)'
                 /\ BufPending(op) => BufPending(op)'
                 /\ TextPending(op) => TextPending(op)'
      <4>1. AddrPending(op) => AddrPending(op)'
        BY <2>1, <2>3, SMTT(30) DEF AddrPending
      <4>2. BufPending(op) => BufPending(op)'
        BY <2>1, <2>3 DEF BufPending
      <4>3. TextPending(op) => TextPending(op)'
        BY <2>1, <2>3 DEF TextPending
      <4> QED BY <4>1, <4>2, <4>3
    <3>3. Pending \subseteq Pending'
      BY <3>2 DEF Pending
    <3> QED BY <2>1, <3>1, <3>3 DEF Recorded
  <2>6. Judged(test') <=> Judged(test)
    BY <2>1, SMTT(30)
  <2> QED BY <1>1, <1>2, <2>2, <2>4, <2>5, <2>6, <2>7 DEF FaultInv
<1> QED BY <1>3, <1>4, <1>5 DEF Next

\* Behind "ok" the parent has passed all its statements, and so has the child but for
\* the ones that call nothing a test point asks about.
LEMMA OkMeansDone ==
    ASSUME FaultInv, verdict = "ok", Judged(test)
    PROVE  /\ TypeOK /\ test \in Tests /\ p.ret = 0 /\ HasWaited
           /\ Program[test].final = "exit" => (k.why = "EXIT0" /\ c.ret = 0) \/ k.why = "CRASH"
           /\ Program[test].final = "killed" => k.why = "KILL"
           /\ Program[test].final \in {"exit", "killed"}
           /\ p.ix > Len(Program[test].parent)
           /\ \/ c.ix > Len(Program[test].child)
              \/ \A n \in CIndex : Program[test].child[n].kind \in {"traceme", "sem_post", "sem_wait"}
<1>1. /\ TypeOK /\ test \in Tests /\ p.ret = 0 /\ k.st = "gone"
      /\ Program[test].final = "exit" => (k.why = "EXIT0" /\ c.ret = 0) \/ k.why = "CRASH"
      /\ Program[test].final = "killed" => k.why = "KILL"
      /\ Program[test].final \in {"exit", "killed"}
  BY ProgramAssumption DEF FaultInv, EndInv, VerdictInv, TypeOK, Judged
<1>2. p.ix > Len(Program[test].parent) /\ (c.ret = 0 => c.ix > Len(Program[test].child))
  BY <1>1 DEF FaultInv, Early
<1>3. HasWaited
  <2>1. PICK i \in PIndex : Program[test].parent[i].kind \in {"wait", "waitpid"}
    BY <1>1, QuietAssumption, SMTT(30) DEF PIndex
  <2> QED BY <1>1, <1>2, <2>1, IndexTypes, SMTT(30) DEF HasWaited, PIndex
<1>4. \/ c.ix > Len(Program[test].child)
      \/ \A n \in CIndex : Program[test].child[n].kind \in {"traceme", "sem_post", "sem_wait"}
  <2>1. CASE k.why = "CRASH"
    <3>1. Detaches
      BY <1>3, <2>1, SMTT(30) DEF FaultInv, CrashInv
    <3> QED BY <1>1, <3>1, QuietAssumption DEF Detaches, PIndex, CIndex
  <2>2. CASE Program[test].final = "killed"
    BY <1>1, <2>2, ErrorAssumption DEF CIndex
  <2> QED BY <1>1, <1>2, <2>1, <2>2, SMTT(30)
<1> QED BY <1>1, <1>2, <1>3, <1>4, SMTT(30)

LEMMA FaultsHold == FaultInv => FaultsReported
<1> SUFFICES ASSUME FaultInv, verdict = "ok", Judged(test)
             PROVE  /\ failed \subseteq {"crash"} \cup SemCalls
                    /\ "csem_post" \in failed => "sem_wait" \in failed
                    /\ "sem_post" \in failed => \/ "csem_wait" \in failed
                                               \/ "crash" \in failed
                                               \/ Program[test].final = "killed"
  BY DEF FaultsReported
<1>1. /\ TypeOK /\ test \in Tests /\ p.ret = 0 /\ HasWaited
      /\ Program[test].final = "exit" => (k.why = "EXIT0" /\ c.ret = 0) \/ k.why = "CRASH"
      /\ Program[test].final = "killed" => k.why = "KILL"
      /\ Program[test].final \in {"exit", "killed"}
  BY OkMeansDone
<1>2. p.ix > Len(Program[test].parent)
  BY OkMeansDone
<1>4. \/ c.ix > Len(Program[test].child)
      \/ \A n \in CIndex : Program[test].child[n].kind \in {"traceme", "sem_post", "sem_wait"}
  BY OkMeansDone
<1>5. ~ParentGaveUp /\ ~ChildGaveUp
  <2>1. ~ParentGaveUp
    BY <1>1, SMT DEF ParentGaveUp
  <2>2. CASE k.why = "CRASH"
    <3>1. Detaches
      BY <1>1, <2>2 DEF FaultInv, CrashInv
    <3> QED BY <2>1, <2>2, <3>1 DEF FaultInv, CrashInv
  <2>3. CASE k.why # "CRASH"
    BY <1>1, <2>1, <2>3, SMTT(30) DEF FaultInv, KillInv, ChildGaveUp
  <2> QED BY <2>2, <2>3
<1>6. ASSUME NEW op PROVE ~AddrPending(op)
  <2> SUFFICES ASSUME NEW a \in CIndex, NEW j \in PIndex, AddrPlan(test, a, j), cmem["addr"] = "-1"
               PROVE  FALSE
    BY DEF AddrPending
  <2>1. p.ix > j
    BY <1>1, <1>2, IndexTypes, SMT DEF PIndex
  <2> QED BY <2>1 DEF FaultInv, AddrInv
<1>7. ASSUME NEW op PROVE ~BufPending(op)
  <2> SUFFICES ASSUME NEW b \in PIndex, NEW w \in CIndex, BufPlan(test, b, w),
                      cmem["buf"] # Program[test].parent[b].val
               PROVE  FALSE
    BY SMTT(30) DEF BufPending
  <2>1. Program[test].child[w].kind = "check"
    BY SMTT(30) DEF BufPlan
  <2>2. c.ix > w
    BY <1>1, <1>4, <2>1, IndexTypes, SMTT(30) DEF CIndex
  <2> QED BY <2>2 DEF FaultInv, BufInv
<1>8. ASSUME NEW op PROVE ~TextPending(op)
  <2>1. \A r \in PIndex : ~(p.ix <= r)
    BY <1>1, <1>2, IndexTypes, SMT DEF PIndex
  <2>2. ~AtC("exec")
    BY <1>1, <1>4, StepsAtIndex, IndexTypes, SMT DEF CIndex
  <2> QED BY <2>1, <2>2 DEF TextPending
<1>9. failed \subseteq {"crash"} \cup SemCalls
  BY <1>5, <1>6, <1>7, <1>8 DEF FaultInv, Recorded, Pending, Unseen
<1>10. PICK q \in CIndex, v \in CIndex, w \in PIndex, r \in PIndex : SemPlan(test, q, w, r, v)
  BY <1>1, SemAssumption DEF CIndex, PIndex
<1>11. "csem_post" \in failed => "sem_wait" \in failed
  <2>1. p.ix > w
    BY <1>1, <1>2, IndexTypes, SMT DEF PIndex
  <2> QED BY <1>10, <2>1 DEF FaultInv, SemInv
<1>12. ASSUME "sem_post" \in failed, "crash" \notin failed, Program[test].final # "killed"
       PROVE  "csem_wait" \in failed
  <2>1. k.why # "CRASH"
    BY <1>1, <1>12, SMT DEF FaultInv, VerdictInv, Fate, EndInv
  <2>2. c.ix > Len(Program[test].child)
    BY <1>1, <1>12, <2>1 DEF FaultInv, Early
  <2>3. c.ix > v
    BY <1>1, <2>2, IndexTypes, SMT DEF CIndex
  <2> QED BY <1>10, <1>12, <2>3 DEF FaultInv, SemInv
<1> QED BY <1>9, <1>11, <1>12

\* A test point that is judged and in which a call has failed does not pass, whatever
\* the table of test points, the calls that fail and the interleaving: the failure ends
\* parent_func or child_func at an error label that RUN_FUNC reports, or leaves a value
\* behind that keeps the parent or the child from its end.  Only a crash of the child
\* that the parent does not wait for can go by, and what the semaphore calls return; a
\* post that was lost still shows, unless the sem_wait on it failed as well.
THEOREM FaultsAreReported == Spec => []FaultsReported
  BY FaultInit, FaultStep, FaultsHold, PTL DEF Spec

--------------------------------------------------------------------------
\* A step that needs a missing helper and has been passed has left the helper's
\* failure on record, and only helpers that the test point has a step for fail.
PMissing(i) == Missing(test, Program[test].parent[i])
CMissing(i) == Missing(test, Program[test].child[i])
Helper(op) ==
    \/ \E i \in PIndex : Program[test].parent[i].kind \in HelperKinds /\ Program[test].parent[i].op = op
    \/ \E i \in CIndex : Program[test].child[i].kind \in HelperKinds /\ Program[test].child[i].op = op
StubInv ==
    /\ \A i \in PIndex : i < p.ix /\ PMissing(i) => Program[test].parent[i].op \in failed
    /\ \A i \in CIndex : i < c.ix /\ CMissing(i) => Program[test].child[i].op \in failed
    /\ \A op \in failed : op \in SysCalls \/ Helper(op)

\* What the parent adds to failed.
LEMMA ParentErrs ==
    ASSUME Parent
    PROVE  \/ failed' = failed
           \/ \E op \in SysCalls : failed' = failed \cup {op}
           \/ \E kind \in HelperKinds : AtP(kind) /\ failed' = failed \cup {PStep.op}
<1>1. CASE RunMmap \/ RunFork \/ RunUnmap \/ RunWait
  <2>1. failed' = failed \/ Errs("mmap") \/ Errs("sem_init") \/ Errs("fork") \/ Errs("munmap") \/ Errs("wait")
    BY <1>1 DEF RunMmap, RunFork, RunUnmap, RunWait, Passes
  <2> QED BY <2>1 DEF Errs, SysCalls
<1>2. CASE P_sem_wait \/ P_sem_post \/ P_buf \/ P_gkill \/ P_success
  <2>1. failed' = failed \/ Errs("sem_wait") \/ Errs("sem_post") \/ Errs("gkill")
    BY <1>2 DEF P_sem_wait, P_sem_post, P_buf, P_gkill, P_success, Passes
  <2> QED BY <2>1 DEF Errs, SysCalls, SemCalls
<1>3. CASE P_cont \/ P_kill \/ P_attach \/ P_wait
  <2>1. CONT.op = "CONT"
    BY DEF CONT
  <2>2. failed' = failed \/ Errs(CONT.op) \/ Errs("kill") \/ Errs("ATTACH") \/ Errs("wait")
    BY <1>3 DEF P_cont, P_kill, P_attach, P_wait, Accepted, Rejected, Passes
  <2> QED BY <2>1, <2>2 DEF Errs, SysCalls
<1>4. CASE P_peek \/ P_poke \/ P_peekaddr \/ P_peektext \/ P_load \/ P_restore \/ P_refused \/ P_resume \/ P_stopsig
  <2>1. failed' = failed \/ Errs(PStep.op)
    BY <1>4 DEF P_peek, P_poke, P_peekaddr, P_peektext, P_load, P_restore, P_refused, P_resume, P_stopsig,
       Accepted, Rejected, Passes
  <2>2. failed' = failed \/ \E kind \in HelperKinds : AtP(kind)
    BY <1>4 DEF P_peek, P_poke, P_peekaddr, P_peektext, P_load, P_restore, P_refused, P_resume, P_stopsig,
       Passes, HelperKinds
  <2> QED BY <2>1, <2>2 DEF Errs
<1> QED BY <1>1, <1>2, <1>3, <1>4 DEF Parent

\* ... and what the child and the kernel do.
LEMMA ChildErrs ==
    ASSUME Child \/ K_crash
    PROVE  \/ failed' = failed
           \/ \E op \in SysCalls : failed' = failed \cup {op}
           \/ \E kind \in HelperKinds : AtC(kind) /\ failed' = failed \cup {CStep.op}
           \/ AtC("getaddr") /\ failed' = failed \cup {CStep.op, "csem_post"}
<1>1. CASE \/ K_deliver \/ K_step \/ K_futex_restart \/ C_set \/ C_sem_post \/ C_sem_block \/ C_sem_wait
           \/ C_raise \/ C_getpid \/ C_sleep \/ C_success
  <2>1. failed' = failed \/ Errs("csem_post") \/ Errs("csem_wait") \/ Errs("raise")
    BY <1>1 DEF K_deliver, K_step, K_futex_restart, C_set, C_sem_post, C_sem_block, C_sem_wait,
       C_raise, C_getpid, C_sleep, C_success, Passes
  <2> QED BY <2>1 DEF Errs, SysCalls, SemCalls
<1>2. CASE C_traceme \/ C_fork \/ C_exit \/ K_crash
  <2>1. failed' = failed \/ Errs("TRACEME") \/ Errs("gfork") \/ Errs("munmap") \/ Errs("crash")
    BY <1>2 DEF C_traceme, C_fork, C_exit, K_crash, Passes
  <2> QED BY <2>1 DEF Errs, SysCalls
<1>3. CASE C_getaddr \/ C_check \/ C_exec
  <2>1. \/ failed' = failed \/ Errs(CStep.op)
        \/ AtC("getaddr") /\ failed' = failed \cup {CStep.op, "csem_post"}
    BY <1>3 DEF C_getaddr, C_check, C_exec, Passes
  <2>2. \E kind \in HelperKinds : AtC(kind)
    BY <1>3 DEF C_getaddr, C_check, C_exec, HelperKinds
  <2> QED BY <2>1, <2>2 DEF Errs
<1> QED BY <1>1, <1>2, <1>3 DEF Child

\* A missing helper is not passed without its failure.
LEMMA ParentMeets ==
    ASSUME FuncSteps, PStep.kind \in HelperKinds, <<test, PStep.op>> \in Stub
    PROVE  PStep.op \in failed'
<1>1. ~Accepted(PStep)
  BY DEF Accepted, CanPass
<1>2. \/ P_peek \/ P_poke \/ P_peekaddr \/ P_peektext \/ P_load \/ P_restore \/ P_refused \/ P_resume
      \/ P_stopsig /\ ~AtP("stopsig")
  BY DEF FuncSteps, Others, Requests, P_sem_wait, P_sem_post, P_buf, P_kill, P_attach, P_wait, P_gkill,
     AtP, HelperKinds
<1>3. Errs(PStep.op)
  BY <1>1, <1>2 DEF P_peek, P_poke, P_peekaddr, P_peektext, P_load, P_restore, P_refused, P_resume,
     P_stopsig, Rejected
<1> QED BY <1>3 DEF Errs

LEMMA ChildMeets ==
    ASSUME TypeOK, Child, c.at = "func", c' = cNext, c' # c,
           CStep.kind \in HelperKinds, <<test, CStep.op>> \in Stub
    PROVE  CStep.op \in failed'
<1>1. ~CanPass(CStep.op)
  BY DEF CanPass
<1>2. C_getaddr \/ C_check \/ C_exec
  <2>1. ~(K_deliver \/ K_step \/ K_futex_restart \/ C_sem_block \/ C_exit)
    BY DEF K_deliver, K_step, K_futex_restart, C_sem_block, C_exit
  <2>2. /\ ~AtC("traceme") /\ ~AtC("set") /\ ~AtC("sem_post") /\ ~AtC("sem_wait") /\ ~AtC("fork")
        /\ ~AtC("raise") /\ ~AtC("getpid") /\ ~AtC("sleep")
    BY DEF AtC, HelperKinds
  <2>3. ~C_success
    <3>1. C_success => c'.at = "out"
      BY DEF C_success, TypeOK, CState
    <3>2. cNext.at = "func"
      BY DEF cNext, TypeOK, CState
    <3> QED BY <3>1, <3>2
  <2> QED BY <2>1, <2>2, <2>3 DEF Child, C_traceme, C_set, C_sem_post, C_sem_wait, C_fork, C_raise, C_getpid, C_sleep
<1>3. Errs(CStep.op) \/ failed' = failed \cup {CStep.op, "csem_post"}
  BY <1>1, <1>2 DEF C_getaddr, C_check, C_exec
<1> QED BY <1>3 DEF Errs

LEMMA StubStep == FaultInv /\ StubInv /\ [Next]_vars => StubInv'
<1> SUFFICES ASSUME FaultInv, StubInv, [Next]_vars PROVE StubInv'
  OBVIOUS
<1>t. TypeOK /\ Early
  BY DEF FaultInv, VerdictInv
<1>k. /\ \A kind : AtP(kind) => p.ix \in PIndex /\ PStep.kind = kind
      /\ \A kind : AtC(kind) => c.ix \in CIndex /\ CStep.kind = kind
  BY <1>t, StepsAtIndex DEF AtP, AtC
<1>1. test' = test
  <2>1. CASE Parent
    BY <1>t, <2>1, ParentParts, FuncShape, FrameShape
  <2>2. CASE Child \/ K_crash
    BY <2>2, ChildFrame
  <2>3. CASE G_stop \/ Finished \/ UNCHANGED vars
    BY <2>3 DEF G_stop, Finished, vars
  <2> QED BY <2>1, <2>2, <2>3 DEF Next
<1>2. /\ PIndex' = PIndex /\ CIndex' = CIndex
      /\ \A i : (PMissing(i)' <=> PMissing(i)) /\ (CMissing(i)' <=> CMissing(i))
      /\ \A op : Helper(op)' <=> Helper(op)
  BY <1>1 DEF PIndex, CIndex, PMissing, CMissing, Helper
<1>3. /\ failed \subseteq failed'
      /\ \A op \in failed' : op \in failed \/ op \in SysCalls \/ Helper(op)
  <2>1. CASE Parent
    BY <1>k, <2>1, ParentErrs, SMTT(30) DEF Helper, PStep
  <2>2. CASE Child \/ K_crash
    BY <1>k, <2>2, ChildErrs DEF Helper, CStep, HelperKinds, SysCalls, SemCalls
  <2>3. CASE G_stop \/ Finished \/ UNCHANGED vars
    BY <2>3 DEF G_stop, Finished, vars
  <2> QED BY <2>1, <2>2, <2>3, SMTT(30) DEF Next
<1>4. ASSUME NEW i \in PIndex, i < p'.ix, PMissing(i) PROVE Program[test].parent[i].op \in failed'
  <2>1. CASE i < p.ix
    BY <1>3, <1>4, <2>1 DEF StubInv
  <2>2. CASE ~(i < p.ix)
    <3>1. p'.ix # p.ix
      BY <1>4, <2>2
    <3>2. FuncSteps /\ p'.ix = p.ix + 1
      <4>1. Parent
        BY <3>1, ChildFrame DEF Next, G_stop, Finished, vars
      <4>2. ~Frames
        BY <1>t, <3>1, FrameShape
      <4> QED BY <1>t, <3>1, <4>1, <4>2, ParentParts, FuncShape
    <3>3. i = p.ix
      BY <1>t, <1>4, <2>2, <3>2, IndexTypes, SMT
    <3> QED BY <1>4, <3>2, <3>3, ParentMeets DEF PMissing, Missing, PStep
  <2> QED BY <2>1, <2>2
<1>5. ASSUME NEW i \in CIndex, i < c'.ix, CMissing(i) PROVE Program[test].child[i].op \in failed'
  <2>1. CASE i < c.ix
    BY <1>3, <1>5, <2>1, SMTT(30) DEF StubInv
  <2>2. CASE ~(i < c.ix)
    <3>1. c'.ix # c.ix
      BY <1>5, <2>2
    <3>2. Child /\ c.at = "func" /\ c' = cNext /\ c' # c /\ c'.ix = c.ix + 1
      <4>1. ~Parent /\ ~K_crash
        <5>1. CASE Parent
          BY <1>t, <3>1, <5>1, ParentOnChild DEF RunFork, TypeOK, CState
        <5>2. CASE K_crash
          BY <3>1, <5>2 DEF K_crash
        <5> QED BY <5>1, <5>2
      <4>2. Child
        BY <3>1, <4>1 DEF Next, G_stop, Finished, vars
      <4> QED BY <1>t, <3>1, <4>2, ChildShape
    <3>3. i = c.ix
      BY <1>t, <1>5, <2>2, <3>2, IndexTypes, SMT
    <3> QED BY <1>t, <1>5, <3>2, <3>3, ChildMeets DEF CMissing, Missing, CStep
  <2> QED BY <2>1, <2>2
<1>6. \A op \in failed' : op \in SysCalls \/ Helper(op)
  BY <1>3 DEF StubInv
<1> QED BY <1>1, <1>2, <1>4, <1>5, <1>6 DEF StubInv

\* A judged test point with a step for a helper that its architecture has only a stub of
\* does not pass, and one without such a step never meets a stub: whatever the table, the
\* stubs and the other calls that fail, a skip list made from the steps misses nothing
\* and skips nothing else.
THEOREM StubsAreReported == Spec => []StubsReported
<1>1. Init => StubInv
  BY TypeInit, IndexTypes, SMT DEF Init, StubInv
<1>2. FaultInv /\ StubInv => StubsReported
  <2> SUFFICES ASSUME FaultInv, StubInv PROVE StubsReported
    OBVIOUS
  <2>t. TypeOK /\ test \in Tests
    BY DEF FaultInv, VerdictInv, TypeOK
  <2>1. ASSUME Judged(test), NeedsStub(test), verdict = "ok" PROVE FALSE
    <3>1. PICK op : op \in failed /\ <<test, op>> \in Stub
      <4>1. ASSUME NEW i \in PIndex, PMissing(i)
            PROVE  Program[test].parent[i].op \in failed /\ <<test, Program[test].parent[i].op>> \in Stub
        <5>1. i < p.ix
          BY <2>t, <2>1, <4>1, OkMeansDone, IndexTypes, SMTT(30) DEF PIndex
        <5> QED BY <4>1, <5>1 DEF StubInv, PMissing, Missing
      <4>2. ASSUME NEW i \in CIndex, CMissing(i)
            PROVE  Program[test].child[i].op \in failed /\ <<test, Program[test].child[i].op>> \in Stub
        <5>1. Program[test].child[i].kind \in HelperKinds
          BY <4>2 DEF CMissing, Missing
        <5>2. Program[test].child[i].kind \notin {"traceme", "sem_post", "sem_wait"}
          BY <5>1 DEF HelperKinds
        <5>3. i < c.ix
          BY <2>t, <2>1, <4>2, <5>2, OkMeansDone, IndexTypes, SMT DEF CIndex
        <5> QED BY <4>2, <5>3 DEF StubInv, CMissing, Missing
      <4> QED BY <2>1, <4>1, <4>2 DEF NeedsStub, PMissing, CMissing, PIndex, CIndex
    <3>2. op = "crash" \/ op \in SemCalls
      BY <2>1, <3>1, FaultsHold DEF FaultsReported
    <3> QED BY <2>t, <3>1, <3>2, StubAssumption DEF SysCalls
  <2>2. ASSUME ~NeedsStub(test), NEW op \in failed, <<test, op>> \in Stub PROVE FALSE
    <3>1. op \notin SysCalls
      BY <2>t, <2>2, StubAssumption
    <3>2. Helper(op)
      BY <3>1 DEF StubInv
    <3> QED BY <2>2, <3>2 DEF Helper, NeedsStub, Missing, PIndex, CIndex
  <2> QED BY <2>1, <2>2 DEF StubsReported
<1> QED BY <1>1, <1>2, FaultInit, FaultStep, StubStep, PTL DEF Spec
====
