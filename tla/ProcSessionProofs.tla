-------------------------- MODULE ProcSessionProofs --------------------------
(***************************************************************************)
(* Proofs about the forking test points, for every number of children and  *)
(* CPUs, every set of failing calls and every defect of the kernel: who    *)
(* prints a RESULT.                                                        *)
(*                                                                         *)
(* A step does little to a process: it goes on with steps that its own     *)
(* test point leads to, it ends, or it is reaped.  That is shown once, and *)
(* the rest follows from which steps lead where (CodeAssumption).          *)
(***************************************************************************)
EXTENDS ProcSession, TLAPS

\* Zenon proves most steps; those that need arithmetic or records cite SMT.
USE Zenon

\* The processes are records with these fields.
Fields == {"st", "todo", "kind", "space", "hnd", "pend", "blk", "alarm", "pgid", "how", "cpu",
           "mask", "exec", "loc", "res"}
WellFormed(g) == DOMAIN g = Procs /\ \A q \in Procs : DOMAIN g[q] = Fields
Layout == WellFormed(pr) /\ DOMAIN printed = Procs

\* g and h differ in other fields only.
Alike(g, h) == \A q \in Procs : /\ h[q].st = g[q].st /\ h[q].how = g[q].how
                               /\ h[q].todo = g[q].todo /\ h[q].kind = g[q].kind
Others == Fields \ {"st", "how", "todo", "kind"}

\* What a step does to a process: nothing of interest here, it reaps it, it ends it,
\* or it leaves it with s to do.
Same(d) == /\ pr'[d].st = pr[d].st /\ pr'[d].how = pr[d].how
           /\ pr'[d].todo = pr[d].todo /\ pr'[d].kind = pr[d].kind
Reaped(d) == /\ pr[d].st = "zombie" /\ pr'[d].st = "gone" /\ pr'[d].how = pr[d].how
             /\ pr'[d].todo = pr[d].todo /\ pr'[d].kind = pr[d].kind
Killed(d) == pr[d].st = "run" /\ pr'[d].st = "zombie" /\ pr'[d].kind = pr[d].kind
Goes(q, s) == /\ pr'[q].st = pr[q].st /\ pr'[q].how = pr[q].how
              /\ pr'[q].todo = s /\ pr'[q].kind = pr[q].kind
Aside(q) == \A d \in Procs \ {q} : Same(d) \/ Reaped(d) \/ Killed(d)

\* The steps a process may be left with, and that status 0 is what gets it past a
\* look at the exit status.
Allowed(q, s) ==
    \/ s = pr[q].todo
    \/ /\ s \in After(test, pr[q].todo)
       /\ IsStatus(pr[q].todo) => s = Failing(pr[q].todo) \/ pr[1].how = "exit0"

\* A step of q other than a fork, a return or a call that fails
Ordinary(q) ==
    /\ Layout' /\ UNCHANGED <<test, failed, printed>> /\ Aside(q)
    /\ Killed(q) \/ \E s : Allowed(q, s) /\ Goes(q, s)

--------------------------------------------------------------------------
(* Where a step leads *)
LEMMA AfterPlain ==
    ASSUME NEW t, NEW s, Head(s).op \notin {"exit", "return", "execve", "pause", "setpgid_poll"}
    PROVE  Tail(s) \in After(t, s)
  BY DEF After

LEMMA AfterFailing ==
    ASSUME NEW t, NEW s,
           Head(s).op \in {"check", "wait", "waitany", "waitgrp", "nanosleep", "process_vm", "setpgid_poll"}
    PROVE  Failing(s) \in After(t, s)
  BY DEF After

LEMMA Failing_OnFail == \A q : OnFail(q) = Failing(pr[q].todo)
  BY DEF OnFail, Failing, Step

\* A step whose only effect on a process is on other fields
LEMMA GoesOn ==
    ASSUME Layout, NEW q \in Procs, Lives(q), UNCHANGED <<test, failed, printed>>,
           Layout', \A d \in Procs \ {q} : Same(d), NEW s, Goes(q, s), Allowed(q, s)
    PROVE  Ordinary(q)
  BY DEF Ordinary, Aside, Lives

\* A change of another field
LEMMA Field ==
    ASSUME NEW g, WellFormed(g), NEW d, NEW f \in Others, NEW v
    PROVE  WellFormed([g EXCEPT ![d][f] = v]) /\ Alike(g, [g EXCEPT ![d][f] = v])
  BY DEF WellFormed, Alike, Others, Fields

LEMMA FieldNames ==
    /\ "alarm" \in Others /\ "blk" \in Others /\ "loc" \in Others /\ "pgid" \in Others
    /\ "res" \in Others /\ "cpu" \in Others /\ "mask" \in Others /\ "pend" \in Others
    /\ "exec" \in Others /\ "hnd" \in Others
  BY DEF Others, Fields

LEMMA GoWellFormed ==
    ASSUME Layout, NEW q \in Procs
    PROVE  /\ WellFormed(Go(q))
           /\ \A d \in Procs : /\ Go(q)[d].st = pr[d].st /\ Go(q)[d].how = pr[d].how
                              /\ Go(q)[d].kind = pr[d].kind
                              /\ Go(q)[d].todo = IF d = q THEN Tail(pr[q].todo) ELSE pr[d].todo
  BY DEF Layout, WellFormed, Go, Fields

\* The next step, and with it changes of other fields
LEMMA GoShape ==
    ASSUME Layout, UNCHANGED printed, NEW q \in Procs, WellFormed(pr'), Alike(Go(q), pr')
    PROVE  Layout' /\ Goes(q, Tail(pr[q].todo)) /\ \A x \in Procs \ {q} : Same(x)
<1>1. Layout'
  BY DEF Layout, WellFormed
<1>2. /\ \A d \in Procs : /\ pr'[d].st = pr[d].st /\ pr'[d].how = pr[d].how
                         /\ pr'[d].kind = pr[d].kind
                         /\ pr'[d].todo = IF d = q THEN Tail(pr[q].todo) ELSE pr[d].todo
  BY GoWellFormed, SMT DEF Alike
<1> QED BY <1>1, <1>2 DEF Goes, Same

\* The process goes on elsewhere in its steps.
LEMMA JumpShape ==
    ASSUME Layout, UNCHANGED printed, NEW q \in Procs, NEW s, NEW v,
           \/ pr' = [pr EXCEPT ![q].todo = s]
           \/ pr' = [pr EXCEPT ![q].exec = v, ![q].todo = s]
           \/ pr' = [pr EXCEPT ![q].todo = s, ![q].res = v]
    PROVE  Layout' /\ Goes(q, s) /\ \A x \in Procs \ {q} : Same(x)
  BY DEF Layout, WellFormed, Same, Goes, Fields

\* The process and, with it, its threads end.
LEMMA EndShape ==
    ASSUME Layout, NEW q \in Procs, Lives(q), NEW how, pr' = Ends(q, how)
    PROVE  WellFormed(pr') /\ Killed(q) /\ pr'[q].how = how /\ Aside(q)
  BY DEF Layout, WellFormed, Ends, EndsWith, Lives, Killed, Same, Aside, Fields
\* The calls that go to the next step
Nexts(q) ==
    \/ sigaction(q) \/ kill(q) \/ spin(q) \/ sleep(q) \/ write(q) \/ read(q) \/ sem_post(q) \/ sem_wait(q)
    \/ setpgid(q) \/ sched_setaffinity(q) \/ sched_getaffinity(q) \/ getppid(q) \/ call(q) \/ alarm(q)
    \/ sigprocmask(q) \/ sched_yield(q) \/ getcpu(q) \/ tls(q) \/ assign(q) \/ record(q) \/ dropped(q)

LEMMA NextsShape ==
    ASSUME Layout, NEW q \in Procs, Nexts(q)
    PROVE  Ordinary(q)
<1>1. /\ Lives(q) /\ Head(pr[q].todo).op \notin {"exit", "return", "execve", "pause", "setpgid_poll", "check"}
      /\ UNCHANGED <<test, failed, printed>>
  BY DEF Nexts, sigaction, kill, spin, sleep, write, read, sem_post, sem_wait, setpgid, sched_setaffinity,
     sched_getaffinity, getppid, call, alarm, sigprocmask, sched_yield, getcpu, tls, assign, record, dropped,
     At, Runs, Step
<1>2. Allowed(q, Tail(pr[q].todo))
  BY <1>1, AfterPlain DEF Allowed, IsStatus
<1>g. WellFormed(Go(q)) /\ Alike(Go(q), Go(q))
  BY GoWellFormed DEF Alike
<1>3. WellFormed(pr') /\ Alike(Go(q), pr')
  <2>1. CASE pr' = Go(q)
    BY <1>g, <2>1
  <2>2. CASE sigaction(q)
    BY <1>g, <2>2 DEF sigaction, WellFormed, Alike, Fields
  <2>3. CASE kill(q)
    BY <1>g, <2>3 DEF kill, WellFormed, Alike, Fields
  <2>4. ASSUME NEW d, NEW f \in Others, NEW v, pr' = [Go(q) EXCEPT ![d][f] = v]
        PROVE  WellFormed(pr') /\ Alike(Go(q), pr')
    BY <1>g, <2>4, Field
  <2>5. CASE read(q)
    <3>1. PICK v : pr' = [Go(q) EXCEPT ![q]["loc"] = v]
      BY <2>5 DEF read
    <3> QED BY <3>1, <2>4, FieldNames
  <2>6. CASE setpgid(q)
    <3>1. pr' = Go(q) \/ \E d, v : pr' = [Go(q) EXCEPT ![d]["pgid"] = v]
      BY <2>6 DEF setpgid
    <3> QED BY <3>1, <2>1, <2>4, FieldNames
  <2>7. CASE sched_getaffinity(q)
    <3>1. PICK v : pr' = [Go(q) EXCEPT ![q]["res"] = v]
      BY <2>7 DEF sched_getaffinity
    <3> QED BY <3>1, <2>4, FieldNames
  <2>8. CASE getppid(q) \/ getcpu(q) \/ tls(q) \/ record(q)
    <3>1. PICK v : pr' = [Go(q) EXCEPT ![q]["loc"] = v]
      BY <2>8 DEF getppid, getcpu, tls, record
    <3> QED BY <3>1, <2>4, FieldNames
  <2>9. CASE alarm(q)
    <3>1. PICK v : pr' = [Go(q) EXCEPT ![q]["alarm"] = v]
      BY <2>9 DEF alarm
    <3> QED BY <3>1, <2>4, FieldNames
  <2>10. CASE sigprocmask(q)
    <3>1. PICK v : pr' = [Go(q) EXCEPT ![q]["blk"] = v]
      BY <2>10 DEF sigprocmask
    <3> QED BY <3>1, <2>4, FieldNames
  <2>11. CASE sched_setaffinity(q)
    <3>1. PICK d, v, w : pr' = [[Go(q) EXCEPT ![d]["cpu"] = v] EXCEPT ![d]["mask"] = w]
      BY <2>11 DEF sched_setaffinity
    <3>2. LET g == [Go(q) EXCEPT ![d]["cpu"] = v] IN WellFormed(g) /\ Alike(Go(q), g)
      BY <1>g, Field, FieldNames
    <3>3. WellFormed(pr') /\ Alike([Go(q) EXCEPT ![d]["cpu"] = v], pr')
      BY <3>1, <3>2, Field, FieldNames
    <3> QED BY <3>2, <3>3 DEF Alike
  <2> QED BY <2>1, <2>2, <2>3, <2>5, <2>6, <2>7, <2>8, <2>9, <2>10, <2>11
          DEF Nexts, spin, sleep, write, sem_post, sem_wait, call, sched_yield, assign, dropped
<1>4. Layout' /\ Goes(q, Tail(pr[q].todo)) /\ \A x \in Procs \ {q} : Same(x)
  BY <1>1, <1>3, GoShape
<1> QED BY <1>1, <1>2, <1>4, GoesOn

\* A reaped child
LEMMA ReapShape ==
    ASSUME Layout, NEW q \in Procs, Lives(q), NEW d, d \in Procs => Zombie(d), NEW s, UNCHANGED printed,
           \/ pr' = [pr EXCEPT ![q].todo = s, ![d].st = "gone"]
           \/ s = Tail(pr[q].todo) /\ pr' = [Go(q) EXCEPT ![d].st = "gone"]
    PROVE  Layout' /\ Goes(q, s) /\ Aside(q)
<1>1. d # q
  BY DEF Lives, Zombie
<1>2. CASE pr' = [pr EXCEPT ![q].todo = s, ![d].st = "gone"]
  BY <1>1, <1>2, SMT DEF Layout, WellFormed, Goes, Aside, Same, Reaped, Zombie, Fields
<1>3. CASE s = Tail(pr[q].todo) /\ pr' = [Go(q) EXCEPT ![d].st = "gone"]
  BY <1>1, <1>3 DEF Go, Layout, WellFormed, Goes, Aside, Same, Reaped, Zombie, Fields
<1> QED BY <1>2, <1>3

LEMMA WaitShape ==
    ASSUME Layout, NEW q \in Procs, wait(q)
    PROVE  Ordinary(q)
<1>1. Lives(q) /\ Head(pr[q].todo).op \in {"wait", "waitany", "waitgrp"} /\ UNCHANGED <<test, failed, printed>>
  BY DEF wait, At, Runs, Step
<1>2. Allowed(q, Tail(pr[q].todo)) /\ Allowed(q, OnFail(q))
  BY <1>1, AfterPlain, AfterFailing, Failing_OnFail, SMT DEF Allowed, IsStatus
<1>3. CASE \E d \in Waitable(q) : pr' = [Go(q) EXCEPT ![d].st = "gone"]
  <2>1. PICK d \in Waitable(q) : pr' = [Go(q) EXCEPT ![d].st = "gone"]
    BY <1>3
  <2>2. Zombie(d)
    BY <2>1 DEF Waitable
  <2>3. Layout' /\ Goes(q, Tail(pr[q].todo)) /\ Aside(q)
    BY <1>1, <2>1, <2>2, ReapShape
  <2> QED BY <1>1, <1>2, <2>3 DEF Ordinary
<1>4. CASE pr' = [pr EXCEPT ![q].todo = OnFail(q)]
  <2>1. Layout' /\ Goes(q, OnFail(q)) /\ \A x \in Procs \ {q} : Same(x)
    BY <1>1, <1>4, JumpShape
  <2> QED BY <1>1, <1>2, <2>1, GoesOn
<1>5. CASE pr' = Ends(q, "sig")
  BY <1>1, <1>5, EndShape DEF Ordinary, Layout
<1> QED BY <1>3, <1>4, <1>5 DEF wait

LEMMA JumpsShape ==
    ASSUME Layout, NEW q \in Procs,
           \/ setpgid_try(q) \/ process_vm(q) \/ check(q) \/ pause(q) \/ nanosleep(q) \/ execve(q)
    PROVE  Ordinary(q)
<1>1. Lives(q) /\ UNCHANGED <<test, failed, printed>>
  BY DEF setpgid_try, process_vm, check, pause, nanosleep, execve, At, Runs
<1>2. SUFFICES \E s : /\ Layout' /\ Goes(q, s) /\ \A x \in Procs \ {q} : Same(x)
                      /\ Allowed(q, s)
  BY <1>1, GoesOn
<1>j. \A s : pr' = [pr EXCEPT ![q].todo = s] =>
        Layout' /\ Goes(q, s) /\ \A x \in Procs \ {q} : Same(x)
  BY <1>1, JumpShape
<1>g. WellFormed(Go(q)) /\ Alike(Go(q), Go(q))
  BY GoWellFormed DEF Alike
<1>3. CASE setpgid_try(q)
  <2>1. Head(pr[q].todo).op = "setpgid_try"
    BY <1>3 DEF setpgid_try, At, Step
  <2>2. Allowed(q, Tail(pr[q].todo)) /\ Allowed(q, Tail(Tail(pr[q].todo)))
    BY <2>1 DEF Allowed, After, IsStatus
  <2>3. pr' = [pr EXCEPT ![q].todo = Tail(Tail(pr[q].todo))] \/ pr' = Go(q)
    BY <1>3 DEF setpgid_try, Layout, WellFormed, Fields
  <2> QED BY <1>1, <1>j, <1>g, <2>2, <2>3, GoShape
<1>4. CASE process_vm(q)
  <2>1. Head(pr[q].todo).op = "process_vm"
    BY <1>4 DEF process_vm, At, Step
  <2>2. Allowed(q, Tail(pr[q].todo)) /\ Allowed(q, OnFail(q))
    BY <2>1, AfterPlain, AfterFailing, Failing_OnFail, SMT DEF Allowed, IsStatus
  <2>3. pr' = [pr EXCEPT ![q].todo = OnFail(q)] \/ \E v : pr' = [Go(q) EXCEPT ![q]["loc"] = v]
    BY <1>4 DEF process_vm
  <2>4. ASSUME NEW v, pr' = [Go(q) EXCEPT ![q]["loc"] = v]
        PROVE  Layout' /\ Goes(q, Tail(pr[q].todo)) /\ \A x \in Procs \ {q} : Same(x)
    BY <1>1, <1>g, <2>4, Field, FieldNames, GoShape
  <2> QED BY <1>j, <2>2, <2>3, <2>4
<1>5. CASE check(q)
  <2>1. Head(pr[q].todo).op = "check"
    BY <1>5 DEF check, At, Step
  <2>2. Allowed(q, OnFail(q))
    BY <2>1, AfterFailing, Failing_OnFail, SMT DEF Allowed
  <2>3. Holds(q, Step(q).arg) => Allowed(q, Tail(pr[q].todo))
    <3>1. Holds(q, "status") => pr[1].how = "exit0"
      BY DEF Holds
    <3> QED BY <2>1, <3>1, AfterPlain DEF Allowed, IsStatus, Step
  <2>4. \/ Holds(q, Step(q).arg) /\ pr' = [pr EXCEPT ![q].todo = Tail(pr[q].todo)]
        \/ pr' = [pr EXCEPT ![q].todo = OnFail(q)]
    BY <1>5 DEF check, Layout, WellFormed, Fields
  <2> QED BY <1>j, <2>2, <2>3, <2>4
<1>6. CASE pause(q)
  <2>1. Head(pr[q].todo).op = "pause"
    BY <1>6 DEF pause, At, Step
  <2>2. Allowed(q, <<[Step(q) EXCEPT !.op = "paused"]>> \o Tail(pr[q].todo))
    BY <2>1 DEF Allowed, After, IsStatus, Step
  <2>3. pr' = [pr EXCEPT ![q].todo = <<[Step(q) EXCEPT !.op = "paused"]>> \o Tail(pr[q].todo)]
    BY <1>6 DEF pause, Layout, WellFormed, Fields
  <2> QED BY <1>j, <2>2, <2>3
<1>7. CASE nanosleep(q)
  <2>1. Head(pr[q].todo).op = "nanosleep" /\ pr' = [pr EXCEPT ![q].todo = OnFail(q)]
    BY <1>7 DEF nanosleep, At, Step
  <2>2. Allowed(q, OnFail(q))
    BY <2>1, AfterFailing, Failing_OnFail, SMT DEF Allowed, IsStatus
  <2> QED BY <1>j, <2>1, <2>2
<1>8. CASE execve(q)
  <2>1. Head(pr[q].todo).op = "execve" /\ pr' = [pr EXCEPT ![q].exec = 1, ![q].todo = Program[test].exec]
    BY <1>8 DEF execve, At, Step
  <2>2. Allowed(q, Program[test].exec)
    BY <2>1 DEF Allowed, After, IsStatus
  <2> QED BY <1>1, <2>1, <2>2, JumpShape
<1> QED BY <1>3, <1>4, <1>5, <1>6, <1>7, <1>8

LEMMA PollShape ==
    ASSUME Layout, NEW q \in Procs, setpgid_poll(q)
    PROVE  Ordinary(q)
<1>1. Lives(q) /\ Head(pr[q].todo).op = "setpgid_poll" /\ UNCHANGED <<test, failed, printed>>
  BY DEF setpgid_poll, At, Runs, Step
<1>2. /\ Allowed(q, OnFail(q))
      /\ Allowed(q, <<[Step(q) EXCEPT !.op = "setpgid_try"]>> \o pr[q].todo)
  BY <1>1, AfterFailing, Failing_OnFail DEF Allowed, After, IsStatus, Step
<1>3. \/ \E d : Zombie(d) /\ pr' = [pr EXCEPT ![q].todo = OnFail(q), ![d].st = "gone"]
      \/ pr' = [pr EXCEPT ![q].todo = <<[Step(q) EXCEPT !.op = "setpgid_try"]>> \o pr[q].todo]
  BY DEF setpgid_poll, Layout, WellFormed, Fields
<1>4. ASSUME NEW d, Zombie(d), pr' = [pr EXCEPT ![q].todo = OnFail(q), ![d].st = "gone"]
      PROVE  Ordinary(q)
  <2>1. Layout' /\ Goes(q, OnFail(q)) /\ Aside(q)
    BY <1>1, <1>4, ReapShape
  <2> QED BY <1>1, <1>2, <2>1 DEF Ordinary
<1>5. CASE pr' = [pr EXCEPT ![q].todo = <<[Step(q) EXCEPT !.op = "setpgid_try"]>> \o pr[q].todo]
  BY <1>1, <1>2, <1>5, JumpShape, GoesOn
<1> QED BY <1>3, <1>4, <1>5

\* A signal: the process goes on where it was, or past the call it slept in, or ends.
LEMMA SignalShape ==
    ASSUME Layout, NEW q \in Procs, Deliver(q) \/ Expires(q)
    PROVE  Ordinary(q)
<1>1. Lives(q) /\ UNCHANGED <<test, failed, printed>>
  BY DEF Deliver, Expires, Runs
<1>2. CASE Expires(q)
  <2>1. PICK d, v : pr' = [[pr EXCEPT ![q]["alarm"] = 0] EXCEPT ![d]["pend"] = v]
    BY <1>2 DEF Expires
  <2>2. LET g == [pr EXCEPT ![q]["alarm"] = 0] IN WellFormed(g) /\ Alike(pr, g)
    BY Field, FieldNames DEF Layout
  <2>3. WellFormed(pr') /\ Alike([pr EXCEPT ![q]["alarm"] = 0], pr')
    BY <2>1, <2>2, Field, FieldNames
  <2>4. Alike(pr, pr')
    BY <2>2, <2>3 DEF Alike
  <2>5. Layout' /\ Goes(q, pr[q].todo) /\ \A x \in Procs \ {q} : Same(x)
    BY <1>1, <2>3, <2>4 DEF Layout, Alike, Goes, Same
  <2> QED BY <1>1, <2>5, GoesOn DEF Allowed
<1>3. CASE Deliver(q)
  <2>1. \/ \E how : pr' = Ends(q, how)
        \/ \E s, h : pr' = [pr EXCEPT ![q].pend = @ \ {s}, ![q].hnd[s] = h, ![q].todo = Resumes(q)]
    <3>1. PICK s \in Due(q) :
             \/ pr' = Ends(q, "sig") \/ pr' = Ends(q, "exit0")
             \/ \E h : pr' = [pr EXCEPT ![q].pend = @ \ {s}, ![q].hnd[s] = h, ![q].todo = Resumes(q)]
      BY <1>3 DEF Deliver
    <3> QED BY <3>1
  <2>2. ASSUME NEW how, pr' = Ends(q, how) PROVE Ordinary(q)
    BY <1>1, <2>2, EndShape DEF Ordinary, Layout
  <2>3. ASSUME NEW s, NEW h, pr' = [pr EXCEPT ![q].pend = @ \ {s}, ![q].hnd[s] = h, ![q].todo = Resumes(q)]
        PROVE  Ordinary(q)
    <3>1. Layout' /\ Goes(q, Resumes(q)) /\ \A x \in Procs \ {q} : Same(x)
      BY <1>1, <2>3 DEF Layout, WellFormed, Goes, Same, Fields
    <3>2. Allowed(q, Resumes(q))
      <4>1. CASE Head(pr[q].todo).op = "waitany" /\ defect = "no_restart"
        BY <4>1, AfterFailing, Failing_OnFail, SMT DEF Allowed, IsStatus, Resumes, Step
      <4>2. CASE Head(pr[q].todo).op = "paused" \/ (Head(pr[q].todo).op = "nanosleep" /\ defect # "no_eintr")
        BY <4>2, AfterPlain DEF Allowed, IsStatus, Resumes, Step
      <4> QED BY <4>1, <4>2 DEF Allowed, Resumes, Step
    <3> QED BY <1>1, <3>1, <3>2, GoesOn
  <2> QED BY <2>1, <2>2, <2>3
<1> QED BY <1>2, <1>3

\* Every step of a process that is not a fork, a return or a failing call
LEMMA OrdinaryStep ==
    ASSUME Layout, NEW q \in Procs, Makes(q) \/ Deliver(q) \/ Expires(q)
    PROVE  Ordinary(q) \/ fork(q) \/ Return(q)
<1>1. CASE exit(q)
  BY <1>1, EndShape DEF exit, At, Runs, Ordinary, Layout
<1> QED BY <1>1, NextsShape, WaitShape, JumpsShape, PollShape, SignalShape DEF Makes, Nexts

LEMMA ReturnShape ==
    ASSUME Layout, NEW q \in Procs, Return(q)
    PROVE  /\ Layout' /\ UNCHANGED <<test, failed>> /\ Aside(q) /\ Killed(q)
           /\ Head(pr[q].todo).op = "return"
           /\ printed' = [printed EXCEPT ![q] = Head(pr[q].todo).arg]
           /\ pr'[q].how = IF Head(pr[q].todo).arg = "ok" THEN "exit0" ELSE "exit1"
  BY EndShape DEF Return, At, Runs, Step, Layout

LEMMA ForkShape ==
    ASSUME Layout, NEW q \in Procs, fork(q), NEW i \in Procs, i = Head(pr[q].todo).to, i # q
    PROVE  /\ Layout' /\ UNCHANGED <<test, failed, printed>> /\ Lives(q)
           /\ Head(pr[q].todo).op = "fork" /\ Goes(q, Tail(pr[q].todo))
           /\ pr'[i].st = pr[q].st /\ pr'[i].how = pr[q].how
           /\ pr'[i].todo = Program[test].child[i] /\ pr'[i].kind = Head(pr[q].todo).arg
           /\ \A d \in Procs \ {q, i} : Same(d)
<1>0. Step(q) = Head(pr[q].todo) /\ Step(q).to = i
  BY DEF Step
<1>1. PICK c : pr' = [Go(q) EXCEPT ![Step(q).to] =
         [pr[q] EXCEPT !.todo = Program[test].child[Step(q).to], !.kind = Step(q).arg, !.cpu = c,
                       !.space = IF \/ Step(q).arg = "thread"
                                    \/ Step(q).arg = "vfork" /\ defect # "vfork_is_fork"
                                 THEN q ELSE Step(q).to,
                       !.mask = IF defect = "mask_reset" THEN {c} ELSE @, !.loc = <<>>]]
  BY DEF fork
<1>2. Lives(q) /\ Head(pr[q].todo).op = "fork" /\ UNCHANGED <<test, failed, printed>>
  BY DEF fork, At, Runs, Step
<1>3. PICK r : /\ pr' = [Go(q) EXCEPT ![i] = r] /\ DOMAIN r = Fields
               /\ r.st = pr[q].st /\ r.how = pr[q].how
               /\ r.todo = Program[test].child[i] /\ r.kind = Step(q).arg
  <2> DEFINE r ==
         [pr[q] EXCEPT !.todo = Program[test].child[i], !.kind = Step(q).arg, !.cpu = c,
                       !.space = IF \/ Step(q).arg = "thread"
                                    \/ Step(q).arg = "vfork" /\ defect # "vfork_is_fork"
                                 THEN q ELSE i,
                       !.mask = IF defect = "mask_reset" THEN {c} ELSE @, !.loc = <<>>]
  <2>1. /\ DOMAIN r = Fields /\ r.st = pr[q].st /\ r.how = pr[q].how
        /\ r.todo = Program[test].child[i] /\ r.kind = Step(q).arg
    BY DEF Layout, WellFormed, Fields
  <2>2. pr' = [Go(q) EXCEPT ![i] = r]
    BY <1>0, <1>1
  <2> QED BY <2>1, <2>2
<1>4. WellFormed(pr')
  BY <1>3, GoWellFormed DEF WellFormed
<1>5. Layout'
  BY <1>2, <1>4 DEF Layout
<1>6. pr'[i] = r /\ \A d \in Procs \ {i} : pr'[d] = Go(q)[d]
  BY <1>3, GoWellFormed DEF WellFormed
<1>7. Goes(q, Tail(pr[q].todo)) /\ \A d \in Procs \ {q, i} : Same(d)
  BY <1>6, GoWellFormed, SMT DEF Goes, Same
<1> QED BY <1>0, <1>2, <1>3, <1>5, <1>6, <1>7

LEMMA FailShape ==
    ASSUME Layout, NEW q \in Procs, Fails(q)
    PROVE  /\ Layout' /\ UNCHANGED <<test, printed>> /\ Lives(q) /\ failed' # {}
           /\ Head(pr[q].todo).op \in Faulty
           /\ ~(Head(pr[q].todo).op = "execve" /\ pr[q].kind = "vfork")
           /\ Goes(q, Failing(pr[q].todo)) /\ \A d \in Procs \ {q} : Same(d)
<1>1. /\ UNCHANGED <<test, printed>> /\ Lives(q) /\ failed' # {}
      /\ Head(pr[q].todo).op \in Faulty
      /\ ~(Head(pr[q].todo).op = "execve" /\ pr[q].kind = "vfork")
  BY DEF Fails, Runs, Step
<1>2. PICK v : pr' = [pr EXCEPT ![q].todo = Failing(pr[q].todo), ![q].res = v]
  BY Failing_OnFail DEF Fails
<1> QED BY <1>1, <1>2, JumpShape

--------------------------------------------------------------------------
(* The invariant *)
Ended(q) == pr[q].st \in {"zombie", "gone"}

\* A live process has the steps of its role to make, a process that has not ended has
\* no exit status, and only a child that is a test point of its own prints.
RolesInv ==
    /\ Layout /\ test \in Tests
    /\ \A q \in Procs : /\ pr[q].st \in {"unborn", "run", "zombie", "gone"}
                        /\ ~Ended(q) => pr[q].how = "none"
    /\ Lives(0) => pr[0].todo \in ParentCode[test]
    /\ \A d \in Children :
         /\ Lives(d) => /\ pr[d].todo \in ChildCode[test]
                        /\ test \in VforkOnly => pr[d].kind = "vfork"
         /\ printed[d] # "none" => test \in OwnTest

\* The parent of a child that is a test point of its own: it has not forked; it has not
\* found the status 0; or the child has ended with status 0, which is what it takes to
\* return NULL.
OnlyFirst == \A d \in Children : Born(d) => d = 1
Succeeded == pr[1].how = "exit0"
StagesInv ==
    \/ Lives(0) /\ pr[0].todo \in Unforked[test] /\ \A d \in Children : ~Born(d)
    \/ Lives(0) /\ pr[0].todo \in Unjudged[test] /\ OnlyFirst
    \/ Lives(0) /\ pr[0].todo \in Judged[test] /\ OnlyFirst /\ Succeeded
    \/ ~Lives(0) /\ OnlyFirst /\ (printed[0] = "ok" => Succeeded)
OwnTestInv ==
    /\ \A d \in Children : printed[d] # "none" => Ended(d) /\ (printed[d] = "error" => pr[d].how = "exit1")
    /\ Lives(0) => printed[0] # "ok"
    /\ StagesInv

\* Once a call has failed, nothing is said of the test points that return on errors.
PrintInv ==
    \/ test \in ReturnsOnError /\ failed # {}
    \/ RolesInv /\ (test \in OwnTest => OwnTestInv)

LEMMA ProcNumbers == 0 \in Procs /\ 1 \in Children /\ Procs = {0} \cup Children /\ 0 \notin Children
  BY ProcAssumption, SMT DEF Procs, Children

\* Where a live process can get to.
LEMMA RoleOrdinary ==
    ASSUME RolesInv, NEW q \in Procs, Lives(q), NEW s, Allowed(q, s)
    PROVE  /\ q = 0 => s \in ParentCode[test]
           /\ q # 0 => s \in ChildCode[test]
<1>1. test \in Tests /\ (s = pr[q].todo \/ s \in After(test, pr[q].todo))
  BY DEF RolesInv, Allowed
<1>2. CASE q = 0
  BY <1>1, <1>2, CodeAssumption DEF RolesInv
<1>3. CASE q # 0
  <2>1. q \in Children /\ pr[q].todo \in ChildCode[test]
    BY <1>3, ProcNumbers DEF RolesInv
  <2> QED BY <1>1, <1>3, <2>1, CodeAssumption
<1> QED BY <1>2, <1>3

\* A step leaves process d as RolesInv wants it.
InRole(d) ==
    /\ pr'[d].st \in {"unborn", "run", "zombie", "gone"}
    /\ ~Ended(d)' => pr'[d].how = "none"
    /\ pr'[d].st = "run" => /\ pr[d].st = "run" /\ pr'[d].kind = pr[d].kind
                           /\ IF d = 0 THEN pr'[d].todo \in ParentCode[test]
                                       ELSE pr'[d].todo \in ChildCode[test]

LEMMA RolesOfOrdinary ==
    ASSUME RolesInv, NEW q \in Procs, Lives(q), Ordinary(q)
    PROVE  RolesInv'
<1>1. Layout' /\ test' = test /\ printed' = printed /\ test \in Tests
  BY DEF Ordinary, RolesInv
<1>2. ASSUME NEW d \in Procs
      PROVE  InRole(d)
  <2>1. CASE d = q
    <3>1. CASE Killed(q)
      BY <2>1, <3>1 DEF InRole, Killed, Ended
    <3>2. ASSUME NEW s, Allowed(q, s), Goes(q, s) PROVE InRole(d)
      BY <2>1, <3>2, RoleOrdinary DEF InRole, Goes, Ended, RolesInv, Lives
    <3> QED BY <3>1, <3>2 DEF Ordinary
  <2>2. CASE d # q
    <3>1. Same(d) \/ Reaped(d) \/ Killed(d)
      BY <2>2 DEF Ordinary, Aside
    <3>2. CASE Same(d)
      <4>1. d # 0 => d \in Children
        BY ProcNumbers
      <4> QED BY <3>2, <4>1 DEF InRole, Same, RolesInv, Ended, Lives
    <3>3. CASE Reaped(d) \/ Killed(d)
      BY <3>3 DEF InRole, Reaped, Killed, Ended
    <3> QED BY <3>1, <3>2, <3>3
  <2> QED BY <2>1, <2>2
<1>3. (Lives(0) => pr[0].todo \in ParentCode[test])'
  BY <1>1, <1>2, ProcNumbers DEF InRole, Lives
<1>4. ASSUME NEW d \in Children
      PROVE  /\ Lives(d)' => /\ pr'[d].todo \in ChildCode[test']
                             /\ test' \in VforkOnly => pr'[d].kind = "vfork"
             /\ printed'[d] # "none" => test' \in OwnTest
  BY <1>1, <1>2, ProcNumbers DEF InRole, Lives, RolesInv
<1> QED BY <1>1, <1>2, <1>3, <1>4 DEF RolesInv, InRole

LEMMA RolesOfReturn ==
    ASSUME RolesInv, NEW q \in Procs, Return(q)
    PROVE  RolesInv'
<1>l. Layout /\ Lives(q) /\ test \in Tests
  BY DEF RolesInv, Return, At, Runs
<1>1. /\ Layout' /\ test' = test /\ Aside(q) /\ Killed(q) /\ Head(pr[q].todo).op = "return"
      /\ printed' = [printed EXCEPT ![q] = Head(pr[q].todo).arg]
  BY <1>l, ReturnShape
<1>2. ASSUME NEW d \in Procs PROVE InRole(d)
  <2>1. CASE d = q
    BY <1>1, <2>1 DEF InRole, Killed, Ended
  <2>2. CASE d # q
    <3>1. Same(d) \/ Reaped(d) \/ Killed(d)
      BY <1>1, <2>2 DEF Aside
    <3>2. CASE Same(d)
      <4>1. d # 0 => d \in Children
        BY ProcNumbers
      <4> QED BY <3>2, <4>1 DEF InRole, Same, RolesInv, Ended, Lives
    <3>3. CASE Reaped(d) \/ Killed(d)
      BY <3>3 DEF InRole, Reaped, Killed, Ended
    <3> QED BY <3>1, <3>2, <3>3
  <2> QED BY <2>1, <2>2
<1>3. (Lives(0) => pr[0].todo \in ParentCode[test])'
  BY <1>1, <1>2, ProcNumbers DEF InRole, Lives
<1>4. ASSUME NEW d \in Children
      PROVE  /\ Lives(d)' => /\ pr'[d].todo \in ChildCode[test']
                             /\ test' \in VforkOnly => pr'[d].kind = "vfork"
             /\ printed'[d] # "none" => test' \in OwnTest
  <2>1. d = q => test \in OwnTest
    BY <1>l, <1>1, ProcNumbers, CodeAssumption DEF RolesInv
  <2>2. d # q => printed'[d] = printed[d]
    BY <1>l, <1>1, ProcNumbers DEF Layout
  <2> QED BY <1>1, <1>2, <2>1, <2>2, ProcNumbers DEF InRole, Lives, RolesInv
<1> QED BY <1>l, <1>1, <1>2, <1>3, <1>4 DEF RolesInv, InRole

\* Only the parent forks, and the child starts with its steps.
LEMMA ForkOfParent ==
    ASSUME RolesInv, NEW q \in Procs, fork(q)
    PROVE  /\ q = 0 /\ Head(pr[0].todo).op = "fork" /\ pr[0].todo \in ParentCode[test]
           /\ Head(pr[0].todo).to \in Children
           /\ Program[test].child[Head(pr[0].todo).to] \in ChildCode[test]
<1>1. Lives(q) /\ Head(pr[q].todo).op = "fork" /\ test \in Tests
  BY DEF fork, At, Runs, Step, RolesInv
<1>2. q = 0
  BY <1>1, ProcNumbers, CodeAssumption DEF RolesInv
<1> QED BY <1>1, <1>2, CodeAssumption DEF RolesInv

LEMMA RolesOfFork ==
    ASSUME RolesInv, NEW q \in Procs, fork(q)
    PROVE  RolesInv'
<1>1. PICK i \in Children : i = Head(pr[0].todo).to
  BY ForkOfParent
<1>2. /\ q = 0 /\ Head(pr[0].todo).op = "fork" /\ pr[0].todo \in ParentCode[test]
      /\ Program[test].child[i] \in ChildCode[test]
  BY <1>1, ForkOfParent
<1>3. /\ Layout' /\ test' = test /\ printed' = printed /\ Lives(0) /\ Goes(0, Tail(pr[0].todo))
      /\ pr'[i].st = pr[0].st /\ pr'[i].how = pr[0].how
      /\ pr'[i].todo = Program[test].child[i] /\ pr'[i].kind = Head(pr[0].todo).arg
      /\ \A d \in Procs \ {0, i} : Same(d)
  <2>1. Layout /\ 0 \in Procs /\ fork(0) /\ i \in Procs /\ i # 0
    BY <1>1, <1>2, ProcNumbers DEF RolesInv
  <2> QED BY <1>1, <2>1, ForkShape, SMT
<1>4. Tail(pr[0].todo) \in ParentCode[test] /\ test \in Tests
  <2>1. Tail(pr[0].todo) \in After(test, pr[0].todo)
    BY <1>2, AfterPlain
  <2> QED BY <1>2, <2>1, CodeAssumption DEF RolesInv
<1>5. test \in VforkOnly => pr'[i].kind = "vfork"
  BY <1>2, <1>3 DEF VforkOnly
<1>6. ASSUME NEW d \in Procs
      PROVE  /\ pr'[d].st \in {"unborn", "run", "zombie", "gone"}
             /\ ~Ended(d)' => pr'[d].how = "none"
  <2>1. CASE d \in {0, i}
    BY <1>1, <1>3, <2>1, ProcNumbers DEF RolesInv, Ended, Lives, Goes
  <2>2. CASE d \notin {0, i}
    BY <1>3, <2>2 DEF RolesInv, Ended, Same
  <2> QED BY <2>1, <2>2
<1>7. (Lives(0) => pr[0].todo \in ParentCode[test])'
  BY <1>3, <1>4 DEF Goes
<1>8. ASSUME NEW d \in Children
      PROVE  /\ Lives(d)' => /\ pr'[d].todo \in ChildCode[test']
                             /\ test' \in VforkOnly => pr'[d].kind = "vfork"
             /\ printed'[d] # "none" => test' \in OwnTest
  <2>1. CASE d = i
    BY <1>2, <1>3, <1>5, <2>1 DEF RolesInv
  <2>2. CASE d # i
    <3>1. Same(d)
      BY <1>3, <2>2, ProcNumbers
    <3> QED BY <1>3, <3>1 DEF Same, RolesInv, Lives
  <2> QED BY <2>1, <2>2
<1> QED BY <1>3, <1>4, <1>6, <1>7, <1>8 DEF RolesInv

LEMMA RolesOfFail ==
    ASSUME RolesInv, NEW q \in Procs, Fails(q), test \notin ReturnsOnError
    PROVE  RolesInv'
<1>1. /\ Layout' /\ test' = test /\ printed' = printed /\ Lives(q) /\ Head(pr[q].todo).op \in Faulty
      /\ ~(Head(pr[q].todo).op = "execve" /\ pr[q].kind = "vfork")
      /\ Goes(q, Failing(pr[q].todo)) /\ \A d \in Procs \ {q} : Same(d)
      /\ test \in Tests
  BY FailShape DEF RolesInv
<1>2. Failing(pr[q].todo) \in Faults(pr[q].todo)
  BY <1>1 DEF Faults
<1>3. q = 0 => Failing(pr[q].todo) \in ParentCode[test]
  BY <1>1, <1>2, CodeAssumption DEF RolesInv
<1>4. q # 0 => Failing(pr[q].todo) \in ChildCode[test]
  <2> SUFFICES ASSUME q # 0 PROVE Failing(pr[q].todo) \in ChildCode[test]
    OBVIOUS
  <2>1. q \in Children /\ pr[q].todo \in ChildCode[test] /\ (test \in VforkOnly => pr[q].kind = "vfork")
    BY <1>1, ProcNumbers DEF RolesInv
  <2>2. Failing(pr[q].todo) \in ChildFaults(test, pr[q].todo)
    BY <1>1, <1>2, <2>1 DEF ChildFaults
  <2> QED BY <1>1, <2>1, <2>2, CodeAssumption
<1>5. ASSUME NEW d \in Procs PROVE InRole(d)
  <2>1. CASE d = q
    BY <1>1, <1>3, <1>4, <2>1 DEF InRole, Goes, Ended, RolesInv, Lives
  <2>2. CASE d # q
    <3>1. d # 0 => d \in Children
      BY ProcNumbers
    <3> QED BY <1>1, <2>2, <3>1 DEF InRole, Same, RolesInv, Ended, Lives
  <2> QED BY <2>1, <2>2
<1>6. (Lives(0) => pr[0].todo \in ParentCode[test])'
  BY <1>1, <1>5, ProcNumbers DEF InRole, Lives
<1>7. ASSUME NEW d \in Children
      PROVE  /\ Lives(d)' => /\ pr'[d].todo \in ChildCode[test']
                             /\ test' \in VforkOnly => pr'[d].kind = "vfork"
             /\ printed'[d] # "none" => test' \in OwnTest
  BY <1>1, <1>5, ProcNumbers DEF InRole, Lives, RolesInv
<1> QED BY <1>1, <1>5, <1>6, <1>7 DEF RolesInv, InRole

--------------------------------------------------------------------------
(* A child that is a test point of its own *)
\* How a process ended does not change, and only a fork makes a process.
Keeps == \A d \in Procs : /\ Ended(d) => Ended(d)' /\ pr'[d].how = pr[d].how
                          /\ Born(d)' <=> Born(d)

LEMMA OrdinaryKeeps ==
    ASSUME NEW q \in Procs, Ordinary(q)
    PROVE  Keeps
<1> SUFFICES ASSUME NEW d \in Procs
             PROVE  /\ Ended(d) => Ended(d)' /\ pr'[d].how = pr[d].how
                    /\ Born(d)' <=> Born(d)
  BY DEF Keeps
<1>1. Same(d) \/ Reaped(d) \/ Killed(d) \/ \E s : Goes(d, s)
  BY DEF Ordinary, Aside
<1> QED BY <1>1 DEF Same, Reaped, Killed, Goes, Ended, Born

\* What the steps of any process leave true of the children and of the fork
LEMMA KeepsStages ==
    ASSUME RolesInv, OwnTestInv, Keeps
    PROVE  /\ OnlyFirst => OnlyFirst'
           /\ (\A d \in Children : ~Born(d)) => (\A d \in Children : ~Born(d))'
           /\ Succeeded => Succeeded'
<1>1. Children \subseteq Procs /\ 1 \in Procs
  BY ProcNumbers
<1>2. Succeeded => Ended(1)
  BY <1>1 DEF Succeeded, RolesInv
<1> QED BY <1>1, <1>2 DEF Keeps, OnlyFirst, Succeeded

LEMMA OwnOnlyFirst ==
    ASSUME OwnTestInv
    PROVE  OnlyFirst
  BY DEF OwnTestInv, StagesInv, OnlyFirst

LEMMA OwnOrdinary ==
    ASSUME RolesInv, OwnTestInv, test \in OwnTest, NEW q \in Procs, Ordinary(q)
    PROVE  OwnTestInv'
<1>1. test' = test /\ printed' = printed /\ test \in Tests \cap OwnTest
  BY DEF Ordinary, RolesInv
<1>2. Keeps
  BY OrdinaryKeeps
<1>3. ASSUME NEW d \in Children
      PROVE  printed'[d] # "none" => Ended(d)' /\ (printed'[d] = "error" => pr'[d].how = "exit1")
  BY <1>1, <1>2, ProcNumbers DEF OwnTestInv, Keeps
<1>4. Lives(0)' => Lives(0) /\ \E s : Allowed(0, s) /\ pr'[0].todo = s
  <2>1. CASE q = 0
    BY <2>1 DEF Ordinary, Killed, Goes, Lives
  <2>2. CASE q # 0
    <3>1. Same(0) \/ Reaped(0) \/ Killed(0)
      BY <2>2, ProcNumbers DEF Ordinary, Aside
    <3> QED BY <3>1 DEF Same, Reaped, Killed, Lives, Allowed
  <2> QED BY <2>1, <2>2
<1>5. (Lives(0) => printed[0] # "ok")'
  BY <1>1, <1>4 DEF OwnTestInv
<1>6. CASE ~Lives(0)'
  BY <1>1, <1>2, <1>3, <1>5, <1>6, KeepsStages, OwnOnlyFirst DEF OwnTestInv, StagesInv
<1>7. CASE Lives(0)'
  <2>1. PICK s : Lives(0) /\ Allowed(0, s) /\ pr'[0].todo = s
    BY <1>4, <1>7
  <2>2. s = pr[0].todo \/ s \in After(test, pr[0].todo)
    BY <2>1 DEF Allowed
  <2>3. IsStatus(pr[0].todo) => s \in {pr[0].todo, Failing(pr[0].todo)} \/ Succeeded
    BY <2>1 DEF Allowed, Succeeded
  <2>4. CASE pr[0].todo \in Unforked[test] /\ \A d \in Children : ~Born(d)
    <3>1. CASE s = pr[0].todo \/ Head(pr[0].todo).op # "fork"
      <4>1. s \in Unforked[test]
        BY <1>1, <2>2, <2>4, <3>1, JudgedAssumption
      <4> QED BY <1>1, <1>2, <1>3, <1>5, <1>7, <2>1, <2>4, <4>1, KeepsStages DEF OwnTestInv, StagesInv
    <3>2. CASE s # pr[0].todo /\ Head(pr[0].todo).op = "fork"
      <4>1. s = Tail(pr[0].todo)
        BY <2>2, <3>2 DEF After
      <4>2. s \in Unjudged[test]
        BY <1>1, <2>4, <3>2, <4>1, JudgedAssumption
      <4> QED BY <1>1, <1>2, <1>3, <1>5, <1>7, <2>1, <4>2, KeepsStages, OwnOnlyFirst DEF OwnTestInv, StagesInv
    <3> QED BY <3>1, <3>2
  <2>5. CASE pr[0].todo \in Unjudged[test]
    <3>1. CASE IsStatus(pr[0].todo) /\ s \notin {pr[0].todo, Failing(pr[0].todo)}
      <4>1. Succeeded
        BY <2>3, <3>1
      <4>2. s = Tail(pr[0].todo)
        BY <2>2, <3>1 DEF After, IsStatus
      <4>3. s \in Judged[test]
        BY <1>1, <2>5, <3>1, <4>2, JudgedAssumption
      <4> QED BY <1>1, <1>2, <1>3, <1>5, <1>7, <2>1, <4>1, <4>3, KeepsStages, OwnOnlyFirst DEF OwnTestInv, StagesInv
    <3>2. CASE ~(IsStatus(pr[0].todo) /\ s \notin {pr[0].todo, Failing(pr[0].todo)})
      <4>1. s \in Unjudged[test]
        BY <1>1, <2>2, <2>5, <3>2, JudgedAssumption
      <4> QED BY <1>1, <1>2, <1>3, <1>5, <1>7, <2>1, <4>1, KeepsStages, OwnOnlyFirst DEF OwnTestInv, StagesInv
    <3> QED BY <3>1, <3>2
  <2>6. CASE pr[0].todo \in Judged[test] /\ Succeeded
    <3>1. s \in Judged[test]
      BY <1>1, <2>2, <2>6, JudgedAssumption
    <3> QED BY <1>1, <1>2, <1>3, <1>5, <1>7, <2>1, <2>6, <3>1, KeepsStages, OwnOnlyFirst DEF OwnTestInv, StagesInv
  <2> QED BY <2>1, <2>4, <2>5, <2>6 DEF OwnTestInv, StagesInv
<1> QED BY <1>1, <1>3, <1>5, <1>6, <1>7 DEF OwnTestInv

LEMMA OwnReturn ==
    ASSUME RolesInv, OwnTestInv, test \in OwnTest, NEW q \in Procs, Return(q)
    PROVE  OwnTestInv'
<1>1. /\ test' = test /\ test \in Tests \cap OwnTest /\ Lives(q) /\ Layout
      /\ Aside(q) /\ Killed(q) /\ Head(pr[q].todo).op = "return"
      /\ printed' = [printed EXCEPT ![q] = Head(pr[q].todo).arg]
      /\ pr'[q].how = IF Head(pr[q].todo).arg = "ok" THEN "exit0" ELSE "exit1"
  BY ReturnShape DEF RolesInv, Return, At, Runs
<1>2. \A d \in Procs : printed'[d] = IF d = q THEN Head(pr[q].todo).arg ELSE printed[d]
  BY <1>1 DEF Layout
<1>3. Keeps
  <2> SUFFICES ASSUME NEW d \in Procs
               PROVE  /\ Ended(d) => Ended(d)' /\ pr'[d].how = pr[d].how
                      /\ Born(d)' <=> Born(d)
    BY DEF Keeps
  <2>1. Same(d) \/ Reaped(d) \/ Killed(d)
    BY <1>1 DEF Aside
  <2> QED BY <2>1 DEF Same, Reaped, Killed, Ended, Born
<1>4. ASSUME NEW d \in Children
      PROVE  printed'[d] # "none" => Ended(d)' /\ (printed'[d] = "error" => pr'[d].how = "exit1")
  <2>1. CASE d = q
    BY <1>1, <1>2, <2>1 DEF Killed, Ended
  <2>2. CASE d # q
    BY <1>2, <1>3, <2>2, ProcNumbers DEF OwnTestInv, Keeps
  <2> QED BY <2>1, <2>2
<1>5. CASE q = 0
  <2>1. ~Lives(0)'
    BY <1>1, <1>5 DEF Killed, Lives
  <2>2. printed'[0] = "ok" => Succeeded
    <3>1. printed'[0] = Head(pr[0].todo).arg
      BY <1>2, <1>5, ProcNumbers
    <3> QED BY <1>1, <1>5, <3>1, JudgedAssumption DEF OwnTestInv, StagesInv
  <2> QED BY <1>3, <1>4, <2>1, <2>2, KeepsStages, OwnOnlyFirst DEF OwnTestInv, StagesInv
<1>6. CASE q # 0
  <2>1. printed'[0] = printed[0] /\ (Same(0) \/ Reaped(0) \/ Killed(0))
    BY <1>1, <1>2, <1>6, ProcNumbers DEF Aside
  <2>2. CASE Lives(0)'
    <3>1. Lives(0) /\ pr'[0].todo = pr[0].todo
      BY <2>1, <2>2 DEF Same, Reaped, Killed, Lives
    <3> QED BY <1>1, <1>3, <1>4, <2>1, <2>2, <3>1, KeepsStages DEF OwnTestInv, StagesInv
  <2>3. CASE ~Lives(0)'
    BY <1>3, <1>4, <2>1, <2>3, KeepsStages, OwnOnlyFirst DEF OwnTestInv, StagesInv
  <2> QED BY <2>2, <2>3
<1> QED BY <1>5, <1>6

LEMMA OwnFork ==
    ASSUME RolesInv, OwnTestInv, test \in OwnTest, NEW q \in Procs, fork(q)
    PROVE  OwnTestInv'
<1>1. /\ q = 0 /\ Head(pr[0].todo).op = "fork" /\ Lives(0) /\ test \in Tests \cap OwnTest
      /\ Layout /\ 0 \in Procs /\ 1 \in Procs /\ 0 # 1 /\ fork(0)
  <2>1. Lives(q)
    BY DEF fork, At, Runs
  <2>2. q = 0 /\ Head(pr[0].todo).op = "fork"
    BY ForkOfParent
  <2> QED BY <2>1, <2>2, ProcNumbers DEF RolesInv
<1>2. /\ pr[0].todo \in Unforked[test] /\ \A d \in Children : ~Born(d)
      /\ Head(pr[0].todo).to = 1 /\ Tail(pr[0].todo) \in Unjudged[test]
  <2>1. pr[0].todo \in Unforked[test] /\ \A d \in Children : ~Born(d)
    BY <1>1, JudgedAssumption DEF OwnTestInv, StagesInv
  <2> QED BY <1>1, <2>1, JudgedAssumption
<1>3. /\ test' = test /\ printed' = printed /\ Goes(0, Tail(pr[0].todo))
      /\ \A d \in Procs \ {0, 1} : Same(d)
  BY <1>1, <1>2, ForkShape
<1>4. \A d \in Children : ~Ended(d) /\ printed[d] = "none"
  BY <1>2 DEF OwnTestInv, Ended, Born
<1>5. OnlyFirst'
  BY <1>2, <1>3, ProcNumbers DEF OnlyFirst, Born, Same
<1>6. Lives(0)' /\ pr'[0].todo \in Unjudged[test'] /\ printed'[0] # "ok"
  BY <1>1, <1>2, <1>3 DEF Lives, Goes, OwnTestInv
<1> QED BY <1>3, <1>4, <1>5, <1>6 DEF OwnTestInv, StagesInv

LEMMA OwnFail ==
    ASSUME RolesInv, OwnTestInv, test \in OwnTest, NEW q \in Procs, Fails(q)
    PROVE  OwnTestInv'
<1>1. /\ test' = test /\ printed' = printed /\ Lives(q) /\ Head(pr[q].todo).op \in Faulty
      /\ Goes(q, Failing(pr[q].todo)) /\ \A d \in Procs \ {q} : Same(d)
      /\ test \in Tests \cap OwnTest
  BY FailShape DEF RolesInv
<1>2. Keeps
  BY <1>1 DEF Keeps, Same, Goes, Ended, Born
<1>3. ASSUME NEW d \in Children
      PROVE  printed'[d] # "none" => Ended(d)' /\ (printed'[d] = "error" => pr'[d].how = "exit1")
  BY <1>1, <1>2, ProcNumbers DEF OwnTestInv, Keeps
<1>4. Lives(0)' <=> Lives(0)
  BY <1>1, ProcNumbers DEF Same, Goes, Lives
<1>5. Lives(0) => pr'[0].todo \in {pr[0].todo} \cup Faults(pr[0].todo)
  <2>1. CASE q = 0
    BY <1>1, <2>1 DEF Goes, Faults
  <2>2. CASE q # 0
    BY <1>1, <2>2, ProcNumbers DEF Same
  <2> QED BY <2>1, <2>2
<1>6. StagesInv'
  <2>1. CASE ~Lives(0)
    BY <1>1, <1>2, <1>4, <2>1, KeepsStages DEF OwnTestInv, StagesInv
  <2>2. CASE Lives(0)
    <3>1. \A S \in {Unforked[test], Unjudged[test], Judged[test]} :
             pr[0].todo \in S => pr'[0].todo \in S
      BY <1>1, <1>5, <2>2, JudgedAssumption, SMT
    <3> QED BY <1>1, <1>2, <1>4, <2>2, <3>1, KeepsStages DEF OwnTestInv, StagesInv
  <2> QED BY <2>1, <2>2
<1> QED BY <1>1, <1>3, <1>4, <1>6 DEF OwnTestInv

--------------------------------------------------------------------------
LEMMA PrintInit == Init => PrintInv
<1> SUFFICES ASSUME Init PROVE RolesInv /\ (test \in OwnTest => OwnTestInv)
  BY DEF PrintInv
<1>1. PICK c : pr = [q \in Procs |-> IF q = 0 THEN [Unborn EXCEPT !.st = "run", !.cpu = c,
                                                               !.todo = Program[test].parent]
                                     ELSE Unborn]
  BY DEF Init
<1>2. test \in Tests /\ printed = [q \in Procs |-> "none"]
  BY DEF Init
<1>3. /\ pr[0].st = "run" /\ pr[0].how = "none" /\ pr[0].todo = Program[test].parent
      /\ DOMAIN pr[0] = Fields
  BY <1>1, ProcNumbers DEF Unborn, Fields
<1>4. \A d \in Children : pr[d].st = "unborn" /\ pr[d].how = "none" /\ DOMAIN pr[d] = Fields
  BY <1>1, ProcNumbers DEF Unborn, Fields
<1>5. Layout
  BY <1>1, <1>2, <1>3, <1>4, ProcNumbers DEF Layout, WellFormed
<1>6. RolesInv
  BY <1>2, <1>3, <1>4, <1>5, ProcNumbers, CodeAssumption DEF RolesInv, Lives, Ended
<1>7. ASSUME test \in OwnTest PROVE OwnTestInv
  <2>1. pr[0].todo \in Unforked[test]
    <3>1. Program[test].parent \in Unforked[test]
      BY <1>2, <1>7, JudgedAssumption
    <3> QED BY <1>3, <3>1
  <2>2. \A q \in Procs : printed[q] = "none"
    BY <1>2
  <2> QED BY <1>3, <1>4, <2>1, <2>2, ProcNumbers DEF OwnTestInv, StagesInv, Lives, Born
<1> QED BY <1>6, <1>7

LEMMA StepsAreByTheLiving ==
    ASSUME NEW q \in Procs, Makes(q) \/ Deliver(q) \/ Expires(q)
    PROVE  Lives(q) /\ UNCHANGED <<test, failed>>
<1>1. CASE Makes(q)
  BY <1>1 DEF Makes, At, Runs, fork, sigaction, kill, spin, sleep, write, read, sem_post, sem_wait, setpgid, setpgid_try,
         setpgid_poll, wait, sched_setaffinity, sched_getaffinity, getppid, call, check, alarm,
         sigprocmask, pause, nanosleep, sched_yield, getcpu, tls, process_vm, assign, record, execve,
         exit, dropped, Return
<1>2. CASE Deliver(q)
  BY <1>2 DEF Deliver, Runs
<1>3. CASE Expires(q)
  BY <1>3 DEF Expires
<1> QED BY <1>1, <1>2, <1>3

LEMMA FailedGrows ==
    ASSUME [Next]_vars
    PROVE  test' = test /\ failed \subseteq failed'
<1>1. ASSUME NEW q \in Procs, Fails(q) PROVE test' = test /\ failed \subseteq failed'
  BY <1>1 DEF Fails
<1>2. ASSUME NEW c \in Cpus, Switch(c) PROVE test' = test /\ failed \subseteq failed'
  BY <1>2 DEF Switch
<1>3. CASE UNCHANGED vars
  BY <1>3 DEF vars
<1> QED BY <1>1, <1>2, <1>3, StepsAreByTheLiving DEF Next

\* Every step keeps the invariant; a failing call takes the test points that return on
\* errors to its first disjunct.
LEMMA PrintStep == PrintInv /\ [Next]_vars => PrintInv'
<1> SUFFICES ASSUME PrintInv, [Next]_vars PROVE PrintInv'
  OBVIOUS
<1>1. CASE test \in ReturnsOnError /\ failed # {}
  <2>1. test' = test /\ failed' # {}
    BY <1>1, FailedGrows
  <2> QED BY <1>1, <2>1 DEF PrintInv
<1>2. CASE RolesInv /\ (test \in OwnTest => OwnTestInv)
  <2>1. Layout
    BY <1>2 DEF RolesInv
  <2>2. CASE UNCHANGED <<test, pr, printed>>
    <3>1. RolesInv' <=> RolesInv
      BY <2>2 DEF RolesInv, Layout, WellFormed, Lives, Ended
    <3>2. OwnTestInv' <=> OwnTestInv
      BY <2>2 DEF OwnTestInv, StagesInv, OnlyFirst, Succeeded, Lives, Ended, Born
    <3> QED BY <1>2, <2>2, <3>1, <3>2 DEF PrintInv
  <2>3. ASSUME NEW q \in Procs, Makes(q) \/ Deliver(q) \/ Expires(q) PROVE PrintInv'
    <3>1. Lives(q) /\ test' = test
      BY <2>3, StepsAreByTheLiving
    <3>2. CASE Ordinary(q)
      BY <1>2, <3>1, <3>2, RolesOfOrdinary, OwnOrdinary DEF PrintInv
    <3>3. CASE fork(q)
      BY <1>2, <3>1, <3>3, RolesOfFork, OwnFork DEF PrintInv
    <3>4. CASE Return(q)
      BY <1>2, <3>1, <3>4, RolesOfReturn, OwnReturn DEF PrintInv
    <3> QED BY <2>1, <2>3, <3>2, <3>3, <3>4, OrdinaryStep
  <2>4. ASSUME NEW q \in Procs, Fails(q) PROVE PrintInv'
    <3>1. test' = test /\ failed' # {}
      BY <2>1, <2>4, FailShape
    <3>2. CASE test \in ReturnsOnError
      BY <3>1, <3>2 DEF PrintInv
    <3>3. CASE test \notin ReturnsOnError
      BY <1>2, <2>4, <3>1, <3>3, RolesOfFail, OwnFail DEF PrintInv
    <3> QED BY <3>2, <3>3
  <2>5. (\E c \in Cpus : Switch(c)) \/ UNCHANGED vars => UNCHANGED <<test, pr, printed>>
    BY DEF Switch, vars
  <2> QED BY <2>2, <2>3, <2>4, <2>5 DEF Next
<1> QED BY <1>1, <1>2 DEF PrintInv

LEMMA PrintResult == PrintInv => OneResult
<1> SUFFICES ASSUME PrintInv, NEW d \in Children, printed[d] # "none", ~(test \in ReturnsOnError /\ failed # {})
             PROVE  test \in OwnTest /\ (printed[d] = "error" => printed[0] # "ok")
  BY DEF OneResult, ReturnsOnError, OwnTest
<1>1. RolesInv /\ test \in OwnTest /\ OwnTestInv
  BY DEF PrintInv, RolesInv
<1>2. Ended(d) /\ (printed[d] = "error" => pr[d].how = "exit1")
  BY <1>1 DEF OwnTestInv
<1>3. d = 1
  BY <1>1, <1>2, OwnOnlyFirst DEF OnlyFirst, Ended, Born
<1>4. printed[0] = "ok" => Succeeded
  BY <1>1, <1>2 DEF OwnTestInv, StagesInv, Ended, Born
<1> QED BY <1>1, <1>2, <1>3, <1>4 DEF Succeeded

\* A forked or vforked child does not come back into main and print a second RESULT,
\* whatever the kernel does and whichever calls fail: only where a call of the child
\* fails in one of three test points, or where the child is a test point of its own
\* (process_vm_readv and process_vm_writev), whose failure the parent does not turn
\* into a success.  OneResult, for any number of children and CPUs.
THEOREM ResultPrintedOnce == Spec => []OneResult
<1>1. Init => PrintInv
  BY PrintInit
<1>2. PrintInv /\ [Next]_vars => PrintInv'
  BY PrintStep
<1>3. PrintInv => OneResult
  BY PrintResult
<1> QED BY <1>1, <1>2, <1>3, PTL DEF Spec
=============================================================================
