------------------------ MODULE CpuThreadLimitsProofs ------------------------
(***************************************************************************)
(* For every number of threads and of divisions: the threads of            *)
(* cpu_thread_limits all run at once, a successful test has summed every   *)
(* division once, and the array is freed too early only after a failing    *)
(* pthread_create.                                                         *)
(***************************************************************************)
EXTENDS CpuThreadLimits, TLAPS

\* What the create loop has done up to ith.
CreateInv ==
    /\ \A i \in Ids : thr[i] # "none" <=> iret[i] = "ok"
    /\ pc = "prepare" => \A i \in Ids : iret[i] = "none"
    /\ pc = "create" => \A i \in Ids : i < ith <=> iret[i] # "none"
    /\ pc = "prepare" => ith = 0
    /\ pc \in {"create", "verify", "retry", "open", "join"} => 0 < thread_num /\ ith \in Ids
    /\ pc = "verify" => ith = 0

\* The retry loop and the barrier.
BarrierInv ==
    /\ \A i \in Ids : waiting[i] = 1 <=> thr[i] \in {"spin", "done"}
    /\ pc = "retry" => \A i \in Ids : iret[i] = "ok" /\ (i < ith => waiting[i] = 1)
    /\ pc = "open" => ith = 0
    /\ pc \in {"open", "join"} => \A i \in Ids : waiting[i] = 1
    /\ threads_barrier = 1 => \A i \in Ids : waiting[i] = 1
    /\ \A i \in Ids : thr[i] = "done" => threads_barrier = 1
    /\ pc \in {"prepare", "create", "verify", "retry", "open"} => threads_barrier = 0
    /\ threads_barrier = 1 => result # "error"

\* The join loop: pi has the divisions of the slices before ith.
SumInv ==
    /\ \A i \in Ids : thr[i] = "done" /\ TEST_NUMBER = 1 => psum[i] = iend(i) - istart(i)
    /\ pc = "join" => \A i \in Ids : i < ith => thr[i] = "done"
    /\ pc = "join" /\ TEST_NUMBER = 1 => pi = istart(ith)
    /\ pc \in {"prepare", "create", "verify", "retry", "open"} => pi = 0
    /\ pc \in {"prepare", "create", "verify", "retry", "open", "join"} => result = "none"
    /\ OkComplete

\* The array is freed after the joins or after a failed pthread_create.
HeapInv ==
    /\ heap = "freed" => \/ \E i \in Ids : iret[i] = "failed"
                         \/ \A i \in Ids : thr[i] = "done"
    /\ heap = "freed" => pc \in {"report", "exited"}
    /\ FreeIsLast

IInv == TypeOK /\ CreateInv /\ BarrierInv /\ SumInv /\ HeapInv

\* istart and iend cut 0 .. numdiv into adjacent slices.
LEMMA Slices ==
    ASSUME 0 < thread_num
    PROVE  /\ istart(0) = 0
           /\ istart(thread_num) = numdiv
           /\ \A i \in Nat : istart(i) \in Int /\ iend(i) \in Int /\ iend(i) = istart(i + 1)
<1>1. istart(0) = 0
  BY ThreadsAssumption, SMT DEF istart
<1>2. (thread_num * numdiv) \div thread_num = numdiv
  BY ThreadsAssumption, SMT
<1>3. \A i \in Nat : istart(i) \in Int /\ iend(i) \in Int
  BY ThreadsAssumption, SMT DEF istart, iend
<1>4. \A i \in Nat : iend(i) = istart(i + 1)
  BY DEF istart, iend
<1> QED
  BY <1>1, <1>2, <1>3, <1>4 DEF istart

LEMMA InitInv == Init => IInv
<1> SUFFICES ASSUME Init PROVE IInv
  OBVIOUS
<1> USE ThreadsAssumption DEF Init
<1>1. TypeOK
  BY DEF TypeOK, Ids
<1>2. CreateInv
  BY DEF CreateInv, Ids
<1>3. BarrierInv
  BY DEF BarrierInv, Ids
<1>4. SumInv
  BY DEF SumInv, OkComplete, Ids
<1>5. HeapInv
  BY DEF HeapInv, FreeIsLast, Ids
<1> QED
  BY <1>1, <1>2, <1>3, <1>4, <1>5 DEF IInv

\* RUN_FUNC's own steps keep the invariant.
LEMMA MainInv == IInv /\ Main => IInv'
<1> SUFFICES ASSUME IInv, Main PROVE IInv'
  OBVIOUS
<1> USE ThreadsAssumption DEF IInv
<1>1. CASE Prepare
  <2>1. TypeOK'
    BY <1>1 DEF Prepare, Return, TypeOK, CreateInv, Ids
  <2>2. CreateInv'
    BY <1>1 DEF Prepare, Return, TypeOK, CreateInv, Ids
  <2>3. BarrierInv'
    BY <1>1 DEF Prepare, Return, TypeOK, CreateInv, BarrierInv, SumInv, Ids
  <2>4. SumInv'
    BY <1>1 DEF Prepare, Return, TypeOK, CreateInv, BarrierInv, SumInv, OkComplete, Ids
  <2>5. HeapInv'
    BY <1>1 DEF Prepare, Return, TypeOK, CreateInv, BarrierInv, SumInv, HeapInv, OkComplete, FreeIsLast, Ids
  <2> QED
    BY <2>1, <2>2, <2>3, <2>4, <2>5
<1>2. CASE Create
  <2>1. TypeOK'
    <3>1. ith' = 0 \/ ith' \in Ids
      BY <1>2 DEF Create, TypeOK, CreateInv, Ids
    <3>2. iret' \in [Ids -> {"none", "ok", "failed"}] /\ thr' \in [Ids -> {"none", "start", "spin", "done"}]
      BY <1>2 DEF Create, TypeOK
    <3> QED
      BY <1>2, <3>1, <3>2 DEF Create, TypeOK
  <2>2. CreateInv'
    BY <1>2, SMTT(30) DEF Create, TypeOK, CreateInv, Ids
  <2>3. BarrierInv'
    BY <1>2, SMTT(30) DEF Create, TypeOK, CreateInv, BarrierInv, SumInv, Ids
  <2>4. SumInv'
    BY <1>2 DEF Create, TypeOK, CreateInv, BarrierInv, SumInv, OkComplete, Ids
  <2>5. HeapInv'
    <3>1. heap # "freed"
      BY <1>2 DEF Create, HeapInv
    <3>2. ith \in Ids /\ iret[ith] = "none"
      <4>1. pc = "create"
        BY <1>2 DEF Create
      <4>2. ith \in Ids /\ ~(ith < ith)
        BY <4>1 DEF CreateInv, Ids
      <4> QED
        BY <4>1, <4>2 DEF CreateInv
    <3>3. \A i \in Ids : iret[i] = "failed" => iret'[i] = "failed"
      BY <1>2, <3>2 DEF Create, TypeOK
    <3>4. UNCHANGED <<heap, stray>>
      BY <1>2 DEF Create
    <3> QED
      BY <3>1, <3>3, <3>4 DEF HeapInv, FreeIsLast
  <2> QED
    BY <2>1, <2>2, <2>3, <2>4, <2>5
<1>3. CASE Verify
  <2>1. TypeOK'
    BY <1>3 DEF Verify, Return, TypeOK, CreateInv, Ids
  <2>2. CreateInv'
    BY <1>3 DEF Verify, Return, TypeOK, CreateInv, Ids
  <2>3. BarrierInv'
    BY <1>3 DEF Verify, Return, TypeOK, CreateInv, BarrierInv, SumInv, Ids
  <2>4. SumInv'
    BY <1>3 DEF Verify, Return, TypeOK, CreateInv, BarrierInv, SumInv, OkComplete, Ids
  <2>5. HeapInv'
    BY <1>3 DEF Verify, Return, TypeOK, CreateInv, BarrierInv, SumInv, HeapInv, OkComplete, FreeIsLast, Ids
  <2> QED
    BY <2>1, <2>2, <2>3, <2>4, <2>5
<1>4. CASE Retry
  <2>1. TypeOK'
    BY <1>4 DEF Retry, TypeOK, CreateInv, Ids
  <2>2. CreateInv'
    BY <1>4 DEF Retry, TypeOK, CreateInv, Ids
  <2>3. BarrierInv'
    BY <1>4 DEF Retry, TypeOK, CreateInv, BarrierInv, SumInv, Ids
  <2>4. SumInv'
    BY <1>4 DEF Retry, TypeOK, CreateInv, BarrierInv, SumInv, OkComplete, Ids
  <2>5. HeapInv'
    BY <1>4 DEF Retry, TypeOK, CreateInv, BarrierInv, SumInv, HeapInv, OkComplete, FreeIsLast, Ids
  <2> QED
    BY <2>1, <2>2, <2>3, <2>4, <2>5
<1>5. CASE Open
  <2>1. TypeOK'
    BY <1>5 DEF Open, TypeOK, CreateInv, Ids
  <2>2. CreateInv'
    BY <1>5 DEF Open, TypeOK, CreateInv, Ids
  <2>3. BarrierInv'
    BY <1>5 DEF Open, TypeOK, CreateInv, BarrierInv, SumInv, Ids
  <2>4. SumInv'
    BY <1>5, Slices DEF Open, TypeOK, CreateInv, BarrierInv, SumInv, OkComplete, Ids
  <2>5. HeapInv'
    BY <1>5 DEF Open, TypeOK, CreateInv, BarrierInv, SumInv, HeapInv, OkComplete, FreeIsLast, Ids
  <2> QED
    BY <2>1, <2>2, <2>3, <2>4, <2>5
<1>6. CASE Join
  <2>1. TypeOK'
    BY <1>6 DEF Join, Return, TypeOK, CreateInv, Ids
  <2>2. CreateInv'
    BY <1>6 DEF Join, Return, TypeOK, CreateInv, Ids
  <2>3. BarrierInv'
    BY <1>6 DEF Join, Return, TypeOK, CreateInv, BarrierInv, SumInv, Ids
  <2>4. SumInv'
    <3>1. /\ ith \in Ids /\ 0 < thread_num /\ thr[ith] = "done"
          /\ TEST_NUMBER = 1 => pi' = istart(ith + 1)
      <4>1. ith \in Ids /\ 0 < thread_num /\ thr[ith] = "done"
        BY <1>6 DEF Join, CreateInv
      <4>2. TEST_NUMBER = 1 => pi' = istart(ith) + (iend(ith) - istart(ith))
        BY <1>6, <4>1 DEF Join, SumInv
      <4>3. ith \in Nat /\ istart(ith) \in Int /\ iend(ith) \in Int /\ iend(ith) = istart(ith + 1)
        BY <4>1, Slices DEF Ids
      <4> QED
        BY <4>1, <4>2, <4>3
    <3>2. CASE ith + 1 < thread_num
      BY <1>6, <3>1, <3>2 DEF Join, TypeOK, SumInv, OkComplete, Ids
    <3>3. CASE ~(ith + 1 < thread_num)
      <4>1. ith + 1 = thread_num
        BY <3>1, <3>3 DEF Ids
      <4>2. TEST_NUMBER = 1 => pi' = numdiv
        BY <3>1, <4>1, Slices
      <4>3. \A i \in Ids : thr[i] = "done"
        BY <1>6, <3>1, <4>1 DEF Join, SumInv, Ids
      <4> QED
        BY <1>6, <3>3, <4>2, <4>3 DEF Join, Return, SumInv, OkComplete
    <3> QED
      BY <3>2, <3>3
  <2>5. HeapInv'
    BY <1>6 DEF Join, Return, TypeOK, CreateInv, BarrierInv, SumInv, HeapInv, OkComplete, FreeIsLast, Ids
  <2> QED
    BY <2>1, <2>2, <2>3, <2>4, <2>5
<1>7. CASE Report
  <2>1. TypeOK'
    BY <1>7 DEF Report, TypeOK, CreateInv, Ids
  <2>2. CreateInv'
    BY <1>7 DEF Report, TypeOK, CreateInv, Ids
  <2>3. BarrierInv'
    BY <1>7 DEF Report, TypeOK, CreateInv, BarrierInv, SumInv, Ids
  <2>4. SumInv'
    BY <1>7 DEF Report, TypeOK, CreateInv, BarrierInv, SumInv, OkComplete, Ids
  <2>5. HeapInv'
    BY <1>7 DEF Report, TypeOK, CreateInv, BarrierInv, SumInv, HeapInv, OkComplete, FreeIsLast, Ids
  <2> QED
    BY <2>1, <2>2, <2>3, <2>4, <2>5
<1> QED
  BY <1>1, <1>2, <1>3, <1>4, <1>5, <1>6, <1>7 DEF Main

\* So do the steps of a thread.
LEMMA ThreadInv == ASSUME NEW i \in Ids, IInv, Thread(i) PROVE IInv'
<1> USE ThreadsAssumption DEF IInv
<1>1. CASE Thread_announce(i)
  <2>1. TypeOK'
    BY <1>1 DEF Thread_announce, Touch, TypeOK, CreateInv, Ids
  <2>2. CreateInv'
    BY <1>1 DEF Thread_announce, Touch, TypeOK, CreateInv, Ids
  <2>3. BarrierInv'
    BY <1>1 DEF Thread_announce, Touch, TypeOK, CreateInv, BarrierInv, SumInv, Ids
  <2>4. SumInv'
    BY <1>1 DEF Thread_announce, Touch, TypeOK, CreateInv, BarrierInv, SumInv, OkComplete, Ids
  <2>5. HeapInv'
    BY <1>1 DEF Thread_announce, Touch, TypeOK, CreateInv, BarrierInv, SumInv, HeapInv, OkComplete, FreeIsLast, Ids
  <2> QED
    BY <2>1, <2>2, <2>3, <2>4, <2>5
<1>2. CASE Thread_work(i)
  <2>1. TypeOK'
    <3>1. iend(i) - istart(i) \in Int
      BY Slices DEF Ids
    <3> QED
      BY <1>2, <3>1 DEF Thread_work, Touch, TypeOK
  <2>2. CreateInv'
    BY <1>2 DEF Thread_work, Touch, TypeOK, CreateInv, Ids
  <2>3. BarrierInv'
    BY <1>2 DEF Thread_work, Touch, TypeOK, CreateInv, BarrierInv, SumInv, Ids
  <2>4. SumInv'
    BY <1>2, Slices DEF Thread_work, Touch, TypeOK, CreateInv, BarrierInv, SumInv, OkComplete, Ids
  <2>5. HeapInv'
    BY <1>2 DEF Thread_work, Touch, TypeOK, CreateInv, BarrierInv, SumInv, HeapInv, OkComplete, FreeIsLast, Ids
  <2> QED
    BY <2>1, <2>2, <2>3, <2>4, <2>5
<1> QED
  BY <1>1, <1>2 DEF Thread

LEMMA Inductive == Spec => []IInv
<1>1. IInv /\ [Next]_vars => IInv'
  <2> SUFFICES ASSUME IInv, [Next]_vars PROVE IInv'
    OBVIOUS
  <2>1. CASE UNCHANGED vars
    BY <2>1 DEF vars, IInv, TypeOK, CreateInv, BarrierInv, SumInv, HeapInv, OkComplete, FreeIsLast
  <2>2. CASE Next
    BY <2>1, <2>2, MainInv, ThreadInv DEF Next, Finished
  <2> QED
    BY <2>1, <2>2
<1> QED
  BY InitInv, <1>1, PTL DEF Spec

\* No thread of cpu_thread_limits ends before all have been running at once,
\* for every thread_num.
THEOREM ThreadsAllAtOnce == Spec => []AllAtOnce
<1>1. IInv => AllAtOnce
  BY DEF IInv, BarrierInv, AllAtOnce
<1> QED
  BY Inductive, <1>1, PTL

\* A NULL result of RUN_FUNC means that every thread was joined and that the
\* sum of 001 has each of the numdiv divisions once, for every thread_num.
THEOREM ThreadsOkComplete == Spec => []OkComplete
<1>1. IInv => OkComplete
  BY DEF IInv, SumInv
<1> QED
  BY Inductive, <1>1, PTL

\* Only a failing pthread_create lets a thread outlive the array child.
THEOREM ThreadsFreeIsLast == Spec => []FreeIsLast
<1>1. IInv => FreeIsLast
  BY DEF IInv, HeapInv
<1> QED
  BY Inductive, <1>1, PTL

\* A step of RUN_FUNC decides the verdict of the rendezvous or leaves it alone.
LEMMA MainMeets == IInv /\ Main => [Meeting!Next]_(Meeting!vars)
<1> SUFFICES ASSUME IInv, Main PROVE [Meeting!Next]_(Meeting!vars)
  OBVIOUS
<1>a. ASSUME UNCHANGED <<waiting, thr, result>> PROVE UNCHANGED Meeting!vars
  BY <1>a DEF Meeting!vars
<1>b. ASSUME UNCHANGED <<waiting, thr>>, result = "none", result' = "error", threads_barrier = 0
      PROVE  Meeting!GiveUp
  <2>1. {i \in Ids : thr[i] = "done"} = {}
    BY <1>b DEF IInv, BarrierInv
  <2> QED
    BY <1>b, <2>1 DEF Meeting!GiveUp
<1>1. CASE Prepare
  BY <1>1, <1>a, <1>b DEF Prepare, Return, IInv, BarrierInv, SumInv, Meeting!Next
<1>2. CASE Create
  <2>1. ith \in Ids /\ thr[ith] # "done" /\ UNCHANGED <<waiting, result>>
    <3>1. pc = "create" /\ ith \in Ids /\ threads_barrier = 0
      BY <1>2 DEF Create, IInv, CreateInv, BarrierInv
    <3> QED
      BY <1>2, <3>1 DEF Create, IInv, BarrierInv
  <2>2. {i \in Ids : thr'[i] = "done"} = {i \in Ids : thr[i] = "done"}
    BY <1>2, <2>1 DEF Create, IInv, TypeOK
  <2> QED
    BY <2>1, <2>2 DEF Meeting!vars
<1>3. CASE Verify
  BY <1>3, <1>a, <1>b DEF Verify, Return, IInv, BarrierInv, SumInv, Meeting!Next
<1>4. CASE Retry
  BY <1>4, <1>a DEF Retry
<1>5. CASE Open
  BY <1>5, <1>a DEF Open
<1>6. CASE Join
  <2>1. CASE result' = result
    BY <1>6, <1>a, <2>1 DEF Join
  <2>2. CASE result' = "NULL"
    <3>1. \A i \in Ids : thr'[i] = "done"
      BY MainInv, <2>2 DEF IInv, SumInv, OkComplete
    <3>2. {i \in Ids : thr[i] = "done"} = Ids
      BY <1>6, <3>1 DEF Join
    <3>3. result = "none" /\ UNCHANGED <<waiting, thr>>
      BY <1>6 DEF Join, IInv, SumInv
    <3> QED
      BY <2>2, <3>2, <3>3 DEF Meeting!Succeed, Meeting!Next
  <2> QED
    BY <1>6, <2>1, <2>2 DEF Join, Return
<1>7. CASE Report
  BY <1>7, <1>a DEF Report
<1> QED
  BY <1>1, <1>2, <1>3, <1>4, <1>5, <1>6, <1>7 DEF Main

\* A thread arrives when it announces itself and is let go when it has worked.
LEMMA ThreadMeets == ASSUME NEW i \in Ids, IInv, Thread(i) PROVE Meeting!Next
<1>1. CASE Thread_announce(i)
  <2>1. waiting[i] # 1
    BY <1>1 DEF Thread_announce, IInv, BarrierInv
  <2>2. {j \in Ids : waiting'[j] = 1} = {j \in Ids : waiting[j] = 1} \cup {i}
    BY <1>1 DEF Thread_announce, IInv, TypeOK
  <2>3. {j \in Ids : thr'[j] = "done"} = {j \in Ids : thr[j] = "done"}
    BY <1>1 DEF Thread_announce, IInv, TypeOK
  <2> QED
    BY <1>1, <2>1, <2>2, <2>3 DEF Thread_announce, Meeting!Arrive, Meeting!Next
<1>2. CASE Thread_work(i)
  <2>1. {j \in Ids : waiting[j] = 1} = Ids
    BY <1>2 DEF Thread_work, IInv, BarrierInv
  <2>2. result = "none"
    BY <1>2 DEF Thread_work, IInv, TypeOK, BarrierInv, SumInv, OkComplete
  <2>3. {j \in Ids : thr'[j] = "done"} = {j \in Ids : thr[j] = "done"} \cup {i}
    BY <1>2 DEF Thread_work, IInv, TypeOK
  <2> QED
    BY <1>2, <2>1, <2>2, <2>3 DEF Thread_work, Meeting!Release, Meeting!Next
<1> QED
  BY <1>1, <1>2 DEF Thread

\* cpu_thread_limits implements the rendezvous of its threads, for every
\* thread_num: nobody passes the barrier before all wait at it, NULL is returned
\* after all have passed, and a test that gives up has let nobody pass.
THEOREM ThreadsImplementMeeting == Spec => ThreadsMeet
<1>1. Init => Meeting!Init
  BY DEF Init, Meeting!Init
<1>2. IInv /\ [Next]_vars => [Meeting!Next]_(Meeting!vars)
  <2> SUFFICES ASSUME IInv, [Next]_vars PROVE [Meeting!Next]_(Meeting!vars)
    OBVIOUS
  <2>1. CASE UNCHANGED vars
    BY <2>1 DEF vars, Meeting!vars
  <2>2. CASE Next
    BY <2>1, <2>2, MainMeets, ThreadMeets DEF Next, Finished
  <2> QED
    BY <2>1, <2>2
<1> QED
  BY Inductive, <1>1, <1>2, PTL DEF Spec, ThreadsMeet, Meeting!Spec
=============================================================================
