--------------------------- MODULE CpuThreadLimits ---------------------------
(***************************************************************************)
(* cpu_thread_limits 000 and 001: RUN_FUNC creates thread_num threads that *)
(* spin on threads_barrier, waits until each has announced itself in its   *)
(* own slot of the array child, opens the barrier and joins them.  000's   *)
(* threads print their local_id; 001's each sum a slice of numdiv          *)
(* divisions, and the sum is taken here by the number of divisions in it.  *)
(* The array is shared memory: heap says whether it is still allocated,    *)
(* and stray collects the threads that used it after it was freed.         *)
(* main of test_mck.c prints the result and ends the process, and with it  *)
(* every thread that still spins.                                          *)
(***************************************************************************)
EXTENDS Integers

CONSTANTS
    thread_num,     \* the argument of -t
    numdiv,         \* 001: the number of divisions
    MayFail         \* may a library or system call fail?

ASSUME ThreadsAssumption ==
    /\ thread_num \in Nat
    /\ numdiv \in Nat
    /\ MayFail \in BOOLEAN

Ids == 0 .. thread_num - 1

VARIABLES
    TEST_NUMBER,    \* which test point runs: 0 or 1
    pc,         \* where RUN_FUNC is
    ith,        \* its loop counter
    iret,       \* child[i].iret: "none" before pthread_create
    waiting,    \* child[i].waiting
    psum,       \* child[i].psum: divisions summed by thread i
    thr,        \* thread i: "none", "start", "spin", "done"
    threads_barrier,
    pi,         \* 001: divisions added up by RUN_FUNC
    heap,       \* the array child: "null", "live" or "freed"
    stray,      \* threads that touched the array after free
    result      \* what RUN_FUNC returns: "NULL" is success

vars == <<TEST_NUMBER, pc, ith, iret, waiting, psum, thr, threads_barrier, pi, heap, stray, result>>

iend_truncated(i) == (i + 1) * (numdiv \div thread_num)

istart(i) == (i * numdiv) \div thread_num
iend(i) == ((i + 1) * numdiv) \div thread_num

Init ==
    /\ TEST_NUMBER \in {0, 1}
    /\ pc = "prepare"
    /\ ith = 0
    /\ iret = [i \in Ids |-> "none"]
    /\ waiting = [i \in Ids |-> 0]
    /\ psum = [i \in Ids |-> 0]
    /\ thr = [i \in Ids |-> "none"]
    /\ threads_barrier = 0
    /\ pi = 0
    /\ heap = "null"
    /\ stray = {}
    /\ result = "none"

Return(r) ==
    /\ pc' = "report"
    /\ result' = r

\* Argument checks, getrlimit, setrlimit and calloc.  000 allocates before it
\* touches the limits, so a failure there leaves the array allocated.
Prepare ==
    /\ pc = "prepare"
    /\ \/ /\ 0 < thread_num
          /\ heap' = "live"
          /\ pc' = "create"
          /\ UNCHANGED result
       \/ /\ MayFail \/ thread_num = 0
          /\ Return("error")
          /\ heap' \in IF TEST_NUMBER = 0 /\ 0 < thread_num THEN {"null", "live"} ELSE {"null"}
    /\ UNCHANGED <<TEST_NUMBER, ith, iret, waiting, psum, thr, threads_barrier, pi, stray>>

\* One turn of the loop of pthread_create calls.
Create ==
    /\ pc = "create"
    /\ \/ /\ iret' = [iret EXCEPT ![ith] = "ok"]
          /\ thr' = [thr EXCEPT ![ith] = "start"]
       \/ /\ MayFail
          /\ iret' = [iret EXCEPT ![ith] = "failed"]
          /\ UNCHANGED thr
    /\ IF ith + 1 < thread_num
       THEN ith' = ith + 1 /\ UNCHANGED pc
       ELSE ith' = 0 /\ pc' = "verify"
    /\ UNCHANGED <<TEST_NUMBER, waiting, psum, threads_barrier, pi, heap, stray, result>>

\* The loop over iret: the first failure frees the array and gives up.  The
\* threads that were created are not told.
Verify ==
    /\ pc = "verify"
    /\ \/ /\ \E i \in Ids : iret[i] = "failed"
          /\ heap' = "freed"
          /\ Return("error")
       \/ /\ \A i \in Ids : iret[i] = "ok"
          /\ pc' = "retry"
          /\ UNCHANGED <<heap, result>>
    /\ UNCHANGED <<TEST_NUMBER, ith, iret, waiting, psum, thr, threads_barrier, pi, stray>>

Retry_no_restart ==
    /\ pc = "retry"
    /\ IF ith + 1 < thread_num
       THEN ith' = ith + 1 /\ UNCHANGED pc
       ELSE ith' = 0 /\ pc' = "open"
    /\ UNCHANGED <<TEST_NUMBER, iret, waiting, psum, thr, threads_barrier, pi, heap, stray, result>>

\* One test of the retry loop; a thread that is not there yet restarts it.
Retry ==
    /\ pc = "retry"
    /\ IF waiting[ith] = 0
       THEN ith' = 0 /\ UNCHANGED pc
       ELSE IF ith + 1 < thread_num
            THEN ith' = ith + 1 /\ UNCHANGED pc
            ELSE ith' = 0 /\ pc' = "open"
    /\ UNCHANGED <<TEST_NUMBER, iret, waiting, psum, thr, threads_barrier, pi, heap, stray, result>>

Open_then_free ==
    /\ pc = "open"
    /\ threads_barrier' = 1
    /\ heap' = "freed"
    /\ pc' = "join"
    /\ UNCHANGED <<TEST_NUMBER, ith, iret, waiting, psum, thr, pi, stray, result>>

Open ==
    /\ pc = "open"
    /\ threads_barrier' = 1
    /\ pc' = "join"
    /\ UNCHANGED <<TEST_NUMBER, ith, iret, waiting, psum, thr, pi, heap, stray, result>>

\* One pthread_join, with 001's pi += psum after it; the last one is followed
\* by 000's free.  The value of pthread_join is not looked at: every thread was
\* created and is joined once, for which the call does not fail.
Join ==
    /\ pc = "join"
    /\ thr[ith] = "done"
    /\ pi' = IF TEST_NUMBER = 1 THEN pi + psum[ith] ELSE pi
    /\ IF ith + 1 < thread_num
       THEN ith' = ith + 1 /\ UNCHANGED <<pc, heap, result>>
       ELSE /\ ith' = 0
            /\ heap' = IF TEST_NUMBER = 0 THEN "freed" ELSE heap
            /\ Return("NULL")
    /\ UNCHANGED <<TEST_NUMBER, iret, waiting, psum, thr, threads_barrier, stray>>

\* main prints RESULT and returns: the process is gone.
Report ==
    /\ pc = "report"
    /\ pc' = "exited"
    /\ UNCHANGED <<TEST_NUMBER, ith, iret, waiting, psum, thr, threads_barrier, pi, heap, stray, result>>

Touch(i) == stray' = IF heap = "freed" THEN stray \cup {i} ELSE stray

Thread_announce_late(i) ==
    /\ pc # "exited"
    /\ thr[i] = "start"
    /\ threads_barrier = 1
    /\ thr' = [thr EXCEPT ![i] = "spin"]
    /\ waiting' = [waiting EXCEPT ![i] = 1]
    /\ Touch(i)
    /\ UNCHANGED <<TEST_NUMBER, pc, ith, iret, psum, threads_barrier, pi, heap, result>>

\* waiting = 1, the first thing a thread does.
Thread_announce(i) ==
    /\ pc # "exited"
    /\ thr[i] = "start"
    /\ thr' = [thr EXCEPT ![i] = "spin"]
    /\ waiting' = [waiting EXCEPT ![i] = 1]
    /\ Touch(i)
    /\ UNCHANGED <<TEST_NUMBER, pc, ith, iret, psum, threads_barrier, pi, heap, result>>

\* The barrier is seen open: 000 reads local_id for its message, 001 sums its
\* slice and stores psum; the thread ends.
Thread_work(i) ==
    /\ pc # "exited"
    /\ thr[i] = "spin"
    /\ threads_barrier = 1
    /\ thr' = [thr EXCEPT ![i] = "done"]
    /\ psum' = IF TEST_NUMBER = 1 THEN [psum EXCEPT ![i] = iend(i) - istart(i)] ELSE psum
    /\ Touch(i)
    /\ UNCHANGED <<TEST_NUMBER, pc, ith, iret, waiting, threads_barrier, pi, heap, result>>

Finished == pc = "exited" /\ UNCHANGED vars

Main == Prepare \/ Create \/ Verify \/ Retry \/ Open \/ Join \/ Report
Thread(i) == Thread_announce(i) \/ Thread_work(i)
Next == Main \/ (\E i \in Ids : Thread(i)) \/ Finished

Spec == Init /\ [][Next]_vars

\* Every runnable thread is scheduled: McKernel gives each its own core, or
\* switches between them.
FairSpec == Spec /\ WF_vars(Main) /\ \A i \in Ids : WF_vars(Thread(i))
-----------------------------------------------------------------------------
\* The variables have their types: no loop of RUN_FUNC leaves the array.
TypeOK ==
    /\ TEST_NUMBER \in {0, 1}
    /\ pc \in {"prepare", "create", "verify", "retry", "open", "join", "report", "exited"}
    /\ ith = 0 \/ ith \in Ids
    /\ iret \in [Ids -> {"none", "ok", "failed"}]
    /\ waiting \in [Ids -> {0, 1}]
    /\ psum \in [Ids -> Int]
    /\ thr \in [Ids -> {"none", "start", "spin", "done"}]
    /\ threads_barrier \in {0, 1}
    /\ pi \in Int
    /\ heap \in {"null", "live", "freed"}
    /\ stray \subseteq Ids
    /\ result \in {"none", "NULL", "error"}

\* The point of the test, "Wait for all threads are awoke": no thread ends
\* before all thread_num threads have been running at the same time.
AllAtOnce == (\E i \in Ids : thr[i] = "done") => \A j \in Ids : waiting[j] = 1

\* A successful test has joined every thread, and 001's sum then holds each of
\* the numdiv divisions once, whatever the remainder of numdiv by thread_num.
OkComplete ==
    result = "NULL" =>
        /\ \A i \in Ids : thr[i] = "done"
        /\ TEST_NUMBER = 1 => pi = numdiv

\* A thread uses its slot after free(child) only when some pthread_create has
\* failed: the free after the joins, in 000, is never too early.
FreeIsLast == stray # {} => \E i \in Ids : iret[i] = "failed"

\* The test is a rendezvous: a thread has arrived when RUN_FUNC can see it waiting
\* and is let go when it passes the barrier.
Meeting == INSTANCE Rendezvous WITH
    Workers <- Ids,
    LateFailure <- FALSE,
    arrived <- {i \in Ids : waiting[i] = 1},
    released <- {i \in Ids : thr[i] = "done"},
    verdict <- result

\* cpu_thread_limits implements the rendezvous: with the retry loop over waiting and
\* one shared flag it lets no thread go before all are there, and once it has let one
\* go it does not give up.
ThreadsMeet == Meeting!Spec

\* RUN_FUNC returns and the process ends, failing calls or not.
Terminates == <>(pc = "exited")
=============================================================================
