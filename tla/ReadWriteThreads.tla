--------------------------- MODULE ReadWriteThreads ---------------------------
(***************************************************************************)
(* lv07_read-write_with-glibc, entry-pth.c: thread_num threads, main among *)
(* them as number 0, read a file and print what they read, each at its     *)
(* turn.  The turns are kept by one pthread barrier that every thread      *)
(* passes thread_num times: thread num prints between its wait number num  *)
(* and the next one.                                                       *)
(*                                                                         *)
(* The barrier is the library's.  It counts the threads inside the current *)
(* round; the last one to enter starts the next round, and the others      *)
(* leave one by one, when they are scheduled, so that a fast thread may    *)
(* enter the next round before a slow one has left the last.               *)
(***************************************************************************)
EXTENDS Integers, FiniteSets

CONSTANTS
    thread_num,     \* the second argument
    watched,        \* the round of the barrier that is shown to be a rendezvous
    MayFail         \* may a library or system call fail?

ASSUME ThreadNumAssumption ==
    /\ thread_num \in Nat \ {0}
    /\ watched \in 0 .. thread_num - 1
    /\ MayFail \in BOOLEAN

Ids == 0 .. thread_num - 1

VARIABLES
    pc,         \* where main is; "error": it has returned from a failed call
    ith,        \* main's loop counter
    at,         \* where thread t is in read_write
    i,          \* i[t]: its loop counter, the number of waits it has finished
    round,      \* the barrier's round
    inside,     \* the threads that have entered the current round
    printed     \* the threads whose line is out

vars == <<pc, ith, at, i, round, inside, printed>>

Init ==
    /\ pc = "setup"
    /\ ith = 1
    /\ at = [t \in Ids |-> "none"]
    /\ i = [t \in Ids |-> 0]
    /\ round = 0
    /\ inside = {}
    /\ printed = {}

\* The argument checks, the limits and pthread_barrier_init.
Setup ==
    /\ pc = "setup"
    /\ pc' = "create" \/ (MayFail /\ pc' = "error")
    /\ UNCHANGED <<ith, at, i, round, inside, printed>>

\* One turn of the loop of pthread_create; a failure returns from main, which ends
\* the threads that were made.
Create ==
    /\ pc = "create"
    /\ ith < thread_num
    /\ \/ /\ at' = [at EXCEPT ![ith] = "start"]
          /\ ith' = ith + 1
          /\ UNCHANGED pc
       \/ /\ MayFail
          /\ pc' = "error"
          /\ UNCHANGED <<ith, at>>
    /\ UNCHANGED <<i, round, inside, printed>>

\* main calls read_write(0, filepath) ...
Main_read_write ==
    /\ pc = "create"
    /\ ith = thread_num
    /\ pc' = "read_write"
    /\ at' = [at EXCEPT ![0] = "start"]
    /\ UNCHANGED <<ith, i, round, inside, printed>>

Ended(t) == at[t] \in {"done", "failed"}

\* ... and returns from it to the joins.
Main_returns ==
    /\ pc = "read_write"
    /\ Ended(0)
    /\ pc' = "join"
    /\ ith' = 1
    /\ UNCHANGED <<at, i, round, inside, printed>>

Join_one_less ==
    /\ pc = "join"
    /\ \/ /\ ith < thread_num - 1
          /\ Ended(ith)
          /\ ith' = ith + 1
          /\ UNCHANGED pc
       \/ /\ ith = thread_num - 1
          /\ pc' = "exited"
          /\ UNCHANGED ith
    /\ UNCHANGED <<at, i, round, inside, printed>>

\* pthread_join of the next thread; after the last one main returns.  A failing join
\* returns from main too, and ends the threads wherever they are.
Join ==
    /\ pc = "join"
    /\ \/ /\ ith < thread_num
          /\ Ended(ith)
          /\ ith' = ith + 1
          /\ UNCHANGED pc
       \/ /\ ith < thread_num
          /\ MayFail
          /\ pc' = "error"
          /\ UNCHANGED ith
       \/ /\ ith = thread_num
          /\ pc' = "exited"
          /\ UNCHANGED ith
    /\ UNCHANGED <<at, i, round, inside, printed>>

\* fopen and fread; without the file the thread leaves read_write at once.
Open(t) ==
    /\ at[t] = "start"
    /\ at' \in {[at EXCEPT ![t] = "loop"]} \cup
               (IF MayFail THEN {[at EXCEPT ![t] = "failed"]} ELSE {})
    /\ UNCHANGED <<pc, ith, i, round, inside, printed>>

\* Between the two loops: i = num, and the line is not out yet.
Turn(t) == i[t] = t /\ t \notin printed

PrintLine(t) ==
    /\ at[t] = "loop"
    /\ Turn(t)
    /\ printed' = printed \cup {t}
    /\ UNCHANGED <<pc, ith, at, i, round, inside>>

Enter_unordered(t) ==
    /\ at[t] = "loop"
    /\ i[t] < thread_num
    /\ at' = [at EXCEPT ![t] = "in"]
    /\ IF Cardinality(inside) + 1 = thread_num
       THEN round' = round + 1 /\ inside' = {}
       ELSE inside' = inside \cup {t} /\ UNCHANGED round
    /\ UNCHANGED <<pc, ith, i, printed>>

Enter_counts_less(t) ==
    /\ at[t] = "loop"
    /\ i[t] < thread_num
    /\ ~Turn(t)
    /\ at' = [at EXCEPT ![t] = "in"]
    /\ IF Cardinality(inside) + 2 >= thread_num
       THEN round' = round + 1 /\ inside' = {}
       ELSE inside' = inside \cup {t} /\ UNCHANGED round
    /\ UNCHANGED <<pc, ith, i, printed>>

\* pthread_barrier_wait, in either loop: the thread_num-th one starts a new round ...
Enter(t) ==
    /\ at[t] = "loop"
    /\ i[t] < thread_num
    /\ ~Turn(t)
    /\ at' = [at EXCEPT ![t] = "in"]
    /\ IF Cardinality(inside) + 1 = thread_num
       THEN round' = round + 1 /\ inside' = {}
       ELSE inside' = inside \cup {t} /\ UNCHANGED round
    /\ UNCHANGED <<pc, ith, i, printed>>

\* ... and whoever was inside leaves when it sees that, and counts i up.
Leave(t) ==
    /\ at[t] = "in"
    /\ i[t] < round
    /\ at' = [at EXCEPT ![t] = "loop"]
    /\ i' = [i EXCEPT ![t] = @ + 1]
    /\ UNCHANGED <<pc, ith, round, inside, printed>>

Return_after_turn(t) ==
    /\ at[t] = "loop"
    /\ i[t] = t + 1
    /\ at' = [at EXCEPT ![t] = "done"]
    /\ UNCHANGED <<pc, ith, i, round, inside, printed>>

\* fclose and the end of read_write.
Return(t) ==
    /\ at[t] = "loop"
    /\ i[t] = thread_num
    /\ at' = [at EXCEPT ![t] = "done"]
    /\ UNCHANGED <<pc, ith, i, round, inside, printed>>

Exited == pc \in {"exited", "error"}
Main == Setup \/ Create \/ Main_read_write \/ Main_returns \/ Join
Thread(t) == ~Exited /\ (Open(t) \/ PrintLine(t) \/ Enter(t) \/ Leave(t) \/ Return(t))

Failed == {t \in Ids : at[t] = "failed"}

Next == Main \/ \E t \in Ids : Thread(t)

Spec == Init /\ [][Next]_vars

\* Every thread that can run is scheduled; main is not owed a failure.
FairSpec == Spec /\ WF_vars(Main /\ pc' # "error") /\ \A t \in Ids : WF_vars(Thread(t))
-----------------------------------------------------------------------------
\* The variables have their types.
TypeOK ==
    /\ pc \in {"setup", "create", "read_write", "join", "exited", "error"}
    /\ ith \in 1 .. thread_num
    /\ at \in [Ids -> {"none", "start", "loop", "in", "done", "failed"}]
    /\ i \in [Ids -> 0 .. thread_num]
    /\ round \in 0 .. thread_num
    /\ inside \subseteq Ids
    /\ printed \subseteq Ids

\* The lines come out in the order of the thread numbers: when thread t's line is
\* out, so are those of all threads before it, however the threads are scheduled
\* around the barrier.
InOrder == \A t \in printed : \A u \in Ids : u < t => u \in printed

\* A thread that could not open the file never comes to the barrier, so that nobody
\* gets past the first wait: at most the line of thread 0 is out.
FailedHoldsAll == Failed # {} => printed \subseteq {0} /\ \A t \in Ids : i[t] = 0

\* main returns, unless a failed fopen leaves the other threads at the barrier.
Completes == <>(Exited \/ (Failed # {} /\ \E t \in Ids : at[t] = "in"))

\* A round of the barrier is a rendezvous: everybody has entered it before anybody
\* leaves it, and main returns without an error after everybody has left it.  A failing
\* join may end the process while the last threads have not left the round yet.
Round == INSTANCE Rendezvous WITH
    Workers <- Ids,
    LateFailure <- MayFail,
    arrived <- {t \in Ids : i[t] > watched \/ (i[t] = watched /\ at[t] = "in")},
    released <- {t \in Ids : i[t] > watched},
    verdict <- IF ~Exited THEN "none"
               ELSE IF pc = "exited" /\ Failed = {} THEN "NULL" ELSE "error"

\* Each round implements the rendezvous, although a fast thread may be a round ahead
\* of a slow one: nobody leaves it before all have entered it, main ends without an
\* error only after all have left it, and with one only when nobody has left it or all
\* have entered it.
RoundMeets == Round!Spec
===============================================================================
