---------------------------- MODULE CpuProcLimits ----------------------------
(***************************************************************************)
(* cpu_proc_limits 000: RUN_FUNC makes a pair of pipes and a child for     *)
(* each of proc_num processes, kicks every child through its p2c pipe and  *)
(* reads an answer from its c2p pipe.                                      *)
(*                                                                         *)
(* What decides whether anybody hangs is who still holds which end of      *)
(* which pipe, because fork hands the child a copy of every descriptor the *)
(* parent has at that time: child i also holds the write ends of the p2c   *)
(* pipes of the children before it, and a read returns end-of-file only    *)
(* when the last copy is closed.  An end is <<pipe, i, side>>; pfd and     *)
(* cfd[i] are the sets of ends a process has open.  A pipe's content is a  *)
(* number of messages.  read and write are the library's, external to this *)
(* code.                                                                   *)
(***************************************************************************)
EXTENDS Integers

CONSTANTS
    proc_num,   \* the argument of -p
    MayFail     \* may pipe, fork and the calls before them fail?

ASSUME ProcAssumption == proc_num \in Nat /\ MayFail \in BOOLEAN

Children == 0 .. proc_num - 1

R == 0      \* index 0 of a pipe: the read end, PIDX_READ
W == 1      \* index 1 of a pipe: the write end, PIDX_WRITE
Ends == {"p2c", "c2p"} \X Children \X {R, W}
p2c(i) == {<<"p2c", i, R>>, <<"p2c", i, W>>}
c2p(i) == {<<"c2p", i, R>>, <<"c2p", i, W>>}

VARIABLES
    pc,         \* where RUN_FUNC is
    child,      \* child[i]: where child i is
    forks,      \* RUN_FUNC's counter of children
    next,       \* RUN_FUNC's loop counter in the kick and wait loops
    pfd,        \* the pipe ends the parent has open
    cfd,        \* cfd[i]: the pipe ends child i has open
    kick,       \* kick[i]: messages in child i's p2c pipe
    reply,      \* reply[i]: messages in child i's c2p pipe
    got,        \* got[i]: what child i's read returned: "none", "data", "eof"
    heard,      \* heard[i]: what RUN_FUNC's read of c2p[i] returned
    result      \* what RUN_FUNC returns: "NULL" is success

vars == <<pc, child, forks, next, pfd, cfd, kick, reply, got, heard, result>>

Open(e) == e \in pfd \/ \E i \in Children : e \in cfd[i]

Init ==
    /\ pc = "prepare"
    /\ child = [i \in Children |-> "none"]
    /\ forks = 0
    /\ next = 0
    /\ pfd = {}
    /\ cfd = [i \in Children |-> {}]
    /\ kick = [i \in Children |-> 0]
    /\ reply = [i \in Children |-> 0]
    /\ got = [i \in Children |-> "none"]
    /\ heard = [i \in Children |-> "none"]
    /\ result = "none"

Return(r) == result' = r /\ pc' = "report"

\* Argument checks, getrlimit, setrlimit, calloc.
Prepare ==
    /\ pc = "prepare"
    /\ \/ 0 < proc_num /\ pc' = "pipe" /\ UNCHANGED result
       \/ (MayFail \/ proc_num = 0) /\ Return("error")
    /\ UNCHANGED <<child, forks, next, pfd, cfd, kick, reply, got, heard>>

\* The ends RUN_FUNC closes for children it gives up: p2c[1] and c2p[0].
ParentEnds(n) == UNION {{<<"p2c", i, W>>, <<"c2p", i, R>>} : i \in {j \in Children : j < n}}

\* forkone: two pipes.  If one call fails the other pipe is closed again,
\* and so are the parent's ends of the children made before.
Pipe ==
    /\ pc = "pipe"
    /\ \/ /\ pfd' = pfd \cup p2c(forks) \cup c2p(forks)
          /\ pc' = "fork"
          /\ UNCHANGED result
       \/ /\ MayFail
          /\ pfd' = pfd \ ParentEnds(forks)
          /\ Return("error")
    /\ UNCHANGED <<child, forks, next, cfd, kick, reply, got, heard>>

\* fork() returns the child's pid: the child starts with a copy of every
\* descriptor.  The parent closes the child's ends unless it was the last one.
Fork_ok ==
    /\ pc = "fork"
    /\ forks' = forks + 1
    /\ child' = [child EXCEPT ![forks] = "start"]
    /\ cfd' = [cfd EXCEPT ![forks] = pfd]
    /\ pc' = IF forks + 1 < proc_num THEN "close" ELSE "kick"
    /\ UNCHANGED <<next, pfd, kick, reply, got, heard, result>>

Close_own_end ==
    /\ pc = "close"
    /\ pfd' = pfd \ {<<"p2c", forks - 1, W>>, <<"c2p", forks - 1, W>>}
    /\ pc' = "pipe"
    /\ UNCHANGED <<child, forks, next, cfd, kick, reply, got, heard, result>>

\* close(p2c[0]); close(c2p[1]); goto forkone.
Close ==
    /\ pc = "close"
    /\ pfd' = pfd \ {<<"p2c", forks - 1, R>>, <<"c2p", forks - 1, W>>}
    /\ pc' = "pipe"
    /\ UNCHANGED <<child, forks, next, cfd, kick, reply, got, heard, result>>

\* fork() fails: forks counts the child that was not made too, so its p2c[1]
\* and c2p[0] are closed with the others.
Fork_fails ==
    /\ pc = "fork"
    /\ MayFail
    /\ forks' = forks + 1
    /\ pfd' = pfd \ ParentEnds(forks + 1)
    /\ Return("error")
    /\ UNCHANGED <<child, next, cfd, kick, reply, got, heard>>

\* write to the p2c pipe of the next child; no reader would mean SIGPIPE.
Kick ==
    /\ pc = "kick"
    /\ IF Open(<<"p2c", next, R>>)
       THEN /\ kick' = [kick EXCEPT ![next] = @ + 1]
            /\ IF next + 1 < proc_num
               THEN next' = next + 1 /\ UNCHANGED pc
               ELSE next' = 0 /\ pc' = "wait"
            /\ UNCHANGED pfd
       ELSE /\ pc' = "gone"
            /\ pfd' = {}
            /\ UNCHANGED <<kick, next>>
    /\ UNCHANGED <<child, forks, cfd, reply, got, heard, result>>

Wait_no_read ==
    /\ pc = "wait"
    /\ heard' = [heard EXCEPT ![next] = IF reply[next] > 0 THEN "data" ELSE "eof"]
    /\ reply' = [reply EXCEPT ![next] = 0]
    /\ pfd' = pfd \ {<<"p2c", next, W>>, <<"c2p", next, R>>}
    /\ IF next + 1 < proc_num
       THEN next' = next + 1 /\ UNCHANGED <<pc, result>>
       ELSE next' = 0 /\ Return("NULL")
    /\ UNCHANGED <<child, forks, cfd, kick, got>>

Wait_closes_all ==
    /\ pc = "wait"
    /\ reply[next] > 0 \/ ~Open(<<"c2p", next, W>>)
    /\ heard' = [heard EXCEPT ![next] = IF reply[next] > 0 THEN "data" ELSE "eof"]
    /\ reply' = [reply EXCEPT ![next] = 0]
    /\ pfd' = pfd \ ParentEnds(proc_num)
    /\ IF next + 1 < proc_num
       THEN next' = next + 1 /\ UNCHANGED <<pc, result>>
       ELSE next' = 0 /\ Return("NULL")
    /\ UNCHANGED <<child, forks, cfd, kick, got>>

\* read from the c2p pipe of the next child, whose result is not looked at,
\* and close the two ends.
Wait ==
    /\ pc = "wait"
    /\ reply[next] > 0 \/ ~Open(<<"c2p", next, W>>)
    /\ heard' = [heard EXCEPT ![next] = IF reply[next] > 0 THEN "data" ELSE "eof"]
    /\ reply' = [reply EXCEPT ![next] = 0]
    /\ pfd' = pfd \ {<<"p2c", next, W>>, <<"c2p", next, R>>}
    /\ IF next + 1 < proc_num
       THEN next' = next + 1 /\ UNCHANGED <<pc, result>>
       ELSE next' = 0 /\ Return("NULL")
    /\ UNCHANGED <<child, forks, cfd, kick, got>>

\* main prints RESULT and the process ends; nobody waits for the children.
Report ==
    /\ pc = "report"
    /\ pc' = "gone"
    /\ pfd' = {}
    /\ UNCHANGED <<child, forks, next, cfd, kick, reply, got, heard, result>>

Child_start_keeps_end(i) ==
    /\ child[i] = "start"
    /\ cfd' = [cfd EXCEPT ![i] = @ \ {<<"c2p", i, R>>}]
    /\ child' = [child EXCEPT ![i] = "read"]
    /\ UNCHANGED <<pc, forks, next, pfd, kick, reply, got, heard, result>>

\* The child closes the parent's ends of its own two pipes.
Child_start(i) ==
    /\ child[i] = "start"
    /\ cfd' = [cfd EXCEPT ![i] = @ \ {<<"p2c", i, W>>, <<"c2p", i, R>>}]
    /\ child' = [child EXCEPT ![i] = "read"]
    /\ UNCHANGED <<pc, forks, next, pfd, kick, reply, got, heard, result>>

\* child_fn's read: data, or end-of-file when no write end is left.
Child_read(i) ==
    /\ child[i] = "read"
    /\ \/ /\ kick[i] > 0
          /\ got' = [got EXCEPT ![i] = "data"]
          /\ kick' = [kick EXCEPT ![i] = @ - 1]
          /\ child' = [child EXCEPT ![i] = "write"]
       \/ /\ kick[i] = 0 /\ ~Open(<<"p2c", i, W>>)
          /\ got' = [got EXCEPT ![i] = "eof"]
          /\ child' = [child EXCEPT ![i] = "exit"]
          /\ UNCHANGED kick
    /\ UNCHANGED <<pc, forks, next, pfd, cfd, reply, heard, result>>

\* After sleep(CHILD_SLEEP_SEC) the child answers; without a reader SIGPIPE
\* ends it.
Child_write(i) ==
    /\ child[i] = "write"
    /\ IF Open(<<"c2p", i, R>>)
       THEN /\ reply' = [reply EXCEPT ![i] = @ + 1]
            /\ child' = [child EXCEPT ![i] = "exit"]
            /\ UNCHANGED cfd
       ELSE /\ child' = [child EXCEPT ![i] = "gone"]
            /\ cfd' = [cfd EXCEPT ![i] = {}]
            /\ UNCHANGED reply
    /\ UNCHANGED <<pc, forks, next, pfd, kick, got, heard, result>>

\* The last two closes and _exit(0).
Child_exit(i) ==
    /\ child[i] = "exit"
    /\ child' = [child EXCEPT ![i] = "gone"]
    /\ cfd' = [cfd EXCEPT ![i] = {}]
    /\ UNCHANGED <<pc, forks, next, pfd, kick, reply, got, heard, result>>

Ended == pc = "gone" /\ \A i \in Children : child[i] \in {"none", "gone"}
Finished == Ended /\ UNCHANGED vars

RunFunc == Prepare \/ Pipe \/ Fork_ok \/ Close \/ Fork_fails \/ Kick \/ Wait \/ Report
Child(i) == Child_start(i) \/ Child_read(i) \/ Child_write(i) \/ Child_exit(i)
Next == RunFunc \/ (\E i \in Children : Child(i)) \/ Finished

Spec == Init /\ [][Next]_vars

\* Every process that can run is scheduled.
FairSpec == Spec /\ WF_vars(RunFunc) /\ \A i \in Children : WF_vars(Child(i))
-----------------------------------------------------------------------------
\* The variables have their types.
TypeOK ==
    /\ pc \in {"prepare", "pipe", "fork", "close", "kick", "wait", "report", "gone"}
    /\ child \in [Children -> {"none", "start", "read", "write", "exit", "gone"}]
    /\ forks \in 0 .. proc_num
    /\ next = 0 \/ next \in Children
    /\ pfd \subseteq Ends
    /\ cfd \in [Children -> SUBSET Ends]
    /\ kick \in [Children -> Nat]
    /\ reply \in [Children -> Nat]
    /\ got \in [Children -> {"none", "data", "eof"}]
    /\ heard \in [Children -> {"none", "data", "eof"}]
    /\ result \in {"none", "NULL", "error"}

\* RUN_FUNC ignores what its reads return, yet a NULL result does mean that
\* every one of the proc_num children was there at once, was kicked and
\* answered: no child is skipped and no read is an end-of-file.
OkMeansAllAnswered ==
    result = "NULL" => \A i \in Children : got[i] = "data" /\ heard[i] = "data"

\* A child sees end-of-file only after RUN_FUNC has given up: closing the
\* pipes of one child never cuts another one off.  RUN_FUNC, which does not look
\* at what its reads return, never sees one, and so takes none for an answer.
EofMeansGivenUp ==
    \A i \in Children : heard[i] # "eof" /\ (got[i] = "eof" => result = "error")

\* Neither side ever writes to a pipe nobody can read (SIGPIPE).
NoSigpipe ==
    /\ pc = "kick" => Open(<<"p2c", next, R>>)
    /\ \A i \in Children : child[i] = "write" => Open(<<"c2p", i, R>>)

\* The test is a rendezvous: a child has arrived when it was forked and is let go
\* when it reads its kick.
Meeting == INSTANCE Rendezvous WITH
    Workers <- Children,
    LateFailure <- FALSE,
    arrived <- {i \in Children : child[i] # "none"},
    released <- {i \in Children : got[i] = "data"},
    verdict <- result

\* cpu_proc_limits implements the rendezvous: no child is kicked before all were
\* forked, success means that each was, and a failing pipe or fork ends the test
\* before any of them was kicked.
ProcsMeet == Meeting!Spec

\* Although each child holds write ends of the pipes of its elder siblings,
\* all processes end: after a failure the youngest child sees end-of-file
\* first and its exit releases the one before it.
AllEnd == <>Ended
=============================================================================
