------------------------------ MODULE Rendezvous ------------------------------
(***************************************************************************)
(* What a limits test promises, whatever it is made of: Workers (threads,  *)
(* processes) arrive, nobody is let go before all of them are there at the *)
(* same time, and the verdict is a success only when everybody was let go. *)
(* A test that gives up does so before it has let anybody go; where the    *)
(* joins after the meeting may fail too (LateFailure), also after all have *)
(* arrived.                                                                *)
(*                                                                         *)
(* CpuThreadLimits, CpuProcLimits and the rounds of ReadWriteThreads       *)
(* implement this specification.                                           *)
(***************************************************************************)
EXTENDS FiniteSets

CONSTANTS
    Workers,
    LateFailure     \* may the test give up after everybody has arrived?

VARIABLES
    arrived,    \* the workers that are there
    released,   \* the workers that were let go
    verdict     \* "none", "NULL" (success) or "error"

vars == <<arrived, released, verdict>>

Init ==
    /\ arrived = {}
    /\ released = {}
    /\ verdict = "none"

\* A worker may still arrive at a test that has given up.
Arrive(w) ==
    /\ w \notin arrived
    /\ arrived' = arrived \cup {w}
    /\ UNCHANGED <<released, verdict>>

Release(w) ==
    /\ verdict = "none"
    /\ arrived = Workers
    /\ w \notin released
    /\ released' = released \cup {w}
    /\ UNCHANGED <<arrived, verdict>>

Succeed ==
    /\ verdict = "none"
    /\ released = Workers
    /\ verdict' = "NULL"
    /\ UNCHANGED <<arrived, released>>

GiveUp ==
    /\ verdict = "none"
    /\ released = {} \/ (LateFailure /\ arrived = Workers)
    /\ verdict' = "error"
    /\ UNCHANGED <<arrived, released>>

Next == (\E w \in Workers : Arrive(w) \/ Release(w)) \/ Succeed \/ GiveUp

Spec == Init /\ [][Next]_vars
===============================================================================
