-------------------------- MODULE MCReadWriteThreads --------------------------
(***************************************************************************)
(* Model checking of ReadWriteThreads with four threads: two rounds can    *)
(* overlap while a third thread has its turn.                              *)
(***************************************************************************)
EXTENDS ReadWriteThreads
===============================================================================
