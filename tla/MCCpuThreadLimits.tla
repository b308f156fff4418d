-------------------------- MODULE MCCpuThreadLimits --------------------------
(***************************************************************************)
(* Model checking of CpuThreadLimits, both test numbers at three threads.  *)
(* Seven divisions do not divide evenly among three threads.               *)
(***************************************************************************)
EXTENDS CpuThreadLimits
=============================================================================
