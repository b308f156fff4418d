--------------------------- MODULE MCCpuProcLimits ---------------------------
(***************************************************************************)
(* Model checking of CpuProcLimits with three children: enough for a child *)
(* that holds ends of two elder siblings, and for a fork that fails after  *)
(* none, one or two of them.                                               *)
(***************************************************************************)
EXTENDS CpuProcLimits
=============================================================================
