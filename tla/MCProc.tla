------------------------------- MODULE MCProc -------------------------------
(***************************************************************************)
(* ProcSession with the programs of ProcTests: four CPUs, up to three      *)
(* children.                                                               *)
(***************************************************************************)
EXTENDS ProcSession, ProcTests
=============================================================================
