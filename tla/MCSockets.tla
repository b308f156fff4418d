------------------------------- MODULE MCSockets -------------------------------
(***************************************************************************)
(* Model checking of Sockets with the retry and message counts of the      *)
(* source.                                                                 *)
(***************************************************************************)
EXTENDS Sockets

AnyCall == {"pthread_create", "bind", "listen", "accept", "recv", "connect", "send", "pthread_join"}
================================================================================
