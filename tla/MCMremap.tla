------------------------------ MODULE MCMremap ------------------------------
(***************************************************************************)
(* Model checking of MremapAnon.  An area has the four pages of the code;  *)
(* a large area, 512 pages in the code, has five.  The address space has   *)
(* room for the widest layout (five areas) at two places, and for a layout *)
(* of two areas and the place it moves to.                                 *)
(***************************************************************************)
EXTENDS MremapAnon

AllDefects == {"keep_old", "no_copy", "keep_tail", "overlap", "grow_over", "wrong_errno",
               "clears_more", "grow_readonly", "shared_grows"}
=============================================================================
