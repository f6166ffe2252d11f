------------------------------ MODULE MCUnwind ------------------------------
(* One VM on small bounds; the .cfg gives the numbers. *)
EXTENDS Unwind
=============================================================================
