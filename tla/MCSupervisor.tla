---------------------------- MODULE MCSupervisor ----------------------------
(* The Cocoa host on small bounds; the .cfg gives the numbers. *)
EXTENDS Supervisor
=============================================================================
