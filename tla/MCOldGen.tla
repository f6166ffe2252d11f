------------------------------ MODULE MCOldGen ------------------------------
(* Cards of two words, chains that skip at most two cards. *)
EXTENDS OldGen
MCSizes == {1, 3, 4, 11}
=============================================================================
