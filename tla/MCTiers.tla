------------------------------ MODULE MCTiers ------------------------------
(***************************************************************************)
(* A root class A with two subclasses; C overrides "f" and may die.  In    *)
(* one program B inherits "c" from A, in the other it overrides it with a  *)
(* method that sends "f" to super.                                         *)
(***************************************************************************)
EXTENDS Tiers

MCChain == ("A" :> <<"A">>) @@ ("B" :> <<"B", "A">>) @@ ("C" :> <<"C", "A">>)
Plain == ("A" :> [c |-> 1, f |-> 1]) @@ ("B" :> [c |-> 0, f |-> 0]) @@ ("C" :> [c |-> 0, f |-> 1])
MCInitDicts == {Plain, [Plain EXCEPT !["B"].c = 1]}
MCRedefinitions == {[h |-> "A", s |-> "f", v |-> 2]}
MCColdSends == {[h |-> "B", s |-> "c", v |-> 1]}
MCMoves == {("A" :> "B") @@ ("B" :> "C") @@ ("C" :> "A")}
=============================================================================
