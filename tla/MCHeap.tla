------------------------------- MODULE MCHeap -------------------------------
(* Objects that straddle cards of three words, and one kind eden cannot hold. *)
EXTENDS Heap, TLC

CONSTANTS o1, o2, o3
MCVmRoots == {1}
MCCodeRoots == {2}
MCIds == {o1, o2, o3}
Small == [size |-> 2, slots |-> 1]
Big == [size |-> 4, slots |-> 1]
SmallAndBig == {Small, Big}
All == {"gcScavenge", "gcFull", "runtimeStore"}
Symmetry == Permutations(MCIds)
=============================================================================
