-------------------------------- MODULE HeapMC --------------------------------
(***************************************************************************)
(* An instance of Heap for TLC: pages of seven units, cut into three blocks*)
(* of two or two blocks of three.                                          *)
(***************************************************************************)
EXTENDS Heap, TLC

Sizes == << 2, 3 >>
Counts == << 3, 2 >>

\* The kernel threads are interchangeable.
Symmetry == Permutations(Kthread)

=============================================================================
