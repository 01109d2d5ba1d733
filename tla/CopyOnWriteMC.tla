--------------------------- MODULE CopyOnWriteMC ------------------------------
\* Definitions for the runs of CopyOnWrite.
EXTENDS CopyOnWrite, TLC

\* Processes and frames are interchangeable.
Symmetry == Permutations(Proc) \cup Permutations(Frame)

\* What a free frame holds is never read: it is filled when it is taken.
Meaningful ==
  << state, pte, reading, in_hand, count, assertions,
     [f \in Frame |-> IF count[f] = 0 THEN NULL ELSE mem[f]] >>

=============================================================================
