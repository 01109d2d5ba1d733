------------------------------- MODULE BuddyMC -------------------------------
(***************************************************************************)
(* Instances of Buddy for TLC.  alloc_pages sets a page's private before   *)
(* anything reads it, so what a free page has kept there from its last     *)
(* owner makes no difference to what can happen next, nor to a property:   *)
(* states that differ only in it are explored once.                        *)
(***************************************************************************)
EXTENDS Buddy

View ==
  << pg_list, nr_free, bmap, count, freeing,
     [p \in Page |-> IF count[p] > 0 \/ p \in freeing THEN private[p] ELSE 0] >>

=============================================================================
