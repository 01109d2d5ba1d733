---------------------------- MODULE PageAllocator ----------------------------
(***************************************************************************)
(* What a page allocator promises: a run of pages of the pool and the size *)
(* asked for, aligned to its size, no page of which has another owner, and *)
(* which is nobody else's until it has been freed as often as it was       *)
(* shared.                                                                 *)
(***************************************************************************)
EXTENDS Integers

CONSTANTS Page,       \* the page frames, from 0
          PoolPages,  \* the pages of each pool
          Sizes       \* the sizes of the runs

VARIABLE owned  \* the owned runs: [first, size, refs]

Run(r) == r.first .. r.first + r.size - 1
Runs == [first : Page, size : Sizes, refs : Nat]

Init == owned \subseteq Runs /\ \A r, s \in owned : r # s => Run(r) \cap Run(s) = {}

Alloc(pool, size) ==
  \E first \in PoolPages[pool] :
    LET r == [first |-> first, size |-> size, refs |-> 1]
    IN  /\ first % size = 0 /\ Run(r) \subseteq PoolPages[pool]
        /\ \A s \in owned : Run(r) \cap Run(s) = {}
        /\ owned' = owned \cup {r}

\* The owners of r become n.
Count(r, n) ==
  owned' = (owned \ {r}) \cup (IF n = 0 THEN {} ELSE {[r EXCEPT !.refs = n]})

Next ==
  \/ \E pool \in DOMAIN PoolPages, size \in Sizes : Alloc(pool, size)
  \/ \E r \in owned : Count(r, r.refs + 1) \/ Count(r, r.refs - 1)

Spec == Init /\ [][Next]_owned

=============================================================================
