------------------------------ MODULE LinkedList ------------------------------
(***************************************************************************)
(* The intrusive list of lib/kernel/list.c by its pointers, where a client *)
(* does what a sequence cannot tell.  m holds the head and tail of every   *)
(* list and the prev and next of every element: an element has one of each,*)
(* whatever list it is in.  The operations leave old values in the pointers*)
(* of what they unlink, and in the prev of a new head.                     *)
(***************************************************************************)
EXTENDS Naturals, Sequences, FiniteSets, Functions

CONSTANTS Elem, NULL

\* list_init() of every list.
list_init(lists) ==
  [head |-> [l \in lists |-> NULL], tail |-> [l \in lists |-> NULL],
   prev |-> [e \in Elem |-> NULL], next |-> [e \in Elem |-> NULL]]

list_empty(m, l) == m.head[l] = NULL

\* A wrong variant of list_push_back: the next of the new tail is left as it is.
list_push_back_next(m, l, e) ==
  IF m.tail[l] = NULL
  THEN [m EXCEPT !.head[l] = e, !.tail[l] = e, !.prev[e] = NULL, !.next[e] = NULL]
  ELSE [m EXCEPT !.next[m.tail[l]] = e, !.prev[e] = m.tail[l], !.tail[l] = e]

\* If e is the tail already, its next is set to itself and then cleared.
list_push_back(m, l, e) ==
  IF m.tail[l] = NULL
  THEN [m EXCEPT !.head[l] = e, !.tail[l] = e, !.prev[e] = NULL, !.next[e] = NULL]
  ELSE [m EXCEPT !.next[m.tail[l]] = e, !.prev[e] = m.tail[l], !.next[e] = NULL,
                 !.tail[l] = e]

\* What one finds from the head on, until there is no next or one has met more
\* elements than there are.
Chain(m, l) ==
  LET at[n \in 0 .. Cardinality(Elem)] ==
        IF n = 0 THEN m.head[l] ELSE IF at[n - 1] = NULL THEN NULL ELSE m.next[at[n - 1]]
      met == { n \in DOMAIN at : at[n] # NULL }
  IN [n \in 1 .. Cardinality(met) |-> at[n - 1]]

list_find(m, l, e) == e \in Range(Chain(m, l))

\* list_delete() of an element that is there.
list_delete(m, l, e) ==
  IF m.head[l] = m.tail[l] THEN [m EXCEPT !.head[l] = NULL, !.tail[l] = NULL]
  ELSE IF m.head[l] = e THEN [m EXCEPT !.head[l] = m.next[e], !.prev[m.next[e]] = NULL]
  ELSE IF m.tail[l] = e THEN [m EXCEPT !.tail[l] = m.prev[e], !.next[m.prev[e]] = NULL]
  ELSE [m EXCEPT !.next[m.prev[e]] = m.next[e], !.prev[m.next[e]] = m.prev[e],
                 !.prev[e] = NULL, !.next[e] = NULL]

\* The pointers of l agree: each element is met once, the last is the tail and has no
\* next, and each but the first knows the one before.
WellLinked(m, l) ==
  LET c == Chain(m, l)
  IN /\ IsInjective(c)
     /\ IF c = << >> THEN m.tail[l] = NULL
        ELSE m.tail[l] = c[Len(c)] /\ m.next[c[Len(c)]] = NULL
     /\ \A n \in 2 .. Len(c) : m.prev[c[n]] = c[n - 1]

=============================================================================
