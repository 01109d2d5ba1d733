------------------------------- MODULE KList -------------------------------
(***************************************************************************)
(* The intrusive list of lib/kernel/list.c, as its users see it: a finite  *)
(* sequence of elements.  Every list operation runs with interrupts off,   *)
(* so on this single-CPU kernel each one is atomic.  (How the head, tail,  *)
(* prev and next pointers realise the sequence is the subject of module    *)
(* LinkedList.)                                                            *)
(*                                                                         *)
(* A task_struct has one list_elem, task_tag, used for the ready list and  *)
(* for every wait list: an element pushed while it is still linked         *)
(* elsewhere corrupts both lists, which is why the properties of the other *)
(* modules speak of duplicate-free and disjoint lists.                     *)
(***************************************************************************)
EXTENDS Naturals, Sequences, Functions

list_init == << >>

list_empty(l) == l = << >>

list_push_back(l, e) == Append(l, e)

list_push_front(l, e) == << e >> \o l

\* list_pop_front returns NULL, and changes nothing, when the list is empty:
\* list_first is defined for a non-empty list, list_rest for every list.
list_first(l) == Head(l)

list_rest(l) == IF list_empty(l) THEN l ELSE Tail(l)

\* The set of linked elements; list_find(l, e) is e \in Elems(l).
Elems(l) == Range(l)

list_find(l, e) == e \in Elems(l)

\* No element is linked twice.
NoDuplicates(l) == IsInjective(l)

=============================================================================
