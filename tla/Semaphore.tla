------------------------------ MODULE Semaphore ------------------------------
(***************************************************************************)
(* The semaphore of kernel/sync.c.                                         *)
(*                                                                         *)
(* sema_wait and sema_trywait run with interrupts off from beginning to    *)
(* end.  sema_post does not: the increment is one instruction, and the     *)
(* interrupts go off only afterwards, for the wake-up.  In between,        *)
(* another thread may wait, try or post, and the interrupt handler of the  *)
(* disk (intr_hd_handler) may post; the handler itself is not interrupted. *)
(***************************************************************************)
EXTENDS KList, Integers, FiniteSets

CONSTANTS Thread,    \* the threads that use the semaphore
          MaxCount   \* a bound on count, far below the 2^31 - 1 of an int

ASSUME SemaphoreAssumption == IsFiniteSet(Thread) /\ MaxCount \in Nat

VARIABLES count, wait_list,  \* the sem_t
          pc                 \* where each thread is

vars == << count, wait_list, pc >>

TypeOK ==
  /\ count \in Int /\ count <= MaxCount
  /\ wait_list \in Seq(Thread)
  /\ pc \in [Thread -> {"out",      \* outside the semaphore
                        "blocked",  \* in thread_block, in sema_wait
                        "pop"}]     \* in sema_post, a waiter still to be woken

\* sema_init(val)
Init ==
  /\ count \in 0 .. MaxCount
  /\ wait_list = list_init
  /\ pc = [t \in Thread |-> "out"]

-----------------------------------------------------------------------------
\* A wrong variant of unblock_first: the waiter is not unlinked.
unblock_linked(pcs) ==
  /\ pc' = [pcs EXCEPT ![list_first(wait_list)] = "out"]
  /\ UNCHANGED wait_list

\* pcs with the first waiter back in its sema_wait, which returns; and the
\* waiter unlinked.
unblock_first(pcs) ==
  /\ pc' = [pcs EXCEPT ![list_first(wait_list)] = "out"]
  /\ wait_list' = list_rest(wait_list)

\* sema_wait()
sema_wait(t) ==
  /\ pc[t] = "out"
  /\ count' = count - 1
  /\ IF count > 0
     THEN UNCHANGED << wait_list, pc >>
     ELSE /\ wait_list' = list_push_back(wait_list, t)
          /\ pc' = [pc EXCEPT ![t] = "blocked"]

\* A wrong variant of sema_trywait: a failure does not restore the count.
trywait_takes(t) ==
  /\ pc[t] = "out"
  /\ count' = count - 1
  /\ UNCHANGED << wait_list, pc >>

\* sema_trywait(), when it succeeds: a failure counts down and up again before
\* anyone can see it.
sema_trywait(t) ==
  /\ pc[t] = "out"
  /\ count > 0
  /\ count' = count - 1
  /\ UNCHANGED << wait_list, pc >>

\* A wrong variant of sema_post: the sign is taken after the increment.
post_tests_after(t) ==
  /\ pc[t] = "out" /\ count < MaxCount
  /\ count' = count + 1
  /\ pc' = IF count + 1 < 0 THEN [pc EXCEPT ![t] = "pop"] ELSE pc
  /\ UNCHANGED wait_list

\* sema_post() up to the increment, which says whether someone is queued.
sema_post(t) ==
  /\ pc[t] = "out" /\ count < MaxCount
  /\ count' = count + 1
  /\ pc' = IF count < 0 THEN [pc EXCEPT ![t] = "pop"] ELSE pc
  /\ UNCHANGED wait_list

\* The rest of sema_post(): list_pop_front and thread_unblock.
PopWaiter(t) ==
  /\ pc[t] = "pop" /\ ~ list_empty(wait_list)
  /\ unblock_first([pc EXCEPT ![t] = "out"])
  /\ UNCHANGED count

\* intr_hd_handler() calls sema_post(): the interrupts are off all the while.
HandlerPosts ==
  /\ count < MaxCount
  /\ count' = count + 1
  /\ IF count < 0
     THEN ~ list_empty(wait_list) /\ unblock_first(pc)
     ELSE UNCHANGED << wait_list, pc >>

Next ==
  \/ \E t \in Thread : sema_wait(t) \/ sema_trywait(t) \/ sema_post(t) \/ PopWaiter(t)
  \/ HandlerPosts

\* A thread that has begun sema_post is scheduled until it is through.
Fairness == \A t \in Thread : WF_vars(PopWaiter(t))

Spec == Init /\ [][Next]_vars
FairSpec == Spec /\ Fairness

-----------------------------------------------------------------------------
Popping == { t \in Thread : pc[t] = "pop" }

\* A negative count is the number of queued threads nobody has posted for; the
\* others of the queue each have a poster about to pop one.  So count, queue and
\* posters agree although sema_post changes one of them before the other.
CountMatches == Len(wait_list) = Cardinality(Popping) + (IF count < 0 THEN -count ELSE 0)

\* list_pop_front never finds the list empty, in sema_post by a thread or by
\* the handler: it would pass the head of the list to thread_unblock as a thread.
PopFindsWaiter ==
  /\ Popping # {} => ~ list_empty(wait_list)
  /\ count < 0 => ~ list_empty(wait_list)

\* The blocked threads are those queued, each once: none is woken without having
\* been unlinked, none is queued and running.
BlockedQueued ==
  /\ NoDuplicates(wait_list)
  /\ \A t \in Thread : pc[t] = "blocked" <=> list_find(wait_list, t)

\* The semaphore implements the abstract one: what lies in count, and what has
\* been posted for a queued thread but not yet delivered, are the permits.
Sem == INSTANCE FifoSemaphore WITH
         MaxPermits <- MaxCount,
         permits <- count + Len(wait_list),
         waiting <- wait_list
ImplementsSemaphore == Sem!Spec

=============================================================================
