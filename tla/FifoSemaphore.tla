---------------------------- MODULE FifoSemaphore ----------------------------
(***************************************************************************)
(* What the semaphore of kernel/sync.c promises.  Permits are counted, the *)
(* callers that find none left wait in a queue, and a permit is reserved   *)
(* for each queued caller before one is free for a newcomer: nobody passes *)
(* the queue, and nobody waits while a permit is reserved for it.          *)
(***************************************************************************)
EXTENDS Integers, Sequences

CONSTANTS Thread, MaxPermits

VARIABLES permits,  \* posted and not yet consumed
          waiting   \* the queued callers, first come first

vars == << permits, waiting >>

Init == permits \in 0 .. MaxPermits /\ waiting = << >>

Post == permits' = permits + 1 /\ UNCHANGED waiting

\* A caller takes a permit that no queued caller is waiting for.
Pass ==
  /\ permits > Len(waiting)
  /\ permits' = permits - 1
  /\ UNCHANGED waiting

Join(t) ==
  /\ permits <= Len(waiting)
  /\ t \notin { waiting[i] : i \in DOMAIN waiting }
  /\ waiting' = Append(waiting, t)
  /\ UNCHANGED permits

\* The first queued caller gets its permit.
Grant ==
  /\ permits > 0 /\ waiting # << >>
  /\ permits' = permits - 1
  /\ waiting' = Tail(waiting)

\* A permit is posted and at once given to the first queued caller.
PostAndGrant ==
  /\ waiting # << >>
  /\ waiting' = Tail(waiting)
  /\ UNCHANGED permits

Next == Post \/ Pass \/ (\E t \in Thread : Join(t)) \/ Grant \/ PostAndGrant

\* A permit does not lie there while a caller is queued.
Spec == Init /\ [][Next]_vars /\ WF_vars(Grant)

=============================================================================
