------------------------------- MODULE RWLock -------------------------------
(***************************************************************************)
(* The readers-writer lock of kernel/sync.c.                               *)
(*                                                                         *)
(* Every function runs with interrupts off except while it is blocked, so  *)
(* a step is a whole function, or what a function does between two calls   *)
(* of thread_block.  A thread that has been woken competes again: between  *)
(* the wake-up and its next turn, others may take the lock.                *)
(*                                                                         *)
(* rwlock_write_release asserts that ready_write is set.  ASSERT is        *)
(* compiled in unless NODEBUG is defined (include/kernel/debug.h); a       *)
(* failed one stops the machine with interrupts off.                       *)
(***************************************************************************)
EXTENDS KList, Integers, FiniteSets

CONSTANT Thread   \* the threads that use the lock

ASSUME RWLockAssumption == IsFiniteSet(Thread)

VARIABLES count,        \* the number of readers, or -1 for a writer
          ready_write,  \* a writer has had to wait
          read_waiter_list, write_waiter_list,
          pc,           \* where each thread is
          assertions    \* "on", "off" in a build with NODEBUG, "failed"

vars == << count, ready_write, read_waiter_list, write_waiter_list, pc, assertions >>

Labels == {"out",       \* outside the lock
           "rwait",     \* in thread_block, in rwlock_read_acquire
           "rretry",    \* woken, about to test the loop condition again
           "reading",
           "wwait", "wretry", "writing"}  \* the same for a writer

TypeOK ==
  /\ count \in Int
  /\ ready_write \in BOOLEAN
  /\ read_waiter_list \in Seq(Thread)
  /\ write_waiter_list \in Seq(Thread)
  /\ pc \in [Thread -> Labels]
  /\ assertions \in {"on", "off", "failed"}

\* rwlock_init()
Init ==
  /\ count = 0
  /\ ready_write = FALSE
  /\ read_waiter_list = list_init
  /\ write_waiter_list = list_init
  /\ pc = [t \in Thread |-> "out"]
  /\ assertions \in {"on", "off"}

-----------------------------------------------------------------------------
\* A wrong variant of rwlock_read_acquire: ready_write is not looked at.
read_acquire_barges(t) ==
  /\ pc[t] \in {"out", "rretry"}
  /\ IF count < 0
     THEN /\ read_waiter_list' = list_push_back(read_waiter_list, t)
          /\ pc' = [pc EXCEPT ![t] = "rwait"]
          /\ UNCHANGED count
     ELSE /\ count' = count + 1
          /\ pc' = [pc EXCEPT ![t] = "reading"]
          /\ UNCHANGED read_waiter_list
  /\ UNCHANGED << ready_write, write_waiter_list, assertions >>

\* One test of the loop condition of rwlock_read_acquire(), by a thread that
\* calls it or has been woken in it.
rwlock_read_acquire(t) ==
  /\ pc[t] \in {"out", "rretry"}
  /\ IF count < 0 \/ ready_write
     THEN /\ read_waiter_list' = list_push_back(read_waiter_list, t)
          /\ pc' = [pc EXCEPT ![t] = "rwait"]
          /\ UNCHANGED count
     ELSE /\ count' = count + 1
          /\ pc' = [pc EXCEPT ![t] = "reading"]
          /\ UNCHANGED read_waiter_list
  /\ UNCHANGED << ready_write, write_waiter_list, assertions >>

\* The first waiting writer is unlinked and unblocked, pcs being the threads'
\* places otherwise.
wake_writer(pcs) ==
  /\ pc' = [pcs EXCEPT ![list_first(write_waiter_list)] = "wretry"]
  /\ write_waiter_list' = list_rest(write_waiter_list)

wake_reader(pcs) ==
  /\ pc' = [pcs EXCEPT ![list_first(read_waiter_list)] = "rretry"]
  /\ read_waiter_list' = list_rest(read_waiter_list)

\* A wrong variant of rwlock_read_release: the last reader wakes nobody.
read_release_only(t) ==
  /\ pc[t] = "reading"
  /\ count' = count - 1
  /\ pc' = [pc EXCEPT ![t] = "out"]
  /\ UNCHANGED << ready_write, read_waiter_list, write_waiter_list, assertions >>

\* rwlock_read_release(): the last reader wakes a writer, or else one reader.
rwlock_read_release(t) ==
  LET pcs == [pc EXCEPT ![t] = "out"] IN
  /\ pc[t] = "reading"
  /\ count' = count - 1
  /\ IF count = 1 /\ ~ list_empty(write_waiter_list)
     THEN wake_writer(pcs) /\ UNCHANGED read_waiter_list
     ELSE IF count = 1 /\ ~ list_empty(read_waiter_list)
     THEN wake_reader(pcs) /\ UNCHANGED write_waiter_list
     ELSE pc' = pcs /\ UNCHANGED << read_waiter_list, write_waiter_list >>
  /\ UNCHANGED << ready_write, assertions >>

\* rwlock_write_acquire() when the lock is busy, or not; and wrong variants of
\* it: a writer does not look for readers, or not for a writer, or says nothing
\* of its waiting.
write_acquire(t, busy, announce) ==
  /\ pc[t] \in {"out", "wretry"}
  /\ IF busy
     THEN /\ ready_write' = (ready_write \/ announce)
          /\ write_waiter_list' = list_push_back(write_waiter_list, t)
          /\ pc' = [pc EXCEPT ![t] = "wwait"]
          /\ UNCHANGED count
     ELSE /\ count' = count - 1
          /\ pc' = [pc EXCEPT ![t] = "writing"]
          /\ UNCHANGED << ready_write, write_waiter_list >>
  /\ UNCHANGED << read_waiter_list, assertions >>

write_acquire_over_readers(t) == write_acquire(t, count < 0, TRUE)
write_acquire_over_writer(t) == write_acquire(t, count > 0, TRUE)
write_acquire_silently(t) == write_acquire(t, count # 0, FALSE)

\* One test of the loop condition of rwlock_write_acquire().
rwlock_write_acquire(t) ==
  /\ pc[t] \in {"out", "wretry"}
  /\ IF count # 0
     THEN /\ ready_write' = TRUE
          /\ write_waiter_list' = list_push_back(write_waiter_list, t)
          /\ pc' = [pc EXCEPT ![t] = "wwait"]
          /\ UNCHANGED count
     ELSE /\ count' = count - 1
          /\ pc' = [pc EXCEPT ![t] = "writing"]
          /\ UNCHANGED << ready_write, write_waiter_list >>
  /\ UNCHANGED << read_waiter_list, assertions >>

WriteReleaseOK == count = -1 /\ ready_write

\* A wrong variant of rwlock_write_release: ready_write is cleared in any case.
write_release_clears(t) ==
  LET pcs == [pc EXCEPT ![t] = "out"] IN
  /\ pc[t] = "writing"
  /\ WriteReleaseOK \/ assertions = "off"
  /\ count' = count + 1
  /\ ready_write' = FALSE
  /\ IF ~ list_empty(write_waiter_list)
     THEN wake_writer(pcs) /\ UNCHANGED read_waiter_list
     ELSE /\ pc' = [u \in Thread |->
                      IF list_find(read_waiter_list, u) THEN "rretry" ELSE pcs[u]]
          /\ read_waiter_list' = list_init
          /\ UNCHANGED write_waiter_list
  /\ UNCHANGED assertions

\* rwlock_write_release(): hands on to a writer, or else wakes every reader.
rwlock_write_release(t) ==
  LET pcs == [pc EXCEPT ![t] = "out"] IN
  /\ pc[t] = "writing"
  /\ WriteReleaseOK \/ assertions = "off"
  /\ count' = count + 1
  /\ IF ~ list_empty(write_waiter_list)
     THEN wake_writer(pcs) /\ UNCHANGED << ready_write, read_waiter_list >>
     ELSE /\ ready_write' = FALSE
          /\ pc' = [u \in Thread |->
                      IF list_find(read_waiter_list, u) THEN "rretry" ELSE pcs[u]]
          /\ read_waiter_list' = list_init
          /\ UNCHANGED write_waiter_list
  /\ UNCHANGED assertions

\* The assertion of rwlock_write_release fails: panic() never returns.
panic(t) ==
  /\ pc[t] = "writing"
  /\ ~ WriteReleaseOK /\ assertions = "on"
  /\ assertions' = "failed"
  /\ UNCHANGED << count, ready_write, read_waiter_list, write_waiter_list, pc >>

GoesOn(t) ==
  \/ pc[t] = "rretry" /\ rwlock_read_acquire(t)
  \/ pc[t] = "wretry" /\ rwlock_write_acquire(t)
  \/ rwlock_read_release(t)
  \/ rwlock_write_release(t)
  \/ panic(t)

Next ==
  /\ assertions # "failed"
  /\ \E t \in Thread :
       \/ rwlock_read_acquire(t) \/ rwlock_read_release(t)
       \/ rwlock_write_acquire(t) \/ rwlock_write_release(t)
       \/ panic(t)

\* The scheduler runs every ready thread; a thread that has been woken tests its
\* loop again, and one that holds the lock releases it.
Fairness == \A t \in Thread : WF_vars(assertions # "failed" /\ GoesOn(t))

Spec == Init /\ [][Next]_vars
FairSpec == Spec /\ Fairness

-----------------------------------------------------------------------------
Readers == { t \in Thread : pc[t] = "reading" }
Writers == { t \in Thread : pc[t] = "writing" }

\* count is what its readers and writers have made it: it is the only thing that
\* tells an acquirer who holds the lock.
CountHolds ==
  \/ Writers = {} /\ count = Cardinality(Readers)
  \/ Readers = {} /\ count = -1 /\ \E t \in Thread : Writers = {t}

\* ready_write keeps new readers out: whenever it is set, some writer is queued,
\* woken or writing, and it will clear the flag; and it is set for every queued
\* writer.  The flag outlives the acquire that set it, a woken writer may find
\* another one in, which clears the flag: neither strands the readers.
ReadyWriteMeant ==
  /\ ready_write => \E t \in Thread : pc[t] \in {"wwait", "wretry", "writing"}
  /\ ~ list_empty(write_waiter_list) => ready_write

\* Queued threads have someone to wake them: a holder, or, when the lock is
\* free, a writer on its way to the loop condition.
NoLostWakeup ==
  ~ list_empty(read_waiter_list) \/ ~ list_empty(write_waiter_list) =>
    \/ Readers # {} \/ Writers # {}
    \/ \E t \in Thread : pc[t] = "wretry"

\* While only readers hold the lock and no writer is queued, no reader is queued
\* either: the wake-up of a single reader by the last reader is never the only
\* thing that could save the rest of the queue.
NoReaderStranded ==
  count >= 0 /\ ~ list_empty(read_waiter_list) => ready_write

\* The blocked threads are those queued, each in the list of its kind, once.
WaitersLinked ==
  /\ NoDuplicates(read_waiter_list) /\ NoDuplicates(write_waiter_list)
  /\ \A t \in Thread : /\ pc[t] = "rwait" <=> list_find(read_waiter_list, t)
                       /\ pc[t] = "wwait" <=> list_find(write_waiter_list, t)

\* No reader gets in while a writer is queued.
WritersFirst ==
  [][\A t \in Readers' \ Readers : list_empty(write_waiter_list)]_vars

\* A queued writer is woken in the end, provided that the machine goes on:
\* readers cannot keep it out, and the writers take turns.
WriterWakes == \A t \in Thread : pc[t] = "wwait" ~> pc[t] # "wwait" \/ assertions = "failed"

Abstract == INSTANCE ReadersWriter WITH readers <- Readers, writers <- Writers
ImplementsLock == Abstract!Spec

=============================================================================
