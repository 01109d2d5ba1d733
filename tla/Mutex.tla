-------------------------------- MODULE Mutex --------------------------------
(***************************************************************************)
(* The recursive mutex of kernel/sync.c.                                   *)
(*                                                                         *)
(* A step of a thread is a stretch of mutex_acquire or mutex_release that  *)
(* cannot be interrupted: a section with interrupts off, or one access to  *)
(* the shared mutex.  Threads interleave freely between steps, as the      *)
(* timer allows.  In addition an interrupt handler that uses the same      *)
(* mutex (keyboard_handler, through ioqueue_putchar and console_printk)    *)
(* may run on the stack of the thread it interrupts; get_current() then    *)
(* answers with that thread.  IntrOn says at which places of the code      *)
(* below the callers have interrupts on: a system call runs with them off, *)
(* a kernel thread with them on.                                           *)
(***************************************************************************)
EXTENDS KList

CONSTANTS Thread,     \* the threads that use the mutex
          NULL,       \* no thread
          MaxRepeat,  \* a bound on how deep the callers nest their acquires
          IntrOn      \* the labels at which the handler can interrupt

Labels == {"out",      \* outside the mutex
           "xchg",     \* at the head of the loop of mutex_acquire
           "blocked",  \* in thread_block
           "sethold", "setrep",  \* after the loop, before holder and repeat are set
           "cs",       \* mutex_acquire has returned
           "clear",    \* repeat is 0, holder not yet NULL
           "unlock",   \* holder is NULL, is_lock still true
           "wake"}     \* unlocked, the waiter in elem still to be unblocked

ASSUME MutexAssumption ==
  /\ NULL \notin Thread
  /\ MaxRepeat \in Nat \ {0}
  /\ IntrOn \subseteq Labels \ {"blocked"}

VARIABLES is_lock, wait_list, holder, repeat,  \* the mutex_lock_t
          pc,      \* where each thread is
          hpc,     \* where the handler on each thread's stack is: "none", "xchg", "blocked"
          elem,    \* the waiter each thread has popped and not yet unblocked
          nested   \* how many acquires each caller has to release

mutex == << is_lock, wait_list, holder, repeat >>
vars == << mutex, pc, hpc, elem, nested >>

TypeOK ==
  /\ is_lock \in BOOLEAN
  /\ wait_list \in Seq(Thread)
  /\ holder \in Thread \cup {NULL}
  /\ repeat \in 0 .. MaxRepeat
  /\ pc \in [Thread -> Labels]
  /\ hpc \in [Thread -> {"none", "xchg", "blocked"}]
  /\ elem \in [Thread -> Thread \cup {NULL}]
  /\ nested \in [Thread -> 0 .. MaxRepeat]

\* mutex_lock_init()
Init ==
  /\ is_lock = FALSE
  /\ wait_list = list_init
  /\ holder = NULL
  /\ repeat = 0
  /\ pc = [t \in Thread |-> "out"]
  /\ hpc = [t \in Thread |-> "none"]
  /\ elem = [t \in Thread |-> NULL]
  /\ nested = [t \in Thread |-> 0]

-----------------------------------------------------------------------------
\* t executes the code at label l, with no interrupt handler on its stack.
At(t, l) == pc[t] = l /\ hpc[t] = "none"
Goto(t, l) == pc' = [pc EXCEPT ![t] = l]

\* A call of mutex_acquire() by a thread that is outside, or nested in cs: the
\* holder counts, any other thread enters the loop.
mutex_acquire(t) ==
  /\ \/ At(t, "out")
     \/ At(t, "cs") /\ nested[t] < MaxRepeat
  /\ IF holder = t
     THEN /\ repeat' = repeat + 1
          /\ nested' = [nested EXCEPT ![t] = @ + 1]
          /\ UNCHANGED pc
     ELSE /\ Goto(t, "xchg")
          /\ UNCHANGED << repeat, nested >>
  /\ UNCHANGED << is_lock, wait_list, holder, hpc, elem >>

\* Wrong variants of Xchg: the value exchanged is not looked at; the waiter is
\* queued in front of those that wait already.
xchg_ignored(t) ==
  /\ At(t, "xchg")
  /\ is_lock' = TRUE /\ Goto(t, "sethold")
  /\ UNCHANGED << wait_list, holder, repeat, hpc, elem, nested >>

xchg_queues_in_front(t) ==
  /\ At(t, "xchg")
  /\ is_lock' = TRUE
  /\ IF is_lock
     THEN wait_list' = list_push_front(wait_list, t) /\ Goto(t, "blocked")
     ELSE wait_list' = wait_list /\ Goto(t, "sethold")
  /\ UNCHANGED << holder, repeat, hpc, elem, nested >>

\* One turn of the loop, with interrupts off: exchange, and on failure queue
\* and block.
Xchg(t) ==
  /\ At(t, "xchg")
  /\ is_lock' = TRUE
  /\ IF is_lock
     THEN wait_list' = list_push_back(wait_list, t) /\ Goto(t, "blocked")
     ELSE wait_list' = wait_list /\ Goto(t, "sethold")
  /\ UNCHANGED << holder, repeat, hpc, elem, nested >>

\* The two assignments after the loop, with interrupts as the caller had them.
SetHolder(t) ==
  /\ At(t, "sethold") /\ Goto(t, "setrep")
  /\ holder' = t
  /\ UNCHANGED << is_lock, wait_list, repeat, hpc, elem, nested >>

SetRepeat(t) ==
  /\ At(t, "setrep") /\ Goto(t, "cs")
  /\ repeat' = 1
  /\ nested' = [nested EXCEPT ![t] = 1]
  /\ UNCHANGED << is_lock, wait_list, holder, hpc, elem >>

\* mutex_release(): ASSERT(holder == current), then --repeat.
mutex_release(t) ==
  /\ At(t, "cs") /\ holder = t
  /\ repeat' = repeat - 1
  /\ nested' = [nested EXCEPT ![t] = @ - 1]
  /\ Goto(t, IF repeat = 1 THEN "clear" ELSE "cs")
  /\ UNCHANGED << is_lock, wait_list, holder, hpc, elem >>

ClearHolder(t) ==
  /\ At(t, "clear") /\ Goto(t, "unlock")
  /\ holder' = NULL
  /\ UNCHANGED << is_lock, wait_list, repeat, hpc, elem, nested >>

\* With interrupts off: is_lock is exchanged with false (ASSERT: it was true)
\* and the first waiter, if any, is popped.
FirstWaiter == IF list_empty(wait_list) THEN NULL ELSE list_first(wait_list)

\* Wrong variants of Unlock: the waiters are forgotten; the first of them is
\* looked at but not unlinked.
unlock_only(t) ==
  /\ At(t, "unlock") /\ is_lock
  /\ is_lock' = FALSE /\ Goto(t, "out")
  /\ UNCHANGED << wait_list, holder, repeat, hpc, elem, nested >>

unlock_keeps_link(t) ==
  /\ At(t, "unlock") /\ is_lock
  /\ is_lock' = FALSE
  /\ elem' = [elem EXCEPT ![t] = FirstWaiter]
  /\ Goto(t, IF list_empty(wait_list) THEN "out" ELSE "wake")
  /\ UNCHANGED << wait_list, holder, repeat, hpc, nested >>

Unlock(t) ==
  /\ At(t, "unlock") /\ is_lock
  /\ is_lock' = FALSE
  /\ wait_list' = list_rest(wait_list)
  /\ elem' = [elem EXCEPT ![t] = FirstWaiter]
  /\ Goto(t, IF list_empty(wait_list) THEN "out" ELSE "wake")
  /\ UNCHANGED << holder, repeat, hpc, nested >>

\* A wrong variant of thread_unblock: mutex_acquire has an if where it has a
\* loop, and the woken thread takes the lock for its own.
unblock_into_section(w, pcs, hpcs) ==
  /\ pc' = IF w = NULL THEN pcs ELSE [pcs EXCEPT ![w] = "sethold"]
  /\ hpc' = hpcs

\* thread_unblock(w), the threads being at pcs and hpcs: w resumes after its
\* thread_block, in its own mutex_acquire or in that of the handler on its stack.
thread_unblock(w, pcs, hpcs) ==
  IF w # NULL /\ hpcs[w] = "blocked"
  THEN pc' = pcs /\ hpc' = [hpcs EXCEPT ![w] = "xchg"]
  ELSE /\ pc' = IF w = NULL THEN pcs ELSE [pcs EXCEPT ![w] = "xchg"]
       /\ hpc' = hpcs

Wake(t) ==
  /\ At(t, "wake")
  /\ thread_unblock(elem[t], [pc EXCEPT ![t] = "out"], hpc)
  /\ elem' = [elem EXCEPT ![t] = NULL]
  /\ UNCHANGED << mutex, nested >>

-----------------------------------------------------------------------------
\* The handler acquires and releases the mutex with interrupts off, so in one
\* step unless it has to block.  hpcs: where the handlers are afterwards.

\* mutex_release with repeat at 1: unlock, and unblock the first waiter.
HandlerUnlocks(hpcs) ==
  /\ holder' = NULL /\ repeat' = 0 /\ is_lock' = FALSE
  /\ wait_list' = list_rest(wait_list)
  /\ thread_unblock(FirstWaiter, pc, hpcs)
  /\ UNCHANGED << elem, nested >>

\* mutex_acquire takes the interrupted thread for the holder and counts one up,
\* mutex_release counts down again, and unlocks if repeat was 0 before.
HandlerNests(t, hpcs) ==
  /\ holder = t
  /\ IF repeat = 0 THEN HandlerUnlocks(hpcs) ELSE hpc' = hpcs /\ UNCHANGED << mutex, pc, elem, nested >>

\* mutex_acquire succeeds, and so mutex_release unlocks again.
HandlerPasses(t, hpcs) == holder # t /\ ~ is_lock /\ HandlerUnlocks(hpcs)

\* mutex_acquire queues and blocks the interrupted thread.
HandlerBlocks(t) ==
  /\ holder # t /\ is_lock
  /\ wait_list' = list_push_back(wait_list, t)
  /\ hpc' = [hpc EXCEPT ![t] = "blocked"]
  /\ UNCHANGED << is_lock, holder, repeat, pc, elem, nested >>

\* The interrupt arrives while t runs.
Interrupt(t) ==
  /\ pc[t] \in IntrOn /\ hpc[t] = "none"
  /\ HandlerNests(t, hpc) \/ HandlerPasses(t, hpc) \/ HandlerBlocks(t)

\* The handler goes on after having been blocked.
HandlerRetries(t) ==
  /\ hpc[t] = "xchg"
  /\ HandlerPasses(t, [hpc EXCEPT ![t] = "none"]) \/ HandlerBlocks(t)

ThreadStep(t) ==
  \/ Xchg(t) \/ SetHolder(t) \/ SetRepeat(t)
  \/ mutex_release(t) \/ ClearHolder(t) \/ Unlock(t) \/ Wake(t)
  \/ HandlerRetries(t)

Next == \E t \in Thread : mutex_acquire(t) \/ ThreadStep(t) \/ Interrupt(t)

\* The scheduler runs every ready thread in turn (KThread!ReadyRuns), so each
\* goes on once it has called mutex_acquire.  Callers release what they acquire:
\* none nests for ever without ever coming to its last release.
Fairness == \A t \in Thread : WF_vars(ThreadStep(t)) /\ SF_vars(mutex_release(t) /\ nested[t] = 1)

Spec == Init /\ [][Next]_vars
FairSpec == Spec /\ Fairness

-----------------------------------------------------------------------------
Owning == {"sethold", "setrep", "cs", "clear", "unlock"}

\* At most one thread is past the exchange: whichever way the acquires, the
\* releases and the wake-ups interleave, and although a woken waiter does not
\* inherit the lock but competes for it.
MutualExclusion ==
  \A t, u \in Thread : pc[t] \in Owning /\ pc[u] \in Owning => t = u

\* The assertions of mutex_release never fail: the thread that releases is the
\* holder, and the lock it exchanges is locked.
ReleaseAsserts ==
  \A t \in Thread : /\ At(t, "cs") => holder = t
                    /\ At(t, "unlock") => is_lock

\* repeat counts the acquires of the thread in the critical section: it is
\* shared by all of them and written with interrupts on.
RepeatCounts == \A t \in Thread : pc[t] = "cs" => repeat = nested[t]

\* A free lock with queued waiters is about to be retried: the release has
\* popped one that still has to be unblocked, or one is on its way to xchg.
\* Otherwise the waiters would sleep for ever next to a free lock.
NoLostWakeup ==
  ~ is_lock /\ ~ list_empty(wait_list) =>
    \E t \in Thread : At(t, "xchg") \/ At(t, "wake") \/ hpc[t] = "xchg"

\* The threads that are in thread_block are exactly those linked in wait_list
\* or popped by one releasing thread, each of them once.
Sleeping(t) == hpc[t] = "blocked" \/ At(t, "blocked")
WaitersLinked ==
  /\ NoDuplicates(wait_list)
  /\ \A t \in Thread :
       Sleeping(t) <=> list_find(wait_list, t) \/ \E u \in Thread : elem[u] = t
  /\ \A t, u \in Thread : elem[t] # NULL => /\ elem[t] = elem[u] => t = u
                                            /\ ~ list_find(wait_list, elem[t])

\* The list is popped from the front and nobody waits at a free lock, so every
\* blocked thread is woken in the end (though it may find the lock taken again):
\* only a handler can keep it, which has interrupted the thread that was to wake
\* it and waits for the lock as well, over and over.
SleeperWakes ==
  \A t \in Thread :
    Sleeping(t) ~> ~ Sleeping(t) \/ \E u \in Thread : elem[u] = t /\ hpc[u] # "none"

\* The lock implements the abstract one.  The exchange decides who the owner is;
\* repeat is its depth, but for the places where the owner has yet to set it or
\* has just cleared it.
Owners == { t \in Thread : pc[t] \in Owning }
Depth ==
  IF Owners = {} THEN 0
  ELSE IF \E t \in Thread : pc[t] \in {"sethold", "setrep", "clear", "unlock"} THEN 1 ELSE repeat
Lock == INSTANCE RecursiveLock WITH owners <- Owners, depth <- Depth
ImplementsLock == Lock!Spec

=============================================================================
