------------------------------ MODULE KThread ------------------------------
(***************************************************************************)
(* The thread scheduler: kernel/kthread.c, the timer interrupt of          *)
(* device/timer.c, fork and exit as far as they touch the scheduler        *)
(* (kernel/fork.c, kernel/exit.c) and the pid bitmap of user/process.c.    *)
(*                                                                         *)
(* One CPU.  Every operation below runs with IF = 0 in the code (it is in  *)
(* an interrupt handler, a system call, or between intr_disable and        *)
(* intr_set_status), so each is one atomic action.  Between two actions    *)
(* the interrupts may be on, and the timer or a device may interrupt       *)
(* whichever thread is current.                                            *)
(***************************************************************************)
EXTENDS KList

CONSTANTS Thread,    \* the page frames that can hold a task_struct
          main,      \* the boot thread, at 0xc009e000
          idle,      \* the thread that runs when no other is ready
          NULL,      \* no thread
          WaitList,  \* the wait lists of the synchronisation objects
          Prio,      \* task_struct.prio: the time slice, in ticks
          MaxTicks,  \* a bound on the ticks left in a recycled page
          MAX_PID    \* the size of the pid bitmap

ASSUME ThreadAssumption ==
  /\ main \in Thread /\ idle \in Thread /\ main # idle
  /\ NULL \notin Thread
ASSUME TickAssumption ==
  /\ Prio \in Nat /\ MaxTicks \in Nat /\ Prio <= MaxTicks
ASSUME PidAssumption == MAX_PID \in Nat /\ MAX_PID >= 2

VARIABLES current,     \* the thread whose stack the CPU uses
          state,       \* task_struct.state; "FREE": the page holds no thread
          ready_list,
          wait_list,   \* the contents of every wait list
          elem,        \* the waiter each thread has popped in mutex_release and
                       \* not yet unblocked
          ticks,       \* task_struct.ticks: what is left of the time slice
          idle_pc,     \* where idle_thread is: before thread_block, or at hlt
          pid,         \* task_struct.pid
          pid_bitmap   \* the pids in use

vars == << current, state, ready_list, wait_list, elem, ticks, idle_pc, pid, pid_bitmap >>

States == {"RUNNING", "READY", "BLOCKED", "EXIT", "FREE"}
Pid == 0 .. MAX_PID - 1
Live == { t \in Thread : state[t] # "FREE" }

TypeOK ==
  /\ current \in Thread
  /\ state \in [Thread -> States]
  /\ ready_list \in Seq(Thread)
  /\ wait_list \in [WaitList -> Seq(Thread)]
  /\ elem \in [Thread -> Thread \cup {NULL}]
  /\ ticks \in [Thread -> 0 .. MaxTicks]
  /\ idle_pc \in {"block", "hlt"}
  /\ pid \in [Thread -> Pid]
  /\ pid_bitmap \in SUBSET Pid

-----------------------------------------------------------------------------
\* alloc_pid takes the lowest clear bit (the code panics when there is none),
\* free_pid clears the bit again.
alloc_pid(p) == p \in Pid \ pid_bitmap /\ \A q \in Pid \ pid_bitmap : p <= q
free_pid(p) == pid_bitmap' = pid_bitmap \ {p}

\* After thread_init: main runs with pid 0 and idle, pid 1, is queued.  Nothing
\* writes the ticks field of either: it is whatever the memory held.
Init ==
  /\ current = main
  /\ state = [[t \in Thread |-> "FREE"] EXCEPT ![main] = "RUNNING", ![idle] = "READY"]
  /\ ready_list = << idle >>
  /\ wait_list = [w \in WaitList |-> list_init]
  /\ elem = [t \in Thread |-> NULL]
  /\ ticks \in [Thread -> 0 .. MaxTicks]
  /\ idle_pc = "block"
  /\ pid = [t \in Thread |-> IF t = idle THEN 1 ELSE 0]
  /\ pid_bitmap = {0, 1}

\* schedule(), called when the states are st, the ready list is rl and the
\* time slices are tk.  A running current goes to the back of the ready list
\* with a new time slice, an exiting one gives back its pid and its page, any
\* other was queued by the caller.  The front of the ready list, or idle when
\* the list is empty, runs next.
schedule(st, rl, tk) ==
  LET expired == st[current] = "RUNNING"
      queue   == IF expired THEN list_push_back(rl, current) ELSE rl
      next    == IF list_empty(queue) THEN idle ELSE list_first(queue)
      left    == IF expired THEN "READY"
                 ELSE IF st[current] = "EXIT" THEN "FREE" ELSE st[current]
  IN  /\ ready_list' = list_rest(queue)
      /\ current' = next
      /\ state' = [st EXCEPT ![current] = left, ![next] = "RUNNING"]
      /\ ticks' = IF expired THEN [tk EXCEPT ![current] = Prio] ELSE tk

\* The current thread is between the pop and the wake-up of mutex_release, and does
\* nothing else before the latter.  (A handler on its stack may block or wake.)
InHand == elem[current] # NULL

\* kthread_create(): a new descriptor, in a page that is not cleared.
kthread_create(t, p) ==
  /\ current # idle /\ ~ InHand
  /\ state[t] = "FREE" /\ alloc_pid(p)
  /\ state' = [state EXCEPT ![t] = "READY"]
  /\ ready_list' = list_push_back(ready_list, t)
  /\ \E garbage \in 0 .. MaxTicks : ticks' = [ticks EXCEPT ![t] = garbage]
  /\ pid' = [pid EXCEPT ![t] = p]
  /\ pid_bitmap' = pid_bitmap \cup {p}
  /\ UNCHANGED << current, wait_list, elem, idle_pc >>

\* thread_yield(): slock_lock and ticks_to_sleep call it in a loop.
thread_yield ==
  /\ current # idle /\ ~ InHand
  /\ schedule([state EXCEPT ![current] = "READY"], list_push_back(ready_list, current), ticks)
  /\ UNCHANGED << wait_list, elem, idle_pc, pid, pid_bitmap >>

\* A thread links itself into a wait list and calls thread_block(), all with
\* interrupts off (sema_wait, mutex_acquire, cond_wait, rwlock_*_acquire); or a
\* handler on its stack does so, for the thread it has interrupted.
thread_block(w) ==
  /\ current # idle
  /\ wait_list' = [wait_list EXCEPT ![w] = list_push_back(@, current)]
  /\ schedule([state EXCEPT ![current] = "BLOCKED"], ready_list, ticks)
  /\ UNCHANGED << elem, idle_pc, pid, pid_bitmap >>

\* idle_thread() calls thread_block() without a wait list; when it is run
\* again it goes on to hlt.
idle_block ==
  /\ current = idle /\ idle_pc = "block"
  /\ idle_pc' = "hlt"
  /\ schedule([state EXCEPT ![idle] = "BLOCKED"], ready_list, ticks)
  /\ UNCHANGED << wait_list, elem, pid, pid_bitmap >>

\* An interrupt ends the hlt of idle_thread, which goes round its loop.
LeaveHlt == idle_pc' = IF current = idle THEN "block" ELSE idle_pc

\* A wrong variant of thread_unblock: the thread is put in front of those that are
\* ready already.
unblock_in_front(blocked) ==
  /\ state' = [state EXCEPT ![blocked] = "READY"]
  /\ ready_list' = list_push_front(ready_list, blocked)
  /\ UNCHANGED << current, ticks, pid, pid_bitmap >>

\* thread_unblock(): a blocked thread, which its caller has popped, is queued.
thread_unblock(blocked) ==
  /\ state' = [state EXCEPT ![blocked] = "READY"]
  /\ ready_list' = list_push_back(ready_list, blocked)
  /\ UNCHANGED << current, ticks, pid, pid_bitmap >>

\* A wrong variant of WakeFirst: the waiter is looked at but not unlinked.
wake_linked(w) ==
  /\ ~ list_empty(wait_list[w])
  /\ thread_unblock(list_first(wait_list[w]))
  /\ LeaveHlt
  /\ UNCHANGED << wait_list, elem >>

\* The front of a wait list is popped and unblocked with interrupts off all the
\* time, by the current thread or by a handler running on its stack (sema_post,
\* cond_signal, rwlock_*_release; mutex_release in a handler or a system call).
WakeFirst(w) ==
  /\ ~ list_empty(wait_list[w])
  /\ thread_unblock(list_first(wait_list[w]))
  /\ wait_list' = [wait_list EXCEPT ![w] = list_rest(@)]
  /\ LeaveHlt
  /\ UNCHANGED elem

\* A wrong variant of PopWaiter: interrupts come on before the waiter is unlinked, so
\* that two releasers may take the same one.
look_at_waiter(w) ==
  /\ current # idle /\ ~ InHand
  /\ ~ list_empty(wait_list[w])
  /\ elem' = [elem EXCEPT ![current] = list_first(wait_list[w])]
  /\ UNCHANGED << current, state, ready_list, wait_list, ticks, idle_pc, pid, pid_bitmap >>

\* mutex_release() of a thread with interrupts on pops the waiter with interrupts
\* off ...
PopWaiter(w) ==
  /\ current # idle /\ ~ InHand
  /\ ~ list_empty(wait_list[w])
  /\ elem' = [elem EXCEPT ![current] = list_first(wait_list[w])]
  /\ wait_list' = [wait_list EXCEPT ![w] = list_rest(@)]
  /\ UNCHANGED << current, state, ready_list, ticks, idle_pc, pid, pid_bitmap >>

\* ... and unblocks it when they are on again: until then it is in no list, and the
\* releaser may be preempted, or blocked by a handler on its stack.
UnblockElem ==
  /\ InHand
  /\ thread_unblock(elem[current])
  /\ elem' = [elem EXCEPT ![current] = NULL]
  /\ UNCHANGED << wait_list, idle_pc >>

\* A wrong variant of intr_timer_handler: a thread without ticks keeps the CPU.
timer_never_expires ==
  /\ ticks' = [ticks EXCEPT ![current] = IF @ = 0 THEN 0 ELSE @ - 1]
  /\ LeaveHlt
  /\ UNCHANGED << current, state, ready_list, wait_list, elem, pid, pid_bitmap >>

\* intr_timer_handler(): the current thread loses one tick, or the CPU when it
\* has none left.
intr_timer_handler ==
  /\ IF ticks[current] = 0
     THEN schedule(state, ready_list, ticks)
     ELSE /\ ticks' = [ticks EXCEPT ![current] = @ - 1]
          /\ UNCHANGED << current, state, ready_list >>
  /\ LeaveHlt
  /\ UNCHANGED << wait_list, elem, pid, pid_bitmap >>

\* Wrong variants of do_fork: the copied state, or the copied pid, is left in the
\* child.
fork_keeps_state(child, p) ==
  /\ current \notin {main, idle} /\ ~ InHand
  /\ state[child] = "FREE" /\ alloc_pid(p)
  /\ pid' = [pid EXCEPT ![child] = p]
  /\ pid_bitmap' = pid_bitmap \cup {p}
  /\ schedule([state EXCEPT ![child] = state[current]], ready_list, ticks)
  /\ UNCHANGED << wait_list, elem, idle_pc >>

fork_keeps_pid(child, p) ==
  /\ current \notin {main, idle} /\ ~ InHand
  /\ state[child] = "FREE" /\ alloc_pid(p)
  /\ pid' = [pid EXCEPT ![child] = pid[current]]
  /\ pid_bitmap' = pid_bitmap \cup {p}
  /\ schedule([state EXCEPT ![child] = "READY"], list_push_front(ready_list, child), ticks)
  /\ UNCHANGED << wait_list, elem, idle_pc >>

\* do_fork(): the child is a copy of the parent's page with a pid of its own;
\* it goes to the front of the ready list and the parent reschedules.
do_fork(child, p) ==
  /\ current \notin {main, idle} /\ ~ InHand
  /\ state[child] = "FREE" /\ alloc_pid(p)
  /\ pid' = [pid EXCEPT ![child] = p]
  /\ pid_bitmap' = pid_bitmap \cup {p}
  /\ schedule([state EXCEPT ![child] = "READY"],
              list_push_front(ready_list, child),
              [ticks EXCEPT ![child] = ticks[current]])
  /\ UNCHANGED << wait_list, elem, idle_pc >>

\* sys_exit(): schedule() frees the pid and the page of the caller.
sys_exit ==
  /\ current \notin {main, idle} /\ ~ InHand
  /\ schedule([state EXCEPT ![current] = "EXIT"], ready_list, ticks)
  /\ free_pid(pid[current])
  /\ UNCHANGED << wait_list, elem, idle_pc, pid >>

Next ==
  \/ \E t \in Thread, p \in Pid : kthread_create(t, p)
  \/ thread_yield
  \/ \E w \in WaitList : thread_block(w)
  \/ idle_block
  \/ \E w \in WaitList : WakeFirst(w) \/ PopWaiter(w)
  \/ UnblockElem
  \/ intr_timer_handler
  \/ \E t \in Thread, p \in Pid : do_fork(t, p)
  \/ sys_exit

\* The PIT interrupts a hundred times a second whatever the threads do, and
\* nothing keeps the interrupts off for ever.
Fairness == WF_vars(intr_timer_handler)

Spec == Init /\ [][Next]_vars
FairSpec == Spec /\ Fairness

-----------------------------------------------------------------------------
\* A thread's only list_elem is linked at most once: in the ready list or in
\* one wait list.  A second push would cut a list in two.  This rests on every
\* path that blocks, wakes, preempts, forks and exits, and on idle never being
\* queued when schedule() falls back on it.
TagLinkedOnce ==
  /\ NoDuplicates(ready_list)
  /\ \A w \in WaitList :
       /\ NoDuplicates(wait_list[w])
       /\ Elems(wait_list[w]) \cap Elems(ready_list) = {}
       /\ \A v \in WaitList \ {w} : Elems(wait_list[w]) \cap Elems(wait_list[v]) = {}

\* A thread's state says where it is: READY exactly when it is in the ready
\* list, RUNNING exactly when it is current, BLOCKED exactly when it is in a
\* wait list or a releaser of a mutex has popped it (idle excepted, which blocks
\* outside every list).  A popped thread is in no list, and one releaser at most
\* has it: so no thread is ever lost, none is woken twice, and a freed page is
\* linked nowhere.
StateAgrees ==
  \A t \in Thread :
    LET queued == \E w \in WaitList : list_find(wait_list[w], t)
        popped == \E u \in Thread : elem[u] = t
    IN  /\ state[t] = "READY" <=> list_find(ready_list, t)
        /\ state[t] = "RUNNING" <=> t = current
        /\ (state[t] = "BLOCKED" /\ t # idle) <=> queued \/ popped
        /\ ~ (queued /\ popped)
        /\ \A u, v \in Thread : elem[u] = t /\ elem[v] = t => u = v
        /\ state[t] # "EXIT"

\* The pid bitmap holds the pids of the live threads, no two of them share
\* one: exit frees a pid once, and only together with the page.
PidsUnique ==
  /\ pid_bitmap = { pid[t] : t \in Live }
  /\ \A t, u \in Live : pid[t] = pid[u] => t = u

Position(t) == CHOOSE i \in DOMAIN ready_list : ready_list[i] = t

\* No step lets a queued thread fall back: even the child that fork puts at the
\* front has left the list when fork's schedule() is done.
NoOvertaking ==
  [][\A t \in Elems(ready_list) \cap Elems(ready_list') : Position(t)' <= Position(t)]_vars

\* Round robin: a ready thread runs, whatever the others do, because the timer
\* takes the CPU from each of them.
ReadyRuns == \A t \in Thread : state[t] = "READY" ~> current = t

=============================================================================
