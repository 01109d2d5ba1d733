--------------------------- MODULE KThread_proofs ---------------------------
(***************************************************************************)
(* TagLinkedOnce, StateAgrees and PidsUnique hold for any set of threads,  *)
(* any set of wait lists and any time slices.  The first two are proved    *)
(* together, neither being inductive alone: schedule() may pop whatever is *)
(* at the front, or fall back on idle, only because the states say where   *)
(* every thread is.                                                        *)
(***************************************************************************)
EXTENDS KThread, SequenceTheorems, TLAPS

-----------------------------------------------------------------------------
\* What the list operations do to the set of linked elements and to the absence of
\* duplicates: all that the rest of the proofs needs to know of sequences.

\* list_init() makes a list that links nothing.
LEMMA InitLinks ==
  ASSUME NEW S
  PROVE  /\ list_init \in Seq(S)
         /\ Elems(list_init) = {}
         /\ NoDuplicates(list_init)
BY DEF list_init, Elems, Range, NoDuplicates, IsInjective

\* list_push_back() links one more element, and keeps a list duplicate-free
\* when the element was not in it.
LEMMA PushBackLinks ==
  ASSUME NEW S, NEW l \in Seq(S), NEW e \in S
  PROVE  /\ list_push_back(l, e) \in Seq(S)
         /\ list_push_back(l, e) # << >>
         /\ Elems(list_push_back(l, e)) = Elems(l) \cup {e}
         /\ NoDuplicates(l) /\ e \notin Elems(l) => NoDuplicates(list_push_back(l, e))
<1> DEFINE m == Append(l, e)
<1>1. /\ m \in Seq(S) /\ m # << >> /\ DOMAIN m = 1 .. Len(l) + 1 /\ DOMAIN l = 1 .. Len(l) /\ Len(l) \in Nat
      /\ \A i \in 1 .. Len(l) + 1 : m[i] = IF i <= Len(l) THEN l[i] ELSE e
  BY AppendProperties, LenProperties
<1> HIDE DEF m
<1>2. Range(m) = Range(l) \cup {e}
  BY <1>1 DEF Range
<1>3. IsInjective(l) /\ e \notin Range(l) => IsInjective(m)
  BY <1>1 DEF IsInjective, Range
<1>4. QED
  BY <1>1, <1>2, <1>3 DEF m, list_push_back, Elems, NoDuplicates

\* The same of list_push_front().
LEMMA PushFrontLinks ==
  ASSUME NEW S, NEW l \in Seq(S), NEW e \in S
  PROVE  /\ list_push_front(l, e) \in Seq(S)
         /\ list_push_front(l, e) # << >>
         /\ list_first(list_push_front(l, e)) = e
         /\ Elems(list_push_front(l, e)) = Elems(l) \cup {e}
         /\ NoDuplicates(l) /\ e \notin Elems(l) => NoDuplicates(list_push_front(l, e))
<1> DEFINE m == << e >> \o l
<1>1. /\ m \in Seq(S)
      /\ Len(m) = Len(l) + 1
      /\ m[1] = e
      /\ \A i \in 1 .. Len(l) : m[i + 1] = l[i]
  BY ConcatProperties, LenProperties
<1>2. DOMAIN l = 1 .. Len(l) /\ DOMAIN m = 1 .. Len(l) + 1 /\ Len(l) \in Nat
  BY <1>1, LenProperties
<1>3. \A i \in 1 .. Len(l) + 1 : i = 1 \/ (i - 1 \in 1 .. Len(l) /\ m[i] = l[i - 1])
  <2> TAKE i \in 1 .. Len(l) + 1
  <2>1. CASE i # 1
    <3>1. i - 1 \in 1 .. Len(l) /\ (i - 1) + 1 = i
      BY <1>2, <2>1
    <3>2. QED
      BY <1>1, <3>1
  <2>2. QED
    BY <2>1
<1>4. Range(m) = Range(l) \cup {e}
  <2>1. Range(m) \subseteq Range(l) \cup {e}
    BY <1>1, <1>2, <1>3 DEF Range
  <2>2. \A i \in 1 .. Len(l) : i + 1 \in 1 .. Len(l) + 1
    BY <1>2
  <2>3. ASSUME NEW i \in 1 .. Len(l)
        PROVE  l[i] \in Range(m)
    BY <1>1, <1>2, <2>2 DEF Range
  <2>4. e \in Range(m)
    <3>1. 1 \in 1 .. Len(l) + 1
      BY <1>2
    <3>2. QED
      BY <1>1, <1>2, <3>1 DEF Range
  <2>5. Range(l) \subseteq Range(m)
    BY <1>2, <2>3 DEF Range
  <2>6. QED
    BY <2>1, <2>4, <2>5
<1>5. ASSUME IsInjective(l), e \notin Range(l)
      PROVE  IsInjective(m)
  <2> SUFFICES ASSUME NEW i \in 1 .. Len(l) + 1, NEW j \in 1 .. Len(l) + 1, m[i] = m[j]
               PROVE  i = j
    BY <1>2 DEF IsInjective
  <2>1. \A k \in 1 .. Len(l) : l[k] # e
    BY <1>2, <1>5 DEF Range
  <2>2. CASE i # 1 /\ j # 1
    <3>1. l[i - 1] = l[j - 1] /\ i - 1 \in 1 .. Len(l) /\ j - 1 \in 1 .. Len(l)
      BY <1>3, <2>2
    <3>2. i - 1 = j - 1
      BY <1>2, <1>5, <3>1 DEF IsInjective
    <3>3. QED
      BY <1>2, <3>2
  <2>3. CASE i = 1 \/ j = 1
    BY <1>1, <1>3, <2>1, <2>3
  <2>4. QED
    BY <2>2, <2>3
<1>6. list_first(m) = e /\ m # << >>
  BY <1>1, <1>2 DEF list_first
<1>7. QED
  BY <1>1, <1>4, <1>5, <1>6 DEF list_push_front, Elems, NoDuplicates

\* list_pop_front() unlinks exactly the front element of a non-empty list.
LEMMA PopFrontUnlinks ==
  ASSUME NEW S, NEW l \in Seq(S), ~ list_empty(l)
  PROVE  /\ list_first(l) \in S
         /\ list_find(l, list_first(l))
         /\ list_rest(l) \in Seq(S)
         /\ NoDuplicates(l) => /\ NoDuplicates(list_rest(l))
                               /\ Elems(list_rest(l)) = Elems(l) \ {list_first(l)}
<1> DEFINE m == Tail(l)
<1>1. /\ Head(l) = l[1] /\ Head(l) \in S /\ m \in Seq(S) /\ Len(l) \in Nat \ {0}
      /\ DOMAIN l = 1 .. Len(l) /\ DOMAIN m = 1 .. Len(l) - 1
      /\ \A i \in 1 .. Len(l) - 1 : m[i] = l[i + 1]
  BY HeadTailProperties, LenProperties, EmptySeq DEF list_empty
<1> HIDE DEF m
<1>2. IsInjective(l) => IsInjective(m)
  <2> SUFFICES ASSUME IsInjective(l), NEW a \in DOMAIN m, NEW b \in DOMAIN m, m[a] = m[b]
               PROVE  a = b
    BY DEF IsInjective
  <2>1. a \in 1 .. Len(l) - 1 /\ b \in 1 .. Len(l) - 1
    BY <1>1
  <2>2. a + 1 \in DOMAIN l /\ b + 1 \in DOMAIN l /\ l[a + 1] = l[b + 1]
    BY <1>1, <2>1
  <2>3. a + 1 = b + 1
    BY <2>2 DEF IsInjective
  <2>4. QED
    BY <2>1, <2>3
<1>3. 1 \in 1 .. Len(l) /\ \A i \in 1 .. Len(l) - 1 : i + 1 \in 1 .. Len(l) /\ i + 1 # 1
  BY <1>1
<1>4. \A j \in 1 .. Len(l) : j # 1 => j - 1 \in 1 .. Len(l) - 1 /\ m[j - 1] = l[j]
  BY <1>1
<1>5. ASSUME IsInjective(l) PROVE Range(m) = Range(l) \ {l[1]}
  <2>1. Range(m) \subseteq Range(l) \ {l[1]}
    <3> SUFFICES ASSUME NEW a \in DOMAIN m PROVE m[a] \in Range(l) \ {l[1]}
      BY DEF Range
    <3>1. a + 1 \in DOMAIN l /\ 1 \in DOMAIN l /\ a + 1 # 1 /\ m[a] = l[a + 1]
      BY <1>1, <1>3
    <3>2. l[a + 1] # l[1]
      BY <1>5, <3>1 DEF IsInjective
    <3>3. QED
      BY <3>1, <3>2 DEF Range
  <2>2. Range(l) \ {l[1]} \subseteq Range(m)
    BY <1>1, <1>4 DEF Range
  <2>3. QED
    BY <2>1, <2>2
<1>6. l[1] \in Range(l)
  BY <1>1, <1>3 DEF Range
<1>7. QED
  BY <1>1, <1>2, <1>5, <1>6 DEF m, list_first, list_rest, list_find, list_empty, Elems, NoDuplicates

-----------------------------------------------------------------------------

\* What the lists wl and rl and the states st must satisfy between two
\* operations, and also when schedule() is called: a thread is READY exactly
\* if rl links it, BLOCKED (idle apart) exactly if a wait list links it or a
\* releaser has it in hand, as el says.
Waiting(wl, el, t) ==
  (\E w \in WaitList : list_find(wl[w], t)) \/ (\E u \in Thread : el[u] = t)

Linked(st, rl, wl, el) ==
  /\ NoDuplicates(rl)
  /\ \A w \in WaitList : NoDuplicates(wl[w])
  /\ \A w, v \in WaitList : w # v => Elems(wl[w]) \cap Elems(wl[v]) = {}
  /\ \A t \in Thread :
       /\ st[t] = "READY" <=> list_find(rl, t)
       /\ (st[t] = "BLOCKED" /\ t # idle) <=> Waiting(wl, el, t)

\* What one releaser has in hand nobody else has, and no wait list links.
PoppedOnce(wl, el) ==
  \A t, u \in Thread : el[u] = t =>
    /\ \A v \in Thread : el[v] = t => u = v
    /\ \A w \in WaitList : ~ list_find(wl[w], t)

OneRunning(st, cur) ==
  \A t \in Thread : /\ st[t] = "RUNNING" <=> t = cur
                    /\ st[t] # "EXIT"

IInv ==
  /\ TypeOK
  /\ Linked(state, ready_list, wait_list, elem)
  /\ PoppedOnce(wait_list, elem)
  /\ OneRunning(state, current)

-----------------------------------------------------------------------------
\* schedule() takes a consistent picture, in which only the caller may be
\* RUNNING or EXIT, to a consistent picture with one running thread.
LEMMA ScheduleLinks ==
  ASSUME TypeOK,
         NEW st \in [Thread -> States], NEW rl \in Seq(Thread), NEW tk \in [Thread -> 0 .. MaxTicks],
         NEW wl \in [WaitList -> Seq(Thread)], NEW el,
         Linked(st, rl, wl, el),
         \A t \in Thread \ {current} : st[t] \notin {"RUNNING", "EXIT"},
         schedule(st, rl, tk)
  PROVE  /\ state' \in [Thread -> States]
         /\ ready_list' \in Seq(Thread)
         /\ ticks' \in [Thread -> 0 .. MaxTicks]
         /\ current' \in Thread
         /\ Linked(state', ready_list', wl, el)
         /\ OneRunning(state', current')
<1> DEFINE expired == st[current] = "RUNNING"
           queue == IF expired THEN list_push_back(rl, current) ELSE rl
           next == IF list_empty(queue) THEN idle ELSE list_first(queue)
           left == IF expired THEN "READY" ELSE IF st[current] = "EXIT" THEN "FREE" ELSE st[current]
           mid == [st EXCEPT ![current] = left]
<1>1. /\ ready_list' = list_rest(queue)
      /\ current' = next
      /\ state' = [st EXCEPT ![current] = left, ![next] = "RUNNING"]
      /\ ticks' = IF expired THEN [tk EXCEPT ![current] = Prio] ELSE tk
  BY DEF schedule
<1>2. current \in Thread /\ idle \in Thread /\ Prio \in 0 .. MaxTicks
  BY ThreadAssumption, TickAssumption DEF TypeOK
<1>3. left \in States \ {"RUNNING", "EXIT"}
  BY <1>2 DEF States
<1>4. mid \in [Thread -> States] /\ \A t \in Thread : mid[t] \notin {"RUNNING", "EXIT"}
  BY <1>2, <1>3
<1>5. state' = [mid EXCEPT ![next] = "RUNNING"]
  BY <1>1, <1>2
<1>6. queue \in Seq(Thread) /\ Linked(mid, queue, wl, el)
  <2>1. CASE expired
    <3>1. ~ list_find(rl, current) /\ ~ Waiting(wl, el, current)
      BY <1>2, <2>1 DEF Linked
    <3>2. /\ queue \in Seq(Thread)
          /\ Elems(queue) = Elems(rl) \cup {current}
          /\ NoDuplicates(queue)
      BY <1>2, <2>1, <3>1, PushBackLinks DEF Linked, list_find
    <3>3. ASSUME NEW t \in Thread
          PROVE  mid[t] = "READY" <=> list_find(queue, t)
      BY <1>2, <2>1, <3>2 DEF Linked, list_find
    <3>4. ASSUME NEW t \in Thread
          PROVE  (mid[t] = "BLOCKED" /\ t # idle) <=> Waiting(wl, el, t)
      BY <1>2, <2>1, <3>1 DEF Linked
    <3>5. QED
      BY <3>2, <3>3, <3>4 DEF Linked
  <2>2. CASE ~ expired
    <3>1. queue = rl
      BY <2>2
    <3>2. ASSUME NEW t \in Thread
          PROVE  /\ mid[t] = "READY" <=> st[t] = "READY"
                 /\ mid[t] = "BLOCKED" <=> st[t] = "BLOCKED"
      BY <1>2, <2>2
    <3>3. QED
      BY <3>1, <3>2 DEF Linked
  <2>3. QED
    BY <2>1, <2>2
<1>7. /\ next \in Thread
      /\ ready_list' \in Seq(Thread)
      /\ NoDuplicates(ready_list')
      /\ Elems(ready_list') = Elems(queue) \ {next}
      /\ ~ Waiting(wl, el, next)
  <2>1. CASE list_empty(queue)
    <3>1. next = idle /\ ready_list' = << >> /\ queue = << >>
      BY <1>1, <2>1 DEF list_empty, list_rest
    <3>2. Elems(<< >>) = {} /\ NoDuplicates(<< >>)
      BY InitLinks DEF list_init
    <3>3. ~ Waiting(wl, el, idle)
      BY <1>2, <1>6 DEF Linked
    <3>4. QED
      BY <1>2, <3>1, <3>2, <3>3
  <2>2. CASE ~ list_empty(queue)
    <3>1. next = list_first(queue) /\ ready_list' = list_rest(queue)
      BY <1>1, <2>2
    <3>2. /\ next \in Thread /\ list_find(queue, next)
          /\ ready_list' \in Seq(Thread)
          /\ NoDuplicates(ready_list')
          /\ Elems(ready_list') = Elems(queue) \ {next}
      BY <1>6, <2>2, <3>1, PopFrontUnlinks DEF Linked
    <3>3. mid[next] = "READY"
      BY <1>6, <3>2 DEF Linked
    <3>4. ~ Waiting(wl, el, next)
      BY <1>6, <3>2, <3>3 DEF Linked
    <3>5. QED
      BY <3>2, <3>4
  <2>3. QED
    BY <2>1, <2>2
<1>8. state' \in [Thread -> States]
  BY <1>4, <1>5, <1>7 DEF States
<1>9. ticks' \in [Thread -> 0 .. MaxTicks]
  BY <1>1, <1>2
<1>10. OneRunning(state', current')
  BY <1>1, <1>4, <1>5, <1>7 DEF OneRunning
<1>11. ASSUME NEW t \in Thread
       PROVE  /\ state'[t] = "READY" <=> list_find(ready_list', t)
              /\ (state'[t] = "BLOCKED" /\ t # idle) <=> Waiting(wl, el, t)
  <2>1. CASE t = next
    BY <1>4, <1>5, <1>7, <2>1 DEF list_find
  <2>2. CASE t # next
    <3>1. state'[t] = mid[t]
      BY <1>4, <1>5, <2>2
    <3>2. list_find(ready_list', t) <=> list_find(queue, t)
      BY <1>7, <2>2 DEF list_find
    <3>3. QED
      BY <1>6, <3>1, <3>2 DEF Linked
  <2>3. QED
    BY <2>1, <2>2
<1>12. Linked(state', ready_list', wl, el)
  BY <1>6, <1>7, <1>11 DEF Linked
<1>13. QED
  BY <1>1, <1>7, <1>8, <1>9, <1>10, <1>12

-----------------------------------------------------------------------------
\* The initial state: main runs, idle is queued.
LEMMA InitIInv == Init => IInv
<1> SUFFICES ASSUME Init PROVE IInv
  OBVIOUS
<1> USE ThreadAssumption, TickAssumption, PidAssumption
<1>1. TypeOK
  BY InitLinks, PushBackLinks DEF Init, TypeOK, States, Pid
<1>2. ready_list \in Seq(Thread) /\ NoDuplicates(ready_list) /\ Elems(ready_list) = {idle}
  <2>1. ready_list = << >> \o << idle >> /\ << >> \in Seq(Thread)
    BY DEF Init
  <2>2. ready_list = list_push_back(list_init, idle)
    BY <2>1 DEF list_push_back, list_init, Init
  <2>3. list_init \in Seq(Thread) /\ Elems(list_init) = {} /\ NoDuplicates(list_init)
    BY InitLinks
  <2>4. idle \in Thread /\ idle \notin Elems(list_init)
    BY <2>3
  <2>5. /\ list_push_back(list_init, idle) \in Seq(Thread)
        /\ Elems(list_push_back(list_init, idle)) = Elems(list_init) \cup {idle}
        /\ NoDuplicates(list_push_back(list_init, idle))
    <3>1. PICK l : l = list_init
      OBVIOUS
    <3>2. l \in Seq(Thread) /\ NoDuplicates(l) /\ idle \in Thread /\ idle \notin Elems(l)
      BY <2>3, <2>4, <3>1
    <3>3. /\ list_push_back(l, idle) \in Seq(Thread)
          /\ Elems(list_push_back(l, idle)) = Elems(l) \cup {idle}
          /\ NoDuplicates(list_push_back(l, idle))
      BY <3>2, PushBackLinks
    <3>4. QED
      BY <3>1, <3>3
  <2>6. QED
    BY <2>2, <2>3, <2>5
<1>3. \A w \in WaitList : NoDuplicates(wait_list[w]) /\ Elems(wait_list[w]) = {}
  BY InitLinks DEF Init
<1>4. QED
  <2>1. \A t \in Thread : ~ Waiting(wait_list, elem, t)
    BY <1>3 DEF Waiting, Init, list_find
  <2>2. Linked(state, ready_list, wait_list, elem) /\ OneRunning(state, current)
    BY <1>2, <1>3, <2>1 DEF Linked, OneRunning, Init, list_find
  <2>3. PoppedOnce(wait_list, elem)
    BY DEF PoppedOnce, Init
  <2>4. QED
    BY <1>1, <2>2, <2>3 DEF IInv

\* Every operation keeps the invariant.
LEMMA NextIInv == IInv /\ [Next]_vars => IInv'
<1> SUFFICES ASSUME IInv, [Next]_vars PROVE IInv'
  OBVIOUS
<1> USE ThreadAssumption, TickAssumption, PidAssumption
<1>t. TypeOK /\ Linked(state, ready_list, wait_list, elem) /\ PoppedOnce(wait_list, elem) /\ OneRunning(state, current)
  BY DEF IInv
<1>c. current \in Thread /\ state[current] = "RUNNING"
      /\ ~ list_find(ready_list, current)
      /\ ~ Waiting(wait_list, elem, current)
  BY <1>t DEF TypeOK, OneRunning, Linked
<1>1. ASSUME NEW t \in Thread, NEW p \in Pid, kthread_create(t, p)
      PROVE  IInv'
  <2>1. /\ ~ list_find(ready_list, t)
        /\ ~ Waiting(wait_list, elem, t)
        /\ t # current
    BY <1>1, <1>t, <1>c DEF kthread_create, Linked
  <2>2. /\ ready_list' \in Seq(Thread)
        /\ NoDuplicates(ready_list')
        /\ Elems(ready_list') = Elems(ready_list) \cup {t}
    <3>1. ready_list' = list_push_back(ready_list, t)
      BY <1>1 DEF kthread_create
    <3>2. ready_list \in Seq(Thread) /\ NoDuplicates(ready_list) /\ t \notin Elems(ready_list)
      BY <1>t, <2>1 DEF TypeOK, Linked, list_find
    <3>3. /\ list_push_back(ready_list, t) \in Seq(Thread)
          /\ NoDuplicates(list_push_back(ready_list, t))
          /\ Elems(list_push_back(ready_list, t)) = Elems(ready_list) \cup {t}
      BY <3>2, PushBackLinks
    <3>4. QED
      BY <3>1, <3>3
  <2>3. TypeOK'
    BY <1>1, <1>t, <2>2 DEF kthread_create, TypeOK, States
  <2>4. \A u \in Thread : state'[u] = IF u = t THEN "READY" ELSE state[u]
    BY <1>1, <1>t DEF kthread_create, TypeOK
  <2>5. Linked(state', ready_list', wait_list', elem') /\ PoppedOnce(wait_list', elem')
    <3>1. wait_list' = wait_list /\ elem' = elem
      BY <1>1 DEF kthread_create
    <3>2. ASSUME NEW u \in Thread
          PROVE  /\ state'[u] = "READY" <=> list_find(ready_list', u)
                 /\ (state'[u] = "BLOCKED" /\ u # idle) <=> Waiting(wait_list, elem, u)
      BY <1>t, <2>1, <2>2, <2>4 DEF Linked, list_find
    <3>3. QED
      BY <1>t, <2>2, <3>1, <3>2 DEF Linked
  <2>6. OneRunning(state', current')
    BY <1>1, <1>t, <2>1, <2>4 DEF kthread_create, OneRunning
  <2>7. QED
    BY <2>3, <2>5, <2>6 DEF IInv
<1>2. CASE thread_yield
  <2> DEFINE st == [state EXCEPT ![current] = "READY"]
             rl == list_push_back(ready_list, current)
  <2>1. /\ rl \in Seq(Thread)
        /\ NoDuplicates(rl)
        /\ Elems(rl) = Elems(ready_list) \cup {current}
    BY <1>t, <1>c, PushBackLinks DEF TypeOK, Linked, list_find
  <2>2. st \in [Thread -> States] /\ \A u \in Thread : st[u] = IF u = current THEN "READY" ELSE state[u]
    BY <1>t DEF TypeOK, States
  <2>3. Linked(st, rl, wait_list, elem)
    BY <1>t, <1>c, <2>1, <2>2 DEF Linked, list_find
  <2>4. \A u \in Thread \ {current} : st[u] \notin {"RUNNING", "EXIT"}
    BY <1>t, <2>2 DEF OneRunning
  <2>5. schedule(st, rl, ticks) /\ UNCHANGED << wait_list, elem, idle_pc, pid, pid_bitmap >>
    BY <1>2 DEF thread_yield
  <2>6. wait_list \in [WaitList -> Seq(Thread)] /\ ticks \in [Thread -> 0 .. MaxTicks]
    BY <1>t DEF TypeOK
  <2> HIDE DEF st, rl
  <2>7. QED
    BY <1>t, <2>1, <2>2, <2>3, <2>4, <2>5, <2>6, ScheduleLinks DEF IInv, TypeOK
<1>3. ASSUME NEW w \in WaitList, thread_block(w)
      PROVE  IInv'
  <2> DEFINE st == [state EXCEPT ![current] = "BLOCKED"]
             wl == [wait_list EXCEPT ![w] = list_push_back(@, current)]
  <2>p. ~ list_find(wait_list[w], current) /\ \A v \in WaitList : ~ list_find(wait_list[v], current)
        /\ \A u \in Thread : elem[u] # current
    BY <1>c DEF Waiting
  <2>1. /\ wl[w] \in Seq(Thread)
        /\ NoDuplicates(wl[w])
        /\ Elems(wl[w]) = Elems(wait_list[w]) \cup {current}
    <3>1. wait_list[w] \in Seq(Thread) /\ wl[w] = list_push_back(wait_list[w], current)
      BY <1>t DEF TypeOK
    <3>2. NoDuplicates(wait_list[w]) /\ current \notin Elems(wait_list[w])
      BY <1>t, <2>p DEF Linked, list_find
    <3> HIDE DEF wl
    <3>3. QED
      BY <1>t, <3>1, <3>2, PushBackLinks DEF TypeOK
  <2>2. wl \in [WaitList -> Seq(Thread)] /\ \A v \in WaitList \ {w} : wl[v] = wait_list[v]
    BY <1>t, <2>1 DEF TypeOK
  <2>3. st \in [Thread -> States] /\ \A u \in Thread : st[u] = IF u = current THEN "BLOCKED" ELSE state[u]
    BY <1>t DEF TypeOK, States
  <2>4. Linked(st, ready_list, wl, elem)
    <3>1. \A v \in WaitList : NoDuplicates(wl[v])
      BY <1>t, <2>1, <2>2 DEF Linked
    <3>2. \A v, x \in WaitList : v # x => Elems(wl[v]) \cap Elems(wl[x]) = {}
      BY <1>t, <2>p, <2>1, <2>2 DEF Linked, list_find
    <3>3. ASSUME NEW u \in Thread
          PROVE  /\ st[u] = "READY" <=> list_find(ready_list, u)
                 /\ (st[u] = "BLOCKED" /\ u # idle) <=> Waiting(wl, elem, u)
      <4>1. CASE u = current
        BY <1>3, <1>c, <2>1, <2>3, <4>1 DEF thread_block, Waiting, list_find
      <4>2. CASE u # current
        <5>1. \A v \in WaitList : list_find(wl[v], u) <=> list_find(wait_list[v], u)
          BY <2>1, <2>2, <4>2 DEF list_find
        <5>2. QED
          BY <1>t, <2>3, <4>2, <5>1 DEF Linked, Waiting
      <4>3. QED
        BY <4>1, <4>2
    <3>4. QED
      BY <1>t, <3>1, <3>2, <3>3 DEF Linked
  <2>q. PoppedOnce(wl, elem)
    <3>1. ASSUME NEW t \in Thread, NEW u \in Thread, elem[u] = t, NEW v \in WaitList
          PROVE  ~ list_find(wl[v], t)
      BY <1>t, <2>p, <2>1, <2>2, <3>1 DEF PoppedOnce, list_find
    <3>2. QED
      BY <1>t, <3>1 DEF PoppedOnce
  <2>5. \A u \in Thread \ {current} : st[u] \notin {"RUNNING", "EXIT"}
    BY <1>t, <2>3 DEF OneRunning
  <2>6. schedule(st, ready_list, ticks) /\ wait_list' = wl /\ UNCHANGED << elem, idle_pc, pid, pid_bitmap >>
    BY <1>3 DEF thread_block
  <2>7. ready_list \in Seq(Thread) /\ ticks \in [Thread -> 0 .. MaxTicks]
    BY <1>t DEF TypeOK
  <2> HIDE DEF st, wl
  <2>8. QED
    BY <1>t, <2>2, <2>3, <2>4, <2>q, <2>5, <2>6, <2>7, ScheduleLinks DEF IInv, TypeOK
<1>4. CASE idle_block
  <2> DEFINE st == [state EXCEPT ![idle] = "BLOCKED"]
  <2>1. st \in [Thread -> States] /\ \A u \in Thread : st[u] = IF u = idle THEN "BLOCKED" ELSE state[u]
    BY <1>t DEF TypeOK, States
  <2>2. current = idle /\ schedule(st, ready_list, ticks)
        /\ idle_pc' = "hlt" /\ UNCHANGED << wait_list, elem, pid, pid_bitmap >>
    BY <1>4 DEF idle_block
  <2>3. Linked(st, ready_list, wait_list, elem)
    BY <1>t, <1>c, <2>1, <2>2 DEF Linked
  <2>4. \A u \in Thread \ {current} : st[u] \notin {"RUNNING", "EXIT"}
    BY <1>t, <2>1 DEF OneRunning
  <2>5. /\ ready_list \in Seq(Thread) /\ ticks \in [Thread -> 0 .. MaxTicks]
        /\ wait_list \in [WaitList -> Seq(Thread)]
    BY <1>t DEF TypeOK
  <2> HIDE DEF st
  <2>6. QED
    BY <1>t, <2>1, <2>2, <2>3, <2>4, <2>5, ScheduleLinks DEF IInv, TypeOK
\* The waiter b of a pop, whoever does it: blocked, in one list, in nobody's hand.
<1>w. ASSUME NEW w \in WaitList, ~ list_empty(wait_list[w]), wait_list' = [wait_list EXCEPT ![w] = list_rest(@)],
             NEW b, b = list_first(wait_list[w])
      PROVE  /\ b \in Thread /\ state[b] = "BLOCKED" /\ b # idle
             /\ \A u \in Thread : elem[u] # b
             /\ wait_list' \in [WaitList -> Seq(Thread)]
             /\ \A v \in WaitList : /\ NoDuplicates(wait_list'[v])
                                    /\ Elems(wait_list'[v]) = Elems(wait_list[v]) \ {b}
  <2>1. wait_list[w] \in Seq(Thread) /\ NoDuplicates(wait_list[w])
    BY <1>t DEF TypeOK, Linked
  <2>2. /\ b \in Thread /\ list_find(wait_list[w], b)
        /\ list_rest(wait_list[w]) \in Seq(Thread)
        /\ NoDuplicates(list_rest(wait_list[w]))
        /\ Elems(list_rest(wait_list[w])) = Elems(wait_list[w]) \ {b}
    BY <1>w, <2>1, PopFrontUnlinks
  <2>3. Waiting(wait_list, elem, b) /\ \A u \in Thread : elem[u] # b
    BY <1>t, <2>2 DEF Waiting, PoppedOnce
  <2>4. state[b] = "BLOCKED" /\ b # idle
    BY <1>t, <2>2, <2>3 DEF Linked
  <2>5. \A v \in WaitList \ {w} : ~ list_find(wait_list[v], b)
    BY <1>t, <2>2 DEF Linked, list_find
  <2>6. /\ wait_list' \in [WaitList -> Seq(Thread)]
        /\ wait_list'[w] = list_rest(wait_list[w])
        /\ \A v \in WaitList \ {w} : wait_list'[v] = wait_list[v]
    BY <1>w, <1>t, <2>2 DEF TypeOK
  <2>7. QED
    BY <1>t, <2>2, <2>3, <2>4, <2>5, <2>6 DEF Linked, list_find
\* And a blocked thread that thread_unblock queues.
<1>u. ASSUME NEW b \in Thread, state[b] = "BLOCKED", b # idle, thread_unblock(b)
      PROVE  /\ ready_list' \in Seq(Thread) /\ NoDuplicates(ready_list')
             /\ Elems(ready_list') = Elems(ready_list) \cup {b}
             /\ state' \in [Thread -> States]
             /\ \A u \in Thread : state'[u] = IF u = b THEN "READY" ELSE state[u]
             /\ OneRunning(state', current')
             /\ UNCHANGED << current, ticks, pid, pid_bitmap >>
  <2>1. ready_list \in Seq(Thread) /\ NoDuplicates(ready_list) /\ b \notin Elems(ready_list)
    BY <1>t, <1>u DEF TypeOK, Linked, list_find
  <2>2. /\ list_push_back(ready_list, b) \in Seq(Thread)
        /\ NoDuplicates(list_push_back(ready_list, b))
        /\ Elems(list_push_back(ready_list, b)) = Elems(ready_list) \cup {b}
    BY <2>1, PushBackLinks
  <2>3. /\ state' \in [Thread -> States]
        /\ \A u \in Thread : state'[u] = IF u = b THEN "READY" ELSE state[u]
    BY <1>u, <1>t DEF thread_unblock, TypeOK, States
  <2>4. OneRunning(state', current')
    BY <1>u, <1>t, <1>c, <2>3 DEF OneRunning, thread_unblock
  <2>5. QED
    BY <1>u, <2>2, <2>3, <2>4 DEF thread_unblock
<1>5. ASSUME NEW w \in WaitList, WakeFirst(w)
      PROVE  IInv'
  <2>1. PICK b : b = list_first(wait_list[w])
    OBVIOUS
  <2>2. /\ ~ list_empty(wait_list[w]) /\ thread_unblock(b)
        /\ wait_list' = [wait_list EXCEPT ![w] = list_rest(@)]
        /\ elem' = elem /\ idle_pc' \in {"block", "hlt"}
    BY <1>5, <1>t, <2>1 DEF WakeFirst, TypeOK, LeaveHlt
  <2>3. /\ b \in Thread /\ state[b] = "BLOCKED" /\ b # idle
        /\ \A u \in Thread : elem[u] # b
        /\ wait_list' \in [WaitList -> Seq(Thread)]
        /\ \A v \in WaitList : /\ NoDuplicates(wait_list'[v])
                               /\ Elems(wait_list'[v]) = Elems(wait_list[v]) \ {b}
    BY <1>w, <2>1, <2>2
  <2>4. /\ ready_list' \in Seq(Thread) /\ NoDuplicates(ready_list')
        /\ Elems(ready_list') = Elems(ready_list) \cup {b}
        /\ state' \in [Thread -> States]
        /\ \A u \in Thread : state'[u] = IF u = b THEN "READY" ELSE state[u]
        /\ OneRunning(state', current')
        /\ UNCHANGED << current, ticks, pid, pid_bitmap >>
    BY <1>u, <2>2, <2>3
  <2>5. Linked(state', ready_list', wait_list', elem')
    <3>1. ASSUME NEW u \in Thread
          PROVE  Waiting(wait_list', elem', u) <=> Waiting(wait_list, elem, u) /\ u # b
      BY <2>2, <2>3 DEF Waiting, list_find
    <3>2. ASSUME NEW u \in Thread
          PROVE  /\ state'[u] = "READY" <=> list_find(ready_list', u)
                 /\ (state'[u] = "BLOCKED" /\ u # idle) <=> Waiting(wait_list', elem', u)
      BY <1>t, <2>4, <3>1 DEF Linked, list_find
    <3>3. \A v, x \in WaitList : v # x => Elems(wait_list'[v]) \cap Elems(wait_list'[x]) = {}
      BY <1>t, <2>3 DEF Linked
    <3>4. QED
      BY <2>3, <2>4, <3>2, <3>3 DEF Linked
  <2>6. PoppedOnce(wait_list', elem')
    BY <1>t, <2>2, <2>3 DEF PoppedOnce, list_find
  <2>7. TypeOK'
    BY <1>t, <2>2, <2>3, <2>4 DEF TypeOK
  <2>8. QED
    BY <2>4, <2>5, <2>6, <2>7 DEF IInv
<1>5p. ASSUME NEW w \in WaitList, PopWaiter(w)
       PROVE  IInv'
  <2>1. PICK b : b = list_first(wait_list[w])
    OBVIOUS
  <2>2. /\ ~ list_empty(wait_list[w]) /\ elem[current] = NULL
        /\ wait_list' = [wait_list EXCEPT ![w] = list_rest(@)]
        /\ elem' = [elem EXCEPT ![current] = b]
        /\ UNCHANGED << current, state, ready_list, ticks, idle_pc, pid, pid_bitmap >>
    BY <1>5p, <2>1 DEF PopWaiter, InHand
  <2>3. /\ b \in Thread /\ state[b] = "BLOCKED" /\ b # idle
        /\ \A u \in Thread : elem[u] # b
        /\ wait_list' \in [WaitList -> Seq(Thread)]
        /\ \A v \in WaitList : /\ NoDuplicates(wait_list'[v])
                               /\ Elems(wait_list'[v]) = Elems(wait_list[v]) \ {b}
    BY <1>w, <2>1, <2>2
  <2>4. /\ elem' \in [Thread -> Thread \cup {NULL}]
        /\ \A u \in Thread : elem'[u] = IF u = current THEN b ELSE elem[u]
    BY <1>t, <1>c, <2>2, <2>3 DEF TypeOK
  <2>5. Linked(state', ready_list', wait_list', elem')
    <3>1. ASSUME NEW u \in Thread
          PROVE  Waiting(wait_list', elem', u) <=> Waiting(wait_list, elem, u)
      <4>1. CASE u = b
        <5>1. Waiting(wait_list', elem', b)
          BY <1>c, <2>4 DEF Waiting
        <5>2. Waiting(wait_list, elem, b)
          BY <1>t, <2>3 DEF Linked
        <5>3. QED
          BY <4>1, <5>1, <5>2
      <4>2. CASE u # b
        <5>1. \A v \in WaitList : list_find(wait_list'[v], u) <=> list_find(wait_list[v], u)
          BY <2>3, <4>2 DEF list_find
        <5>2. \A v \in Thread : elem'[v] = u <=> elem[v] = u
          BY <2>2, <2>4, <4>2, ThreadAssumption
        <5>3. QED
          BY <5>1, <5>2 DEF Waiting
      <4>3. QED
        BY <4>1, <4>2
    <3>2. \A v, x \in WaitList : v # x => Elems(wait_list'[v]) \cap Elems(wait_list'[x]) = {}
      BY <1>t, <2>3 DEF Linked
    <3>3. QED
      BY <1>t, <2>2, <2>3, <3>1, <3>2 DEF Linked
  <2>6. PoppedOnce(wait_list', elem')
    <3>1. ASSUME NEW t \in Thread, NEW u \in Thread, elem'[u] = t
          PROVE  /\ \A v \in Thread : elem'[v] = t => u = v
                 /\ \A v \in WaitList : ~ list_find(wait_list'[v], t)
      <4>1. CASE t = b
        BY <2>3, <2>4, <3>1, <4>1 DEF list_find
      <4>2. CASE t # b
        <5>1. elem[u] = t /\ \A v \in Thread : elem'[v] = t => elem[v] = t
          BY <2>4, <3>1, <4>2
        <5>2. QED
          BY <1>t, <2>3, <5>1 DEF PoppedOnce, list_find
      <4>3. QED
        BY <4>1, <4>2
    <3>2. QED
      BY <3>1 DEF PoppedOnce
  <2>7. TypeOK'
    BY <1>t, <2>2, <2>3, <2>4 DEF TypeOK
  <2>8. OneRunning(state', current')
    BY <1>t, <2>2
  <2>9. QED
    BY <2>5, <2>6, <2>7, <2>8 DEF IInv
<1>5u. CASE UnblockElem
  <2>1. PICK b : b = elem[current]
    OBVIOUS
  <2>2. /\ b \in Thread /\ thread_unblock(b)
        /\ elem' = [elem EXCEPT ![current] = NULL]
        /\ UNCHANGED << wait_list, idle_pc >>
    BY <1>5u, <1>t, <1>c, <2>1 DEF UnblockElem, InHand, TypeOK
  <2>3. state[b] = "BLOCKED" /\ b # idle
    BY <1>t, <1>c, <2>1, <2>2 DEF Linked, Waiting
  <2>4. /\ ready_list' \in Seq(Thread) /\ NoDuplicates(ready_list')
        /\ Elems(ready_list') = Elems(ready_list) \cup {b}
        /\ state' \in [Thread -> States]
        /\ \A u \in Thread : state'[u] = IF u = b THEN "READY" ELSE state[u]
        /\ OneRunning(state', current')
        /\ UNCHANGED << current, ticks, pid, pid_bitmap >>
    BY <1>u, <2>2, <2>3
  <2>5. /\ elem' \in [Thread -> Thread \cup {NULL}]
        /\ \A u \in Thread : elem'[u] = IF u = current THEN NULL ELSE elem[u]
    BY <1>t, <2>2 DEF TypeOK
  <2>6. /\ \A v \in Thread : elem[v] = b => v = current
        /\ \A w \in WaitList : ~ list_find(wait_list[w], b)
    BY <1>t, <1>c, <2>1, <2>2 DEF PoppedOnce
  <2>7. Linked(state', ready_list', wait_list', elem')
    <3>1. ASSUME NEW u \in Thread
          PROVE  Waiting(wait_list', elem', u) <=> Waiting(wait_list, elem, u) /\ u # b
      <4>1. \A v \in Thread : elem'[v] = u <=> elem[v] = u /\ u # b
        BY <2>1, <2>5, <2>6, ThreadAssumption
      <4>2. QED
        BY <2>2, <2>6, <4>1 DEF Waiting
    <3>2. ASSUME NEW u \in Thread
          PROVE  /\ state'[u] = "READY" <=> list_find(ready_list', u)
                 /\ (state'[u] = "BLOCKED" /\ u # idle) <=> Waiting(wait_list', elem', u)
      BY <1>t, <2>4, <3>1 DEF Linked, list_find
    <3>3. QED
      BY <1>t, <2>2, <2>4, <3>2 DEF Linked
  <2>8. PoppedOnce(wait_list', elem')
    <3>1. \A t, u \in Thread : elem'[u] = t => elem[u] = t
      BY <2>5, ThreadAssumption
    <3>2. QED
      BY <1>t, <2>2, <3>1 DEF PoppedOnce
  <2>9. TypeOK'
    BY <1>t, <2>2, <2>4, <2>5 DEF TypeOK
  <2>10. QED
    BY <2>4, <2>7, <2>8, <2>9 DEF IInv
<1>6. CASE intr_timer_handler
  <2>1. UNCHANGED << wait_list, elem, pid, pid_bitmap >> /\ idle_pc' \in {"block", "hlt"}
    BY <1>6, <1>t DEF intr_timer_handler, LeaveHlt, TypeOK
  <2>2. CASE ticks[current] = 0
    <3>1. schedule(state, ready_list, ticks)
      BY <1>6, <2>2 DEF intr_timer_handler
    <3>2. \A u \in Thread \ {current} : state[u] \notin {"RUNNING", "EXIT"}
      BY <1>t DEF OneRunning
    <3>3. QED
      BY <1>t, <2>1, <3>1, <3>2, ScheduleLinks DEF IInv, TypeOK
  <2>3. CASE ticks[current] # 0
    <3>1. ticks' = [ticks EXCEPT ![current] = @ - 1] /\ UNCHANGED << current, state, ready_list >>
      BY <1>6, <2>3 DEF intr_timer_handler
    <3>2. ticks[current] \in 0 .. MaxTicks
      BY <1>t, <1>c DEF TypeOK
    <3>3. ticks[current] - 1 \in 0 .. MaxTicks
      BY <2>3, <3>2
    <3>4. TypeOK'
      BY <1>t, <2>1, <3>1, <3>3 DEF TypeOK
    <3>5. QED
      BY <1>t, <2>1, <3>1, <3>4 DEF IInv
  <2>4. QED
    BY <2>2, <2>3
<1>7. ASSUME NEW t \in Thread, NEW p \in Pid, do_fork(t, p)
      PROVE  IInv'
  <2> DEFINE st == [state EXCEPT ![t] = "READY"]
             rl == list_push_front(ready_list, t)
             tk == [ticks EXCEPT ![t] = ticks[current]]
  <2>1. /\ ~ list_find(ready_list, t)
        /\ ~ Waiting(wait_list, elem, t)
        /\ t # current
    BY <1>7, <1>t, <1>c DEF do_fork, Linked
  <2>2. /\ rl \in Seq(Thread)
        /\ NoDuplicates(rl)
        /\ Elems(rl) = Elems(ready_list) \cup {t}
    BY <1>t, <2>1, PushFrontLinks DEF TypeOK, Linked, list_find
  <2>3. st \in [Thread -> States] /\ \A u \in Thread : st[u] = IF u = t THEN "READY" ELSE state[u]
    BY <1>t DEF TypeOK, States
  <2>4. Linked(st, rl, wait_list, elem)
    BY <1>t, <2>1, <2>2, <2>3 DEF Linked, list_find
  <2>5. \A u \in Thread \ {current} : st[u] \notin {"RUNNING", "EXIT"}
    BY <1>t, <2>3 DEF OneRunning
  <2>6. tk \in [Thread -> 0 .. MaxTicks]
    BY <1>t, <1>c DEF TypeOK
  <2>7. /\ schedule(st, rl, tk) /\ UNCHANGED << wait_list, elem, idle_pc >>
        /\ pid' = [pid EXCEPT ![t] = p] /\ pid_bitmap' = pid_bitmap \cup {p}
    BY <1>7 DEF do_fork
  <2>8. wait_list \in [WaitList -> Seq(Thread)]
    BY <1>t DEF TypeOK
  <2> HIDE DEF st, rl, tk
  <2>9. QED
    BY <1>t, <2>2, <2>3, <2>4, <2>5, <2>6, <2>7, <2>8, ScheduleLinks DEF IInv, TypeOK
<1>8. CASE sys_exit
  <2> DEFINE st == [state EXCEPT ![current] = "EXIT"]
  <2>1. st \in [Thread -> States] /\ \A u \in Thread : st[u] = IF u = current THEN "EXIT" ELSE state[u]
    BY <1>t DEF TypeOK, States
  <2>2. Linked(st, ready_list, wait_list, elem)
    BY <1>t, <1>c, <2>1 DEF Linked
  <2>3. \A u \in Thread \ {current} : st[u] \notin {"RUNNING", "EXIT"}
    BY <1>t, <2>1 DEF OneRunning
  <2>4. /\ schedule(st, ready_list, ticks) /\ UNCHANGED << wait_list, elem, idle_pc, pid >>
        /\ pid_bitmap' = pid_bitmap \ {pid[current]}
    BY <1>8 DEF sys_exit, free_pid
  <2>5. /\ ready_list \in Seq(Thread) /\ ticks \in [Thread -> 0 .. MaxTicks]
        /\ wait_list \in [WaitList -> Seq(Thread)]
    BY <1>t DEF TypeOK
  <2> HIDE DEF st
  <2>6. QED
    BY <1>t, <2>1, <2>2, <2>3, <2>4, <2>5, ScheduleLinks DEF IInv, TypeOK
<1>9. CASE UNCHANGED vars
  BY <1>9, <1>t DEF vars, IInv, TypeOK
<1>10. QED
  BY <1>1, <1>2, <1>3, <1>4, <1>5, <1>5p, <1>5u, <1>6, <1>7, <1>8, <1>9 DEF Next

-----------------------------------------------------------------------------
\* Whatever the threads and interrupts do, the variables keep their types: in
\* particular the ready list and the wait lists link threads only.
THEOREM TypeCorrect == Spec => []TypeOK
<1>1. IInv => TypeOK
  BY DEF IInv
<1>2. QED
  BY <1>1, InitIInv, NextIInv, PTL DEF Spec

\* No list_elem is ever linked twice, however many threads and lists there are.
THEOREM LinkedOnce == Spec => []TagLinkedOnce
<1>1. IInv => TagLinkedOnce
  <2> SUFFICES ASSUME IInv PROVE TagLinkedOnce
    OBVIOUS
  <2>1. Linked(state, ready_list, wait_list, elem)
    BY DEF IInv
  <2>2. ASSUME NEW w \in WaitList
        PROVE  Elems(wait_list[w]) \cap Elems(ready_list) = {}
    <3>1. \A t \in Elems(ready_list) : t \in Thread
      BY ElementOfSeq, LenProperties DEF IInv, TypeOK, Elems, Range
    <3>2. \A t \in Thread : t \in Elems(wait_list[w]) => state[t] = "BLOCKED"
      BY <2>1 DEF Linked, Waiting, list_find
    <3>3. \A t \in Thread : t \in Elems(ready_list) => state[t] = "READY"
      BY <2>1 DEF Linked, list_find
    <3>4. QED
      BY <3>1, <3>2, <3>3
  <2>3. QED
    BY <2>1, <2>2 DEF Linked, TagLinkedOnce
<1>2. QED
  BY <1>1, InitIInv, NextIInv, PTL DEF Spec

\* A thread's state always tells where it is: in the ready list, current, in a wait
\* list or in the hand of one releaser of a mutex.
THEOREM StatesTell == Spec => []StateAgrees
<1>1. IInv => StateAgrees
  <2> SUFFICES ASSUME IInv, NEW t \in Thread
               PROVE  LET queued == \E w \in WaitList : list_find(wait_list[w], t)
                          popped == \E u \in Thread : elem[u] = t
                      IN  /\ state[t] = "READY" <=> list_find(ready_list, t)
                          /\ state[t] = "RUNNING" <=> t = current
                          /\ (state[t] = "BLOCKED" /\ t # idle) <=> queued \/ popped
                          /\ ~ (queued /\ popped)
                          /\ \A u, v \in Thread : elem[u] = t /\ elem[v] = t => u = v
                          /\ state[t] # "EXIT"
    BY DEF StateAgrees
  <2>1. /\ state[t] = "READY" <=> list_find(ready_list, t)
        /\ (state[t] = "BLOCKED" /\ t # idle) <=> Waiting(wait_list, elem, t)
    BY DEF IInv, Linked
  <2>2. /\ state[t] = "RUNNING" <=> t = current
        /\ state[t] # "EXIT"
    BY DEF IInv, OneRunning
  <2>3. \A u \in Thread : elem[u] = t =>
          /\ \A v \in Thread : elem[v] = t => u = v
          /\ \A w \in WaitList : ~ list_find(wait_list[w], t)
    BY DEF IInv, PoppedOnce
  <2>4. QED
    BY <2>1, <2>2, <2>3 DEF Waiting
<1>2. QED
  BY <1>1, InitIInv, NextIInv, PTL DEF Spec

-----------------------------------------------------------------------------
\* For the pids one has to know which pages schedule() frees: that of a caller that
\* exits, and no other, because what it runs next is not free.
LEMMA ScheduleFrees ==
  ASSUME TypeOK,
         NEW st \in [Thread -> States], NEW rl \in Seq(Thread), NEW tk \in [Thread -> 0 .. MaxTicks],
         \A t \in Elems(rl) : st[t] = "READY",
         st[idle] # "FREE", st[current] # "FREE",
         st[current] = "EXIT" => current # idle,
         schedule(st, rl, tk)
  PROVE  \A t \in Thread :
           state'[t] = "FREE" <=> (st[t] = "FREE" \/ (t = current /\ st[t] = "EXIT"))
<1> DEFINE expired == st[current] = "RUNNING"
           queue == IF expired THEN list_push_back(rl, current) ELSE rl
           next == IF list_empty(queue) THEN idle ELSE list_first(queue)
           left == IF expired THEN "READY" ELSE IF st[current] = "EXIT" THEN "FREE" ELSE st[current]
<1>1. state' = [st EXCEPT ![current] = left, ![next] = "RUNNING"]
  BY DEF schedule
<1>2. current \in Thread /\ idle \in Thread
  BY ThreadAssumption DEF TypeOK
<1>3. /\ queue \in Seq(Thread)
      /\ \A t \in Elems(queue) : st[t] = "READY" \/ (t = current /\ expired)
  <2>1. CASE expired
    <3>1. queue = list_push_back(rl, current)
      BY <2>1
    <3>2. /\ list_push_back(rl, current) \in Seq(Thread)
          /\ Elems(list_push_back(rl, current)) = Elems(rl) \cup {current}
      BY <1>2, PushBackLinks
    <3>3. QED
      BY <2>1, <3>1, <3>2
  <2>2. CASE ~ expired
    BY <2>2
  <2>3. QED
    BY <2>1, <2>2
<1>4. /\ next \in Thread /\ st[next] # "FREE"
      /\ st[current] = "EXIT" => next # current
  <2>1. CASE list_empty(queue)
    BY <1>2, <2>1
  <2>2. CASE ~ list_empty(queue)
    <3>1. next \in Thread /\ next \in Elems(queue)
      BY <1>3, <2>2, PopFrontUnlinks DEF list_find
    <3>2. QED
      BY <1>3, <3>1
  <2>3. QED
    BY <2>1, <2>2
<1> HIDE DEF next, queue
<1>5. left = "FREE" <=> st[current] = "EXIT"
  OBVIOUS
<1>6. ASSUME NEW t \in Thread
      PROVE  state'[t] = "FREE" <=> (st[t] = "FREE" \/ (t = current /\ st[t] = "EXIT"))
  <2>1. CASE t = next
    BY <1>1, <1>2, <1>4, <2>1
  <2>2. CASE t # next /\ t = current
    BY <1>1, <1>2, <1>5, <2>2
  <2>3. CASE t # next /\ t # current
    BY <1>1, <1>2, <2>3
  <2>4. QED
    BY <2>1, <2>2, <2>3
<1>7. QED
  BY <1>6

\* What is needed beside PidsUnique: idle, on which schedule() falls back, never exits.
PInv == PidsUnique /\ state[idle] # "FREE"

LEMMA InitPInv == Init => PInv
BY ThreadAssumption DEF Init, PInv, PidsUnique, Live

\* A step keeps the pids unique that lets the same threads live on with their pids,
LEMMA SameLive ==
  ASSUME PInv, UNCHANGED << pid, pid_bitmap >>, state'[idle] # "FREE",
         \A t \in Thread : state'[t] = "FREE" <=> state[t] = "FREE"
  PROVE  PInv'
BY DEF PInv, PidsUnique, Live

\* or gives a new one a pid that is not in use.
LEMMA OneMoreLive ==
  ASSUME TypeOK, PInv, NEW c \in Thread, NEW p \in Pid, state[c] = "FREE", alloc_pid(p),
         pid' = [pid EXCEPT ![c] = p], pid_bitmap' = pid_bitmap \cup {p},
         \A t \in Thread : state'[t] = "FREE" <=> (t # c /\ state[t] = "FREE")
  PROVE  PInv'
<1>1. Live' = Live \cup {c} /\ c \notin Live
  BY DEF Live
<1>2. pid'[c] = p /\ \A t \in Live : pid'[t] = pid[t]
  BY <1>1 DEF TypeOK, Live
<1>3. p \notin { pid[t] : t \in Live }
  BY DEF PInv, PidsUnique, alloc_pid
<1>4. pid_bitmap' = { pid'[t] : t \in Live' }
  BY <1>1, <1>2 DEF PInv, PidsUnique
<1>5. \A t, u \in Live' : pid'[t] = pid'[u] => t = u
  BY <1>1, <1>2, <1>3 DEF PInv, PidsUnique
<1>6. state'[idle] # "FREE"
  BY ThreadAssumption DEF PInv
<1>7. QED
  BY <1>4, <1>5, <1>6 DEF PInv, PidsUnique

LEMMA NextPInv == IInv /\ PInv /\ [Next]_vars => PInv'
<1> SUFFICES ASSUME IInv, PInv, [Next]_vars PROVE PInv'
  OBVIOUS
<1>t. /\ TypeOK /\ Linked(state, ready_list, wait_list, elem) /\ OneRunning(state, current)
      /\ state[idle] # "FREE" /\ idle \in Thread
  BY ThreadAssumption DEF IInv, PInv
<1>c. /\ current \in Thread /\ state[current] = "RUNNING"
      /\ \A t \in Elems(ready_list) : state[t] = "READY"
      /\ ready_list \in Seq(Thread) /\ ticks \in [Thread -> 0 .. MaxTicks]
      /\ state \in [Thread -> States]
  <2>1. \A t \in Elems(ready_list) : t \in Thread
    BY <1>t DEF TypeOK, Elems, Range
  <2>2. QED
    BY <1>t, <2>1 DEF TypeOK, OneRunning, Linked, list_find
<1>1. ASSUME NEW t \in Thread, NEW p \in Pid, kthread_create(t, p)
      PROVE  PInv'
  <2>1. /\ state[t] = "FREE" /\ alloc_pid(p) /\ state' = [state EXCEPT ![t] = "READY"]
        /\ pid' = [pid EXCEPT ![t] = p] /\ pid_bitmap' = pid_bitmap \cup {p}
    BY <1>1 DEF kthread_create
  <2>2. \A u \in Thread : state'[u] = "FREE" <=> (u # t /\ state[u] = "FREE")
    BY <1>c, <2>1
  <2>3. QED
    BY <1>t, <2>1, <2>2, OneMoreLive
<1>2. CASE thread_yield
  <2> DEFINE st == [state EXCEPT ![current] = "READY"]
             rl == list_push_back(ready_list, current)
  <2>1. schedule(st, rl, ticks) /\ UNCHANGED << pid, pid_bitmap >>
    BY <1>2 DEF thread_yield
  <2>2. rl \in Seq(Thread) /\ Elems(rl) = Elems(ready_list) \cup {current}
    BY <1>c, PushBackLinks
  <2>3. st \in [Thread -> States] /\ \A u \in Thread : st[u] = IF u = current THEN "READY" ELSE state[u]
    BY <1>c DEF States
  <2>4. \A u \in Elems(rl) : st[u] = "READY"
    BY <1>c, <2>2
  <2> HIDE DEF st, rl
  <2>5. \A u \in Thread : state'[u] = "FREE" <=> state[u] = "FREE"
    <3>1. st[current] = "READY" /\ st[idle] # "FREE"
      BY <1>t, <1>c, <2>3
    <3>2. \A u \in Thread : state'[u] = "FREE" <=> (st[u] = "FREE" \/ (u = current /\ st[u] = "EXIT"))
      BY <1>t, <1>c, <2>1, <2>2, <2>3, <2>4, <3>1, ScheduleFrees
    <3>3. QED
      BY <1>c, <2>3, <3>1, <3>2
  <2>6. QED
    BY <1>t, <2>1, <2>5, SameLive
<1>3. ASSUME NEW w \in WaitList, thread_block(w)
      PROVE  PInv'
  <2> DEFINE st == [state EXCEPT ![current] = "BLOCKED"]
  <2>1. schedule(st, ready_list, ticks) /\ UNCHANGED << pid, pid_bitmap >>
    BY <1>3 DEF thread_block
  <2>2. st \in [Thread -> States] /\ \A u \in Thread : st[u] = IF u = current THEN "BLOCKED" ELSE state[u]
    BY <1>c DEF States
  <2>3. \A u \in Elems(ready_list) : st[u] = "READY"
    BY <1>c
  <2> HIDE DEF st
  <2>4. \A u \in Thread : state'[u] = "FREE" <=> state[u] = "FREE"
    <3>1. st[current] = "BLOCKED" /\ st[idle] # "FREE"
      BY <1>t, <1>c, <2>2
    <3>2. \A u \in Thread : state'[u] = "FREE" <=> (st[u] = "FREE" \/ (u = current /\ st[u] = "EXIT"))
      BY <1>t, <1>c, <2>1, <2>2, <2>3, <3>1, ScheduleFrees
    <3>3. QED
      BY <1>c, <2>2, <3>1, <3>2
  <2>5. QED
    BY <1>t, <2>1, <2>4, SameLive
<1>4. CASE idle_block
  <2> DEFINE st == [state EXCEPT ![idle] = "BLOCKED"]
  <2>1. schedule(st, ready_list, ticks) /\ UNCHANGED << pid, pid_bitmap >> /\ current = idle
    BY <1>4 DEF idle_block
  <2>2. st \in [Thread -> States] /\ \A u \in Thread : st[u] = IF u = current THEN "BLOCKED" ELSE state[u]
    BY <1>c, <2>1 DEF States
  <2>3. \A u \in Elems(ready_list) : st[u] = "READY"
    BY <1>c, <2>1
  <2> HIDE DEF st
  <2>4. \A u \in Thread : state'[u] = "FREE" <=> state[u] = "FREE"
    <3>1. st[current] = "BLOCKED" /\ st[idle] # "FREE"
      BY <1>t, <1>c, <2>1, <2>2
    <3>2. \A u \in Thread : state'[u] = "FREE" <=> (st[u] = "FREE" \/ (u = current /\ st[u] = "EXIT"))
      BY <1>t, <1>c, <2>1, <2>2, <2>3, <3>1, ScheduleFrees
    <3>3. QED
      BY <1>c, <2>2, <3>1, <3>2
  <2>5. QED
    BY <1>t, <2>1, <2>4, SameLive
<1>u. ASSUME NEW b \in Thread, state[b] = "BLOCKED", thread_unblock(b)
      PROVE  PInv'
  <2>1. state' = [state EXCEPT ![b] = "READY"] /\ UNCHANGED << pid, pid_bitmap >>
    BY <1>u DEF thread_unblock
  <2>2. \A u \in Thread : state'[u] = "FREE" <=> state[u] = "FREE"
    BY <1>c, <1>u, <2>1
  <2>3. QED
    BY <1>t, <2>1, <2>2, SameLive
<1>5. ASSUME NEW w \in WaitList, WakeFirst(w)
      PROVE  PInv'
  <2>1. PICK b : b = list_first(wait_list[w])
    OBVIOUS
  <2>2. thread_unblock(b) /\ ~ list_empty(wait_list[w]) /\ wait_list[w] \in Seq(Thread)
    BY <1>5, <1>t, <2>1 DEF WakeFirst, TypeOK
  <2>3. b \in Thread /\ list_find(wait_list[w], b)
    BY <2>1, <2>2, PopFrontUnlinks
  <2>4. Waiting(wait_list, elem, b)
    BY <2>3 DEF Waiting
  <2>5. state[b] = "BLOCKED"
    BY <1>t, <2>3, <2>4 DEF Linked
  <2>6. QED
    BY <1>u, <2>2, <2>3, <2>5
<1>5p. ASSUME NEW w \in WaitList, PopWaiter(w)
       PROVE  PInv'
  <2>1. UNCHANGED << state, pid, pid_bitmap >>
    BY <1>5p DEF PopWaiter
  <2>2. QED
    BY <1>t, <2>1, SameLive
<1>5u. CASE UnblockElem
  <2>1. PICK b : b = elem[current]
    OBVIOUS
  <2>2. thread_unblock(b) /\ b \in Thread
    BY <1>5u, <1>t, <1>c, <2>1 DEF UnblockElem, InHand, TypeOK
  <2>3. Waiting(wait_list, elem, b)
    BY <1>c, <2>1 DEF Waiting
  <2>4. state[b] = "BLOCKED"
    BY <1>t, <2>2, <2>3 DEF Linked
  <2>5. QED
    BY <1>u, <2>2, <2>4
<1>6. CASE intr_timer_handler
  <2>1. UNCHANGED << pid, pid_bitmap >>
    BY <1>6 DEF intr_timer_handler
  <2>2. \A u \in Thread : state'[u] = "FREE" <=> state[u] = "FREE"
    <3>1. CASE ticks[current] = 0
      <4>1. schedule(state, ready_list, ticks)
        BY <1>6, <3>1 DEF intr_timer_handler
      <4>2. QED
        BY <1>t, <1>c, <4>1, ScheduleFrees
    <3>2. CASE ticks[current] # 0
      BY <1>6, <3>2 DEF intr_timer_handler
    <3>3. QED
      BY <3>1, <3>2
  <2>3. QED
    BY <1>t, <2>1, <2>2, SameLive
<1>7. ASSUME NEW t \in Thread, NEW p \in Pid, do_fork(t, p)
      PROVE  PInv'
  <2> DEFINE st == [state EXCEPT ![t] = "READY"]
             rl == list_push_front(ready_list, t)
             tk == [ticks EXCEPT ![t] = ticks[current]]
  <2>1. /\ schedule(st, rl, tk) /\ state[t] = "FREE" /\ alloc_pid(p)
        /\ pid' = [pid EXCEPT ![t] = p] /\ pid_bitmap' = pid_bitmap \cup {p}
    BY <1>7 DEF do_fork
  <2>2. rl \in Seq(Thread) /\ Elems(rl) = Elems(ready_list) \cup {t}
    BY <1>c, PushFrontLinks
  <2>3. st \in [Thread -> States] /\ \A u \in Thread : st[u] = IF u = t THEN "READY" ELSE state[u]
    BY <1>c DEF States
  <2>4. \A u \in Elems(rl) : st[u] = "READY"
    BY <1>c, <2>2
  <2>5. tk \in [Thread -> 0 .. MaxTicks]
    BY <1>c
  <2> HIDE DEF st, rl, tk
  <2>6. /\ st[idle] # "FREE" /\ st[current] = "RUNNING"
        /\ \A u \in Thread : st[u] # "EXIT"
    BY <1>t, <1>c, <2>1, <2>3 DEF OneRunning
  <2>7. \A u \in Thread : state'[u] = "FREE" <=> (st[u] = "FREE" \/ (u = current /\ st[u] = "EXIT"))
    BY <1>t, <2>1, <2>2, <2>3, <2>4, <2>5, <2>6, ScheduleFrees
  <2>8. \A u \in Thread : state'[u] = "FREE" <=> (u # t /\ state[u] = "FREE")
    BY <2>3, <2>6, <2>7
  <2>9. QED
    BY <1>t, <2>1, <2>8, OneMoreLive
<1>8. CASE sys_exit
  <2> DEFINE st == [state EXCEPT ![current] = "EXIT"]
  <2>1. /\ schedule(st, ready_list, ticks) /\ pid' = pid /\ current # idle
        /\ pid_bitmap' = pid_bitmap \ {pid[current]}
    BY <1>8 DEF sys_exit, free_pid
  <2>2. st \in [Thread -> States] /\ \A u \in Thread : st[u] = IF u = current THEN "EXIT" ELSE state[u]
    BY <1>c DEF States
  <2>3. \A u \in Elems(ready_list) : st[u] = "READY"
    BY <1>c
  <2> HIDE DEF st
  <2>4. \A u \in Thread : state'[u] = "FREE" <=> (state[u] = "FREE" \/ u = current)
    BY <1>t, <1>c, <2>1, <2>2, <2>3, ScheduleFrees
  <2>5. Live' = Live \ {current} /\ current \in Live
    BY <1>c, <2>4 DEF Live
  <2>6. QED
    BY <1>t, <2>1, <2>4, <2>5 DEF PInv, PidsUnique
<1>9. CASE UNCHANGED vars
  BY <1>9, <1>t, SameLive DEF vars
<1>10. QED
  BY <1>1, <1>2, <1>3, <1>4, <1>5, <1>5p, <1>5u, <1>6, <1>7, <1>8, <1>9 DEF Next

\* No pid is given to two live threads, and the bitmap knows those in use: exit frees
\* a pid with its page, once, although schedule() still runs on that page.
THEOREM PidsTell == Spec => []PidsUnique
<1>1. PInv => PidsUnique
  BY DEF PInv
<1>2. QED
  BY <1>1, InitIInv, NextIInv, InitPInv, NextPInv, PTL DEF Spec

-----------------------------------------------------------------------------
(***************************************************************************)
(* The order of the ready list.  Between two steps an element may be late  *)
(* by one place, when fork has put the child before it and schedule() has  *)
(* not yet taken the child away.                                           *)
(***************************************************************************)
Late(l, m, d) == \A i \in DOMAIN l, j \in DOMAIN m : l[i] = m[j] => j <= i + d

LEMMA SameInTime ==
  ASSUME NEW l \in Seq(Thread), NoDuplicates(l)
  PROVE  Late(l, l, 0)
<1>1. DOMAIN l = 1 .. Len(l) /\ Len(l) \in Nat
  BY LenProperties
<1>2. QED
  BY <1>1 DEF Late, NoDuplicates, IsInjective

LEMMA BackInTime ==
  ASSUME NEW l \in Seq(Thread), NEW m \in Seq(Thread), NEW d \in {0, 1}, NEW e \in Thread,
         Late(l, m, d), e \notin Elems(l)
  PROVE  Late(l, list_push_back(m, e), d)
<1> DEFINE n == Append(m, e)
<1>1. /\ n \in Seq(Thread) /\ Len(n) = Len(m) + 1
      /\ \A i \in 1 .. Len(m) : n[i] = m[i]
      /\ n[Len(m) + 1] = e
  BY AppendProperties
<1>2. DOMAIN l = 1 .. Len(l) /\ DOMAIN m = 1 .. Len(m) /\ DOMAIN n = 1 .. Len(m) + 1 /\ Len(m) \in Nat
  BY <1>1, LenProperties
<1> HIDE DEF n
<1>3. ASSUME NEW i \in DOMAIN l, NEW j \in DOMAIN n, l[i] = n[j]
      PROVE  j <= i + d
  <2>1. n[j] # e
    BY <1>3 DEF Elems, Range
  <2>2. j \in DOMAIN m /\ n[j] = m[j]
    BY <1>1, <1>2, <2>1
  <2>3. QED
    BY <1>3, <2>2 DEF Late
<1>4. QED
  BY <1>3 DEF Late, list_push_back, n

LEMMA FrontLate ==
  ASSUME NEW l \in Seq(Thread), NEW e \in Thread, NoDuplicates(l), e \notin Elems(l)
  PROVE  Late(l, list_push_front(l, e), 1)
<1> DEFINE n == << e >> \o l
<1>1. n \in Seq(Thread) /\ Len(n) = Len(l) + 1 /\ n[1] = e /\ \A i \in 1 .. Len(l) : n[i + 1] = l[i]
  BY ConcatProperties, LenProperties
<1>2. DOMAIN l = 1 .. Len(l) /\ DOMAIN n = 1 .. Len(l) + 1 /\ Len(l) \in Nat
  BY <1>1, LenProperties
<1> HIDE DEF n
<1>3. ASSUME NEW i \in DOMAIN l, NEW j \in DOMAIN n, l[i] = n[j]
      PROVE  j <= i + 1
  <2>1. n[j] # e
    BY <1>3 DEF Elems, Range
  <2>2. j # 1 /\ j - 1 \in 1 .. Len(l) /\ (j - 1) + 1 = j
    BY <1>1, <1>2, <2>1
  <2>3. l[j - 1] = l[i]
    BY <1>1, <1>3, <2>2
  <2>4. j - 1 = i
    BY <1>2, <2>2, <2>3 DEF NoDuplicates, IsInjective
  <2>5. QED
    BY <1>2, <2>4
<1>4. QED
  BY <1>3 DEF Late, list_push_front, n

\* The element that is taken from the front makes up for one place.
LEMMA RestInTime ==
  ASSUME NEW l \in Seq(Thread), NEW m \in Seq(Thread), NEW d \in {0, 1}, Late(l, m, d),
         list_empty(m) => d = 0
  PROVE  Late(l, list_rest(m), 0)
<1>1. CASE list_empty(m)
  BY <1>1 DEF list_rest
<1>2. CASE ~ list_empty(m)
  <2> DEFINE n == Tail(m)
  <2>1. n \in Seq(Thread) /\ Len(n) = Len(m) - 1 /\ \A i \in 1 .. Len(n) : n[i] = m[i + 1]
    BY <1>2, HeadTailProperties DEF list_empty
  <2>2. DOMAIN l = 1 .. Len(l) /\ Len(l) \in Nat /\ DOMAIN m = 1 .. Len(m) /\ DOMAIN n = 1 .. Len(n) /\ Len(m) \in Nat
    BY <2>1, LenProperties
  <2> HIDE DEF n
  <2>3. ASSUME NEW i \in DOMAIN l, NEW j \in DOMAIN n, l[i] = n[j]
        PROVE  j <= i + 0
    <3>1. j + 1 \in DOMAIN m /\ l[i] = m[j + 1]
      BY <2>1, <2>2, <2>3
    <3>2. j + 1 <= i + d
      BY <3>1 DEF Late
    <3>3. QED
      BY <2>2, <3>2
  <2>4. QED
    BY <1>2, <2>3 DEF Late, list_rest, n
<1>3. QED
  BY <1>1, <1>2

\* schedule() takes one element from the front and queues none that was queued before.
LEMMA ScheduleInTime ==
  ASSUME IInv, NEW st, NEW rl \in Seq(Thread), NEW tk, NEW d \in {0, 1}, Late(ready_list, rl, d),
         list_empty(rl) => d = 0, schedule(st, rl, tk)
  PROVE  Late(ready_list, ready_list', 0)
<1> DEFINE queue == IF st[current] = "RUNNING" THEN list_push_back(rl, current) ELSE rl
<1>1. current \in Thread /\ current \notin Elems(ready_list) /\ ready_list \in Seq(Thread)
  BY DEF IInv, TypeOK, Linked, OneRunning, list_find
<1>2. queue \in Seq(Thread) /\ Late(ready_list, queue, d) /\ (list_empty(queue) => d = 0)
  BY <1>1, PushBackLinks, BackInTime DEF list_empty
<1>3. ready_list' = list_rest(queue)
  BY DEF schedule
<1>4. QED
  BY <1>1, <1>2, <1>3, RestInTime

LEMMA NextInTime ==
  ASSUME IInv, [Next]_vars
  PROVE  Late(ready_list, ready_list', 0)
<1>1. /\ current \in Thread /\ ready_list \in Seq(Thread) /\ NoDuplicates(ready_list)
      /\ \A t \in Thread : state[t] # "READY" => t \notin Elems(ready_list)
      /\ state[current] # "READY"
  BY DEF IInv, TypeOK, Linked, OneRunning, list_find
<1>2. Late(ready_list, ready_list, 0)
  BY <1>1, SameInTime
<1>3. ASSUME NEW t \in Thread, state[t] # "READY"
      PROVE  /\ list_push_back(ready_list, t) \in Seq(Thread)
             /\ Late(ready_list, list_push_back(ready_list, t), 0)
  BY <1>1, <1>2, <1>3, BackInTime, PushBackLinks
<1>4. ASSUME NEW t \in Thread, NEW p \in Pid, kthread_create(t, p)
      PROVE  Late(ready_list, ready_list', 0)
  BY <1>3, <1>4 DEF kthread_create
<1>5. CASE thread_yield
  BY <1>1, <1>3, <1>5, ScheduleInTime DEF thread_yield
<1>6. ASSUME NEW st, NEW tk, schedule(st, ready_list, tk)
      PROVE  Late(ready_list, ready_list', 0)
  BY <1>1, <1>2, <1>6, ScheduleInTime
<1>u. ASSUME NEW b \in Thread, state[b] = "BLOCKED", thread_unblock(b)
      PROVE  Late(ready_list, ready_list', 0)
  <2>1. ready_list' = list_push_back(ready_list, b)
    BY <1>u DEF thread_unblock
  <2>2. QED
    BY <1>3, <1>u, <2>1
<1>7. ASSUME NEW w \in WaitList, WakeFirst(w)
      PROVE  Late(ready_list, ready_list', 0)
  <2>1. PICK b : b = list_first(wait_list[w])
    OBVIOUS
  <2>2. thread_unblock(b) /\ ~ list_empty(wait_list[w]) /\ wait_list[w] \in Seq(Thread)
    BY <1>7, <2>1 DEF WakeFirst, IInv, TypeOK
  <2>3. b \in Thread /\ list_find(wait_list[w], b)
    BY <2>1, <2>2, PopFrontUnlinks
  <2>4. Waiting(wait_list, elem, b)
    BY <2>3 DEF Waiting
  <2>5. state[b] = "BLOCKED"
    BY <2>3, <2>4 DEF IInv, Linked
  <2>6. QED
    BY <1>u, <2>2, <2>3, <2>5
<1>7u. CASE UnblockElem
  <2>1. PICK b : b = elem[current]
    OBVIOUS
  <2>2. thread_unblock(b) /\ b \in Thread
    BY <1>7u, <1>1, <2>1 DEF UnblockElem, InHand, IInv, TypeOK
  <2>3. Waiting(wait_list, elem, b)
    BY <1>1, <2>1 DEF Waiting
  <2>4. state[b] = "BLOCKED"
    BY <2>2, <2>3 DEF IInv, Linked
  <2>5. QED
    BY <1>u, <2>2, <2>4
<1>8. ASSUME NEW t \in Thread, NEW p \in Pid, do_fork(t, p)
      PROVE  Late(ready_list, ready_list', 0)
  <2>1. t \notin Elems(ready_list)
    BY <1>1, <1>8 DEF do_fork
  <2>2. /\ list_push_front(ready_list, t) \in Seq(Thread) /\ ~ list_empty(list_push_front(ready_list, t))
        /\ Late(ready_list, list_push_front(ready_list, t), 1)
    BY <1>1, <2>1, PushFrontLinks, FrontLate DEF list_empty
  <2>3. QED
    BY <1>8, <2>2, ScheduleInTime DEF do_fork
<1>9. QED
  BY <1>2, <1>4, <1>5, <1>6, <1>7, <1>7u, <1>8
  DEF Next, vars, thread_block, idle_block, PopWaiter, intr_timer_handler, sys_exit

\* A thread in the ready list never falls back: thread_unblock, kthread_create and an expired
\* time slice queue behind it, and the child that do_fork puts before it has left the list when
\* the schedule() of the same fork is done.
THEOREM Fifo == Spec => NoOvertaking
<1>1. ASSUME IInv, IInv', [Next]_vars, NEW t \in Elems(ready_list) \cap Elems(ready_list')
      PROVE  Position(t)' <= Position(t)
  <2>1. PICK i \in DOMAIN ready_list : ready_list[i] = t
    BY DEF Elems, Range
  <2>2. PICK j \in DOMAIN ready_list' : ready_list'[j] = t
    BY DEF Elems, Range
  <2>3. Position(t) = i
    BY <1>1, <2>1 DEF Position, IInv, Linked, NoDuplicates, IsInjective
  <2>4. Position(t)' = j
    BY <1>1, <2>2 DEF Position, IInv, Linked, NoDuplicates, IsInjective
  <2>5. j <= i + 0 /\ i \in Nat
    <3>1. Late(ready_list, ready_list', 0)
      BY <1>1, NextInTime
    <3>2. j <= i + 0
      BY <2>1, <2>2, <3>1 DEF Late
    <3>3. ready_list \in Seq(Thread)
      BY <1>1 DEF IInv, TypeOK
    <3>4. DOMAIN ready_list = 1 .. Len(ready_list) /\ Len(ready_list) \in Nat
      BY <3>3, LenProperties
    <3>5. QED
      BY <3>2, <3>4
  <2>6. QED
    BY <2>3, <2>4, <2>5
<1>2. IInv /\ IInv' /\ [Next]_vars =>
        [\A t \in Elems(ready_list) \cap Elems(ready_list') : Position(t)' <= Position(t)]_vars
  BY <1>1
<1>3. QED
  BY <1>2, InitIInv, NextIInv, PTL DEF Spec, NoOvertaking

=============================================================================
