---------------------------- MODULE Mutex_proofs ----------------------------
(***************************************************************************)
(* For any number of threads, the mutex excludes, its assertions hold and  *)
(* no wake-up is lost, provided that no interrupt handler uses it on the   *)
(* stack of a thread which stands between the exchange of is_lock and the  *)
(* matching assignments of holder and repeat.                              *)
(***************************************************************************)
EXTENDS Mutex, SequenceTheorems, TLAPS

-----------------------------------------------------------------------------
\* What the list operations do to the set of linked elements and to the absence of
\* duplicates: all that the rest of the proofs needs to know of sequences.

\* list_init() makes a list that links nothing.
LEMMA InitLinks ==
  ASSUME NEW S
  PROVE  /\ list_init \in Seq(S)
         /\ Elems(list_init) = {}
         /\ NoDuplicates(list_init)
BY DEF list_init, Elems, Range, NoDuplicates, IsInjective

\* list_push_back() links one more element, and keeps a list duplicate-free
\* when the element was not in it.
LEMMA PushBackLinks ==
  ASSUME NEW S, NEW l \in Seq(S), NEW e \in S
  PROVE  /\ list_push_back(l, e) \in Seq(S)
         /\ list_push_back(l, e) # << >>
         /\ Elems(list_push_back(l, e)) = Elems(l) \cup {e}
         /\ NoDuplicates(l) /\ e \notin Elems(l) => NoDuplicates(list_push_back(l, e))
<1> DEFINE m == Append(l, e)
<1>1. /\ m \in Seq(S) /\ m # << >> /\ DOMAIN m = 1 .. Len(l) + 1 /\ DOMAIN l = 1 .. Len(l) /\ Len(l) \in Nat
      /\ \A i \in 1 .. Len(l) + 1 : m[i] = IF i <= Len(l) THEN l[i] ELSE e
  BY AppendProperties, LenProperties
<1> HIDE DEF m
<1>2. Range(m) = Range(l) \cup {e}
  BY <1>1 DEF Range
<1>3. IsInjective(l) /\ e \notin Range(l) => IsInjective(m)
  BY <1>1 DEF IsInjective, Range
<1>4. QED
  BY <1>1, <1>2, <1>3 DEF m, list_push_back, Elems, NoDuplicates

\* list_pop_front() unlinks exactly the front element of a non-empty list.
LEMMA PopFrontUnlinks ==
  ASSUME NEW S, NEW l \in Seq(S), ~ list_empty(l)
  PROVE  /\ list_first(l) \in S
         /\ list_find(l, list_first(l))
         /\ list_rest(l) \in Seq(S)
         /\ NoDuplicates(l) => /\ NoDuplicates(list_rest(l))
                               /\ Elems(list_rest(l)) = Elems(l) \ {list_first(l)}
<1> DEFINE m == Tail(l)
<1>1. /\ Head(l) = l[1] /\ Head(l) \in S /\ m \in Seq(S) /\ Len(l) \in Nat \ {0}
      /\ DOMAIN l = 1 .. Len(l) /\ DOMAIN m = 1 .. Len(l) - 1
      /\ \A i \in 1 .. Len(l) - 1 : m[i] = l[i + 1]
  BY HeadTailProperties, LenProperties, EmptySeq DEF list_empty
<1> HIDE DEF m
<1>2. IsInjective(l) => IsInjective(m)
  <2> SUFFICES ASSUME IsInjective(l), NEW a \in DOMAIN m, NEW b \in DOMAIN m, m[a] = m[b]
               PROVE  a = b
    BY DEF IsInjective
  <2>1. a \in 1 .. Len(l) - 1 /\ b \in 1 .. Len(l) - 1
    BY <1>1
  <2>2. a + 1 \in DOMAIN l /\ b + 1 \in DOMAIN l /\ l[a + 1] = l[b + 1]
    BY <1>1, <2>1
  <2>3. a + 1 = b + 1
    BY <2>2 DEF IsInjective
  <2>4. QED
    BY <2>1, <2>3
<1>3. 1 \in 1 .. Len(l) /\ \A i \in 1 .. Len(l) - 1 : i + 1 \in 1 .. Len(l) /\ i + 1 # 1
  BY <1>1
<1>4. \A j \in 1 .. Len(l) : j # 1 => j - 1 \in 1 .. Len(l) - 1 /\ m[j - 1] = l[j]
  BY <1>1
<1>5. ASSUME IsInjective(l) PROVE Range(m) = Range(l) \ {l[1]}
  <2>1. Range(m) \subseteq Range(l) \ {l[1]}
    <3> SUFFICES ASSUME NEW a \in DOMAIN m PROVE m[a] \in Range(l) \ {l[1]}
      BY DEF Range
    <3>1. a + 1 \in DOMAIN l /\ 1 \in DOMAIN l /\ a + 1 # 1 /\ m[a] = l[a + 1]
      BY <1>1, <1>3
    <3>2. l[a + 1] # l[1]
      BY <1>5, <3>1 DEF IsInjective
    <3>3. QED
      BY <3>1, <3>2 DEF Range
  <2>2. Range(l) \ {l[1]} \subseteq Range(m)
    BY <1>1, <1>4 DEF Range
  <2>3. QED
    BY <2>1, <2>2
<1>6. l[1] \in Range(l)
  BY <1>1, <1>3 DEF Range
<1>7. QED
  BY <1>1, <1>2, <1>5, <1>6 DEF m, list_first, list_rest, list_find, list_empty, Elems, NoDuplicates

-----------------------------------------------------------------------------

\* The places at which an interrupt finds is_lock and holder in disagreement.
Windows == {"sethold", "setrep", "clear", "unlock"}

\* Who owns, who is recorded as the holder, and what repeat says.
OwnerInv ==
  /\ MutualExclusion
  /\ is_lock <=> \E t \in Thread : pc[t] \in Owning
  /\ \A t \in Thread : holder = t <=> pc[t] \in {"setrep", "cs", "clear"}
  /\ \A t \in Thread : pc[t] = "cs" => repeat = nested[t] /\ repeat # 0

\* Where the sleepers are.
SleepInv ==
  /\ WaitersLinked
  /\ \A t \in Thread : pc[t] \in Owning \cup {"blocked"} => hpc[t] = "none"
  /\ \A t \in Thread : elem[t] # NULL <=> pc[t] = "wake"

IInv == TypeOK /\ OwnerInv /\ SleepInv /\ NoLostWakeup

-----------------------------------------------------------------------------
LEMMA InitIInv == Init => IInv
<1> SUFFICES ASSUME Init PROVE IInv
  OBVIOUS
<1> USE MutexAssumption
<1>1. list_init \in Seq(Thread) /\ Elems(list_init) = {} /\ NoDuplicates(list_init)
  BY InitLinks
<1>2. TypeOK
  <2>1. 0 \in 0 .. MaxRepeat
    BY SMT
  <2>2. QED
    BY <1>1, <2>1 DEF Init, TypeOK, Labels
<1>3. OwnerInv
  BY DEF Init, OwnerInv, MutualExclusion, Owning
<1>4. SleepInv
  BY <1>1 DEF Init, SleepInv, WaitersLinked, Sleeping, At, Owning, list_find
<1>5. NoLostWakeup
  BY DEF Init, NoLostWakeup, list_empty, list_init
<1>6. QED
  BY <1>2, <1>3, <1>4, <1>5 DEF IInv

-----------------------------------------------------------------------------
\* The steps of a thread up to the critical section, and out of it until the
\* unlocking exchange, that leave the lists alone.
LEMMA QuietSteps ==
  ASSUME IInv, NEW t \in Thread,
         mutex_acquire(t) \/ SetHolder(t) \/ SetRepeat(t) \/ mutex_release(t) \/ ClearHolder(t)
  PROVE  IInv'
<1> USE MutexAssumption
<1>t. TypeOK /\ OwnerInv /\ SleepInv /\ NoLostWakeup
  BY DEF IInv
<1>1. CASE mutex_acquire(t)
  <2>1. CASE holder = t
    <3>1. pc[t] = "cs" /\ hpc[t] = "none" /\ nested[t] < MaxRepeat
      BY <1>1, <1>t, <2>1 DEF mutex_acquire, At, OwnerInv
    <3>2. /\ repeat' = repeat + 1 /\ nested' = [nested EXCEPT ![t] = @ + 1]
          /\ UNCHANGED << pc, is_lock, wait_list, holder, hpc, elem >>
      BY <1>1, <2>1 DEF mutex_acquire
    <3>3. repeat = nested[t] /\ nested[t] \in 0 .. MaxRepeat
      BY <1>t, <3>1 DEF OwnerInv, TypeOK
    <3>4. TypeOK'
      BY <1>t, <3>1, <3>2, <3>3 DEF TypeOK
    <3>5. OwnerInv'
      BY <1>t, <3>1, <3>2, <3>3 DEF OwnerInv, MutualExclusion, Owning, TypeOK
    <3>6. SleepInv' /\ NoLostWakeup'
      BY <1>t, <3>2 DEF SleepInv, WaitersLinked, Sleeping, NoLostWakeup, At
    <3>7. QED
      BY <3>4, <3>5, <3>6 DEF IInv
  <2>2. CASE holder # t
    <3>1. /\ pc[t] = "out" /\ hpc[t] = "none"
          /\ pc' = [pc EXCEPT ![t] = "xchg"]
          /\ UNCHANGED << is_lock, wait_list, holder, repeat, hpc, elem, nested >>
      BY <1>1, <1>t, <2>2 DEF mutex_acquire, At, Goto, OwnerInv
    <3>2. TypeOK'
      BY <1>t, <3>1 DEF TypeOK, Labels
    <3>3. \A u \in Thread : pc'[u] = IF u = t THEN "xchg" ELSE pc[u]
      BY <1>t, <3>1 DEF TypeOK
    <3>4. OwnerInv'
      BY <1>t, <3>1, <3>3 DEF OwnerInv, MutualExclusion, Owning
    <3>5. SleepInv'
      BY <1>t, <3>1, <3>3 DEF SleepInv, WaitersLinked, Sleeping, At, Owning
    <3>6. NoLostWakeup'
      BY <1>t, <3>1, <3>3 DEF NoLostWakeup, At
    <3>7. QED
      BY <3>2, <3>4, <3>5, <3>6 DEF IInv
  <2>3. QED
    BY <2>1, <2>2
<1>2. CASE SetHolder(t)
  <2>1. /\ pc[t] = "sethold" /\ hpc[t] = "none"
        /\ pc' = [pc EXCEPT ![t] = "setrep"] /\ holder' = t
        /\ UNCHANGED << is_lock, wait_list, repeat, hpc, elem, nested >>
    BY <1>2 DEF SetHolder, At, Goto
  <2>2. \A u \in Thread : pc'[u] = IF u = t THEN "setrep" ELSE pc[u]
    BY <1>t, <2>1 DEF TypeOK
  <2>3. TypeOK'
    BY <1>t, <2>1 DEF TypeOK, Labels
  <2>4. OwnerInv'
    BY <1>t, <2>1, <2>2 DEF OwnerInv, MutualExclusion, Owning
  <2>5. SleepInv'
    BY <1>t, <2>1, <2>2 DEF SleepInv, WaitersLinked, Sleeping, At, Owning
  <2>6. NoLostWakeup'
    BY <1>t, <2>1, <2>2 DEF NoLostWakeup, OwnerInv, Owning
  <2>7. QED
    BY <2>3, <2>4, <2>5, <2>6 DEF IInv
<1>3. CASE SetRepeat(t)
  <2>1. /\ pc[t] = "setrep" /\ hpc[t] = "none"
        /\ pc' = [pc EXCEPT ![t] = "cs"] /\ repeat' = 1 /\ nested' = [nested EXCEPT ![t] = 1]
        /\ UNCHANGED << is_lock, wait_list, holder, hpc, elem >>
    BY <1>3 DEF SetRepeat, At, Goto
  <2>2. \A u \in Thread : pc'[u] = IF u = t THEN "cs" ELSE pc[u]
    BY <1>t, <2>1 DEF TypeOK
  <2>3. TypeOK'
    BY <1>t, <2>1 DEF TypeOK, Labels
  <2>4. OwnerInv'
    BY <1>t, <2>1, <2>2 DEF OwnerInv, MutualExclusion, Owning, TypeOK
  <2>5. SleepInv'
    BY <1>t, <2>1, <2>2 DEF SleepInv, WaitersLinked, Sleeping, At, Owning
  <2>6. NoLostWakeup'
    BY <1>t, <2>1, <2>2 DEF NoLostWakeup, OwnerInv, Owning
  <2>7. QED
    BY <2>3, <2>4, <2>5, <2>6 DEF IInv
<1>4. CASE mutex_release(t)
  <2> DEFINE l == IF repeat = 1 THEN "clear" ELSE "cs"
  <2>1. /\ pc[t] = "cs" /\ hpc[t] = "none" /\ holder = t
        /\ pc' = [pc EXCEPT ![t] = l] /\ repeat' = repeat - 1 /\ nested' = [nested EXCEPT ![t] = @ - 1]
        /\ UNCHANGED << is_lock, wait_list, holder, hpc, elem >>
    BY <1>4 DEF mutex_release, At, Goto
  <2>2. \A u \in Thread : pc'[u] = IF u = t THEN l ELSE pc[u]
    BY <1>t, <2>1 DEF TypeOK
  <2>3. repeat = nested[t] /\ repeat # 0 /\ repeat \in 0 .. MaxRepeat
    BY <1>t, <2>1 DEF OwnerInv, TypeOK
  <2>4. repeat - 1 \in 0 .. MaxRepeat /\ (repeat # 1 => repeat - 1 # 0)
    BY <2>3
  <2>5. nested'[t] = repeat - 1 /\ nested' \in [Thread -> 0 .. MaxRepeat]
    BY <1>t, <2>1, <2>3, <2>4 DEF TypeOK
  <2>6. TypeOK'
    BY <1>t, <2>1, <2>4, <2>5 DEF TypeOK, Labels
  <2>7. OwnerInv'
    <3>1. MutualExclusion' /\ (is_lock' <=> \E u \in Thread : pc'[u] \in Owning)
      BY <1>t, <2>1, <2>2 DEF OwnerInv, MutualExclusion, Owning
    <3>2. \A u \in Thread : holder' = u <=> pc'[u] \in {"setrep", "cs", "clear"}
      BY <1>t, <2>1, <2>2 DEF OwnerInv
    <3>3. \A u \in Thread : pc'[u] = "cs" => repeat' = nested'[u] /\ repeat' # 0
      <4> TAKE u \in Thread
      <4>1. CASE u = t
        BY <2>1, <2>2, <2>4, <2>5, <4>1
      <4>2. CASE u # t
        BY <1>t, <2>1, <2>2, <4>2 DEF OwnerInv, MutualExclusion, Owning
      <4>3. QED
        BY <4>1, <4>2
    <3>4. QED
      BY <3>1, <3>2, <3>3 DEF OwnerInv
  <2>8. SleepInv'
    BY <1>t, <2>1, <2>2 DEF SleepInv, WaitersLinked, Sleeping, At, Owning
  <2>9. NoLostWakeup'
    BY <1>t, <2>1, <2>2 DEF NoLostWakeup, OwnerInv, Owning
  <2>10. QED
    BY <2>6, <2>7, <2>8, <2>9 DEF IInv
<1>5. CASE ClearHolder(t)
  <2>1. /\ pc[t] = "clear" /\ hpc[t] = "none"
        /\ pc' = [pc EXCEPT ![t] = "unlock"] /\ holder' = NULL
        /\ UNCHANGED << is_lock, wait_list, repeat, hpc, elem, nested >>
    BY <1>5 DEF ClearHolder, At, Goto
  <2>2. \A u \in Thread : pc'[u] = IF u = t THEN "unlock" ELSE pc[u]
    BY <1>t, <2>1 DEF TypeOK
  <2>3. TypeOK'
    BY <1>t, <2>1 DEF TypeOK, Labels
  <2>4. OwnerInv'
    BY <1>t, <2>1, <2>2 DEF OwnerInv, MutualExclusion, Owning
  <2>5. SleepInv'
    BY <1>t, <2>1, <2>2 DEF SleepInv, WaitersLinked, Sleeping, At, Owning
  <2>6. NoLostWakeup'
    BY <1>t, <2>1, <2>2 DEF NoLostWakeup, OwnerInv, Owning
  <2>7. QED
    BY <2>3, <2>4, <2>5, <2>6 DEF IInv
<1>6. QED
  BY <1>1, <1>2, <1>3, <1>4, <1>5

\* PushBackLinks for lists of threads.
LEMMA PushOnWaitList ==
  ASSUME NEW l \in Seq(Thread), NEW t \in Thread, NoDuplicates(l), t \notin Elems(l)
  PROVE  /\ NoDuplicates(list_push_back(l, t))
         /\ Elems(list_push_back(l, t)) = Elems(l) \cup {t}
BY PushBackLinks

\* A thread that is not asleep queues itself and goes to sleep, in its own call
\* or in a handler's.
LEMMA FallsAsleep ==
  ASSUME IInv, NEW t \in Thread,
         hpc[t] # "blocked", pc[t] # "blocked",
         wait_list' = list_push_back(wait_list, t), elem' = elem,
         hpc'[t] = "blocked" \/ (pc'[t] = "blocked" /\ hpc'[t] = "none"),
         \A u \in Thread \ {t} : pc'[u] = pc[u] /\ hpc'[u] = hpc[u]
  PROVE  WaitersLinked'
<1>t. TypeOK /\ SleepInv /\ WaitersLinked
  BY DEF IInv, SleepInv
<1>1. t \notin Elems(wait_list) /\ \A u \in Thread : elem[u] # t
  BY <1>t DEF WaitersLinked, Sleeping, At, list_find
<1>2. /\ NoDuplicates(wait_list')
      /\ Elems(wait_list') = Elems(wait_list) \cup {t}
  <2>1. wait_list \in Seq(Thread) /\ NoDuplicates(wait_list)
    BY <1>t DEF TypeOK, WaitersLinked
  <2>2. /\ NoDuplicates(list_push_back(wait_list, t))
        /\ Elems(list_push_back(wait_list, t)) = Elems(wait_list) \cup {t}
    BY <1>1, <2>1, PushOnWaitList
  <2>3. QED
    BY <2>2
<1>3. ASSUME NEW u \in Thread
      PROVE  Sleeping(u)' <=> list_find(wait_list', u) \/ \E v \in Thread : elem'[v] = u
  <2>1. CASE u = t
    BY <1>2, <2>1 DEF list_find, Sleeping, At
  <2>2. CASE u # t
    <3>1. Sleeping(u)' <=> Sleeping(u)
      BY <2>2 DEF Sleeping, At
    <3>2. QED
      BY <1>t, <1>2, <2>2, <3>1 DEF WaitersLinked, list_find
  <2>3. QED
    BY <2>1, <2>2
<1>4. \A u, v \in Thread : elem'[u] # NULL => /\ elem'[u] = elem'[v] => u = v
                                              /\ ~ list_find(wait_list', elem'[u])
  BY <1>t, <1>1, <1>2 DEF WaitersLinked, list_find
<1>5. QED
  BY <1>2, <1>3, <1>4 DEF WaitersLinked

LEMMA XchgStep == ASSUME IInv, NEW t \in Thread, Xchg(t) PROVE IInv'
<1> USE MutexAssumption
<1>t. TypeOK /\ OwnerInv /\ SleepInv /\ NoLostWakeup
  BY DEF IInv
<1>1. /\ pc[t] = "xchg" /\ hpc[t] = "none" /\ is_lock' = TRUE
      /\ UNCHANGED << holder, repeat, hpc, elem, nested >>
  BY DEF Xchg, At
<1>2. CASE is_lock
  <2>1. /\ wait_list' = list_push_back(wait_list, t)
        /\ pc' = [pc EXCEPT ![t] = "blocked"]
    BY <1>2 DEF Xchg, Goto
  <2>2. \A u \in Thread : pc'[u] = IF u = t THEN "blocked" ELSE pc[u]
    BY <1>t, <2>1 DEF TypeOK
  <2>3. wait_list' \in Seq(Thread)
    BY <1>t, <2>1, PushBackLinks DEF TypeOK
  <2>4. TypeOK'
    BY <1>t, <1>1, <2>1, <2>3 DEF TypeOK, Labels
  <2>5. OwnerInv'
    BY <1>t, <1>1, <1>2, <2>2 DEF OwnerInv, MutualExclusion, Owning
  <2>6. WaitersLinked'
    BY <1>1, <2>1, <2>2, <2>4, FallsAsleep DEF Sleeping, At, IInv
  <2>7. SleepInv'
    BY <1>t, <1>1, <2>2, <2>6 DEF SleepInv, Owning
  <2>8. NoLostWakeup'
    BY <1>1 DEF NoLostWakeup
  <2>9. QED
    BY <2>4, <2>5, <2>7, <2>8 DEF IInv
<1>3. CASE ~ is_lock
  <2>1. /\ wait_list' = wait_list
        /\ pc' = [pc EXCEPT ![t] = "sethold"]
    BY <1>3 DEF Xchg, Goto
  <2>2. \A u \in Thread : pc'[u] = IF u = t THEN "sethold" ELSE pc[u]
    BY <1>t, <2>1 DEF TypeOK
  <2>3. TypeOK'
    BY <1>t, <1>1, <2>1 DEF TypeOK, Labels
  <2>4. OwnerInv'
    BY <1>t, <1>1, <1>3, <2>2 DEF OwnerInv, MutualExclusion, Owning
  <2>5. SleepInv'
    BY <1>t, <1>1, <2>1, <2>2 DEF SleepInv, WaitersLinked, Sleeping, At, Owning
  <2>6. NoLostWakeup'
    BY <1>1 DEF NoLostWakeup
  <2>7. QED
    BY <2>3, <2>4, <2>5, <2>6 DEF IInv
<1>4. QED
  BY <1>2, <1>3

\* The handler blocks on the stack of a thread that stands in no window.
LEMMA HandlerBlocksStep ==
  ASSUME IInv, NEW t \in Thread, HandlerBlocks(t),
         pc[t] \notin Windows, pc[t] # "blocked", hpc[t] # "blocked"
  PROVE  IInv'
<1> USE MutexAssumption
<1>t. TypeOK /\ OwnerInv /\ SleepInv /\ NoLostWakeup
  BY DEF IInv
<1>1. /\ holder # t /\ is_lock
      /\ wait_list' = list_push_back(wait_list, t)
      /\ hpc' = [hpc EXCEPT ![t] = "blocked"]
      /\ UNCHANGED << is_lock, holder, repeat, pc, elem, nested >>
  BY DEF HandlerBlocks
<1>2. \A u \in Thread : hpc'[u] = IF u = t THEN "blocked" ELSE hpc[u]
  BY <1>t, <1>1 DEF TypeOK
<1>3. pc[t] \notin Owning
  BY <1>t, <1>1 DEF OwnerInv, Owning, Windows
<1>4. wait_list' \in Seq(Thread)
  BY <1>t, <1>1, PushBackLinks DEF TypeOK
<1>5. TypeOK'
  BY <1>t, <1>1, <1>4 DEF TypeOK
<1>6. OwnerInv'
  BY <1>t, <1>1 DEF OwnerInv, MutualExclusion
<1>7. WaitersLinked'
  BY <1>1, <1>2, <1>5, FallsAsleep DEF Sleeping, At, IInv
<1>8. SleepInv'
  BY <1>t, <1>1, <1>2, <1>3, <1>7 DEF SleepInv, Owning
<1>9. NoLostWakeup'
  BY <1>1 DEF NoLostWakeup
<1>10. QED
  BY <1>5, <1>6, <1>8, <1>9 DEF IInv

-----------------------------------------------------------------------------
\* PopFrontUnlinks for lists of threads.
LEMMA PopFromWaitList ==
  ASSUME NEW l \in Seq(Thread), ~ list_empty(l), NoDuplicates(l)
  PROVE  /\ list_first(l) \in Thread /\ list_find(l, list_first(l))
         /\ list_rest(l) \in Seq(Thread)
         /\ NoDuplicates(list_rest(l))
         /\ Elems(list_rest(l)) = Elems(l) \ {list_first(l)}
BY PopFrontUnlinks

\* What thread_unblock does, thread by thread.
LEMMA UnblockMoves ==
  ASSUME NEW w \in Thread \cup {NULL},
         NEW pcs \in [Thread -> Labels], NEW hpcs \in [Thread -> {"none", "xchg", "blocked"}],
         thread_unblock(w, pcs, hpcs)
  PROVE  /\ pc' \in [Thread -> Labels]
         /\ hpc' \in [Thread -> {"none", "xchg", "blocked"}]
         /\ \A u \in Thread :
              /\ pc'[u] = IF u = w /\ hpcs[u] # "blocked" THEN "xchg" ELSE pcs[u]
              /\ hpc'[u] = IF u = w /\ hpcs[u] = "blocked" THEN "xchg" ELSE hpcs[u]
<1> USE MutexAssumption
<1>1. CASE w # NULL /\ hpcs[w] = "blocked"
  BY <1>1 DEF thread_unblock
<1>2. CASE w = NULL
  BY <1>2 DEF thread_unblock
<1>3. CASE w # NULL /\ hpcs[w] # "blocked"
  BY <1>3 DEF thread_unblock, Labels
<1>4. QED
  BY <1>1, <1>2, <1>3

LEMMA UnlockStep == ASSUME IInv, NEW t \in Thread, Unlock(t) PROVE IInv'
<1> USE MutexAssumption
<1>t. TypeOK /\ OwnerInv /\ SleepInv /\ NoLostWakeup /\ WaitersLinked
  BY DEF IInv, SleepInv
<1> DEFINE l == IF list_empty(wait_list) THEN "out" ELSE "wake"
<1>1. /\ pc[t] = "unlock" /\ hpc[t] = "none" /\ is_lock /\ is_lock' = FALSE
      /\ wait_list' = list_rest(wait_list)
      /\ elem' = [elem EXCEPT ![t] = FirstWaiter]
      /\ pc' = [pc EXCEPT ![t] = l]
      /\ UNCHANGED << holder, repeat, hpc, nested >>
  BY DEF Unlock, At, Goto
<1>2. /\ \A u \in Thread : pc'[u] = IF u = t THEN l ELSE pc[u]
      /\ pc' \in [Thread -> Labels]
  BY <1>t, <1>1 DEF TypeOK, Labels
<1>3. FirstWaiter \in Thread \cup {NULL} /\ wait_list' \in Seq(Thread)
      /\ (FirstWaiter = NULL <=> list_empty(wait_list))
  <2>1. CASE list_empty(wait_list)
    BY <1>t, <1>1, <2>1 DEF FirstWaiter, list_rest, TypeOK
  <2>2. CASE ~ list_empty(wait_list)
    <3>1. wait_list \in Seq(Thread) /\ NoDuplicates(wait_list)
      BY <1>t DEF TypeOK, WaitersLinked
    <3>2. list_first(wait_list) \in Thread /\ list_rest(wait_list) \in Seq(Thread)
      BY <2>2, <3>1, PopFromWaitList
    <3>3. QED
      BY <1>1, <2>2, <3>2 DEF FirstWaiter
  <2>3. QED
    BY <2>1, <2>2
<1>4. \A u \in Thread : elem'[u] = IF u = t THEN FirstWaiter ELSE elem[u]
  BY <1>t, <1>1 DEF TypeOK
<1>5. TypeOK'
  BY <1>t, <1>1, <1>2, <1>3 DEF TypeOK
<1>6. OwnerInv'
  BY <1>t, <1>1, <1>2 DEF OwnerInv, MutualExclusion, Owning
<1>7. elem[t] = NULL /\ \A u \in Thread : Sleeping(u)' <=> Sleeping(u)
  BY <1>t, <1>1, <1>2 DEF SleepInv, Sleeping, At
<1>8. WaitersLinked'
  <2>1. CASE list_empty(wait_list)
    <3>1. wait_list' = wait_list /\ FirstWaiter = NULL
      BY <1>1, <2>1 DEF list_rest, FirstWaiter
    <3>2. elem' = elem
      BY <1>t, <1>1, <1>7, <3>1 DEF TypeOK
    <3>3. QED
      BY <1>t, <1>7, <3>1, <3>2 DEF WaitersLinked
  <2>2. CASE ~ list_empty(wait_list)
    <3>1. wait_list \in Seq(Thread) /\ NoDuplicates(wait_list)
      BY <1>t DEF TypeOK, WaitersLinked
    <3>2. /\ FirstWaiter = list_first(wait_list)
          /\ FirstWaiter \in Thread /\ list_find(wait_list, FirstWaiter)
          /\ NoDuplicates(wait_list')
          /\ Elems(wait_list') = Elems(wait_list) \ {FirstWaiter}
      BY <1>1, <2>2, <3>1, PopFromWaitList DEF FirstWaiter
    <3>3. \A u \in Thread : list_find(wait_list', u) <=> list_find(wait_list, u) /\ u # FirstWaiter
      BY <3>2 DEF list_find
    <3>4. ASSUME NEW u \in Thread
          PROVE  Sleeping(u) <=> list_find(wait_list', u) \/ \E v \in Thread : elem'[v] = u
      <4>1. CASE u = FirstWaiter
        BY <1>t, <1>4, <3>2, <4>1 DEF WaitersLinked
      <4>2. CASE u # FirstWaiter
        <5>1. (\E v \in Thread : elem'[v] = u) <=> (\E v \in Thread : elem[v] = u)
          BY <1>4, <1>7, <4>2
        <5>2. QED
          BY <1>t, <3>3, <4>2, <5>1 DEF WaitersLinked
      <4>3. QED
        BY <4>1, <4>2
    <3>5. \A u \in Thread : elem[u] # NULL => elem[u] # FirstWaiter /\ elem[u] \in Thread
      BY <1>t, <3>2 DEF WaitersLinked, TypeOK
    <3>6. ASSUME NEW u \in Thread, NEW v \in Thread, elem'[u] # NULL
          PROVE  /\ elem'[u] = elem'[v] => u = v
                 /\ ~ list_find(wait_list', elem'[u])
      <4>1. CASE u = t
        BY <1>4, <3>2, <3>3, <3>5, <3>6, <4>1
      <4>2. CASE u # t
        BY <1>t, <1>4, <3>2, <3>3, <3>5, <3>6, <4>2 DEF WaitersLinked
      <4>3. QED
        BY <4>1, <4>2
    <3>7. QED
      BY <1>7, <3>2, <3>4, <3>6 DEF WaitersLinked
  <2>3. QED
    BY <2>1, <2>2
<1>9. SleepInv'
  <2>1. \A u \in Thread : pc'[u] \in Owning \cup {"blocked"} => hpc'[u] = "none"
    BY <1>t, <1>1, <1>2 DEF SleepInv, Owning
  <2>2. \A u \in Thread : elem'[u] # NULL <=> pc'[u] = "wake"
    BY <1>t, <1>2, <1>3, <1>4 DEF SleepInv
  <2>3. QED
    BY <1>8, <2>1, <2>2 DEF SleepInv
<1>10. NoLostWakeup'
  <2>1. ~ list_empty(wait_list') => ~ list_empty(wait_list)
    BY <1>1 DEF list_rest
  <2>2. QED
    BY <1>1, <1>2, <2>1 DEF NoLostWakeup, At
<1>11. QED
  BY <1>5, <1>6, <1>9, <1>10 DEF IInv

LEMMA WakeStep == ASSUME IInv, NEW t \in Thread, Wake(t) PROVE IInv'
<1> USE MutexAssumption
<1>t. TypeOK /\ OwnerInv /\ SleepInv /\ NoLostWakeup /\ WaitersLinked
  BY DEF IInv, SleepInv
<1> DEFINE w == elem[t]
           pcs == [pc EXCEPT ![t] = "out"]
<1>1. /\ pc[t] = "wake" /\ hpc[t] = "none"
      /\ thread_unblock(w, pcs, hpc)
      /\ elem' = [elem EXCEPT ![t] = NULL]
      /\ UNCHANGED << is_lock, wait_list, holder, repeat, nested >>
  BY DEF Wake, At, mutex
<1>2. w \in Thread /\ Sleeping(w) /\ w # t /\ ~ list_find(wait_list, w)
  BY <1>t, <1>1 DEF SleepInv, WaitersLinked, TypeOK, Sleeping, At
<1>3. pcs \in [Thread -> Labels] /\ hpc \in [Thread -> {"none", "xchg", "blocked"}]
      /\ \A u \in Thread : pcs[u] = IF u = t THEN "out" ELSE pc[u]
  BY <1>t DEF TypeOK, Labels
<1> HIDE DEF pcs
<1>4. /\ pc' \in [Thread -> Labels]
      /\ hpc' \in [Thread -> {"none", "xchg", "blocked"}]
      /\ \A u \in Thread :
           /\ pc'[u] = IF u = w /\ hpc[u] # "blocked" THEN "xchg" ELSE IF u = t THEN "out" ELSE pc[u]
           /\ hpc'[u] = IF u = w /\ hpc[u] = "blocked" THEN "xchg" ELSE hpc[u]
  BY <1>1, <1>2, <1>3, UnblockMoves
<1>5. \A u \in Thread : elem'[u] = IF u = t THEN NULL ELSE elem[u]
  BY <1>t, <1>1 DEF TypeOK
<1>6. TypeOK'
  BY <1>t, <1>1, <1>4 DEF TypeOK
<1>7. pc[w] \notin Owning
  BY <1>t, <1>2 DEF SleepInv, Sleeping, At, Owning
<1>8. \A u \in Thread : \/ pc'[u] = pc[u]
                        \/ pc'[u] \notin Owning \cup {"blocked", "wake"} /\ pc[u] \notin Owning
  BY <1>1, <1>2, <1>4, <1>7 DEF Owning
<1>9. OwnerInv'
  BY <1>t, <1>1, <1>8 DEF OwnerInv, MutualExclusion, Owning
<1>10. WaitersLinked'
  <2>1. ASSUME NEW u \in Thread
        PROVE  Sleeping(u)' <=> list_find(wait_list', u) \/ \E v \in Thread : elem'[v] = u
    <3>1. CASE u = w
      <4>1. ~ Sleeping(u)'
        BY <1>2, <1>4, <3>1 DEF Sleeping, At
      <4>2. \A v \in Thread : elem'[v] # u
        BY <1>t, <1>2, <1>5, <3>1 DEF WaitersLinked
      <4>3. QED
        BY <1>1, <1>2, <3>1, <4>1, <4>2
    <3>2. CASE u # w
      <4>1. Sleeping(u)' <=> Sleeping(u)
        BY <1>1, <1>4, <3>2 DEF Sleeping, At
      <4>2. (\E v \in Thread : elem'[v] = u) <=> (\E v \in Thread : elem[v] = u)
        BY <1>5, <3>2
      <4>3. QED
        BY <1>t, <1>1, <4>1, <4>2 DEF WaitersLinked
    <3>3. QED
      BY <3>1, <3>2
  <2>2. \A u, v \in Thread : elem'[u] # NULL => /\ elem'[u] = elem'[v] => u = v
                                                /\ ~ list_find(wait_list', elem'[u])
    BY <1>t, <1>1, <1>5 DEF WaitersLinked
  <2>3. QED
    BY <1>t, <1>1, <2>1, <2>2 DEF WaitersLinked
<1>11. SleepInv'
  <2>1. \A u \in Thread : pc'[u] \in Owning \cup {"blocked"} => hpc'[u] = "none"
    <3> TAKE u \in Thread
    <3>1. CASE u = w
      BY <1>t, <1>2, <1>4, <3>1 DEF SleepInv, Sleeping, At, Owning
    <3>2. CASE u # w
      BY <1>t, <1>4, <3>2 DEF SleepInv, Owning
    <3>3. QED
      BY <3>1, <3>2
  <2>2. \A u \in Thread : elem'[u] # NULL <=> pc'[u] = "wake"
    <3> TAKE u \in Thread
    <3>1. CASE u = w
      BY <1>t, <1>2, <1>4, <1>5, <3>1 DEF SleepInv, Sleeping, At
    <3>2. CASE u # w
      BY <1>t, <1>4, <1>5, <3>2 DEF SleepInv
    <3>3. QED
      BY <3>1, <3>2
  <2>3. QED
    BY <1>10, <2>1, <2>2 DEF SleepInv
<1>12. NoLostWakeup'
  BY <1>2, <1>4 DEF NoLostWakeup, Sleeping, At
<1>13. QED
  BY <1>6, <1>9, <1>11, <1>12 DEF IInv

\* The handler on t's stack finds the lock free, unlocks it again and unblocks
\* the first waiter.
LEMMA HandlerPassesStep ==
  ASSUME IInv, NEW t \in Thread, NEW hpcs \in [Thread -> {"none", "xchg", "blocked"}],
         HandlerPasses(t, hpcs),
         hpc[t] # "blocked", pc[t] # "blocked",
         hpcs[t] = "none", \A u \in Thread \ {t} : hpcs[u] = hpc[u]
  PROVE  IInv'
<1> USE MutexAssumption
<1>t. TypeOK /\ OwnerInv /\ SleepInv /\ NoLostWakeup /\ WaitersLinked
  BY DEF IInv, SleepInv
<1> DEFINE w == FirstWaiter
<1>1. /\ ~ is_lock /\ holder' = NULL /\ repeat' = 0 /\ is_lock' = FALSE
      /\ wait_list' = list_rest(wait_list)
      /\ thread_unblock(w, pc, hpcs)
      /\ UNCHANGED << elem, nested >>
  BY DEF HandlerPasses, HandlerUnlocks
<1>2. wait_list \in Seq(Thread) /\ NoDuplicates(wait_list) /\ pc \in [Thread -> Labels]
  BY <1>t DEF TypeOK, WaitersLinked
<1>3. /\ w \in Thread \cup {NULL} /\ wait_list' \in Seq(Thread)
      /\ NoDuplicates(wait_list')
      /\ w # NULL => list_find(wait_list, w) /\ Elems(wait_list') = Elems(wait_list) \ {w}
      /\ w = NULL => wait_list' = wait_list /\ list_empty(wait_list)
  <2>1. CASE list_empty(wait_list)
    BY <1>1, <1>2, <2>1 DEF FirstWaiter, list_rest
  <2>2. CASE ~ list_empty(wait_list)
    BY <1>1, <1>2, <2>2, PopFromWaitList DEF FirstWaiter
  <2>3. QED
    BY <2>1, <2>2
<1>4. w # NULL => w \in Thread /\ w # t /\ Sleeping(w)
  <2>1. ~ Sleeping(t)
    BY DEF Sleeping, At
  <2>2. QED
    BY <1>t, <1>3, <2>1 DEF WaitersLinked
<1> HIDE DEF w
<1>5. /\ pc' \in [Thread -> Labels]
      /\ hpc' \in [Thread -> {"none", "xchg", "blocked"}]
      /\ \A u \in Thread :
           /\ pc'[u] = IF u = w /\ hpcs[u] # "blocked" THEN "xchg" ELSE pc[u]
           /\ hpc'[u] = IF u = w /\ hpcs[u] = "blocked" THEN "xchg" ELSE hpcs[u]
  BY <1>1, <1>2, <1>3, UnblockMoves
<1>6. TypeOK'
  <2>1. 0 \in 0 .. MaxRepeat
    BY SMT
  <2>2. QED
    BY <1>t, <1>1, <1>3, <1>5, <2>1 DEF TypeOK
<1>7. \A u \in Thread : pc[u] \notin Owning
  BY <1>t, <1>1 DEF OwnerInv
<1>8. \A u \in Thread : /\ pc'[u] \notin Owning
                        /\ pc'[u] = "blocked" => pc[u] = "blocked"
                        /\ pc'[u] = "wake" <=> pc[u] = "wake"
  BY <1>t, <1>4, <1>5, <1>7 DEF Owning, Sleeping, At
<1>9. OwnerInv'
  BY <1>1, <1>8 DEF OwnerInv, MutualExclusion, Owning
<1>10. \A u \in Thread : Sleeping(u)' <=> Sleeping(u) /\ u # w
  <2> TAKE u \in Thread
  <2>1. CASE u = w
    BY <1>4, <1>5, <2>1 DEF Sleeping, At
  <2>2. CASE u = t /\ u # w
    BY <1>5, <2>2 DEF Sleeping, At
  <2>3. CASE u # t /\ u # w
    BY <1>5, <2>3 DEF Sleeping, At
  <2>4. QED
    BY <2>1, <2>2, <2>3
<1>11. \A u \in Thread : elem[u] # NULL => elem[u] # w /\ ~ list_find(wait_list, elem[u])
  BY <1>t, <1>3 DEF WaitersLinked
<1>12. \A u \in Thread : list_find(wait_list', u) <=> list_find(wait_list, u) /\ u # w
  BY <1>3, <1>4 DEF list_find
<1>13. WaitersLinked'
  <2>1. ASSUME NEW u \in Thread
        PROVE  Sleeping(u)' <=> list_find(wait_list', u) \/ \E v \in Thread : elem'[v] = u
    BY <1>t, <1>1, <1>4, <1>10, <1>11, <1>12 DEF WaitersLinked
  <2>2. \A u, v \in Thread : elem'[u] # NULL => (elem'[u] = elem'[v] => u = v)
    BY <1>t, <1>1 DEF WaitersLinked
  <2>3. \A u \in Thread : elem'[u] # NULL => ~ list_find(wait_list', elem'[u])
    BY <1>t, <1>1, <1>11, <1>12 DEF TypeOK
  <2>4. QED
    BY <1>3, <2>1, <2>2, <2>3 DEF WaitersLinked
<1>14. SleepInv'
  <2>1. \A u \in Thread : pc'[u] \in Owning \cup {"blocked"} => hpc'[u] = "none"
    <3> TAKE u \in Thread
    <3>1. CASE u = w
      BY <1>t, <1>4, <1>5, <1>8, <3>1 DEF SleepInv, Sleeping, At
    <3>2. CASE u # w
      BY <1>t, <1>5, <1>8, <3>2 DEF SleepInv
    <3>3. QED
      BY <3>1, <3>2
  <2>2. \A u \in Thread : elem'[u] # NULL <=> pc'[u] = "wake"
    BY <1>t, <1>1, <1>8 DEF SleepInv
  <2>3. QED
    BY <1>13, <2>1, <2>2 DEF SleepInv
<1>15. NoLostWakeup'
  <2>1. CASE w = NULL
    BY <1>3, <2>1 DEF NoLostWakeup
  <2>2. CASE w # NULL
    <3>1. w \in Thread /\ w # t /\ hpcs[w] = hpc[w]
      BY <1>4, <2>2
    <3>2. hpc'[w] = "xchg" \/ (pc'[w] = "xchg" /\ hpc'[w] = "none")
      <4>1. hpc[w] = "blocked" \/ hpc[w] = "none"
        BY <1>4, <2>2 DEF Sleeping, At
      <4>2. QED
        BY <1>5, <3>1, <4>1
    <3>3. QED
      BY <3>1, <3>2 DEF NoLostWakeup, At
  <2>3. QED
    BY <2>1, <2>2
<1>16. QED
  BY <1>6, <1>9, <1>14, <1>15 DEF IInv

\* An interrupt outside the windows keeps the invariant.
LEMMA HandlerSteps ==
  ASSUME IInv, IntrOn \cap Windows = {}, NEW t \in Thread, Interrupt(t) \/ HandlerRetries(t)
  PROVE  IInv'
<1> USE MutexAssumption
<1>t. TypeOK /\ OwnerInv /\ SleepInv
  BY DEF IInv
<1>1. CASE Interrupt(t)
  <2>1. pc[t] \in IntrOn /\ pc[t] \notin Windows /\ pc[t] # "blocked" /\ hpc[t] = "none"
    BY <1>1 DEF Interrupt
  <2>2. CASE HandlerNests(t, hpc)
    <3>1. pc[t] = "cs" /\ repeat # 0
      BY <1>t, <2>1, <2>2 DEF HandlerNests, OwnerInv, Windows
    <3>2. UNCHANGED vars
      BY <2>2, <3>1 DEF HandlerNests, vars, mutex
    <3>3. QED
      BY <3>2 DEF vars, mutex, IInv, TypeOK, OwnerInv, MutualExclusion, SleepInv, WaitersLinked,
                  Sleeping, At, NoLostWakeup
  <2>3. CASE HandlerPasses(t, hpc)
    <3>1. hpc \in [Thread -> {"none", "xchg", "blocked"}]
      BY <1>t DEF TypeOK
    <3>2. QED
      BY <2>1, <2>3, <3>1, HandlerPassesStep
  <2>4. CASE HandlerBlocks(t)
    BY <2>1, <2>4, HandlerBlocksStep
  <2>5. QED
    BY <1>1, <2>2, <2>3, <2>4 DEF Interrupt
<1>2. CASE HandlerRetries(t)
  <2>1. hpc[t] = "xchg" /\ pc[t] # "blocked" /\ pc[t] \notin Windows
    BY <1>2, <1>t DEF HandlerRetries, SleepInv, Owning, Windows
  <2>2. CASE HandlerPasses(t, [hpc EXCEPT ![t] = "none"])
    <3>1. /\ [hpc EXCEPT ![t] = "none"] \in [Thread -> {"none", "xchg", "blocked"}]
          /\ [hpc EXCEPT ![t] = "none"][t] = "none"
          /\ \A u \in Thread \ {t} : [hpc EXCEPT ![t] = "none"][u] = hpc[u]
      BY <1>t DEF TypeOK
    <3>2. QED
      BY <2>1, <2>2, <3>1, HandlerPassesStep
  <2>3. CASE HandlerBlocks(t)
    BY <2>1, <2>3, HandlerBlocksStep
  <2>4. QED
    BY <1>2, <2>2, <2>3 DEF HandlerRetries
<1>3. QED
  BY <1>1, <1>2

LEMMA NextIInv == ASSUME IntrOn \cap Windows = {} PROVE IInv /\ [Next]_vars => IInv'
<1> SUFFICES ASSUME IInv, [Next]_vars PROVE IInv'
  OBVIOUS
<1>1. CASE UNCHANGED vars
  BY <1>1 DEF vars, mutex, IInv, TypeOK, OwnerInv, MutualExclusion, SleepInv, WaitersLinked,
              Sleeping, At, NoLostWakeup
<1>2. ASSUME NEW t \in Thread, mutex_acquire(t) \/ ThreadStep(t) \/ Interrupt(t)
      PROVE  IInv'
  BY <1>2, QuietSteps, XchgStep, UnlockStep, WakeStep, HandlerSteps DEF ThreadStep
<1>3. QED
  BY <1>1, <1>2 DEF Next

-----------------------------------------------------------------------------
\* Outside the windows, whatever the number of threads, acquires and waiters:
\* the mutex excludes.
THEOREM Exclusion == ASSUME IntrOn \cap Windows = {} PROVE Spec => []MutualExclusion
<1>1. IInv => MutualExclusion
  BY DEF IInv, OwnerInv
<1>2. QED
  BY <1>1, InitIInv, NextIInv, PTL DEF Spec

\* Neither assertion of mutex_release can fail.
THEOREM AssertsHold == ASSUME IntrOn \cap Windows = {} PROVE Spec => []ReleaseAsserts
<1>1. IInv => ReleaseAsserts
  BY DEF IInv, OwnerInv, ReleaseAsserts, At, Owning
<1>2. QED
  BY <1>1, InitIInv, NextIInv, PTL DEF Spec

\* repeat always is the nesting depth of the thread in the critical section.
THEOREM RepeatIsDepth == ASSUME IntrOn \cap Windows = {} PROVE Spec => []RepeatCounts
<1>1. IInv => RepeatCounts
  BY DEF IInv, OwnerInv, RepeatCounts
<1>2. QED
  BY <1>1, InitIInv, NextIInv, PTL DEF Spec

\* No waiter is left asleep at a free lock.
THEOREM WakeupsArrive == ASSUME IntrOn \cap Windows = {} PROVE Spec => []NoLostWakeup
<1>1. IInv => NoLostWakeup
  BY DEF IInv
<1>2. QED
  BY <1>1, InitIInv, NextIInv, PTL DEF Spec

\* Sleepers and the wait list always correspond.
THEOREM SleepersQueued == ASSUME IntrOn \cap Windows = {} PROVE Spec => []WaitersLinked
<1>1. IInv => WaitersLinked
  BY DEF IInv, SleepInv
<1>2. QED
  BY <1>1, InitIInv, NextIInv, PTL DEF Spec

-----------------------------------------------------------------------------
(***************************************************************************)
(* The refinement of RecursiveLock.                                        *)
(***************************************************************************)
\* Owners and Depth, for threads at the places pcs.
OwnersAt(pcs) == { t \in Thread : pcs[t] \in Owning }
DepthAt(pcs, r) ==
  IF OwnersAt(pcs) = {} THEN 0
  ELSE IF \E t \in Thread : pcs[t] \in {"sethold", "setrep", "clear", "unlock"} THEN 1 ELSE r

LEMMA OwnersNow ==
  /\ Owners = OwnersAt(pc) /\ Depth = DepthAt(pc, repeat)
  /\ Owners' = OwnersAt(pc') /\ Depth' = DepthAt(pc', repeat')
BY DEF Owners, Depth, OwnersAt, DepthAt

LEMMA OneOwner ==
  ASSUME NEW pcs, NEW r, NEW t \in Thread, pcs[t] \in Owning,
         \A u \in Thread : pcs[u] \in Owning => u = t
  PROVE  OwnersAt(pcs) = {t} /\ DepthAt(pcs, r) = IF pcs[t] = "cs" THEN r ELSE 1
<1>1. OwnersAt(pcs) = {t}
  BY DEF OwnersAt
<1>2. (\E u \in Thread : pcs[u] \in {"sethold", "setrep", "clear", "unlock"}) <=> pcs[t] # "cs"
  BY DEF Owning
<1>3. QED
  BY <1>1, <1>2 DEF DepthAt

LEMMA NoOwner ==
  ASSUME NEW pcs, NEW r, \A u \in Thread : pcs[u] \notin Owning
  PROVE  OwnersAt(pcs) = {} /\ DepthAt(pcs, r) = 0
BY DEF OwnersAt, DepthAt

\* A step that moves nobody past the exchange or back, nor through the section.
LEMMA OwnerStays ==
  ASSUME UNCHANGED repeat,
         \A u \in Thread : pc'[u] = pc[u] \/ (pc[u] \notin Owning /\ pc'[u] \notin Owning)
  PROVE  UNCHANGED Lock!vars
<1>1. OwnersAt(pc') = OwnersAt(pc)
  BY DEF OwnersAt
<1>2. (\E u \in Thread : pc'[u] \in {"sethold", "setrep", "clear", "unlock"})
        <=> (\E u \in Thread : pc[u] \in {"sethold", "setrep", "clear", "unlock"})
  BY DEF Owning
<1>3. DepthAt(pc', repeat') = DepthAt(pc, repeat)
  BY <1>1, <1>2 DEF DepthAt
<1>4. QED
  BY <1>1, <1>3, OwnersNow DEF Lock!vars

\* The steps of the owner, from its exchange to the one that unlocks.
LEMMA OwnerSteps ==
  ASSUME IInv, IInv', NEW t \in Thread, NEW l,
         pc' = [pc EXCEPT ![t] = l], l \in Owning, pc[t] \in Owning \/ ~ is_lock
  PROVE  /\ Owners' = {t} /\ Depth' = IF l = "cs" THEN repeat' ELSE 1
         /\ pc[t] \in Owning => Owners = {t} /\ Depth = IF pc[t] = "cs" THEN repeat ELSE 1
         /\ ~ is_lock => Owners = {} /\ Depth = 0
<1>1. pc'[t] = l /\ \A u \in Thread : pc'[u] \in Owning => u = t
  BY DEF IInv, TypeOK, OwnerInv, MutualExclusion
<1>2. OwnersAt(pc') = {t} /\ DepthAt(pc', repeat') = IF l = "cs" THEN repeat' ELSE 1
  <2>1. pc'[t] \in Owning
    BY <1>1
  <2>2. OwnersAt(pc') = {t} /\ DepthAt(pc', repeat') = IF pc'[t] = "cs" THEN repeat' ELSE 1
    BY <1>1, <2>1, OneOwner
  <2>3. QED
    BY <1>1, <2>2
<1>3. ASSUME pc[t] \in Owning
      PROVE  OwnersAt(pc) = {t} /\ DepthAt(pc, repeat) = IF pc[t] = "cs" THEN repeat ELSE 1
  <2>1. \A u \in Thread : pc[u] \in Owning => u = t
    BY <1>3 DEF IInv, OwnerInv, MutualExclusion
  <2>2. QED
    BY <1>3, <2>1, OneOwner
<1>4. ASSUME ~ is_lock
      PROVE  OwnersAt(pc) = {} /\ DepthAt(pc, repeat) = 0
  <2>1. \A u \in Thread : pc[u] \notin Owning
    BY <1>4 DEF IInv, OwnerInv
  <2>2. QED
    BY <2>1, NoOwner
<1>5. QED
  BY <1>2, <1>3, <1>4, OwnersNow

LEMMA ThreadSimulates ==
  ASSUME IInv, IInv', NEW t \in Thread,
         \/ mutex_acquire(t) \/ Xchg(t) \/ SetHolder(t) \/ SetRepeat(t)
         \/ mutex_release(t) \/ ClearHolder(t) \/ Unlock(t)
  PROVE  Lock!Acquire(t) \/ Lock!Release(t) \/ UNCHANGED Lock!vars
<1>t. TypeOK /\ OwnerInv
  BY DEF IInv
<1>1. CASE mutex_acquire(t)
  <2>1. CASE holder = t
    <3>1. pc[t] = "cs" /\ repeat' = repeat + 1 /\ UNCHANGED pc
      BY <1>1, <1>t, <2>1 DEF mutex_acquire, At, OwnerInv
    <3>2. pc' = [pc EXCEPT ![t] = "cs"]
      BY <1>t, <3>1 DEF TypeOK
    <3>3. Owners = {t} /\ Owners' = {t} /\ Depth = repeat /\ Depth' = repeat'
      BY <3>1, <3>2, OwnerSteps DEF Owning
    <3>4. QED
      BY <3>1, <3>3 DEF Lock!Acquire
  <2>2. CASE holder # t
    <3>1. pc[t] = "out" /\ pc' = [pc EXCEPT ![t] = "xchg"] /\ UNCHANGED repeat
      BY <1>1, <1>t, <2>2 DEF mutex_acquire, At, Goto, OwnerInv
    <3>2. \A u \in Thread : pc'[u] = pc[u] \/ (pc[u] \notin Owning /\ pc'[u] \notin Owning)
      BY <1>t, <3>1 DEF TypeOK, Owning
    <3>3. QED
      BY <3>1, <3>2, OwnerStays
  <2>3. QED
    BY <2>1, <2>2
<1>2. CASE Xchg(t)
  <2>1. pc[t] = "xchg" /\ UNCHANGED repeat
    BY <1>2 DEF Xchg, At
  <2>2. CASE is_lock
    <3>1. pc' = [pc EXCEPT ![t] = "blocked"]
      BY <1>2, <2>2 DEF Xchg, Goto
    <3>2. \A u \in Thread : pc'[u] = pc[u] \/ (pc[u] \notin Owning /\ pc'[u] \notin Owning)
      BY <1>t, <2>1, <3>1 DEF TypeOK, Owning
    <3>3. QED
      BY <2>1, <3>2, OwnerStays
  <2>3. CASE ~ is_lock
    <3>1. pc' = [pc EXCEPT ![t] = "sethold"]
      BY <1>2, <2>3 DEF Xchg, Goto
    <3>2. "sethold" \in Owning /\ "sethold" # "cs"
      BY DEF Owning
    <3>3. Owners = {} /\ Depth = 0 /\ Owners' = {t} /\ Depth' = 1
      BY <2>3, <3>1, <3>2, OwnerSteps
    <3>4. QED
      BY <3>3 DEF Lock!Acquire
  <2>4. QED
    BY <2>2, <2>3
<1>3. ASSUME SetHolder(t) \/ SetRepeat(t) \/ ClearHolder(t)
      PROVE  UNCHANGED Lock!vars
  <2>1. PICK l \in {"setrep", "cs", "unlock"} :
          /\ pc[t] \in Owning \ {"cs"} /\ pc' = [pc EXCEPT ![t] = l]
          /\ l = "cs" => repeat' = 1
    BY <1>3 DEF SetHolder, SetRepeat, ClearHolder, At, Goto, Owning
  <2>2. Owners = {t} /\ Owners' = {t} /\ Depth = 1 /\ Depth' = 1
    BY <2>1, OwnerSteps DEF Owning
  <2>3. QED
    BY <2>2 DEF Lock!vars
<1>4. CASE mutex_release(t)
  <2>1. /\ pc[t] = "cs" /\ repeat' = repeat - 1
        /\ pc' = [pc EXCEPT ![t] = IF repeat = 1 THEN "clear" ELSE "cs"]
    BY <1>4 DEF mutex_release, At, Goto
  <2>2. PICK l \in {"clear", "cs"} : pc' = [pc EXCEPT ![t] = l] /\ (repeat = 1 <=> l = "clear")
    BY <2>1
  <2>3. Owners = {t} /\ Owners' = {t} /\ Depth = repeat
        /\ Depth' = IF l = "cs" THEN repeat' ELSE 1
    BY <2>1, <2>2, OwnerSteps DEF Owning
  <2>4. QED
    BY <2>1, <2>2, <2>3 DEF Lock!Release, Lock!vars
<1>5. CASE Unlock(t)
  <2>1. pc[t] = "unlock" /\ is_lock' = FALSE
    BY <1>5 DEF Unlock, At
  <2>2. \A u \in Thread : pc'[u] \notin Owning
    BY <2>1 DEF IInv, OwnerInv
  <2>3. OwnersAt(pc') = {} /\ DepthAt(pc', repeat') = 0
    BY <2>2, NoOwner
  <2>4. \A u \in Thread : pc[u] \in Owning => u = t
    BY <1>t, <2>1 DEF OwnerInv, MutualExclusion, Owning
  <2>5. OwnersAt(pc) = {t} /\ DepthAt(pc, repeat) = 1
    BY <2>1, <2>4, OneOwner DEF Owning
  <2>6. QED
    BY <2>3, <2>5, OwnersNow DEF Lock!Release
<1>6. QED
  BY <1>1, <1>2, <1>3, <1>4, <1>5

\* The wake-up and the handlers move no owner.
LEMMA OthersHidden ==
  ASSUME IInv, IntrOn \cap Windows = {}, NEW t \in Thread,
         Wake(t) \/ HandlerRetries(t) \/ Interrupt(t)
  PROVE  UNCHANGED Lock!vars
<1>t. TypeOK /\ OwnerInv /\ SleepInv /\ WaitersLinked
  BY DEF IInv, SleepInv
<1>1. CASE Wake(t)
  <2> DEFINE pcs == [pc EXCEPT ![t] = "out"]
  <2>1. pc[t] = "wake" /\ hpc[t] = "none" /\ thread_unblock(elem[t], pcs, hpc) /\ UNCHANGED repeat
    BY <1>1 DEF Wake, At, mutex
  <2>2. elem[t] \in Thread /\ Sleeping(elem[t]) /\ elem[t] # t
    BY <1>t, <2>1 DEF SleepInv, WaitersLinked, TypeOK, Sleeping, At
  <2>3. pc[elem[t]] \notin Owning
    BY <1>t, <2>2 DEF SleepInv, Sleeping, At, Owning
  <2>4. \A u \in Thread : pc'[u] = pc[u] \/ (pc[u] \notin Owning /\ pc'[u] \notin Owning)
    BY <1>t, <2>1, <2>2, <2>3, MutexAssumption DEF thread_unblock, TypeOK, Owning
  <2>5. QED
    BY <2>1, <2>4, OwnerStays
<1>2. ASSUME NEW hpcs, HandlerPasses(t, hpcs), pc' \in [Thread -> Labels],
             \A u \in Thread : pc'[u] \in {pc[u], "xchg"}
      PROVE  UNCHANGED Lock!vars
  <2>1. \A u \in Thread : pc[u] \notin Owning /\ pc'[u] \notin Owning
    BY <1>t, <1>2 DEF HandlerPasses, OwnerInv, Owning
  <2>2. QED
    BY <2>1, NoOwner, OwnersNow DEF Lock!vars
<1>3. ASSUME NEW hpcs, HandlerPasses(t, hpcs)
      PROVE  \A u \in Thread : pc'[u] \in {pc[u], "xchg"}
  <2>1. thread_unblock(FirstWaiter, pc, hpcs)
    BY <1>3 DEF HandlerPasses, HandlerUnlocks
  <2>2. QED
    BY <1>t, <2>1 DEF thread_unblock, TypeOK
<1>4. ASSUME NEW hpcs, HandlerPasses(t, hpcs)
      PROVE  pc' \in [Thread -> Labels]
  <2>1. thread_unblock(FirstWaiter, pc, hpcs)
    BY <1>4 DEF HandlerPasses, HandlerUnlocks
  <2>2. QED
    BY <1>t, <2>1 DEF thread_unblock, TypeOK, Labels
<1>5. ASSUME HandlerBlocks(t)
      PROVE  UNCHANGED Lock!vars
  BY <1>5, OwnerStays DEF HandlerBlocks
<1>6. ASSUME HandlerNests(t, hpc), pc[t] \in IntrOn
      PROVE  UNCHANGED Lock!vars
  <2>1. UNCHANGED << repeat, pc >>
    BY <1>t, <1>6 DEF HandlerNests, OwnerInv, Windows, mutex
  <2>2. QED
    BY <2>1, OwnerStays
<1>7. QED
  BY <1>1, <1>2, <1>3, <1>4, <1>5, <1>6 DEF HandlerRetries, Interrupt

\* Whatever the number of threads, and however deep they nest: xchg gives the lock to one
\* thread that finds it free, the acquires of its owner count up, each release counts one
\* down, and the last of them gives the lock up, whoever is woken meanwhile.
THEOREM Implements == ASSUME IntrOn \cap Windows = {} PROVE Spec => ImplementsLock
<1>1. Init => Lock!Init
  <2> SUFFICES ASSUME Init PROVE Lock!Init
    OBVIOUS
  <2>1. \A u \in Thread : pc[u] \notin Owning
    BY DEF Init, Owning
  <2>2. QED
    BY <2>1, NoOwner, OwnersNow DEF Lock!Init
<1>2. IInv /\ IInv' /\ [Next]_vars => [Lock!Next]_(Lock!vars)
  <2> SUFFICES ASSUME IInv, IInv', [Next]_vars PROVE [Lock!Next]_(Lock!vars)
    OBVIOUS
  <2>1. CASE UNCHANGED vars
    <3>1. UNCHANGED << repeat, pc >>
      BY <2>1 DEF vars, mutex
    <3>2. QED
      BY <3>1, OwnerStays
  <2>2. ASSUME NEW t \in Thread, mutex_acquire(t) \/ ThreadStep(t) \/ Interrupt(t)
        PROVE  [Lock!Next]_(Lock!vars)
    BY <2>2, ThreadSimulates, OthersHidden DEF ThreadStep, Lock!Next
  <2>3. QED
    BY <2>1, <2>2 DEF Next
<1>3. QED
  BY <1>1, <1>2, InitIInv, NextIInv, PTL DEF Spec, ImplementsLock, Lock!Spec

=============================================================================
