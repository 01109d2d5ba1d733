-------------------------- MODULE Semaphore_proofs --------------------------
(***************************************************************************)
(* For any finite set of threads, count, the wait list and the threads     *)
(* that still have to wake someone agree, sema_post always finds the       *)
(* waiter it has been told of, and every step of the semaphore is one of   *)
(* the abstract semaphore.                                                 *)
(***************************************************************************)
EXTENDS Semaphore, SequenceTheorems, FiniteSetTheorems, TLAPS

-----------------------------------------------------------------------------
\* What the list operations do to the set of linked elements and to the absence of
\* duplicates: all that the rest of the proofs needs to know of sequences.

\* list_init() makes a list that links nothing.
LEMMA InitLinks ==
  ASSUME NEW S
  PROVE  /\ list_init \in Seq(S)
         /\ Elems(list_init) = {}
         /\ NoDuplicates(list_init)
BY DEF list_init, Elems, Range, NoDuplicates, IsInjective

\* list_push_back() links one more element, and keeps a list duplicate-free
\* when the element was not in it.
LEMMA PushBackLinks ==
  ASSUME NEW S, NEW l \in Seq(S), NEW e \in S
  PROVE  /\ list_push_back(l, e) \in Seq(S)
         /\ list_push_back(l, e) # << >>
         /\ Elems(list_push_back(l, e)) = Elems(l) \cup {e}
         /\ NoDuplicates(l) /\ e \notin Elems(l) => NoDuplicates(list_push_back(l, e))
<1> DEFINE m == Append(l, e)
<1>1. /\ m \in Seq(S) /\ m # << >> /\ DOMAIN m = 1 .. Len(l) + 1 /\ DOMAIN l = 1 .. Len(l) /\ Len(l) \in Nat
      /\ \A i \in 1 .. Len(l) + 1 : m[i] = IF i <= Len(l) THEN l[i] ELSE e
  BY AppendProperties, LenProperties
<1> HIDE DEF m
<1>2. Range(m) = Range(l) \cup {e}
  BY <1>1 DEF Range
<1>3. IsInjective(l) /\ e \notin Range(l) => IsInjective(m)
  BY <1>1 DEF IsInjective, Range
<1>4. QED
  BY <1>1, <1>2, <1>3 DEF m, list_push_back, Elems, NoDuplicates

\* list_pop_front() unlinks exactly the front element of a non-empty list.
LEMMA PopFrontUnlinks ==
  ASSUME NEW S, NEW l \in Seq(S), ~ list_empty(l)
  PROVE  /\ list_first(l) \in S
         /\ list_find(l, list_first(l))
         /\ list_rest(l) \in Seq(S)
         /\ NoDuplicates(l) => /\ NoDuplicates(list_rest(l))
                               /\ Elems(list_rest(l)) = Elems(l) \ {list_first(l)}
<1> DEFINE m == Tail(l)
<1>1. /\ Head(l) = l[1] /\ Head(l) \in S /\ m \in Seq(S) /\ Len(l) \in Nat \ {0}
      /\ DOMAIN l = 1 .. Len(l) /\ DOMAIN m = 1 .. Len(l) - 1
      /\ \A i \in 1 .. Len(l) - 1 : m[i] = l[i + 1]
  BY HeadTailProperties, LenProperties, EmptySeq DEF list_empty
<1> HIDE DEF m
<1>2. IsInjective(l) => IsInjective(m)
  <2> SUFFICES ASSUME IsInjective(l), NEW a \in DOMAIN m, NEW b \in DOMAIN m, m[a] = m[b]
               PROVE  a = b
    BY DEF IsInjective
  <2>1. a \in 1 .. Len(l) - 1 /\ b \in 1 .. Len(l) - 1
    BY <1>1
  <2>2. a + 1 \in DOMAIN l /\ b + 1 \in DOMAIN l /\ l[a + 1] = l[b + 1]
    BY <1>1, <2>1
  <2>3. a + 1 = b + 1
    BY <2>2 DEF IsInjective
  <2>4. QED
    BY <2>1, <2>3
<1>3. 1 \in 1 .. Len(l) /\ \A i \in 1 .. Len(l) - 1 : i + 1 \in 1 .. Len(l) /\ i + 1 # 1
  BY <1>1
<1>4. \A j \in 1 .. Len(l) : j # 1 => j - 1 \in 1 .. Len(l) - 1 /\ m[j - 1] = l[j]
  BY <1>1
<1>5. ASSUME IsInjective(l) PROVE Range(m) = Range(l) \ {l[1]}
  <2>1. Range(m) \subseteq Range(l) \ {l[1]}
    <3> SUFFICES ASSUME NEW a \in DOMAIN m PROVE m[a] \in Range(l) \ {l[1]}
      BY DEF Range
    <3>1. a + 1 \in DOMAIN l /\ 1 \in DOMAIN l /\ a + 1 # 1 /\ m[a] = l[a + 1]
      BY <1>1, <1>3
    <3>2. l[a + 1] # l[1]
      BY <1>5, <3>1 DEF IsInjective
    <3>3. QED
      BY <3>1, <3>2 DEF Range
  <2>2. Range(l) \ {l[1]} \subseteq Range(m)
    BY <1>1, <1>4 DEF Range
  <2>3. QED
    BY <2>1, <2>2
<1>6. l[1] \in Range(l)
  BY <1>1, <1>3 DEF Range
<1>7. QED
  BY <1>1, <1>2, <1>5, <1>6 DEF m, list_first, list_rest, list_find, list_empty, Elems, NoDuplicates

-----------------------------------------------------------------------------

IInv == TypeOK /\ CountMatches /\ BlockedQueued

\* What queueing a caller does to the wait list.
LEMMA PushWaiter ==
  ASSUME NEW l \in Seq(Thread), NEW t \in Thread
  PROVE  /\ list_push_back(l, t) \in Seq(Thread)
         /\ Len(list_push_back(l, t)) = Len(l) + 1
         /\ Elems(list_push_back(l, t)) = Elems(l) \cup {t}
         /\ NoDuplicates(l) /\ t \notin Elems(l) => NoDuplicates(list_push_back(l, t))
<1>1. Len(list_push_back(l, t)) = Len(l) + 1
  BY AppendProperties DEF list_push_back
<1>2. QED
  BY <1>1, PushBackLinks

\* What waking the first one does to it.
LEMMA PopWaiterList ==
  ASSUME NEW l \in Seq(Thread), ~ list_empty(l), NoDuplicates(l)
  PROVE  /\ list_first(l) \in Thread /\ list_first(l) \in Elems(l)
         /\ list_rest(l) \in Seq(Thread)
         /\ Len(list_rest(l)) = Len(l) - 1
         /\ Len(l) \in Nat /\ Len(l) > 0
         /\ NoDuplicates(list_rest(l))
         /\ Elems(list_rest(l)) = Elems(l) \ {list_first(l)}
<1>1. l # << >>
  BY DEF list_empty
<1>2. Len(Tail(l)) = Len(l) - 1 /\ Len(l) \in Nat /\ Len(l) > 0
  BY <1>1, HeadTailProperties, EmptySeq, LenProperties
<1>3. Len(list_rest(l)) = Len(l) - 1
  BY <1>2 DEF list_rest, list_empty
<1>4. QED
  BY <1>2, <1>3, PopFrontUnlinks DEF list_find

\* The empty list is the one of length 0.
LEMMA EmptyLength ==
  ASSUME NEW l \in Seq(Thread)
  PROVE  Len(l) \in Nat /\ (list_empty(l) <=> Len(l) = 0)
BY EmptySeq, LenProperties DEF list_empty

\* The posters are finitely many.
LEMMA PoppingFinite == IsFiniteSet(Popping) /\ Cardinality(Popping) \in Nat
BY SemaphoreAssumption, FS_Subset, FS_CardinalityType DEF Popping

\* One more, one less poster.
LEMMA PoppingChanges ==
  ASSUME NEW t \in Thread
  PROVE  /\ t \notin Popping /\ Popping' = Popping \cup {t} =>
              Cardinality(Popping') = Cardinality(Popping) + 1
         /\ t \in Popping /\ Popping' = Popping \ {t} =>
              Cardinality(Popping') = Cardinality(Popping) - 1 /\ Cardinality(Popping) > 0
<1>1. ASSUME t \notin Popping, Popping' = Popping \cup {t}
      PROVE  Cardinality(Popping') = Cardinality(Popping) + 1
  BY <1>1, PoppingFinite, FS_AddElement
<1>2. ASSUME t \in Popping, Popping' = Popping \ {t}
      PROVE  Cardinality(Popping') = Cardinality(Popping) - 1 /\ Cardinality(Popping) > 0
  <2>1. Cardinality(Popping) # 0
    BY <1>2, PoppingFinite, FS_EmptySet
  <2>2. QED
    BY <1>2, <2>1, PoppingFinite, FS_RemoveElement
<1>3. QED
  BY <1>1, <1>2

\* The wait list is long enough for whoever has to pop it.
LEMMA PopFinds == IInv => PopFindsWaiter
<1> SUFFICES ASSUME IInv PROVE PopFindsWaiter
  OBVIOUS
<1>1. count \in Int /\ wait_list \in Seq(Thread) /\ CountMatches
  BY DEF IInv, TypeOK
<1>2. Len(wait_list) \in Nat /\ (list_empty(wait_list) <=> Len(wait_list) = 0)
  BY <1>1, EmptyLength
<1>3. Popping # {} => Cardinality(Popping) # 0
  BY PoppingFinite, FS_EmptySet
<1>4. QED
  BY <1>1, <1>2, <1>3, PoppingFinite DEF CountMatches, PopFindsWaiter

-----------------------------------------------------------------------------
LEMMA InitIInv == Init => IInv
<1> SUFFICES ASSUME Init PROVE IInv
  OBVIOUS
<1>1. wait_list = list_init /\ wait_list \in Seq(Thread) /\ Elems(wait_list) = {} /\ NoDuplicates(wait_list)
  BY InitLinks DEF Init
<1>2. TypeOK
  BY <1>1, SemaphoreAssumption DEF Init, TypeOK
<1>3. CountMatches
  <2>1. Len(wait_list) = 0
    BY <1>1, EmptyLength DEF list_empty, list_init
  <2>2. Popping = {}
    BY DEF Init, Popping
  <2>3. Cardinality(Popping) = 0
    BY <2>2, FS_EmptySet
  <2>4. count \in Nat
    BY SemaphoreAssumption DEF Init
  <2>5. QED
    BY <2>1, <2>3, <2>4 DEF CountMatches
<1>4. BlockedQueued
  BY <1>1 DEF Init, BlockedQueued, list_find
<1>5. QED
  BY <1>2, <1>3, <1>4 DEF IInv

\* A caller takes a permit or queues.
LEMMA WaitKeeps ==
  ASSUME IInv, NEW t \in Thread, sema_wait(t)
  PROVE  IInv'
<1>1. /\ count \in Int /\ count <= MaxCount /\ MaxCount \in Nat
      /\ wait_list \in Seq(Thread) /\ NoDuplicates(wait_list)
      /\ pc \in [Thread -> {"out", "blocked", "pop"}]
      /\ \A u \in Thread : pc[u] = "blocked" <=> u \in Elems(wait_list)
      /\ CountMatches
  BY SemaphoreAssumption DEF IInv, TypeOK, BlockedQueued, list_find
<1>2. pc[t] = "out" /\ count' = count - 1
  BY DEF sema_wait
<1>3. CASE count > 0
  <2>1. UNCHANGED << wait_list, pc >>
    BY <1>3 DEF sema_wait
  <2>2. TypeOK'
    BY <1>1, <1>2, <2>1 DEF TypeOK
  <2>3. Popping' = Popping
    BY <2>1 DEF Popping
  <2>4. CountMatches'
    BY <1>1, <1>2, <1>3, <2>1, <2>3 DEF CountMatches
  <2>5. BlockedQueued'
    BY <2>1 DEF IInv, BlockedQueued
  <2>6. QED
    BY <2>2, <2>4, <2>5 DEF IInv
<1>4. CASE ~ (count > 0)
  <2>1. /\ wait_list' = list_push_back(wait_list, t)
        /\ pc' = [pc EXCEPT ![t] = "blocked"]
    BY <1>4 DEF sema_wait
  <2>2. /\ wait_list' \in Seq(Thread)
        /\ Len(wait_list') = Len(wait_list) + 1
        /\ Elems(wait_list') = Elems(wait_list) \cup {t}
        /\ NoDuplicates(wait_list')
    BY <1>1, <1>2, <2>1, PushWaiter
  <2>3. \A u \in Thread : pc'[u] = IF u = t THEN "blocked" ELSE pc[u]
    BY <1>1, <2>1
  <2>4. TypeOK'
    BY <1>1, <1>2, <2>1, <2>2 DEF TypeOK
  <2>5. Popping' = Popping
    BY <1>2, <2>3 DEF Popping
  <2>6. CountMatches'
    BY <1>1, <1>2, <1>4, <2>2, <2>5, PoppingFinite, EmptyLength DEF CountMatches
  <2>7. BlockedQueued'
    BY <1>1, <2>2, <2>3 DEF BlockedQueued, list_find
  <2>8. QED
    BY <2>4, <2>6, <2>7 DEF IInv
<1>5. QED
  BY <1>3, <1>4

\* The thread p may leave "pop" as the first waiter is woken.
LEMMA WakeKeeps ==
  ASSUME IInv, NEW pcs, ~ list_empty(wait_list), unblock_first(pcs),
         NEW P \in SUBSET Thread, \A u \in P : pc[u] = "pop",
         pcs = [u \in Thread |-> IF u \in P THEN "out" ELSE pc[u]]
  PROVE  /\ wait_list' \in Seq(Thread) /\ Len(wait_list') = Len(wait_list) - 1
         /\ Len(wait_list) \in Nat /\ Len(wait_list) > 0
         /\ pc' \in [Thread -> {"out", "blocked", "pop"}]
         /\ Popping' = Popping \ P
         /\ BlockedQueued'
<1>1. /\ wait_list \in Seq(Thread) /\ NoDuplicates(wait_list)
      /\ pc \in [Thread -> {"out", "blocked", "pop"}]
      /\ \A u \in Thread : pc[u] = "blocked" <=> u \in Elems(wait_list)
  BY DEF IInv, TypeOK, BlockedQueued, list_find
<1> DEFINE w == list_first(wait_list)
<1>2. /\ w \in Thread /\ w \in Elems(wait_list)
      /\ list_rest(wait_list) \in Seq(Thread)
      /\ Len(list_rest(wait_list)) = Len(wait_list) - 1
      /\ Len(wait_list) \in Nat /\ Len(wait_list) > 0
      /\ NoDuplicates(list_rest(wait_list))
      /\ Elems(list_rest(wait_list)) = Elems(wait_list) \ {w}
  BY <1>1, PopWaiterList
<1>3. pc' = [pcs EXCEPT ![w] = "out"] /\ wait_list' = list_rest(wait_list)
  BY DEF unblock_first
<1> HIDE DEF w
<1>4. pc[w] = "blocked"
  BY <1>1, <1>2
<1>5. \A u \in Thread : pc'[u] = IF u = w \/ u \in P THEN "out" ELSE pc[u]
  BY <1>1, <1>2, <1>3
<1>6. pc' \in [Thread -> {"out", "blocked", "pop"}]
  BY <1>1, <1>2, <1>3
<1>7. Popping' = Popping \ P
  BY <1>2, <1>4, <1>5 DEF Popping
<1>8. BlockedQueued'
  BY <1>1, <1>2, <1>3, <1>5 DEF BlockedQueued, list_find
<1>9. QED
  BY <1>2, <1>3, <1>6, <1>7, <1>8

-----------------------------------------------------------------------------
LEMMA NextIInv == IInv /\ [Next]_vars => IInv'
<1> SUFFICES ASSUME IInv, [Next]_vars PROVE IInv'
  OBVIOUS
<1>0. /\ count \in Int /\ count <= MaxCount /\ MaxCount \in Nat
      /\ wait_list \in Seq(Thread)
      /\ pc \in [Thread -> {"out", "blocked", "pop"}]
      /\ CountMatches /\ BlockedQueued
  BY SemaphoreAssumption DEF IInv, TypeOK
<1>l. Len(wait_list) \in Nat
  BY <1>0, EmptyLength
<1>1. ASSUME NEW t \in Thread, sema_wait(t) PROVE IInv'
  BY <1>1, WaitKeeps
<1>2. ASSUME NEW t \in Thread, sema_trywait(t) PROVE IInv'
  <2>1. count > 0 /\ count' = count - 1 /\ UNCHANGED << wait_list, pc >>
    BY <1>2 DEF sema_trywait
  <2>2. Popping' = Popping
    BY <2>1 DEF Popping
  <2>3. CountMatches'
    BY <1>0, <2>1, <2>2 DEF CountMatches
  <2>4. TypeOK' /\ BlockedQueued'
    BY <1>0, <2>1 DEF TypeOK, BlockedQueued
  <2>5. QED
    BY <2>3, <2>4 DEF IInv
<1>3. ASSUME NEW t \in Thread, sema_post(t) PROVE IInv'
  <2>1. /\ pc[t] = "out" /\ count < MaxCount /\ count' = count + 1 /\ UNCHANGED wait_list
        /\ pc' = IF count < 0 THEN [pc EXCEPT ![t] = "pop"] ELSE pc
    BY <1>3 DEF sema_post
  <2>2. TypeOK'
    BY <1>0, <2>1 DEF TypeOK
  <2>3. CASE count < 0
    <3>1. \A u \in Thread : pc'[u] = IF u = t THEN "pop" ELSE pc[u]
      BY <1>0, <2>1, <2>3
    <3>2. t \notin Popping /\ Popping' = Popping \cup {t}
      BY <2>1, <3>1 DEF Popping
    <3>3. Cardinality(Popping') = Cardinality(Popping) + 1
      BY <3>2, PoppingChanges
    <3>4. CountMatches'
      BY <1>0, <1>l, <2>1, <2>3, <3>3, PoppingFinite DEF CountMatches
    <3>5. BlockedQueued'
      BY <1>0, <2>1, <3>1 DEF BlockedQueued
    <3>6. QED
      BY <2>2, <3>4, <3>5 DEF IInv
  <2>4. CASE ~ (count < 0)
    <3>1. pc' = pc
      BY <2>1, <2>4
    <3>2. Popping' = Popping
      BY <3>1 DEF Popping
    <3>3. CountMatches' /\ BlockedQueued'
      BY <1>0, <2>1, <2>4, <3>1, <3>2 DEF CountMatches, BlockedQueued
    <3>4. QED
      BY <2>2, <3>3 DEF IInv
  <2>5. QED
    BY <2>3, <2>4
<1>4. ASSUME NEW t \in Thread, PopWaiter(t) PROVE IInv'
  <2>1. /\ pc[t] = "pop" /\ ~ list_empty(wait_list) /\ UNCHANGED count
        /\ unblock_first([pc EXCEPT ![t] = "out"])
    BY <1>4 DEF PopWaiter
  <2>2. [pc EXCEPT ![t] = "out"] = [u \in Thread |-> IF u \in {t} THEN "out" ELSE pc[u]]
    BY <1>0
  <2>3. /\ wait_list' \in Seq(Thread) /\ Len(wait_list') = Len(wait_list) - 1
        /\ pc' \in [Thread -> {"out", "blocked", "pop"}]
        /\ Popping' = Popping \ {t}
        /\ BlockedQueued'
    BY <2>1, <2>2, WakeKeeps
  <2>4. t \in Popping
    BY <2>1 DEF Popping
  <2>5. Cardinality(Popping') = Cardinality(Popping) - 1
    BY <2>3, <2>4, PoppingChanges
  <2>6. CountMatches'
    BY <1>0, <1>l, <2>1, <2>3, <2>5, PoppingFinite DEF CountMatches
  <2>7. TypeOK'
    BY <1>0, <2>1, <2>3 DEF TypeOK
  <2>8. QED
    BY <2>3, <2>6, <2>7 DEF IInv
<1>5. ASSUME HandlerPosts PROVE IInv'
  <2>1. count < MaxCount /\ count' = count + 1
    BY <1>5 DEF HandlerPosts
  <2>2. CASE count < 0
    <3>1. ~ list_empty(wait_list) /\ unblock_first(pc)
      BY <1>5, <2>2 DEF HandlerPosts
    <3>2. pc = [u \in Thread |-> IF u \in {} THEN "out" ELSE pc[u]]
      BY <1>0
    <3>3. /\ wait_list' \in Seq(Thread) /\ Len(wait_list') = Len(wait_list) - 1
          /\ pc' \in [Thread -> {"out", "blocked", "pop"}]
          /\ Popping' = Popping
          /\ BlockedQueued'
      <4> DEFINE None == {}
      <4>1. None \in SUBSET Thread /\ \A u \in None : pc[u] = "pop"
        OBVIOUS
      <4>2. pc = [u \in Thread |-> IF u \in None THEN "out" ELSE pc[u]]
        BY <3>2
      <4>3. Popping \ None = Popping
        OBVIOUS
      <4> HIDE DEF None
      <4>4. QED
        BY <3>1, <4>1, <4>2, <4>3, WakeKeeps
    <3>4. CountMatches'
      BY <1>0, <1>l, <2>1, <2>2, <3>3, PoppingFinite DEF CountMatches
    <3>5. TypeOK'
      BY <1>0, <2>1, <3>3 DEF TypeOK
    <3>6. QED
      BY <3>3, <3>4, <3>5 DEF IInv
  <2>3. CASE ~ (count < 0)
    <3>1. UNCHANGED << wait_list, pc >>
      BY <1>5, <2>3 DEF HandlerPosts
    <3>2. Popping' = Popping
      BY <3>1 DEF Popping
    <3>3. CountMatches' /\ BlockedQueued' /\ TypeOK'
      BY <1>0, <2>1, <2>3, <3>1, <3>2 DEF CountMatches, BlockedQueued, TypeOK
    <3>4. QED
      BY <3>3 DEF IInv
  <2>4. QED
    BY <2>2, <2>3
<1>6. CASE UNCHANGED vars
  BY <1>0, <1>6 DEF vars, IInv, TypeOK, CountMatches, BlockedQueued, Popping
<1>7. QED
  BY <1>1, <1>2, <1>3, <1>4, <1>5, <1>6 DEF Next

\* The invariant.
LEMMA Inductive == Spec => []IInv
BY InitIInv, NextIInv, PTL DEF Spec

\* sema_post and sema_wait keep count, the wait list and the pending wake-ups
\* in agreement, although a post changes them in two steps.
THEOREM CountAgrees == Spec => []CountMatches
<1>1. IInv => CountMatches
  BY DEF IInv
<1>2. QED
  BY <1>1, Inductive, PTL

\* list_pop_front in sema_post never meets an empty list.
THEOREM PopNeverEmpty == Spec => []PopFindsWaiter
BY PopFinds, Inductive, PTL

\* A thread is blocked in sema_wait exactly while it is queued.
THEOREM SleepersQueued == Spec => []BlockedQueued
<1>1. IInv => BlockedQueued
  BY DEF IInv
<1>2. QED
  BY <1>1, Inductive, PTL

-----------------------------------------------------------------------------
\* While a thread is about to pop, there is a permit that has been posted and not
\* taken: the count and the queue together are above zero.
LEMMA PosterHasPermit ==
  ASSUME IInv, NEW t \in Thread, pc[t] = "pop"
  PROVE  count + Len(wait_list) > 0
<1>1. count \in Int /\ Len(wait_list) \in Nat /\ CountMatches
  BY EmptyLength DEF IInv, TypeOK
<1>2. Cardinality(Popping) # 0
  BY PoppingFinite, FS_EmptySet DEF Popping
<1>3. QED
  BY <1>1, <1>2, PoppingFinite DEF CountMatches

\* Every step is one of the abstract semaphore, or leaves it alone.
LEMMA StepSimulates == IInv /\ [Next]_vars => [Sem!Next]_(Sem!vars)
<1> SUFFICES ASSUME IInv, [Next]_vars PROVE [Sem!Next]_(Sem!vars)
  OBVIOUS
<1>0. /\ count \in Int /\ wait_list \in Seq(Thread) /\ NoDuplicates(wait_list)
      /\ \A u \in Thread : pc[u] = "blocked" <=> u \in Elems(wait_list)
  BY DEF IInv, TypeOK, BlockedQueued, list_find
<1>l. Len(wait_list) \in Nat
  BY <1>0, EmptyLength
<1>e. Elems(wait_list) = { wait_list[i] : i \in DOMAIN wait_list }
  BY DEF Elems, Range
<1>1. ASSUME NEW t \in Thread, sema_wait(t) PROVE Sem!Next
  <2>1. pc[t] = "out" /\ count' = count - 1
    BY <1>1 DEF sema_wait
  <2>2. CASE count > 0
    <3>1. UNCHANGED wait_list
      BY <1>1, <2>2 DEF sema_wait
    <3>2. Sem!Pass
      BY <1>0, <1>l, <2>1, <2>2, <3>1 DEF Sem!Pass
    <3>3. QED
      BY <3>2 DEF Sem!Next
  <2>3. CASE ~ (count > 0)
    <3>1. wait_list' = list_push_back(wait_list, t) /\ wait_list' = Append(wait_list, t)
      BY <1>1, <2>3 DEF sema_wait, list_push_back
    <3>2. Len(wait_list') = Len(wait_list) + 1
      BY <1>0, <3>1, PushWaiter
    <3>3. t \notin { wait_list[i] : i \in DOMAIN wait_list }
      BY <1>0, <1>e, <2>1
    <3>4. count + Len(wait_list) <= Len(wait_list) /\ count' + Len(wait_list') = count + Len(wait_list)
      BY <1>0, <1>l, <2>1, <2>3, <3>2
    <3>5. Sem!Join(t)
      BY <3>1, <3>3, <3>4 DEF Sem!Join
    <3>6. QED
      BY <3>5 DEF Sem!Next
  <2>4. QED
    BY <2>2, <2>3
<1>2. ASSUME NEW t \in Thread, sema_trywait(t) PROVE Sem!Next
  <2>1. count > 0 /\ count' = count - 1 /\ UNCHANGED wait_list
    BY <1>2 DEF sema_trywait
  <2>2. Sem!Pass
    BY <1>0, <1>l, <2>1 DEF Sem!Pass
  <2>3. QED
    BY <2>2 DEF Sem!Next
<1>3. ASSUME count' = count + 1, UNCHANGED wait_list PROVE Sem!Next
  <2>1. Sem!Post
    BY <1>0, <1>l, <1>3 DEF Sem!Post
  <2>2. QED
    BY <2>1 DEF Sem!Next
<1>4. ASSUME ~ list_empty(wait_list), wait_list' = list_rest(wait_list)
      PROVE  /\ wait_list # << >> /\ wait_list' = Tail(wait_list)
             /\ Len(wait_list') = Len(wait_list) - 1
  BY <1>0, <1>4, PopWaiterList DEF list_rest, list_empty
<1>5. ASSUME NEW t \in Thread, PopWaiter(t) PROVE Sem!Next
  <2>1. /\ pc[t] = "pop" /\ ~ list_empty(wait_list) /\ UNCHANGED count
        /\ wait_list' = list_rest(wait_list)
    BY <1>5 DEF PopWaiter, unblock_first
  <2>2. count + Len(wait_list) > 0
    BY <2>1, PosterHasPermit
  <2>3. Sem!Grant
    BY <1>0, <1>l, <1>4, <2>1, <2>2 DEF Sem!Grant
  <2>4. QED
    BY <2>3 DEF Sem!Next
<1>6. ASSUME HandlerPosts PROVE Sem!Next
  <2>1. count' = count + 1
    BY <1>6 DEF HandlerPosts
  <2>2. CASE count < 0
    <3>1. ~ list_empty(wait_list) /\ wait_list' = list_rest(wait_list)
      BY <1>6, <2>2 DEF HandlerPosts, unblock_first
    <3>2. Sem!PostAndGrant
      BY <1>0, <1>l, <1>4, <2>1, <3>1 DEF Sem!PostAndGrant
    <3>3. QED
      BY <3>2 DEF Sem!Next
  <2>3. CASE ~ (count < 0)
    <3>1. UNCHANGED wait_list
      BY <1>6, <2>3 DEF HandlerPosts
    <3>2. QED
      BY <1>3, <2>1, <3>1
  <2>4. QED
    BY <2>2, <2>3
<1>7. ASSUME NEW t \in Thread, sema_post(t) PROVE Sem!Next
  BY <1>3, <1>7 DEF sema_post
<1>8. CASE UNCHANGED vars
  BY <1>8 DEF vars, Sem!vars
<1>9. QED
  BY <1>1, <1>2, <1>5, <1>6, <1>7, <1>8 DEF Next

\* The semaphore implements the abstract one, as far as safety goes: nobody
\* passes a queue whose permits are reserved, and the queue is served in order.
THEOREM Implements == Spec => Sem!Init /\ [][Sem!Next]_(Sem!vars)
<1>1. Init => Sem!Init
  <2> SUFFICES ASSUME Init PROVE Sem!Init
    OBVIOUS
  <2>1. count \in 0 .. MaxCount /\ wait_list = << >>
    BY DEF Init, list_init
  <2>2. count + Len(wait_list) = count
    BY <2>1, SemaphoreAssumption, EmptySeq
  <2>3. QED
    BY <2>1, <2>2 DEF Sem!Init
<1>2. QED
  BY <1>1, Inductive, StepSimulates, PTL DEF Spec

=============================================================================
