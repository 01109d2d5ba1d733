---------------------------- MODULE RWLock_proofs ----------------------------
(***************************************************************************)
(* For any finite set of threads, the readers-writer lock excludes, its    *)
(* wake-ups are never lost, and it implements the abstract lock; with or   *)
(* without the assertion compiled in.                                      *)
(***************************************************************************)
EXTENDS RWLock, SequenceTheorems, FiniteSetTheorems, TLAPS

-----------------------------------------------------------------------------
\* What the list operations do to the set of linked elements and to the absence of
\* duplicates: all that the rest of the proofs needs to know of sequences.

\* list_init() makes a list that links nothing.
LEMMA InitLinks ==
  ASSUME NEW S
  PROVE  /\ list_init \in Seq(S)
         /\ Elems(list_init) = {}
         /\ NoDuplicates(list_init)
BY DEF list_init, Elems, Range, NoDuplicates, IsInjective

\* list_push_back() links one more element, and keeps a list duplicate-free
\* when the element was not in it.
LEMMA PushBackLinks ==
  ASSUME NEW S, NEW l \in Seq(S), NEW e \in S
  PROVE  /\ list_push_back(l, e) \in Seq(S)
         /\ list_push_back(l, e) # << >>
         /\ Elems(list_push_back(l, e)) = Elems(l) \cup {e}
         /\ NoDuplicates(l) /\ e \notin Elems(l) => NoDuplicates(list_push_back(l, e))
<1> DEFINE m == Append(l, e)
<1>1. /\ m \in Seq(S) /\ m # << >> /\ DOMAIN m = 1 .. Len(l) + 1 /\ DOMAIN l = 1 .. Len(l) /\ Len(l) \in Nat
      /\ \A i \in 1 .. Len(l) + 1 : m[i] = IF i <= Len(l) THEN l[i] ELSE e
  BY AppendProperties, LenProperties
<1> HIDE DEF m
<1>2. Range(m) = Range(l) \cup {e}
  BY <1>1 DEF Range
<1>3. IsInjective(l) /\ e \notin Range(l) => IsInjective(m)
  BY <1>1 DEF IsInjective, Range
<1>4. QED
  BY <1>1, <1>2, <1>3 DEF m, list_push_back, Elems, NoDuplicates

\* list_pop_front() unlinks exactly the front element of a non-empty list.
LEMMA PopFrontUnlinks ==
  ASSUME NEW S, NEW l \in Seq(S), ~ list_empty(l)
  PROVE  /\ list_first(l) \in S
         /\ list_find(l, list_first(l))
         /\ list_rest(l) \in Seq(S)
         /\ NoDuplicates(l) => /\ NoDuplicates(list_rest(l))
                               /\ Elems(list_rest(l)) = Elems(l) \ {list_first(l)}
<1> DEFINE m == Tail(l)
<1>1. /\ Head(l) = l[1] /\ Head(l) \in S /\ m \in Seq(S) /\ Len(l) \in Nat \ {0}
      /\ DOMAIN l = 1 .. Len(l) /\ DOMAIN m = 1 .. Len(l) - 1
      /\ \A i \in 1 .. Len(l) - 1 : m[i] = l[i + 1]
  BY HeadTailProperties, LenProperties, EmptySeq DEF list_empty
<1> HIDE DEF m
<1>2. IsInjective(l) => IsInjective(m)
  <2> SUFFICES ASSUME IsInjective(l), NEW a \in DOMAIN m, NEW b \in DOMAIN m, m[a] = m[b]
               PROVE  a = b
    BY DEF IsInjective
  <2>1. a \in 1 .. Len(l) - 1 /\ b \in 1 .. Len(l) - 1
    BY <1>1
  <2>2. a + 1 \in DOMAIN l /\ b + 1 \in DOMAIN l /\ l[a + 1] = l[b + 1]
    BY <1>1, <2>1
  <2>3. a + 1 = b + 1
    BY <2>2 DEF IsInjective
  <2>4. QED
    BY <2>1, <2>3
<1>3. 1 \in 1 .. Len(l) /\ \A i \in 1 .. Len(l) - 1 : i + 1 \in 1 .. Len(l) /\ i + 1 # 1
  BY <1>1
<1>4. \A j \in 1 .. Len(l) : j # 1 => j - 1 \in 1 .. Len(l) - 1 /\ m[j - 1] = l[j]
  BY <1>1
<1>5. ASSUME IsInjective(l) PROVE Range(m) = Range(l) \ {l[1]}
  <2>1. Range(m) \subseteq Range(l) \ {l[1]}
    <3> SUFFICES ASSUME NEW a \in DOMAIN m PROVE m[a] \in Range(l) \ {l[1]}
      BY DEF Range
    <3>1. a + 1 \in DOMAIN l /\ 1 \in DOMAIN l /\ a + 1 # 1 /\ m[a] = l[a + 1]
      BY <1>1, <1>3
    <3>2. l[a + 1] # l[1]
      BY <1>5, <3>1 DEF IsInjective
    <3>3. QED
      BY <3>1, <3>2 DEF Range
  <2>2. Range(l) \ {l[1]} \subseteq Range(m)
    BY <1>1, <1>4 DEF Range
  <2>3. QED
    BY <2>1, <2>2
<1>6. l[1] \in Range(l)
  BY <1>1, <1>3 DEF Range
<1>7. QED
  BY <1>1, <1>2, <1>5, <1>6 DEF m, list_first, list_rest, list_find, list_empty, Elems, NoDuplicates

-----------------------------------------------------------------------------

IInv == /\ TypeOK /\ CountHolds /\ ReadyWriteMeant
        /\ NoLostWakeup /\ NoReaderStranded /\ WaitersLinked

\* What thread_block and the wake-ups do to a wait list.
LEMMA PushWaiter ==
  ASSUME NEW l \in Seq(Thread), NEW t \in Thread
  PROVE  /\ list_push_back(l, t) \in Seq(Thread)
         /\ ~ list_empty(list_push_back(l, t))
         /\ Elems(list_push_back(l, t)) = Elems(l) \cup {t}
         /\ NoDuplicates(l) /\ t \notin Elems(l) => NoDuplicates(list_push_back(l, t))
BY PushBackLinks DEF list_empty

LEMMA PopWaiter ==
  ASSUME NEW l \in Seq(Thread), ~ list_empty(l), NoDuplicates(l)
  PROVE  /\ list_first(l) \in Thread /\ list_first(l) \in Elems(l)
         /\ list_rest(l) \in Seq(Thread)
         /\ NoDuplicates(list_rest(l))
         /\ Elems(list_rest(l)) = Elems(l) \ {list_first(l)}
BY PopFrontUnlinks DEF list_find

\* The readers are finitely many; one more or one less of them.
LEMMA ReadersFinite == IsFiniteSet(Readers) /\ Cardinality(Readers) \in Nat
BY RWLockAssumption, FS_Subset, FS_CardinalityType DEF Readers

LEMMA ReadersChange ==
  ASSUME NEW t \in Thread
  PROVE  /\ t \notin Readers /\ Readers' = Readers \cup {t} =>
              Cardinality(Readers') = Cardinality(Readers) + 1
         /\ t \in Readers /\ Readers' = Readers \ {t} =>
              Cardinality(Readers') = Cardinality(Readers) - 1
BY ReadersFinite, FS_AddElement, FS_RemoveElement

\* What count tells an acquirer.
LEMMA CountTells ==
  ASSUME TypeOK, CountHolds
  PROVE  /\ count < 0 <=> Writers # {}
         /\ count > 0 <=> Readers # {}
         /\ Writers # {} => count = -1 /\ Readers = {}
         /\ count >= 0 => count = Cardinality(Readers)
         /\ count \in Int
<1>1. Cardinality(Readers) = 0 <=> Readers = {}
  BY ReadersFinite, FS_EmptySet
<1>2. count \in Int
  BY DEF TypeOK
<1>3. CASE Writers = {} /\ count = Cardinality(Readers)
  BY <1>1, <1>2, <1>3, ReadersFinite
<1>4. CASE Readers = {} /\ count = -1 /\ \E t \in Thread : Writers = {t}
  BY <1>4
<1>5. QED
  BY <1>3, <1>4 DEF CountHolds

\* The steps move one thread, t, to label l and change neither set of holders.
LEMMA HoldersKeep ==
  ASSUME CountHolds, NEW t \in Thread, NEW l,
         pc[t] \notin {"reading", "writing"}, l \notin {"reading", "writing"},
         \A u \in Thread : pc'[u] = IF u = t THEN l ELSE pc[u],
         count' = count
  PROVE  CountHolds' /\ Readers' = Readers /\ Writers' = Writers
<1>1. Readers' = Readers /\ Writers' = Writers
  BY DEF Readers, Writers
<1>2. QED
  BY <1>1 DEF CountHolds

-----------------------------------------------------------------------------
LEMMA InitIInv == Init => IInv
<1> SUFFICES ASSUME Init PROVE IInv
  OBVIOUS
<1>1. list_init \in Seq(Thread) /\ Elems(list_init) = {} /\ NoDuplicates(list_init)
  BY InitLinks
<1>2. list_empty(list_init)
  BY DEF list_empty, list_init
<1>3. TypeOK
  <2>1. count \in Int
    BY SMT DEF Init
  <2>2. assertions \in {"on", "off", "failed"} /\ pc \in [Thread -> Labels]
    BY DEF Init, Labels
  <2>3. QED
    BY <1>1, <2>1, <2>2 DEF Init, TypeOK
<1>4. Readers = {} /\ Writers = {}
  BY DEF Init, Readers, Writers
<1>5. CountHolds
  BY <1>4, FS_EmptySet DEF Init, CountHolds
<1>6. ReadyWriteMeant /\ NoLostWakeup /\ NoReaderStranded
  BY <1>2 DEF Init, ReadyWriteMeant, NoLostWakeup, NoReaderStranded
<1>7. WaitersLinked
  BY <1>1 DEF Init, WaitersLinked, list_find
<1>8. QED
  BY <1>3, <1>5, <1>6, <1>7 DEF IInv

\* The facts every step starts from.
LEMMA Facts ==
  ASSUME IInv
  PROVE  /\ count \in Int /\ ready_write \in BOOLEAN
         /\ read_waiter_list \in Seq(Thread) /\ NoDuplicates(read_waiter_list)
         /\ write_waiter_list \in Seq(Thread) /\ NoDuplicates(write_waiter_list)
         /\ pc \in [Thread -> Labels]
         /\ assertions \in {"on", "off", "failed"}
         /\ \A t \in Thread : /\ pc[t] = "rwait" <=> t \in Elems(read_waiter_list)
                              /\ pc[t] = "wwait" <=> t \in Elems(write_waiter_list)
BY DEF IInv, TypeOK, WaitersLinked, list_find

\* The list is empty exactly when no thread is in it.
LEMMA EmptyElems ==
  ASSUME NEW l \in Seq(Thread)
  PROVE  list_empty(l) <=> Elems(l) = {}
<1>1. list_empty(l) => Elems(l) = {}
  BY InitLinks DEF list_empty, list_init
<1>2. ASSUME ~ list_empty(l) PROVE Elems(l) # {}
  BY <1>2, PopFrontUnlinks DEF list_find
<1>3. QED
  BY <1>1, <1>2

-----------------------------------------------------------------------------
\* A reader enters or queues.
LEMMA ReadAcquireKeeps ==
  ASSUME IInv, NEW t \in Thread, rwlock_read_acquire(t)
  PROVE  IInv'
<1>0. /\ TypeOK /\ CountHolds /\ ReadyWriteMeant
      /\ NoLostWakeup /\ NoReaderStranded /\ WaitersLinked
  BY DEF IInv
<1>1. /\ pc[t] \in {"out", "rretry"}
      /\ UNCHANGED << ready_write, write_waiter_list, assertions >>
  BY DEF rwlock_read_acquire
<1>2. CASE count < 0 \/ ready_write
  <2>1. /\ read_waiter_list' = list_push_back(read_waiter_list, t)
        /\ pc' = [pc EXCEPT ![t] = "rwait"] /\ UNCHANGED count
    BY <1>2 DEF rwlock_read_acquire
  <2>2. t \notin Elems(read_waiter_list)
    BY <1>1, Facts
  <2>3. /\ read_waiter_list' \in Seq(Thread) /\ NoDuplicates(read_waiter_list')
        /\ Elems(read_waiter_list') = Elems(read_waiter_list) \cup {t}
    BY <2>1, <2>2, Facts, PushWaiter
  <2>4. \A u \in Thread : pc'[u] = IF u = t THEN "rwait" ELSE pc[u]
    BY <2>1, Facts
  <2>5. TypeOK'
    BY <1>0, <1>1, <2>1, <2>3 DEF TypeOK, Labels
  <2>6. CountHolds' /\ Readers' = Readers /\ Writers' = Writers
    BY <1>0, <1>1, <2>1, <2>4, HoldersKeep
  <2>7. ReadyWriteMeant'
    BY <1>0, <1>1, <2>4 DEF ReadyWriteMeant
  <2>8. WaitersLinked'
    BY <1>1, <2>3, <2>4, Facts DEF WaitersLinked, list_find
  <2>9. NoReaderStranded'
    BY <1>1, <1>2, <2>1, Facts DEF NoReaderStranded
  <2>10. NoLostWakeup'
    <3>1. CASE count < 0
      <4>1. Writers' # {}
        BY <1>0, <2>6, <3>1, CountTells
      <4>2. QED
        BY <4>1 DEF NoLostWakeup
    <3>2. CASE ready_write
      <4>1. PICK w \in Thread : pc[w] \in {"wwait", "wretry", "writing"}
        BY <1>0, <3>2 DEF ReadyWriteMeant
      <4>2. pc'[w] = pc[w]
        BY <1>1, <2>4, <4>1
      <4>3. CASE pc[w] = "wretry"
        BY <4>2, <4>3 DEF NoLostWakeup
      <4>4. CASE pc[w] = "writing"
        <5>1. w \in Writers'
          BY <2>6, <4>4 DEF Writers
        <5>2. QED
          BY <5>1 DEF NoLostWakeup
      <4>5. CASE pc[w] = "wwait"
        <5>1. ~ list_empty(write_waiter_list)
          BY <4>5, Facts, EmptyElems
        <5>2. Readers # {} \/ Writers # {} \/ \E v \in Thread : pc[v] = "wretry"
          BY <1>0, <5>1 DEF NoLostWakeup
        <5>3. Readers' # {} \/ Writers' # {} \/ \E v \in Thread : pc'[v] = "wretry"
          BY <1>1, <2>4, <2>6, <5>2
        <5>4. QED
          BY <5>3 DEF NoLostWakeup
      <4>6. QED
        BY <4>1, <4>3, <4>4, <4>5
    <3>3. QED
      BY <1>2, <3>1, <3>2
  <2>11. QED
    BY <2>5, <2>6, <2>7, <2>8, <2>9, <2>10 DEF IInv
<1>3. CASE ~ (count < 0 \/ ready_write)
  <2>1. /\ count' = count + 1 /\ pc' = [pc EXCEPT ![t] = "reading"]
        /\ UNCHANGED read_waiter_list
    BY <1>3 DEF rwlock_read_acquire
  <2>2. \A u \in Thread : pc'[u] = IF u = t THEN "reading" ELSE pc[u]
    BY <2>1, Facts
  <2>3. TypeOK'
    BY <1>0, <1>1, <2>1 DEF TypeOK, Labels
  <2>4. t \notin Readers /\ Readers' = Readers \cup {t} /\ Writers' = Writers
    BY <1>1, <2>2 DEF Readers, Writers
  <2>5. Writers = {} /\ count = Cardinality(Readers)
    BY <1>0, <1>3, CountTells
  <2>6. Cardinality(Readers') = Cardinality(Readers) + 1
    BY <2>4, ReadersChange
  <2>7. CountHolds'
    BY <2>1, <2>4, <2>5, <2>6 DEF CountHolds
  <2>8. ReadyWriteMeant' /\ NoReaderStranded'
    BY <1>0, <1>1, <1>3, <2>1, <2>5, ReadersFinite DEF ReadyWriteMeant, NoReaderStranded
  <2>9. WaitersLinked'
    BY <1>1, <2>1, <2>2, Facts DEF WaitersLinked, list_find
  <2>10. NoLostWakeup'
    <3>1. Readers' # {}
      BY <2>4
    <3>2. QED
      BY <3>1 DEF NoLostWakeup
  <2>11. QED
    BY <2>3, <2>7, <2>8, <2>9, <2>10 DEF IInv
<1>4. QED
  BY <1>2, <1>3

\* A writer enters or queues.
LEMMA WriteAcquireKeeps ==
  ASSUME IInv, NEW t \in Thread, rwlock_write_acquire(t)
  PROVE  IInv'
<1>0. /\ TypeOK /\ CountHolds /\ ReadyWriteMeant
      /\ NoLostWakeup /\ NoReaderStranded /\ WaitersLinked
  BY DEF IInv
<1>1. pc[t] \in {"out", "wretry"} /\ UNCHANGED << read_waiter_list, assertions >>
  BY DEF rwlock_write_acquire
<1>2. CASE count # 0
  <2>1. /\ ready_write' = TRUE
        /\ write_waiter_list' = list_push_back(write_waiter_list, t)
        /\ pc' = [pc EXCEPT ![t] = "wwait"] /\ UNCHANGED count
    BY <1>2 DEF rwlock_write_acquire
  <2>2. t \notin Elems(write_waiter_list)
    BY <1>1, Facts
  <2>3. /\ write_waiter_list' \in Seq(Thread) /\ NoDuplicates(write_waiter_list')
        /\ Elems(write_waiter_list') = Elems(write_waiter_list) \cup {t}
    BY <2>1, <2>2, Facts, PushWaiter
  <2>4. \A u \in Thread : pc'[u] = IF u = t THEN "wwait" ELSE pc[u]
    BY <2>1, Facts
  <2>5. TypeOK'
    BY <1>0, <1>1, <2>1, <2>3 DEF TypeOK, Labels
  <2>6. CountHolds' /\ Readers' = Readers /\ Writers' = Writers
    BY <1>0, <1>1, <2>1, <2>4, HoldersKeep
  <2>7. ReadyWriteMeant' /\ NoReaderStranded'
    BY <2>1, <2>4 DEF ReadyWriteMeant, NoReaderStranded
  <2>8. WaitersLinked'
    BY <1>1, <2>3, <2>4, Facts DEF WaitersLinked, list_find
  <2>9. NoLostWakeup'
    <3>1. Readers' # {} \/ Writers' # {}
      BY <1>0, <1>2, <2>6, CountTells
    <3>2. QED
      BY <3>1 DEF NoLostWakeup
  <2>10. QED
    BY <2>5, <2>6, <2>7, <2>8, <2>9 DEF IInv
<1>3. CASE count = 0
  <2>1. /\ count' = -1 /\ pc' = [pc EXCEPT ![t] = "writing"]
        /\ UNCHANGED << ready_write, write_waiter_list >>
    BY <1>3 DEF rwlock_write_acquire
  <2>2. \A u \in Thread : pc'[u] = IF u = t THEN "writing" ELSE pc[u]
    BY <2>1, Facts
  <2>3. TypeOK'
    BY <1>0, <1>1, <2>1 DEF TypeOK, Labels
  <2>4. Readers = {} /\ Writers = {}
    BY <1>0, <1>3, CountTells
  <2>5. Readers' = {} /\ Writers' = {t}
    BY <1>1, <2>2, <2>4 DEF Readers, Writers
  <2>6. CountHolds'
    BY <2>1, <2>5 DEF CountHolds
  <2>7. ReadyWriteMeant' /\ NoReaderStranded'
    BY <1>0, <2>1, <2>2 DEF ReadyWriteMeant, NoReaderStranded
  <2>8. WaitersLinked'
    BY <1>1, <2>1, <2>2, Facts DEF WaitersLinked, list_find
  <2>9. NoLostWakeup'
    BY <2>5 DEF NoLostWakeup
  <2>10. QED
    BY <2>3, <2>6, <2>7, <2>8, <2>9 DEF IInv
<1>4. QED
  BY <1>2, <1>3

-----------------------------------------------------------------------------
\* t leaves the lock and wakes the first queued writer.
LEMMA WakeWriterKeeps ==
  ASSUME IInv, NEW t \in Thread, pc[t] \in {"reading", "writing"},
         ~ list_empty(write_waiter_list),
         wake_writer([pc EXCEPT ![t] = "out"]),
         UNCHANGED << ready_write, read_waiter_list, assertions >>,
         count' \in Int
  PROVE  /\ TypeOK' /\ ReadyWriteMeant' /\ NoLostWakeup' /\ NoReaderStranded' /\ WaitersLinked'
         /\ Readers' = Readers \ {t} /\ Writers' = Writers \ {t}
<1> DEFINE w == list_first(write_waiter_list)
<1>1. /\ w \in Thread /\ w \in Elems(write_waiter_list)
      /\ list_rest(write_waiter_list) \in Seq(Thread)
      /\ NoDuplicates(list_rest(write_waiter_list))
      /\ Elems(list_rest(write_waiter_list)) = Elems(write_waiter_list) \ {w}
  BY Facts, PopWaiter
<1>2. /\ write_waiter_list' = list_rest(write_waiter_list)
      /\ pc' = [[pc EXCEPT ![t] = "out"] EXCEPT ![w] = "wretry"]
  BY DEF wake_writer
<1> HIDE DEF w
<1>3. pc[w] = "wwait"
  BY <1>1, Facts
<1>4. \A u \in Thread : pc'[u] = IF u = w THEN "wretry" ELSE IF u = t THEN "out" ELSE pc[u]
  BY <1>1, <1>2, Facts
<1>5. TypeOK'
  BY <1>1, <1>2, Facts DEF TypeOK, Labels
<1>6. ready_write
  BY DEF IInv, ReadyWriteMeant
<1>7. ReadyWriteMeant' /\ NoReaderStranded' /\ NoLostWakeup'
  BY <1>1, <1>4, <1>6 DEF ReadyWriteMeant, NoReaderStranded, NoLostWakeup
<1>8. WaitersLinked'
  BY <1>1, <1>2, <1>3, <1>4, Facts DEF WaitersLinked, list_find
<1>9. Readers' = Readers \ {t} /\ Writers' = Writers \ {t}
  BY <1>3, <1>4 DEF Readers, Writers
<1>10. QED
  BY <1>5, <1>7, <1>8, <1>9

\* A reader leaves.
LEMMA ReadReleaseKeeps ==
  ASSUME IInv, NEW t \in Thread, rwlock_read_release(t)
  PROVE  IInv'
<1>0. /\ TypeOK /\ CountHolds /\ ReadyWriteMeant
      /\ NoLostWakeup /\ NoReaderStranded /\ WaitersLinked
  BY DEF IInv
<1>1. pc[t] = "reading" /\ count' = count - 1 /\ UNCHANGED << ready_write, assertions >>
  BY DEF rwlock_read_release
<1>2. t \in Readers /\ count > 0 /\ Writers = {} /\ count = Cardinality(Readers) /\ count \in Int
  BY <1>0, <1>1, CountTells DEF Readers
<1>3. ASSUME Readers' = Readers \ {t}, Writers' = Writers \ {t} PROVE CountHolds'
  <2>1. Cardinality(Readers') = Cardinality(Readers) - 1
    BY <1>2, <1>3, ReadersChange
  <2>2. QED
    BY <1>1, <1>2, <1>3, <2>1 DEF CountHolds
<1> DEFINE pcs == [pc EXCEPT ![t] = "out"]
<1>4. CASE count = 1 /\ ~ list_empty(write_waiter_list)
  <2>1. wake_writer(pcs) /\ UNCHANGED read_waiter_list
    BY <1>4 DEF rwlock_read_release
  <2>2. count' \in Int
    BY <1>1, <1>2
  <2>3. /\ TypeOK' /\ ReadyWriteMeant' /\ NoLostWakeup' /\ NoReaderStranded' /\ WaitersLinked'
        /\ Readers' = Readers \ {t} /\ Writers' = Writers \ {t}
    BY <1>1, <1>4, <2>1, <2>2, WakeWriterKeeps
  <2>4. QED
    BY <1>3, <2>3 DEF IInv
<1>5. CASE count = 1 /\ list_empty(write_waiter_list) /\ ~ list_empty(read_waiter_list)
  <2>1. wake_reader(pcs) /\ UNCHANGED write_waiter_list
    BY <1>5 DEF rwlock_read_release
  <2> DEFINE r == list_first(read_waiter_list)
  <2>2. /\ r \in Thread /\ r \in Elems(read_waiter_list)
        /\ list_rest(read_waiter_list) \in Seq(Thread)
        /\ NoDuplicates(list_rest(read_waiter_list))
        /\ Elems(list_rest(read_waiter_list)) = Elems(read_waiter_list) \ {r}
    BY <1>5, Facts, PopWaiter
  <2>3. /\ read_waiter_list' = list_rest(read_waiter_list)
        /\ pc' = [pcs EXCEPT ![r] = "rretry"]
    BY <2>1 DEF wake_reader
  <2> HIDE DEF r
  <2>4. pc[r] = "rwait"
    BY <2>2, Facts
  <2>5. \A u \in Thread : pc'[u] = IF u = r THEN "rretry" ELSE IF u = t THEN "out" ELSE pc[u]
    BY <2>2, <2>3, Facts
  <2>6. TypeOK'
    BY <1>1, <1>2, <2>1, <2>2, <2>3, Facts DEF TypeOK, Labels
  <2>7. Readers' = Readers \ {t} /\ Writers' = Writers \ {t}
    BY <1>1, <2>4, <2>5 DEF Readers, Writers
  <2>8. ready_write
    BY <1>0, <1>2, <1>5 DEF NoReaderStranded
  <2>9. PICK w \in Thread : pc[w] = "wretry"
    <3>1. PICK v \in Thread : pc[v] \in {"wwait", "wretry", "writing"}
      BY <1>0, <2>8 DEF ReadyWriteMeant
    <3>2. pc[v] # "wwait"
      BY <1>5, Facts, EmptyElems
    <3>3. pc[v] # "writing"
      BY <1>2 DEF Writers
    <3>4. QED
      BY <3>1, <3>2, <3>3
  <2>10. pc'[w] = "wretry"
    BY <1>1, <2>4, <2>5, <2>9
  <2>11. ReadyWriteMeant' /\ NoLostWakeup' /\ NoReaderStranded'
    BY <1>0, <1>1, <2>1, <2>8, <2>10 DEF ReadyWriteMeant, NoLostWakeup, NoReaderStranded
  <2>12. WaitersLinked'
    BY <1>1, <2>1, <2>2, <2>3, <2>4, <2>5, Facts DEF WaitersLinked, list_find
  <2>13. QED
    BY <1>3, <2>6, <2>7, <2>11, <2>12 DEF IInv
<1>6. CASE count # 1 \/ (list_empty(write_waiter_list) /\ list_empty(read_waiter_list))
  <2>1. pc' = pcs /\ UNCHANGED << read_waiter_list, write_waiter_list >>
    BY <1>6 DEF rwlock_read_release
  <2>2. \A u \in Thread : pc'[u] = IF u = t THEN "out" ELSE pc[u]
    BY <2>1, Facts
  <2>3. TypeOK'
    BY <1>1, <1>2, <2>1, Facts DEF TypeOK, Labels
  <2>4. Readers' = Readers \ {t} /\ Writers' = Writers \ {t}
    BY <1>1, <2>2 DEF Readers, Writers
  <2>5. CountHolds'
    BY <1>3, <2>4
  <2>6. ReadyWriteMeant' /\ NoReaderStranded'
    BY <1>0, <1>1, <1>2, <2>1, <2>2 DEF ReadyWriteMeant, NoReaderStranded
  <2>7. WaitersLinked'
    BY <1>1, <2>1, <2>2, Facts DEF WaitersLinked, list_find
  <2>8. NoLostWakeup'
    <3>1. CASE count # 1
      <4>1. Readers' # {}
        BY <1>1, <1>2, <2>3, <2>5, <3>1, CountTells, ReadersFinite, <2>4, ReadersChange, FS_EmptySet
      <4>2. QED
        BY <4>1 DEF NoLostWakeup
    <3>2. CASE list_empty(write_waiter_list) /\ list_empty(read_waiter_list)
      BY <2>1, <3>2 DEF NoLostWakeup
    <3>3. QED
      BY <1>6, <3>1, <3>2
  <2>9. QED
    BY <2>3, <2>5, <2>6, <2>7, <2>8 DEF IInv
<1>7. QED
  BY <1>4, <1>5, <1>6

\* A writer leaves.
LEMMA WriteReleaseKeeps ==
  ASSUME IInv, NEW t \in Thread, rwlock_write_release(t)
  PROVE  IInv'
<1>0. /\ TypeOK /\ CountHolds
  BY DEF IInv
<1>1. pc[t] = "writing" /\ count' = count + 1 /\ UNCHANGED assertions
  BY DEF rwlock_write_release
<1>2. Writers = {t} /\ count = -1 /\ Readers = {}
  <2>1. t \in Writers
    BY <1>1 DEF Writers
  <2>2. QED
    BY <1>0, <2>1, CountTells DEF CountHolds
<1>3. ASSUME Readers' = Readers \ {t}, Writers' = Writers \ {t} PROVE CountHolds'
  <2>1. Readers' = {} /\ Writers' = {} /\ count' = 0
    BY <1>1, <1>2, <1>3
  <2>2. QED
    BY <2>1, FS_EmptySet DEF CountHolds
<1> DEFINE pcs == [pc EXCEPT ![t] = "out"]
<1>4. CASE ~ list_empty(write_waiter_list)
  <2>1. wake_writer(pcs) /\ UNCHANGED << ready_write, read_waiter_list >>
    BY <1>4 DEF rwlock_write_release
  <2>2. count' \in Int
    BY <1>1, <1>2
  <2>3. /\ TypeOK' /\ ReadyWriteMeant' /\ NoLostWakeup' /\ NoReaderStranded' /\ WaitersLinked'
        /\ Readers' = Readers \ {t} /\ Writers' = Writers \ {t}
    BY <1>1, <1>4, <2>1, <2>2, WakeWriterKeeps
  <2>4. QED
    BY <1>3, <2>3 DEF IInv
<1>5. CASE list_empty(write_waiter_list)
  <2>1. /\ ready_write' = FALSE
        /\ pc' = [u \in Thread |-> IF list_find(read_waiter_list, u) THEN "rretry" ELSE pcs[u]]
        /\ read_waiter_list' = list_init
        /\ UNCHANGED write_waiter_list
    BY <1>5 DEF rwlock_write_release
  <2>2. \A u \in Thread : pc'[u] = IF pc[u] = "rwait" THEN "rretry" ELSE IF u = t THEN "out" ELSE pc[u]
    BY <2>1, Facts DEF list_find
  <2>3. list_empty(read_waiter_list') /\ read_waiter_list' \in Seq(Thread)
        /\ Elems(read_waiter_list') = {} /\ NoDuplicates(read_waiter_list')
    BY <2>1, InitLinks DEF list_empty, list_init
  <2>4. pc' \in [Thread -> Labels]
    BY <2>1, Facts DEF Labels
  <2>a. count' \in Int
    BY <1>1, <1>2
  <2>b. assertions' \in {"on", "off", "failed"} /\ write_waiter_list' \in Seq(Thread)
    BY <1>1, <2>1, Facts
  <2>5. TypeOK'
    BY <2>1, <2>3, <2>4, <2>a, <2>b DEF TypeOK
  <2>6. Readers' = Readers \ {t} /\ Writers' = Writers \ {t}
    BY <1>1, <2>2 DEF Readers, Writers
  <2>7. ReadyWriteMeant' /\ NoReaderStranded' /\ NoLostWakeup'
    BY <1>5, <2>1, <2>3 DEF ReadyWriteMeant, NoReaderStranded, NoLostWakeup
  <2>8. WaitersLinked'
    BY <1>1, <2>1, <2>2, <2>3, Facts DEF WaitersLinked, list_find
  <2>9. QED
    BY <1>3, <2>5, <2>6, <2>7, <2>8 DEF IInv
<1>6. QED
  BY <1>4, <1>5

\* A failed assertion, or no step.
LEMMA NothingKeeps ==
  ASSUME IInv, UNCHANGED << count, ready_write, read_waiter_list, write_waiter_list, pc >>,
         assertions' \in {"on", "off", "failed"}
  PROVE  IInv' /\ Readers' = Readers /\ Writers' = Writers
BY DEF IInv, TypeOK, CountHolds, ReadyWriteMeant, NoLostWakeup, NoReaderStranded,
       WaitersLinked, Readers, Writers

LEMMA NextIInv == IInv /\ [Next]_vars => IInv'
<1> SUFFICES ASSUME IInv, [Next]_vars PROVE IInv'
  OBVIOUS
<1>1. ASSUME NEW t \in Thread, panic(t) PROVE IInv'
  BY <1>1, NothingKeeps DEF panic
<1>2. CASE UNCHANGED vars
  BY <1>2, NothingKeeps, Facts DEF vars
<1>3. QED
  BY <1>1, <1>2, ReadAcquireKeeps, ReadReleaseKeeps, WriteAcquireKeeps, WriteReleaseKeeps DEF Next

\* The invariant.
LEMMA Inductive == Spec => []IInv
BY InitIInv, NextIInv, PTL DEF Spec

\* count is the number of readers or, as -1, stands for the one writer.
THEOREM CountTellsHolders == Spec => []CountHolds
<1>1. IInv => CountHolds
  BY DEF IInv
<1>2. QED
  BY <1>1, Inductive, PTL

\* A queued thread always has someone to wake it: no release, whoever it wakes
\* and whoever takes the lock before the woken one runs, leaves a queue behind.
THEOREM WakeupsArrive == Spec => []NoLostWakeup
<1>1. IInv => NoLostWakeup
  BY DEF IInv
<1>2. QED
  BY <1>1, Inductive, PTL

\* ready_write is never left set without a writer to clear it.
THEOREM ReadyWriteTells == Spec => []ReadyWriteMeant
<1>1. IInv => ReadyWriteMeant
  BY DEF IInv
<1>2. QED
  BY <1>1, Inductive, PTL

\* Readers do not queue while readers only hold the lock and no writer waits.
THEOREM NobodyStranded == Spec => []NoReaderStranded
<1>1. IInv => NoReaderStranded
  BY DEF IInv
<1>2. QED
  BY <1>1, Inductive, PTL

-----------------------------------------------------------------------------
\* Every step takes the abstract lock, gives it back, or leaves it alone.
LEMMA StepSimulates == IInv /\ [Next]_vars => [Abstract!Next]_(Abstract!vars)
<1> SUFFICES ASSUME IInv, [Next]_vars PROVE [Abstract!Next]_(Abstract!vars)
  OBVIOUS
<1>0. TypeOK /\ CountHolds
  BY DEF IInv
<1>1. ASSUME Readers' = Readers, Writers' = Writers PROVE UNCHANGED Abstract!vars
  BY <1>1 DEF Abstract!vars
<1>2. ASSUME NEW t \in Thread, rwlock_read_acquire(t)
      PROVE  Abstract!Next \/ UNCHANGED Abstract!vars
  <2>1. pc[t] \in {"out", "rretry"}
    BY <1>2 DEF rwlock_read_acquire
  <2>2. CASE count < 0 \/ ready_write
    <3>1. pc' = [pc EXCEPT ![t] = "rwait"]
      BY <1>2, <2>2 DEF rwlock_read_acquire
    <3>2. Readers' = Readers /\ Writers' = Writers
      BY <2>1, <3>1, Facts DEF Readers, Writers
    <3>3. QED
      BY <1>1, <3>2
  <2>3. CASE ~ (count < 0 \/ ready_write)
    <3>1. pc' = [pc EXCEPT ![t] = "reading"]
      BY <1>2, <2>3 DEF rwlock_read_acquire
    <3>2. t \notin Readers /\ Readers' = Readers \cup {t} /\ Writers' = Writers
      BY <2>1, <3>1, Facts DEF Readers, Writers
    <3>3. Writers = {}
      BY <1>0, <2>3, CountTells
    <3>4. Abstract!Read(t)
      BY <3>2, <3>3 DEF Abstract!Read
    <3>5. QED
      BY <3>4 DEF Abstract!Next
  <2>4. QED
    BY <2>2, <2>3
<1>3. ASSUME NEW t \in Thread, rwlock_write_acquire(t)
      PROVE  Abstract!Next \/ UNCHANGED Abstract!vars
  <2>1. pc[t] \in {"out", "wretry"}
    BY <1>3 DEF rwlock_write_acquire
  <2>2. CASE count # 0
    <3>1. pc' = [pc EXCEPT ![t] = "wwait"]
      BY <1>3, <2>2 DEF rwlock_write_acquire
    <3>2. Readers' = Readers /\ Writers' = Writers
      BY <2>1, <3>1, Facts DEF Readers, Writers
    <3>3. QED
      BY <1>1, <3>2
  <2>3. CASE count = 0
    <3>1. pc' = [pc EXCEPT ![t] = "writing"]
      BY <1>3, <2>3 DEF rwlock_write_acquire
    <3>2. Readers = {} /\ Writers = {}
      BY <1>0, <2>3, CountTells
    <3>3. Readers' = {} /\ Writers' = {t}
      BY <2>1, <3>1, <3>2, Facts DEF Readers, Writers
    <3>4. Abstract!Write(t)
      BY <3>2, <3>3 DEF Abstract!Write
    <3>5. QED
      BY <3>4 DEF Abstract!Next
  <2>4. QED
    BY <2>2, <2>3
<1>4. ASSUME NEW t \in Thread, pc[t] \in {"reading", "writing"},
             \A u \in Thread : pc'[u] = IF u = t THEN "out"
                                        ELSE IF pc[u] \in {"rwait", "wwait"} THEN pc'[u]
                                        ELSE pc[u],
             \A u \in Thread : pc[u] \in {"rwait", "wwait"} => pc'[u] \notin {"reading", "writing"}
      PROVE  Abstract!Next
  <2>1. Readers' = Readers \ {t} /\ Writers' = Writers \ {t} /\ t \in Readers \cup Writers
    BY <1>4 DEF Readers, Writers
  <2>2. Abstract!Release(t)
    BY <2>1 DEF Abstract!Release
  <2>3. QED
    BY <2>2 DEF Abstract!Next
<1>w. ASSUME NEW t \in Thread, pc[t] \in {"reading", "writing"}, ~ list_empty(write_waiter_list),
             wake_writer([pc EXCEPT ![t] = "out"])
      PROVE  Abstract!Next
  <2> DEFINE w == list_first(write_waiter_list)
  <2>1. w \in Thread /\ pc[w] = "wwait"
    BY <1>w, Facts, PopWaiter
  <2>2. pc' = [[pc EXCEPT ![t] = "out"] EXCEPT ![w] = "wretry"]
    BY <1>w DEF wake_writer
  <2> HIDE DEF w
  <2>3. \A u \in Thread : pc'[u] = IF u = w THEN "wretry" ELSE IF u = t THEN "out" ELSE pc[u]
    BY <2>1, <2>2, Facts
  <2>4. QED
    BY <1>4, <1>w, <2>1, <2>3
<1>5. ASSUME NEW t \in Thread, rwlock_read_release(t) PROVE Abstract!Next
  <2>1. pc[t] = "reading"
    BY <1>5 DEF rwlock_read_release
  <2> DEFINE pcs == [pc EXCEPT ![t] = "out"]
  <2>2. \/ ~ list_empty(write_waiter_list) /\ wake_writer(pcs)
        \/ ~ list_empty(read_waiter_list) /\ wake_reader(pcs)
        \/ pc' = pcs
    BY <1>5 DEF rwlock_read_release
  <2>3. CASE ~ list_empty(write_waiter_list) /\ wake_writer(pcs)
    BY <1>w, <2>1, <2>3
  <2>4. CASE ~ list_empty(read_waiter_list) /\ wake_reader(pcs)
    <3> DEFINE r == list_first(read_waiter_list)
    <3>1. r \in Thread /\ pc[r] = "rwait"
      BY <2>4, Facts, PopWaiter
    <3>2. pc' = [pcs EXCEPT ![r] = "rretry"]
      BY <2>4 DEF wake_reader
    <3> HIDE DEF r
    <3>3. \A u \in Thread : pc'[u] = IF u = r THEN "rretry" ELSE IF u = t THEN "out" ELSE pc[u]
      BY <3>1, <3>2, Facts
    <3>4. QED
      BY <1>4, <2>1, <3>1, <3>3
  <2>5. CASE pc' = pcs
    <3>1. \A u \in Thread : pc'[u] = IF u = t THEN "out" ELSE pc[u]
      BY <2>5, Facts
    <3>2. QED
      BY <1>4, <2>1, <3>1
  <2>6. QED
    BY <2>2, <2>3, <2>4, <2>5
<1>6. ASSUME NEW t \in Thread, rwlock_write_release(t) PROVE Abstract!Next
  <2>1. pc[t] = "writing"
    BY <1>6 DEF rwlock_write_release
  <2> DEFINE pcs == [pc EXCEPT ![t] = "out"]
  <2>2. CASE ~ list_empty(write_waiter_list)
    BY <1>6, <1>w, <2>1, <2>2 DEF rwlock_write_release
  <2>3. CASE list_empty(write_waiter_list)
    <3>1. pc' = [u \in Thread |-> IF list_find(read_waiter_list, u) THEN "rretry" ELSE pcs[u]]
      BY <1>6, <2>3 DEF rwlock_write_release
    <3>2. \A u \in Thread : pc'[u] = IF pc[u] = "rwait" THEN "rretry" ELSE IF u = t THEN "out" ELSE pc[u]
      BY <3>1, Facts DEF list_find
    <3>3. QED
      BY <1>4, <2>1, <3>2
  <2>4. QED
    BY <2>2, <2>3
<1>7. ASSUME pc' = pc PROVE UNCHANGED Abstract!vars
  BY <1>1, <1>7 DEF Readers, Writers
<1>8. QED
  BY <1>2, <1>3, <1>5, <1>6, <1>7 DEF Next, panic, vars

\* The lock is a readers-writer lock: readers and a writer never hold it at the
\* same time, and no two writers do.
THEOREM Implements == Spec => ImplementsLock
<1>1. Init => Abstract!Init
  BY DEF Init, Abstract!Init, Readers, Writers
<1>2. QED
  BY <1>1, Inductive, StepSimulates, PTL DEF Spec, ImplementsLock, Abstract!Spec

\* rwlock_read_acquire lets a reader in only while no writer is queued, and no other
\* function makes a reader: a writer that waits is overtaken by nobody who only reads.
THEOREM WritersGoFirst == Spec => WritersFirst
<1>1. ASSUME IInv, Next, NEW t \in Readers' \ Readers
      PROVE  list_empty(write_waiter_list)
  <2>1. t \in Thread /\ pc'[t] = "reading" /\ pc[t] # "reading" /\ pc \in [Thread -> Labels]
    BY <1>1 DEF Readers, IInv, TypeOK
  <2>2. ASSUME NEW u \in Thread, rwlock_read_acquire(u)
        PROVE  list_empty(write_waiter_list)
    <3>1. ~ (count < 0 \/ ready_write)
      BY <2>1, <2>2 DEF rwlock_read_acquire
    <3>2. QED
      BY <1>1, <3>1 DEF IInv, ReadyWriteMeant
  <2>3. ASSUME NEW u \in Thread, rwlock_read_release(u)
        PROVE  FALSE
    BY <2>1, <2>3 DEF rwlock_read_release, wake_writer, wake_reader
  <2>4. ASSUME NEW u \in Thread, rwlock_write_acquire(u)
        PROVE  FALSE
    BY <2>1, <2>4 DEF rwlock_write_acquire
  <2>5. ASSUME NEW u \in Thread, rwlock_write_release(u)
        PROVE  FALSE
    BY <2>1, <2>5 DEF rwlock_write_release, wake_writer
  <2>6. ASSUME NEW u \in Thread, panic(u)
        PROVE  FALSE
    BY <2>1, <2>6 DEF panic
  <2>7. QED
    BY <1>1, <2>2, <2>3, <2>4, <2>5, <2>6 DEF Next
<1>2. ASSUME UNCHANGED vars
      PROVE  Readers' \ Readers = {}
  BY <1>2 DEF vars, Readers
<1>3. IInv /\ [Next]_vars => [\A t \in Readers' \ Readers : list_empty(write_waiter_list)]_vars
  BY <1>1, <1>2
<1>4. QED
  BY <1>3, Inductive, PTL DEF Spec, WritersFirst

=============================================================================
