-------------------------- MODULE CopyOnWrite_proofs --------------------------
(***************************************************************************)
(* The reference counts of user frames are exact, and a frame that somebody*)
(* may write to is nobody else's, for any processes, pages and frames.     *)
(*                                                                         *)
(* The two need each other: a fault gives out a frame whose count is 0, and*)
(* makes one writable whose count is 1, and only exact counts tell that    *)
(* nobody else has it.  Besides, a frame in hand is in no page table.      *)
(***************************************************************************)
EXTENDS CopyOnWrite, FiniteSetTheorems, TLAPS

\* The entries that map f, and the processes that hold it.
Entries(f) == { mp \in Proc \X Page : Mapped(mp[1], mp[2]) /\ pte[mp[1]][mp[2]].frame = f }
Hands(f) == { m \in Proc : in_hand[m] = f }

Unmapped(f) == \A n \in Proc, q \in Page : Mapped(n, q) => pte[n][q].frame # f
Unheld(f) == \A n \in Proc : in_hand[n] # f

Typed ==
  /\ state \in [Proc -> {"none", "run", "fault", "exec", "dead"}]
  /\ pte \in [Proc -> [Page -> Pte \cup {NULL}]]
  /\ in_hand \in [Proc -> Frame \cup {NULL}]
  /\ DOMAIN reading = Proc /\ DOMAIN count = Frame

\* What a process has, wherever it is.
Carries(m) ==
  /\ in_hand[m] \in Frame /\ Unmapped(in_hand[m])
  /\ \A n \in Proc : in_hand[n] = in_hand[m] => n = m
Places ==
  \A m \in Proc :
    /\ IF state[m] \in {"fault", "exec"} THEN Carries(m) ELSE in_hand[m] = NULL
    /\ state[m] = "fault" => reading[m] \in Page /\ ~ Mapped(m, reading[m])
    /\ state[m] = "none" => pte[m] = NoPages

IInv == Typed /\ Places /\ CountIsOwners /\ WritableIsPrivate

-----------------------------------------------------------------------------
LEMMA NewPte ==
  ASSUME NEW f \in Frame, NEW w \in BOOLEAN
  PROVE  [frame |-> f, rw |-> w] \in Pte /\ [frame |-> f, rw |-> w] # NULL
<1>1. [frame |-> f, rw |-> w] \in Pte
  BY DEF Pte
<1>2. QED
  BY <1>1, PteAssumption

LEMMA EntriesFinite ==
  ASSUME NEW f
  PROVE  /\ IsFiniteSet(Entries(f)) /\ Cardinality(Entries(f)) \in Nat
         /\ IsFiniteSet(Hands(f)) /\ Cardinality(Hands(f)) \in Nat
<1>1. IsFiniteSet(Proc) /\ IsFiniteSet(Page)
  BY CopyOnWriteAssumption
<1>2. IsFiniteSet(Proc \X Page)
  BY <1>1, FS_Product
<1>3. IsFiniteSet(Entries(f))
  BY <1>2, FS_Subset DEF Entries
<1>4. IsFiniteSet(Hands(f))
  BY <1>1, FS_Subset DEF Hands
<1>5. QED
  BY <1>3, <1>4, FS_CardinalityType

\* CountIsOwners in these terms.
LEMMA Counts ==
  CountIsOwners <=> \A f \in Frame : count[f] = Cardinality(Entries(f)) + Cardinality(Hands(f))
<1>1. \A f : References(f, Proc) = Cardinality(Entries(f))
  BY DEF References, Entries
<1>2. \A f : Cardinality({ m \in Proc : in_hand[m] = f }) = Cardinality(Hands(f))
  BY DEF Hands
<1>3. QED
  BY <1>1, <1>2 DEF CountIsOwners

LEMMA CountsAfter ==
  CountIsOwners' <=> \A f \in Frame : count'[f] = Cardinality(Entries(f)') + Cardinality(Hands(f)')
<1>1. \A f : References(f, Proc)' = Cardinality(Entries(f)')
  BY DEF References, Entries
<1>2. \A f : Cardinality({ m \in Proc : in_hand[m] = f })' = Cardinality(Hands(f)')
  BY DEF Hands
<1>3. QED
  BY <1>1, <1>2 DEF CountIsOwners

\* A frame that counts 0 is nobody's.
LEMMA FreeIsUnused ==
  ASSUME CountIsOwners, NEW f \in Frame, count[f] = 0
  PROVE  Entries(f) = {} /\ Hands(f) = {} /\ Unmapped(f) /\ Unheld(f)
<1>1. Cardinality(Entries(f)) + Cardinality(Hands(f)) = 0
  BY Counts
<1>2. Cardinality(Entries(f)) = 0 /\ Cardinality(Hands(f)) = 0
  BY <1>1, EntriesFinite
<1>3. Entries(f) = {} /\ Hands(f) = {}
  BY <1>2, EntriesFinite, FS_EmptySet
<1>4. Unheld(f)
  BY <1>3 DEF Hands, Unheld
<1>5. Unmapped(f)
  <2> SUFFICES ASSUME NEW n \in Proc, NEW q \in Page, Mapped(n, q), pte[n][q].frame = f
               PROVE  FALSE
    BY DEF Unmapped
  <2>1. << n, q >> \in Entries(f)
    BY DEF Entries
  <2>2. QED
    BY <1>3, <2>1
<1>6. QED
  BY <1>3, <1>4, <1>5

\* A mapped frame that counts 1 has no other owner.
LEMMA LastOwner ==
  ASSUME CountIsOwners, NEW m \in Proc, NEW p \in Page, Mapped(m, p), NEW f \in Frame,
         f = pte[m][p].frame, count[f] <= 1
  PROVE  /\ Unheld(f)
         /\ \A n \in Proc, q \in Page : Mapped(n, q) /\ pte[n][q].frame = f => << n, q >> = << m, p >>
<1>1. << m, p >> \in Entries(f)
  BY DEF Entries
<1>2. Cardinality(Entries(f)) + Cardinality(Hands(f)) <= 1
  BY Counts
<1>3. Cardinality(Entries(f)) # 0
  BY <1>1, EntriesFinite, FS_EmptySet
<1>4. Cardinality(Entries(f)) = 1 /\ Cardinality(Hands(f)) = 0
  BY <1>2, <1>3, EntriesFinite
<1>5. Hands(f) = {}
  BY <1>4, EntriesFinite, FS_EmptySet
<1>6. PICK x : Entries(f) = {x}
  BY <1>4, EntriesFinite, FS_Singleton
<1>7. ASSUME NEW n \in Proc, NEW q \in Page, Mapped(n, q), pte[n][q].frame = f
      PROVE  << n, q >> = << m, p >>
  <2>1. << n, q >> \in Entries(f)
    BY <1>7 DEF Entries
  <2>2. QED
    BY <1>1, <1>6, <2>1
<1>8. QED
  BY <1>5, <1>7 DEF Hands, Unheld

\* The counts stay exact if the sets of owners stay as they are.
LEMMA SameOwners ==
  ASSUME CountIsOwners, UNCHANGED count,
         \A f \in Frame : Entries(f)' = Entries(f) /\ Hands(f)' = Hands(f)
  PROVE  CountIsOwners'
<1>1. \A f \in Frame : count'[f] = Cardinality(Entries(f)') + Cardinality(Hands(f)')
  BY Counts
<1>2. QED
  BY <1>1, CountsAfter

-----------------------------------------------------------------------------
LEMMA InitIInv == Init => IInv
<1> SUFFICES ASSUME Init PROVE IInv
  OBVIOUS
<1>1. PICK m \in Proc, f \in Frame :
        /\ state = [n \in Proc |-> IF n = m THEN "run" ELSE "none"]
        /\ pte = [n \in Proc |-> IF n = m THEN [NoPages EXCEPT ![Stack] = [frame |-> f, rw |-> TRUE]]
                                          ELSE NoPages]
        /\ reading = [n \in Proc |-> NULL] /\ in_hand = [n \in Proc |-> NULL]
        /\ count = [g \in Frame |-> IF g = f THEN 1 ELSE 0]
  BY DEF Init
<1>2. Stack \in Page /\ NULL \notin Frame /\ [frame |-> f, rw |-> TRUE] \in Pte
  BY CopyOnWriteAssumption DEF Pte
<1>3. \A n \in Proc, q \in Page :
        pte[n][q] = IF n = m /\ q = Stack THEN [frame |-> f, rw |-> TRUE] ELSE NULL
  BY <1>1, <1>2 DEF NoPages
<1>4. Typed
  <2>1. pte \in [Proc -> [Page -> Pte \cup {NULL}]]
    BY <1>1, <1>2 DEF NoPages
  <2>2. QED
    BY <1>1, <2>1 DEF Typed
<1>5. Places
  BY <1>1 DEF Places
<1>6. \A n \in Proc, q \in Page : Mapped(n, q) <=> n = m /\ q = Stack
  BY <1>2, <1>3, PteAssumption DEF Mapped
<1>7. WritableIsPrivate
  BY <1>1, <1>2, <1>3, <1>6 DEF WritableIsPrivate, Writable
<1>8. CountIsOwners
  <2> SUFFICES ASSUME NEW g \in Frame
               PROVE  count[g] = Cardinality(Entries(g)) + Cardinality(Hands(g))
    BY Counts
  <2>1. Hands(g) = {}
    BY <1>1, <1>2 DEF Hands
  <2>2. Entries(g) = IF g = f THEN {<< m, Stack >>} ELSE {}
    BY <1>2, <1>3, <1>6 DEF Entries
  <2>3. Cardinality({}) = 0 /\ Cardinality({<< m, Stack >>}) = 1
    BY FS_EmptySet, FS_Singleton
  <2>4. CASE g = f
    BY <1>1, <2>1, <2>2, <2>3, <2>4
  <2>5. CASE g # f
    BY <1>1, <2>1, <2>2, <2>3, <2>5
  <2>6. QED
    BY <2>4, <2>5
<1>9. QED
  BY <1>4, <1>5, <1>7, <1>8 DEF IInv

-----------------------------------------------------------------------------
\* A step that leaves the entries and what is in hand alone.
LEMMA NothingMapped ==
  ASSUME IInv, UNCHANGED << pte, in_hand, count >>, Typed', Places'
  PROVE  IInv'
<1>1. \A f \in Frame : Entries(f)' = Entries(f) /\ Hands(f)' = Hands(f)
  BY DEF Entries, Hands, Mapped
<1>2. CountIsOwners'
  BY <1>1, SameOwners DEF IInv
<1>3. WritableIsPrivate'
  BY DEF IInv, WritableIsPrivate, Writable, Mapped
<1>4. QED
  BY <1>2, <1>3 DEF IInv

\* A frame that nobody maps is mapped writable, and in nobody's hand any more.
LEMMA MapsPrivate ==
  ASSUME Typed, WritableIsPrivate, NEW m \in Proc, NEW p \in Page, NEW f \in Frame, Unmapped(f),
         pte' = [pte EXCEPT ![m][p] = [frame |-> f, rw |-> TRUE]],
         \A n \in Proc : in_hand'[n] \in {in_hand[n], NULL} \ {f}
  PROVE  WritableIsPrivate'
<1>1. [frame |-> f, rw |-> TRUE] # NULL
  BY NewPte
<1>2. \A n \in Proc, q \in Page :
        pte'[n][q] = IF n = m /\ q = p THEN [frame |-> f, rw |-> TRUE] ELSE pte[n][q]
  BY DEF Typed
<1> SUFFICES ASSUME NEW k \in Proc, NEW r \in Page, Writable(k, r)'
             PROVE  /\ \A n \in Proc, q \in Page :
                         Mapped(n, q)' /\ pte'[n][q].frame = pte'[k][r].frame => << n, q >> = << k, r >>
                    /\ \A n \in Proc : in_hand'[n] # pte'[k][r].frame
  BY DEF WritableIsPrivate
<1>3. CASE k = m /\ r = p
  BY <1>1, <1>2, <1>3 DEF Unmapped, Mapped
<1>4. CASE ~ (k = m /\ r = p)
  <2>1. pte'[k][r] = pte[k][r] /\ Writable(k, r) /\ pte[k][r].frame # f
    BY <1>2, <1>4 DEF Writable, Mapped, Unmapped
  <2>2. pte[k][r].frame \in Frame
    BY <2>1 DEF Typed, Writable, Mapped, Pte
  <2>3. \A n \in Proc : in_hand'[n] # pte[k][r].frame
    BY <2>1, <2>2, CopyOnWriteAssumption DEF WritableIsPrivate
  <2>4. ASSUME NEW n \in Proc, NEW q \in Page, Mapped(n, q)', pte'[n][q].frame = pte'[k][r].frame
        PROVE  << n, q >> = << k, r >>
    <3>1. ~ (n = m /\ q = p)
      BY <1>2, <2>1, <2>4
    <3>2. Mapped(n, q) /\ pte[n][q].frame = pte[k][r].frame
      BY <1>2, <2>1, <2>4, <3>1 DEF Mapped
    <3>3. QED
      BY <2>1, <3>2 DEF WritableIsPrivate
  <2>5. QED
    BY <2>1, <2>3, <2>4
<1>5. QED
  BY <1>3, <1>4

\* The entries after a page has been mapped to a frame that nobody maps: one of its own,
\* and the page's no more of the frame it may have had.
LEMMA MapsEntries ==
  ASSUME Typed, NEW m \in Proc, NEW p \in Page, NEW f \in Frame, Unmapped(f),
         pte' = [pte EXCEPT ![m][p] = [frame |-> f, rw |-> TRUE]]
  PROVE  /\ Cardinality(Entries(f)') = 1 /\ Entries(f) = {}
         /\ \A g \in Frame \ {f} :
              Cardinality(Entries(g)') =
                IF Mapped(m, p) /\ pte[m][p].frame = g THEN Cardinality(Entries(g)) - 1
                ELSE Cardinality(Entries(g))
<1>1. [frame |-> f, rw |-> TRUE] # NULL
  BY NewPte
<1>2. \A n \in Proc, q \in Page :
        pte'[n][q] = IF n = m /\ q = p THEN [frame |-> f, rw |-> TRUE] ELSE pte[n][q]
  BY DEF Typed
<1>3. Entries(f)' = {<< m, p >>} /\ Entries(f) = {}
  BY <1>1, <1>2 DEF Entries, Mapped, Unmapped
<1>4. ASSUME NEW g \in Frame \ {f}
      PROVE  Entries(g)' = Entries(g) \ {<< m, p >>}
  BY <1>1, <1>2 DEF Entries, Mapped
<1>5. ASSUME NEW g \in Frame \ {f}
      PROVE  << m, p >> \in Entries(g) <=> Mapped(m, p) /\ pte[m][p].frame = g
  BY DEF Entries
<1>6. Cardinality(Entries(f)') = 1
  BY <1>3, FS_Singleton
<1>7. ASSUME NEW g \in Frame \ {f}
      PROVE  Cardinality(Entries(g)') =
                IF Mapped(m, p) /\ pte[m][p].frame = g THEN Cardinality(Entries(g)) - 1
                ELSE Cardinality(Entries(g))
  BY <1>4, <1>5, EntriesFinite, FS_RemoveElement
<1>8. QED
  BY <1>3, <1>6, <1>7

\* A process at work maps a frame of its own: the others are where they were.
LEMMA MapsPlaces ==
  ASSUME IInv, NEW m \in Proc, NEW p \in Page, NEW f \in Frame, Unheld(f), state[m] = "run",
         pte' = [pte EXCEPT ![m][p] = [frame |-> f, rw |-> TRUE]],
         UNCHANGED << state, reading, in_hand >>, DOMAIN count' = Frame
  PROVE  Typed' /\ Places'
<1>1. \A n \in Proc, q \in Page :
        pte'[n][q] = IF n = m /\ q = p THEN [frame |-> f, rw |-> TRUE] ELSE pte[n][q]
  BY DEF IInv, Typed
<1>2. Typed'
  <2>1. pte' \in [Proc -> [Page -> Pte \cup {NULL}]]
    BY NewPte DEF IInv, Typed
  <2>2. QED
    BY <2>1 DEF IInv, Typed
<1>3. Places'
  <2> SUFFICES ASSUME NEW n \in Proc
               PROVE  /\ IF state'[n] \in {"fault", "exec"} THEN Carries(n)' ELSE in_hand'[n] = NULL
                      /\ state'[n] = "fault" => reading'[n] \in Page /\ ~ Mapped(n, reading[n])'
                      /\ state'[n] = "none" => pte'[n] = NoPages
    BY DEF Places
  <2>1. state'[n] # "run" => n # m /\ pte'[n] = pte[n]
    BY DEF IInv, Typed
  <2>2. ASSUME Carries(n) PROVE Carries(n)'
    BY <1>1, <2>2 DEF Carries, Unmapped, Unheld, Mapped
  <2>3. QED
    BY <2>1, <2>2 DEF IInv, Places, Mapped
<1>4. QED
  BY <1>2, <1>3

\* page_not_present() of the stack.
LEMMA StackFaultKeeps ==
  ASSUME IInv, NEW m \in Proc, NEW p \in Page, page_not_present(m, p)
  PROVE  IInv'
<1>1. PICK f \in Free :
        /\ pte' = [pte EXCEPT ![m][p] = [frame |-> f, rw |-> TRUE]]
        /\ count' = [count EXCEPT ![f] = 1]
        /\ state[m] = "run" /\ ~ Mapped(m, p) /\ UNCHANGED << state, reading, in_hand >>
  BY DEF page_not_present
<1>2. f \in Frame /\ count[f] = 0 /\ Typed /\ CountIsOwners /\ WritableIsPrivate
  BY DEF Free, IInv
<1>3. Entries(f) = {} /\ Hands(f) = {} /\ Unmapped(f) /\ Unheld(f)
  BY <1>2, FreeIsUnused
<1>4. Typed' /\ Places'
  BY <1>1, <1>2, <1>3, MapsPlaces DEF Typed
<1>5. WritableIsPrivate'
  <2>1. \A n \in Proc : in_hand'[n] \in {in_hand[n], NULL} \ {f}
    BY <1>1, <1>3 DEF Unheld
  <2>2. QED
    BY <1>1, <1>2, <1>3, <2>1, MapsPrivate
<1>6. CountIsOwners'
  <2>1. \A g : Hands(g)' = Hands(g)
    BY <1>1 DEF Hands
  <2>2. /\ Cardinality(Entries(f)') = 1
        /\ \A g \in Frame \ {f} : Cardinality(Entries(g)') = Cardinality(Entries(g))
    BY <1>1, <1>2, <1>3, MapsEntries
  <2>3. count'[f] = Cardinality(Entries(f)') + Cardinality(Hands(f)')
    <3>1. count'[f] = 1
      BY <1>1, <1>2 DEF Typed
    <3>2. QED
      BY <1>3, <2>1, <2>2, <3>1, FS_EmptySet
  <2>4. ASSUME NEW g \in Frame \ {f}
        PROVE  count'[g] = Cardinality(Entries(g)') + Cardinality(Hands(g)')
    BY <1>1, <1>2, <2>1, <2>2, Counts DEF Typed
  <2>5. QED
    BY <2>3, <2>4, CountsAfter
<1>7. QED
  BY <1>4, <1>5, <1>6 DEF IInv

\* page_protect_fault(): a copy for one of several owners, the frame itself for the last.
LEMMA ProtectFaultKeeps ==
  ASSUME IInv, NEW m \in Proc, NEW p \in Page, page_protect_fault(m, p)
  PROVE  IInv'
<1> DEFINE old == pte[m][p].frame
<1>1. state[m] = "run" /\ Mapped(m, p) /\ UNCHANGED << state, reading, in_hand >>
  BY DEF page_protect_fault
<1>2. Typed /\ Places /\ CountIsOwners /\ WritableIsPrivate
  BY DEF IInv
<1>3. pte[m][p] \in Pte /\ old \in Frame /\ count[old] \in Nat
  <2>1. pte[m][p] \in Pte /\ old \in Frame
    BY <1>1, <1>2 DEF Typed, Mapped, Pte
  <2>2. QED
    BY <1>2, <2>1, Counts, EntriesFinite
<1>4. CASE count[old] > 1
  <2>1. PICK f \in Free :
          /\ pte' = [pte EXCEPT ![m][p] = [frame |-> f, rw |-> TRUE]]
          /\ count' = [count EXCEPT ![old] = @ - 1, ![f] = 1]
    BY <1>4 DEF page_protect_fault
  <2>2. f \in Frame /\ count[f] = 0 /\ f # old
    BY <1>3, <1>4 DEF Free
  <2>3. Entries(f) = {} /\ Hands(f) = {} /\ Unmapped(f) /\ Unheld(f)
    BY <1>2, <2>2, FreeIsUnused
  <2>4. Typed' /\ Places'
    BY <1>1, <1>2, <2>1, <2>2, <2>3, MapsPlaces DEF Typed
  <2>5. WritableIsPrivate'
    <3>1. \A n \in Proc : in_hand'[n] \in {in_hand[n], NULL} \ {f}
      BY <1>1, <2>3 DEF Unheld
    <3>2. QED
      BY <1>2, <2>1, <2>2, <2>3, <3>1, MapsPrivate
  <2>6. CountIsOwners'
    <3>1. \A g : Hands(g)' = Hands(g)
      BY <1>1 DEF Hands
    <3>2. /\ Cardinality(Entries(f)') = 1
          /\ \A g \in Frame \ {f} :
               Cardinality(Entries(g)') = IF g = old THEN Cardinality(Entries(g)) - 1
                                          ELSE Cardinality(Entries(g))
      BY <1>1, <1>2, <2>1, <2>2, <2>3, MapsEntries
    <3>3. count'[f] = 1 /\ count'[old] = count[old] - 1
          /\ \A g \in Frame \ {f, old} : count'[g] = count[g]
      BY <1>2, <1>3, <2>1, <2>2 DEF Typed
    <3>4. count'[f] = Cardinality(Entries(f)') + Cardinality(Hands(f)')
      BY <2>3, <3>1, <3>2, <3>3, FS_EmptySet
    <3>5. ASSUME NEW g \in Frame \ {f}
          PROVE  count'[g] = Cardinality(Entries(g)') + Cardinality(Hands(g)')
      <4>1. /\ count[g] = Cardinality(Entries(g)) + Cardinality(Hands(g))
            /\ Cardinality(Entries(g)) \in Nat /\ Cardinality(Hands(g)) \in Nat
        BY <1>2, Counts, EntriesFinite
      <4>2. QED
        BY <3>1, <3>2, <3>3, <4>1
    <3>6. QED
      BY <3>4, <3>5, CountsAfter
  <2>7. QED
    BY <2>4, <2>5, <2>6 DEF IInv
<1>5. CASE ~ (count[old] > 1)
  <2>1. pte' = [pte EXCEPT ![m][p].rw = TRUE] /\ UNCHANGED count
    BY <1>5 DEF page_protect_fault
  <2>2. /\ Unheld(old)
        /\ \A n \in Proc, q \in Page : Mapped(n, q) /\ pte[n][q].frame = old => << n, q >> = << m, p >>
    BY <1>1, <1>2, <1>3, <1>5, LastOwner
  <2>3. /\ \A n \in Proc, q \in Page : ~ (n = m /\ q = p) => pte'[n][q] = pte[n][q]
        /\ pte'[m][p].frame = old /\ pte'[m][p].rw = TRUE /\ pte'[m][p] \in Pte
    BY <1>2, <1>3, <2>1 DEF Typed, Pte
  <2>4. \A n \in Proc, q \in Page : Mapped(n, q)' <=> Mapped(n, q)
    BY <1>1, <2>3, PteAssumption DEF Mapped
  <2>5. \A n \in Proc, q \in Page : Mapped(n, q) => pte'[n][q].frame = pte[n][q].frame
    BY <2>3
  <2>6. Typed'
    <3>1. pte' \in [Proc -> [Page -> Pte \cup {NULL}]]
      BY <1>2, <2>1, <2>3 DEF Typed
    <3>2. QED
      BY <1>1, <1>2, <2>1, <3>1 DEF Typed
  <2>7. Places'
    <3> SUFFICES ASSUME NEW n \in Proc
                 PROVE  /\ IF state'[n] \in {"fault", "exec"} THEN Carries(n)' ELSE in_hand'[n] = NULL
                        /\ state'[n] = "fault" => reading'[n] \in Page /\ ~ Mapped(n, reading[n])'
                        /\ state'[n] = "none" => pte'[n] = NoPages
      BY DEF Places
    <3>1. state'[n] = "none" => pte'[n] = pte[n]
      BY <1>1, <1>2, <2>1 DEF Typed
    <3>2. ASSUME Carries(n) PROVE Carries(n)'
      BY <1>1, <2>4, <2>5, <3>2 DEF Carries, Unmapped
    <3>3. ASSUME state'[n] = "fault" PROVE reading'[n] \in Page /\ ~ Mapped(n, reading[n])'
      BY <1>1, <1>2, <2>4, <3>3 DEF Places
    <3>4. QED
      BY <1>1, <1>2, <3>1, <3>2, <3>3 DEF Places
  <2>8. CountIsOwners'
    <3>1. \A f \in Frame : Entries(f)' = Entries(f) /\ Hands(f)' = Hands(f)
      BY <1>1, <2>4, <2>5 DEF Entries, Hands
    <3>2. QED
      BY <1>2, <2>1, <3>1, SameOwners
  <2>9. WritableIsPrivate'
    <3> SUFFICES ASSUME NEW k \in Proc, NEW r \in Page, Writable(k, r)'
                 PROVE  /\ \A n \in Proc, q \in Page :
                             Mapped(n, q)' /\ pte'[n][q].frame = pte'[k][r].frame => << n, q >> = << k, r >>
                        /\ \A n \in Proc : in_hand'[n] # pte'[k][r].frame
      BY DEF WritableIsPrivate
    <3>1. Mapped(k, r) /\ pte'[k][r].frame = pte[k][r].frame
      BY <2>4, <2>5 DEF Writable
    <3>2. CASE k = m /\ r = p
      BY <1>1, <2>2, <2>4, <2>5, <3>1, <3>2 DEF Unheld
    <3>3. CASE ~ (k = m /\ r = p)
      <4>1. Writable(k, r)
        BY <2>3, <3>1, <3>3 DEF Writable
      <4>2. QED
        BY <1>1, <1>2, <2>4, <2>5, <3>1, <4>1 DEF WritableIsPrivate
    <3>4. QED
      BY <3>2, <3>3
  <2>10. QED
    BY <2>6, <2>7, <2>8, <2>9 DEF IInv
<1>6. QED
  BY <1>4, <1>5

\* A process takes a frame in hand, to read the disk.
LEMMA TakesInHand ==
  ASSUME IInv, NEW m \in Proc, NEW f \in Free, NEW s \in {"fault", "exec"},
         state' = [state EXCEPT ![m] = s], in_hand' = [in_hand EXCEPT ![m] = f],
         count' = [count EXCEPT ![f] = 1], UNCHANGED pte,
         DOMAIN reading' = Proc, \A n \in Proc \ {m} : reading'[n] = reading[n],
         s = "fault" => reading'[m] \in Page /\ ~ Mapped(m, reading'[m]),
         in_hand[m] = NULL
  PROVE  IInv'
<1>1. f \in Frame /\ count[f] = 0 /\ Typed /\ Places /\ CountIsOwners /\ WritableIsPrivate
  BY DEF Free, IInv
<1>2. Entries(f) = {} /\ Hands(f) = {} /\ Unmapped(f) /\ Unheld(f)
  BY <1>1, FreeIsUnused
<1>3. \A n \in Proc : in_hand'[n] = IF n = m THEN f ELSE in_hand[n]
  BY <1>1 DEF Typed
<1>4. Typed'
  BY <1>1 DEF Typed
<1>5. Places'
  <2> SUFFICES ASSUME NEW n \in Proc
               PROVE  /\ IF state'[n] \in {"fault", "exec"} THEN Carries(n)' ELSE in_hand'[n] = NULL
                      /\ state'[n] = "fault" => reading'[n] \in Page /\ ~ Mapped(n, reading[n])'
                      /\ state'[n] = "none" => pte'[n] = NoPages
    BY DEF Places
  <2>1. CASE n = m
    <3>1. state'[n] = s
      BY <1>1, <2>1 DEF Typed
    <3>2. Carries(n)'
      BY <1>1, <1>2, <1>3, <2>1 DEF Carries, Unmapped, Unheld, Mapped
    <3>3. QED
      BY <2>1, <3>1, <3>2 DEF Mapped
  <2>2. CASE n # m
    <3>1. state'[n] = state[n] /\ in_hand'[n] = in_hand[n] /\ reading'[n] = reading[n]
      BY <1>1, <1>3, <2>2 DEF Typed
    <3>2. ASSUME Carries(n) PROVE Carries(n)'
      BY <1>2, <1>3, <2>2, <3>2 DEF Carries, Unmapped, Unheld, Mapped
    <3>3. QED
      BY <1>1, <3>1, <3>2 DEF Places, Mapped
  <2>3. QED
    BY <2>1, <2>2
<1>6. CountIsOwners'
  <2>1. \A g : Entries(g)' = Entries(g)
    BY DEF Entries, Mapped
  <2>2. Hands(f)' = {m} /\ count'[f] = 1
    BY <1>1, <1>2, <1>3 DEF Hands, Typed
  <2>3. count'[f] = Cardinality(Entries(f)') + Cardinality(Hands(f)')
    <3>1. Cardinality({}) = 0 /\ Cardinality({m}) = 1
      BY FS_EmptySet, FS_Singleton
    <3>2. QED
      BY <1>2, <2>1, <2>2, <3>1
  <2>4. ASSUME NEW g \in Frame \ {f}
        PROVE  count'[g] = Cardinality(Entries(g)') + Cardinality(Hands(g)')
    <3>1. Hands(g)' = Hands(g)
      BY <1>3, CopyOnWriteAssumption DEF Hands
    <3>2. count'[g] = count[g]
      BY <1>1 DEF Typed
    <3>3. QED
      BY <1>1, <2>1, <3>1, <3>2, Counts
  <2>5. QED
    BY <2>3, <2>4, CountsAfter
<1>7. WritableIsPrivate'
  BY <1>1, <1>2, <1>3 DEF WritableIsPrivate, Writable, Mapped, Unmapped
<1>8. QED
  BY <1>4, <1>5, <1>6, <1>7 DEF IInv

LEMMA FileReadKeeps ==
  ASSUME IInv, NEW m \in Proc, NEW p \in Page, file_read(m, p)
  PROVE  IInv'
<1>1. PICK f \in Free : in_hand' = [in_hand EXCEPT ![m] = f] /\ count' = [count EXCEPT ![f] = 1]
  BY DEF file_read
<1>2. /\ state[m] = "run" /\ state' = [state EXCEPT ![m] = "fault"]
      /\ reading' = [reading EXCEPT ![m] = p] /\ ~ Mapped(m, p) /\ UNCHANGED pte
  BY DEF file_read, Goto
<1>3. in_hand[m] = NULL /\ DOMAIN reading = Proc
  BY <1>2 DEF IInv, Places, Typed
<1>4. DOMAIN reading' = Proc /\ reading'[m] = p /\ \A n \in Proc \ {m} : reading'[n] = reading[n]
  BY <1>2, <1>3
<1>5. QED
  BY <1>1, <1>2, <1>3, <1>4, TakesInHand

LEMMA DoExecKeeps ==
  ASSUME IInv, NEW m \in Proc, do_exec(m)
  PROVE  IInv'
<1>1. PICK f \in Free : in_hand' = [in_hand EXCEPT ![m] = f] /\ count' = [count EXCEPT ![f] = 1]
  BY DEF do_exec
<1>2. state[m] = "run" /\ state' = [state EXCEPT ![m] = "exec"] /\ UNCHANGED << pte, reading >>
  BY DEF do_exec, Goto
<1>3. in_hand[m] = NULL /\ DOMAIN reading = Proc
  BY <1>2 DEF IInv, Places, Typed
<1>4. QED
  BY <1>1, <1>2, <1>3, TakesInHand

\* What a process that has finished with the disk leaves to the others.
LEMMA LetsGo ==
  ASSUME Typed, Places, NEW m \in Proc, Carries(m), NEW h \in Frame, h = in_hand[m],
         in_hand' = [in_hand EXCEPT ![m] = NULL]
  PROVE  /\ \A n \in Proc : in_hand'[n] = IF n = m THEN NULL ELSE in_hand[n]
         /\ \A n \in Proc : in_hand'[n] \in {in_hand[n], NULL} \ {h}
         /\ Hands(h) = {m} /\ Hands(h)' = {}
         /\ \A g \in Frame \ {h} : Hands(g)' = Hands(g)
<1>1. \A n \in Proc : in_hand[n] = h => n = m
  BY DEF Carries
<1>2. \A n \in Proc : in_hand'[n] = IF n = m THEN NULL ELSE in_hand[n]
  BY DEF Typed
<1>3. \A n \in Proc : in_hand'[n] \in {in_hand[n], NULL} \ {h}
  BY <1>1, <1>2, CopyOnWriteAssumption
<1>4. Hands(h) = {m} /\ \A g \in Frame \ {h} : Hands(g)' = Hands(g)
  BY <1>1, <1>2, CopyOnWriteAssumption DEF Hands
<1>5. Hands(h)' = {}
  BY <1>3 DEF Hands
<1>6. QED
  BY <1>2, <1>3, <1>4, <1>5

\* page_not_present() of the file, once the page has been read.
LEMMA InstallKeeps ==
  ASSUME IInv, NEW m \in Proc, install_page(m)
  PROVE  IInv'
<1>1. state[m] = "fault" /\ Typed /\ Places /\ CountIsOwners /\ WritableIsPrivate
  BY DEF install_page, IInv
<1>2. PICK h \in Frame, p \in Page : h = in_hand[m] /\ p = reading[m]
  BY <1>1 DEF Places, Carries
<1>3. Carries(m) /\ Unmapped(h) /\ ~ Mapped(m, p)
  BY <1>1, <1>2 DEF Places, Carries
<1>4. /\ state[m] = "fault" /\ state' = [state EXCEPT ![m] = "run"]
      /\ reading' = [reading EXCEPT ![m] = NULL] /\ in_hand' = [in_hand EXCEPT ![m] = NULL]
      /\ pte' = [pte EXCEPT ![m][p] = [frame |-> h, rw |-> TRUE]] /\ UNCHANGED count
  BY <1>2 DEF install_page, Goto
<1>5. /\ \A n \in Proc : in_hand'[n] = IF n = m THEN NULL ELSE in_hand[n]
      /\ \A n \in Proc : in_hand'[n] \in {in_hand[n], NULL} \ {h}
      /\ Hands(h) = {m} /\ Hands(h)' = {}
      /\ \A g \in Frame \ {h} : Hands(g)' = Hands(g)
  BY <1>4, <1>1, <1>2, <1>3, LetsGo
<1>6. \A n \in Proc, q \in Page :
        pte'[n][q] = IF n = m /\ q = p THEN [frame |-> h, rw |-> TRUE] ELSE pte[n][q]
  BY <1>4, <1>1, <1>2, <1>3 DEF Typed
<1>7. Typed'
  <2>1. pte' \in [Proc -> [Page -> Pte \cup {NULL}]]
    BY <1>4, <1>1, <1>2, <1>3, NewPte DEF Typed
  <2>2. QED
    BY <1>4, <1>1, <2>1 DEF Typed
<1>8. Places'
  <2> SUFFICES ASSUME NEW n \in Proc
               PROVE  /\ IF state'[n] \in {"fault", "exec"} THEN Carries(n)' ELSE in_hand'[n] = NULL
                      /\ state'[n] = "fault" => reading'[n] \in Page /\ ~ Mapped(n, reading[n])'
                      /\ state'[n] = "none" => pte'[n] = NoPages
    BY DEF Places
  <2>1. CASE n = m
    BY <1>4, <1>1, <1>5, <2>1 DEF Typed
  <2>2. CASE n # m
    <3>1. state'[n] = state[n] /\ in_hand'[n] = in_hand[n] /\ reading'[n] = reading[n] /\ pte'[n] = pte[n]
      BY <1>4, <1>1, <1>5, <2>2 DEF Typed
    <3>2. ASSUME Carries(n) PROVE Carries(n)'
      BY <1>2, <1>3, <1>5, <1>6, <2>2, <3>2, CopyOnWriteAssumption DEF Carries, Unmapped, Mapped
    <3>3. QED
      BY <1>1, <3>1, <3>2 DEF Places, Mapped
  <2>3. QED
    BY <2>1, <2>2
<1>9. WritableIsPrivate'
  BY <1>4, <1>1, <1>2, <1>3, <1>5, MapsPrivate
<1>10. CountIsOwners'
  <2>1. /\ Cardinality(Entries(h)') = 1 /\ Entries(h) = {}
        /\ \A g \in Frame \ {h} : Cardinality(Entries(g)') = Cardinality(Entries(g))
    BY <1>4, <1>1, <1>2, <1>3, MapsEntries
  <2>2. count'[h] = Cardinality(Entries(h)') + Cardinality(Hands(h)')
    <3>1. Cardinality({}) = 0 /\ Cardinality({m}) = 1
      BY FS_EmptySet, FS_Singleton
    <3>2. count[h] = Cardinality(Entries(h)) + Cardinality(Hands(h))
      BY <1>1, <1>2, <1>3, Counts
    <3>3. QED
      BY <1>4, <1>5, <2>1, <3>1, <3>2
  <2>3. ASSUME NEW g \in Frame \ {h}
        PROVE  count'[g] = Cardinality(Entries(g)') + Cardinality(Hands(g)')
    BY <1>4, <1>1, <1>5, <2>1, Counts
  <2>4. QED
    BY <2>2, <2>3, CountsAfter
<1>11. QED
  BY <1>7, <1>8, <1>9, <1>10 DEF IInv

-----------------------------------------------------------------------------
\* The entries of one process that map f: a child's copies are as many.
Own(m, f) == { mp \in {m} \X Page : Mapped(mp[1], mp[2]) /\ pte[mp[1]][mp[2]].frame = f }
Twins(n, m, f) == { << n, mp[2] >> : mp \in Own(m, f) }

LEMMA OwnCounts ==
  ASSUME NEW m \in Proc, NEW f
  PROVE  /\ Own(m, f) \subseteq Entries(f) /\ IsFiniteSet(Own(m, f))
         /\ References(f, {m}) = Cardinality(Own(m, f)) /\ Cardinality(Own(m, f)) \in Nat
<1>1. Own(m, f) \subseteq Entries(f)
  BY DEF Own, Entries
<1>2. IsFiniteSet(Own(m, f)) /\ Cardinality(Own(m, f)) \in Nat
  BY <1>1, EntriesFinite, FS_Subset, FS_CardinalityType
<1>3. References(f, {m}) = Cardinality(Own(m, f))
  BY DEF References, Own
<1>4. QED
  BY <1>1, <1>2, <1>3

LEMMA TwinsCount ==
  ASSUME NEW m \in Proc, NEW n \in Proc, NEW f
  PROVE  IsFiniteSet(Twins(n, m, f)) /\ Cardinality(Twins(n, m, f)) = Cardinality(Own(m, f))
<1> DEFINE S == Own(m, f)
           T == Twins(n, m, f)
           copy == [mp \in S |-> << n, mp[2] >>]
<1>1. \A mp \in S : mp = << m, mp[2] >>
  BY DEF Own
<1>2. copy \in [S -> T]
  BY DEF Twins
<1>3. \A a, b \in S : copy[a] = copy[b] => a = b
  BY <1>1
<1>4. \A t \in T : \E mp \in S : copy[mp] = t
  BY DEF Twins
<1>5. copy \in Bijection(S, T)
  BY <1>2, <1>3, <1>4 DEF Bijection, Injection, Surjection, IsInjective
<1>6. ExistsBijection(S, T)
  BY <1>5 DEF ExistsBijection
<1>7. QED
  BY <1>6, OwnCounts, FS_Bijection

\* do_fork(): everything the parent maps has one more owner and is read-only.
LEMMA ForkKeeps ==
  ASSUME IInv, NEW m \in Proc, NEW n \in Proc, do_fork(m, n)
  PROVE  IInv'
<1> DEFINE shared == [p \in Page |-> IF Mapped(m, p) THEN [pte[m][p] EXCEPT !.rw = FALSE] ELSE NULL]
<1>1. Typed /\ Places /\ CountIsOwners /\ WritableIsPrivate
  BY DEF IInv
<1>2. /\ state[m] = "run" /\ state[n] = "none" /\ state' = [state EXCEPT ![n] = "run"]
      /\ pte' = [pte EXCEPT ![m] = shared, ![n] = shared]
      /\ count' = [f \in Frame |-> count[f] + References(f, {m})]
      /\ UNCHANGED << reading, in_hand >>
  BY DEF do_fork, copy_pt, Goto
<1>3. m # n /\ in_hand[n] = NULL /\ in_hand[m] = NULL /\ \A q \in Page : ~ Mapped(n, q)
  BY <1>1, <1>2 DEF Places, NoPages, Mapped
<1>4. \A k \in Proc : pte'[k] = IF k \in {m, n} THEN shared ELSE pte[k]
  BY <1>1, <1>2, <1>3 DEF Typed
<1>5. ASSUME NEW q \in Page, Mapped(m, q)
      PROVE  shared[q] \in Pte /\ shared[q] # NULL /\ shared[q].frame = pte[m][q].frame /\ ~ shared[q].rw
  <2>1. pte[m][q] \in Pte
    BY <1>1, <1>5 DEF Typed, Mapped
  <2>2. shared[q] = [pte[m][q] EXCEPT !.rw = FALSE]
    BY <1>5
  <2>3. shared[q] \in Pte /\ shared[q].frame = pte[m][q].frame /\ ~ shared[q].rw
    BY <2>1, <2>2 DEF Pte
  <2>4. QED
    BY <2>3, PteAssumption
<1>6. \A q \in Page : ~ Mapped(m, q) => shared[q] = NULL
  OBVIOUS
<1>7. shared \in [Page -> Pte \cup {NULL}]
  BY <1>5, <1>6
<1> HIDE DEF shared
<1>8. \A k \in Proc, q \in Page :
        /\ Mapped(k, q)' <=> IF k \in {m, n} THEN Mapped(m, q) ELSE Mapped(k, q)
        /\ Mapped(k, q)' => pte'[k][q].frame = IF k = n THEN pte[m][q].frame ELSE pte[k][q].frame
        /\ Writable(k, q)' => k \notin {m, n} /\ pte'[k] = pte[k] /\ Writable(k, q)
  BY <1>4, <1>5, <1>6 DEF Mapped, Writable
<1>9. Typed'
  <2>1. pte' \in [Proc -> [Page -> Pte \cup {NULL}]]
    BY <1>1, <1>2, <1>7 DEF Typed
  <2>2. QED
    BY <1>1, <1>2, <2>1 DEF Typed
<1>10. Places'
  <2> SUFFICES ASSUME NEW k \in Proc
               PROVE  /\ IF state'[k] \in {"fault", "exec"} THEN Carries(k)' ELSE in_hand'[k] = NULL
                      /\ state'[k] = "fault" => reading'[k] \in Page /\ ~ Mapped(k, reading[k])'
                      /\ state'[k] = "none" => pte'[k] = NoPages
    BY DEF Places
  <2>1. state'[k] = IF k = n THEN "run" ELSE state[k]
    BY <1>1, <1>2 DEF Typed
  <2>2. CASE k \in {m, n}
    BY <1>2, <1>3, <2>1, <2>2
  <2>3. CASE k \notin {m, n}
    <3>1. ASSUME Carries(k) PROVE Carries(k)'
      <4>1. PICK h \in Frame : h = in_hand[k]
        BY <3>1 DEF Carries
      <4>2. in_hand' = in_hand /\ Unmapped(h)
        BY <1>2, <3>1, <4>1 DEF Carries
      <4>3. Unmapped(h)'
        <5> SUFFICES ASSUME NEW j \in Proc, NEW q \in Page, Mapped(j, q)'
                     PROVE  pte'[j][q].frame # h
          BY DEF Unmapped
        <5>1. \A i \in Proc : Mapped(i, q) => pte[i][q].frame # h
          BY <4>2 DEF Unmapped
        <5>2. QED
          BY <1>8, <5>1
      <4>4. QED
        BY <3>1, <4>1, <4>2, <4>3 DEF Carries
    <3>2. ASSUME state'[k] = "fault" PROVE reading'[k] \in Page /\ ~ Mapped(k, reading[k])'
      BY <1>1, <1>2, <1>8, <2>1, <2>3, <3>2 DEF Places
    <3>3. state'[k] = state[k] /\ pte'[k] = pte[k] /\ in_hand'[k] = in_hand[k]
      BY <1>2, <1>4, <2>1, <2>3
    <3>4. QED
      BY <1>1, <3>1, <3>2, <3>3 DEF Places
  <2>4. QED
    BY <2>2, <2>3
<1>11. CountIsOwners'
  <2> SUFFICES ASSUME NEW f \in Frame
               PROVE  count'[f] = Cardinality(Entries(f)') + Cardinality(Hands(f)')
    BY CountsAfter
  <2>1. Hands(f)' = Hands(f)
    BY <1>2 DEF Hands
  <2>2. Entries(f)' = Entries(f) \cup Twins(n, m, f)
    <3>1. \A k \in Proc, q \in Page :
            << k, q >> \in Twins(n, m, f) <=> k = n /\ Mapped(m, q) /\ pte[m][q].frame = f
      <4>1. \A q \in Page : << m, q >> \in Own(m, f) <=> Mapped(m, q) /\ pte[m][q].frame = f
        BY DEF Own
      <4>2. \A mp \in Own(m, f) : mp = << m, mp[2] >> /\ mp[2] \in Page
        BY DEF Own
      <4>3. QED
        BY <4>1, <4>2 DEF Twins
    <3>2. Twins(n, m, f) \subseteq Proc \X Page
      BY DEF Twins, Own
    <3>3. \A k \in Proc, q \in Page :
            << k, q >> \in Entries(f)' <=> << k, q >> \in Entries(f) \cup Twins(n, m, f)
      <4>1. \A k \in Proc, q \in Page :
              << k, q >> \in Entries(f) <=> Mapped(k, q) /\ pte[k][q].frame = f
        BY DEF Entries
      <4>2. \A k \in Proc, q \in Page :
              << k, q >> \in Entries(f)' <=> Mapped(k, q)' /\ pte'[k][q].frame = f
        BY DEF Entries
      <4>3. \A k \in Proc, q \in Page :
              Mapped(k, q)' /\ pte'[k][q].frame = f
                <=> \/ Mapped(k, q) /\ pte[k][q].frame = f
                    \/ k = n /\ Mapped(m, q) /\ pte[m][q].frame = f
        BY <1>3, <1>8
      <4>4. QED
        BY <3>1, <4>1, <4>2, <4>3
    <3>4. Entries(f)' \subseteq Proc \X Page /\ Entries(f) \subseteq Proc \X Page
      BY DEF Entries
    <3>5. QED
      BY <3>2, <3>3, <3>4
  <2>3. Entries(f) \cap Twins(n, m, f) = {}
    BY <1>3 DEF Entries, Twins
  <2>4. Cardinality(Entries(f)') = Cardinality(Entries(f)) + Cardinality(Own(m, f))
    <3>1. IsFiniteSet(Entries(f)) /\ IsFiniteSet(Twins(n, m, f))
      BY EntriesFinite, TwinsCount
    <3>2. Cardinality(Entries(f)') = Cardinality(Entries(f)) + Cardinality(Twins(n, m, f)) - Cardinality({})
      BY <2>2, <2>3, <3>1, FS_Union
    <3>3. Cardinality(Twins(n, m, f)) = Cardinality(Own(m, f)) /\ Cardinality(Own(m, f)) \in Nat
      BY TwinsCount, OwnCounts
    <3>4. Cardinality({}) = 0 /\ Cardinality(Entries(f)) \in Nat
      BY EntriesFinite, FS_EmptySet
    <3>5. QED
      BY <3>2, <3>3, <3>4
  <2>5. count[f] = Cardinality(Entries(f)) + Cardinality(Hands(f))
    BY <1>1, Counts
  <2>6. count'[f] = count[f] + Cardinality(Own(m, f))
    BY <1>2, OwnCounts
  <2>7. /\ Cardinality(Entries(f)) \in Nat /\ Cardinality(Hands(f)) \in Nat
        /\ Cardinality(Own(m, f)) \in Nat
    BY EntriesFinite, OwnCounts
  <2>8. QED
    BY <2>1, <2>4, <2>5, <2>6, <2>7
<1>12. WritableIsPrivate'
  <2> SUFFICES ASSUME NEW k \in Proc, NEW r \in Page, Writable(k, r)'
               PROVE  /\ \A j \in Proc, q \in Page :
                           Mapped(j, q)' /\ pte'[j][q].frame = pte'[k][r].frame => << j, q >> = << k, r >>
                      /\ \A j \in Proc : in_hand'[j] # pte'[k][r].frame
    BY DEF WritableIsPrivate
  <2>1. k \notin {m, n} /\ pte'[k] = pte[k] /\ Writable(k, r)
    BY <1>8
  <2>2. \A j \in Proc : in_hand'[j] # pte'[k][r].frame
    BY <1>1, <1>2, <2>1 DEF WritableIsPrivate
  <2>3. ASSUME NEW j \in Proc, NEW q \in Page, Mapped(j, q)', pte'[j][q].frame = pte'[k][r].frame
        PROVE  << j, q >> = << k, r >>
    <3>1. CASE j = n
      <4>1. Mapped(m, q) /\ pte[m][q].frame = pte[k][r].frame
        BY <1>8, <2>1, <2>3, <3>1
      <4>2. QED
        BY <1>1, <2>1, <4>1 DEF WritableIsPrivate
    <3>2. CASE j # n
      <4>1. Mapped(j, q) /\ pte[j][q].frame = pte[k][r].frame
        BY <1>8, <2>1, <2>3, <3>2
      <4>2. QED
        BY <1>1, <2>1, <4>1 DEF WritableIsPrivate
    <3>3. QED
      BY <3>1, <3>2
  <2>4. QED
    BY <2>2, <2>3
<1>13. QED
  BY <1>9, <1>10, <1>11, <1>12 DEF IInv

\* exec_mmap() and the rest of do_exec(): the process gives up all it maps, each page
\* once, and maps the frame of the arguments instead.
LEMMA ExecLoadedKeeps ==
  ASSUME IInv, NEW m \in Proc, exec_loaded(m)
  PROVE  IInv'
<1>1. Typed /\ Places /\ CountIsOwners /\ WritableIsPrivate /\ state[m] = "exec"
  BY DEF exec_loaded, IInv
<1>2. PICK h \in Frame : h = in_hand[m]
  BY <1>1 DEF Places, Carries
<1>3. Carries(m) /\ Unmapped(h)
  BY <1>1, <1>2 DEF Places, Carries
<1>4. /\ state' = [state EXCEPT ![m] = "run"] /\ in_hand' = [in_hand EXCEPT ![m] = NULL]
      /\ count' = [f \in Frame |-> count[f] - References(f, {m})] /\ UNCHANGED reading
      /\ pte' = [pte EXCEPT ![m] = [NoPages EXCEPT ![Stack] = [frame |-> h, rw |-> TRUE]]]
  BY <1>2 DEF exec_loaded, exec_mmap, Goto
<1>5. /\ \A n \in Proc : in_hand'[n] = IF n = m THEN NULL ELSE in_hand[n]
      /\ \A n \in Proc : in_hand'[n] \in {in_hand[n], NULL} \ {h}
      /\ Hands(h) = {m} /\ Hands(h)' = {}
      /\ \A g \in Frame \ {h} : Hands(g)' = Hands(g)
  BY <1>1, <1>2, <1>3, <1>4, LetsGo
<1>6. Stack \in Page /\ [frame |-> h, rw |-> TRUE] \in Pte /\ [frame |-> h, rw |-> TRUE] # NULL
  BY CopyOnWriteAssumption, NewPte
<1>7. \A n \in Proc : n # m => pte'[n] = pte[n]
  BY <1>1, <1>4 DEF Typed
<1>8. \A q \in Page : pte'[m][q] = IF q = Stack THEN [frame |-> h, rw |-> TRUE] ELSE NULL
  BY <1>1, <1>4, <1>6 DEF Typed, NoPages
<1>9. \A k \in Proc, q \in Page :
        /\ Mapped(k, q)' <=> IF k = m THEN q = Stack ELSE Mapped(k, q)
        /\ Mapped(k, q)' => pte'[k][q].frame = IF k = m THEN h ELSE pte[k][q].frame
        /\ k # m => (Writable(k, q)' <=> Writable(k, q))
  BY <1>6, <1>7, <1>8 DEF Mapped, Writable
<1>10. Typed'
  <2>1. [NoPages EXCEPT ![Stack] = [frame |-> h, rw |-> TRUE]] \in [Page -> Pte \cup {NULL}]
    BY <1>6 DEF NoPages
  <2>2. pte' \in [Proc -> [Page -> Pte \cup {NULL}]]
    BY <1>1, <1>4, <2>1 DEF Typed
  <2>3. QED
    BY <1>1, <1>4, <2>2 DEF Typed
<1>11. Places'
  <2> SUFFICES ASSUME NEW k \in Proc
               PROVE  /\ IF state'[k] \in {"fault", "exec"} THEN Carries(k)' ELSE in_hand'[k] = NULL
                      /\ state'[k] = "fault" => reading'[k] \in Page /\ ~ Mapped(k, reading[k])'
                      /\ state'[k] = "none" => pte'[k] = NoPages
    BY DEF Places
  <2>1. state'[k] = IF k = m THEN "run" ELSE state[k]
    BY <1>1, <1>4 DEF Typed
  <2>2. CASE k = m
    BY <1>5, <2>1, <2>2
  <2>3. CASE k # m
    <3>1. ASSUME Carries(k) PROVE Carries(k)'
      <4>1. PICK g \in Frame : g = in_hand[k] /\ g = in_hand'[k] /\ g # h
        BY <1>2, <1>3, <1>5, <2>3, <3>1 DEF Carries
      <4>2. Unmapped(g)'
        <5> SUFFICES ASSUME NEW j \in Proc, NEW q \in Page, Mapped(j, q)'
                     PROVE  pte'[j][q].frame # g
          BY DEF Unmapped
        <5>1. Mapped(j, q) => pte[j][q].frame # g
          BY <3>1, <4>1 DEF Carries, Unmapped
        <5>2. QED
          BY <1>9, <4>1, <5>1
      <4>3. \A n \in Proc : in_hand'[n] = g => n = k
        BY <1>5, <3>1, <4>1, CopyOnWriteAssumption DEF Carries
      <4>4. QED
        BY <4>1, <4>2, <4>3 DEF Carries
    <3>2. ASSUME state'[k] = "fault" PROVE reading'[k] \in Page /\ ~ Mapped(k, reading[k])'
      BY <1>1, <1>4, <1>9, <2>1, <2>3, <3>2 DEF Places
    <3>3. state'[k] = state[k] /\ pte'[k] = pte[k] /\ in_hand'[k] = in_hand[k]
      BY <1>5, <1>7, <2>1, <2>3
    <3>4. QED
      BY <1>1, <3>1, <3>2, <3>3 DEF Places
  <2>4. QED
    BY <2>2, <2>3
<1>12. CountIsOwners'
  <2> SUFFICES ASSUME NEW f \in Frame
               PROVE  count'[f] = Cardinality(Entries(f)') + Cardinality(Hands(f)')
    BY CountsAfter
  <2>1. count'[f] = Cardinality(Entries(f)) + Cardinality(Hands(f)) - Cardinality(Own(m, f))
    <3>1. count'[f] = count[f] - References(f, {m})
      BY <1>4
    <3>2. count[f] = Cardinality(Entries(f)) + Cardinality(Hands(f))
      BY <1>1, Counts
    <3>3. References(f, {m}) = Cardinality(Own(m, f)) /\ Cardinality(Own(m, f)) \in Nat
      BY OwnCounts
    <3>4. Cardinality(Entries(f)) \in Nat /\ Cardinality(Hands(f)) \in Nat
      BY EntriesFinite
    <3>5. QED
      BY <3>1, <3>2, <3>3, <3>4
  <2>2. CASE f = h
    <3>1. Entries(h) = {} /\ Own(m, h) = {}
      BY <1>3 DEF Unmapped, Entries, Own
    <3>2. Entries(h)' = {<< m, Stack >>}
      <4>1. \A k \in Proc, q \in Page :
              << k, q >> \in Entries(h)' <=> Mapped(k, q)' /\ pte'[k][q].frame = h
        BY DEF Entries
      <4>2. \A k \in Proc, q \in Page : Mapped(k, q)' /\ pte'[k][q].frame = h <=> k = m /\ q = Stack
        BY <1>3, <1>9 DEF Unmapped
      <4>3. Entries(h)' \subseteq Proc \X Page
        BY DEF Entries
      <4>4. QED
        BY <1>6, <4>1, <4>2, <4>3
    <3>3. Cardinality({}) = 0 /\ Cardinality({m}) = 1 /\ Cardinality({<< m, Stack >>}) = 1
      BY FS_EmptySet, FS_Singleton
    <3>4. QED
      BY <1>5, <2>1, <2>2, <3>1, <3>2, <3>3
  <2>3. CASE f # h
    <3>1. Entries(f)' = Entries(f) \ Own(m, f)
      <4>1. \A k \in Proc, q \in Page :
              << k, q >> \in Entries(f)' <=> Mapped(k, q)' /\ pte'[k][q].frame = f
        BY DEF Entries
      <4>2. \A k \in Proc, q \in Page :
              /\ << k, q >> \in Entries(f) <=> Mapped(k, q) /\ pte[k][q].frame = f
              /\ << k, q >> \in Own(m, f) <=> k = m /\ Mapped(k, q) /\ pte[k][q].frame = f
        BY DEF Entries, Own
      <4>3. \A k \in Proc, q \in Page :
              Mapped(k, q)' /\ pte'[k][q].frame = f <=> k # m /\ Mapped(k, q) /\ pte[k][q].frame = f
        BY <1>9, <2>3
      <4>4. Entries(f)' \subseteq Proc \X Page /\ Entries(f) \subseteq Proc \X Page
        BY DEF Entries
      <4>5. \A k \in Proc, q \in Page :
              << k, q >> \in Entries(f)' <=> << k, q >> \in Entries(f) \ Own(m, f)
        BY <4>1, <4>2, <4>3
      <4>6. QED
        BY <4>4, <4>5
    <3>2. Entries(f) \cap Own(m, f) = Own(m, f) /\ IsFiniteSet(Entries(f))
      BY OwnCounts, EntriesFinite
    <3>3. Cardinality(Entries(f)') = Cardinality(Entries(f)) - Cardinality(Own(m, f))
      BY <3>1, <3>2, FS_Difference
    <3>4. /\ Cardinality(Entries(f)) \in Nat /\ Cardinality(Hands(f)) \in Nat
          /\ Cardinality(Own(m, f)) \in Nat /\ Hands(f)' = Hands(f)
      BY <1>5, <2>3, OwnCounts, EntriesFinite
    <3>5. QED
      BY <2>1, <3>3, <3>4
  <2>4. QED
    BY <2>2, <2>3
<1>13. WritableIsPrivate'
  <2> SUFFICES ASSUME NEW k \in Proc, NEW r \in Page, Writable(k, r)'
               PROVE  /\ \A j \in Proc, q \in Page :
                           Mapped(j, q)' /\ pte'[j][q].frame = pte'[k][r].frame => << j, q >> = << k, r >>
                      /\ \A j \in Proc : in_hand'[j] # pte'[k][r].frame
    BY DEF WritableIsPrivate
  <2>1. Mapped(k, r)'
    BY DEF Writable
  <2>2. CASE k = m
    <3>1. r = Stack /\ pte'[k][r].frame = h
      BY <1>9, <2>1, <2>2
    <3>2. \A j \in Proc, q \in Page : j # m => ~ (Mapped(j, q)' /\ pte'[j][q].frame = h)
      BY <1>3, <1>9 DEF Unmapped
    <3>3. QED
      BY <1>5, <1>9, <2>2, <3>1, <3>2
  <2>3. CASE k # m
    <3>1. Writable(k, r) /\ Mapped(k, r) /\ pte'[k][r].frame = pte[k][r].frame
      BY <1>9, <2>1, <2>3
    <3>2. pte[k][r].frame \in Frame \ {h}
      BY <1>1, <1>3, <3>1 DEF Typed, Mapped, Pte, Unmapped
    <3>3. \A j \in Proc : in_hand'[j] # pte'[k][r].frame
      BY <1>1, <1>5, <3>1, <3>2, CopyOnWriteAssumption DEF WritableIsPrivate
    <3>4. ASSUME NEW j \in Proc, NEW q \in Page, Mapped(j, q)', pte'[j][q].frame = pte'[k][r].frame
          PROVE  << j, q >> = << k, r >>
      <4>1. j # m /\ Mapped(j, q) /\ pte[j][q].frame = pte[k][r].frame
        BY <1>9, <3>1, <3>2, <3>4
      <4>2. QED
        BY <1>1, <3>1, <4>1 DEF WritableIsPrivate
    <3>5. QED
      BY <3>3, <3>4
  <2>4. QED
    BY <2>2, <2>3
<1>14. QED
  BY <1>10, <1>11, <1>12, <1>13 DEF IInv

-----------------------------------------------------------------------------
LEMMA NextIInv == IInv /\ [Next]_vars => IInv'
<1> SUFFICES ASSUME IInv, [Next]_vars PROVE IInv'
  OBVIOUS
<1>1. ASSUME NEW m \in Proc, NEW p \in Page, user_write(m, p) \/ kernel_write(m, p)
      PROVE  IInv'
  <2>1. UNCHANGED << state, pte, reading, in_hand, count >>
    BY <1>1 DEF user_write, kernel_write
  <2>2. Typed' /\ Places'
    BY <2>1 DEF IInv, Typed, Places, Carries, Unmapped, Mapped
  <2>3. QED
    BY <2>1, <2>2, NothingMapped
<1>2. ASSUME NEW m \in Proc, sys_exit(m)
      PROVE  IInv'
  <2>1. state[m] = "run" /\ state' = [state EXCEPT ![m] = "dead"]
        /\ UNCHANGED << pte, reading, in_hand, count >>
    BY <1>2 DEF sys_exit, Goto
  <2>2. Typed'
    BY <2>1 DEF IInv, Typed
  <2>3. \A n \in Proc : state'[n] = IF n = m THEN "dead" ELSE state[n]
    BY <2>1 DEF IInv, Typed
  <2>4. Places'
    BY <2>1, <2>3 DEF IInv, Places, Carries, Unmapped, Mapped
  <2>5. QED
    BY <2>1, <2>2, <2>4, NothingMapped
<1>3. CASE UNCHANGED vars
  <2>1. UNCHANGED << state, pte, reading, in_hand, count >>
    BY <1>3 DEF vars
  <2>2. Typed' /\ Places'
    BY <2>1 DEF IInv, Typed, Places, Carries, Unmapped, Mapped
  <2>3. QED
    BY <2>1, <2>2, NothingMapped
<1>4. CASE Next
  BY <1>1, <1>2, <1>4, DoExecKeeps, ExecLoadedKeeps, InstallKeeps, ForkKeeps, StackFaultKeeps,
     FileReadKeeps, ProtectFaultKeeps DEF Next
<1>5. QED
  BY <1>3, <1>4

LEMMA Inductive == Spec => []IInv
BY InitIInv, NextIInv, PTL DEF Spec

\* page.count, as copy_pt, page_protect_fault, page_not_present and exec_mmap keep it, is
\* the number of page table entries and processes that have the frame: a fault never takes
\* a frame that is in use, and the last owner is known to be the last.
THEOREM CountsExact == Spec => []CountIsOwners
<1>1. IInv => CountIsOwners
  BY DEF IInv
<1>2. QED
  BY <1>1, Inductive, PTL

\* A page that page_protect_fault or page_not_present made writable is mapped nowhere
\* else, by no other process and at no other address, and nobody reads the disk into it.
THEOREM WritersAlone == Spec => []WritableIsPrivate
<1>1. IInv => WritableIsPrivate
  BY DEF IInv
<1>2. QED
  BY <1>1, Inductive, PTL

-----------------------------------------------------------------------------
(***************************************************************************)
(* The refinement of PrivateMemories.  Counts and private pages are what it*)
(* takes; besides, what is read from the disk is where it is expected.     *)
(***************************************************************************)
Contents ==
  /\ mem \in [Frame -> Content]
  /\ \A m \in Proc :
       /\ state[m] = "fault" => reading[m] \in FilePage
       /\ state[m] = "exec" => mem[in_hand[m]] = "args"
RInv == IInv /\ Contents

\* What a process finds in a page, and the memories as Private sees them.
Finds(m, p) == IF Mapped(m, p) THEN mem[pte[m][p].frame] ELSE OnDemand(p)
Memories == [m \in Proc |-> IF state[m] \in {"none", "dead"} THEN NULL ELSE View(m)]

\* A step that leaves what processes find leaves the memories.
LEMMA SameMemories ==
  ASSUME NEW m \in Proc, IInv, NEW s, state' = [state EXCEPT ![m] = s],
         \A n \in Proc, q \in Page : Finds(n, q)' = Finds(n, q),
         s \in {"none", "dead"} <=> state[m] \in {"none", "dead"}
  PROVE  Memories' = Memories
<1>1. \A n \in Proc : View(n)' = View(n)
  <2> SUFFICES ASSUME NEW n \in Proc PROVE View(n)' = View(n)
    OBVIOUS
  <2>1. \A q \in Page : Finds(n, q)' = Finds(n, q)
    OBVIOUS
  <2>2. View(n) = [q \in Page |-> Finds(n, q)]
    BY DEF View, Finds
  <2>3. View(n)' = [q \in Page |-> Finds(n, q)']
    BY DEF View, Finds
  <2>4. QED
    BY <2>1, <2>2, <2>3
<1>2. \A n \in Proc : state'[n] = IF n = m THEN s ELSE state[n]
  BY DEF IInv, Typed
<1>3. QED
  BY <1>1, <1>2 DEF Memories

\* A process that lives has a memory.
LEMMA ViewIsMemory ==
  ASSUME RInv, NEW m \in Proc
  PROVE  View(m) # NULL
<1>1. \A p \in Page : Finds(m, p) \in Content
  <2> SUFFICES ASSUME NEW p \in Page PROVE Finds(m, p) \in Content
    OBVIOUS
  <2>1. Mapped(m, p) => pte[m][p].frame \in Frame
    BY DEF RInv, IInv, Typed, Mapped, Pte
  <2>2. OnDemand(p) \in Content
    BY DEF OnDemand, Content
  <2>3. QED
    BY <2>1, <2>2 DEF Finds, RInv, Contents
<1>2. View(m) \in [Page -> Content]
  BY <1>1 DEF View, Finds
<1>3. QED
  BY <1>2, MemoryAssumption

\* The frame given out by a fault is found by nobody before.
LEMMA FreeIsNotFound ==
  ASSUME IInv, NEW f \in Free
  PROVE  /\ f \in Frame /\ Unmapped(f) /\ Unheld(f)
         /\ \A n \in Proc, q \in Page : Mapped(n, q) => pte[n][q].frame \in Frame \ {f}
<1>1. f \in Frame /\ count[f] = 0
  BY DEF Free
<1>2. Unmapped(f) /\ Unheld(f)
  BY <1>1, FreeIsUnused DEF IInv
<1>3. ASSUME NEW n \in Proc, NEW q \in Page, Mapped(n, q)
      PROVE  pte[n][q].frame \in Frame \ {f}
  <2>1. pte[n][q] \in Pte
    BY <1>3 DEF IInv, Typed, Mapped
  <2>2. QED
    BY <1>2, <1>3, <2>1 DEF Unmapped, Pte
<1>4. QED
  BY <1>1, <1>2, <1>3

\* What is mapped is a frame, and none that a process has in hand.
LEMMA FoundInFrame ==
  ASSUME IInv, NEW n \in Proc, NEW q \in Page, Mapped(n, q)
  PROVE  /\ pte[n][q] \in Pte /\ pte[n][q].frame \in Frame
         /\ \A m \in Proc : state[m] \in {"fault", "exec"} => in_hand[m] \in Frame \ {pte[n][q].frame}
<1>1. pte[n][q] \in Pte
  BY DEF IInv, Typed, Mapped
<1>2. QED
  BY <1>1 DEF IInv, Places, Carries, Unmapped, Pte

-----------------------------------------------------------------------------
\* The steps that Private does not see.

\* A fault for the stack maps the zeros that the process would have found.
LEMMA StackFaultHidden ==
  ASSUME RInv, NEW m \in Proc, NEW p \in Page, page_not_present(m, p)
  PROVE  Contents' /\ Memories' = Memories
<1>1. PICK f \in Free :
        /\ pte' = [pte EXCEPT ![m][p] = [frame |-> f, rw |-> TRUE]]
        /\ mem' = [mem EXCEPT ![f] = "zero"]
        /\ ~ Mapped(m, p) /\ p \notin FilePage /\ UNCHANGED << state, reading, in_hand >>
  BY DEF page_not_present
<1>2. f \in Frame /\ Unheld(f) /\ \A n \in Proc, q \in Page : Mapped(n, q) => pte[n][q].frame \in Frame \ {f}
  BY FreeIsNotFound DEF RInv
<1>3. Typed /\ Places /\ Contents
  BY DEF RInv, IInv
<1>4. /\ \A n \in Proc, q \in Page :
           pte'[n][q] = IF n = m /\ q = p THEN [frame |-> f, rw |-> TRUE] ELSE pte[n][q]
      /\ \A g \in Frame : mem'[g] = IF g = f THEN "zero" ELSE mem[g]
  BY <1>1, <1>3 DEF Typed, Contents
<1>5. ASSUME NEW n \in Proc, NEW q \in Page
      PROVE  Finds(n, q)' = Finds(n, q)
  <2>1. CASE n = m /\ q = p
    BY <1>1, <1>2, <1>4, <2>1, NewPte DEF Finds, Mapped, OnDemand
  <2>2. CASE ~ (n = m /\ q = p)
    BY <1>2, <1>4, <2>2 DEF Finds, Mapped
  <2>3. QED
    BY <2>1, <2>2
<1>6. Contents'
  BY <1>1, <1>2, <1>3, <1>4 DEF Contents, Content, Unheld, Places, Carries
<1>7. state' = [state EXCEPT ![m] = state[m]]
  BY <1>1, <1>3 DEF Typed
<1>8. QED
  BY <1>5, <1>6, <1>7, SameMemories DEF RInv

\* A process that takes a frame in hand changes no memory.
LEMMA TakingHidden ==
  ASSUME RInv, NEW m \in Proc, NEW f \in Free, NEW s \in {"fault", "exec"}, NEW c \in Content,
         state[m] = "run", state' = [state EXCEPT ![m] = s], in_hand' = [in_hand EXCEPT ![m] = f],
         mem' = [mem EXCEPT ![f] = c], UNCHANGED pte,
         s = "exec" => c = "args" /\ UNCHANGED reading,
         s = "fault" => \E p \in FilePage : reading' = [reading EXCEPT ![m] = p]
  PROVE  Contents' /\ Memories' = Memories
<1>1. f \in Frame /\ Unheld(f) /\ \A n \in Proc, q \in Page : Mapped(n, q) => pte[n][q].frame \in Frame \ {f}
  BY FreeIsNotFound DEF RInv
<1>2. Typed /\ Places /\ Contents
  BY DEF RInv, IInv
<1>3. /\ \A g \in Frame : mem'[g] = IF g = f THEN c ELSE mem[g]
      /\ \A n \in Proc : in_hand'[n] = IF n = m THEN f ELSE in_hand[n]
      /\ \A n \in Proc : state'[n] = IF n = m THEN s ELSE state[n]
      /\ \A n \in Proc \ {m} : reading'[n] = reading[n]
  BY <1>1, <1>2 DEF Typed, Contents
<1>4. \A n \in Proc, q \in Page : Finds(n, q)' = Finds(n, q)
  BY <1>1, <1>3 DEF Finds, Mapped
<1>5. mem' \in [Frame -> Content]
  BY <1>2 DEF Contents
<1>6. ASSUME NEW n \in Proc
      PROVE  /\ state'[n] = "fault" => reading'[n] \in FilePage
             /\ state'[n] = "exec" => mem'[in_hand'[n]] = "args"
  <2>1. CASE n = m
    BY <1>1, <1>2, <1>3, <2>1 DEF Typed
  <2>2. CASE n # m
    BY <1>1, <1>2, <1>3, <2>2 DEF Contents, Unheld, Places, Carries
  <2>3. QED
    BY <2>1, <2>2
<1>7. QED
  BY <1>2, <1>4, <1>5, <1>6, SameMemories DEF RInv, Contents

LEMMA FileReadHidden ==
  ASSUME RInv, NEW m \in Proc, NEW p \in Page, file_read(m, p)
  PROVE  Contents' /\ Memories' = Memories
<1>1. PICK f \in Free : in_hand' = [in_hand EXCEPT ![m] = f] /\ mem' = [mem EXCEPT ![f] = "zero"]
  BY DEF file_read
<1>2. /\ state[m] = "run" /\ state' = [state EXCEPT ![m] = "fault"]
      /\ p \in FilePage /\ reading' = [reading EXCEPT ![m] = p] /\ UNCHANGED pte
  BY DEF file_read, Goto
<1>3. "zero" \in Content
  BY DEF Content
<1>4. QED
  BY <1>1, <1>2, <1>3, TakingHidden

LEMMA DoExecHidden ==
  ASSUME RInv, NEW m \in Proc, do_exec(m)
  PROVE  Contents' /\ Memories' = Memories
<1>1. PICK f \in Free : in_hand' = [in_hand EXCEPT ![m] = f] /\ mem' = [mem EXCEPT ![f] = "args"]
  BY DEF do_exec
<1>2. state[m] = "run" /\ state' = [state EXCEPT ![m] = "exec"] /\ UNCHANGED << pte, reading >>
  BY DEF do_exec, Goto
<1>3. "args" \in Content
  BY DEF Content
<1>4. QED
  BY <1>1, <1>2, <1>3, TakingHidden

\* The page of the file that is mapped holds what the process would have found.
LEMMA InstallHidden ==
  ASSUME RInv, NEW m \in Proc, install_page(m)
  PROVE  Contents' /\ Memories' = Memories
<1> DEFINE h == in_hand[m]
           p == reading[m]
<1>1. Typed /\ Places /\ Contents /\ IInv
  BY DEF RInv, IInv
<1>2. /\ state[m] = "fault" /\ state' = [state EXCEPT ![m] = "run"]
      /\ reading' = [reading EXCEPT ![m] = NULL] /\ in_hand' = [in_hand EXCEPT ![m] = NULL]
      /\ pte' = [pte EXCEPT ![m][p] = [frame |-> h, rw |-> TRUE]]
      /\ mem' = [mem EXCEPT ![h] = "image"]
  BY DEF install_page, Goto
<1>3. h \in Frame /\ p \in Page /\ p \in FilePage /\ ~ Mapped(m, p) /\ \A n \in Proc : in_hand[n] = h => n = m
  BY <1>1, <1>2 DEF Places, Carries, Contents
<1>4. \A n \in Proc, q \in Page : Mapped(n, q) => pte[n][q].frame \in Frame \ {h}
  BY <1>1, <1>2, FoundInFrame
<1> HIDE DEF h, p
<1>5. /\ \A n \in Proc, q \in Page :
           pte'[n][q] = IF n = m /\ q = p THEN [frame |-> h, rw |-> TRUE] ELSE pte[n][q]
      /\ \A g \in Frame : mem'[g] = IF g = h THEN "image" ELSE mem[g]
      /\ \A n \in Proc : state'[n] = IF n = m THEN "run" ELSE state[n]
      /\ \A n \in Proc \ {m} : in_hand'[n] = in_hand[n] /\ reading'[n] = reading[n]
  BY <1>1, <1>2, <1>3 DEF Typed, Contents
<1>6. ASSUME NEW n \in Proc, NEW q \in Page
      PROVE  Finds(n, q)' = Finds(n, q)
  <2>1. CASE n = m /\ q = p
    BY <1>3, <1>5, <2>1, NewPte DEF Finds, Mapped, OnDemand
  <2>2. CASE ~ (n = m /\ q = p)
    BY <1>4, <1>5, <2>2 DEF Finds, Mapped
  <2>3. QED
    BY <2>1, <2>2
<1>7. mem' \in [Frame -> Content]
  BY <1>1, <1>2 DEF Contents, Content
<1>8. ASSUME NEW n \in Proc
      PROVE  /\ state'[n] = "fault" => reading'[n] \in FilePage
             /\ state'[n] = "exec" => mem'[in_hand'[n]] = "args"
  BY <1>1, <1>3, <1>5 DEF Contents, Places, Carries
<1>9. QED
  BY <1>1, <1>2, <1>6, <1>7, <1>8, SameMemories DEF Contents

\* The copy that a writer gets holds what the page holds that it shared.
LEMMA ProtectFaultHidden ==
  ASSUME RInv, NEW m \in Proc, NEW p \in Page, page_protect_fault(m, p)
  PROVE  Contents' /\ Memories' = Memories
<1> DEFINE old == pte[m][p].frame
<1>1. Typed /\ Places /\ Contents /\ IInv
  BY DEF RInv, IInv
<1>2. Mapped(m, p) /\ UNCHANGED << state, reading, in_hand >>
  BY DEF page_protect_fault
<1>3. pte[m][p] \in Pte /\ old \in Frame
  BY <1>1, <1>2, FoundInFrame
<1>4. state' = [state EXCEPT ![m] = state[m]]
  BY <1>1, <1>2 DEF Typed
<1>5. CASE count[old] > 1
  <2>1. PICK f \in Free :
          /\ pte' = [pte EXCEPT ![m][p] = [frame |-> f, rw |-> TRUE]]
          /\ mem' = [mem EXCEPT ![f] = mem[old]]
    BY <1>5 DEF page_protect_fault
  <2>2. f \in Frame /\ Unheld(f) /\ \A n \in Proc, q \in Page : Mapped(n, q) => pte[n][q].frame \in Frame \ {f}
    BY <1>1, FreeIsNotFound
  <2> HIDE DEF old
  <2>3. /\ \A n \in Proc, q \in Page :
             pte'[n][q] = IF n = m /\ q = p THEN [frame |-> f, rw |-> TRUE] ELSE pte[n][q]
        /\ \A g \in Frame : mem'[g] = IF g = f THEN mem[old] ELSE mem[g]
    BY <1>1, <2>1, <2>2 DEF Typed, Contents
  <2>4. ASSUME NEW n \in Proc, NEW q \in Page
        PROVE  Finds(n, q)' = Finds(n, q)
    <3>1. CASE n = m /\ q = p
      <4>1. pte'[m][p] = [frame |-> f, rw |-> TRUE] /\ pte'[m][p] # NULL
        BY <2>2, <2>3, NewPte
      <4>2. mem'[f] = mem[old]
        BY <2>2, <2>3
      <4>3. QED
        BY <1>2, <3>1, <4>1, <4>2 DEF Finds, Mapped, old
    <3>2. CASE ~ (n = m /\ q = p)
      BY <2>2, <2>3, <3>2 DEF Finds, Mapped
    <3>3. QED
      BY <3>1, <3>2
  <2>5. mem' \in [Frame -> Content]
    BY <1>1, <1>3, <2>1 DEF Contents
  <2>6. Contents'
    BY <1>1, <1>2, <2>2, <2>3, <2>5 DEF Contents, Unheld, Places, Carries
  <2>7. QED
    BY <1>1, <1>4, <2>4, <2>6, SameMemories
<1>6. CASE ~ (count[old] > 1)
  <2>1. pte' = [pte EXCEPT ![m][p].rw = TRUE] /\ UNCHANGED mem
    BY <1>6 DEF page_protect_fault
  <2> DEFINE entry == [pte[m][p] EXCEPT !.rw = TRUE]
  <2>2. entry # NULL /\ entry.frame = old
    <3>1. entry \in Pte /\ entry.frame = old
      BY <1>3 DEF Pte
    <3>2. QED
      BY <3>1, PteAssumption
  <2>3. \A n \in Proc, q \in Page :
          pte'[n][q] = IF n = m /\ q = p THEN entry ELSE pte[n][q]
    BY <1>1, <2>1 DEF Typed
  <2> HIDE DEF entry
  <2>4. ASSUME NEW n \in Proc, NEW q \in Page
        PROVE  Finds(n, q)' = Finds(n, q)
    <3>1. CASE n = m /\ q = p
      <4>1. pte'[m][p] # NULL /\ pte'[m][p].frame = old
        BY <2>2, <2>3
      <4>2. QED
        BY <1>2, <2>1, <3>1, <4>1 DEF Finds, Mapped
    <3>2. CASE ~ (n = m /\ q = p)
      BY <2>1, <2>3, <3>2 DEF Finds, Mapped
    <3>3. QED
      BY <3>1, <3>2
  <2>5. Contents'
    BY <1>1, <1>2, <2>1 DEF Contents
  <2>6. QED
    BY <1>1, <1>4, <2>4, <2>5, SameMemories
<1>7. QED
  BY <1>5, <1>6

-----------------------------------------------------------------------------
\* The steps that Private sees.

LEMMA WriteSeen ==
  ASSUME RInv, NEW m \in Proc, NEW p \in Page, state[m] = "run", Writable(m, p),
         mem' = [mem EXCEPT ![pte[m][p].frame] = m], UNCHANGED << state, pte, reading, in_hand >>
  PROVE  Contents' /\ Private!Write(m, p)
<1> DEFINE f == pte[m][p].frame
<1>1. Typed /\ Places /\ Contents /\ IInv /\ WritableIsPrivate
  BY DEF RInv, IInv
<1>2. Mapped(m, p) /\ f \in Frame
        /\ \A n \in Proc : state[n] \in {"fault", "exec"} => in_hand[n] \in Frame \ {f}
  BY <1>1, FoundInFrame DEF Writable
<1>3. \A n \in Proc, q \in Page : Mapped(n, q) /\ pte[n][q].frame = f => n = m /\ q = p
  BY <1>1 DEF WritableIsPrivate
<1> HIDE DEF f
<1>4. \A g \in Frame : mem'[g] = IF g = f THEN m ELSE mem[g]
  BY <1>1, <1>2 DEF Contents, f
<1>5. Contents'
  <2>1. mem' \in [Frame -> Content]
    BY <1>1 DEF Contents, Content
  <2>2. QED
    BY <1>1, <1>2, <1>4, <2>1 DEF Contents
<1>6. ASSUME NEW n \in Proc, NEW q \in Page
      PROVE  Finds(n, q)' = IF n = m /\ q = p THEN m ELSE Finds(n, q)
  <2>1. CASE Mapped(n, q)
    <3>1. pte[n][q].frame \in Frame
      BY <1>1, <2>1, FoundInFrame
    <3>2. QED
      BY <1>3, <1>4, <2>1, <3>1 DEF Finds, Mapped, f
  <2>2. CASE ~ Mapped(n, q)
    BY <1>2, <2>2 DEF Finds, Mapped
  <2>3. QED
    BY <2>1, <2>2
<1>7. \A n \in Proc : View(n)' = IF n = m THEN [View(m) EXCEPT ![p] = m] ELSE View(n)
  <2>1. \A n \in Proc : View(n) = [q \in Page |-> Finds(n, q)]
    BY DEF View, Finds
  <2>2. \A n \in Proc : View(n)' = [q \in Page |-> Finds(n, q)']
    BY DEF View, Finds
  <2>3. QED
    BY <1>6, <2>1, <2>2
<1>8. Memories' = [Memories EXCEPT ![m][p] = m]
  <2>1. Memories' = [n \in Proc |-> IF state[n] \in {"none", "dead"} THEN NULL ELSE View(n)']
    BY DEF Memories
  <2>2. Memories[m] = View(m)
    BY DEF Memories
  <2>3. [Memories EXCEPT ![m][p] = m] = [n \in Proc |-> IF n = m THEN [View(m) EXCEPT ![p] = m] ELSE Memories[n]]
    BY <2>2 DEF Memories
  <2>4. QED
    BY <1>7, <2>1, <2>3 DEF Memories
<1>9. Memories[m] # NULL
  BY ViewIsMemory DEF Memories
<1>10. QED
  BY <1>5, <1>8, <1>9 DEF Memories, Private!Write, Private!Alive

LEMMA ExitSeen ==
  ASSUME RInv, NEW m \in Proc, sys_exit(m)
  PROVE  Contents' /\ Private!Exit(m)
<1>1. Typed /\ Contents
  BY DEF RInv, IInv
<1>2. /\ state[m] = "run" /\ state' = [state EXCEPT ![m] = "dead"]
      /\ UNCHANGED << pte, reading, in_hand, mem >>
  BY DEF sys_exit, Goto
<1>3. \A n \in Proc : state'[n] = IF n = m THEN "dead" ELSE state[n]
  BY <1>1, <1>2 DEF Typed
<1>4. Contents'
  BY <1>1, <1>2, <1>3 DEF Contents
<1>5. \A n \in Proc : View(n)' = View(n)
  BY <1>2 DEF View, Mapped
<1>6. Memories' = [Memories EXCEPT ![m] = NULL]
  BY <1>3, <1>5 DEF Memories
<1>7. Memories[m] # NULL
  BY <1>2, ViewIsMemory DEF Memories
<1>8. QED
  BY <1>4, <1>6, <1>7 DEF Memories, Private!Exit, Private!Alive

LEMMA ForkSeen ==
  ASSUME RInv, NEW m \in Proc, NEW n \in Proc, do_fork(m, n)
  PROVE  Contents' /\ Private!Fork(m, n)
<1> DEFINE shared == [p \in Page |-> IF Mapped(m, p) THEN [pte[m][p] EXCEPT !.rw = FALSE] ELSE NULL]
<1>1. Typed /\ Contents /\ IInv
  BY DEF RInv, IInv
<1>2. /\ state[m] = "run" /\ state[n] = "none" /\ state' = [state EXCEPT ![n] = "run"]
      /\ pte' = [pte EXCEPT ![m] = shared, ![n] = shared]
      /\ UNCHANGED << reading, in_hand, mem >>
  BY DEF do_fork, copy_pt, Goto
<1>3. m # n
  BY <1>2
<1>4. /\ \A k \in Proc : pte'[k] = IF k \in {m, n} THEN shared ELSE pte[k]
      /\ \A k \in Proc : state'[k] = IF k = n THEN "run" ELSE state[k]
  BY <1>1, <1>2, <1>3 DEF Typed
<1>5. ASSUME NEW q \in Page
      PROVE  IF Mapped(m, q) THEN shared[q] # NULL /\ shared[q].frame = pte[m][q].frame ELSE shared[q] = NULL
  <2>1. CASE Mapped(m, q)
    <3>1. pte[m][q] \in Pte
      BY <1>1, <2>1 DEF Typed, Mapped
    <3>2. shared[q] \in Pte /\ shared[q].frame = pte[m][q].frame
      BY <2>1, <3>1 DEF Pte
    <3>3. QED
      BY <2>1, <3>2, PteAssumption
  <2>2. QED
    BY <2>1
<1> HIDE DEF shared
<1>6. ASSUME NEW k \in Proc, NEW q \in Page
      PROVE  Finds(k, q)' = IF k = n THEN Finds(m, q) ELSE Finds(k, q)
  <2>1. CASE k \in {m, n}
    <3>1. pte'[k][q] = shared[q]
      BY <1>4, <2>1
    <3>2. Finds(k, q)' = Finds(m, q)
      BY <1>2, <1>5, <3>1 DEF Finds, Mapped
    <3>3. QED
      BY <2>1, <3>2
  <2>2. CASE k \notin {m, n}
    <3>1. pte'[k] = pte[k] /\ mem' = mem /\ k # n
      BY <1>2, <1>4, <2>2
    <3>2. QED
      BY <3>1 DEF Finds, Mapped
  <2>3. QED
    BY <2>1, <2>2
<1>7. \A k \in Proc : View(k)' = IF k = n THEN View(m) ELSE View(k)
  <2>1. \A k \in Proc : View(k) = [q \in Page |-> Finds(k, q)]
    BY DEF View, Finds
  <2>2. \A k \in Proc : View(k)' = [q \in Page |-> Finds(k, q)']
    BY DEF View, Finds
  <2>3. QED
    BY <1>6, <2>1, <2>2
<1>8. Memories' = [Memories EXCEPT ![n] = Memories[m]]
  <2>1. \A k \in Proc : Memories'[k] = IF k = n THEN View(m) ELSE Memories[k]
    BY <1>4, <1>7 DEF Memories
  <2>2. Memories[m] = View(m)
    BY <1>2 DEF Memories
  <2>3. Memories' = [k \in Proc |-> Memories'[k]] /\ Memories = [k \in Proc |-> Memories[k]]
    BY DEF Memories
  <2>4. QED
    BY <2>1, <2>2, <2>3
<1>9. Memories[m] # NULL /\ Memories[n] = NULL
  BY <1>2, ViewIsMemory DEF Memories
<1>10. Contents'
  BY <1>1, <1>2, <1>4 DEF Contents
<1>11. QED
  BY <1>8, <1>9, <1>10 DEF Memories, Private!Fork, Private!Alive

LEMMA ExecSeen ==
  ASSUME RInv, NEW m \in Proc, exec_loaded(m)
  PROVE  Contents' /\ Private!Exec(m)
<1> DEFINE h == in_hand[m]
           table == [NoPages EXCEPT ![Stack] = [frame |-> h, rw |-> TRUE]]
           loaded == [[p \in Page |-> OnDemand(p)] EXCEPT ![Stack] = "args"]
<1>1. Typed /\ Places /\ Contents /\ IInv
  BY DEF RInv, IInv
<1>2. /\ state[m] = "exec" /\ state' = [state EXCEPT ![m] = "run"]
      /\ pte' = [pte EXCEPT ![m] = table]
      /\ in_hand' = [in_hand EXCEPT ![m] = NULL]
      /\ UNCHANGED << reading, mem >>
  BY DEF exec_loaded, Goto
<1>3. h \in Frame /\ mem[h] = "args"
  BY <1>1, <1>2 DEF Places, Carries, Contents
<1>4. /\ \A k \in Proc : pte'[k] = IF k = m THEN table ELSE pte[k]
      /\ \A k \in Proc : state'[k] = IF k = m THEN "run" ELSE state[k]
      /\ \A k \in Proc \ {m} : in_hand'[k] = in_hand[k]
  BY <1>1, <1>2 DEF Typed
<1>5. View(m)' = loaded
  <2>1. \A q \in Page : table[q] = IF q = Stack THEN [frame |-> h, rw |-> TRUE] ELSE NULL
    BY CopyOnWriteAssumption DEF NoPages
  <2>2. [frame |-> h, rw |-> TRUE] # NULL
    BY <1>3, NewPte
  <2> HIDE DEF table, h
  <2>3. \A q \in Page : Finds(m, q)' = IF q = Stack THEN "args" ELSE OnDemand(q)
    BY <1>2, <1>3, <1>4, <2>1, <2>2 DEF Finds, Mapped
  <2>4. View(m)' = [q \in Page |-> Finds(m, q)']
    BY DEF View, Finds
  <2>5. QED
    BY <2>3, <2>4
<1>6. \A k \in Proc \ {m} : View(k)' = View(k)
  BY <1>2, <1>4 DEF View, Mapped
<1> HIDE DEF loaded
<1>7. Memories' = [Memories EXCEPT ![m] = loaded]
  BY <1>4, <1>5, <1>6 DEF Memories
<1>8. Memories[m] # NULL
  BY <1>2, ViewIsMemory DEF Memories
<1>9. Contents'
  BY <1>1, <1>2, <1>4 DEF Contents
<1>10. QED
  BY <1>7, <1>8, <1>9 DEF Memories, Private!Exec, Private!Alive, loaded

-----------------------------------------------------------------------------
LEMMA InitPrivate == Init => Contents /\ Private!Init
<1> SUFFICES ASSUME Init PROVE Contents /\ Private!Init
  OBVIOUS
<1> DEFINE loaded == [[p \in Page |-> OnDemand(p)] EXCEPT ![Stack] = "args"]
<1>1. PICK m \in Proc, f \in Frame :
        /\ state = [n \in Proc |-> IF n = m THEN "run" ELSE "none"]
        /\ pte = [n \in Proc |-> IF n = m THEN [NoPages EXCEPT ![Stack] = [frame |-> f, rw |-> TRUE]]
                                          ELSE NoPages]
        /\ mem = [g \in Frame |-> IF g = f THEN "args" ELSE "zero"]
  BY DEF Init
<1>2. Contents
  BY <1>1 DEF Contents, Content
<1>3. View(m) = loaded
  <2>1. \A q \in Page : pte[m][q] = IF q = Stack THEN [frame |-> f, rw |-> TRUE] ELSE NULL
    BY <1>1, CopyOnWriteAssumption DEF NoPages
  <2>2. [frame |-> f, rw |-> TRUE] # NULL
    BY NewPte
  <2>3. \A q \in Page : Finds(m, q) = IF q = Stack THEN "args" ELSE OnDemand(q)
    BY <1>1, <2>1, <2>2 DEF Finds, Mapped
  <2>4. View(m) = [q \in Page |-> Finds(m, q)]
    BY DEF View, Finds
  <2>5. QED
    BY <2>3, <2>4
<1> HIDE DEF loaded
<1>4. Memories = [n \in Proc |-> IF n = m THEN loaded ELSE NULL]
  BY <1>1, <1>3 DEF Memories
<1>5. QED
  BY <1>2, <1>4 DEF Memories, Private!Init, loaded

\* Every step is one of Private's or changes no memory.
LEMMA NextPrivate ==
  ASSUME ~ SharedBuffers, RInv, [Next]_vars
  PROVE  Contents' /\ (Private!Next \/ Memories' = Memories)
<1>1. ASSUME NEW m \in Proc, NEW p \in Page, user_write(m, p) \/ kernel_write(m, p)
      PROVE  Contents' /\ Private!Write(m, p)
  <2>1. /\ state[m] = "run" /\ Writable(m, p) /\ mem' = [mem EXCEPT ![pte[m][p].frame] = m]
        /\ UNCHANGED << state, pte, reading, in_hand >>
    BY <1>1 DEF user_write, kernel_write
  <2>2. QED
    BY <2>1, WriteSeen
<1>2. CASE UNCHANGED vars
  BY <1>2 DEF vars, RInv, Contents, Memories, View, Mapped
<1>3. CASE Next
  BY <1>1, <1>3, ExitSeen, ForkSeen, ExecSeen, StackFaultHidden, FileReadHidden, DoExecHidden,
     InstallHidden, ProtectFaultHidden DEF Next, Private!Next
<1>4. QED
  BY <1>2, <1>3

\* fork, exec, exit, the page faults and the writes of processes and of the kernel for them
\* give every process a memory of its own, as long as no system call is passed a buffer on a
\* page that is still shared.
THEOREM Implements ==
  ASSUME ~ SharedBuffers
  PROVE  Spec => ImplementsPrivate
<1>1. Init => RInv /\ Private!Init
  BY InitIInv, InitPrivate DEF RInv
<1>2. RInv /\ [Next]_vars => RInv' /\ [Private!Next]_Memories
  BY NextIInv, NextPrivate DEF RInv
<1>3. QED
  BY <1>1, <1>2, PTL DEF Spec, ImplementsPrivate, Private!Spec, Memories

=============================================================================
