---------------------------- MODULE ReadersWriter ----------------------------
(***************************************************************************)
(* What a readers-writer lock promises: any number of readers or one       *)
(* writer, never both.                                                     *)
(***************************************************************************)
CONSTANT Thread

VARIABLES readers, writers  \* the threads that hold the lock, for reading and for writing

vars == << readers, writers >>

Init == readers = {} /\ writers = {}

Read(t) ==
  /\ writers = {} /\ t \notin readers
  /\ readers' = readers \cup {t}
  /\ UNCHANGED writers

Write(t) ==
  /\ writers = {} /\ readers = {}
  /\ writers' = {t}
  /\ UNCHANGED readers

Release(t) ==
  /\ t \in readers \cup writers
  /\ readers' = readers \ {t}
  /\ writers' = writers \ {t}

Next == \E t \in Thread : Read(t) \/ Write(t) \/ Release(t)

Spec == Init /\ [][Next]_vars

=============================================================================
