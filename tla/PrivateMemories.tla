---------------------------- MODULE PrivateMemories ---------------------------
(***************************************************************************)
(* What fork, exec and the page faults promise together: every process has *)
(* a memory of its own.  fork copies it, exec replaces it, and nothing but *)
(* the process's own writes changes it.                                    *)
(***************************************************************************)
CONSTANTS Proc, Page, NULL,
          Loaded  \* the memory of a program that starts

VARIABLE memory   \* memory[m][page], or NULL if there is no such process

Init == \E m \in Proc : memory = [n \in Proc |-> IF n = m THEN Loaded ELSE NULL]

Alive(m) == memory[m] # NULL

Fork(m, n) ==
  /\ Alive(m) /\ ~ Alive(n)
  /\ memory' = [memory EXCEPT ![n] = memory[m]]

Exec(m) ==
  /\ Alive(m)
  /\ memory' = [memory EXCEPT ![m] = Loaded]

\* A process writes its own name.
Write(m, p) ==
  /\ Alive(m)
  /\ memory' = [memory EXCEPT ![m][p] = m]

Exit(m) ==
  /\ Alive(m)
  /\ memory' = [memory EXCEPT ![m] = NULL]

Next ==
  \E m \in Proc :
    \/ Exec(m) \/ Exit(m)
    \/ \E n \in Proc : Fork(m, n)
    \/ \E p \in Page : Write(m, p)

Spec == Init /\ [][Next]_memory

=============================================================================
