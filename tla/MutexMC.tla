------------------------------ MODULE MutexMC ------------------------------
(***************************************************************************)
(* Instances of Mutex for TLC.                                             *)
(***************************************************************************)
EXTENDS Mutex

\* Where an interrupt does no harm.
SafeLabels == {"out", "xchg", "cs", "wake"}

=============================================================================
