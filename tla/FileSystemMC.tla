----------------------------- MODULE FileSystemMC -----------------------------
(***************************************************************************)
(* Small instances of FileSystem: one process with a directory and files   *)
(* in it and beside it, and two processes that race for the same names and *)
(* the same file.                                                          *)
(***************************************************************************)
EXTENDS FileSystem

TreeMkdir == { << "d" >> }
TreeChdir == { << "d" >>, << ".." >>, << "a" >> }
TreeOpen == { << "/", "d", "a" >>, << "a" >>, << "." >>, << "d", "" >> }

RaceOpen == { << "a" >> }

Symmetry == Permutations(Proc)

=============================================================================
