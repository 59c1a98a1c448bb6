------------------------------- MODULE MCDirs -------------------------------
(* Instance of Dirs: two processes, three inodes, one name, and paths up to *)
(* two elements long.                                                       *)
EXTENDS Dirs, TLC

Symmetry == Permutations(Proc)
=============================================================================
