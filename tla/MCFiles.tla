------------------------------- MODULE MCFiles -------------------------------
(* Instance of Files for TLC.                                                *)
EXTENDS Files, TLC

Symmetry == Permutations(Proc) \cup Permutations(Inum \ {ROOTINO})
=============================================================================
