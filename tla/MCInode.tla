------------------------------ MODULE MCInode -------------------------------
(* Instances of Inode for TLC.                                             *)
EXTENDS Inode, TLC

ProcSymmetry == Permutations(Proc)
=============================================================================
