------------------------------- MODULE MCProc -------------------------------
(* Instances of Proc for TLC.                                              *)
EXTENDS Proc, TLC

\* The CPUs are interchangeable: no definition of Proc tells them apart.
CPUSymmetry == Permutations(CPU)
=============================================================================
