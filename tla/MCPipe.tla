------------------------------- MODULE MCPipe -------------------------------
(* Instances of Pipe for TLC.                                              *)
EXTENDS Pipe, TLC

PipeSymmetry == Permutations(Proc) \cup Permutations(Byte)
=============================================================================
