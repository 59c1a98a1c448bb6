----------------------------- MODULE MCSpinlock -----------------------------
(* Spinlock for TLC: CPUs are alike, and so are threads. *)
EXTENDS Spinlock, TLC

\* sleep and wakeup take ptable.lock inside the locks of other parts.
KernelRank == [l \in Lock |-> IF l = ptable THEN 1 ELSE 0]

SpinSymmetry == Permutations(CPU) \cup Permutations(Thread)
=============================================================================
