\* Two CPUs, two threads, ptable.lock and one lock outside it.
CONSTANTS
  CPU = {c1, c2}
  Thread = {t1, t2}
  Lock = {ptable, lk}
  NoLock = NoLock
  NoCPU = NoCPU
  ptable = ptable
  Rank <- KernelRank
SPECIFICATION Spec
SYMMETRY SpinSymmetry
INVARIANTS Exclusion HoldersRun
PROPERTIES RestoresInterrupts
