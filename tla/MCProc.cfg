\* Three slots, two CPUs, one sleep channel.
CONSTANTS
  NPROC = 3
  CPU = {c1, c2}
  NoCPU = NoCPU
  Chan = {ticks}
  Prog = {"init"}
  InitProg = "init"
  MaxPid = 4
SPECIFICATION Spec
SYMMETRY CPUSymmetry
INVARIANTS StackSafety ParentAlive NoLeak NoLostExit
PROPERTIES OnlyParentReaps
