\* Three slots on one CPU, with fairness.
CONSTANTS
  NPROC = 3
  CPU = {c1}
  NoCPU = NoCPU
  Chan = {ticks}
  Prog = {"init"}
  InitProg = "init"
  MaxPid = 3
SPECIFICATION FairSpec
PROPERTIES
  WaitReturns
