\* Two processes, two inodes, two slots, three blocks of one word.
CONSTANTS
  Proc = {p1, p2}
  NoProc = NoProc
  NINODES = 2
  NINODE = 2
  FSSIZE = 3
  BPB = 4
  NDIRECT = 1
  NINDIRECT = 1
  Crashes = TRUE
SPECIFICATION Spec
SYMMETRY ProcSymmetry
INVARIANTS  Coherent  NothingLost
\* Exhaustion stops the machine.
CHECK_DEADLOCK FALSE
