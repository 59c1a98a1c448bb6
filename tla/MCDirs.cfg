SPECIFICATION Spec
CONSTANTS
  p1 = p1
  p2 = p2
  NoProc = NoProc
  Proc = {p1, p2}
  NINODES = 3
  Name = {"a"}
  MAXELEMS = 2
  MAXCALLS = 6
  CRASHCOST = 2
  Crashes = TRUE
SYMMETRY Symmetry
CHECK_DEADLOCK FALSE
INVARIANTS TreeSafe RefCount LinksExact  NoWaitCycle
