\* Two processes; a ring of three characters whose indices wrap at six, reads
\* of at most two; a tick counter that wraps at five.
CONSTANTS
  Proc = {p1, p2}
  NoProc = NoProc
  INPUT_BUF = 3
  UintMod = 6
  MAXREAD = 2
  Kills = TRUE
  TickMod = 5
  Counts <- MCCounts
SPECIFICATION DevicesSpec
SYMMETRY DevicesSymmetry
INVARIANTS
  InputSafe
  KeysRight
  
PROPERTIES
  RefinesLines
