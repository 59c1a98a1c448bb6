\* Two processes, a ring of two bytes, counters that wrap around at four.
CONSTANTS
  Proc = {p1, p2}
  NoProc = NoProc
  PIPESIZE = 2
  UintMod = 4
  MaxCount = 3
  Byte = {x, y}
  Kills = TRUE
SPECIFICATION Spec
SYMMETRY PipeSymmetry
INVARIANTS PageOwned 
PROPERTIES RefinesChannel
\* A process that reads from a pipe only it can write waits for ever.
CHECK_DEADLOCK FALSE
