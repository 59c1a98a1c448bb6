\* The instances are small: TLC looks for cycles in the graph of all states.
CONSTANTS
  Proc = {p1, p2}
  NoProc = NoProc
  NBUF = 2
  Sector = {i, a, b}
  NoSector = NoSector
  Data = {d0}
  Zero = d0
  DiskErrors = TRUE
  Outer = {i}
  Crashes = FALSE
  PIPESIZE = 1
  UintMod = 2
  MaxCount = 2
  Byte = {x}
SPECIFICATION FairSpec
PROPERTIES
  IoCompletes
  PipeReturns
\* bget's panic stops the machine, and a process that reads from a pipe only
\* it can write waits for ever.
CHECK_DEADLOCK FALSE
