\* Two processes, and too few pages for two images and a third being built;
\* three keys for blocks of two entries, two slots for three files.
CONSTANTS
  Proc = {p1, p2}
  First = p1
  NPAGE = 10
  PGSIZE = 2
  USERTOP = 6
  KTABS = 1
  NSEG = 2
  file1 = file1
  file2 = file2
  file3 = file3
  Key = {k1, k2, k3}
  Value = {0, 2}
  NTAG = 2
  MAXVALUE = 2
  Lengths = {1, 3}
  NSLOT = 2
  Opener = {p1}
  Searcher = {p2}
  Rooms = {1}
  Sought = {2}
  NBLOCK = 2
  MAXFIND = 1
SPECIFICATION MCSpec
SYMMETRY Symmetry
INVARIANTS
  Conserved
  Mapped
  
PROPERTIES
  RefinesTagStore
\* A panic stops the machine.
CHECK_DEADLOCK FALSE
