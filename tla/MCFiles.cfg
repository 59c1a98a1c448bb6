\* Two processes, three files, two descriptors each; the root and two inodes
\* for two slots, so that slots are used again and run out.
CONSTANTS
  Proc = {p1, p2}
  NoProc = NoProc
  NFILE = 3
  NOFILE = 2
  NINODE = 2
  Inum = {root, i, j}
  ROOTINO = root
  NoInum = NoInum
  MAXSIZE = 1
SPECIFICATION Spec
SYMMETRY Symmetry
INVARIANTS CountsExact OffInFile
\* Everybody may exit, and exhaustion stops the machine.
CHECK_DEADLOCK FALSE
