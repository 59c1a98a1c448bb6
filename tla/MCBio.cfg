\* Two processes, three buffers, one Outer sector and three others.
CONSTANTS
  Proc = {p1, p2}
  NBUF = 3
  Sector = {i, a, b, c}
  NoSector = NoSector
  Data = {d0, d1}
  Zero = d0
  DiskErrors = FALSE
  Outer = {i}
  Crashes = TRUE
SPECIFICATION Spec
SYMMETRY BioSymmetry
INVARIANTS Usable 
PROPERTIES RefinesStore
