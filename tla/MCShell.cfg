\* Six processes with five descriptors and two lines; commands of three words;
\* lines of five tokens, texts of four characters on a screen of two by two;
\* a heap of sixteen units that grows by four.
CONSTANTS
  MAXARGS = 3
  MAXPROC = 6
  NFD = 5
  Lines <- MCLines
  MAXLINES = 2
  MAXTOKENS = 5
  MAXCHARS = 4
  DIRSIZ = 2
  ROWS = 2
  COLS = 2
  WIDTH = 4
  HEADER = 2
  MORE = 4
  LIMIT = 16
  Bytes = {1, 3, 8}
SPECIFICATION MCSpec
INVARIANTS
  Wiring
  TextsRight
  HeapSound
PROPERTIES
  PromptReturns
\* Nobody has to type, and the texts have an end.
CHECK_DEADLOCK FALSE
