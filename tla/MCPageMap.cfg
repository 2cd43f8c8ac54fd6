CONSTANTS
  r1 = r1
  r2 = r2
  a = a
  b = b
  w = w
  f1 = f1
  f2 = f2
  c = c
  zero = zero
  Roots = {r1, r2}
  HeapPages = {a, b}
  FilePages = {a}
  SharedPages = {w}
  Frames = {f1, f2}
  Zero = zero
  FileFrames = {c}
  Values = {0, 1}
  Blank = 0
  None = None
SPECIFICATION Spec
INVARIANTS
  StoresContained
  ReferencesExact
  ZeroPageZero
PROPERTIES
  ContentsKept
SYMMETRY Symmetry
CHECK_DEADLOCK TRUE
VIEW Seen
CONSTRAINTS
  FilesApart
  AliasesApart
