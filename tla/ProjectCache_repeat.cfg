CONSTANTS
  a = a
  b = b
  enA = enA
  enB = enB
  de = de
  x = x
  y = y
  SrcFiles = {a, b}
  LocaleFiles = {enA, enB, de}
  SegmentsOf <- Segments
  Primary = {enA, de}
  Contents = {x, y}
  Absent = Absent
  NoFile = NoFile
  Processes = {p1}
  InitialTrees <- SomeTree
  Environments <- Repeated
  Threshold = 70
SYMMETRY Sym
SPECIFICATION Spec
INVARIANT ServedIsFresh
CHECK_DEADLOCK FALSE
