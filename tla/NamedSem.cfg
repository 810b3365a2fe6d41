CONSTANTS
  p1 = p1
  p2 = p2
  q1 = q1
  P = P
  Q = Q
  Threads <- TwoAndOne
  Tasks <- TwoTasks
  task <- TaskOf
  Names <- TwoNames
  NamePrefix <- OnePrefix
  MaxFiles = 2
  MaxOpen = 1
SPECIFICATION Spec
INVARIANTS
  NamesAgree
  LinkedIsWritten
  MappedWhileOpen
SYMMETRY ThreadSymmetry
