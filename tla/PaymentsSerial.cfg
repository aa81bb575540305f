SPECIFICATION Spec
CONSTANTS
  i1 = i1
  i2 = i2
  n = n
  a = a
  b = b
  r1 = r1
  r2 = r2
  r3 = r3
  Invoices = {i1}
  Codes = {n, a, b}
  Requests = {r1, r2, r3}
  Normal <- Normal3
  FechaLimite <- Due1
  MaxLag = 1
  MaxNow = 1
  MaxCrashes = 1
  Overlap = FALSE
SYMMETRY Sym
CHECK_DEADLOCK FALSE
INVARIANTS
  SinDuplicados
PROPERTIES
  ReversoEnPlazo
  RechazoJustificado
  BookSpec
