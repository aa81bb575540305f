\* Two requests of either bank overlap in any way; calls fail, the process dies once.
SPECIFICATION FairSpec
CONSTANTS
  i1 = i1
  i2 = i2
  n = n
  a = a
  b = b
  r1 = r1
  r2 = r2
  r3 = r3
  Invoices = {i1, i2}
  Codes = {n, a}
  Requests = {r1, r2}
  Normal <- Normal2
  FechaLimite <- Due2
  MaxLag = 1
  MaxNow = 2
  MaxCrashes = 1
  Overlap = TRUE
CHECK_DEADLOCK FALSE
INVARIANTS
  EstadoRespaldado
  RespuestaFiel
  ImpagoExplicado
PROPERTIES
  TodaPeticionTermina
