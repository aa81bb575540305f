\* Registrations and clean-ups of one student's two invoices race for the ids, up
\* to the last one; one call fails or the process dies; and the same with the
\* registrations of the student, or all calls on an invoice, apart.
SPECIFICATION Spec
CONSTANTS
  i1 = i1
  i2 = i2
  i3 = i3
  ana = ana
  eva = eva
  none = none
  t1 = t1
  t2 = t2
  Invoices = {i1, i2}
  Students = {ana, eva}
  StudentOf <- OneStudent
  Previos <- Known
  Poison = {}
  Tasks = {t1, t2}
  CronTasks = {}
  None = none
  Limit = 1
  MaxId = 2
  MaxPagos = 3
  MaxFaults = 1
  MaxAnio = 1
  Ordenes <- MCOrdenes
SYMMETRY Sym
CHECK_DEADLOCK FALSE
INVARIANTS
  TypeOK
  TerceroDelEstudiante
  MarcaRespaldada
  DetalleCompleto
  LibroExacto
PROPERTIES
  BorraLoSuyo
