SPECIFICATION Spec
CONSTANTS
  i1 = i1
  i2 = i2
  i3 = i3
  ana = ana
  eva = eva
  none = none
  t1 = t1
  t2 = t2
  Invoices = {i1}
  Students = {ana, eva}
  StudentOf <- OneStudent
  Previos <- Known
  Poison = {}
  Tasks = {t1, t2}
  CronTasks = {}
  None = none
  Limit = 2
  MaxId = 9
  MaxPagos = 1
  MaxFaults = 0
  MaxAnio = 0
  Ordenes <- Unordered
CHECK_DEADLOCK FALSE
INVARIANTS
  SinFacturaRepetida
