\* Two of three invoices are malformed, as many as the job takes at a time: each
\* of three payments, the second of one invoice among them, ends up in the ledger
\* unless both of them wait, whoever fails or dies once.
SPECIFICATION FairSpec
CONSTANTS
  i1 = i1
  i2 = i2
  i3 = i3
  ana = ana
  eva = eva
  none = none
  t1 = t1
  t2 = t2
  Invoices = {i1, i2, i3}
  Students = {ana, eva}
  StudentOf <- OneStudent
  Previos <- Known
  Poison = {i2, i3}
  Tasks = {t1, t2}
  CronTasks = {t1}
  None = none
  Limit = 2
  MaxId = 9
  MaxPagos = 3
  MaxFaults = 1
  MaxAnio = 0
  Ordenes <- LiveOrdenes
CHECK_DEADLOCK FALSE
PROPERTIES
  TodoPagoLlega
