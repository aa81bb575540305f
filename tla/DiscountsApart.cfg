\* Calls on one invoice apart; the two invoices compete for the same discounts.
SPECIFICATION Spec
CONSTANTS
  i1 = i1
  i2 = i2
  d1 = d1
  d2 = d2
  d3 = d3
  t1 = t1
  t2 = t2
  t3 = t3
  t4 = t4
  t5 = t5
  nadie = nadie
  Invoices = {i1, i2}
  Discounts = {d1, d2, d3}
  Tasks = {t1, t2, t3, t4, t5}
  Nadie = nadie
  Matching <- Shared
  Category <- Category3
  Rank <- Rank3
  Unicos = {"soporte"}
  Apart = "everything"
  Repay = FALSE
  MaxFaults = 1
SYMMETRY Sym
CHECK_DEADLOCK FALSE
INVARIANTS
  FilaFacturada
  FacturadoConFila
  LibreTrasReverso
  UnaPorCategoria
PROPERTY
  LifeSpec
