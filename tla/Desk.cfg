\* Banks that wait for the answer only, and banks that wait for the clean-ups too.
SPECIFICATION Spec
CONSTANTS
    i1 = i1
    i2 = i2
    d1 = d1
    t1 = t1
    t2 = t2
    t3 = t3
    t4 = t4
    nadie = nadie
    ana = ana
    Nadie = nadie
    Invoices = {i1, i2}
    Students = {ana}
    StudentOf <- OneStudent
    Tasks = {t1, t2, t3, t4}
    MaxId = 9
    MaxPagos = 2
    Discounts = {d1}
    Matching <- Shared
    Category <- MCCategory
    Rank <- MCRank
    Unicos = {"factura", "soporte"}
    MaxFaults = 1
SYMMETRY Sym
CHECK_DEADLOCK FALSE
INVARIANT SinPagoSinRastro
INVARIANT PagadaEnLibro
PROPERTY LibroAparte
