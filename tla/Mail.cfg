\* Calls that overlap, and calls on an invoice kept apart; a malformed invoice, a fault.
SPECIFICATION FairSpec
CONSTANTS
    f1 = f1
    f2 = f2
    f3 = f3
    t1 = t1
    t2 = t2
    t3 = t3
    Nula = Nula
    SinPago = SinPago
    Facturas = {f1, f2}
    Tareas = {t1, t2}
    Malas = {f2}
    Lote = 2
    MaxDia = 1
    MaxPagos = 2
    MaxRecibos = 2
    MaxFallas = 1
CHECK_DEADLOCK FALSE
INVARIANT MarcaConEnvio
INVARIANT UnRecibo
PROPERTY ReciboDePago
PROPERTY ReciboDelDia
