\* Two requests and a failure on pools from one connection to more than they need.
SPECIFICATION FairSpec
CONSTANTS
    c1 = c1
    c2 = c2
    c3 = c3
    c4 = c4
    p1 = p1
    p2 = p2
    p3 = p3
    Conexiones = {c1, c2, c3, c4}
    Pedidos = {p1, p2}
    Limites <- MCLimites
    MaxFallas = 1
CHECK_DEADLOCK FALSE
INVARIANT Reparto
INVARIANT UnicoAtasco
PROPERTY TodoPedidoTermina
