\* Requests that overlap, payments apart from the writers, and one request at a time.
SPECIFICATION Spec
CONSTANTS
    nula = nula
    p1 = p1
    p2 = p2
    p3 = p3
    p4 = p4
    Nula = nula
    Facturas <- MCTres
    Peticiones <- MCPeticionesCuatro
    Precios <- MCPrecios
    Categoria = "MATRICULA"
    MaxTarifas = 2
    MaxFallas = 1
SYMMETRY Sym
CHECK_DEADLOCK FALSE
INVARIANT EstadoFiel
INVARIANT PagadaConLineas
PROPERTY NuevaSoloSiNoHay
PROPERTY LifeSpec
