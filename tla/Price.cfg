\* Enrolments of three levels around both deadlines, inscriptions and others over two months.
SPECIFICATION Spec
CONSTANTS
    nada = nada
    nunca = nunca
    Nada = nada
    SinFecha = nunca
    Paquetes <- MCPaquetes
    Actual <- MCActual
    Descuentos <- MCDescuentos
    Niveles = {6, 11, 16}
    Creditos = {0, 2}
    Totales = {8}
    Cantidades = {2}
    Ordinaria = 1
    Extraordinaria = 2
    FinIns = nunca
    MaxDia = 2
    MaxCambios = 2
    Mes = 2
    MaxCodigo = 500
CHECK_DEADLOCK FALSE
INVARIANT ImpresoVale
INVARIANT SinGratuidadEnPosgrado
INVARIANT ValorEsLineas
PROPERTY CotizaLoEscrito
