---------------------------- MODULE InvoicePrice ----------------------------
(***************************************************************************)
(* What one invoice of a student costs over the days of a period: as it is *)
(* generated, printed with its barcodes, and quoted to the banks, while    *)
(* discounts are approved or withdrawn and credits enrolled or dropped.    *)
(*                                                                         *)
(* An action is a whole handler: how handlers interleave with each other   *)
(* and with payments is InvoiceDraft's subject, what they compute is the   *)
(* subject of this module.  Errors (no package, concept not in it) write   *)
(* nothing and are the actions' guards.                                    *)
(***************************************************************************)
EXTENDS Pricing

CONSTANTS Paquetes,    \* fin_paquete: [codigo, categoria, programa, config, detalle]
          Actual,      \* the current row of fin_config
          Descuentos,  \* the discounts of the student
          Niveles,     \* levels of education
          Creditos,    \* how many credits may be enrolled
          Totales,     \* values a client sends for concepts without one
          Cantidades,  \* quantities a client may ask for
          Ordinaria,   \* last day of the ordinary enrolment
          Extraordinaria, \* last day of the extraordinary enrolment
          FinIns,      \* last day of the inscriptions, or SinFecha
          SinFecha,    \* no date
          MaxDia,      \* last day (bound)
          MaxCambios,  \* changes of discounts and credits (bound)
          Mes,         \* days of a month
          MaxCodigo,   \* first value a barcode has no digits for
          Nada         \* no invoice, no quote, no print

MATRICULA   == 1
INSCRIPCION == 5
OTROS       == 0
INSCRIPCION_PACKAGE == 6
EPackageCode == {6, 34}

(* fin_pago, but for its number and state. *)
Factura == [categoria : Nat, paquete : Nat, lineas : SUBSET Linea, valor : Nat,
            limite : Int \cup {FinIns}]

ASSUME PriceAssumption ==
    /\ IsFiniteSet(Paquetes) /\ IsFiniteSet(Descuentos)
    /\ \A p \in Paquetes : /\ p.codigo \in Nat /\ p.categoria \in Nat
                           /\ IsFiniteSet(p.detalle) /\ p.detalle \subseteq DetallePaquete
                           /\ \A d, e \in p.detalle : d.concepto = e.concepto => d = e
                           /\ p.config \in Config
    /\ \A p, q \in Paquetes : p.codigo = q.codigo => p = q
    /\ Actual \in Config
    /\ Descuentos \subseteq Descuento
    /\ \A d, e \in Descuentos : d.id = e.id => d = e
    /\ Creditos \subseteq Nat
    /\ Totales \subseteq Nat /\ Cantidades \subseteq Nat
    /\ Ordinaria \in Nat /\ Extraordinaria \in Nat /\ MaxDia \in Nat /\ MaxCambios \in Nat /\ Mes \in Nat \ {0} /\ MaxCodigo \in Nat
    /\ Nada \notin Factura

VARIABLES matricula,  \* the enrolment: id, level, programme and credits
          aprobados,  \* ids of the discounts in state APROBADO
          hoy,        \* today
          factura,    \* the invoice with its lines
          cotizado,   \* the last quote
          impreso,    \* the last print
          cambios,    \* how often discounts or credits have changed
          vigentes    \* history: which of "lineas", "impreso" and "cotizado"
                      \* come from the discounts and credits of now

vars == <<matricula, aprobados, hoy, factura, cotizado, impreso, cambios, vigentes>>

Aprobados == {d \in Descuentos : d.id \in aprobados}
Total(ls) == totalExtraordinario(ls)

Init == /\ matricula \in [matricula : {1}, nivel : Niveles, creditos : Creditos]
        /\ aprobados = {}
        /\ hoy = 0
        /\ factura = Nada
        /\ cotizado = Nada
        /\ impreso = Nada
        /\ cambios = 0
        /\ vigentes = {}

-----------------------------------------------------------------------------
(* findForEnrollment and findForInvoiceGeneral. *)
findForEnrollment(pago) ==
    {d \in Aprobados : d.pago = pago /\ d.matricula \in {0, matricula.matricula}}
findForInvoiceGeneral(pago) == {d \in Aprobados : d.pago = pago}

ByCode(codigo) == {p \in Paquetes : p.codigo = codigo /\ p.detalle # {}}

Bill(paquete, lineas, valor, limite) ==
    [categoria |-> paquete.categoria, paquete |-> paquete.codigo,
     lineas |-> lineas, valor |-> valor, limite |-> limite]

(* The package of an enrolment: by programme for specializations, where it *)
(* must be the only one, and by mode and level otherwise.                  *)
Modo == resolveEnrollmentPaymentMode(matricula.creditos, Actual.minCreditos)
EsEspecializacion == matricula.nivel \in SPECIALIZATION_PACKAGE_LEVEL_CODES
PaqueteMatricula ==
    IF EsEspecializacion
      THEN {p \in Paquetes : p.categoria = MATRICULA /\ p.programa /\ p.detalle # {}}
      ELSE ByCode(PACKAGE_TYPE(Modo, matricula.nivel))

DescuentosMatricula(paquete) ==
    filterDiscountsForPackage(matricula,
        deduplicateDiscountsByCategory(
            filterDiscountsForEnrollment(findForEnrollment(paquete.categoria), matricula)),
        EsEspecializacion)

(* An enrolment: past the ordinary deadline every external surcharge grows *)
(* by the configured rate.                                                 *)
generateInvoiceEnrrolment(paquete) ==
    LET ds      == DescuentosMatricula(paquete)
        recargo == IF hoy > Ordinaria THEN Actual.porcentajeExt ELSE 0
        lineas  == createDetailInvoice(
                     [detalle |-> paquete.detalle,
                      aumentoExtra |-> Rate(ds, 0) + recargo,
                      descuentoExtra |-> Rate(ds, 1),
                      quantity |-> IF Modo = "INDIVIDUAL" THEN matricula.creditos ELSE 0,
                      matricula |-> paquete.categoria = MATRICULA,
                      externos |-> IF EsEspecializacion
                                     THEN SPECIALIZATION_TUITION_CONCEPT_IDS ELSE {}])
    IN  Bill(paquete, lineas, Total(lineas), Extraordinaria)

generateInvoiceRegistration_Ordinary(paquete) ==
    LET ds     == deduplicateDiscountsByCategory(
                    filterDiscountsForEnrollment(findForEnrollment(paquete.categoria), matricula))
        lineas == createDetailInvoice(
                    [detalle |-> paquete.detalle,
                     aumentoExtra |-> Rate(ds, 0), descuentoExtra |-> Rate(ds, 1),
                     quantity |-> 1, matricula |-> FALSE, externos |-> {}])
    IN  Bill(paquete, lineas, totalOrdinario(lineas), FinIns)

(* An inscription: its discounts, and no quantity. *)
generateInvoiceRegistration(paquete) ==
    LET ds     == deduplicateDiscountsByCategory(
                    filterDiscountsForEnrollment(findForEnrollment(paquete.categoria), matricula))
        lineas == createDetailInvoice(
                    [detalle |-> paquete.detalle,
                     aumentoExtra |-> Rate(ds, 0), descuentoExtra |-> Rate(ds, 1),
                     quantity |-> 1, matricula |-> FALSE, externos |-> {}])
    IN  Bill(paquete, lineas, Total(lineas),
             IF FinIns # SinFecha THEN FinIns ELSE generateEndDatePayment(hoy, Mes))

(* The concept that was asked for, at the value that was sent if it has    *)
(* none of its own; 0 is no concept.                                       *)
Selected(paquete, concepto, total) ==
    LET elegidos == {d \in paquete.detalle : concepto \in {0, d.concepto}}
        manual   == /\ concepto # 0 /\ total > 0
                    /\ Cardinality(elegidos) = 1
                    /\ \A d \in elegidos : d.valor = 0
    IN  IF manual THEN {[d EXCEPT !.valor = total, !.cantidad = 1] : d \in elegidos}
                  ELSE elegidos

(* Anything else: category OTROS takes its value from the client and no    *)
(* discounts, the rest takes a quantity and discounts of any period.       *)
generateInvoiceOther(paquete, concepto, total) ==
    Bill(paquete,
         createDetailInvoice([detalle |-> Selected(paquete, concepto, total),
                              aumentoExtra |-> 0, descuentoExtra |-> 0,
                              quantity |-> 1, matricula |-> FALSE, externos |-> {}]),
         100 * total, generateEndDatePayment(hoy, Mes))

generateInvoiceVariousByInvoice(paquete, concepto, total, cantidad) ==
    LET ds     == deduplicateDiscountsByCategory(findForInvoiceGeneral(paquete.categoria))
        lineas == createDetailInvoice([detalle |-> Selected(paquete, concepto, total),
                                       aumentoExtra |-> Rate(ds, 0),
                                       descuentoExtra |-> Rate(ds, 1),
                                       quantity |-> cantidad,
                                       matricula |-> FALSE, externos |-> {}])
    IN  Bill(paquete, lineas, Total(lineas), generateEndDatePayment(hoy, Mes))

-----------------------------------------------------------------------------
(* generateInvoiceByParams: by the category of the package asked for. *)
Priced(paquete, concepto, total, cantidad) ==
    CASE paquete.categoria = MATRICULA -> {generateInvoiceEnrrolment(p) : p \in PaqueteMatricula}
      [] paquete.categoria = INSCRIPCION ->
           {generateInvoiceRegistration(p) :
              p \in ByCode(IF paquete.codigo \in EPackageCode
                             THEN paquete.codigo ELSE INSCRIPCION_PACKAGE)}
      [] OTHER ->
           IF Selected(paquete, concepto, total) = {} THEN {}
           ELSE IF paquete.categoria = OTROS
                  THEN {generateInvoiceOther(paquete, concepto, total)}
                  ELSE {generateInvoiceVariousByInvoice(paquete, concepto, total, cantidad)}

(* POST invoice/create: one price, or an error and nothing written.  In    *)
(* another category it would be another invoice.                           *)
Generate ==
    /\ \E p \in Paquetes, total \in Totales, cantidad \in Cantidades :
       \E concepto \in {0} \cup {d.concepto : d \in p.detalle} :
          LET nuevas == Priced(p, concepto, total, cantidad) IN
          /\ Cardinality(nuevas) = 1
          /\ factura' \in nuevas
    /\ factura # Nada => factura'.categoria = factura.categoria
    /\ vigentes' = vigentes \cup {"lineas"}
    /\ UNCHANGED <<matricula, aprobados, hoy, cotizado, impreso, cambios>>

(* getHtmlInvoice: the stored lines, and the surcharge of the stored       *)
(* package; a value without a barcode is an error and no page.             *)
Printed_Current(paquete) ==
    [ordinario |-> MathRound(Total(factura.lineas)),
     extraordinario |-> MathRound(calcularTotalExtraOrdinario(factura.lineas, paquete))]
Printed(paquete) ==
    [ordinario |-> MathRound(totalOrdinario(factura.lineas)),
     extraordinario |-> MathRound(calcularTotalExtraOrdinario(factura.lineas, paquete))]

GetHtmlInvoice ==
    /\ factura # Nada
    /\ \E p \in ByCode(factura.paquete) :
          /\ Printed(p).ordinario < MaxCodigo
          /\ factura.categoria = MATRICULA => Printed(p).extraordinario < MaxCodigo
          /\ impreso' = Printed(p)
    /\ vigentes' = IF "lineas" \in vigentes THEN vigentes \cup {"impreso"}
                                            ELSE vigentes \ {"impreso"}
    /\ UNCHANGED <<matricula, aprobados, hoy, factura, cotizado, cambios>>

(* searchInvoiceForPayment of an enrolment: the price of today, written    *)
(* when the lines on file do not come to it.                               *)
ConsultEnrolment_NoWrite ==
    /\ factura # Nada
    /\ factura.categoria = MATRICULA
    /\ Cardinality(PaqueteMatricula) = 1
    /\ \E p \in PaqueteMatricula :
          cotizado' = [valor |-> generateInvoiceEnrrolment(p).valor, dia |-> hoy]
    /\ vigentes' = vigentes \cup {"cotizado", "lineas"}
    /\ UNCHANGED <<matricula, aprobados, hoy, factura, impreso, cambios>>
ConsultEnrolment ==
    /\ factura # Nada
    /\ factura.categoria = MATRICULA
    /\ Cardinality(PaqueteMatricula) = 1
    /\ \E p \in PaqueteMatricula :
          LET nueva == generateInvoiceEnrrolment(p) IN
          /\ cotizado' = [valor |-> nueva.valor, dia |-> hoy]
          /\ IF Total(factura.lineas) = nueva.valor
               THEN UNCHANGED factura /\ vigentes' = vigentes \cup {"cotizado"}
               ELSE factura' = nueva /\ vigentes' = vigentes \cup {"cotizado", "lineas"}
    /\ UNCHANGED <<matricula, aprobados, hoy, impreso, cambios>>

(* Of anything else: what the lines on file come to. *)
ConsultOther ==
    /\ factura # Nada
    /\ factura.categoria # MATRICULA
    /\ cotizado' = [valor |-> Total(factura.lineas), dia |-> hoy]
    /\ vigentes' = IF "lineas" \in vigentes THEN vigentes \cup {"cotizado"}
                                            ELSE vigentes \ {"cotizado"}
    /\ UNCHANGED <<matricula, aprobados, hoy, factura, impreso, cambios>>

-----------------------------------------------------------------------------
(* The office and the calendar. *)
Decide(d) ==
    /\ cambios < MaxCambios
    /\ cambios' = cambios + 1
    /\ aprobados' = IF d.id \in aprobados THEN aprobados \ {d.id} ELSE aprobados \cup {d.id}
    /\ vigentes' = {}
    /\ UNCHANGED <<matricula, hoy, factura, cotizado, impreso>>

Enrol(c) ==
    /\ cambios < MaxCambios
    /\ cambios' = cambios + 1
    /\ matricula' = [matricula EXCEPT !.creditos = c]
    /\ vigentes' = {}
    /\ UNCHANGED <<aprobados, hoy, factura, cotizado, impreso>>

NextDay ==
    /\ hoy < MaxDia
    /\ hoy' = hoy + 1
    /\ UNCHANGED <<matricula, aprobados, factura, cotizado, impreso, cambios, vigentes>>

Next == \/ Generate \/ GetHtmlInvoice \/ ConsultEnrolment \/ ConsultOther
        \/ \E d \in Descuentos : Decide(d)
        \/ \E c \in Creditos \ {matricula.creditos} : Enrol(c)
        \/ NextDay

Spec == Init /\ [][Next]_vars

-----------------------------------------------------------------------------
(* The invoice is one of the program's. *)
TypeOK ==
    /\ aprobados \subseteq {d.id : d \in Descuentos}
    /\ factura # Nada => factura \in Factura /\ factura.lineas # {}
    /\ cotizado # Nada => cotizado \in [valor : Nat, dia : 0..hoy]
    /\ vigentes \subseteq {"lineas", "impreso", "cotizado"}

(* The value on the invoice, which the portal shows and charges, is what   *)
(* its lines, which the ledger and the receipt are made of, come to; in    *)
(* category OTROS it is whatever the client sent.                          *)
ValorEsLineas ==
    factura # Nada /\ factura.categoria # OTROS => factura.valor = Total(factura.lineas)

(* A bank that asks is quoted what the lines on file come to from then on, *)
(* rewritten or not, also when they were priced before the deadline, or    *)
(* with other discounts or credits.                                        *)
CotizaLoEscrito ==
    [][cotizado' # cotizado => cotizado'.valor = Total(factura'.lineas)]_vars

(* The barcodes of an enrolment are what the bank asks for, the ordinary   *)
(* one up to the ordinary deadline and the extraordinary one past it, as   *)
(* long as no discount or credit changes, even if they were printed on the *)
(* other side of the deadline, or from lines priced there; but for credits *)
(* of technology that are free, which are printed with the surcharge of    *)
(* one credit and charged with that of all.                                *)
CreditosGratis == \E l \in factura.lineas :
    l.concepto = TECHNOLOGY_CREDIT_CONCEPT_ID /\ l.descuento = 100 /\ l.cantidad > 1
ImpresoVale ==
    /\ TypeOK
    /\ {"impreso", "cotizado"} \subseteq vigentes /\ factura.categoria = MATRICULA =>
         /\ cotizado.dia <= Ordinaria => MathRound(cotizado.valor) = impreso.ordinario
         /\ cotizado.dia > Ordinaria /\ ~ CreditosGratis =>
               MathRound(cotizado.valor) = impreso.extraordinario

(* No gratuity at the levels that have none, be it through a discount of   *)
(* the student that names no enrolment: when gratuity is all there is,     *)
(* their lines have the rates of the package.                              *)
SinGratuidadEnPosgrado ==
    /\ "lineas" \in vigentes
    /\ factura.categoria = MATRICULA
    /\ matricula.nivel \in {11, 16}
    /\ \A d \in Aprobados : d.categoria = GRATUITY_DISCOUNT_CATEGORY_ID
    => \A l \in factura.lineas : \A p \in ByCode(factura.paquete) :
          \E e \in p.detalle : e.concepto = l.concepto /\ e.descuento = l.descuento
=============================================================================
