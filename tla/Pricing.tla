------------------------------ MODULE Pricing ------------------------------
(***************************************************************************)
(* The arithmetic of an invoice: which discounts count, which package an   *)
(* enrolment is charged with, what its lines come to, and the totals that  *)
(* are printed, quoted and compared with.  Pure operators, named after the *)
(* functions of src/utils and of ConsultInvoiceService.                    *)
(*                                                                         *)
(* Rates are percentages and unit values integers, so every total below is *)
(* in hundredths and exact.  Lines, details and discounts are records in   *)
(* sets: a concept occurs once in a package.                               *)
(***************************************************************************)
EXTENDS Integers, FiniteSets, FiniteSetsExt

(* Concepts and categories that the code singles out. *)
TECHNOLOGY_CREDIT_CONCEPT_ID == 33
INDIVIDUAL_CREDIT_CONCEPT_IDS == {33, 35}
SPECIALIZATION_TUITION_CONCEPT_IDS == {52, 64}
SPECIALIZATION_PACKAGE_LEVEL_CODES == {11}
SPECIALIZATION_ALLOWED_DISCOUNT_CATEGORY_IDS == {2, 15, 16}
GRATUITY_DISCOUNT_CATEGORY_ID == 13
GRATUITY_INELIGIBLE_LEVEL_CODES == {11, 16}

(* Code of the package by level, '0' where the table has none. *)
PACKAGE_TYPE(modo, nivel) ==
    CASE modo = "INDIVIDUAL" /\ nivel = 6  -> 1
      [] modo = "INDIVIDUAL" /\ nivel = 7  -> 4
      [] modo = "INDIVIDUAL" /\ nivel = 11 -> 5
      [] modo = "INDIVIDUAL" /\ nivel = 16 -> 33
      [] modo = "COMPLETO"   /\ nivel = 6  -> 2
      [] modo = "COMPLETO"   /\ nivel = 7  -> 3
      [] modo = "COMPLETO"   /\ nivel = 11 -> 33
      [] modo = "COMPLETO"   /\ nivel = 16 -> 5
      [] OTHER -> 0

(* fin_detalle_paquete, fin_config, fin_detalle_factura and                *)
(* fin_porcentaje_soporte; pago is the category of invoices a discount is  *)
(* for; its own category and its enrolment are 0 when the column is null.  *)
DetallePaquete == [concepto : Nat, valor : Nat, cantidad : Nat, aumento : Nat,
                   descuento : Nat, ext : BOOLEAN]
Config == [minCreditos : Nat, porcentajeExt : Nat]
Linea  == [concepto : Nat, valor : Nat, cantidad : Nat, aumento : Nat, descuento : 0..100]
Descuento == [id : Nat, fecha : Nat, pago : Nat, categoria : Nat, accion : Nat,
              porcentaje : Nat, matricula : Nat]

-----------------------------------------------------------------------------
(* Totals.  A rate of discount is kept within 0 and 1; a surcharge is only *)
(* kept from being negative.                                               *)
normalizeRate(r) == IF r < 0 THEN 0 ELSE IF r > 100 THEN 100 ELSE r
safeAumento(r)   == IF r < 0 THEN 0 ELSE r
subtotal(l)      == l.valor * l.cantidad
SumOver(Op(_), S) == SumFunction([x \in S |-> Op(x)])

calcularSubTotal(l) ==
    subtotal(l) * (100 - normalizeRate(l.descuento) + safeAumento(l.aumento))

subTotalSinAumento(l) == subtotal(l) * (100 - normalizeRate(l.descuento))

totalExtraordinario(ls) == SumOver(calcularSubTotal, ls)
totalOrdinario(ls)      == SumOver(subTotalSinAumento, ls)

(* What is printed for the days after the ordinary deadline: the lines'    *)
(* own surcharge is replaced by the one of the package's configuration     *)
(* where the package says so; a credit of technology that is free pays its *)
(* surcharge once.                                                         *)
calcularTotalExtraOrdinario(ls, paquete) ==
    LET concepts == {d.concepto : d \in {e \in paquete.detalle : e.ext}}
        Charged(l) ==
            LET aumento  == IF l.concepto \in concepts
                              THEN paquete.config.porcentajeExt ELSE l.aumento
                quantity == IF l.concepto = TECHNOLOGY_CREDIT_CONCEPT_ID
                                 /\ normalizeRate(l.descuento) = 100
                              THEN 1 ELSE l.cantidad
            IN  subTotalSinAumento(l) + l.valor * quantity * safeAumento(aumento)
    IN  SumOver(Charged, ls)

(* generarCodigoBarras: whole pesos, ten digits. *)
MathRound(v) == (v + 50) \div 100

(* The last day of the month, days being counted from 0 and months having  *)
(* all the same length; the months asked for are always 1.                 *)
generateEndDatePayment(hoy, mes)        == (hoy \div mes) * mes + mes - 1

-----------------------------------------------------------------------------
(* Which discounts count. *)
isGratuityDiscount(d) == d.categoria = GRATUITY_DISCOUNT_CATEGORY_ID

isDiscountApplicableToEnrollment_AnyLevel(d, m) == d.matricula \in {0, m.matricula}
isDiscountApplicableToEnrollment(d, m) ==
    /\ d.matricula \in {0, m.matricula}
    /\ ~ (isGratuityDiscount(d) /\ m.nivel \in GRATUITY_INELIGIBLE_LEVEL_CODES)

filterDiscountsForEnrollment(ds, m) ==
    {d \in ds : isDiscountApplicableToEnrollment(d, m)}

shouldReplaceDiscount(current, candidate) ==
    \/ candidate.fecha > current.fecha
    \/ candidate.fecha = current.fecha /\ candidate.id > current.id

deduplicateDiscountsByCategory(ds) ==
    {d \in ds : d.categoria = 0 \/ \A e \in ds :
        e.categoria = d.categoria => ~ shouldReplaceDiscount(d, e)}

(* Specializations: only three categories, and only when the discount      *)
(* names the very enrolment.                                               *)
filterDiscountsForPackage(m, ds, isSpecialization) ==
    IF ~ isSpecialization THEN ds
    ELSE {d \in ds : /\ d.accion = 1
                     /\ d.categoria \in SPECIALIZATION_ALLOWED_DISCOUNT_CATEGORY_IDS
                     /\ ~ isGratuityDiscount(d)
                     /\ d.matricula = m.matricula
                     /\ d.pago = 1}

(* The rates a set of discounts adds up to: accion 0 raises, 1 lowers. *)
Rate(ds, accion) == SumOver(LAMBDA d : d.porcentaje, {d \in ds : d.accion = accion})

resolveEnrollmentPaymentMode(creditos, minCreditos) ==
    IF creditos > 0 /\ creditos <= minCreditos THEN "INDIVIDUAL" ELSE "COMPLETO"

-----------------------------------------------------------------------------
(* The lines of an invoice from the details of its package.                *)
createDetailInvoice(p) ==
    LET Quantity(d) == IF p.matricula /\ d.concepto \notin INDIVIDUAL_CREDIT_CONCEPT_IDS
                         THEN d.cantidad ELSE p.quantity
    IN  {[concepto  |-> d.concepto,
          valor     |-> d.valor,
          cantidad  |-> IF Quantity(d) < 1 THEN 1 ELSE Quantity(d),
          aumento   |-> IF d.ext THEN p.aumentoExtra + d.aumento ELSE d.aumento,
          descuento |-> normalizeRate(IF d.ext \/ d.concepto \in p.externos
                                        THEN p.descuentoExtra + d.descuento ELSE d.descuento)]
            : d \in p.detalle}
=============================================================================
