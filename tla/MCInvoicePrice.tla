--------------------------- MODULE MCInvoicePrice ---------------------------
(* InvoicePrice for TLC. *)
EXTENDS InvoicePrice, TLC

CONSTANTS nada, nunca

MCActual == [minCreditos |-> 2, porcentajeExt |-> 15]

Det(c, v, q, e) == [concepto |-> c, valor |-> v, cantidad |-> q,
                    aumento |-> 0, descuento |-> 0, ext |-> e]
Paq(c, cat, prog, ds) == [codigo |-> c, categoria |-> cat, programa |-> prog,
                          config |-> MCActual, detalle |-> ds]

(* Enrolments: by credits and complete, at a level with gratuity, one      *)
(* without, and a specialization with a package of its own.                *)
MCMatriculas ==
    {Paq(1,  1, FALSE, {Det(33, 31, 1, TRUE), Det(4, 7, 1, FALSE)}),
     Paq(2,  1, FALSE, {Det(1, 103, 1, TRUE), Det(33, 31, 1, TRUE), Det(4, 7, 2, FALSE)}),
     Paq(5,  1, FALSE, {Det(52, 200, 1, TRUE)}),
     Paq(33, 1, FALSE, {Det(35, 40, 1, TRUE)}),
     Paq(60, 1, TRUE,  {Det(64, 210, 1, FALSE), Det(4, 7, 1, FALSE)})}

(* Inscriptions, a category OTROS with a concept that has no value, another. *)
MCOtros ==
    {Paq(6,  5, FALSE, {Det(10, 9, 1, TRUE)}),
     Paq(40, 0, FALSE, {Det(70, 0, 1, FALSE), Det(71, 5, 1, FALSE)}),
     Paq(50, 8, FALSE, {Det(80, 11, 1, TRUE), Det(70, 0, 1, FALSE)})}

Dto(i, f, pago, cat, acc, por, mat) ==
    [id |-> i, fecha |-> f, pago |-> pago, categoria |-> cat, accion |-> acc,
     porcentaje |-> por, matricula |-> mat]

(* Gratuity of old, two discounts of one category, one of none. *)
MCDescuentosMatricula == {Dto(1, 1, 1, 13, 1, 100, 0), Dto(2, 1, 1, 2, 1, 10, 1),
                          Dto(3, 2, 1, 2, 1, 25, 1), Dto(4, 1, 1, 0, 1, 15, 0)}
(* A discount and a surcharge of other categories of payment. *)
MCDescuentosOtros == {Dto(6, 1, 8, 3, 1, 30, 0), Dto(7, 1, 5, 4, 0, 5, 0)}

MCPaquetes   == MCMatriculas \cup MCOtros
MCDescuentos == MCDescuentosMatricula \cup MCDescuentosOtros
=============================================================================
