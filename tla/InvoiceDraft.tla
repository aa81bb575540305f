---------------------------- MODULE InvoiceDraft ----------------------------
(***************************************************************************)
(* The invoices of one student in one category, while they are generated   *)
(* (GenerateInvoiceService.generateAndSaveInvoice), consulted and priced   *)
(* again by the banks (ConsultInvoiceService.searchInvoiceForPayment),     *)
(* paid and reversed.                                                      *)
(*                                                                         *)
(* Both writers compute the price, delete the old detail lines and then    *)
(* save invoice and new lines, three calls without a transaction.  A       *)
(* request is one HTTP call, or a bank's consultation and the payment of   *)
(* what it was quoted; an action is one database call or one transaction.  *)
(***************************************************************************)
EXTENDS Integers, FiniteSets, FiniteSetsExt

CONSTANTS Facturas,    \* ids of invoices, in the order they are given out
          Peticiones,  \* requests, each used once
          Precios,     \* what the lines may come to
          Nula,        \* no invoice
          Categoria,   \* ECategoryInvoice of the invoices
          MaxTarifas,  \* changes of price (bound)
          MaxFallas    \* failed calls and crashes (bound)

ASSUME DraftAssumption ==
    /\ Facturas \subseteq Nat
    /\ Nula \notin Facturas
    /\ Precios \subseteq Nat \ {0}
    /\ Precios # {}
    /\ Categoria \in {"MATRICULA", "INSCRIPCION", "OTROS"}
    /\ MaxTarifas \in Nat
    /\ MaxFallas \in Nat

VARIABLES factura,   \* a row of fin_pago
          lineas,    \* rows of fin_detalle_factura, one for the lines of a save
          pagos,     \* rows of fin_detalle_pago that are in force
          tarifa,    \* what the price calculation comes to by now
          pc,        \* where a request stands
          obj,       \* the invoice a request works on
          calculo,   \* the price it has computed or read
          previo,    \* what the lines it has read add up to
          sueltos,   \* rows of the invoice that the save's arrays do not have
          visto,     \* the estado_id the save has compared with
          reversos,  \* history: the invoices a payment was taken back from
          aparte,    \* what this environment keeps apart
          tarifas, fallas   \* how often the price changed, a fault occurred

tables  == <<factura, lineas, pagos>>
locals  == <<obj, calculo, previo, sueltos, visto>>
counts  == <<reversos, aparte, tarifas, fallas>>
vars    == <<tables, tarifa, pc, locals, counts>>

Estados == {"ninguna", "PAGO_INICADO", "PAGO_FINALIZADO_OK"}

Row(f, p, v) == [fac |-> f, por |-> p, valor |-> v]
Rows         == [fac : Facturas, por : Peticiones, valor : Nat]

LineasDe(f) == {l \in lineas : l.fac = f}
PagosDe(f)  == {g \in pagos : g.fac = f}
Suma(rows)  == MapThenSumSet(LAMBDA r : r.valor, rows)

(* Where a request writes lines, pays, or is at work at all. *)
Writing  == {"borra", "lee", "guarda"}
Paying   == {"paga: busca", "paga"}
Creating == {"calcula", "duplicado", "inserta", "borra", "lee", "guarda"}
Calling  == {"consulta", "recalcula", "reborra", "relee", "reguarda", "cotizada"}
Working  == Creating \cup Calling \cup Paying

Active(p)   == pc[p] \in Working
WritesOn(f) == {p \in Peticiones : obj[p] = f /\ pc[p] \in Writing \cup (Calling \ {"cotizada"})}
PaysOn(f)   == {p \in Peticiones : obj[p] = f /\ pc[p] \in Paying}

Init == /\ factura = [f \in Facturas |-> [estado |-> "ninguna", valor |-> 0, reciente |-> TRUE]]
        /\ lineas = {}
        /\ pagos = {}
        /\ tarifa \in Precios
        /\ pc = [p \in Peticiones |-> "idle"]
        /\ obj = [p \in Peticiones |-> Nula]
        /\ calculo = [p \in Peticiones |-> 0]
        /\ previo = [p \in Peticiones |-> 0]
        /\ sueltos = [p \in Peticiones |-> {}]
        /\ visto = [p \in Peticiones |-> "ninguna"]
        /\ reversos = {}
        /\ aparte \in {"nada", "pagos", "todo"}
        /\ tarifas = 0 /\ fallas = 0

Goto(p, l) == pc' = [pc EXCEPT ![p] = l]

-----------------------------------------------------------------------------
(* POST invoice/create.  mainGenerateInvoice reads package, enrolment,     *)
(* discounts and dates and comes to a price; nothing is written.           *)
Create(p) ==
    /\ pc[p] = "idle"
    /\ aparte = "todo" => \A q \in Peticiones : ~ Active(q)
    /\ Goto(p, "calcula")
    /\ UNCHANGED <<tables, tarifa, locals, counts>>

Price(p) ==
    /\ pc[p] = "calcula"
    /\ calculo' = [calculo EXCEPT ![p] = tarifa]
    /\ Goto(p, "duplicado")
    /\ UNCHANGED <<tables, tarifa, obj, previo, sueltos, visto, counts>>

(* findDuplicateInvoice: the latest invoice of the last 30 days without a  *)
(* payment, for enrolments and inscriptions only.                          *)
Reusable_Paid ==
    IF Categoria \in {"MATRICULA", "INSCRIPCION"}
      THEN {f \in Facturas : factura[f].estado # "ninguna" /\ factura[f].reciente}
      ELSE {}
Reusable_Once ==
    IF Categoria = "INSCRIPCION"
      THEN {f \in Facturas : /\ factura[f].estado # "ninguna"
                             /\ factura[f].reciente
                             /\ PagosDe(f) = {}}
      ELSE {}
Reusable ==
    IF Categoria \in {"MATRICULA", "INSCRIPCION"}
      THEN {f \in Facturas : /\ factura[f].estado # "ninguna"
                             /\ factura[f].reciente
                             /\ PagosDe(f) = {}}
      ELSE {}

FindDuplicate(p) ==
    /\ pc[p] = "duplicado"
    /\ IF Reusable = {}
         THEN /\ Goto(p, "inserta")
              /\ UNCHANGED obj
         ELSE /\ obj' = [obj EXCEPT ![p] = Max(Reusable)]
              /\ aparte # "nada" => PaysOn(Max(Reusable)) = {}
              /\ Goto(p, "borra")
    /\ UNCHANGED <<tables, tarifa, calculo, previo, sueltos, visto, counts>>

(* save of a new invoice: the row and its lines in one transaction. *)
InsertOn(p, f) ==
    /\ factura' = [factura EXCEPT ![f] =
            [estado |-> "PAGO_INICADO", valor |-> calculo[p], reciente |-> TRUE]]
    /\ lineas' = lineas \cup {Row(f, p, calculo[p])}
    /\ UNCHANGED pagos

Insert(p) ==
    /\ pc[p] = "inserta"
    /\ \E f \in Facturas :
          /\ \A g \in Facturas : g < f <=> factura[g].estado # "ninguna"
          /\ InsertOn(p, f)
          /\ obj' = [obj EXCEPT ![p] = f]
    /\ Goto(p, "fin")
    /\ UNCHANGED <<tarifa, calculo, previo, sueltos, visto, counts>>

-----------------------------------------------------------------------------
(* A bank's consultation.  findById joins the lines, so an invoice without *)
(* any is not found; with a payment it is refused.                         *)
Consult(p, f) ==
    /\ pc[p] = "idle"
    /\ factura[f].estado # "ninguna"
    /\ aparte = "todo" => \A q \in Peticiones : ~ Active(q)
    /\ aparte # "nada" => PaysOn(f) = {}
    /\ obj' = [obj EXCEPT ![p] = f]
    /\ Goto(p, "consulta")
    /\ UNCHANGED <<tables, tarifa, calculo, previo, sueltos, visto, counts>>

(* Only enrolments are priced again; others cost what their lines add up to. *)
ReadInvoice_Unpaid(p) ==
    LET f == obj[p] IN
    /\ pc[p] = "consulta"
    /\ IF LineasDe(f) = {}
         THEN Goto(p, "fin") /\ UNCHANGED <<calculo, previo>>
         ELSE /\ previo' = [previo EXCEPT ![p] = Suma(LineasDe(f))]
              /\ calculo' = [calculo EXCEPT ![p] = Suma(LineasDe(f))]
              /\ Goto(p, IF Categoria = "MATRICULA" THEN "recalcula" ELSE "cotizada")
    /\ UNCHANGED <<tables, tarifa, obj, sueltos, visto, counts>>
ReadInvoice(p) ==
    LET f == obj[p] IN
    /\ pc[p] = "consulta"
    /\ IF LineasDe(f) = {} \/ PagosDe(f) # {}
         THEN Goto(p, "fin") /\ UNCHANGED <<calculo, previo>>
         ELSE /\ previo' = [previo EXCEPT ![p] = Suma(LineasDe(f))]
              /\ calculo' = [calculo EXCEPT ![p] = Suma(LineasDe(f))]
              /\ Goto(p, IF Categoria = "MATRICULA" THEN "recalcula" ELSE "cotizada")
    /\ UNCHANGED <<tables, tarifa, obj, sueltos, visto, counts>>

(* The price of today; if it is still the same nothing is written. *)
PriceAgain(p) ==
    /\ pc[p] = "recalcula"
    /\ calculo' = [calculo EXCEPT ![p] = tarifa]
    /\ Goto(p, IF tarifa = previo[p] THEN "cotizada" ELSE "reborra")
    /\ UNCHANGED <<tables, tarifa, obj, previo, sueltos, visto, counts>>

-----------------------------------------------------------------------------
(* Both writers: delete the lines, each statement its own transaction. *)
EraseLines(p) ==
    /\ pc[p] \in {"borra", "reborra"}
    /\ lineas' = lineas \ LineasDe(obj[p])
    /\ Goto(p, IF pc[p] = "borra" THEN "lee" ELSE "relee")
    /\ UNCHANGED <<factura, pagos, tarifa, locals, counts>>

(* save reads the invoice as it is in the database, before its transaction, *)
(* and compares: the entity has new lines only and no payments, since both  *)
(* writers found none.                                                      *)
LoadForSave_LinesOnly(p) ==
    /\ pc[p] \in {"lee", "relee"}
    /\ sueltos' = [sueltos EXCEPT ![p] = LineasDe(obj[p])]
    /\ visto' = [visto EXCEPT ![p] = factura[obj[p]].estado]
    /\ Goto(p, IF pc[p] = "lee" THEN "guarda" ELSE "reguarda")
    /\ UNCHANGED <<tables, tarifa, obj, calculo, previo, counts>>
LoadForSave(p) ==
    /\ pc[p] \in {"lee", "relee"}
    /\ sueltos' = [sueltos EXCEPT ![p] = LineasDe(obj[p]) \cup PagosDe(obj[p])]
    /\ visto' = [visto EXCEPT ![p] = factura[obj[p]].estado]
    /\ Goto(p, IF pc[p] = "lee" THEN "guarda" ELSE "reguarda")
    /\ UNCHANGED <<tables, tarifa, obj, calculo, previo, counts>>

(* In the transaction the rows it misses are detached (pago_id := NULL),   *)
(* which the column refuses; only columns that differ are written.         *)
Refused(p) == sueltos[p] \cap (lineas \cup pagos) # {}

SaveOn(p) ==
    LET f == obj[p] IN
    /\ pc[p] \in {"guarda", "reguarda"}
    /\ ~ Refused(p)
    /\ factura' = [factura EXCEPT
            ![f].valor = calculo[p],
            ![f].estado = IF visto[p] = "PAGO_INICADO" THEN @ ELSE "PAGO_INICADO"]
    /\ lineas' = lineas \cup {Row(f, p, calculo[p])}
    /\ UNCHANGED pagos

Save(p) ==
    /\ SaveOn(p)
    /\ Goto(p, IF pc[p] = "guarda" THEN "fin" ELSE "cotizada")
    /\ UNCHANGED <<tarifa, locals, counts>>

SaveRefused(p) ==
    /\ pc[p] \in {"guarda", "reguarda"}
    /\ Refused(p)
    /\ Goto(p, "fin")
    /\ UNCHANGED <<tables, tarifa, locals, counts>>

-----------------------------------------------------------------------------
(* The client of a quote pays it at the bank, or never does. *)
GoPay(p) ==
    /\ pc[p] = "cotizada"
    /\ aparte # "nada" => WritesOn(obj[p]) \ {p} = {}
    /\ Goto(p, "paga: busca")
    /\ UNCHANGED <<tables, tarifa, locals, counts>>

GiveUp(p) ==
    /\ pc[p] = "cotizada"
    /\ Goto(p, "fin")
    /\ UNCHANGED <<tables, tarifa, locals, counts>>

(* registrarFactura: findById again, and an invoice without lines is not found. *)
FindForPayment(p) ==
    /\ pc[p] = "paga: busca"
    /\ Goto(p, IF LineasDe(obj[p]) = {} THEN "fin" ELSE "paga")
    /\ UNCHANGED <<tables, tarifa, locals, counts>>

(* registerPaymentInvoiceSigedin: whatever the invoice's value and state. *)
PayOn(p) ==
    LET f == obj[p] IN
    /\ pc[p] = "paga"
    /\ pagos' = pagos \cup {Row(f, p, calculo[p])}
    /\ factura' = [factura EXCEPT ![f].estado = "PAGO_FINALIZADO_OK"]
    /\ UNCHANGED lineas

Pay(p) ==
    /\ PayOn(p)
    /\ Goto(p, "fin")
    /\ UNCHANGED <<tarifa, locals, counts>>

-----------------------------------------------------------------------------
(* The environment: a bank takes one payment back, 30 days pass since an    *)
(* invoice was created, credits or discounts or the calendar change the     *)
(* price, a call fails before or after it was committed, the process ends.  *)
Reverse(f) ==
    /\ aparte = "todo" => \A q \in Peticiones : ~ Active(q)
    /\ \E g \in PagosDe(f) : pagos' = pagos \ {g}
    /\ factura' = [factura EXCEPT ![f].estado = "PAGO_INICADO"]
    /\ reversos' = reversos \cup {f}
    /\ UNCHANGED <<lineas, tarifa, pc, locals, aparte, tarifas, fallas>>

Expire(f) ==
    /\ factura[f].estado # "ninguna"
    /\ factura[f].reciente
    /\ factura' = [factura EXCEPT ![f].reciente = FALSE]
    /\ UNCHANGED <<lineas, pagos, tarifa, pc, locals, counts>>

ChangePrice ==
    /\ tarifas < MaxTarifas
    /\ tarifas' = tarifas + 1
    /\ tarifa' \in Precios \ {tarifa}
    /\ UNCHANGED <<tables, pc, locals, reversos, aparte, fallas>>

Fail(p) ==
    /\ fallas < MaxFallas
    /\ Active(p)
    /\ fallas' = fallas + 1
    /\ Goto(p, "fin")
    /\ UNCHANGED <<tables, tarifa, locals, reversos, aparte, tarifas>>

CommitLost(p) ==
    /\ fallas < MaxFallas
    /\ fallas' = fallas + 1
    /\ \/ SaveOn(p)
       \/ PayOn(p)
       \/ /\ pc[p] \in {"borra", "reborra"}
          /\ lineas' = lineas \ LineasDe(obj[p])
          /\ UNCHANGED <<factura, pagos>>
    /\ Goto(p, "fin")
    /\ UNCHANGED <<tarifa, locals, reversos, aparte, tarifas>>

Crash ==
    /\ fallas < MaxFallas
    /\ fallas' = fallas + 1
    /\ pc' = [p \in Peticiones |-> IF Active(p) THEN "fin" ELSE pc[p]]
    /\ UNCHANGED <<tables, tarifa, locals, reversos, aparte, tarifas>>

Step(p) ==
    \/ Price(p) \/ FindDuplicate(p) \/ Insert(p)
    \/ ReadInvoice(p) \/ PriceAgain(p)
    \/ EraseLines(p) \/ LoadForSave(p) \/ Save(p) \/ SaveRefused(p)
    \/ FindForPayment(p) \/ Pay(p)

Next ==
    \/ \E p \in Peticiones :
          \/ Create(p) \/ \E f \in Facturas : Consult(p, f)
          \/ Step(p) \/ GoPay(p) \/ GiveUp(p)
          \/ Fail(p) \/ CommitLost(p)
    \/ \E f \in Facturas : Reverse(f) \/ Expire(f)
    \/ ChangePrice
    \/ Crash

Spec == Init /\ [][Next]_vars

-----------------------------------------------------------------------------
(* The rows and the requests keep their types. *)
TypeOK ==
    /\ factura \in [Facturas -> [estado : Estados, valor : Nat, reciente : BOOLEAN]]
    /\ lineas \subseteq Rows
    /\ pagos \subseteq Rows
    /\ tarifa \in Precios
    /\ pc \in [Peticiones -> Working \cup {"idle", "fin"}]
    /\ obj \in [Peticiones -> Facturas \cup {Nula}]
    /\ calculo \in [Peticiones -> Nat]
    /\ previo \in [Peticiones -> Nat]
    /\ sueltos \in [Peticiones -> SUBSET Rows]
    /\ visto \in [Peticiones -> Estados]
    /\ reversos \subseteq Facturas
    /\ aparte \in {"nada", "pagos", "todo"}
    /\ tarifas \in 0..MaxTarifas
    /\ fallas \in 0..MaxFallas

(* However a draft is generated and priced again while banks pay it, saving *)
(* it never undoes a payment: an invoice shows as paid while it has a       *)
(* payment, unless one of its payments was taken back, and never without.   *)
EstadoFiel ==
    TypeOK /\ \A f \in Facturas :
        /\ factura[f].estado = "PAGO_FINALIZADO_OK" => PagosDe(f) # {}
        /\ PagosDe(f) # {} /\ f \notin reversos => factura[f].estado = "PAGO_FINALIZADO_OK"

(* With payments of an invoice apart from its writers: an invoice that is   *)
(* paid keeps lines, so that receipt, ledger and reversal still find it.    *)
PagadaConLineas ==
    aparte # "nada" => \A f \in Facturas : PagosDe(f) # {} => LineasDe(f) # {}

(* With requests one at a time: an enrolment or inscription gets a new      *)
(* invoice only when no recent one waits for its payment, even when that    *)
(* one has lost its lines.                                                  *)
NuevaSoloSiNoHay ==
    [][aparte = "todo" => \A f \in Facturas :
        factura[f].estado = "ninguna" /\ factura'[f].estado # "ninguna" =>
            \A g \in Facturas : factura[g].estado # "ninguna" /\ PagosDe(g) = {}
                                => ~ factura[g].reciente]_vars

(* With requests one at a time: the life of an invoice, InvoiceLife.  What *)
(* is paid is then what the lines come to, which receipt and ledger are    *)
(* written from.                                                           *)
Fase(f) ==
    IF factura[f].estado = "ninguna" THEN "ninguna"
    ELSE IF PagosDe(f) # {} THEN "pagada"
    ELSE IF LineasDe(f) # {} THEN "borrador" ELSE "sin lineas"

Life == INSTANCE InvoiceLife WITH
            fase    <- [f \in Facturas |-> Fase(f)],
            precio  <- [f \in Facturas |-> Suma(LineasDe(f))],
            cobrado <- [f \in Facturas |-> Suma(PagosDe(f))]

LifeSpec == Life!Init /\ [][aparte = "todo" => Life!Next]_(Life!vars)
=============================================================================
