--------------------------- MODULE DiscountBilling ---------------------------
(***************************************************************************)
(* The discounts of students around payments and reversals: InvoiceService *)
(* bills them on an invoice after its payment (registerPaymentCash,        *)
(* registerDiscuountInvoice) and releases them after its reversal          *)
(* (deleteDiscuountInvoice, which is started and not waited for).          *)
(*                                                                         *)
(* The discounts to bill are read right after the payment is committed and *)
(* billed after a call to the ledger; those to release are read on another *)
(* connection than the transaction that releases them.  A task is one such *)
(* call, an action one query or one transaction.                           *)
(***************************************************************************)
EXTENDS Integers

CONSTANTS Invoices,
          Discounts,
          Tasks,        \* calls, each used once
          Nadie,        \* the invoice of a discount that is not billed
          Matching,     \* the discounts of the enrolment of an invoice
          Category,     \* the category of a discount, 0 for none
          Rank,         \* discounts by date and id, later is higher
          Unicos,       \* unique indexes of fin_factura_descuento
          Apart,        \* what the environment keeps apart on one invoice
          Repay,        \* may a paid invoice be paid again (another code)?
          MaxFaults     \* failed calls and crashes (bound)

ASSUME DiscountAssumption ==
    /\ Nadie \notin Invoices
    /\ Matching \in [Invoices -> SUBSET Discounts]
    /\ Category \in [Discounts -> Nat]
    /\ Rank \in [Discounts -> Nat]
    /\ \A d, e \in Discounts : Rank[d] = Rank[e] => d = e
    /\ Unicos \subseteq {"factura", "soporte"}
    /\ Apart \in {"nothing", "releases", "everything"}
    /\ Repay \in BOOLEAN
    /\ MaxFaults \in Nat

VARIABLES pagos,    \* how many payments of an invoice are in force
          estado,   \* porcentaje_estado_id of a discount
          filas,    \* rows of fin_factura_descuento: [by, inv, desc]
          pc,       \* where a task stands
          inv,      \* the invoice a task works on
          leidos,   \* the discounts a task has read
          fallidos, \* history: invoices a call failed on or was cut off
          faults    \* failed calls and crashes so far

tables == <<pagos, estado, filas>>
vars   == <<pagos, estado, filas, pc, inv, leidos, fallidos, faults>>

Estados   == {"PENDIENTE", "APROBADO", "RECHAZADO", "FACTURADO"}
Billing   == {"find", "bill"}
Releasing == {"relFind", "release"}
Active(t) == pc[t] \in Billing \cup Releasing

On(i)          == {t \in Tasks : Active(t) /\ inv[t] = i}
ReleasingOn(i) == {t \in Tasks : pc[t] \in Releasing /\ inv[t] = i}
BilledOn(i)    == {f.desc : f \in {g \in filas : g.inv = i}}

Init == /\ pagos = [i \in Invoices |-> 0]
        /\ estado \in [Discounts -> {"PENDIENTE", "APROBADO"}]
        /\ filas = {}
        /\ pc = [t \in Tasks |-> "idle"]
        /\ inv = [t \in Tasks |-> Nadie]
        /\ leidos = [t \in Tasks |-> {}]
        /\ fallidos = {}
        /\ faults = 0

Goto(t, l) == pc' = [pc EXCEPT ![t] = l]

(* deduplicateDiscountsByCategory: of each category the latest, and all of *)
(* those that have none.                                                   *)
Deduplicated_All(D) == D
Deduplicated(D) ==
    {d \in D : Category[d] = 0 \/ ~ \E e \in D : Category[e] = Category[d] /\ Rank[e] > Rank[d]}

-----------------------------------------------------------------------------
(* The office (outside this program) approves a discount, or withdraws it  *)
(* again, also between the reads and the writes of a payment.  One that is *)
(* turned down at once is for this program as if it stayed PENDIENTE.      *)
Decide(d, from, to) ==
    /\ estado[d] \in from
    /\ estado' = [estado EXCEPT ![d] = to]
    /\ UNCHANGED <<pagos, filas, pc, inv, leidos, fallidos, faults>>

Approve(d)  == Decide(d, {"PENDIENTE", "RECHAZADO"}, "APROBADO")
Withdraw(d) == Decide(d, {"APROBADO"}, "RECHAZADO")

(* A payment is committed: its handler goes on to the discounts. *)
Pay(t, i) ==
    /\ pc[t] = "idle"
    /\ pagos[i] > 0 => Repay
    /\ Apart = "everything" => On(i) = {}
    /\ pagos' = [pagos EXCEPT ![i] = pagos[i] + 1]
    /\ inv' = [inv EXCEPT ![t] = i]
    /\ Goto(t, "find")
    /\ UNCHANGED <<estado, filas, leidos, fallidos, faults>>

(* findForEnrollment and filterDiscountsForEnrollment. *)
FindDiscounts_AnyState(t) ==
    /\ pc[t] = "find"
    /\ leidos' = [leidos EXCEPT ![t] = Deduplicated(Matching[inv[t]])]
    /\ Goto(t, "bill")
    /\ UNCHANGED <<tables, inv, fallidos, faults>>
FindDiscounts(t) ==
    /\ pc[t] = "find"
    /\ leidos' = [leidos EXCEPT ![t] =
            Deduplicated({d \in Matching[inv[t]] : estado[d] = "APROBADO"})]
    /\ Goto(t, "bill")
    /\ UNCHANGED <<tables, inv, fallidos, faults>>

(* The rows to insert break a unique index: two for one invoice, or a      *)
(* discount that has one.                                                  *)
Conflict(t) ==
    \/ /\ "factura" \in Unicos
       /\ \/ \E f \in filas : f.inv = inv[t]
          \/ \E d, e \in leidos[t] : d # e
    \/ /\ "soporte" \in Unicos
       /\ \E f \in filas : f.desc \in leidos[t]

(* registerDiscuountInvoice: the update looks at no state. *)
Charge_RowsOnly(t) ==
    /\ filas' = filas \cup {[by |-> t, inv |-> inv[t], desc |-> d] : d \in leidos[t]}
    /\ UNCHANGED <<pagos, estado>>
Charge(t) ==
    /\ estado' = [d \in Discounts |-> IF d \in leidos[t] THEN "FACTURADO" ELSE estado[d]]
    /\ filas' = filas \cup {[by |-> t, inv |-> inv[t], desc |-> d] : d \in leidos[t]}
    /\ UNCHANGED pagos

Bill(t) ==
    /\ pc[t] = "bill"
    /\ leidos[t] # {} => ~ Conflict(t)
    /\ Charge(t)
    /\ Goto(t, "done")
    /\ UNCHANGED <<inv, leidos, fallidos, faults>>

BillConflict(t) ==
    /\ pc[t] = "bill"
    /\ leidos[t] # {} /\ Conflict(t)
    /\ Goto(t, "done")
    /\ fallidos' = fallidos \cup {inv[t]}
    /\ UNCHANGED <<tables, inv, leidos, faults>>

-----------------------------------------------------------------------------
(* A reversal is committed and starts the release of the discounts. *)
Reverse(t, i) ==
    /\ pc[t] = "idle"
    /\ pagos[i] > 0
    /\ Apart = "everything" => On(i) = {}
    /\ Apart = "releases" => ReleasingOn(i) = {}
    /\ pagos' = [pagos EXCEPT ![i] = pagos[i] - 1]
    /\ inv' = [inv EXCEPT ![t] = i]
    /\ Goto(t, "relFind")
    /\ UNCHANGED <<estado, filas, leidos, fallidos, faults>>

(* The rows of the invoice, read outside the transaction. *)
FindBilled_One(t) ==
    /\ pc[t] = "relFind"
    /\ \E D \in SUBSET BilledOn(inv[t]) :
          /\ BilledOn(inv[t]) # {} => \E d \in D : D = {d}
          /\ leidos' = [leidos EXCEPT ![t] = D]
    /\ Goto(t, "release")
    /\ UNCHANGED <<tables, inv, fallidos, faults>>
FindBilled(t) ==
    /\ pc[t] = "relFind"
    /\ leidos' = [leidos EXCEPT ![t] = BilledOn(inv[t])]
    /\ Goto(t, "release")
    /\ UNCHANGED <<tables, inv, fallidos, faults>>

(* deleteDiscuountInvoice: the discounts read are approved again, and all  *)
(* the rows the invoice has by now are deleted.                            *)
Free_StateOnly(t) ==
    /\ estado' = [d \in Discounts |-> IF d \in leidos[t] THEN "APROBADO" ELSE estado[d]]
    /\ UNCHANGED <<pagos, filas>>
Free(t) ==
    /\ estado' = [d \in Discounts |-> IF d \in leidos[t] THEN "APROBADO" ELSE estado[d]]
    /\ filas' = {f \in filas : f.inv # inv[t]}
    /\ UNCHANGED pagos

Release(t) ==
    /\ pc[t] = "release"
    /\ Free(t)
    /\ Goto(t, "done")
    /\ UNCHANGED <<inv, leidos, fallidos, faults>>

-----------------------------------------------------------------------------
(* A call fails and its task ends; a transaction is rolled back, and the   *)
(* false it returns is looked at by nobody.                                *)
Fail(t) ==
    /\ faults < MaxFaults
    /\ faults' = faults + 1
    /\ Active(t)
    /\ Goto(t, "done")
    /\ fallidos' = fallidos \cup {inv[t]}
    /\ UNCHANGED <<tables, inv, leidos>>

(* The connection is lost on the commit: applied, but taken for a failure. *)
CommitLost(t) ==
    /\ faults < MaxFaults
    /\ faults' = faults + 1
    /\ \/ pc[t] = "bill" /\ (leidos[t] # {} => ~ Conflict(t)) /\ Charge(t)
       \/ pc[t] = "release" /\ Free(t)
    /\ Goto(t, "done")
    /\ fallidos' = fallidos \cup {inv[t]}
    /\ UNCHANGED <<inv, leidos>>

(* The process dies with every task in it. *)
Crash ==
    /\ faults < MaxFaults
    /\ \E t \in Tasks : Active(t)
    /\ faults' = faults + 1
    /\ pc' = [t \in Tasks |-> IF Active(t) THEN "done" ELSE pc[t]]
    /\ fallidos' = fallidos \cup {inv[t] : t \in {s \in Tasks : Active(s)}}
    /\ UNCHANGED <<tables, inv, leidos>>

Step(t) ==
    \/ FindDiscounts(t)
    \/ Bill(t)
    \/ BillConflict(t)
    \/ FindBilled(t)
    \/ Release(t)

Next ==
    \/ Crash
    \/ \E d \in Discounts : Approve(d) \/ Withdraw(d)
    \/ \E t \in Tasks : \/ Step(t)
                        \/ Fail(t)
                        \/ CommitLost(t)
                        \/ \E i \in Invoices : Pay(t, i) \/ Reverse(t, i)

Spec == Init /\ [][Next]_vars

-----------------------------------------------------------------------------
TypeOK ==
    /\ pagos \in [Invoices -> Nat]
    /\ estado \in [Discounts -> Estados]
    /\ filas \subseteq [by : Tasks, inv : Invoices, desc : Discounts]
    /\ pc \in [Tasks -> Billing \cup Releasing \cup {"idle", "done"}]
    /\ inv \in [Tasks -> Invoices \cup {Nadie}]
    /\ leidos \in [Tasks -> SUBSET Discounts]
    /\ fallidos \subseteq Invoices
    /\ faults \in Nat

(* With the discount's unique index, and no two releases of one invoice at *)
(* once, a discount that stands on an invoice is never free to be billed   *)
(* on another one, however payments and reversals of all invoices overlap, *)
(* fail or are cut off.                                                    *)
FilaFacturada ==
    \A f \in filas : estado[f.desc] = "FACTURADO"

(* With the calls on one invoice kept apart, a discount that counts as     *)
(* billed stands on an invoice: none is used up for nothing, whatever      *)
(* fails.                                                                  *)
FacturadoConFila ==
    \A d \in Discounts : estado[d] = "FACTURADO" => \E f \in filas : f.desc = d

(* With the calls on one invoice kept apart, an invoice that is not paid   *)
(* and on which nothing runs or has failed keeps no discount.              *)
LibreTrasReverso ==
    \A i \in Invoices \ fallidos :
        (pagos[i] = 0 /\ On(i) = {}) => BilledOn(i) = {}

(* With an invoice paid once at a time and nothing failing, no two         *)
(* discounts of one category are ever billed on it, although the second    *)
(* one becomes eligible as soon as the first is billed, and others are     *)
(* approved meanwhile.                                                     *)
UnaPorCategoria ==
    \A f, g \in filas :
        (f.inv = g.inv /\ f.inv \notin fallidos /\ f # g) =>
            Category[f.desc] = 0 \/ Category[f.desc] # Category[g.desc]

(* With the calls on one invoice kept apart, billing and release implement *)
(* the life of a discount.                                                 *)
Titular(d) == IF \E f \in filas : f.desc = d
                THEN (CHOOSE f \in filas : f.desc = d).inv
                ELSE Nadie
Life == INSTANCE DiscountLife WITH titular <- [d \in Discounts |-> Titular(d)]
LifeSpec == Life!Spec
=============================================================================
