------------------------------ MODULE CashDesk ------------------------------
(***************************************************************************)
(* The whole of a payment and of a reversal: SysLedger and DiscountBilling *)
(* put together in the order of InvoiceService.registerPaymentCash and     *)
(* reversePayment.  A payment that is committed reads its discounts, waits *)
(* for the ledger, bills the discounts and only then is answered; a        *)
(* reversal is answered at once and leaves the clean-up of the ledger and  *)
(* the release of the discounts to themselves.                             *)
(*                                                                         *)
(* A task is one such handler, with its part in the ledger (lpc) and its   *)
(* part in the discounts (dpc).  The components only rely on what they are *)
(* told; here it is the banks that keep the calls on an invoice apart, by  *)
(* waiting for an answer, and the answer comes when the code gives it.     *)
(***************************************************************************)
EXTENDS Integers

CONSTANTS Invoices, Tasks, Nadie,
          Students, StudentOf, MaxId, MaxPagos,      \* of the ledger
          Discounts, Matching, Category, Rank, Unicos, \* of the discounts
          MaxFaults  \* failed calls and crashes, in each component (bound)

ASSUME DeskAssumption ==
    /\ Nadie \notin Invoices
    /\ StudentOf \in [Invoices -> Students]
    /\ MaxId \in Nat \ {0} /\ MaxPagos \in Nat /\ MaxFaults \in Nat
    /\ Matching \in [Invoices -> SUBSET Discounts]
    /\ Category \in [Discounts -> Nat] /\ Rank \in [Discounts -> Nat]
    /\ \A d, e \in Discounts : Rank[d] = Rank[e] => d = e
    /\ Unicos \subseteq {"factura", "soporte"}

VARIABLES pago, anioPago, verify, headers, details, terceros,
          lpc, job, todo, entradas, anio, activo, reversed, lfaults,
          cobros, estado, filas, dpc, inv, leidos, fallidos, dfaults,
          llamadas,  \* handlers whose call to the ledger was made
          esperan    \* do these banks wait for the clean-ups as well?

lvars == <<pago, anioPago, verify, headers, details, terceros,
           lpc, job, todo, entradas, anio, activo, reversed, lfaults>>
dvars == <<cobros, estado, filas, dpc, inv, leidos, fallidos, dfaults>>
desk  == <<llamadas, esperan>>
vars  == <<lvars, dvars, desk>>

L == INSTANCE SysLedger WITH
    pc <- lpc, pagos <- entradas, faults <- lfaults, None <- Nadie,
    Previos <- {}, Poison <- {}, CronTasks <- {}, Limit <- 1, MaxAnio <- 0,
    orden <- {}, Ordenes <- {{}}

D == INSTANCE DiscountBilling WITH
    pc <- dpc, pagos <- cobros, faults <- dfaults,
    Apart <- "nothing", Repay <- FALSE

Init == L!Init /\ D!Init /\ llamadas = {} /\ esperan \in BOOLEAN

-----------------------------------------------------------------------------
(* What a bank waits for before it sends anything on an invoice: the       *)
(* answer to a payment, and, if it takes its time, what a reversal leaves  *)
(* behind.                                                                 *)
Answered(i) == \A t \in Tasks : dpc[t] \in D!Billing => inv[t] # i
Cleaned(i)  == ~ L!DeletingOn(i) /\ D!ReleasingOn(i) = {}
Sends(i)    == Answered(i) /\ (esperan => Cleaned(i))

Pay(t, i) ==
    /\ Sends(i)
    /\ L!Pay(i)
    /\ D!Pay(t, i)
    /\ UNCHANGED desk

(* registerInvoiceSysApolo, once the discounts are read. *)
CallLedger(t) ==
    /\ dpc[t] = "bill" /\ t \notin llamadas
    /\ L!StartOne(t, inv[t])
    /\ llamadas' = llamadas \cup {t}
    /\ UNCHANGED <<dvars, esperan>>

(* registerDiscuountInvoice, when that call is over, however it ended. *)
LedgerIsOver_NoAwait(t) == t \in llamadas
LedgerIsOver(t) == t \in llamadas /\ lpc[t] = "idle"

Bill(t) ==
    /\ LedgerIsOver(t)
    /\ D!Bill(t) \/ D!BillConflict(t)
    /\ UNCHANGED <<lvars, desk>>

(* Both clean-ups start with the reversal and go their own ways. *)
Reverse(t, i) ==
    /\ Sends(i)
    /\ L!Reverse(i, t)
    /\ D!Reverse(t, i)
    /\ UNCHANGED desk

(* The components' own steps in between. *)
LedgerStep(t) ==
    /\ L!Step(t) \/ L!Fail(t) \/ L!CommitLost(t)
    /\ UNCHANGED <<dvars, desk>>

DiscountStep(t) ==
    /\ D!FindDiscounts(t) \/ D!FindBilled(t) \/ D!Release(t)
    /\ UNCHANGED <<lvars, desk>>

DiscountFails(t) ==
    /\ dpc[t] = "bill" => LedgerIsOver(t)
    /\ D!Fail(t) \/ D!CommitLost(t)
    /\ UNCHANGED <<lvars, desk>>

Office(d) == (D!Approve(d) \/ D!Withdraw(d)) /\ UNCHANGED <<lvars, desk>>

(* The process dies with all of it. *)
Crash ==
    /\ \/ L!Crash
       \/ UNCHANGED lvars /\ \A t \in Tasks : lpc[t] = "idle"
    /\ \/ D!Crash
       \/ UNCHANGED dvars /\ \A t \in Tasks : ~ D!Active(t)
    /\ UNCHANGED desk

Next ==
    \/ \E t \in Tasks :
          \/ CallLedger(t) \/ LedgerStep(t)
          \/ Bill(t) \/ DiscountStep(t) \/ DiscountFails(t)
          \/ \E i \in Invoices : Pay(t, i) \/ Reverse(t, i)
    \/ \E d \in Discounts : Office(d)
    \/ Crash

Spec == Init /\ [][Next]_vars

-----------------------------------------------------------------------------
(* Both components keep their types. *)
TypeOK == L!TypeOK /\ D!TypeOK /\ llamadas \subseteq Tasks /\ esperan \in BOOLEAN

(* All that was started on an invoice is over, and nothing of it failed. *)
Quiet(i) == Answered(i) /\ Cleaned(i) /\ i \notin fallidos /\ lfaults = 0

(* Banks that only wait for answers may pay an invoice again in the middle *)
(* of its clean-ups, and reverse it again.  Even so, an invoice that ends  *)
(* up unpaid leaves no trace when all of it is over and nothing failed: no *)
(* header and no mark in the ledger, no discount used up by it.            *)
SinPagoSinRastro ==
    TypeOK /\ \A i \in Invoices : cobros[i] = 0 /\ Quiet(i) =>
        /\ \A h \in headers : h.recibo # i
        /\ \A f \in filas : f.inv # i
        /\ verify[i] = "PENDIENTE"

(* With banks that wait for the clean-ups too: an invoice that ends up     *)
(* paid is in the ledger, with the payment in force, or the nightly job    *)
(* still finds it; and no discount counts as billed that stands on none.   *)
PagadaEnLibro ==
    esperan => \A i \in Invoices : cobros[i] > 0 /\ Quiet(i) =>
        /\ \/ \E h \in headers : h.recibo = i /\ h.pago = pago[i]
           \/ verify[i] = "PENDIENTE"
        /\ D!FacturadoConFila

Ordered == INSTANCE SysLedger WITH
    pc <- lpc, pagos <- entradas, faults <- lfaults, None <- Nadie,
    Previos <- {}, Poison <- {}, CronTasks <- {}, Limit <- 1, MaxAnio <- 0,
    orden <- {"sync", "delete", "quiet"}, Ordenes <- {{"sync", "delete", "quiet"}}

(* Such banks call the ledger as its properties on calls kept apart        *)
(* suppose: two calls on an invoice never overlap, because a payment is    *)
(* not answered before its registration is over.                           *)
LibroAparte == Ordered!Init /\ [][esperan => Ordered!Next]_lvars
=============================================================================
