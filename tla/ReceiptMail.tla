---------------------------- MODULE ReceiptMail ----------------------------
(***************************************************************************)
(* The receipts of payment: the mail at the end of a payment's handler     *)
(* (InvoiceService.registerPaymentCash), the job that every ten minutes    *)
(* sends what is still pending (TasksService.sendPendingPaymentsToEmail),  *)
(* and the portal's call (POST invoice/send/payment/:id).  All of them     *)
(* send first and then mark the invoice, without waiting for the mark.     *)
(*                                                                         *)
(* A task is one running handler or job; an action is one read, one mail   *)
(* or one update.  SMTP and the rendering of the receipt are external:     *)
(* they succeed or throw.                                                  *)
(***************************************************************************)
EXTENDS Integers, FiniteSets, FiniteSetsExt

CONSTANTS Facturas, Tareas,
          Nula,       \* no invoice
          Malas,      \* invoices whose receipt never renders
          Lote,       \* the limit of findPaymentsOkByDate
          SinPago,    \* no payment in force
          MaxDia,     \* last day (bound)
          MaxPagos,   \* payments of an invoice (bound)
          MaxRecibos, \* where the count of receipts stops (bound)
          MaxFallas   \* failed calls and crashes (bound)

ASSUME MailAssumption ==
    /\ Malas \subseteq Facturas
    /\ Lote \in Nat \ {0}
    /\ Nula \notin Facturas
    /\ SinPago \notin Nat
    /\ {MaxDia, MaxPagos, MaxRecibos, MaxFallas} \subseteq Nat

VARIABLES pago,      \* date of the payment in force, a day or SinPago
          marca,     \* email_send
          dia,       \* today
          aparte,    \* does this environment keep the calls on an invoice apart?
          tipo,      \* what a task runs: "pago", "job" or "portal"
          pc, obj,   \* where a task stands and the invoice it works on
          lote,      \* what a job has still to do
          rinde,     \* which payment of it the rendered receipt is of, or 0
          marcas,    \* updates of email_send that are under way
          recibos,   \* history: unasked receipts of the payment in force
          enviada,   \* history: which payment the last receipt sent was of, or 0
          veces,     \* payments of an invoice; the last one is in force, if any
          fallas     \* faults so far

tasks  == <<tipo, pc, obj, lote, rinde>>
hist   == <<recibos, enviada, veces>>
vars   == <<pago, marca, dia, aparte, tasks, marcas, hist, fallas>>

Tipos == {"pago", "job", "portal"}
Pasos == {"idle", "sigue", "busca", "recibo", "envia"}

Init == /\ pago = [f \in Facturas |-> SinPago]
        /\ marca = [f \in Facturas |-> "PENDIENTE"]
        /\ dia = 0
        /\ aparte \in BOOLEAN
        /\ tipo = [t \in Tareas |-> "portal"]
        /\ pc = [t \in Tareas |-> "idle"]
        /\ obj = [t \in Tareas |-> Nula]
        /\ lote = [t \in Tareas |-> {}]
        /\ rinde = [t \in Tareas |-> 0]
        /\ marcas = {}
        /\ recibos = [f \in Facturas |-> 0]
        /\ enviada = [f \in Facturas |-> 0]
        /\ veces = [f \in Facturas |-> 0]
        /\ fallas = 0

Busy(f) == f \in marcas \/ \E t \in Tareas : pc[t] # "idle" /\ f \in lote[t] \cup {obj[t]}
Free(f) == aparte => ~ Busy(f)

(* A task that starts, goes on, or ends; a job ends when its batch does. *)
Start(t, k, f, l) ==
    /\ pc[t] = "idle"
    /\ tipo' = [tipo EXCEPT ![t] = k]
    /\ obj' = [obj EXCEPT ![t] = f]
    /\ pc' = [pc EXCEPT ![t] = l]
    /\ rinde' = rinde
Goto(t, l) == pc' = [pc EXCEPT ![t] = l] /\ UNCHANGED <<tipo, obj, lote>>
Rest(t) == /\ pc' = [pc EXCEPT ![t] = "idle"]
           /\ tipo' = [tipo EXCEPT ![t] = "portal"]
Leave(t) ==
    /\ IF tipo[t] = "job" THEN pc' = [pc EXCEPT ![t] = "sigue"] /\ tipo' = tipo
                          ELSE Rest(t)
    /\ obj' = [obj EXCEPT ![t] = Nula]
    /\ rinde' = [rinde EXCEPT ![t] = 0]
    /\ lote' = lote

-----------------------------------------------------------------------------
(* A payment is committed, with the date the bank gives it; its handler    *)
(* comes to the mail, for an invoice that was read without email_send.     *)
Pay(t, f) ==
    /\ pago[f] = SinPago /\ veces[f] < MaxPagos /\ Free(f)
    /\ \E d \in {dia, dia - 1} : d >= 0 /\ pago' = [pago EXCEPT ![f] = d]
    /\ Start(t, "pago", f, "recibo")
    /\ veces' = [veces EXCEPT ![f] = @ + 1]
    /\ recibos' = [recibos EXCEPT ![f] = 0]
    /\ UNCHANGED <<marca, dia, aparte, lote, marcas, enviada, fallas>>

(* A reversal takes the payment and leaves email_send alone.  Kept apart,  *)
(* it may still come between the reads of a task, not while a mail that is *)
(* ready waits to go out.                                                  *)
Reverse(f) ==
    /\ pago[f] # SinPago
    /\ aparte => \A t \in Tareas : ~ (pc[t] = "envia" /\ obj[t] = f)
    /\ pago' = [pago EXCEPT ![f] = SinPago]
    /\ UNCHANGED <<marca, dia, aparte, tasks, marcas, hist, fallas>>

(* A draft that is priced again is saved as pending; both writers refuse   *)
(* an invoice with a payment (InvoiceDraft).                               *)
Redraw(f) ==
    /\ pago[f] = SinPago /\ Free(f)
    /\ marca' = [marca EXCEPT ![f] = "PENDIENTE"]
    /\ UNCHANGED <<pago, dia, aparte, tasks, marcas, hist, fallas>>

(* findPaymentsOkByDate: payments dated today that are still pending, in    *)
(* no order, up to the limit.                                               *)
Pending_Yesterday == {f \in Facturas : pago[f] \in 0..(dia - 1) /\ marca[f] = "PENDIENTE"}
Pending_Any       == {f \in Facturas : pago[f] = dia}
Pending           == {f \in Facturas : pago[f] = dia /\ marca[f] = "PENDIENTE"}

StartJob(t) ==
    /\ \E s \in SUBSET Pending :
          /\ s # {}
          /\ Cardinality(s) = Min({Lote, Cardinality(Pending)})
          /\ \A f \in s : Free(f)
          /\ lote' = [lote EXCEPT ![t] = s]
    /\ Start(t, "job", Nula, "sigue")
    /\ UNCHANGED <<pago, marca, dia, aparte, marcas, hist, fallas>>

JobNext(t) ==
    /\ pc[t] = "sigue"
    /\ IF lote[t] = {}
         THEN Rest(t) /\ UNCHANGED <<obj, lote>>
         ELSE \E f \in lote[t] :
                /\ lote' = [lote EXCEPT ![t] = @ \ {f}]
                /\ obj' = [obj EXCEPT ![t] = f]
                /\ pc' = [pc EXCEPT ![t] = "busca"]
                /\ tipo' = tipo
    /\ UNCHANGED <<pago, marca, dia, aparte, rinde, marcas, hist, fallas>>

(* The portal asks for a receipt, important or not, which decides nothing: *)
(* the invoice is read without email_send.                                 *)
Ask(t, f) ==
    /\ Free(f)
    /\ Start(t, "portal", f, "busca")
    /\ UNCHANGED <<pago, marca, dia, aparte, lote, marcas, hist, fallas>>

-----------------------------------------------------------------------------
(* sendPaymentEmail: the invoice is read without email_send, so that only  *)
(* a missing payment stops it.                                             *)
Find(t) ==
    /\ pc[t] = "busca"
    /\ IF pago[obj[t]] = SinPago THEN Leave(t)
         ELSE Goto(t, "recibo") /\ UNCHANGED rinde
    /\ UNCHANGED <<pago, marca, dia, aparte, marcas, hist, fallas>>

(* getPdfPaymentReceipt reads the invoice again, with its payment. *)
Render(t) == Goto(t, "envia") /\ rinde' = [rinde EXCEPT ![t] = veces[obj[t]]]
Receipt_Stale(t) ==
    /\ pc[t] = "recibo"
    /\ IF obj[t] \in Malas THEN Leave(t) ELSE Render(t)
    /\ UNCHANGED <<pago, marca, dia, aparte, marcas, hist, fallas>>
Receipt(t) ==
    /\ pc[t] = "recibo"
    /\ IF pago[obj[t]] = SinPago \/ obj[t] \in Malas THEN Leave(t) ELSE Render(t)
    /\ UNCHANGED <<pago, marca, dia, aparte, marcas, hist, fallas>>

(* The mail goes out and the mark is left under way. *)
Send(t) ==
    /\ pc[t] = "envia"
    /\ recibos' = [recibos EXCEPT ![obj[t]] =
                     IF tipo[t] \in {"pago", "job"} THEN Min({@ + 1, MaxRecibos}) ELSE @]
    /\ enviada' = [enviada EXCEPT ![obj[t]] = rinde[t]]
    /\ marcas' = marcas \cup {obj[t]}
    /\ Leave(t)
    /\ UNCHANGED <<pago, marca, dia, aparte, veces, fallas>>

(* A failed mail is logged; nothing is marked. *)
SendFails_Marked(t) ==
    /\ pc[t] = "envia"
    /\ fallas < MaxFallas
    /\ fallas' = fallas + 1
    /\ marcas' = marcas \cup {obj[t]}
    /\ Leave(t)
    /\ UNCHANGED <<pago, marca, dia, aparte, hist>>
SendFails(t) ==
    /\ pc[t] = "envia"
    /\ fallas < MaxFallas
    /\ fallas' = fallas + 1
    /\ Leave(t)
    /\ UNCHANGED <<pago, marca, dia, aparte, marcas, hist>>

(* A database read that throws ends the task, or this turn of the job. *)
ReadFails(t) ==
    /\ pc[t] \in {"busca", "recibo"}
    /\ fallas < MaxFallas
    /\ fallas' = fallas + 1
    /\ Leave(t)
    /\ UNCHANGED <<pago, marca, dia, aparte, marcas, hist>>

(* updateStatusEmailSend settles, or fails and is logged. *)
Mark(f) ==
    /\ f \in marcas
    /\ marca' = [marca EXCEPT ![f] = "ENVIADO"]
    /\ marcas' = marcas \ {f}
    /\ UNCHANGED <<pago, dia, aparte, tasks, hist, fallas>>

MarkFails(f) ==
    /\ f \in marcas
    /\ fallas < MaxFallas
    /\ fallas' = fallas + 1
    /\ marcas' = marcas \ {f}
    /\ UNCHANGED <<pago, marca, dia, aparte, tasks, hist>>

Crash ==
    /\ fallas < MaxFallas
    /\ fallas' = fallas + 1
    /\ pc' = [t \in Tareas |-> "idle"] /\ tipo' = [t \in Tareas |-> "portal"]
    /\ obj' = [t \in Tareas |-> Nula]
    /\ lote' = [t \in Tareas |-> {}]
    /\ rinde' = [t \in Tareas |-> 0]
    /\ marcas' = {}
    /\ UNCHANGED <<pago, marca, dia, aparte, hist>>

NextDay ==
    /\ dia < MaxDia
    /\ dia' = dia + 1
    /\ UNCHANGED <<pago, marca, aparte, tasks, marcas, hist, fallas>>

Step(t) == JobNext(t) \/ Find(t) \/ Receipt(t) \/ Send(t)

Next ==
    \/ \E t \in Tareas :
          \/ \E f \in Facturas : Pay(t, f) \/ Ask(t, f)
          \/ StartJob(t) \/ Step(t) \/ SendFails(t) \/ ReadFails(t)
    \/ \E f \in Facturas : Reverse(f) \/ Redraw(f) \/ Mark(f) \/ MarkFails(f)
    \/ Crash \/ NextDay

Spec == Init /\ [][Next]_vars

(* Handlers go on, updates settle, and the scheduler starts the job again  *)
(* and again, on tasks of its own.                                         *)
FairSpec ==
    /\ Spec
    /\ \A t \in Tareas : WF_vars(Step(t))
    /\ \A f \in Facturas : WF_vars(Mark(f))
    /\ SF_vars(\E t \in Tareas : StartJob(t))

-----------------------------------------------------------------------------
(* Payments, marks and tasks keep their types. *)
TypeOK ==
    /\ pago \in [Facturas -> 0..MaxDia \cup {SinPago}]
    /\ marca \in [Facturas -> {"PENDIENTE", "ENVIADO"}]
    /\ dia \in 0..MaxDia /\ aparte \in BOOLEAN
    /\ tipo \in [Tareas -> Tipos]
    /\ pc \in [Tareas -> Pasos] /\ obj \in [Tareas -> Facturas \cup {Nula}]
    /\ \A t \in Tareas : IF pc[t] \in {"busca", "recibo", "envia"}
                           THEN obj[t] \in Facturas ELSE obj[t] = Nula
    /\ lote \in [Tareas -> SUBSET Facturas] /\ rinde \in [Tareas -> 0..MaxPagos]
    /\ marcas \subseteq Facturas
    /\ recibos \in [Facturas -> 0..MaxRecibos]
    /\ enviada \in [Facturas -> 0..MaxPagos]
    /\ veces \in [Facturas -> 0..MaxPagos]
    /\ fallas \in 0..MaxFallas

(* However jobs, handlers and calls overlap, fail or are cut off: an       *)
(* invoice only counts as mailed when a mail of it went out.               *)
MarcaConEnvio == TypeOK /\ \A f \in Facturas : marca[f] = "ENVIADO" => enviada[f] # 0

(* With the calls on an invoice apart and no faults: a payment's handler   *)
(* and the job send one receipt of it between them.                        *)
UnRecibo == aparte /\ fallas = 0 => \A f \in Facturas : recibos[f] <= 1

(* With the calls on an invoice apart, a payment may still be taken back   *)
(* between the reads of a task, or once the list of the job is drawn up:   *)
(* no receipt goes out for it, whatever fails.                             *)
ReciboDePago ==
    [][aparte => \A f \in Facturas : recibos'[f] > recibos[f] => pago[f] # SinPago]_vars

(* A payment dated today that is still pending gets a receipt of its own,  *)
(* if need be from the job after the handler's mail failed, unless it is   *)
(* taken back or the day ends first; also the payments that follow a       *)
(* reversal, where the calls on the invoice are kept apart: otherwise the  *)
(* mark of an earlier receipt may still land on them.                      *)
ReciboDelDia ==
    \A f \in Facturas \ Malas, n \in 1..MaxPagos :
        /\ n = 1 \/ aparte
        /\ veces[f] = n /\ pago[f] = dia /\ marca[f] = "PENDIENTE"
        ~> enviada[f] = n \/ veces[f] # n \/ pago[f] # dia
=============================================================================
