------------------------------ MODULE Payments ------------------------------
(***************************************************************************)
(* Registration and reversal of cash payments: the BBVA and Banco Popular  *)
(* controllers, InvoiceService and DetailPaymentRepository over the        *)
(* SIGEDIN database.                                                       *)
(*                                                                         *)
(* A handler is a chain of awaits, so its database calls interleave with   *)
(* those of every other handler: one action is one call, or one            *)
(* transaction, together with the code that runs up to the next await.     *)
(* A code stands for the pair (codigo_transaccion, valor_pagado) that the  *)
(* repository matches.  Time runs in ticks of 12 hours, two to a day.      *)
(***************************************************************************)
EXTENDS Integers

CONSTANTS Invoices,     \* invoices with detail lines, the ones findById sees
          Codes,        \* (transaction code, value) pairs
          Requests,     \* HTTP requests, each used once
          Normal,       \* normalizePopularTransactionCode on codes
          FechaLimite,  \* the due day of an invoice
          MaxLag,       \* days the date in a request may lag behind (bound)
          MaxNow,       \* last tick of the clock (bound)
          MaxCrashes,   \* process crashes (bound)
          Overlap       \* may requests on one invoice overlap?

ASSUME PaymentsAssumption ==
    /\ Invoices # {} /\ Codes # {}
    /\ Normal \in [Codes -> Codes]
    /\ FechaLimite \in [Invoices -> Int]
    /\ MaxLag \in Nat /\ MaxNow \in Nat /\ MaxCrashes \in Nat
    /\ Overlap \in BOOLEAN

VARIABLES now,       \* the server clock
          estadoId,  \* factura.estado_id
          payments,  \* rows of detalle_pago
          pc,        \* where the handler of a request stands
          payload,   \* what the handler of a request works on
          found,     \* rows a reversal read before its transaction
          reply,     \* severity answered to the bank
          applied,   \* history: requests whose transaction was committed
          crashes    \* crashes so far

vars == <<now, estadoId, payments, pc, payload, found, reply, applied, crashes>>

Estados  == {"PAGO_INICIADO", "PAGO_FINALIZADO_OK"}
Banks    == {"bbva", "popular"}
Replies  == {"none", "INFORMATIVE", "WARNING", "ERROR"}
Payment  == [id : Requests, inv : Invoices, code : Codes, fecha : Int]
Payloads == [op : {"register", "reverse"}, bank : Banks, inv : Invoices,
             raw : Codes, code : Codes, fecha : Int]
InFlight == {"checking", "recording", "recorded", "finding", "deleting"}

Active(r) == pc[r] \in InFlight

(* The DTOs keep the day of a date and add the server's time of day. *)
Today    == now \div 2
Stamp(d) == (2 * d) + (now % 2)

-----------------------------------------------------------------------------
Blank == [op |-> "register", bank |-> "bbva", fecha |-> 0,
          inv  |-> CHOOSE i \in Invoices : TRUE,
          raw  |-> CHOOSE c \in Codes : TRUE,
          code |-> CHOOSE c \in Codes : TRUE]

Init == /\ now = 0
        /\ estadoId = [i \in Invoices |-> "PAGO_INICIADO"]
        /\ payments = {}
        /\ pc = [r \in Requests |-> "idle"]
        /\ payload = [r \in Requests |-> Blank]
        /\ found = [r \in Requests |-> {}]
        /\ reply = [r \in Requests |-> "none"]
        /\ applied = {}
        /\ crashes = 0

Go(r, l) == /\ pc' = [pc EXCEPT ![r] = l]
            /\ UNCHANGED reply

Answer(r, s) == /\ pc' = [pc EXCEPT ![r] = "done"]
                /\ reply' = [reply EXCEPT ![r] = s]

(* findPaymentsForReverse: rows of the invoice with the code and the value *)
Matching(r) == {p \in payments : p.inv = payload[r].inv /\ p.code = payload[r].code}

(* duration.asHours() < 12, for a row the reversal found *)
InWindow_Inclusive(r, p) == payload[r].fecha - p.fecha <= 1
InWindow(r, p) == payload[r].fecha - p.fecha < 1

(* One request in flight per invoice, unless requests may overlap. *)
Admitted(i) == Overlap \/ \A s \in Requests : Active(s) => payload[s].inv # i

Tick == /\ now < MaxNow
        /\ now' = now + 1
        /\ UNCHANGED <<estadoId, payments, pc, payload, found, reply, applied, crashes>>

-----------------------------------------------------------------------------
(* Requests as they come in. *)

(* The code a registration stores: Popular's is normalised, BBVA's is not. *)
Stored(bank, raw) == IF bank = "popular" THEN Normal[raw] ELSE raw

Receive(r, op, bank, i, raw, code, lag) ==
    /\ pc[r] = "idle"
    /\ Admitted(i)
    /\ payload' = [payload EXCEPT ![r] =
            [op |-> op, bank |-> bank, inv |-> i, raw |-> raw, code |-> code,
             fecha |-> Stamp(Today - lag)]]
    /\ UNCHANGED <<now, estadoId, payments, found, applied, crashes>>

ReceiveRegister(r, bank, i, raw, lag) ==
    /\ Receive(r, "register", bank, i, raw, Stored(bank, raw), lag)
    /\ bank = "popular" => Today <= FechaLimite[i]
    /\ Go(r, "checking")

(* Only Popular's controller looks at the due date. *)
RejectExpired(r, i, raw, lag) ==
    /\ Receive(r, "register", "popular", i, raw, Stored("popular", raw), lag)
    /\ Today > FechaLimite[i]
    /\ Answer(r, "WARNING")

(* Both controllers reverse the code as it came; Popular's may try again. *)
ReceiveReverse(r, bank, i, raw, lag) ==
    /\ Receive(r, "reverse", bank, i, raw, raw, lag)
    /\ Go(r, "finding")

-----------------------------------------------------------------------------
(* registerPaymentCash *)

(* The duplicate check reads outside the transaction that inserts. *)
CheckDuplicate_Skipped(r) ==
    /\ pc[r] = "checking"
    /\ Go(r, "recording")
    /\ UNCHANGED <<now, estadoId, payments, payload, found, applied, crashes>>
CheckDuplicate(r) ==
    /\ pc[r] = "checking"
    /\ IF Matching(r) = {} THEN Go(r, "recording") ELSE Answer(r, "WARNING")
    /\ UNCHANGED <<now, estadoId, payments, payload, found, applied, crashes>>

Insert_RowOnly(r) ==
    /\ payments' = payments \cup {[id |-> r, inv |-> payload[r].inv,
                                   code |-> payload[r].code, fecha |-> payload[r].fecha]}
    /\ applied' = applied \cup {r}
    /\ UNCHANGED estadoId
Insert(r) ==
    /\ payments' = payments \cup {[id |-> r, inv |-> payload[r].inv,
                                   code |-> payload[r].code, fecha |-> payload[r].fecha]}
    /\ estadoId' = [estadoId EXCEPT ![payload[r].inv] = "PAGO_FINALIZADO_OK"]
    /\ applied' = applied \cup {r}

NoWrite == UNCHANGED <<payments, estadoId, applied>>

RecordOk(r) ==
    /\ pc[r] = "recording"
    /\ Insert(r)
    /\ Go(r, "recorded")
    /\ UNCHANGED <<now, payload, found, crashes>>

(* The transaction fails and its rollback succeeds: false, so WARNING. *)
RecordRollback_AfterCommit(r) ==
    /\ pc[r] = "recording"
    /\ Insert(r)
    /\ Answer(r, "WARNING")
    /\ UNCHANGED <<now, payload, found, crashes>>
RecordRollback(r) ==
    /\ pc[r] = "recording"
    /\ NoWrite
    /\ Answer(r, "WARNING")
    /\ UNCHANGED <<now, payload, found, crashes>>

(* The connection is lost: rollback throws too, so the answer is ERROR,    *)
(* whether or not the server had committed.                                *)
RecordLost(r) ==
    /\ pc[r] = "recording"
    /\ Insert(r) \/ NoWrite
    /\ Answer(r, "ERROR")
    /\ UNCHANGED <<now, payload, found, crashes>>

(* After the commit, reading jsonResponse and the discounts may throw,     *)
(* which answers ERROR; every later failure is swallowed.                  *)
AfterRecord(r) ==
    /\ pc[r] = "recorded"
    /\ \E s \in {"INFORMATIVE", "ERROR"} : Answer(r, s)
    /\ UNCHANGED <<now, estadoId, payments, payload, found, applied, crashes>>

-----------------------------------------------------------------------------
(* reversePayment *)

(* Popular tries the code as it came, then its normalised form. *)
HasSecondTry_Again(r) == /\ payload[r].bank = "popular"
                         /\ Normal[payload[r].raw] # payload[r].raw
HasSecondTry(r) == /\ payload[r].bank = "popular"
                   /\ payload[r].code = payload[r].raw
                   /\ Normal[payload[r].raw] # payload[r].raw

SecondTry_Never(r) == Answer(r, "WARNING") /\ UNCHANGED payload
SecondTry(r) ==
    /\ payload' = [payload EXCEPT ![r].code = Normal[payload[r].raw]]
    /\ Go(r, "finding")

FindNothing(r) ==
    /\ pc[r] = "finding"
    /\ ~ \E p \in Matching(r) : InWindow(r, p)
    /\ IF HasSecondTry(r) THEN SecondTry(r)
                          ELSE Answer(r, "WARNING") /\ UNCHANGED payload
    /\ UNCHANGED <<now, estadoId, payments, found, applied, crashes>>

(* One row in the window is enough to take them all. *)
FindPayments(r) ==
    /\ pc[r] = "finding"
    /\ \E p \in Matching(r) : InWindow(r, p)
    /\ found' = [found EXCEPT ![r] = Matching(r)]
    /\ Go(r, "deleting")
    /\ UNCHANGED <<now, estadoId, payments, payload, applied, crashes>>

(* The rows are deleted by id; the invoice is reset whatever was left. *)
Delete_KeepEstado(r) ==
    /\ payments' = payments \ found[r]
    /\ applied' = applied \cup {r}
    /\ UNCHANGED estadoId
Delete(r) ==
    /\ payments' = payments \ found[r]
    /\ estadoId' = [estadoId EXCEPT ![payload[r].inv] = "PAGO_INICIADO"]
    /\ applied' = applied \cup {r}

DeleteOk(r) ==
    /\ pc[r] = "deleting"
    /\ Delete(r)
    /\ Answer(r, "INFORMATIVE")
    /\ UNCHANGED <<now, payload, found, crashes>>

DeleteRollback(r) ==
    /\ pc[r] = "deleting"
    /\ NoWrite
    /\ Answer(r, "ERROR")
    /\ UNCHANGED <<now, payload, found, crashes>>

DeleteLost(r) ==
    /\ pc[r] = "deleting"
    /\ Delete(r) \/ NoWrite
    /\ Answer(r, "ERROR")
    /\ UNCHANGED <<now, payload, found, crashes>>

-----------------------------------------------------------------------------
(* A query outside a transaction throws: the controller answers ERROR. *)
QueryFails(r) ==
    /\ pc[r] \in {"checking", "finding"}
    /\ Answer(r, "ERROR")
    /\ UNCHANGED <<now, estadoId, payments, payload, found, applied, crashes>>

(* The process dies: nothing in flight is answered, the database stays. *)
Crash ==
    /\ crashes < MaxCrashes
    /\ crashes' = crashes + 1
    /\ pc' = [r \in Requests |-> IF Active(r) THEN "lost" ELSE pc[r]]
    /\ UNCHANGED <<now, estadoId, payments, payload, found, reply, applied>>

Handler(r) ==
    \/ CheckDuplicate(r)
    \/ RecordOk(r)
    \/ AfterRecord(r)
    \/ FindNothing(r)
    \/ FindPayments(r)
    \/ DeleteOk(r)

Fault(r) ==
    \/ RecordRollback(r)
    \/ RecordLost(r)
    \/ DeleteRollback(r)
    \/ DeleteLost(r)
    \/ QueryFails(r)

Arrival(r) ==
    \E i \in Invoices, raw \in Codes, lag \in 0 .. MaxLag :
        \/ RejectExpired(r, i, raw, lag)
        \/ \E bank \in Banks : \/ ReceiveRegister(r, bank, i, raw, lag)
                               \/ ReceiveReverse(r, bank, i, raw, lag)

Next == \/ Tick
        \/ Crash
        \/ \E r \in Requests : Arrival(r) \/ Handler(r) \/ Fault(r)

Spec == Init /\ [][Next]_vars

(* The event loop resumes every handler whose database call has settled;   *)
(* no failure is owed to it.                                               *)
FairSpec == Spec /\ \A r \in Requests : WF_vars(Handler(r))

-----------------------------------------------------------------------------
TypeOK ==
    /\ now \in Int
    /\ estadoId \in [Invoices -> Estados]
    /\ payments \subseteq Payment
    /\ pc \in [Requests -> InFlight \cup {"idle", "done", "lost"}]
    /\ payload \in [Requests -> Payloads]
    /\ found \in [Requests -> SUBSET Payment]
    /\ reply \in [Requests -> Replies]
    /\ applied \subseteq Requests
    /\ crashes \in Nat

(* However requests overlap, fail or are cut off, an invoice marked paid   *)
(* has a payment row behind it: a payment that was taken back never counts *)
(* as paid.                                                                *)
EstadoRespaldado ==
    \A i \in Invoices : estadoId[i] = "PAGO_FINALIZADO_OK" =>
        \E p \in payments : p.inv = i

(* An invoice with a payment row is shown as unpaid only because a         *)
(* reversal was committed on it, however requests overlap or fail: the row *)
(* and the state of the invoice are never written apart.                   *)
ImpagoExplicado ==
    \A p \in payments : estadoId[p.inv] = "PAGO_INICIADO" =>
        \E r \in applied : payload[r].op = "reverse" /\ payload[r].inv = p.inv

(* INFORMATIVE and WARNING tell the bank the truth, whatever fails: the    *)
(* first means that the request's transaction was committed, the second    *)
(* that the request wrote nothing.                                         *)
RespuestaFiel ==
    \A r \in Requests :
        /\ reply[r] = "INFORMATIVE" => r \in applied
        /\ reply[r] = "WARNING" => r \notin applied

(* With one request in flight per invoice, a retry after any answer or     *)
(* crash never records the same transaction twice.                         *)
SinDuplicados ==
    \A p, q \in payments : (p.inv = q.inv /\ p.code = q.code) => p = q

(* With one request in flight per invoice, no payment is taken back 12     *)
(* hours or more after its date, by the dates that the bank stated.        *)
ReversoEnPlazo ==
    [][\A p \in payments \ payments' : \E r \in Requests :
            pc[r] = "deleting" /\ p.inv = payload[r].inv /\ payload[r].fecha - p.fecha < 1]_vars

(* With one request in flight per invoice, a bank is told that there is    *)
(* nothing to reverse only when no row that could be reversed is stored    *)
(* under the code it sent or under the code its registration was stored as.*)
RechazoJustificado ==
    [][\A r \in Requests :
          (pc[r] = "finding" /\ reply'[r] = "WARNING") =>
              ~ \E p \in payments :
                   /\ p.inv = payload[r].inv
                   /\ p.code \in {payload[r].raw, IF payload[r].bank = "popular"
                                      THEN Normal[payload[r].raw] ELSE payload[r].raw}
                   /\ payload[r].fecha - p.fecha < 1]_vars

(* Every request is answered, or cut off by a crash. *)
TodaPeticionTermina ==
    \A r \in Requests : Active(r) ~> pc[r] \in {"done", "lost"}

(* With one request in flight per invoice, the handlers implement the      *)
(* book of payments.                                                       *)
Book == INSTANCE PaymentBook WITH
            book <- {<<p.inv, p.code>> : p \in payments}
BookSpec == Book!Spec
=============================================================================
