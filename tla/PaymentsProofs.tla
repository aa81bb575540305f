--------------------------- MODULE PaymentsProofs ---------------------------
(* Theorems about Payments, for every value of its constants. *)
EXTENDS Payments, TLAPS

-----------------------------------------------------------------------------
LEMMA StampType == ASSUME now \in Int, NEW lag \in Int
                   PROVE  Stamp(Today - lag) \in Int
BY DEF Stamp, Today

LEMMA InitTypeOK == Init => TypeOK
<1> SUFFICES ASSUME Init PROVE TypeOK
    OBVIOUS
<1>1. Blank \in Payloads
    <2>1. (CHOOSE i \in Invoices : TRUE) \in Invoices
        BY PaymentsAssumption
    <2>2. (CHOOSE c \in Codes : TRUE) \in Codes
        BY PaymentsAssumption
    <2> QED BY <2>1, <2>2 DEF Blank, Payloads, Banks
<1> QED BY <1>1 DEF Init, TypeOK, Estados, Replies

LEMMA ReceiveType ==
    ASSUME TypeOK, NEW r \in Requests, NEW op \in {"register", "reverse"}, NEW bank \in Banks,
           NEW i \in Invoices, NEW raw \in Codes, NEW code \in Codes, NEW lag \in 0 .. MaxLag,
           Receive(r, op, bank, i, raw, code, lag)
    PROVE  /\ payload' \in [Requests -> Payloads]
           /\ UNCHANGED <<now, estadoId, payments, found, applied, crashes>>
<1>1. Stamp(Today - lag) \in Int
    BY StampType, PaymentsAssumption DEF TypeOK
<1> QED BY <1>1 DEF Receive, TypeOK, Payloads

LEMMA StoredType == ASSUME NEW bank, NEW raw \in Codes PROVE Stored(bank, raw) \in Codes
BY PaymentsAssumption DEF Stored

LEMMA InsertType ==
    ASSUME TypeOK, NEW r \in Requests, Insert(r)
    PROVE  /\ payments' \subseteq Payment
           /\ estadoId' \in [Invoices -> Estados]
           /\ applied' \subseteq Requests
BY DEF TypeOK, Insert, Payment, Payloads, Estados

LEMMA DeleteType ==
    ASSUME TypeOK, NEW r \in Requests, Delete(r)
    PROVE  /\ payments' \subseteq Payment
           /\ estadoId' \in [Invoices -> Estados]
           /\ applied' \subseteq Requests
BY DEF TypeOK, Delete, Estados

LEMMA TypeStep == TypeOK /\ [Next]_vars => TypeOK'
<1> SUFFICES ASSUME TypeOK, [Next]_vars PROVE TypeOK'
    OBVIOUS
<1>1. CASE Tick
    BY <1>1 DEF Tick, TypeOK
<1>2. CASE Crash
    BY <1>2 DEF Crash, TypeOK
<1>3. ASSUME NEW r \in Requests, Arrival(r) PROVE TypeOK'
    <2>1. PICK i \in Invoices, raw \in Codes, lag \in 0 .. MaxLag :
              \/ RejectExpired(r, i, raw, lag)
              \/ \E bank \in Banks : \/ ReceiveRegister(r, bank, i, raw, lag)
                                     \/ ReceiveReverse(r, bank, i, raw, lag)
        BY <1>3 DEF Arrival
    <2>2. CASE RejectExpired(r, i, raw, lag)
        <3>1. "popular" \in Banks BY DEF Banks
        <3> QED BY <2>2, <3>1, ReceiveType, StoredType
                DEF RejectExpired, Answer, TypeOK, Replies
    <2>3. ASSUME NEW bank \in Banks, ReceiveRegister(r, bank, i, raw, lag) PROVE TypeOK'
        BY <2>3, ReceiveType, StoredType DEF ReceiveRegister, Go, TypeOK, InFlight
    <2>4. ASSUME NEW bank \in Banks, ReceiveReverse(r, bank, i, raw, lag) PROVE TypeOK'
        BY <2>4, ReceiveType DEF ReceiveReverse, Go, TypeOK, InFlight
    <2> QED BY <2>1, <2>2, <2>3, <2>4
<1>4. ASSUME NEW r \in Requests, Handler(r) PROVE TypeOK'
    <2>1. CASE CheckDuplicate(r)
        BY <2>1 DEF CheckDuplicate, Go, Answer, TypeOK, InFlight, Replies
    <2>2. CASE RecordOk(r)
        BY <2>2, InsertType DEF RecordOk, Go, TypeOK, InFlight
    <2>3. CASE AfterRecord(r)
        BY <2>3 DEF AfterRecord, Answer, TypeOK, Replies
    <2>4. CASE FindNothing(r)
        <3>1. CASE HasSecondTry(r)
            <4>1. payload' \in [Requests -> Payloads]
                BY <2>4, <3>1, PaymentsAssumption DEF FindNothing, SecondTry, TypeOK, Payloads
            <4> QED BY <2>4, <3>1, <4>1 DEF FindNothing, SecondTry, Go, TypeOK, InFlight
        <3>2. CASE ~ HasSecondTry(r)
            BY <2>4, <3>2 DEF FindNothing, Answer, TypeOK, Replies
        <3> QED BY <3>1, <3>2
    <2>5. CASE FindPayments(r)
        BY <2>5 DEF FindPayments, Matching, Go, TypeOK, InFlight
    <2>6. CASE DeleteOk(r)
        BY <2>6, DeleteType DEF DeleteOk, Answer, TypeOK, Replies
    <2> QED BY <1>4, <2>1, <2>2, <2>3, <2>4, <2>5, <2>6 DEF Handler
<1>5. ASSUME NEW r \in Requests, Fault(r) PROVE TypeOK'
    <2>1. CASE RecordRollback(r)
        BY <2>1 DEF RecordRollback, NoWrite, Answer, TypeOK, Replies
    <2>2. CASE RecordLost(r)
        <3>1. CASE Insert(r)
            BY <2>2, <3>1, InsertType DEF RecordLost, Answer, TypeOK, Replies
        <3>2. CASE NoWrite
            BY <2>2, <3>2 DEF RecordLost, NoWrite, Answer, TypeOK, Replies
        <3> QED BY <2>2, <3>1, <3>2 DEF RecordLost
    <2>3. CASE DeleteRollback(r)
        BY <2>3 DEF DeleteRollback, NoWrite, Answer, TypeOK, Replies
    <2>4. CASE DeleteLost(r)
        <3>1. CASE Delete(r)
            BY <2>4, <3>1, DeleteType DEF DeleteLost, Answer, TypeOK, Replies
        <3>2. CASE NoWrite
            BY <2>4, <3>2 DEF DeleteLost, NoWrite, Answer, TypeOK, Replies
        <3> QED BY <2>4, <3>1, <3>2 DEF DeleteLost
    <2>5. CASE QueryFails(r)
        BY <2>5 DEF QueryFails, Answer, TypeOK, Replies
    <2> QED BY <1>5, <2>1, <2>2, <2>3, <2>4, <2>5 DEF Fault
<1>6. CASE UNCHANGED vars
    BY <1>6 DEF vars, TypeOK
<1> QED BY <1>1, <1>2, <1>3, <1>4, <1>5, <1>6 DEF Next

(* The state keeps its types, for every set of invoices, codes, requests.  *)
THEOREM TypeCorrect == Spec => []TypeOK
BY InitTypeOK, TypeStep, PTL DEF Spec

-----------------------------------------------------------------------------
(* What holds however requests overlap.  Rows found by a reversal are rows *)
(* of its invoice; a request still at work has not been answered, and has  *)
(* committed only if it stands behind its transaction.                     *)
FoundInv ==
    \A r \in Requests : pc[r] = "deleting" =>
        \A p \in found[r] : p.inv = payload[r].inv /\ p.code = payload[r].code

ProgressInv ==
    \A r \in Requests :
        /\ pc[r] \in {"idle", "checking", "recording", "finding", "deleting"} => r \notin applied
        /\ pc[r] = "recorded" => r \in applied
        /\ pc[r] # "done" => reply[r] = "none"
        /\ pc[r] \in {"finding", "deleting"} => payload[r].op = "reverse"

SafeInv == /\ TypeOK
           /\ FoundInv
           /\ ProgressInv
           /\ EstadoRespaldado
           /\ ImpagoExplicado
           /\ RespuestaFiel

LEMMA InitSafe == Init => SafeInv
<1> SUFFICES ASSUME Init PROVE SafeInv
    OBVIOUS
<1> QED BY InitTypeOK DEF Init, SafeInv, FoundInv, ProgressInv, EstadoRespaldado,
            ImpagoExplicado, RespuestaFiel

(* A request comes in: the tables stay, and its handler has done nothing.  *)
LEMMA ArrivalSafe ==
    ASSUME SafeInv, TypeOK', NEW r \in Requests, Arrival(r)
    PROVE  SafeInv'
<1> USE DEF SafeInv, TypeOK
<1>1. PICK i \in Invoices, raw \in Codes, lag \in 0 .. MaxLag :
          \/ RejectExpired(r, i, raw, lag)
          \/ \E bank \in Banks : \/ ReceiveRegister(r, bank, i, raw, lag)
                                 \/ ReceiveReverse(r, bank, i, raw, lag)
    BY DEF Arrival
<1>2. /\ pc[r] = "idle" /\ r \notin applied /\ reply[r] = "none"
      /\ UNCHANGED <<now, estadoId, payments, found, applied, crashes>>
      /\ \A s \in Requests \ {r} : payload'[s] = payload[s]
    BY <1>1 DEF RejectExpired, ReceiveRegister, ReceiveReverse, Receive, ProgressInv
<1>3. /\ pc'[r] \in {"done", "checking", "finding"}
      /\ pc'[r] = "finding" => payload'[r].op = "reverse"
      /\ pc'[r] # "done" => reply'[r] = "none"
      /\ reply'[r] # "INFORMATIVE"
      /\ \A s \in Requests \ {r} : pc'[s] = pc[s] /\ reply'[s] = reply[s]
    BY <1>1, <1>2 DEF RejectExpired, ReceiveRegister, ReceiveReverse, Receive, Go, Answer
<1>4. FoundInv'
    BY <1>2, <1>3 DEF FoundInv
<1>5. ProgressInv'
    BY <1>2, <1>3 DEF ProgressInv
<1>6. EstadoRespaldado'
    BY <1>2 DEF EstadoRespaldado
<1>7. ImpagoExplicado'
    BY <1>2 DEF ImpagoExplicado
<1>8. RespuestaFiel'
    BY <1>2, <1>3 DEF RespuestaFiel
<1> QED BY <1>4, <1>5, <1>6, <1>7, <1>8

(* A step of one request that writes no table and keeps its payload's      *)
(* operation and invoice.                                                  *)
LEMMA QuietSafe ==
    ASSUME SafeInv, TypeOK', NEW r \in Requests,
           UNCHANGED <<estadoId, payments, applied>>,
           \A s \in Requests : payload'[s].op = payload[s].op /\ payload'[s].inv = payload[s].inv,
           \A s \in Requests \ {r} : /\ pc'[s] = pc[s] /\ reply'[s] = reply[s]
                                     /\ found'[s] = found[s] /\ payload'[s] = payload[s],
           pc'[r] \in {"recording", "finding", "deleting", "done"},
           pc'[r] \in {"recording", "finding", "deleting"} => r \notin applied,
           pc'[r] # "done" => reply'[r] = "none",
           pc'[r] \in {"finding", "deleting"} => payload[r].op = "reverse",
           pc'[r] = "deleting" => \A p \in found'[r] : p.inv = payload'[r].inv /\ p.code = payload'[r].code,
           reply'[r] = "INFORMATIVE" => r \in applied,
           reply'[r] = "WARNING" => r \notin applied
    PROVE  SafeInv'
<1> USE DEF SafeInv, TypeOK
<1>1. FoundInv'
    BY DEF FoundInv
<1>2. ProgressInv'
    BY DEF ProgressInv
<1>3. EstadoRespaldado'
    BY DEF EstadoRespaldado
<1>4. ImpagoExplicado'
    BY DEF ImpagoExplicado
<1>5. RespuestaFiel'
    BY DEF RespuestaFiel
<1> QED BY <1>1, <1>2, <1>3, <1>4, <1>5

(* The transaction of a registration is committed. *)
LEMMA InsertSafe ==
    ASSUME SafeInv, TypeOK', NEW r \in Requests, pc[r] = "recording", Insert(r),
           UNCHANGED <<payload, found>>,
           \A s \in Requests \ {r} : pc'[s] = pc[s] /\ reply'[s] = reply[s],
           \/ pc'[r] = "recorded" /\ reply'[r] = "none"
           \/ pc'[r] = "done" /\ reply'[r] = "ERROR"
    PROVE  SafeInv'
<1> USE DEF SafeInv, TypeOK
<1>1. FoundInv'
    BY DEF FoundInv
<1>2. ProgressInv'
    BY DEF ProgressInv, Insert
<1>3. EstadoRespaldado'
    <2> SUFFICES ASSUME NEW i \in Invoices, estadoId'[i] = "PAGO_FINALIZADO_OK"
                 PROVE  \E p \in payments' : p.inv = i
        BY DEF EstadoRespaldado
    <2>1. CASE i = payload[r].inv
        <3> DEFINE row == [id |-> r, inv |-> payload[r].inv, code |-> payload[r].code,
                           fecha |-> payload[r].fecha]
        <3>1. row \in payments' /\ row.inv = i
            BY <2>1 DEF Insert
        <3> QED BY <3>1
    <2>2. CASE i # payload[r].inv
        BY <2>2 DEF Insert, EstadoRespaldado
    <2> QED BY <2>1, <2>2
<1>4. ImpagoExplicado'
    <2> SUFFICES ASSUME NEW p \in payments', estadoId'[p.inv] = "PAGO_INICIADO"
                 PROVE  \E s \in applied' : payload'[s].op = "reverse" /\ payload'[s].inv = p.inv
        BY DEF ImpagoExplicado
    <2>1. payload[r].inv \in Invoices
        BY DEF Payloads
    <2>2. p.inv # payload[r].inv
        BY <2>1 DEF Insert
    <2>3. p \in payments /\ estadoId[p.inv] = "PAGO_INICIADO"
        BY <2>2 DEF Insert, Payment
    <2> QED BY <2>3 DEF ImpagoExplicado, Insert
<1>5. RespuestaFiel'
    BY DEF RespuestaFiel, Insert
<1> QED BY <1>1, <1>2, <1>3, <1>4, <1>5

(* The transaction of a reversal is committed: every row it takes is of    *)
(* the invoice it resets.                                                  *)
LEMMA DeleteSafe ==
    ASSUME SafeInv, TypeOK', NEW r \in Requests, pc[r] = "deleting", Delete(r),
           UNCHANGED <<payload, found>>,
           \A s \in Requests \ {r} : pc'[s] = pc[s] /\ reply'[s] = reply[s],
           pc'[r] = "done", reply'[r] \in {"INFORMATIVE", "ERROR"}
    PROVE  SafeInv'
<1> USE DEF SafeInv, TypeOK
<1>1. FoundInv'
    BY DEF FoundInv
<1>2. ProgressInv'
    BY DEF ProgressInv, Delete
<1>3. EstadoRespaldado'
    <2> SUFFICES ASSUME NEW i \in Invoices, estadoId'[i] = "PAGO_FINALIZADO_OK"
                 PROVE  \E p \in payments' : p.inv = i
        BY DEF EstadoRespaldado
    <2>1. i # payload[r].inv /\ estadoId[i] = "PAGO_FINALIZADO_OK"
        BY DEF Delete
    <2>2. PICK p \in payments : p.inv = i
        BY <2>1 DEF EstadoRespaldado
    <2>3. p \notin found[r]
        BY <2>1, <2>2 DEF FoundInv
    <2> QED BY <2>2, <2>3 DEF Delete
<1>4. ImpagoExplicado'
    <2> SUFFICES ASSUME NEW p \in payments', estadoId'[p.inv] = "PAGO_INICIADO"
                 PROVE  \E s \in applied' : payload'[s].op = "reverse" /\ payload'[s].inv = p.inv
        BY DEF ImpagoExplicado
    <2>1. p \in payments /\ r \in applied' /\ payload[r].op = "reverse"
        BY DEF Delete, ProgressInv
    <2>2. CASE p.inv = payload[r].inv
        BY <2>1, <2>2
    <2>3. CASE p.inv # payload[r].inv
        BY <2>1, <2>3 DEF ImpagoExplicado, Delete
    <2> QED BY <2>2, <2>3
<1>5. RespuestaFiel'
    BY DEF RespuestaFiel, Delete
<1> QED BY <1>1, <1>2, <1>3, <1>4, <1>5

LEMMA SafeStep == SafeInv /\ [Next]_vars => SafeInv'
<1> SUFFICES ASSUME SafeInv, [Next]_vars PROVE SafeInv'
    OBVIOUS
<1> USE DEF SafeInv
<1>0. TypeOK'
    BY TypeStep
<1>1. CASE Tick
    BY <1>0, <1>1 DEF Tick, TypeOK, FoundInv, ProgressInv, EstadoRespaldado, ImpagoExplicado, RespuestaFiel
<1>2. CASE Crash
    <2>1. \A s \in Requests : \/ pc'[s] = pc[s]
                              \/ pc'[s] = "lost" /\ pc[s] # "done"
        BY <1>2 DEF Crash, Active, InFlight, TypeOK
    <2>2. FoundInv'
        BY <1>2, <2>1 DEF Crash, FoundInv
    <2>3. ProgressInv'
        BY <1>2, <2>1 DEF Crash, ProgressInv
    <2> QED BY <1>0, <1>2, <2>2, <2>3 DEF Crash, EstadoRespaldado, ImpagoExplicado, RespuestaFiel
<1>3. ASSUME NEW r \in Requests, Arrival(r) PROVE SafeInv'
    BY <1>0, <1>3, ArrivalSafe
<1>4. ASSUME NEW r \in Requests, Handler(r) PROVE SafeInv'
    <2>1. CASE CheckDuplicate(r)
        BY <1>0, <2>1, QuietSafe DEF CheckDuplicate, Go, Answer, TypeOK, ProgressInv
    <2>2. CASE RecordOk(r)
        BY <1>0, <2>2, InsertSafe DEF RecordOk, Go, TypeOK, ProgressInv
    <2>3. CASE AfterRecord(r)
        BY <1>0, <2>3, QuietSafe DEF AfterRecord, Answer, TypeOK, ProgressInv
    <2>4. CASE FindNothing(r)
        <3>1. CASE HasSecondTry(r)
            BY <1>0, <2>4, <3>1, QuietSafe DEF FindNothing, SecondTry, Go, TypeOK, Payloads, ProgressInv
        <3>2. CASE ~ HasSecondTry(r)
            BY <1>0, <2>4, <3>2, QuietSafe DEF FindNothing, Answer, TypeOK, ProgressInv
        <3> QED BY <3>1, <3>2
    <2>5. CASE FindPayments(r)
        BY <1>0, <2>5, QuietSafe DEF FindPayments, Matching, Go, TypeOK, ProgressInv
    <2>6. CASE DeleteOk(r)
        BY <1>0, <2>6, DeleteSafe DEF DeleteOk, Answer, TypeOK
    <2> QED BY <1>4, <2>1, <2>2, <2>3, <2>4, <2>5, <2>6 DEF Handler
<1>5. ASSUME NEW r \in Requests, Fault(r) PROVE SafeInv'
    <2>1. CASE RecordRollback(r)
        BY <1>0, <2>1, QuietSafe DEF RecordRollback, NoWrite, Answer, TypeOK, ProgressInv
    <2>2. CASE RecordLost(r)
        <3>1. CASE Insert(r)
            BY <1>0, <2>2, <3>1, InsertSafe DEF RecordLost, Answer, TypeOK
        <3>2. CASE NoWrite
            BY <1>0, <2>2, <3>2, QuietSafe DEF RecordLost, NoWrite, Answer, TypeOK, ProgressInv
        <3> QED BY <2>2, <3>1, <3>2 DEF RecordLost
    <2>3. CASE DeleteRollback(r)
        BY <1>0, <2>3, QuietSafe DEF DeleteRollback, NoWrite, Answer, TypeOK, ProgressInv
    <2>4. CASE DeleteLost(r)
        <3>1. CASE Delete(r)
            BY <1>0, <2>4, <3>1, DeleteSafe DEF DeleteLost, Answer, TypeOK
        <3>2. CASE NoWrite
            BY <1>0, <2>4, <3>2, QuietSafe DEF DeleteLost, NoWrite, Answer, TypeOK, ProgressInv
        <3> QED BY <2>4, <3>1, <3>2 DEF DeleteLost
    <2>5. CASE QueryFails(r)
        BY <1>0, <2>5, QuietSafe DEF QueryFails, Answer, TypeOK, ProgressInv
    <2> QED BY <1>5, <2>1, <2>2, <2>3, <2>4, <2>5 DEF Fault
<1>6. CASE UNCHANGED vars
    BY <1>6 DEF vars, TypeOK, FoundInv, ProgressInv, EstadoRespaldado, ImpagoExplicado, RespuestaFiel
<1> QED BY <1>1, <1>2, <1>3, <1>4, <1>5, <1>6 DEF Next

LEMMA Safe == Spec => []SafeInv
BY InitSafe, SafeStep, PTL DEF Spec

(* However requests overlap and fail, an invoice marked paid has a payment *)
(* row: a reversal only takes rows of the invoice that it resets.          *)
THEOREM PaidIsBacked == Spec => []EstadoRespaldado
BY Safe, PTL DEF SafeInv

(* However requests overlap and fail, a payment row whose invoice shows as *)
(* unpaid implies a committed reversal on that invoice.                    *)
THEOREM UnpaidIsExplained == Spec => []ImpagoExplicado
BY Safe, PTL DEF SafeInv

(* INFORMATIVE is answered only for a committed transaction and WARNING    *)
(* only when the request wrote nothing, however requests overlap and fail. *)
THEOREM AnswersAreTrue == Spec => []RespuestaFiel
BY Safe, PTL DEF SafeInv

-----------------------------------------------------------------------------
(* What holds when a bank has one request in flight per invoice: the rows  *)
(* that a handler read are still the rows when its transaction runs.       *)
OneInFlight ==
    \A r, s \in Requests : (Active(r) /\ Active(s) /\ payload[r].inv = payload[s].inv) => r = s

ReadInv ==
    \A r \in Requests :
        /\ pc[r] = "recording" => Matching(r) = {}
        /\ pc[r] = "deleting" => /\ found[r] = Matching(r)
                                 /\ \E p \in found[r] : InWindow(r, p)

SerialInv == /\ SafeInv
             /\ OneInFlight
             /\ ReadInv
             /\ SinDuplicados

LEMMA InitSerial == Init => SerialInv
BY InitSafe DEF Init, SerialInv, OneInFlight, ReadInv, SinDuplicados, Active, InFlight

(* A step of one request that writes no table.                             *)
LEMMA QuietSerial ==
    ASSUME SerialInv, TypeOK', NEW r \in Requests,
           UNCHANGED payments,
           \A s \in Requests \ {r} : /\ pc'[s] = pc[s] /\ found'[s] = found[s]
                                     /\ payload'[s] = payload[s],
           Active(r)' => \A s \in Requests \ {r} : Active(s) => payload[s].inv # payload'[r].inv,
           pc'[r] = "recording" => Matching(r)' = {},
           pc'[r] = "deleting" => /\ found'[r] = Matching(r)'
                                  /\ \E p \in found'[r] : InWindow(r, p)'
    PROVE  OneInFlight' /\ ReadInv' /\ SinDuplicados'
<1> USE DEF SerialInv
<1>1. OneInFlight'
    BY DEF OneInFlight, Active
<1>2. ReadInv'
    BY DEF ReadInv, Matching, InWindow
<1>3. SinDuplicados'
    BY DEF SinDuplicados
<1> QED BY <1>1, <1>2, <1>3

(* A transaction is committed: only its own invoice's rows change, and no  *)
(* other handler is at work on that invoice.                               *)
LEMMA WriteSerial ==
    ASSUME SerialInv, TypeOK', NEW r \in Requests,
           Active(r),
           UNCHANGED <<payload, found>>,
           \A s \in Requests \ {r} : pc'[s] = pc[s],
           pc'[r] \in {"recorded", "done"},
           \A p \in Payment : p.inv # payload[r].inv => (p \in payments' <=> p \in payments)
    PROVE  OneInFlight' /\ ReadInv'
<1> USE DEF SerialInv, SafeInv, TypeOK
<1>1. OneInFlight'
    BY DEF OneInFlight, Active, InFlight
<1>2. ReadInv'
    <2> SUFFICES ASSUME NEW s \in Requests, pc'[s] \in {"recording", "deleting"}
                 PROVE  /\ pc'[s] = "recording" => Matching(s)' = {}
                        /\ pc'[s] = "deleting" => /\ found'[s] = Matching(s)'
                                                  /\ \E p \in found'[s] : InWindow(s, p)'
        BY DEF ReadInv
    <2>1. s # r /\ pc'[s] = pc[s] /\ Active(s)
        BY DEF Active, InFlight
    <2>2. payload[s].inv # payload[r].inv
        BY <2>1 DEF OneInFlight
    <2>3. Matching(s)' = Matching(s)
        BY <2>2 DEF Matching
    <2> QED BY <2>1, <2>3 DEF ReadInv, InWindow
<1> QED BY <1>1, <1>2

LEMMA InsertSerial ==
    ASSUME SerialInv, TypeOK', NEW r \in Requests, pc[r] = "recording", Insert(r),
           UNCHANGED <<payload, found>>,
           \A s \in Requests \ {r} : pc'[s] = pc[s],
           pc'[r] \in {"recorded", "done"}
    PROVE  OneInFlight' /\ ReadInv' /\ SinDuplicados'
<1> USE DEF SerialInv, SafeInv, TypeOK
<1>1. Active(r)
    BY DEF Active, InFlight
<1>2. \A p \in Payment : p.inv # payload[r].inv => (p \in payments' <=> p \in payments)
    BY DEF Insert
<1>3. OneInFlight' /\ ReadInv'
    BY <1>1, <1>2, WriteSerial
<1>4. SinDuplicados'
    BY DEF Insert, ReadInv, Matching, SinDuplicados
<1> QED BY <1>3, <1>4

LEMMA DeleteSerial ==
    ASSUME SerialInv, TypeOK', NEW r \in Requests, pc[r] = "deleting", Delete(r),
           UNCHANGED <<payload, found>>,
           \A s \in Requests \ {r} : pc'[s] = pc[s],
           pc'[r] = "done"
    PROVE  OneInFlight' /\ ReadInv' /\ SinDuplicados'
<1> USE DEF SerialInv, SafeInv, TypeOK
<1>1. Active(r)
    BY DEF Active, InFlight
<1>2. \A p \in Payment : p.inv # payload[r].inv => (p \in payments' <=> p \in payments)
    BY DEF Delete, FoundInv
<1>3. OneInFlight' /\ ReadInv'
    BY <1>1, <1>2, WriteSerial
<1>4. SinDuplicados'
    BY DEF Delete, SinDuplicados
<1> QED BY <1>3, <1>4

(* A request comes in while no other one of its invoice is in flight. *)
LEMMA ArrivalSerial ==
    ASSUME ~ Overlap, SerialInv, TypeOK', NEW r \in Requests, Arrival(r)
    PROVE  OneInFlight' /\ ReadInv' /\ SinDuplicados'
<1> USE DEF SerialInv, SafeInv, TypeOK
<1>1. PICK i \in Invoices, raw \in Codes, lag \in 0 .. MaxLag :
          \/ RejectExpired(r, i, raw, lag)
          \/ \E bank \in Banks : \/ ReceiveRegister(r, bank, i, raw, lag)
                                 \/ ReceiveReverse(r, bank, i, raw, lag)
    BY DEF Arrival
<1>2. /\ UNCHANGED <<payments, found>>
      /\ payload'[r].inv = i
      /\ \A s \in Requests : Active(s) => payload[s].inv # i
      /\ \A s \in Requests \ {r} : payload'[s] = payload[s]
    BY <1>1 DEF RejectExpired, ReceiveRegister, ReceiveReverse, Receive, Admitted
<1>3. /\ pc'[r] \in {"done", "checking", "finding"}
      /\ \A s \in Requests \ {r} : pc'[s] = pc[s]
    BY <1>1 DEF RejectExpired, ReceiveRegister, ReceiveReverse, Go, Answer
<1> QED BY <1>2, <1>3, QuietSerial

LEMMA SerialStep == ~ Overlap /\ SerialInv /\ [Next]_vars => SerialInv'
<1> SUFFICES ASSUME ~ Overlap, SerialInv, [Next]_vars
             PROVE  OneInFlight' /\ ReadInv' /\ SinDuplicados'
    BY SafeStep DEF SerialInv
<1>0. TypeOK /\ TypeOK'
    BY TypeStep DEF SerialInv, SafeInv
<1>1. CASE Tick
    BY <1>0, <1>1 DEF Tick, SerialInv, TypeOK, OneInFlight, ReadInv, Matching, InWindow, SinDuplicados, Active
<1>2. CASE Crash
    <2>1. \A s \in Requests : pc'[s] # "recording" /\ pc'[s] # "deleting" /\ ~ Active(s)'
        BY <1>0, <1>2 DEF Crash, Active, InFlight, TypeOK
    <2> QED BY <1>2, <2>1 DEF Crash, SerialInv, OneInFlight, ReadInv, SinDuplicados
<1>3. ASSUME NEW r \in Requests, Arrival(r) PROVE OneInFlight' /\ ReadInv' /\ SinDuplicados'
    BY <1>0, <1>3, ArrivalSerial
<1>4. ASSUME NEW r \in Requests, Active(r)
      PROVE  \A s \in Requests \ {r} : Active(s) => payload[s].inv # payload[r].inv
    BY <1>4 DEF SerialInv, OneInFlight
<1>5. ASSUME NEW r \in Requests, Handler(r) PROVE OneInFlight' /\ ReadInv' /\ SinDuplicados'
    <2>1. CASE CheckDuplicate(r)
        <3>1. pc'[r] = "recording" => Matching(r)' = {}
            BY <1>0, <2>1 DEF CheckDuplicate, Go, Answer, Matching, TypeOK
        <3> QED BY <1>0, <1>4, <2>1, <3>1, QuietSerial
                DEF CheckDuplicate, Go, Answer, TypeOK, Active, InFlight
    <2>2. CASE RecordOk(r)
        BY <1>0, <2>2, InsertSerial DEF RecordOk, Go, TypeOK
    <2>3. CASE AfterRecord(r)
        BY <1>0, <2>3, QuietSerial DEF AfterRecord, Answer, TypeOK, Active, InFlight
    <2>4. CASE FindNothing(r)
        <3>1. CASE HasSecondTry(r)
            BY <1>0, <1>4, <2>4, <3>1, QuietSerial
            DEF FindNothing, SecondTry, Go, TypeOK, Payloads, Active, InFlight
        <3>2. CASE ~ HasSecondTry(r)
            BY <1>0, <2>4, <3>2, QuietSerial DEF FindNothing, Answer, TypeOK, Active, InFlight
        <3> QED BY <3>1, <3>2
    <2>5. CASE FindPayments(r)
        <3>1. found'[r] = Matching(r)' /\ \E p \in found'[r] : InWindow(r, p)'
            BY <1>0, <2>5 DEF FindPayments, Matching, InWindow, TypeOK
        <3> QED BY <1>0, <1>4, <2>5, <3>1, QuietSerial
                DEF FindPayments, Go, TypeOK, Active, InFlight
    <2>6. CASE DeleteOk(r)
        BY <1>0, <2>6, DeleteSerial DEF DeleteOk, Answer, TypeOK
    <2> QED BY <1>5, <2>1, <2>2, <2>3, <2>4, <2>5, <2>6 DEF Handler
<1>6. ASSUME NEW r \in Requests, Fault(r) PROVE OneInFlight' /\ ReadInv' /\ SinDuplicados'
    <2>1. CASE RecordRollback(r)
        BY <1>0, <2>1, QuietSerial DEF RecordRollback, NoWrite, Answer, TypeOK, Active, InFlight
    <2>2. CASE RecordLost(r)
        <3>1. CASE Insert(r)
            BY <1>0, <2>2, <3>1, InsertSerial DEF RecordLost, Answer, TypeOK
        <3>2. CASE NoWrite
            BY <1>0, <2>2, <3>2, QuietSerial DEF RecordLost, NoWrite, Answer, TypeOK, Active, InFlight
        <3> QED BY <2>2, <3>1, <3>2 DEF RecordLost
    <2>3. CASE DeleteRollback(r)
        BY <1>0, <2>3, QuietSerial DEF DeleteRollback, NoWrite, Answer, TypeOK, Active, InFlight
    <2>4. CASE DeleteLost(r)
        <3>1. CASE Delete(r)
            BY <1>0, <2>4, <3>1, DeleteSerial DEF DeleteLost, Answer, TypeOK
        <3>2. CASE NoWrite
            BY <1>0, <2>4, <3>2, QuietSerial DEF DeleteLost, NoWrite, Answer, TypeOK, Active, InFlight
        <3> QED BY <2>4, <3>1, <3>2 DEF DeleteLost
    <2>5. CASE QueryFails(r)
        BY <1>0, <2>5, QuietSerial DEF QueryFails, Answer, TypeOK, Active, InFlight
    <2> QED BY <1>6, <2>1, <2>2, <2>3, <2>4, <2>5 DEF Fault
<1>7. CASE UNCHANGED vars
    BY <1>7 DEF vars, SerialInv, OneInFlight, ReadInv, Matching, InWindow, SinDuplicados, Active
<1> QED BY <1>1, <1>2, <1>3, <1>5, <1>6, <1>7 DEF Next, SerialInv, SafeInv

LEMMA Serial == ~ Overlap => (Spec => []SerialInv)
<1> SUFFICES ASSUME ~ Overlap PROVE Spec => []SerialInv
    OBVIOUS
<1>1. SerialInv /\ [Next]_vars => SerialInv'
    BY SerialStep
<1> QED BY <1>1, InitSerial, PTL DEF Spec

(* With one request in flight per invoice, no transaction is recorded      *)
(* twice, whatever the bank retries after answers, errors and crashes.     *)
THEOREM NoDuplicates == ~ Overlap => (Spec => []SinDuplicados)
BY Serial, PTL DEF SerialInv

-----------------------------------------------------------------------------
(* The steps of the serial system, as steps of the book. *)
Entries == {<<p.inv, p.code>> : p \in payments}

LEMMA InsertPays ==
    ASSUME SerialInv, NEW r \in Requests, pc[r] = "recording", Insert(r)
    PROVE  Book!Next
<1> USE DEF SerialInv, SafeInv, TypeOK
<1> DEFINE i == payload[r].inv
           c == payload[r].code
           row == [id |-> r, inv |-> i, code |-> c, fecha |-> payload[r].fecha]
<1>1. i \in Invoices /\ c \in Codes
    BY DEF Payloads
<1>2. <<i, c>> \notin Entries
    BY DEF ReadInv, Matching, Entries
<1>3. Entries' = Entries \cup {<<i, c>>}
    <2>1. payments' = payments \cup {row}
        BY DEF Insert
    <2>2. row.inv = i /\ row.code = c
        OBVIOUS
    <2> HIDE DEF row
    <2> QED BY <2>1, <2>2 DEF Entries
<1>4. estadoId' = [estadoId EXCEPT ![i] = "PAGO_FINALIZADO_OK"]
    BY DEF Insert
<1> HIDE DEF i, c
<1> QED BY <1>1, <1>2, <1>3, <1>4 DEF Book!Next, Book!Pay, Entries

LEMMA DeleteReverses ==
    ASSUME SerialInv, NEW r \in Requests, pc[r] = "deleting", Delete(r)
    PROVE  Book!Next
<1> USE DEF SerialInv, SafeInv, TypeOK
<1> DEFINE i == payload[r].inv
           c == payload[r].code
<1>1. i \in Invoices /\ c \in Codes
    BY DEF Payloads
<1>2. found[r] = {p \in payments : p.inv = i /\ p.code = c} /\ found[r] # {}
    BY DEF ReadInv, Matching
<1>3. <<i, c>> \in Entries
    BY <1>2 DEF Entries
<1>4. Entries' = Entries \ {<<i, c>>}
    BY <1>2 DEF Entries, Delete
<1>5. estadoId' = [estadoId EXCEPT ![i] = "PAGO_INICIADO"]
    BY DEF Delete
<1> HIDE DEF i, c
<1> QED BY <1>1, <1>3, <1>4, <1>5 DEF Book!Next, Book!Reverse, Entries

LEMMA StutterBook == UNCHANGED <<payments, estadoId>> => UNCHANGED Book!vars
BY DEF Book!vars

LEMMA BookStep == SerialInv /\ [Next]_vars => [Book!Next]_(Book!vars)
<1> SUFFICES ASSUME SerialInv, [Next]_vars PROVE [Book!Next]_(Book!vars)
    OBVIOUS
<1>1. CASE Tick
    BY <1>1, StutterBook DEF Tick
<1>2. CASE Crash
    BY <1>2, StutterBook DEF Crash
<1>3. ASSUME NEW r \in Requests, Arrival(r) PROVE [Book!Next]_(Book!vars)
    BY <1>3, StutterBook DEF Arrival, RejectExpired, ReceiveRegister, ReceiveReverse, Receive
<1>4. ASSUME NEW r \in Requests, Handler(r) PROVE [Book!Next]_(Book!vars)
    BY <1>4, InsertPays, DeleteReverses, StutterBook
    DEF Handler, CheckDuplicate, RecordOk, AfterRecord, FindNothing, FindPayments, DeleteOk
<1>5. ASSUME NEW r \in Requests, Fault(r) PROVE [Book!Next]_(Book!vars)
    BY <1>5, InsertPays, DeleteReverses, StutterBook
    DEF Fault, RecordRollback, RecordLost, DeleteRollback, DeleteLost, QueryFails, NoWrite
<1>6. CASE UNCHANGED vars
    BY <1>6, StutterBook DEF vars
<1> QED BY <1>1, <1>2, <1>3, <1>4, <1>5, <1>6 DEF Next

(* With one request in flight per invoice, the handlers, with all their    *)
(* failures and crashes, implement the book of payments.                   *)
THEOREM ImplementsBook == ~ Overlap => (Spec => BookSpec)
<1> SUFFICES ASSUME ~ Overlap PROVE Spec => BookSpec
    OBVIOUS
<1>1. Init => Book!Init
    BY DEF Init, Book!Init
<1>2. Spec => []SerialInv
    BY Serial
<1> QED BY <1>1, <1>2, BookStep, PTL DEF Spec, BookSpec, Book!Spec

-----------------------------------------------------------------------------
LEMMA WindowStep ==
    ASSUME SerialInv, [Next]_vars, NEW p \in payments \ payments'
    PROVE  \E r \in Requests : /\ pc[r] = "deleting" /\ p.inv = payload[r].inv
                              /\ payload[r].fecha - p.fecha < 1
<1> USE DEF SerialInv, SafeInv
<1>1. PICK r \in Requests : pc[r] = "deleting" /\ Delete(r)
    BY DEF Next, vars, Tick, Crash, Arrival, RejectExpired, ReceiveRegister, ReceiveReverse, Receive,
           Handler, CheckDuplicate, RecordOk, AfterRecord, FindNothing, FindPayments, DeleteOk,
           Fault, RecordRollback, RecordLost, DeleteRollback, DeleteLost, QueryFails, NoWrite, Insert
<1>2. p \in found[r]
    BY <1>1 DEF Delete
<1>3. PICK q \in found[r] : InWindow(r, q)
    BY <1>1 DEF ReadInv
<1>4. /\ p.inv = payload[r].inv /\ p.code = payload[r].code
      /\ q \in payments /\ q.inv = payload[r].inv /\ q.code = payload[r].code
    BY <1>1, <1>2, <1>3 DEF ReadInv, Matching
<1>5. p = q
    BY <1>4 DEF SinDuplicados
<1> QED BY <1>1, <1>3, <1>4, <1>5 DEF InWindow

(* With one request in flight per invoice, a payment is only taken back    *)
(* within 12 hours of its date, because the row in the window that the     *)
(* handler looks for is then the only row that it deletes.                 *)
THEOREM ReversalsAreInTime == ~ Overlap => (Spec => ReversoEnPlazo)
<1> SUFFICES ASSUME ~ Overlap PROVE Spec => ReversoEnPlazo
    OBVIOUS
<1>1. SerialInv /\ [Next]_vars =>
          [\A p \in payments \ payments' : \E r \in Requests :
              pc[r] = "deleting" /\ p.inv = payload[r].inv /\ payload[r].fecha - p.fecha < 1]_vars
    BY WindowStep
<1>2. Spec => []SerialInv
    BY Serial
<1> QED BY <1>1, <1>2, PTL DEF Spec, ReversoEnPlazo

-----------------------------------------------------------------------------
(* A reversal that looks for the normalised code found nothing to reverse  *)
(* under the code it came with, and nothing was recorded since.            *)
Raw(r) == {p \in payments : p.inv = payload[r].inv /\ p.code = payload[r].raw}

SearchInv ==
    \A r \in Requests : pc[r] = "finding" /\ payload[r].code # payload[r].raw =>
        /\ payload[r].bank = "popular" /\ payload[r].code = Normal[payload[r].raw]
        /\ \A p \in Raw(r) : ~ InWindow(r, p)

(* Nobody records a payment of an invoice while a reversal of it searches. *)
LEMMA NoneRecorded ==
    ASSUME SerialInv, [Next]_vars, NEW s \in Requests, pc[s] = "finding",
           NEW p \in payments' \ payments
    PROVE  p.inv # payload[s].inv
<1> USE DEF SerialInv, SafeInv
<1>1. PICK r \in Requests : pc[r] = "recording" /\ Insert(r)
    BY DEF Next, vars, Tick, Crash, Arrival, RejectExpired, ReceiveRegister, ReceiveReverse, Receive,
           Handler, CheckDuplicate, RecordOk, AfterRecord, FindNothing, FindPayments, DeleteOk,
           Fault, RecordRollback, RecordLost, DeleteRollback, DeleteLost, QueryFails, NoWrite, Delete
<1>2. p.inv = payload[r].inv
    BY <1>1 DEF Insert
<1>3. r # s /\ Active(r) /\ Active(s)
    BY <1>1 DEF Active, InFlight
<1> QED BY <1>2, <1>3 DEF OneInFlight

LEMMA SearchStep == SerialInv /\ SearchInv /\ [Next]_vars => SearchInv'
<1> SUFFICES ASSUME SerialInv, SearchInv, [Next]_vars, NEW s \in Requests,
                    pc'[s] = "finding", payload'[s].code # payload'[s].raw
             PROVE  /\ payload'[s].bank = "popular" /\ payload'[s].code = Normal[payload'[s].raw]
                    /\ \A p \in Raw(s)' : ~ InWindow(s, p)'
    BY DEF SearchInv
<1>0. /\ pc \in [Requests -> InFlight \cup {"idle", "done", "lost"}]
      /\ payload \in [Requests -> Payloads]
    BY DEF SerialInv, SafeInv, TypeOK
<1>1. CASE pc[s] = "finding" /\ payload'[s] = payload[s]
    <2>1. Raw(s)' \subseteq Raw(s)
        BY <1>1, NoneRecorded DEF Raw
    <2> QED BY <1>1, <2>1 DEF SearchInv, InWindow
<1>2. CASE FindNothing(s)
    <2>1. HasSecondTry(s) /\ SecondTry(s)
        BY <1>0, <1>2 DEF FindNothing, Answer
    <2>2. payload'[s] = [payload[s] EXCEPT !.code = Normal[payload[s].raw]]
        BY <1>0, <2>1 DEF SecondTry
    <2>3. /\ payload'[s].bank = payload[s].bank /\ payload'[s].raw = payload[s].raw
          /\ payload'[s].inv = payload[s].inv /\ payload'[s].fecha = payload[s].fecha
          /\ payload'[s].code = Normal[payload[s].raw]
        BY <1>0, <2>2 DEF Payloads
    <2>4. payload[s].bank = "popular" /\ payload[s].code = payload[s].raw
        BY <2>1 DEF HasSecondTry
    <2>5. \A p \in payments : p.inv = payload[s].inv /\ p.code = payload[s].raw =>
              ~ InWindow(s, p)
        BY <1>2, <2>4 DEF FindNothing, Matching
    <2> QED BY <1>2, <2>3, <2>4, <2>5 DEF FindNothing, Raw, InWindow
<1>3. ASSUME NEW r \in Requests, Arrival(r)
      PROVE  s # r /\ pc[s] = "finding" /\ payload'[s] = payload[s]
    <2>1. PICK i \in Invoices, raw \in Codes, lag \in 0 .. MaxLag :
              \/ RejectExpired(r, i, raw, lag)
              \/ \E bank \in Banks : \/ ReceiveRegister(r, bank, i, raw, lag)
                                     \/ ReceiveReverse(r, bank, i, raw, lag)
        BY <1>3 DEF Arrival
    <2>2. CASE s = r
        <3>1. pc'[r] # "finding" \/ payload'[r].code = payload'[r].raw
            BY <1>0, <2>1 DEF RejectExpired, ReceiveRegister, ReceiveReverse, Receive, Go, Answer
        <3> QED BY <2>2, <3>1
    <2>3. CASE s # r
        BY <1>0, <2>1, <2>3 DEF RejectExpired, ReceiveRegister, ReceiveReverse, Receive, Go, Answer
    <2> QED BY <2>2, <2>3
<1>4. CASE UNCHANGED vars \/ Tick
    BY <1>1, <1>4 DEF vars, Tick
<1>5. CASE Crash
    BY <1>0, <1>1, <1>5 DEF Crash
<1>6. ASSUME NEW r \in Requests, Handler(r) \/ Fault(r), ~ FindNothing(s)
      PROVE  pc[s] = "finding" /\ payload'[s] = payload[s]
    <2>1. CASE s = r
        BY <1>0, <1>6, <2>1
           DEF Handler, CheckDuplicate, RecordOk, AfterRecord, FindPayments, DeleteOk, Fault,
               RecordRollback, RecordLost, DeleteRollback, DeleteLost, QueryFails, Go, Answer
    <2>2. CASE s # r
        <3>1. CASE FindNothing(r)
            BY <1>0, <2>2, <3>1 DEF FindNothing, SecondTry, Go, Answer
        <3>2. CASE ~ FindNothing(r)
            BY <1>0, <1>6, <2>2, <3>2
               DEF Handler, CheckDuplicate, RecordOk, AfterRecord, FindPayments, DeleteOk, Fault,
                   RecordRollback, RecordLost, DeleteRollback, DeleteLost, QueryFails, Go, Answer
        <3> QED BY <3>1, <3>2
    <2> QED BY <2>1, <2>2
<1> QED BY <1>1, <1>2, <1>3, <1>4, <1>5, <1>6 DEF Next

(* A warning to a reversal that searches is an answer to its last try. *)
LEMMA WarningStep ==
    ASSUME SerialInv, SearchInv, [Next]_vars, NEW r \in Requests,
           pc[r] = "finding", reply'[r] = "WARNING",
           NEW p \in payments, p.inv = payload[r].inv,
           p.code \in {payload[r].raw, IF payload[r].bank = "popular"
                                         THEN Normal[payload[r].raw] ELSE payload[r].raw}
    PROVE  ~ (payload[r].fecha - p.fecha < 1)
<1>0. reply \in [Requests -> Replies] /\ reply[r] = "none"
    BY DEF SerialInv, SafeInv, TypeOK, ProgressInv
<1>1. FindNothing(r) /\ ~ HasSecondTry(r)
    <2>1. ASSUME NEW s \in Requests, s # r, Arrival(s) \/ Handler(s) \/ Fault(s)
          PROVE  reply'[r] = reply[r]
        BY <1>0, <2>1
           DEF Arrival, RejectExpired, ReceiveRegister, ReceiveReverse, Handler, CheckDuplicate,
               RecordOk, AfterRecord, FindNothing, SecondTry, FindPayments, DeleteOk, Fault,
               RecordRollback, RecordLost, DeleteRollback, DeleteLost, QueryFails, Go, Answer
    <2>2. CASE UNCHANGED vars \/ Tick \/ Crash
        BY <1>0, <2>2 DEF vars, Tick, Crash
    <2>3. ~ Arrival(r)
        BY DEF Arrival, RejectExpired, ReceiveRegister, ReceiveReverse, Receive
    <2>4. CASE Fault(r)
        BY <1>0, <2>4 DEF Fault, RecordRollback, RecordLost, DeleteRollback, DeleteLost, QueryFails,
                          Answer
    <2>5. CASE Handler(r)
        <3>1. FindNothing(r)
            BY <1>0, <2>5 DEF Handler, CheckDuplicate, RecordOk, AfterRecord, FindPayments, DeleteOk,
                              Go
        <3>2. ~ HasSecondTry(r)
            BY <1>0, <3>1 DEF FindNothing, SecondTry, Go
        <3> QED BY <3>1, <3>2
    <2> QED BY <1>0, <2>1, <2>2, <2>3, <2>4, <2>5 DEF Next
<1>2. \A q \in payments : q.inv = payload[r].inv /\ q.code = payload[r].code => ~ InWindow(r, q)
    BY <1>1 DEF FindNothing, Matching
<1>3. CASE payload[r].code = payload[r].raw
    BY <1>1, <1>2, <1>3 DEF HasSecondTry, InWindow
<1>4. CASE payload[r].code # payload[r].raw
    BY <1>2, <1>4 DEF SearchInv, Raw, InWindow
<1> QED BY <1>3, <1>4

(* With one request in flight per invoice, a bank hears that there is      *)
(* nothing to reverse only when nothing in the window is stored under the  *)
(* code it sent or under its normalised form: what the first try found is  *)
(* still so at the second (Payments!RechazoJustificado).                   *)
THEOREM RejectionsAreJustified == ~ Overlap => (Spec => RechazoJustificado)
<1> SUFFICES ASSUME ~ Overlap PROVE Spec => RechazoJustificado
    OBVIOUS
<1>1. Init => SearchInv
    BY DEF Init, SearchInv
<1>2. Spec => []SerialInv
    BY Serial
<1>3. SerialInv /\ SearchInv /\ [Next]_vars =>
          [\A r \in Requests :
              (pc[r] = "finding" /\ reply'[r] = "WARNING") =>
                  ~ \E p \in payments :
                       /\ p.inv = payload[r].inv
                       /\ p.code \in {payload[r].raw, IF payload[r].bank = "popular"
                                          THEN Normal[payload[r].raw] ELSE payload[r].raw}
                       /\ payload[r].fecha - p.fecha < 1]_vars
    BY WarningStep
<1> QED BY <1>1, <1>2, <1>3, SearchStep, PTL DEF Spec, RechazoJustificado
=============================================================================
