------------------------------ MODULE SysLedger ------------------------------
(***************************************************************************)
(* The accounting ledger SysApolo and the code that keeps it in step with  *)
(* the payments: InvoiceSysService (register, register in bulk, delete),   *)
(* the nightly job of TasksService, and the two moments at which           *)
(* InvoiceService calls it, after a payment and after a reversal.          *)
(*                                                                         *)
(* SysApolo is another server than SIGEDIN: nothing ties a transaction on  *)
(* one to the other, and every lookup runs on a connection of its own,     *)
(* outside the transaction that writes.  A task is one running call; one   *)
(* action is one call to a database.                                       *)
(***************************************************************************)
EXTENDS Integers, FiniteSets, FiniteSetsExt

CONSTANTS Invoices,
          Students,
          StudentOf,   \* who an invoice is for
          Previos,     \* third parties that the ledger had before
          Poison,      \* invoices that never register: no town, no pay point
          Tasks,       \* concurrent calls the process may have in flight
          CronTasks,   \* the ones only the nightly job uses
          None,        \* what an idle task works on
          Limit,       \* rows the job and the bulk call take
          MaxId,       \* the largest id that STR(..., 5) can print
          MaxPagos,    \* payments (bound)
          MaxFaults,   \* failed calls, crashes and stops of the job (bound)
          MaxAnio,     \* years that may begin (bound)
          Ordenes      \* what an environment may keep from overlapping

ASSUME SysLedgerAssumption ==
    /\ StudentOf \in [Invoices -> Students]
    /\ Previos \subseteq [cod : Nat, student : Students]
    /\ \A p, q \in Previos : p.cod = q.cod \/ p.student = q.student => p = q
    /\ Poison \subseteq Invoices
    /\ CronTasks \subseteq Tasks
    /\ None \notin Invoices
    /\ Limit \in Nat /\ MaxId \in Nat \ {0}
    /\ MaxPagos \in Nat /\ MaxFaults \in Nat /\ MaxAnio \in Nat
    /\ Ordenes \subseteq SUBSET {"sync", "delete", "quiet", "student"}

VARIABLES pago,        \* SIGEDIN: the payment of an invoice, 0 for none
          anioPago,    \* SIGEDIN: the year of that payment
          verify,      \* SIGEDIN: sysapolo_verify of an invoice
          headers,     \* SysApolo: invoice headers
          details,     \* SysApolo: invoice details
          terceros,    \* SysApolo: third parties
          pc,          \* where a task stands
          job,         \* what a task has read
          todo,        \* invoices a bulk task still has to register
          pagos,       \* payments so far
          anio,        \* the current year
          activo,      \* is the nightly job running?
          reversed,    \* history: invoices reversed at some time
          orden,       \* what this environment keeps from overlapping
          faults       \* faults so far

sigedin == <<pago, anioPago, verify>>
ledger  == <<headers, details, terceros>>
env     == <<pagos, anio, reversed, orden>>
vars    == <<sigedin, ledger, pc, job, todo, env, activo, faults>>

Syncing  == {"lookup", "tercero", "codTer", "pago", "codFactura", "codDet", "commit", "mark"}
Deleting == {"delFind", "delDetails", "delHeader"}

(* What a task keeps of its reads.  Every invoice has one detail line with *)
(* a positive amount.                                                      *)
Blank(i) == [inv |-> i, ter |-> 0, nuevo |-> FALSE, pago |-> 0, id |-> 0, det |-> 0]

Init == /\ pago = [i \in Invoices |-> 0]
        /\ anioPago = [i \in Invoices |-> 0]
        /\ verify = [i \in Invoices |-> "PENDIENTE"]
        /\ headers = {} /\ details = {} /\ terceros = Previos
        /\ pc = [t \in Tasks |-> "idle"]
        /\ job = [t \in Tasks |-> Blank(None)]
        /\ todo = [t \in Tasks |-> {}]
        /\ pagos = 0 /\ anio = 0 /\ reversed = {}
        /\ activo = TRUE
        /\ orden \in Ordenes
        /\ faults = 0

(* STR(n, 5): a number that no longer fits prints as asterisks, which sort *)
(* below every number in MAX and convert back to none.                     *)
Printable(ns) == ns \cap 0 .. MaxId
Overflow == MaxId + 1

(* COD_FACTURA_SQL and COD_TERCERO_SQL: the highest id plus one.           *)
NextId(ids, first) == LET fit == Printable({k + 1 : k \in ids})
                      IN  IF ids = {} THEN first
                          ELSE IF fit # {} THEN Max(fit) ELSE Overflow

(* COD_DET_FACTURA_SQL, and the ++ that follows it, outside of STR: from   *)
(* asterisks there is no next one, 0.                                      *)
NextDet(ids) == IF ids = {} THEN 1
                ELSE IF Printable(ids) # {} THEN Max(Printable(ids)) + 1 ELSE 0

SyncingOn(i)  == \E t \in Tasks : pc[t] \in Syncing /\ job[t].inv = i
DeletingOn(i) == \E t \in Tasks : pc[t] \in Deleting /\ job[t].inv = i

(* What the environment may keep apart on one invoice: two registrations,  *)
(* two clean-ups, a registration and a clean-up; or two registrations of   *)
(* one student.                                                            *)
SyncAdmitted(i) == /\ "sync" \in orden => ~ SyncingOn(i)
                   /\ "quiet" \in orden => ~ DeletingOn(i)
                   /\ "student" \in orden =>
                        \A j \in Invoices : StudentOf[j] = StudentOf[i] => ~ SyncingOn(j)
DeleteAdmitted(i) == /\ "delete" \in orden => ~ DeletingOn(i)
                     /\ "quiet" \in orden => ~ SyncingOn(i)

-----------------------------------------------------------------------------
(* SIGEDIN: a payment is committed, or reversed. *)

Pay(i) ==
    /\ pago[i] = 0 /\ pagos < MaxPagos
    /\ "quiet" \in orden => ~ DeletingOn(i)
    /\ pagos' = pagos + 1
    /\ pago' = [pago EXCEPT ![i] = pagos + 1]
    /\ anioPago' = [anioPago EXCEPT ![i] = anio]
    /\ UNCHANGED <<verify, ledger, pc, job, todo, anio, reversed, orden, activo, faults>>

(* The reversal resets verify in its transaction and then starts, without  *)
(* waiting for it, the clean-up of the ledger.                             *)
Reverse(i, t) ==
    /\ pago[i] # 0
    /\ pc[t] = "idle" /\ t \notin CronTasks
    /\ DeleteAdmitted(i)
    /\ pago' = [pago EXCEPT ![i] = 0]
    /\ verify' = [verify EXCEPT ![i] = "PENDIENTE"]
    /\ reversed' = reversed \cup {i}
    /\ pc' = [pc EXCEPT ![t] = "delFind"]
    /\ job' = [job EXCEPT ![t] = Blank(i)]
    /\ UNCHANGED <<anioPago, ledger, todo, pagos, anio, orden, activo, faults>>

NewYear == /\ anio < MaxAnio
           /\ anio' = anio + 1
           /\ UNCHANGED <<sigedin, ledger, pc, job, todo, pagos, reversed, orden, activo, faults>>

-----------------------------------------------------------------------------
(* Registrations come from a payment's handler or by hand (one invoice),   *)
(* by hand in bulk, and from the nightly job.                              *)

Begin(t, i) == /\ SyncAdmitted(i)
               /\ pc' = [pc EXCEPT ![t] = "lookup"]
               /\ job' = [job EXCEPT ![t] = Blank(i)]

StartOne(t, i) ==
    /\ pc[t] = "idle" /\ t \notin CronTasks
    /\ Begin(t, i)
    /\ UNCHANGED <<sigedin, ledger, todo, env, activo, faults>>

(* stop-job-sysapolo and start-job-sysapolo: a run that is under way goes  *)
(* on.                                                                     *)
StopJob ==
    /\ CronTasks # {} /\ activo
    /\ faults < MaxFaults
    /\ faults' = faults + 1
    /\ activo' = FALSE
    /\ UNCHANGED <<sigedin, ledger, pc, job, todo, env>>

StartJob ==
    /\ ~ activo
    /\ activo' = TRUE
    /\ UNCHANGED <<sigedin, ledger, pc, job, todo, env, faults>>

(* getPaidInvoiceLimit: paid this year and pending, Limit of them in no    *)
(* particular order.                                                       *)
Pending == {i \in Invoices : /\ pago[i] # 0 /\ anioPago[i] = anio
                             /\ verify[i] = "PENDIENTE"}

StartBulk(t) ==
    /\ pc[t] = "idle"
    /\ t \in CronTasks => activo
    /\ Pending # {}
    /\ \E S \in SUBSET Pending :
          /\ Cardinality(S) = IF Cardinality(Pending) < Limit THEN Cardinality(Pending) ELSE Limit
          /\ todo' = [todo EXCEPT ![t] = S]
    /\ pc' = [pc EXCEPT ![t] = "next"]
    /\ UNCHANGED <<sigedin, ledger, job, env, activo, faults>>

NextInvoice(t) ==
    /\ pc[t] = "next"
    /\ \E i \in todo[t] : /\ Begin(t, i)
                          /\ todo' = [todo EXCEPT ![t] = todo[t] \ {i}]
    /\ UNCHANGED <<sigedin, ledger, env, activo, faults>>

Goto(t, l) == pc' = [pc EXCEPT ![t] = l]

(* The end of a call, however it ended: its reads are forgotten, and a     *)
(* loop goes on with its next invoice.                                     *)
Return(t) == /\ Goto(t, IF todo[t] = {} THEN "idle" ELSE "next")
             /\ job' = [job EXCEPT ![t] = Blank(None)]

-----------------------------------------------------------------------------
(* registerInvoiceSysApolo *)

(* find({numRecibo}): a header that is there only has its mark renewed. *)
LookUp_Blind(t) ==
    /\ pc[t] = "lookup" /\ job[t].inv \notin Poison
    /\ Goto(t, "tercero")
    /\ UNCHANGED <<sigedin, ledger, job, todo, env, activo, faults>>
LookUp(t) ==
    /\ pc[t] = "lookup" /\ job[t].inv \notin Poison
    /\ Goto(t, IF \E h \in headers : h.recibo = job[t].inv THEN "mark" ELSE "tercero")
    /\ UNCHANGED <<sigedin, ledger, job, todo, env, activo, faults>>

(* find({numIdentificacion}): any third party of the student.              *)
FindTercero_ByNit(t) ==
    /\ pc[t] = "tercero"
    /\ Goto(t, "codTer")
    /\ UNCHANGED <<sigedin, ledger, job, todo, env, activo, faults>>
FindTercero(t) ==
    /\ pc[t] = "tercero"
    /\ \/ \E p \in terceros : /\ p.student = StudentOf[job[t].inv]
                              /\ job' = [job EXCEPT ![t].ter = p.cod]
                              /\ Goto(t, "pago")
       \/ /\ \A p \in terceros : p.student # StudentOf[job[t].inv]
          /\ job' = job
          /\ Goto(t, "codTer")
    /\ UNCHANGED <<sigedin, ledger, todo, env, activo, faults>>

(* createThirdParty: the id of a new one.                                  *)
CodTercero(t) ==
    /\ pc[t] = "codTer"
    /\ job' = [job EXCEPT ![t].ter = NextId({p.cod : p \in terceros}, 0),
                          ![t].nuevo = TRUE]
    /\ Goto(t, "pago")
    /\ UNCHANGED <<sigedin, ledger, todo, env, activo, faults>>

(* findPaymentOkByInvoiceId, on SIGEDIN: without a payment, roll back. *)
FindPago(t) ==
    /\ pc[t] = "pago"
    /\ \/ pago[job[t].inv] = 0 /\ Return(t)
       \/ /\ pago[job[t].inv] # 0
          /\ job' = [job EXCEPT ![t].pago = pago[job[t].inv]]
          /\ Goto(t, "codFactura")
    /\ UNCHANGED <<sigedin, ledger, todo, env, activo, faults>>

(* The two ids, read outside the transaction that will use them.           *)
CodFactura(t) ==
    /\ pc[t] = "codFactura"
    /\ job' = [job EXCEPT ![t].id = NextId({h.id : h \in headers}, 1)]
    /\ Goto(t, "codDet")
    /\ UNCHANGED <<sigedin, ledger, todo, env, activo, faults>>

CodDet(t) ==
    /\ pc[t] = "codDet"
    /\ job' = [job EXCEPT ![t].det = NextDet({d.id : d \in details})]
    /\ Goto(t, "commit")
    /\ UNCHANGED <<sigedin, ledger, todo, env, activo, faults>>

(* A primary key that is taken or is no number makes the transaction fail. *)
Conflict(t) == \/ job[t].id = Overflow \/ job[t].det = 0
               \/ job[t].nuevo /\ job[t].ter = Overflow
               \/ \E h \in headers : h.id = job[t].id
               \/ \E d \in details : d.id = job[t].det
               \/ job[t].nuevo /\ \E p \in terceros : p.cod = job[t].ter

NewHeader(t) == [id |-> job[t].id, recibo |-> job[t].inv, ter |-> job[t].ter, pago |-> job[t].pago]

CommitSys_HeaderOnly(t) ==
    /\ pc[t] = "commit" /\ ~ Conflict(t)
    /\ headers' = headers \cup {NewHeader(t)}
    /\ terceros' = IF job[t].nuevo
                     THEN terceros \cup {[cod |-> job[t].ter, student |-> StudentOf[job[t].inv]]}
                     ELSE terceros
    /\ Goto(t, "mark")
    /\ UNCHANGED <<sigedin, details, job, todo, env, activo, faults>>
CommitSys(t) ==
    /\ pc[t] = "commit" /\ ~ Conflict(t)
    /\ headers' = headers \cup {NewHeader(t)}
    /\ details' = details \cup {[id |-> job[t].det, factura |-> job[t].id]}
    /\ terceros' = IF job[t].nuevo
                     THEN terceros \cup {[cod |-> job[t].ter, student |-> StudentOf[job[t].inv]]}
                     ELSE terceros
    /\ Goto(t, "mark")
    /\ UNCHANGED <<sigedin, job, todo, env, activo, faults>>

CommitConflict_Marked(t) ==
    /\ pc[t] = "commit" /\ Conflict(t)
    /\ Goto(t, "mark")
    /\ UNCHANGED <<sigedin, ledger, job, todo, env, activo, faults>>
CommitConflict(t) ==
    /\ pc[t] = "commit" /\ Conflict(t)
    /\ Return(t)
    /\ UNCHANGED <<sigedin, ledger, todo, env, activo, faults>>

(* updateStatusVerifySys, after the commit or for a header that was there. *)
Mark_Paid(t) ==
    /\ pc[t] = "mark"
    /\ verify' = [verify EXCEPT ![job[t].inv] = "PAGADO"]
    /\ Return(t)
    /\ UNCHANGED <<pago, anioPago, ledger, todo, env, activo, faults>>
Mark(t) ==
    /\ pc[t] = "mark"
    /\ verify' = [verify EXCEPT ![job[t].inv] = "REGISTRADO"]
    /\ Return(t)
    /\ UNCHANGED <<pago, anioPago, ledger, todo, env, activo, faults>>

(* An invoice that cannot be registered: its row is malformed. *)
Reject_Abort(t) ==
    /\ pc[t] = "lookup" /\ job[t].inv \in Poison
    /\ Goto(t, "idle")
    /\ todo' = [todo EXCEPT ![t] = {}]
    /\ job' = [job EXCEPT ![t] = Blank(None)]
    /\ UNCHANGED <<sigedin, ledger, env, activo, faults>>
Reject(t) ==
    /\ pc[t] = "lookup" /\ job[t].inv \in Poison
    /\ Return(t)
    /\ UNCHANGED <<sigedin, ledger, todo, env, activo, faults>>

-----------------------------------------------------------------------------
(* deleteInvoiceSysApolo: three calls and no transaction. *)

DelFind(t) ==
    /\ pc[t] = "delFind"
    /\ \/ \E h \in headers : /\ h.recibo = job[t].inv
                             /\ job' = [job EXCEPT ![t].id = h.id]
                             /\ Goto(t, "delDetails")
       \/ /\ ~ \E h \in headers : h.recibo = job[t].inv
          /\ Return(t)
    /\ UNCHANGED <<sigedin, ledger, todo, env, activo, faults>>

DelDetails(t) ==
    /\ pc[t] = "delDetails"
    /\ details' = {d \in details : d.factura # job[t].id}
    /\ Goto(t, "delHeader")
    /\ UNCHANGED <<sigedin, headers, terceros, job, todo, env, activo, faults>>

DelHeader_Newest(t) ==
    /\ pc[t] = "delHeader"
    /\ headers' = {h \in headers : h.id # Max({g.id : g \in headers})}
    /\ Return(t)
    /\ UNCHANGED <<sigedin, details, terceros, todo, env, activo, faults>>
DelHeader(t) ==
    /\ pc[t] = "delHeader"
    /\ headers' = {h \in headers : h.id # job[t].id}
    /\ Return(t)
    /\ UNCHANGED <<sigedin, details, terceros, todo, env, activo, faults>>

-----------------------------------------------------------------------------
(* A call fails.  A registration rolls back and its loop goes on, a mark   *)
(* is given up, a clean-up stops where it stands.                          *)
Fail(t) ==
    /\ faults < MaxFaults
    /\ faults' = faults + 1
    /\ pc[t] \in Syncing \cup Deleting
    /\ Return(t)
    /\ UNCHANGED <<sigedin, ledger, todo, env, activo>>

(* The connection is lost on the commit: applied, but taken for a failure. *)
CommitLost(t) ==
    /\ pc[t] = "commit" /\ ~ Conflict(t)
    /\ faults < MaxFaults
    /\ faults' = faults + 1
    /\ headers' = headers \cup {NewHeader(t)}
    /\ details' = details \cup {[id |-> job[t].det, factura |-> job[t].id]}
    /\ terceros' = IF job[t].nuevo
                     THEN terceros \cup {[cod |-> job[t].ter, student |-> StudentOf[job[t].inv]]}
                     ELSE terceros
    /\ Return(t)
    /\ UNCHANGED <<sigedin, todo, env, activo>>

(* The process dies with every task in it; the constructor of TasksService *)
(* registers and starts the job again.                                     *)
Crash ==
    /\ faults < MaxFaults
    /\ \E t \in Tasks : pc[t] # "idle"
    /\ faults' = faults + 1
    /\ pc' = [t \in Tasks |-> "idle"]
    /\ todo' = [t \in Tasks |-> {}]
    /\ job' = [t \in Tasks |-> Blank(None)]
    /\ activo' = TRUE
    /\ UNCHANGED <<sigedin, ledger, env>>

Step(t) ==
    \/ NextInvoice(t)
    \/ LookUp(t)
    \/ FindTercero(t)
    \/ CodTercero(t)
    \/ FindPago(t)
    \/ CodFactura(t)
    \/ CodDet(t)
    \/ CommitSys(t)
    \/ CommitConflict(t)
    \/ Mark(t)
    \/ Reject(t)
    \/ DelFind(t)
    \/ DelDetails(t)
    \/ DelHeader(t)

Next ==
    \/ NewYear
    \/ Crash
    \/ StopJob \/ StartJob
    \/ \E i \in Invoices : Pay(i)
    \/ \E t \in Tasks : \/ Step(t)
                        \/ Fail(t)
                        \/ CommitLost(t)
                        \/ StartBulk(t)
                        \/ \E i \in Invoices : Reverse(i, t) \/ StartOne(t, i)

Spec == Init /\ [][Next]_vars

(* Calls that have settled are resumed, and the job starts every midnight. *)
(* The loop of the job waits for nobody: where an environment keeps calls  *)
(* apart, its turn comes.                                                  *)
FairSpec == /\ Spec
            /\ \A t \in Tasks : WF_vars(Step(t)) /\ SF_vars(NextInvoice(t))
            /\ \A t \in CronTasks : WF_vars(StartBulk(t))

-----------------------------------------------------------------------------
TypeOK ==
    /\ pago \in [Invoices -> 0 .. MaxPagos]
    /\ anioPago \in [Invoices -> 0 .. MaxAnio]
    /\ verify \in [Invoices -> {"PENDIENTE", "REGISTRADO"}]
    /\ headers \subseteq [id : Nat, recibo : Invoices, ter : Nat, pago : Nat]
    /\ details \subseteq [id : Nat, factura : Nat]
    /\ terceros \subseteq [cod : Nat, student : Students]
    /\ pc \in [Tasks -> Syncing \cup Deleting \cup {"idle", "next"}]
    /\ job \in [Tasks -> [inv : Invoices \cup {None}, ter : Nat, nuevo : BOOLEAN,
                          pago : Nat, id : Nat, det : Nat]]
    /\ todo \in [Tasks -> SUBSET Invoices]
    /\ pagos \in 0 .. MaxPagos /\ anio \in 0 .. MaxAnio
    /\ reversed \subseteq Invoices /\ activo \in BOOLEAN /\ orden \in Ordenes
    /\ faults \in 0 .. MaxFaults

(* While the clean-ups of one invoice are kept apart, and whatever else    *)
(* overlaps, fails or crashes, an invoice that was never reversed and is   *)
(* marked REGISTRADO is in the ledger: the nightly job skips it for good,  *)
(* so a mark without a header would lose the income.                       *)
MarcaRespaldada ==
    \A i \in Invoices : (verify[i] = "REGISTRADO" /\ i \notin reversed) =>
        \E h \in headers : h.recibo = i

(* However the ids that registrations read collide, a header records an    *)
(* actual payment and bills the third party of the invoice's own student,  *)
(* and nobody else's.  A student is entered in the ledger twice only       *)
(* because two registrations of one student overlapped: where they are     *)
(* kept apart, one third party is all that crashes, lost commits, repeated *)
(* registrations and reversals leave.                                      *)
TerceroDelEstudiante ==
    /\ \A h \in headers :
          /\ h.pago # 0
          /\ \E p \in terceros : p.cod = h.ter /\ p.student = StudentOf[h.recibo]
    /\ \A p, q \in terceros : p.cod = q.cod => p = q
    /\ "student" \in orden => \A p, q \in terceros : p.student = q.student => p = q

(* A header stands without its details only while its clean-up is under    *)
(* way or after one was cut off, and no detail is left without its header. *)
DetalleCompleto ==
    /\ \A h \in headers : \/ \E d \in details : d.factura = h.id
                          \/ \E t \in Tasks : pc[t] = "delHeader" /\ job[t].id = h.id
                          \/ h.recibo \in reversed /\ faults > 0
    /\ \A d \in details : \E h \in headers : h.id = d.factura

(* As long as the clean-ups of one invoice do not overlap, the clean-up    *)
(* after a reversal never takes another invoice's header, although ids are *)
(* given out again after the highest one is deleted.                       *)
BorraLoSuyo ==
    [][\A h \in headers \ headers' :
          \/ "delete" \notin orden
          \/ \E t \in Tasks : pc[t] = "delHeader" /\ job[t].inv = h.recibo]_vars

(* With the calls on one invoice kept apart, the ledger mirrors the        *)
(* payments: an invoice has one header at most, a mark always has one, and *)
(* unless something failed, a header records the payment in force or the   *)
(* clean-up that takes it is running.                                      *)
LibroExacto ==
    orden = {"sync", "delete", "quiet"} =>
        /\ \A g, h \in headers : g.recibo = h.recibo => g = h
        /\ \A i \in Invoices : verify[i] = "REGISTRADO" => \E h \in headers : h.recibo = i
        /\ faults = 0 => \A h \in headers : h.pago = pago[h.recibo] \/ DeletingOn(h.recibo)

(* The ledger refuses an invoice that it already holds, as the error text  *)
(* of a second registration says, whatever overlaps.                       *)
SinFacturaRepetida ==
    \A g, h \in headers : g.recibo = h.recibo => g = h

-----------------------------------------------------------------------------
(* The malformed rows fill the batch of the nightly job.                   *)
Starved == Cardinality(Pending \cap Poison) >= Limit

(* A payment of this year without a header of its own.  Either it is the   *)
(* first one of its invoice; or there were others, the calls on the        *)
(* invoice are kept apart, and no clean-up failed and left a header.       *)
Waiting(i, n) ==
    /\ pago[i] = n /\ anioPago[i] = anio
    /\ \A h \in headers : h.recibo = i => h.pago # n
    /\ \/ i \notin reversed
       \/ /\ {"sync", "delete", "quiet"} \subseteq orden
          /\ \A h \in headers : h.recibo # i

(* No well-formed payment waits for ever for a header of its own, whoever  *)
(* called the ledger, failed or died on the way, unless the job is stopped *)
(* for good or malformed rows fill its batches from some time on.          *)
TodoPagoLlega ==
    \A i \in Invoices \ Poison, n \in 1 .. MaxPagos :
        <>[]Waiting(i, n) => <>[](~ activo \/ Starved)
=============================================================================
