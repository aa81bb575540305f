----------------------------- MODULE DeskProofs -----------------------------
(* Theorems about CashDesk, for every value of its constants. *)
EXTENDS CashDesk, TLAPS

(* What is known of the two components, when nothing is kept apart and     *)
(* when the calls on an invoice are.                                       *)
LF == INSTANCE LedgerProofs WITH
    pc <- lpc, pagos <- entradas, faults <- lfaults, None <- Nadie,
    Previos <- {}, Poison <- {}, CronTasks <- {}, Limit <- 1, MaxAnio <- 0,
    orden <- {}, Ordenes <- {{}}

LO == INSTANCE LedgerProofs WITH
    pc <- lpc, pagos <- entradas, faults <- lfaults, None <- Nadie,
    Previos <- {}, Poison <- {}, CronTasks <- {}, Limit <- 1, MaxAnio <- 0,
    orden <- {"sync", "delete", "quiet"}, Ordenes <- {{"sync", "delete", "quiet"}}

DF == INSTANCE DiscountProofs WITH
    pc <- dpc, pagos <- cobros, faults <- dfaults,
    Apart <- "nothing", Repay <- FALSE

DO == INSTANCE DiscountProofs WITH
    pc <- dpc, pagos <- cobros, faults <- dfaults,
    Apart <- "everything", Repay <- FALSE

LEMMA LedgersAssumed == LF!SysLedgerAssumption /\ LO!SysLedgerAssumption
BY DeskAssumption DEF LF!SysLedgerAssumption, LO!SysLedgerAssumption

LEMMA DiscountsAssumed == DF!DiscountAssumption /\ DO!DiscountAssumption
BY DeskAssumption DEF DF!DiscountAssumption, DO!DiscountAssumption

-----------------------------------------------------------------------------
(* A step of the ledger is one whatever is kept apart: only the beginning  *)
(* of a call looks at that.                                                *)
LEMMA SameMax ==
    ASSUME NEW S
    PROVE  LF!Max(S) = L!Max(S) /\ LO!Max(S) = L!Max(S) /\ Ordered!Max(S) = L!Max(S)
BY DEF L!Max, LF!Max, LO!Max, Ordered!Max

LEMMA SameIds ==
    ASSUME NEW ids, NEW first
    PROVE  /\ LF!NextId(ids, first) = L!NextId(ids, first) /\ LF!NextDet(ids) = L!NextDet(ids)
           /\ LO!NextId(ids, first) = L!NextId(ids, first) /\ LO!NextDet(ids) = L!NextDet(ids)
           /\ Ordered!NextId(ids, first) = L!NextId(ids, first)
           /\ Ordered!NextDet(ids) = L!NextDet(ids)
BY SameMax, Zenon DEF L!NextId, LF!NextId, LO!NextId, Ordered!NextId, L!NextDet, LF!NextDet,
       LO!NextDet, Ordered!NextDet, L!Printable, LF!Printable, LO!Printable, Ordered!Printable,
       L!Overflow, LF!Overflow, LO!Overflow, Ordered!Overflow

(* A step of one call in the ledger, in each of these environments. *)
Everywhere(t) == /\ LF!Step(t) \/ LF!Fail(t) \/ LF!CommitLost(t)
                 /\ LO!Step(t) \/ LO!Fail(t) \/ LO!CommitLost(t)
                 /\ Ordered!Step(t) \/ Ordered!Fail(t) \/ Ordered!CommitLost(t)

LEMMA SameStep ==
    ASSUME NEW t \in Tasks, todo[t] = {}, L!Step(t) \/ L!Fail(t) \/ L!CommitLost(t)
    PROVE  Everywhere(t)
<1> USE DEF Everywhere,
            L!Step, LF!Step, LO!Step, Ordered!Step,
            L!Goto, LF!Goto, LO!Goto, Ordered!Goto, L!Return, LF!Return, LO!Return,
                   Ordered!Return, L!Blank, LF!Blank, LO!Blank, Ordered!Blank, L!sigedin,
                   LF!sigedin, LO!sigedin, Ordered!sigedin, L!ledger, LF!ledger, LO!ledger,
                   Ordered!ledger, L!env, LF!env, LO!env, Ordered!env
<1>1. CASE L!LookUp(t) \/ L!FindPago(t)
    BY <1>1 DEF L!LookUp, LF!LookUp, LO!LookUp, Ordered!LookUp, L!FindPago, LF!FindPago,
           LO!FindPago, Ordered!FindPago
<1>2. CASE L!FindTercero(t)
    BY <1>2 DEF L!FindTercero, LF!FindTercero, LO!FindTercero, Ordered!FindTercero
<1>3. CASE L!CodTercero(t) \/ L!CodFactura(t) \/ L!CodDet(t)
    <2> DEFINE hs == {h.id : h \in headers}
               ds == {d.id : d \in details}
               ps == {p.cod : p \in terceros}
    <2>1. /\ LF!NextId(hs, 1) = L!NextId(hs, 1) /\ LF!NextDet(ds) = L!NextDet(ds)
          /\ LO!NextId(hs, 1) = L!NextId(hs, 1) /\ LO!NextDet(ds) = L!NextDet(ds)
          /\ Ordered!NextId(hs, 1) = L!NextId(hs, 1) /\ Ordered!NextDet(ds) = L!NextDet(ds)
        BY SameIds
    <2>2. /\ LF!NextId(ps, 0) = L!NextId(ps, 0) /\ LO!NextId(ps, 0) = L!NextId(ps, 0)
          /\ Ordered!NextId(ps, 0) = L!NextId(ps, 0)
        BY SameIds
    <2>3. CASE L!CodTercero(t)
        BY <2>3, <2>2, Zenon DEF L!CodTercero, LF!CodTercero, LO!CodTercero, Ordered!CodTercero
    <2>4. CASE L!CodFactura(t)
        BY <2>4, <2>1, Zenon DEF L!CodFactura, LF!CodFactura, LO!CodFactura, Ordered!CodFactura
    <2>5. CASE L!CodDet(t)
        BY <2>5, <2>1, Zenon DEF L!CodDet, LF!CodDet, LO!CodDet, Ordered!CodDet
    <2> QED BY <1>3, <2>3, <2>4, <2>5
<1>4. CASE L!CommitSys(t)
    BY <1>4 DEF L!CommitSys, LF!CommitSys, LO!CommitSys, Ordered!CommitSys, L!Conflict,
           LF!Conflict, LO!Conflict, Ordered!Conflict, L!NewHeader, LF!NewHeader, LO!NewHeader,
           Ordered!NewHeader, L!Overflow, LF!Overflow, LO!Overflow, Ordered!Overflow
<1>5. CASE L!CommitConflict(t)
    BY <1>5 DEF L!CommitConflict, LF!CommitConflict, LO!CommitConflict, Ordered!CommitConflict,
           L!Conflict, LF!Conflict, LO!Conflict, Ordered!Conflict, L!NewHeader, LF!NewHeader,
           LO!NewHeader, Ordered!NewHeader, L!Overflow, LF!Overflow, LO!Overflow, Ordered!Overflow
<1>6. CASE L!CommitLost(t)
    BY <1>6 DEF L!CommitLost, LF!CommitLost, LO!CommitLost, Ordered!CommitLost, L!Conflict,
           LF!Conflict, LO!Conflict, Ordered!Conflict, L!NewHeader, LF!NewHeader, LO!NewHeader,
           Ordered!NewHeader, L!Overflow, LF!Overflow, LO!Overflow, Ordered!Overflow
<1>7. CASE L!Mark(t) \/ L!Reject(t)
    BY <1>7 DEF L!Mark, LF!Mark, LO!Mark, Ordered!Mark, L!Reject, LF!Reject, LO!Reject,
           Ordered!Reject
<1>8. CASE L!DelFind(t) \/ L!DelDetails(t) \/ L!DelHeader(t)
    BY <1>8 DEF L!DelFind, LF!DelFind, LO!DelFind, Ordered!DelFind, L!DelDetails, LF!DelDetails,
           LO!DelDetails, Ordered!DelDetails, L!DelHeader, LF!DelHeader, LO!DelHeader,
           Ordered!DelHeader
<1>9. CASE L!Fail(t)
    BY <1>9 DEF L!Fail, LF!Fail, LO!Fail, Ordered!Fail, L!Syncing, LF!Syncing, LO!Syncing,
           Ordered!Syncing, L!Deleting, LF!Deleting, LO!Deleting, Ordered!Deleting
<1>10. ~ L!NextInvoice(t)
    BY DEF L!NextInvoice
<1> QED BY <1>1, <1>2, <1>3, <1>4, <1>5, <1>6, <1>7, <1>8, <1>9, <1>10
-----------------------------------------------------------------------------
(* What ties the two parts of a task together: it registers the payment    *)
(* whose discounts it is about to bill, one handler at a time on an        *)
(* invoice, and the invoice is paid for as long.                           *)
NoLoops    == \A t \in Tasks : todo[t] = {} /\ lpc[t] # "next"
Linked     == \A t \in Tasks : lpc[t] \in L!Syncing => dpc[t] = "bill" /\ inv[t] = job[t].inv
OnePayment == \A t, u \in Tasks :
    dpc[t] \in D!Billing /\ dpc[u] \in D!Billing /\ inv[t] = inv[u] => t = u
PaidHere   == \A t \in Tasks : dpc[t] \in D!Billing => cobros[inv[t]] > 0

Parts   == LF!Typed /\ DF!Typed /\ llamadas \subseteq Tasks /\ esperan \in BOOLEAN
LinkInv == Parts /\ NoLoops /\ Linked /\ OnePayment /\ PaidHere

(* A step of the desk is one of each component, or leaves it alone. *)
LEMMA FreeLedger ==
    ASSUME Parts, NoLoops, [Next]_vars
    PROVE  [LF!Next]_(LF!vars)
<1>1. ASSUME NEW t \in Tasks, LedgerStep(t) PROVE LF!Next
    BY <1>1, SameStep DEF NoLoops, LedgerStep, Everywhere, LF!Next
<1>2. ASSUME NEW t \in Tasks, NEW i \in Invoices, Pay(t, i) PROVE LF!Next
    <2>1. LF!Pay(i)
        BY <1>2 DEF Pay, L!Pay, LF!Pay, L!DeletingOn, LF!DeletingOn, L!Deleting, LF!Deleting,
                    L!ledger, LF!ledger
    <2> QED BY <2>1 DEF LF!Next
<1>3. ASSUME NEW t \in Tasks, CallLedger(t) PROVE LF!Next
    <2>1. LF!StartOne(t, inv[t])
        BY <1>3 DEF CallLedger, L!StartOne, LF!StartOne, L!Begin, LF!Begin, L!Blank, LF!Blank,
                    L!SyncAdmitted, LF!SyncAdmitted, L!sigedin, LF!sigedin, L!ledger, LF!ledger,
                    L!env, LF!env
    <2>2. inv[t] \in Invoices
        BY <1>3 DEF CallLedger, Parts, DF!Typed, DF!WorksInv
    <2> QED BY <2>1, <2>2 DEF LF!Next
<1>4. ASSUME NEW t \in Tasks, NEW i \in Invoices, Reverse(t, i) PROVE LF!Next
    <2>1. LF!Reverse(i, t)
        BY <1>4 DEF Reverse, L!Reverse, LF!Reverse, L!Blank, LF!Blank,
                    L!DeleteAdmitted, LF!DeleteAdmitted, L!ledger, LF!ledger
    <2> QED BY <2>1 DEF LF!Next
<1>5. CASE Crash
    <2>1. L!Crash => LF!Crash
        BY DEF L!Crash, LF!Crash, L!Blank, LF!Blank, L!sigedin, LF!sigedin, L!ledger, LF!ledger,
               L!env, LF!env
    <2> QED BY <1>5, <2>1 DEF Crash, LF!Next, LF!vars, lvars, LF!sigedin, LF!ledger, LF!env
<1>6. ASSUME UNCHANGED lvars PROVE UNCHANGED LF!vars
    BY <1>6 DEF lvars, LF!vars, LF!sigedin, LF!ledger, LF!env
<1>7. ASSUME [Next]_vars PROVE LF!Next \/ UNCHANGED LF!vars
    BY <1>1, <1>2, <1>3, <1>4, <1>5, <1>6, <1>7
       DEF Next, vars, Bill, DiscountStep, DiscountFails, Office
<1> QED BY <1>7

LEMMA SameBilling ==
    ASSUME NEW t \in Tasks
    PROVE  /\ D!FindDiscounts(t) => DF!FindDiscounts(t) /\ DO!FindDiscounts(t)
           /\ D!Bill(t) => DF!Bill(t) /\ DO!Bill(t)
           /\ D!BillConflict(t) => DF!BillConflict(t) /\ DO!BillConflict(t)
           /\ D!FindBilled(t) => DF!FindBilled(t) /\ DO!FindBilled(t)
           /\ D!Release(t) => DF!Release(t) /\ DO!Release(t)
           /\ D!Fail(t) => DF!Fail(t) /\ DO!Fail(t)
           /\ D!CommitLost(t) => DF!CommitLost(t) /\ DO!CommitLost(t)
<1> USE DEF D!Goto, DF!Goto, DO!Goto, D!tables, DF!tables, DO!tables
<1>1. D!FindDiscounts(t) => DF!FindDiscounts(t) /\ DO!FindDiscounts(t)
    BY DEF D!FindDiscounts, DF!FindDiscounts, DO!FindDiscounts,
           D!Deduplicated, DF!Deduplicated, DO!Deduplicated
<1>2. D!FindBilled(t) => DF!FindBilled(t) /\ DO!FindBilled(t)
    BY DEF D!FindBilled, DF!FindBilled, DO!FindBilled, D!BilledOn, DF!BilledOn, DO!BilledOn
<1>3. /\ D!Bill(t) => DF!Bill(t) /\ DO!Bill(t)
      /\ D!BillConflict(t) => DF!BillConflict(t) /\ DO!BillConflict(t)
    BY DEF D!Bill, DF!Bill, DO!Bill, D!BillConflict, DF!BillConflict, DO!BillConflict,
           D!Conflict, DF!Conflict, DO!Conflict, D!Charge, DF!Charge, DO!Charge
<1>4. D!Release(t) => DF!Release(t) /\ DO!Release(t)
    BY DEF D!Release, DF!Release, DO!Release, D!Free, DF!Free, DO!Free
<1>5. D!Fail(t) => DF!Fail(t) /\ DO!Fail(t)
    BY DEF D!Fail, DF!Fail, DO!Fail, D!Active, DF!Active, DO!Active,
           D!Billing, DF!Billing, DO!Billing, D!Releasing, DF!Releasing, DO!Releasing
<1>6. D!CommitLost(t) => DF!CommitLost(t) /\ DO!CommitLost(t)
    BY DEF D!CommitLost, DF!CommitLost, DO!CommitLost, D!Conflict, DF!Conflict, DO!Conflict,
           D!Charge, DF!Charge, DO!Charge, D!Free, DF!Free, DO!Free
<1> QED BY <1>1, <1>2, <1>3, <1>4, <1>5, <1>6

LEMMA FreeBilling ==
    ASSUME [Next]_vars
    PROVE  [DF!Next]_(DF!vars)
<1>1. ASSUME NEW t \in Tasks, DiscountStep(t) \/ DiscountFails(t) \/ Bill(t) PROVE DF!Next
    BY <1>1, SameBilling DEF DiscountStep, DiscountFails, Bill, DF!Step, DF!Next
<1>2. ASSUME NEW t \in Tasks, NEW i \in Invoices, Pay(t, i) PROVE DF!Next
    <2>1. DF!Pay(t, i)
        BY <1>2 DEF Pay, D!Pay, DF!Pay, D!Goto, DF!Goto
    <2> QED BY <2>1 DEF DF!Next
<1>3. ASSUME NEW t \in Tasks, NEW i \in Invoices, Reverse(t, i) PROVE DF!Next
    <2>1. DF!Reverse(t, i)
        BY <1>3 DEF Reverse, D!Reverse, DF!Reverse, D!Goto, DF!Goto
    <2> QED BY <2>1 DEF DF!Next
<1>4. ASSUME NEW d \in Discounts, Office(d) PROVE DF!Next
    BY <1>4 DEF Office, D!Approve, DF!Approve, D!Withdraw, DF!Withdraw, D!Decide, DF!Decide, DF!Next
<1>5. CASE Crash
    <2>1. D!Crash => DF!Crash
        BY DEF D!Crash, DF!Crash, D!Active, DF!Active, D!Billing, DF!Billing,
               D!Releasing, DF!Releasing, D!tables, DF!tables
    <2> QED BY <1>5, <2>1 DEF Crash, DF!Next, DF!vars, dvars
<1>6. ASSUME UNCHANGED dvars PROVE UNCHANGED DF!vars
    BY <1>6 DEF dvars, DF!vars
<1>7. ASSUME [Next]_vars PROVE DF!Next \/ UNCHANGED DF!vars
    BY <1>1, <1>2, <1>3, <1>4, <1>5, <1>6, <1>7 DEF Next, vars, CallLedger, LedgerStep
<1> QED BY <1>7

(* What a step of a call in the ledger may change of the calls. *)
LEMMA CallGoesOn ==
    ASSUME LF!Typed, NoLoops, NEW t \in Tasks, L!Step(t) \/ L!Fail(t) \/ L!CommitLost(t)
    PROVE  /\ UNCHANGED <<todo, pago, anioPago>> /\ lpc'[t] # "next"
           /\ \A u \in Tasks \ {t} : lpc'[u] = lpc[u] /\ job'[u] = job[u]
           /\ lpc'[t] \in L!Syncing => lpc[t] \in L!Syncing /\ job'[t].inv = job[t].inv
           /\ lpc'[t] \in L!Deleting => lpc[t] \in L!Deleting /\ job'[t].inv = job[t].inv
<1>1. todo[t] = {}
    BY DEF NoLoops
<1>2. LF!Step(t) \/ LF!Fail(t) \/ LF!CommitLost(t)
    BY <1>1, SameStep DEF Everywhere
<1>3. LF!Others(t)
    BY <1>2, LedgersAssumed, LF!OthersStand DEF LF!TaskStep
<1>4. ~ LF!NextInvoice(t)
    BY <1>1 DEF LF!NextInvoice
<1>5. UNCHANGED <<todo, pago, anioPago>>
    BY <1>2, <1>4 DEF LF!Step, LF!LookUp, LF!FindTercero, LF!CodTercero,
       LF!FindPago, LF!CodFactura, LF!CodDet, LF!CommitSys,
       LF!CommitConflict, LF!Mark, LF!Reject, LF!DelFind, LF!DelDetails, LF!DelHeader, LF!Fail,
       LF!CommitLost, LF!sigedin
<1>6. CASE LF!Return(t)
    BY <1>1, <1>3, <1>5, <1>6
       DEF LF!Return, LF!Goto, LF!Typed, LF!TypeOK, LF!Others, L!Syncing, L!Deleting
<1>7. CASE ~ LF!Return(t)
    <2>1. \/ /\ lpc[t] \in LF!Syncing /\ \E l \in LF!Syncing : LF!Goto(t, l)
          \/ /\ lpc[t] \in LF!Deleting /\ \E l \in LF!Deleting : LF!Goto(t, l)
        BY <1>2, <1>4, <1>7 DEF LF!Step, LF!LookUp, LF!FindTercero, LF!CodTercero,
           LF!FindPago, LF!CodFactura, LF!CodDet,
           LF!CommitSys, LF!CommitConflict, LF!Mark, LF!Reject, LF!DelFind, LF!DelDetails,
           LF!DelHeader, LF!Fail, LF!CommitLost, LF!Syncing, LF!Deleting
    <2>2. job'[t].inv = job[t].inv
        BY <1>2, <1>4, <1>7 DEF LF!Step, LF!LookUp, LF!FindTercero, LF!CodTercero,
           LF!FindPago, LF!CodFactura, LF!CodDet,
           LF!CommitSys, LF!CommitConflict, LF!Mark, LF!Reject, LF!DelFind, LF!DelDetails,
           LF!DelHeader, LF!Fail, LF!CommitLost, LF!Typed, LF!TypeOK
    <2>3. \/ lpc[t] \in LF!Syncing /\ lpc'[t] \in LF!Syncing
          \/ lpc[t] \in LF!Deleting /\ lpc'[t] \in LF!Deleting
        BY <2>1, LF!Went, LedgersAssumed
    <2> QED BY <1>3, <1>5, <2>2, <2>3
            DEF LF!Others, L!Syncing, L!Deleting, LF!Syncing, LF!Deleting
<1> QED BY <1>6, <1>7

LEMMA LinkInit == Init => LinkInv
<1> SUFFICES ASSUME Init PROVE LinkInv
    OBVIOUS
<1>1. LF!Init
    BY DEF Init, L!Init, LF!Init, L!Blank, LF!Blank
<1>2. DF!Init
    BY DEF Init, D!Init, DF!Init
<1>3. LF!Typed /\ DF!Typed
    BY <1>1, <1>2, LF!InitTyped, DF!InitTyped, LedgersAssumed, DiscountsAssumed
<1> QED BY <1>3 DEF Init, LinkInv, Parts, NoLoops, Linked, OnePayment, PaidHere, L!Init, D!Init,
                    L!Syncing, D!Billing

(* A step that starts no call and no handler: whoever still registers or   *)
(* bills did so before, and for the same invoice.                          *)
LEMMA LinkGoesOn ==
    ASSUME LinkInv, Parts', NoLoops',
           \A t \in Tasks : lpc'[t] \in L!Syncing => lpc[t] \in L!Syncing /\ job'[t].inv = job[t].inv,
           \A t \in Tasks : dpc'[t] \in D!Billing => dpc[t] \in D!Billing,
           \A t \in Tasks : lpc'[t] \in L!Syncing /\ dpc[t] = "bill" => dpc'[t] = "bill",
           inv' = inv, cobros' = cobros
    PROVE  LinkInv'
<1>1. Linked'
    BY DEF LinkInv, Linked
<1>2. OnePayment' /\ PaidHere'
    BY DEF LinkInv, OnePayment, PaidHere
<1> QED BY <1>1, <1>2 DEF LinkInv

LEMMA DeskStands ==
    ASSUME Parts, [Next]_vars
    PROVE  esperan' = esperan /\ llamadas' \subseteq Tasks
BY DEF Next, vars, desk, Parts, Pay, CallLedger, LedgerStep, Bill, DiscountStep,
       DiscountFails, Reverse, Office, Crash

LEMMA LinkStep == LinkInv /\ [Next]_vars => LinkInv'
<1> SUFFICES ASSUME LinkInv, [Next]_vars PROVE LinkInv'
    OBVIOUS
<1>1. LF!Typed' /\ DF!Typed'
    BY FreeLedger, FreeBilling, LF!TypedStep, DF!TypedStep, LedgersAssumed, DiscountsAssumed
       DEF LinkInv, Parts
<1>2. esperan' = esperan /\ llamadas' \subseteq Tasks
    BY DeskStands DEF LinkInv
<1>3. Parts'
    BY <1>1, <1>2 DEF LinkInv, Parts
<1> USE DEF LinkInv
<1>4. ASSUME NEW t \in Tasks, LedgerStep(t) PROVE LinkInv'
    <2>1. NoLoops'
        BY <1>4, CallGoesOn DEF LedgerStep, NoLoops, Parts
    <2>2. UNCHANGED dvars
        BY <1>4 DEF LedgerStep
    <2>3. \A u \in Tasks : lpc'[u] \in L!Syncing => lpc[u] \in L!Syncing /\ job'[u].inv = job[u].inv
        BY <1>4, CallGoesOn DEF LedgerStep, Parts
    <2> QED BY <1>3, <2>1, <2>2, <2>3, LinkGoesOn DEF dvars
<1>5. ASSUME NEW t \in Tasks, Bill(t) \/ DiscountStep(t) \/ DiscountFails(t) PROVE LinkInv'
    <2>1. /\ UNCHANGED <<inv, cobros>> /\ UNCHANGED lvars
          /\ \/ dpc[t] # "bill" /\ (dpc'[t] \in D!Billing => dpc[t] = "find")
             \/ lpc[t] = "idle" /\ dpc'[t] = "done"
          /\ \A u \in Tasks \ {t} : dpc'[u] = dpc[u]
        BY <1>5 DEF Parts, DF!Typed, DF!TypeOK, Bill, DiscountStep, DiscountFails, LedgerIsOver,
           D!Bill, D!BillConflict, D!FindDiscounts, D!FindBilled, D!Release, D!Fail, D!CommitLost,
           D!Charge, D!Free, D!Goto, D!tables, D!Active, D!Billing, D!Releasing
    <2> QED BY <1>3, <2>1, LinkGoesOn DEF lvars, NoLoops, L!Syncing, D!Billing
<1>6. ASSUME NEW t \in Tasks, CallLedger(t) PROVE LinkInv'
    <2>1. /\ UNCHANGED dvars /\ dpc[t] = "bill" /\ todo' = todo
          /\ lpc' = [lpc EXCEPT ![t] = "lookup"]
          /\ job' = [job EXCEPT ![t] = L!Blank(inv[t])]
        BY <1>6 DEF CallLedger, L!StartOne, L!Begin
    <2>2. lpc'[t] = "lookup" /\ job'[t].inv = inv[t]
          /\ \A u \in Tasks \ {t} : lpc'[u] = lpc[u] /\ job'[u] = job[u]
        BY <2>1 DEF L!Blank, Parts, LF!Typed, LF!TypeOK
    <2>3. NoLoops'
        BY <2>1, <2>2 DEF NoLoops
    <2>4. Linked'
        BY <2>1, <2>2 DEF Linked, dvars
    <2> QED BY <1>3, <2>1, <2>3, <2>4 DEF OnePayment, PaidHere, dvars
<1>7. ASSUME NEW t \in Tasks, NEW i \in Invoices, Pay(t, i) PROVE LinkInv'
    <2>1. /\ UNCHANGED <<lpc, job, todo>> /\ dpc[t] = "idle"
          /\ \A u \in Tasks : dpc[u] \in D!Billing => inv[u] # i
          /\ dpc' = [dpc EXCEPT ![t] = "find"] /\ inv' = [inv EXCEPT ![t] = i]
          /\ cobros' = [cobros EXCEPT ![i] = cobros[i] + 1]
        BY <1>7 DEF Pay, L!Pay, D!Pay, D!Goto, Sends, Answered
    <2>2. dpc'[t] = "find" /\ inv'[t] = i
          /\ \A u \in Tasks \ {t} : dpc'[u] = dpc[u] /\ inv'[u] = inv[u]
        BY <2>1 DEF Parts, DF!Typed, DF!TypeOK
    <2>3. \A j \in Invoices : cobros[j] \in Nat /\ cobros'[j] = IF j = i THEN cobros[j] + 1 ELSE cobros[j]
        BY <2>1 DEF Parts, DF!Typed, DF!TypeOK
    <2>4. \A u \in Tasks : dpc[u] \in D!Billing => inv[u] \in Invoices
        BY DEF Parts, DF!Typed, DF!WorksInv, D!Billing
    <2>5. Linked' /\ NoLoops'
        BY <2>1, <2>2 DEF Linked, NoLoops
    <2>6. OnePayment' /\ PaidHere'
        BY <2>1, <2>2, <2>3, <2>4 DEF OnePayment, PaidHere
    <2> QED BY <1>3, <2>5, <2>6
<1>8. ASSUME NEW t \in Tasks, NEW i \in Invoices, Reverse(t, i) PROVE LinkInv'
    <2>1. /\ dpc[t] = "idle" /\ lpc[t] = "idle" /\ todo' = todo
          /\ \A u \in Tasks : dpc[u] \in D!Billing => inv[u] # i
          /\ lpc' = [lpc EXCEPT ![t] = "delFind"] /\ job' = [job EXCEPT ![t] = L!Blank(i)]
          /\ dpc' = [dpc EXCEPT ![t] = "relFind"] /\ inv' = [inv EXCEPT ![t] = i]
          /\ cobros' = [cobros EXCEPT ![i] = cobros[i] - 1]
        BY <1>8 DEF Reverse, L!Reverse, D!Reverse, D!Goto, Sends, Answered
    <2>2. /\ dpc'[t] = "relFind" /\ lpc'[t] = "delFind"
          /\ \A u \in Tasks \ {t} : /\ dpc'[u] = dpc[u] /\ inv'[u] = inv[u]
                                    /\ lpc'[u] = lpc[u] /\ job'[u] = job[u]
        BY <2>1 DEF Parts, DF!Typed, DF!TypeOK, LF!Typed, LF!TypeOK
    <2>3. \A j \in Invoices \ {i} : cobros'[j] = cobros[j]
        BY <2>1 DEF Parts, DF!Typed, DF!TypeOK
    <2>4. \A u \in Tasks : dpc[u] \in D!Billing => inv[u] \in Invoices
        BY DEF Parts, DF!Typed, DF!WorksInv, D!Billing
    <2>5. Linked' /\ NoLoops'
        BY <2>1, <2>2 DEF Linked, NoLoops, L!Syncing
    <2>6. OnePayment' /\ PaidHere'
        BY <2>1, <2>2, <2>3, <2>4 DEF OnePayment, PaidHere, D!Billing
    <2> QED BY <1>3, <2>5, <2>6
<1>9. CASE Crash
    <2>1. /\ \A t \in Tasks : lpc'[t] = "idle" /\ todo'[t] = {}
          /\ \A t \in Tasks : dpc'[t] \notin D!Billing
          /\ UNCHANGED <<inv, cobros>>
        BY <1>9 DEF Crash, L!Crash, D!Crash, D!tables, D!Active, D!Billing, D!Releasing, lvars, dvars,
           NoLoops
    <2> QED BY <1>3, <2>1, LinkGoesOn DEF NoLoops, L!Syncing
<1>10. CASE (\E d \in Discounts : Office(d)) \/ UNCHANGED vars
    <2>1. UNCHANGED <<lpc, job, todo, dpc, inv, cobros>>
        BY <1>10 DEF Office, D!Approve, D!Withdraw, D!Decide, vars, lvars, dvars
    <2> QED BY <1>3, <2>1, LinkGoesOn DEF NoLoops
<1> QED BY <1>4, <1>5, <1>6, <1>7, <1>8, <1>9, <1>10 DEF Next

LEMMA LinkAlways == Spec => []LinkInv
BY LinkInit, LinkStep, PTL DEF Spec

-----------------------------------------------------------------------------
(* What payments and reversals leave behind, for banks that wait for       *)
(* answers only.  Whatever there is of an invoice, in the ledger or in the *)
(* discounts, it is paid for, or a clean-up has it in hand, or something   *)
(* failed.                                                                 *)
OnHand(h) == \E t \in Tasks : /\ job[t].inv = h.recibo
                              /\ \/ lpc[t] = "delFind"
                                 \/ lpc[t] \in {"delDetails", "delHeader"} /\ job[t].id = h.id

MarkPaid    == \A i \in Invoices : verify[i] = "REGISTRADO" => cobros[i] > 0
RowsPaid    == \A f \in filas : \/ cobros[f.inv] > 0
                                \/ f.inv \in fallidos
                                \/ D!ReleasingOn(f.inv) # {}
HeadersPaid == lfaults = 0 => \A h \in headers : cobros[h.recibo] > 0 \/ OnHand(h)

(* A clean-up looks for one header, and one is all there may be: who has   *)
(* found none still finds none.                                            *)
Entering     == {"tercero", "codTer", "pago", "codFactura", "codDet", "commit"}
OneHeader    == \A g, h \in headers : g.recibo = h.recibo => g = h
Unregistered == \A t \in Tasks : lpc[t] \in Entering =>
                    \A h \in headers : h.recibo # job[t].inv

BookPart == MarkPaid /\ HeadersPaid /\ OneHeader /\ Unregistered
TraceInv == LinkInv /\ RowsPaid /\ BookPart

USE DEF Entering

(* A step of the discounts. *)
LEMMA RowsKept ==
    ASSUME LinkInv, RowsPaid, NEW t \in Tasks, Bill(t) \/ DiscountStep(t) \/ DiscountFails(t)
    PROVE  RowsPaid'
<1> USE DEF LinkInv, Parts, DF!Typed, DF!TypeOK
<1>1. /\ cobros' = cobros /\ inv' = inv
      /\ \A u \in Tasks \ {t} : dpc'[u] = dpc[u]
      /\ fallidos \subseteq fallidos'
    BY DEF Bill, DiscountStep, DiscountFails, D!Bill, D!BillConflict, D!FindDiscounts, D!FindBilled,
           D!Release, D!Fail, D!CommitLost, D!Charge, D!Free, D!Goto, D!tables
<1>2. \/ dpc'[t] \in D!Releasing
      \/ dpc[t] \notin D!Releasing
      \/ inv[t] \in fallidos'
      \/ \A f \in filas' : f.inv # inv[t]
    BY DEF Bill, DiscountStep, DiscountFails, D!Bill, D!BillConflict, D!FindDiscounts, D!FindBilled,
           D!Release, D!Fail, D!CommitLost, D!Charge, D!Free, D!Goto, D!tables, D!Releasing
<1>3. \A f \in filas' \ filas : dpc[t] = "bill" /\ f.inv = inv[t]
    BY DEF Bill, DiscountStep, DiscountFails, D!Bill, D!BillConflict, D!FindDiscounts, D!FindBilled,
           D!Release, D!Fail, D!CommitLost, D!Charge, D!Free, D!Goto, D!tables
<1> SUFFICES ASSUME NEW f \in filas', cobros[f.inv] <= 0, f.inv \notin fallidos'
             PROVE  D!ReleasingOn(f.inv)' # {}
    <2>1. \A f \in filas' : cobros[f.inv] \in Int
        <3>1. \A f \in filas : f.inv \in Invoices
            OBVIOUS
        <3>2. dpc[t] = "bill" => inv[t] \in Invoices
            BY DEF DF!WorksInv
        <3> QED BY <1>3, <3>1, <3>2
    <2> QED BY <1>1, <2>1 DEF RowsPaid
<1>4. f \in filas
    <2>1. dpc[t] = "bill" => inv[t] \in Invoices /\ cobros[inv[t]] > 0 /\ cobros[inv[t]] \in Int
        BY DEF PaidHere, D!Billing, DF!WorksInv
    <2> QED BY <1>3, <2>1
<1>5. PICK u \in Tasks : dpc[u] \in D!Releasing /\ inv[u] = f.inv
    <2>1. f.inv \in Invoices /\ cobros[f.inv] \in Int
        BY <1>4
    <2> QED BY <1>1, <1>4, <2>1 DEF RowsPaid, D!ReleasingOn
<1>6. dpc'[u] \in D!Releasing /\ inv'[u] = f.inv
    BY <1>1, <1>2, <1>5
<1> QED BY <1>6 DEF D!ReleasingOn

(* A call in the ledger goes on, without touching headers and marks.       *)
LEMMA BookQuiet ==
    ASSUME LinkInv, BookPart, NEW t \in Tasks, UNCHANGED <<headers, verify, cobros>>,
           lfaults' = 0 => lfaults = 0,
           \A u \in Tasks \ {t} : lpc'[u] = lpc[u] /\ job'[u] = job[u],
           lpc'[t] \in Entering =>
               /\ job'[t].inv = job[t].inv
               /\ \/ lpc[t] \in Entering
                  \/ \A h \in headers : h.recibo # job[t].inv,
           lfaults' = 0 => \A h \in headers : h.recibo = job[t].inv =>
               \/ lpc[t] \notin L!Deleting
               \/ lpc[t] # "delFind" /\ job[t].id # h.id
               \/ /\ lpc'[t] \in {"delDetails", "delHeader"}
                  /\ job'[t].inv = job[t].inv /\ job'[t].id = h.id
    PROVE  BookPart'
<1> USE DEF BookPart
<1>1. MarkPaid' /\ OneHeader'
    BY DEF MarkPaid, OneHeader
<1>2. Unregistered'
    BY DEF Unregistered
<1>3. HeadersPaid'
    <2> SUFFICES ASSUME lfaults' = 0, NEW h \in headers, ~ (cobros[h.recibo] > 0)
                 PROVE  OnHand(h)'
        BY DEF HeadersPaid
    <2>1. PICK u \in Tasks : /\ job[u].inv = h.recibo
                             /\ \/ lpc[u] = "delFind"
                                \/ lpc[u] \in {"delDetails", "delHeader"} /\ job[u].id = h.id
        BY DEF HeadersPaid, OnHand
    <2>2. CASE u = t
        <3>1. lpc[t] \in L!Deleting
            BY <2>1, <2>2 DEF L!Deleting
        <3> QED BY <2>1, <2>2, <3>1 DEF OnHand
    <2>3. CASE u # t
        BY <2>1, <2>3 DEF OnHand
    <2> QED BY <2>2, <2>3
<1> QED BY <1>1, <1>2, <1>3

(* A registration commits: nobody else registers its invoice, which is     *)
(* paid and had no header.                                                 *)
LEMMA BookCommit ==
    ASSUME LinkInv, BookPart, NEW t \in Tasks, lpc[t] = "commit",
           headers' = headers \cup {L!NewHeader(t)}, UNCHANGED <<verify, cobros>>,
           lfaults' = 0 => lfaults = 0,
           lpc'[t] \in {"mark", "idle"},
           \A u \in Tasks \ {t} : lpc'[u] = lpc[u] /\ job'[u] = job[u]
    PROVE  BookPart'
<1> USE DEF BookPart
<1>1. L!NewHeader(t).recibo = job[t].inv
    BY DEF L!NewHeader
<1>2. cobros[job[t].inv] > 0
    BY DEF LinkInv, Linked, PaidHere, L!Syncing, D!Billing
<1>3. \A h \in headers : h.recibo # job[t].inv
    BY DEF Unregistered
<1>4. ASSUME NEW u \in Tasks, u # t, lpc[u] \in Entering
      PROVE  job[u].inv # job[t].inv
    BY <1>4 DEF LinkInv, Linked, OnePayment, L!Syncing, D!Billing
<1>5. MarkPaid'
    BY DEF MarkPaid
<1>6. OneHeader'
    BY <1>1, <1>3 DEF OneHeader
<1>7. Unregistered'
    BY <1>1, <1>4 DEF Unregistered
<1>8. HeadersPaid'
    <2> SUFFICES ASSUME lfaults' = 0, NEW h \in headers, ~ (cobros[h.recibo] > 0)
                 PROVE  OnHand(h)'
        BY <1>1, <1>2 DEF HeadersPaid
    <2>1. PICK u \in Tasks : /\ job[u].inv = h.recibo
                             /\ \/ lpc[u] = "delFind"
                                \/ lpc[u] \in {"delDetails", "delHeader"} /\ job[u].id = h.id
        BY DEF HeadersPaid, OnHand
    <2> QED BY <2>1 DEF OnHand
<1> QED BY <1>5, <1>6, <1>7, <1>8

(* A clean-up deletes what it has in hand.                                 *)
LEMMA BookDelete ==
    ASSUME LinkInv, BookPart, NEW t \in Tasks, L!DelHeader(t), UNCHANGED cobros,
           \A u \in Tasks \ {t} : lpc'[u] = lpc[u] /\ job'[u] = job[u],
           lpc'[t] \notin L!Syncing
    PROVE  BookPart'
<1> USE DEF BookPart
<1>1. /\ headers' = {h \in headers : h.id # job[t].id} /\ UNCHANGED <<verify, lfaults>>
      /\ lpc[t] = "delHeader"
    BY DEF L!DelHeader, L!sigedin
<1>2. MarkPaid' /\ OneHeader' /\ Unregistered'
    BY <1>1 DEF MarkPaid, OneHeader, Unregistered, L!Syncing
<1>3. HeadersPaid'
    <2> SUFFICES ASSUME lfaults = 0, NEW h \in headers, h.id # job[t].id, ~ (cobros[h.recibo] > 0)
                 PROVE  OnHand(h)'
        BY <1>1 DEF HeadersPaid
    <2>1. PICK u \in Tasks : /\ job[u].inv = h.recibo
                             /\ \/ lpc[u] = "delFind"
                                \/ lpc[u] \in {"delDetails", "delHeader"} /\ job[u].id = h.id
        BY DEF HeadersPaid, OnHand
    <2> QED BY <1>1, <2>1 DEF OnHand
<1> QED BY <1>2, <1>3

LEMMA BookCall ==
    ASSUME TraceInv, NEW t \in Tasks, LedgerStep(t)
    PROVE  BookPart'
<1> USE DEF TraceInv
<1>1. /\ UNCHANGED <<todo, pago, anioPago>> /\ lpc'[t] # "next"
      /\ \A u \in Tasks \ {t} : lpc'[u] = lpc[u] /\ job'[u] = job[u]
      /\ lpc'[t] \in L!Syncing => lpc[t] \in L!Syncing /\ job'[t].inv = job[t].inv
      /\ lpc'[t] \in L!Deleting => lpc[t] \in L!Deleting /\ job'[t].inv = job[t].inv
    BY CallGoesOn DEF LedgerStep, LinkInv, Parts
<1>2. cobros' = cobros /\ lfaults \in Nat /\ todo[t] = {} /\ L!Blank(Nadie).inv = Nadie
    BY DEF LedgerStep, dvars, LinkInv, Parts, LF!Typed, LF!TypeOK, NoLoops, L!Blank
<1>3. lpc \in [Tasks -> L!Syncing \cup L!Deleting \cup {"idle", "next"}]
      /\ job \in [Tasks -> LF!Jobs]
    BY DEF LinkInv, Parts, LF!Typed, LF!TypeOK, LF!Jobs,
           L!Syncing, L!Deleting, LF!Syncing, LF!Deleting
<1> USE DEF L!Goto, L!Return, L!ledger, L!sigedin
<1>4. CASE \/ L!LookUp(t) \/ L!FindTercero(t) \/ L!CodTercero(t) \/ L!FindPago(t)
           \/ L!CodFactura(t) \/ L!CodDet(t) \/ L!CommitConflict(t) \/ L!Reject(t)
    <2>1. /\ UNCHANGED <<headers, verify, lfaults>>
          /\ lpc[t] \in L!Syncing
          /\ lpc'[t] = "tercero" => \A h \in headers : h.recibo # job[t].inv
          /\ lpc'[t] \in Entering \ {"tercero"} => lpc[t] \in Entering
        BY <1>2, <1>3, <1>4 DEF L!LookUp, L!FindTercero, L!CodTercero, L!FindPago, L!CodFactura,
           L!CodDet, L!CommitConflict, L!Reject, L!Syncing, Entering
    <2>2. lpc[t] \notin L!Deleting
        BY <2>1 DEF L!Syncing, L!Deleting
    <2> QED BY <1>1, <1>2, <2>1, <2>2, BookQuiet DEF L!Syncing
<1>5. CASE L!CommitSys(t) \/ L!CommitLost(t)
    <2>1. /\ lpc[t] = "commit" /\ lpc'[t] \in {"mark", "idle"}
          /\ headers' = headers \cup {L!NewHeader(t)} /\ UNCHANGED verify
          /\ lfaults' = 0 => lfaults = 0
        BY <1>2, <1>3, <1>5 DEF L!CommitSys, L!CommitLost
    <2> QED BY <1>1, <1>2, <2>1, BookCommit
<1>6. CASE L!Mark(t)
    <2>1. /\ lpc[t] = "mark" /\ lpc'[t] = "idle" /\ UNCHANGED <<headers, lfaults>>
          /\ verify' = [verify EXCEPT ![job[t].inv] = "REGISTRADO"]
        BY <1>2, <1>3, <1>6 DEF L!Mark
    <2>2. cobros[job[t].inv] > 0
        BY <2>1 DEF LinkInv, Linked, PaidHere, L!Syncing, D!Billing
    <2>3. MarkPaid'
        BY <1>2, <2>1, <2>2 DEF BookPart, MarkPaid, LinkInv, Parts, LF!Typed, LF!TypeOK
    <2>4. OneHeader' /\ Unregistered'
        BY <1>1, <2>1 DEF BookPart, OneHeader, Unregistered
    <2>5. HeadersPaid'
        BY <1>1, <1>2, <2>1 DEF BookPart, HeadersPaid, OnHand
    <2> QED BY <2>3, <2>4, <2>5 DEF BookPart
<1>7. CASE L!DelFind(t)
    <2>1. UNCHANGED <<headers, verify, lfaults>> /\ lpc[t] = "delFind" /\ lpc'[t] \notin L!Syncing
        BY <1>2, <1>3, <1>7 DEF L!DelFind, L!Syncing
    <2>2. ASSUME NEW h \in headers, h.recibo = job[t].inv
          PROVE  lpc'[t] = "delDetails" /\ job'[t].inv = job[t].inv /\ job'[t].id = h.id
        <3>1. PICK g \in headers : g.recibo = job[t].inv /\ job' = [job EXCEPT ![t].id = g.id]
                                   /\ lpc' = [lpc EXCEPT ![t] = "delDetails"]
            BY <1>7, <2>2 DEF L!DelFind
        <3>2. g = h
            BY <2>2, <3>1 DEF BookPart, OneHeader
        <3> QED BY <1>3, <3>1, <3>2 DEF LF!Jobs
    <2> QED BY <1>1, <1>2, <2>1, <2>2, BookQuiet DEF L!Syncing
<1>8. CASE L!DelDetails(t)
    <2>1. /\ UNCHANGED <<headers, verify, lfaults, job>>
          /\ lpc[t] = "delDetails" /\ lpc'[t] = "delHeader"
        BY <1>3, <1>8 DEF L!DelDetails
    <2> QED BY <1>1, <1>2, <2>1, BookQuiet
<1>9. CASE L!DelHeader(t)
    <2>1. lpc'[t] \notin L!Syncing
        BY <1>2, <1>3, <1>9 DEF L!DelHeader, L!Syncing
    <2> QED BY <1>1, <1>2, <1>9, <2>1, BookDelete
<1>10. CASE L!Fail(t)
    <2>1. UNCHANGED <<headers, verify>> /\ lfaults' # 0 /\ lpc'[t] = "idle"
        BY <1>2, <1>3, <1>10 DEF L!Fail
    <2> QED BY <1>1, <1>2, <2>1, BookQuiet
<1>11. ~ L!NextInvoice(t)
    BY <1>2 DEF L!NextInvoice
<1> QED BY <1>4, <1>5, <1>6, <1>7, <1>8, <1>9, <1>10, <1>11 DEF LedgerStep, L!Step

(* A reversal leaves an unpaid invoice, and two clean-ups to go with it.   *)
LEMMA TraceReverse ==
    ASSUME TraceInv, NEW t \in Tasks, NEW i \in Invoices, Reverse(t, i)
    PROVE  RowsPaid' /\ BookPart'
<1> USE DEF TraceInv, LinkInv, Parts
<1>1. /\ dpc[t] = "idle" /\ lpc[t] = "idle" /\ UNCHANGED <<headers, filas, fallidos, lfaults>>
      /\ verify' = [verify EXCEPT ![i] = "PENDIENTE"]
      /\ lpc' = [lpc EXCEPT ![t] = "delFind"] /\ job' = [job EXCEPT ![t] = L!Blank(i)]
      /\ dpc' = [dpc EXCEPT ![t] = "relFind"] /\ inv' = [inv EXCEPT ![t] = i]
      /\ cobros' = [cobros EXCEPT ![i] = cobros[i] - 1]
    BY DEF Reverse, L!Reverse, L!ledger, D!Reverse, D!Goto
<1>2. /\ dpc'[t] = "relFind" /\ inv'[t] = i /\ lpc'[t] = "delFind" /\ job'[t].inv = i
      /\ \A u \in Tasks \ {t} : /\ dpc'[u] = dpc[u] /\ inv'[u] = inv[u]
                                /\ lpc'[u] = lpc[u] /\ job'[u] = job[u]
    BY <1>1 DEF DF!Typed, DF!TypeOK, LF!Typed, LF!TypeOK, L!Blank
<1>3. \A j \in Invoices \ {i} : cobros'[j] = cobros[j]
    BY <1>1 DEF DF!Typed, DF!TypeOK
<1>4. /\ \A h \in headers : h.recibo \in Invoices
      /\ \A f \in filas : f.inv \in Invoices
      /\ verify \in [Invoices -> {"PENDIENTE", "REGISTRADO"}]
    BY DEF DF!Typed, DF!TypeOK, LF!Typed, LF!TypeOK
<1>5. RowsPaid'
    <2> SUFFICES ASSUME NEW f \in filas, f.inv \notin fallidos, ~ (cobros'[f.inv] > 0)
                 PROVE  D!ReleasingOn(f.inv)' # {}
        BY <1>1 DEF RowsPaid
    <2>1. CASE f.inv = i
        BY <1>2, <2>1 DEF D!ReleasingOn, D!Releasing
    <2>2. CASE f.inv # i
        <3>1. PICK u \in Tasks : dpc[u] \in D!Releasing /\ inv[u] = f.inv
            BY <1>3, <1>4, <2>2 DEF RowsPaid, D!ReleasingOn
        <3>2. u # t
            BY <1>1, <3>1 DEF D!Releasing
        <3> QED BY <1>2, <3>1, <3>2 DEF D!ReleasingOn
    <2> QED BY <2>1, <2>2
<1>6. MarkPaid'
    BY <1>1, <1>3, <1>4 DEF BookPart, MarkPaid
<1>7. OneHeader' /\ Unregistered'
    BY <1>1, <1>2 DEF BookPart, OneHeader, Unregistered
<1>8. HeadersPaid'
    <2> SUFFICES ASSUME lfaults = 0, NEW h \in headers, ~ (cobros'[h.recibo] > 0)
                 PROVE  OnHand(h)'
        BY <1>1 DEF HeadersPaid
    <2>1. CASE h.recibo = i
        BY <1>2, <2>1 DEF OnHand
    <2>2. CASE h.recibo # i
        <3>1. OnHand(h)
            BY <1>3, <1>4, <2>2 DEF BookPart, HeadersPaid
        <3>2. PICK u \in Tasks : /\ job[u].inv = h.recibo
                                 /\ \/ lpc[u] = "delFind"
                                    \/ lpc[u] \in {"delDetails", "delHeader"} /\ job[u].id = h.id
            BY <3>1 DEF OnHand
        <3>3. u # t
            BY <1>1, <3>2
        <3> QED BY <1>2, <3>2, <3>3 DEF OnHand
    <2> QED BY <2>1, <2>2
<1> QED BY <1>5, <1>6, <1>7, <1>8 DEF BookPart

LEMMA TraceStep == TraceInv /\ [Next]_vars => TraceInv'
<1> SUFFICES ASSUME TraceInv, [Next]_vars PROVE RowsPaid' /\ BookPart'
    BY LinkStep DEF TraceInv
<1> USE DEF TraceInv
<1>1. /\ cobros \in [Invoices -> Nat] /\ \A f \in filas : f.inv \in Invoices
      /\ \A h \in headers : h.recibo \in Invoices
    BY DEF LinkInv, Parts, DF!Typed, DF!TypeOK, LF!Typed, LF!TypeOK
<1>2. ASSUME UNCHANGED <<filas, fallidos, dpc, inv>>,
             \A i \in Invoices : cobros[i] > 0 => cobros'[i] > 0
      PROVE  RowsPaid'
    BY <1>1, <1>2 DEF RowsPaid, D!ReleasingOn
<1>3. ASSUME UNCHANGED <<headers, verify, lpc, job, lfaults>>,
             \A i \in Invoices : cobros[i] > 0 => cobros'[i] > 0
      PROVE  BookPart'
    BY <1>1, <1>3 DEF BookPart, MarkPaid, HeadersPaid, OneHeader, Unregistered, OnHand
<1>4. ASSUME NEW t \in Tasks, LedgerStep(t) PROVE RowsPaid' /\ BookPart'
    BY <1>2, <1>4, BookCall DEF LedgerStep, dvars
<1>5. ASSUME NEW t \in Tasks, Bill(t) \/ DiscountStep(t) \/ DiscountFails(t)
      PROVE  RowsPaid' /\ BookPart'
    <2>1. UNCHANGED lvars /\ cobros' = cobros
        BY <1>5 DEF Bill, DiscountStep, DiscountFails, D!Bill, D!BillConflict, D!FindDiscounts,
           D!FindBilled, D!Release, D!Fail, D!CommitLost, D!Charge, D!Free, D!tables
    <2> QED BY <1>3, <1>5, <2>1, RowsKept DEF lvars
<1>6. ASSUME NEW t \in Tasks, CallLedger(t) PROVE RowsPaid' /\ BookPart'
    <2>1. /\ UNCHANGED dvars /\ UNCHANGED <<headers, verify, lfaults>> /\ lpc[t] = "idle"
          /\ lpc' = [lpc EXCEPT ![t] = "lookup"]
          /\ job' = [job EXCEPT ![t] = L!Blank(inv[t])]
        BY <1>6 DEF CallLedger, L!StartOne, L!Begin, L!sigedin, L!ledger
    <2>2. lpc'[t] = "lookup" /\ \A u \in Tasks \ {t} : lpc'[u] = lpc[u] /\ job'[u] = job[u]
        BY <2>1 DEF LinkInv, Parts, LF!Typed, LF!TypeOK
    <2>3. BookPart'
        BY <2>1, <2>2, BookQuiet DEF dvars, L!Deleting
    <2> QED BY <1>2, <2>1, <2>3 DEF dvars
<1>7. ASSUME NEW t \in Tasks, NEW i \in Invoices, Pay(t, i) PROVE RowsPaid' /\ BookPart'
    <2>1. /\ UNCHANGED <<headers, verify, lpc, job, lfaults, filas, fallidos>> /\ dpc[t] = "idle"
          /\ dpc' = [dpc EXCEPT ![t] = "find"] /\ inv' = [inv EXCEPT ![t] = i]
          /\ cobros' = [cobros EXCEPT ![i] = cobros[i] + 1]
        BY <1>7 DEF Pay, L!Pay, L!ledger, D!Pay, D!Goto
    <2>2. \A j \in Invoices : cobros[j] > 0 => cobros'[j] > 0
        BY <1>1, <2>1
    <2>3. \A u \in Tasks : dpc[u] \in D!Releasing => dpc'[u] = dpc[u] /\ inv'[u] = inv[u]
        BY <2>1 DEF LinkInv, Parts, DF!Typed, DF!TypeOK, D!Releasing
    <2>4. RowsPaid'
        <3> SUFFICES ASSUME NEW f \in filas, f.inv \notin fallidos, ~ (cobros'[f.inv] > 0)
                     PROVE  D!ReleasingOn(f.inv)' # {}
            BY <2>1 DEF RowsPaid
        <3>1. PICK u \in Tasks : dpc[u] \in D!Releasing /\ inv[u] = f.inv
            BY <1>1, <2>2 DEF RowsPaid, D!ReleasingOn
        <3> QED BY <2>3, <3>1 DEF D!ReleasingOn
    <2> QED BY <1>3, <2>1, <2>2, <2>4
<1>8. ASSUME NEW t \in Tasks, NEW i \in Invoices, Reverse(t, i) PROVE RowsPaid' /\ BookPart'
    BY <1>8, TraceReverse
<1>9. CASE Crash
    <2>1. cobros' = cobros /\ UNCHANGED <<headers, verify, filas, inv>>
        BY <1>9 DEF Crash, L!Crash, D!Crash, D!tables, L!sigedin, L!ledger, lvars, dvars
    <2>2. RowsPaid'
        <3>1. \/ UNCHANGED <<dpc, fallidos>>
              \/ /\ \A t \in Tasks : dpc[t] \in D!Releasing => inv[t] \in fallidos'
                 /\ fallidos \subseteq fallidos'
            BY <1>9 DEF Crash, D!Crash, dvars, D!Active
        <3> QED BY <2>1, <3>1 DEF RowsPaid, D!ReleasingOn
    <2>3. BookPart'
        <3>1. CASE UNCHANGED lvars
            BY <1>3, <2>1, <3>1 DEF lvars
        <3>2. CASE L!Crash
            <4>1. lfaults' # 0 /\ \A t \in Tasks : lpc'[t] = "idle"
                BY <3>2 DEF L!Crash, LinkInv, Parts, LF!Typed, LF!TypeOK
            <4> QED BY <2>1, <4>1 DEF BookPart, MarkPaid, HeadersPaid, OneHeader, Unregistered
        <3> QED BY <1>9, <3>1, <3>2 DEF Crash
    <2> QED BY <2>2, <2>3
<1>10. CASE (\E d \in Discounts : Office(d)) \/ UNCHANGED vars
    <2>1. UNCHANGED <<lvars, cobros, filas, fallidos, dpc, inv>>
        BY <1>10 DEF Office, D!Approve, D!Withdraw, D!Decide, vars, dvars
    <2> QED BY <1>2, <1>3, <2>1 DEF lvars
<1> QED BY <1>4, <1>5, <1>6, <1>7, <1>8, <1>9, <1>10 DEF Next

LEMMA TypesLinked == LinkInv => TypeOK
BY DEF LinkInv, Parts, TypeOK, LF!Typed, DF!Typed, LF!TypeOK, L!TypeOK, DF!TypeOK, D!TypeOK,
       LF!Syncing, L!Syncing, LF!Deleting, L!Deleting, DF!Estados, D!Estados,
       DF!Billing, D!Billing, DF!Releasing, D!Releasing

(* An invoice that ends up unpaid leaves no trace in the ledger and in the *)
(* discounts, once all that was started on it is over and nothing failed,  *)
(* although its banks wait for answers only (CashDesk!SinPagoSinRastro).   *)
THEOREM SinRastroProved == Spec => []SinPagoSinRastro
<1>1. Init => TraceInv
    BY LinkInit DEF Init, TraceInv, RowsPaid, BookPart, MarkPaid, HeadersPaid, OneHeader,
       Unregistered, L!Init, D!Init
<1>2. TraceInv => SinPagoSinRastro
    <2> SUFFICES ASSUME TraceInv, NEW i \in Invoices, cobros[i] = 0, Quiet(i)
                 PROVE  /\ \A h \in headers : h.recibo # i
                        /\ \A f \in filas : f.inv # i
                        /\ verify[i] = "PENDIENTE"
        BY TypesLinked DEF TraceInv, SinPagoSinRastro
    <2> USE DEF TraceInv, Quiet, Cleaned
    <2>1. ~ (cobros[i] > 0)
        OBVIOUS
    <2>2. \A h \in headers : OnHand(h) => L!DeletingOn(h.recibo)
        BY DEF OnHand, L!DeletingOn, L!Deleting
    <2>3. \A h \in headers : h.recibo # i
        BY <2>1, <2>2 DEF BookPart, HeadersPaid
    <2>4. \A f \in filas : f.inv # i
        BY <2>1 DEF RowsPaid
    <2>5. verify[i] = "PENDIENTE"
        BY <2>1 DEF BookPart, MarkPaid, LinkInv, Parts, LF!Typed, LF!TypeOK
    <2> QED BY <2>3, <2>4, <2>5
<1> QED BY <1>1, <1>2, TraceStep, PTL DEF Spec

-----------------------------------------------------------------------------
(* Banks that wait for the clean-ups as well keep the calls on an invoice  *)
(* apart: while a payment of it is at work, no clean-up is.                *)
BillingApart == esperan => \A t, u \in Tasks :
    dpc[t] \in D!Billing /\ lpc[u] \in L!Deleting => inv[t] # job[u].inv

WaitInv == LinkInv /\ BillingApart

LEMMA WaitStep == WaitInv /\ [Next]_vars => WaitInv'
<1> SUFFICES ASSUME WaitInv, [Next]_vars, esperan PROVE BillingApart'
    BY LinkStep, DeskStands DEF WaitInv, LinkInv, BillingApart
<1> USE DEF WaitInv, LinkInv, Parts
<1>1. ASSUME \A t \in Tasks : dpc'[t] \in D!Billing => dpc[t] \in D!Billing /\ inv'[t] = inv[t],
             \A t \in Tasks : lpc'[t] \in L!Deleting => lpc[t] \in L!Deleting /\ job'[t].inv = job[t].inv
      PROVE  BillingApart'
    BY <1>1 DEF BillingApart
<1>2. ASSUME NEW t \in Tasks, LedgerStep(t) PROVE BillingApart'
    BY <1>1, <1>2, CallGoesOn DEF LedgerStep, dvars
<1>3. ASSUME NEW t \in Tasks, Bill(t) \/ DiscountStep(t) \/ DiscountFails(t) PROVE BillingApart'
    <2>1. /\ inv' = inv /\ UNCHANGED lvars
          /\ dpc'[t] \in D!Billing => dpc[t] \in D!Billing
          /\ \A u \in Tasks \ {t} : dpc'[u] = dpc[u]
        BY <1>3 DEF DF!Typed, DF!TypeOK, Bill, DiscountStep, DiscountFails,
           D!Bill, D!BillConflict, D!FindDiscounts, D!FindBilled, D!Release, D!Fail, D!CommitLost,
           D!Charge, D!Free, D!Goto, D!tables, D!Billing
    <2> QED BY <1>1, <2>1 DEF lvars
<1>4. ASSUME NEW t \in Tasks, CallLedger(t) PROVE BillingApart'
    <2>1. UNCHANGED dvars /\ lpc' = [lpc EXCEPT ![t] = "lookup"]
          /\ job' = [job EXCEPT ![t] = L!Blank(inv[t])]
        BY <1>4 DEF CallLedger, L!StartOne, L!Begin
    <2> QED BY <1>1, <2>1 DEF dvars, LF!Typed, LF!TypeOK, L!Deleting
<1>5. ASSUME NEW t \in Tasks, NEW i \in Invoices, Pay(t, i) PROVE BillingApart'
    <2>1. /\ UNCHANGED <<lpc, job>>
          /\ \A u \in Tasks : lpc[u] \in L!Deleting => job[u].inv # i
          /\ dpc' = [dpc EXCEPT ![t] = "find"] /\ inv' = [inv EXCEPT ![t] = i]
        BY <1>5 DEF Pay, L!Pay, D!Pay, D!Goto, Sends, Cleaned, L!DeletingOn
    <2>2. inv'[t] = i /\ \A u \in Tasks \ {t} : dpc'[u] = dpc[u] /\ inv'[u] = inv[u]
        BY <2>1 DEF DF!Typed, DF!TypeOK
    <2> QED BY <2>1, <2>2 DEF BillingApart
<1>6. ASSUME NEW t \in Tasks, NEW i \in Invoices, Reverse(t, i) PROVE BillingApart'
    <2>1. /\ \A u \in Tasks : dpc[u] \in D!Billing => inv[u] # i
          /\ lpc' = [lpc EXCEPT ![t] = "delFind"] /\ job' = [job EXCEPT ![t] = L!Blank(i)]
          /\ dpc' = [dpc EXCEPT ![t] = "relFind"] /\ inv' = [inv EXCEPT ![t] = i]
        BY <1>6 DEF Reverse, L!Reverse, D!Reverse, D!Goto, Sends, Answered
    <2>2. /\ dpc'[t] = "relFind" /\ job'[t].inv = i
          /\ \A u \in Tasks \ {t} : /\ dpc'[u] = dpc[u] /\ inv'[u] = inv[u]
                                    /\ lpc'[u] = lpc[u] /\ job'[u] = job[u]
        BY <2>1 DEF DF!Typed, DF!TypeOK, LF!Typed, LF!TypeOK, L!Blank
    <2> QED BY <2>1, <2>2 DEF BillingApart, D!Billing
<1>7. CASE Crash
    <2>1. inv' = inv /\ \A t \in Tasks : lpc'[t] = "idle" /\ dpc'[t] \notin D!Billing
        BY <1>7 DEF Crash, L!Crash, D!Crash, D!tables, D!Active, D!Billing, D!Releasing, lvars, dvars
    <2> QED BY <1>1, <2>1 DEF L!Deleting
<1>8. CASE (\E d \in Discounts : Office(d)) \/ UNCHANGED vars
    <2>1. UNCHANGED <<lpc, job, dpc, inv>>
        BY <1>8 DEF Office, D!Approve, D!Withdraw, D!Decide, vars, lvars, dvars
    <2> QED BY <1>1, <2>1
<1> QED BY <1>2, <1>3, <1>4, <1>5, <1>6, <1>7, <1>8 DEF Next

LEMMA WaitAlways == Spec => []WaitInv
<1>1. Init => WaitInv
    BY LinkInit DEF Init, WaitInv, BillingApart, D!Init, D!Billing
<1> QED BY <1>1, WaitStep, PTL DEF Spec

(* What such banks do to the ledger is what its environment may do when it *)
(* keeps the calls on an invoice apart.                                    *)
LEMMA OrderedLedger ==
    ASSUME WaitInv, esperan, [Next]_vars
    PROVE  /\ [LO!Next]_(LO!vars)
           /\ Ordered!Next \/ UNCHANGED lvars
<1> USE DEF WaitInv, LinkInv, Parts
<1>1. ASSUME NEW t \in Tasks, LedgerStep(t) PROVE LO!Next /\ Ordered!Next
    BY <1>1, SameStep DEF NoLoops, LedgerStep, Everywhere, LO!Next, Ordered!Next
<1>2. ASSUME NEW t \in Tasks, NEW i \in Invoices, Pay(t, i) PROVE LO!Next /\ Ordered!Next
    <2>1. ~ L!DeletingOn(i)
        BY <1>2 DEF Pay, Sends, Cleaned
    <2>2. LO!Pay(i) /\ Ordered!Pay(i)
        BY <1>2, <2>1 DEF Pay, L!Pay, LO!Pay, Ordered!Pay, L!DeletingOn, LO!DeletingOn, Ordered!DeletingOn,
           L!Deleting, LO!Deleting, Ordered!Deleting, L!ledger, LO!ledger, Ordered!ledger
    <2> QED BY <2>2 DEF LO!Next, Ordered!Next
<1>3. ASSUME NEW t \in Tasks, CallLedger(t) PROVE LO!Next /\ Ordered!Next
    <2>1. inv[t] \in Invoices /\ dpc[t] = "bill" /\ lpc[t] = "idle"
        BY <1>3 DEF CallLedger, DF!Typed, DF!WorksInv, L!StartOne
    <2>2. ~ L!SyncingOn(inv[t])
        BY <2>1 DEF L!SyncingOn, L!Syncing, Linked, OnePayment, D!Billing
    <2>3. ~ L!DeletingOn(inv[t])
        BY <2>1 DEF L!DeletingOn, BillingApart, D!Billing
    <2>4. LO!StartOne(t, inv[t]) /\ Ordered!StartOne(t, inv[t])
        BY <1>3, <2>2, <2>3
           DEF CallLedger, L!StartOne, LO!StartOne, Ordered!StartOne, L!Begin, LO!Begin, Ordered!Begin,
           LO!SyncAdmitted, Ordered!SyncAdmitted, L!Blank, LO!Blank, Ordered!Blank,
           L!SyncingOn, LO!SyncingOn, Ordered!SyncingOn, L!DeletingOn, LO!DeletingOn, Ordered!DeletingOn,
           L!Syncing, LO!Syncing, Ordered!Syncing, L!Deleting, LO!Deleting, Ordered!Deleting,
           L!sigedin, LO!sigedin, Ordered!sigedin, L!ledger, LO!ledger, Ordered!ledger,
           L!env, LO!env, Ordered!env
    <2> QED BY <2>1, <2>4 DEF LO!Next, Ordered!Next
<1>4. ASSUME NEW t \in Tasks, NEW i \in Invoices, Reverse(t, i) PROVE LO!Next /\ Ordered!Next
    <2>1. ~ L!SyncingOn(i)
        BY <1>4 DEF Reverse, Sends, Answered, L!SyncingOn, Linked, D!Billing
    <2>2. ~ L!DeletingOn(i)
        BY <1>4 DEF Reverse, Sends, Cleaned
    <2>3. LO!Reverse(i, t) /\ Ordered!Reverse(i, t)
        BY <1>4, <2>1, <2>2
           DEF Reverse, L!Reverse, LO!Reverse, Ordered!Reverse, LO!DeleteAdmitted, Ordered!DeleteAdmitted,
           L!Blank, LO!Blank, Ordered!Blank,
           L!SyncingOn, LO!SyncingOn, Ordered!SyncingOn, L!DeletingOn, LO!DeletingOn, Ordered!DeletingOn,
           L!Syncing, LO!Syncing, Ordered!Syncing, L!Deleting, LO!Deleting, Ordered!Deleting,
           L!ledger, LO!ledger, Ordered!ledger
    <2> QED BY <2>3 DEF LO!Next, Ordered!Next
<1>5. ASSUME L!Crash PROVE LO!Next /\ Ordered!Next
    <2>1. LO!Crash /\ Ordered!Crash
        BY <1>5 DEF L!Crash, LO!Crash, Ordered!Crash, L!Blank, LO!Blank, Ordered!Blank,
           L!sigedin, LO!sigedin, Ordered!sigedin, L!ledger, LO!ledger, Ordered!ledger,
           L!env, LO!env, Ordered!env
    <2> QED BY <2>1 DEF LO!Next, Ordered!Next
<1>6. ASSUME UNCHANGED lvars PROVE UNCHANGED LO!vars
    BY <1>6 DEF lvars, LO!vars, LO!sigedin, LO!ledger, LO!env
<1>7. ASSUME [Next]_vars PROVE (LO!Next /\ Ordered!Next) \/ UNCHANGED lvars
    <2>1. CASE Crash \/ (\E d \in Discounts : Office(d)) \/ UNCHANGED vars
        BY <1>5, <2>1 DEF Crash, Office, vars
    <2>2. ASSUME NEW t \in Tasks, Bill(t) \/ DiscountStep(t) \/ DiscountFails(t)
          PROVE  UNCHANGED lvars
        BY <2>2 DEF Bill, DiscountStep, DiscountFails
    <2> QED BY <1>1, <1>2, <1>3, <1>4, <1>7, <2>1, <2>2 DEF Next
<1> QED BY <1>6, <1>7

LEMMA OrderedInit == Init => LO!Init /\ Ordered!Init
BY DEF Init, L!Init, LO!Init, Ordered!Init, L!Blank, LO!Blank, Ordered!Blank

(* Two calls of the ledger on one invoice never overlap, with such banks,  *)
(* because a payment is not answered before its registration is over: the  *)
(* desk implements the ledger's specification for calls kept apart         *)
(* (CashDesk!LibroAparte).                                                 *)
THEOREM AparteProved == Spec => LibroAparte
<1>1. WaitInv /\ [Next]_vars => [esperan => Ordered!Next]_lvars
    BY OrderedLedger
<1> QED BY <1>1, OrderedInit, WaitAlways, PTL DEF Spec, LibroAparte

-----------------------------------------------------------------------------
(* The same of the discounts. *)
LEMMA OrderedBilling ==
    ASSUME esperan, [Next]_vars
    PROVE  [DO!Next]_(DO!vars)
<1>1. ASSUME NEW t \in Tasks, DiscountStep(t) \/ DiscountFails(t) \/ Bill(t) PROVE DO!Next
    BY <1>1, SameBilling DEF DiscountStep, DiscountFails, Bill, DO!Step, DO!Next
<1>2. ASSUME NEW i \in Invoices, Sends(i) PROVE DO!On(i) = {}
    BY <1>2 DEF Sends, Answered, Cleaned, DO!On, DO!Active, D!ReleasingOn, D!Billing, DO!Billing,
                D!Releasing, DO!Releasing
<1>3. ASSUME NEW t \in Tasks, NEW i \in Invoices, Pay(t, i) PROVE DO!Next
    <2>1. DO!Pay(t, i)
        BY <1>2, <1>3 DEF Pay, D!Pay, DO!Pay, D!Goto, DO!Goto
    <2> QED BY <2>1 DEF DO!Next
<1>4. ASSUME NEW t \in Tasks, NEW i \in Invoices, Reverse(t, i) PROVE DO!Next
    <2>1. DO!Reverse(t, i)
        BY <1>2, <1>4 DEF Reverse, D!Reverse, DO!Reverse, D!Goto, DO!Goto
    <2> QED BY <2>1 DEF DO!Next
<1>5. ASSUME NEW d \in Discounts, Office(d) PROVE DO!Next
    BY <1>5 DEF Office, D!Approve, DO!Approve, D!Withdraw, DO!Withdraw, D!Decide, DO!Decide, DO!Next
<1>6. CASE Crash
    <2>1. D!Crash => DO!Crash
        BY DEF D!Crash, DO!Crash, D!Active, DO!Active, D!Billing, DO!Billing,
               D!Releasing, DO!Releasing, D!tables, DO!tables
    <2> QED BY <1>6, <2>1 DEF Crash, DO!Next, DO!vars, dvars
<1>7. ASSUME UNCHANGED dvars PROVE UNCHANGED DO!vars
    BY <1>7 DEF dvars, DO!vars
<1>8. ASSUME [Next]_vars PROVE DO!Next \/ UNCHANGED DO!vars
    BY <1>1, <1>3, <1>4, <1>5, <1>6, <1>7, <1>8 DEF Next, vars, CallLedger, LedgerStep
<1> QED BY <1>8

(* With such banks, what LedgerProofs and DiscountProofs know of calls     *)
(* kept apart holds of the two parts of the desk.                          *)
ApartInv == WaitInv /\ (esperan => LO!BookInv /\ DO!SerialInv)

LEMMA ApartStep ==
    ASSUME "soporte" \in Unicos, ApartInv, [Next]_vars
    PROVE  ApartInv'
<1>1. WaitInv' /\ esperan' = esperan
    BY WaitStep, DeskStands DEF ApartInv, WaitInv, LinkInv
<1>2. ASSUME esperan PROVE LO!BookInv'
    BY <1>2, OrderedLedger, LO!BookStep, LedgersAssumed DEF ApartInv
<1>3. ASSUME esperan PROVE DO!SerialInv'
    BY <1>3, OrderedBilling, DO!SerialStep, DiscountsAssumed DEF ApartInv
<1> QED BY <1>1, <1>2, <1>3 DEF ApartInv

(* With banks that wait for the clean-ups too, an invoice that ends up     *)
(* paid is in the ledger with the payment in force, or the nightly job     *)
(* still finds it, and no discount counts as billed that stands on none    *)
(* (CashDesk!PagadaEnLibro); given the unique index on the discount.       *)
THEOREM PagadaProved ==
    ASSUME "soporte" \in Unicos
    PROVE  Spec => []PagadaEnLibro
<1>1. Init => ApartInv
    <2>1. Init => WaitInv
        BY LinkInit DEF Init, WaitInv, BillingApart, D!Init, D!Billing
    <2>2. Init => LO!BookInv
        BY OrderedInit, LO!InitBook, LedgersAssumed
    <2>3. Init => DO!SerialInv
        BY DO!InitSerial, DiscountsAssumed DEF Init, D!Init, DO!Init
    <2> QED BY <2>1, <2>2, <2>3 DEF ApartInv
<1>2. ApartInv => PagadaEnLibro
    <2> SUFFICES ASSUME ApartInv, esperan, NEW i \in Invoices, Quiet(i)
                 PROVE  /\ \/ \E h \in headers : h.recibo = i /\ h.pago = pago[i]
                           \/ verify[i] = "PENDIENTE"
                        /\ D!FacturadoConFila
        BY DEF PagadaEnLibro
    <2>1. D!FacturadoConFila
        BY DEF ApartInv, DO!SerialInv, DO!FacturadoConFila, D!FacturadoConFila
    <2>2. LO!LibroExacto /\ LO!TypeOK
        BY LO!BookExact, LedgersAssumed DEF ApartInv, LO!BookInv, LO!TerceroInv, LO!Typed
    <2>3. ~ LO!DeletingOn(i)
        BY DEF Quiet, Cleaned, L!DeletingOn, LO!DeletingOn, L!Deleting, LO!Deleting
    <2> QED BY <2>1, <2>2, <2>3 DEF Quiet, LO!LibroExacto, LO!TypeOK
<1>3. ApartInv /\ [Next]_vars => ApartInv'
    BY ApartStep
<1> QED BY <1>1, <1>2, <1>3, PTL DEF Spec
=============================================================================
