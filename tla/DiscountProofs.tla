--------------------------- MODULE DiscountProofs ---------------------------
(* Theorems about DiscountBilling, for every value of its constants. *)
EXTENDS DiscountBilling, TLAPS

-----------------------------------------------------------------------------
(* Types, and that a task past its start works on an invoice. *)
WorksInv == \A t \in Tasks : pc[t] # "idle" => inv[t] \in Invoices

Typed == TypeOK /\ WorksInv

LEMMA InitTyped == Init => Typed
BY DEF Init, Typed, TypeOK, WorksInv, Estados, Billing, Releasing

LEMMA ChargeTyped ==
    ASSUME Typed, NEW t \in Tasks, pc[t] # "idle", Charge(t)
    PROVE  /\ pagos' \in [Invoices -> Nat]
           /\ estado' \in [Discounts -> Estados]
           /\ filas' \subseteq [by : Tasks, inv : Invoices, desc : Discounts]
<1>1. inv[t] \in Invoices /\ leidos[t] \subseteq Discounts
    BY DEF Typed, TypeOK, WorksInv
<1> QED BY <1>1 DEF Typed, TypeOK, Charge, Estados

LEMMA FreeTyped ==
    ASSUME Typed, NEW t \in Tasks, Free(t)
    PROVE  /\ pagos' \in [Invoices -> Nat]
           /\ estado' \in [Discounts -> Estados]
           /\ filas' \subseteq [by : Tasks, inv : Invoices, desc : Discounts]
BY DEF Typed, TypeOK, Free, Estados

LEMMA TypedStep == Typed /\ [Next]_vars => Typed'
<1> SUFFICES ASSUME Typed, [Next]_vars PROVE Typed'
    OBVIOUS
<1> USE DEF Typed
<1>1. CASE Crash
    BY <1>1 DEF Crash, TypeOK, WorksInv, tables, Active, Billing, Releasing
<1>2. ASSUME NEW d \in Discounts, Approve(d) \/ Withdraw(d) PROVE Typed'
    BY <1>2 DEF Approve, Withdraw, Decide, TypeOK, WorksInv, Estados
<1>3. ASSUME NEW t \in Tasks, Step(t) PROVE Typed'
    <2>1. CASE FindDiscounts(t)
        BY <2>1, DiscountAssumption
           DEF FindDiscounts, Deduplicated, Goto, TypeOK, WorksInv, tables, Billing
    <2>2. CASE Bill(t)
        BY <2>2, ChargeTyped DEF Bill, Goto, TypeOK, WorksInv
    <2>3. CASE BillConflict(t)
        BY <2>3 DEF BillConflict, Goto, TypeOK, WorksInv, tables
    <2>4. CASE FindBilled(t)
        <3>1. BilledOn(inv[t]) \subseteq Discounts
            BY DEF BilledOn, TypeOK
        <3> QED BY <2>4, <3>1 DEF FindBilled, Goto, TypeOK, WorksInv, tables, Releasing
    <2>5. CASE Release(t)
        BY <2>5, FreeTyped DEF Release, Goto, TypeOK, WorksInv
    <2> QED BY <1>3, <2>1, <2>2, <2>3, <2>4, <2>5 DEF Step
<1>4. ASSUME NEW t \in Tasks, Fail(t) PROVE Typed'
    BY <1>4 DEF Fail, Goto, Active, Billing, Releasing, TypeOK, WorksInv, tables
<1>5. ASSUME NEW t \in Tasks, CommitLost(t) PROVE Typed'
    BY <1>5, ChargeTyped, FreeTyped DEF CommitLost, Goto, TypeOK, WorksInv
<1>6. ASSUME NEW t \in Tasks, NEW i \in Invoices, Pay(t, i) PROVE Typed'
    BY <1>6 DEF Pay, Goto, TypeOK, WorksInv, Billing
<1>7. ASSUME NEW t \in Tasks, NEW i \in Invoices, Reverse(t, i) PROVE Typed'
    BY <1>7 DEF Reverse, Goto, TypeOK, WorksInv, Releasing
<1>8. CASE UNCHANGED vars
    BY <1>8 DEF vars, TypeOK, WorksInv
<1> QED BY <1>1, <1>2, <1>3, <1>4, <1>5, <1>6, <1>7, <1>8 DEF Next

(* The state keeps its types, for any invoices, discounts and tasks, in    *)
(* billing and in release.                                                 *)
THEOREM BillingTypes == Spec => []TypeOK
BY InitTyped, TypedStep, PTL DEF Spec, Typed

-----------------------------------------------------------------------------
(* With the discount's unique index and the releases of an invoice kept    *)
(* apart.  Every discount that a release holds still has its row on the    *)
(* release's invoice: only a release of that invoice could delete it.      *)
UnaFila    == \A f, g \in filas : f.desc = g.desc => f = g
OneRelease == \A s, t \in Tasks : (/\ pc[s] \in Releasing /\ pc[t] \in Releasing
                                   /\ inv[s] = inv[t]) => s = t
HeldInv    == \A t \in Tasks : pc[t] = "release" =>
                  \A d \in leidos[t] : \E f \in filas : f.desc = d /\ f.inv = inv[t]

SafeInv == Typed /\ UnaFila /\ OneRelease /\ HeldInv /\ FilaFacturada

LEMMA InitSafe == Init => SafeInv
BY InitTyped DEF Init, SafeInv, UnaFila, OneRelease, HeldInv, FilaFacturada, Releasing

(* A task moves on, or ends, without touching the tables. *)
LEMMA QuietSafe ==
    ASSUME SafeInv, Typed', UNCHANGED <<estado, filas>>,
           \A s \in Tasks : pc'[s] \in Releasing => pc[s] \in Releasing /\ inv'[s] = inv[s],
           \A s \in Tasks : pc'[s] = "release" =>
               \/ pc[s] = "release" /\ leidos'[s] = leidos[s]
               \/ leidos'[s] = BilledOn(inv[s])
    PROVE  SafeInv'
<1> USE DEF SafeInv
<1>1. UnaFila'
    BY DEF UnaFila
<1>2. OneRelease'
    BY DEF OneRelease
<1>3. HeldInv'
    BY DEF HeldInv, BilledOn, Releasing
<1>4. FilaFacturada'
    BY DEF FilaFacturada
<1> QED BY <1>1, <1>2, <1>3, <1>4

LEMMA ChargeSafe ==
    ASSUME SafeInv, Typed', "soporte" \in Unicos, NEW t \in Tasks, pc[t] = "bill",
           leidos[t] # {} => ~ Conflict(t), Charge(t), Goto(t, "done"),
           UNCHANGED <<inv, leidos>>
    PROVE  SafeInv'
<1> USE DEF SafeInv
<1>1. \A f \in filas : f.desc \notin leidos[t]
    BY DEF Conflict
<1>2. filas' = filas \cup {[by |-> t, inv |-> inv[t], desc |-> d] : d \in leidos[t]}
    BY DEF Charge
<1>3. UnaFila'
    BY <1>1, <1>2 DEF UnaFila
<1>4. \A s \in Tasks : pc'[s] \in Releasing => pc[s] = pc'[s]
    BY DEF Goto, Typed, TypeOK, Releasing
<1>5. OneRelease'
    BY <1>4 DEF OneRelease
<1>6. HeldInv'
    BY <1>2, <1>4 DEF HeldInv, Releasing
<1>7. FilaFacturada'
    BY <1>2 DEF FilaFacturada, Charge, Typed, TypeOK
<1> QED BY <1>3, <1>5, <1>6, <1>7

(* A release deletes the row of every discount it approves again, and of   *)
(* no discount that another release holds.                                 *)
LEMMA FreeSafe ==
    ASSUME SafeInv, Typed', NEW t \in Tasks, pc[t] = "release", Free(t), Goto(t, "done"),
           UNCHANGED <<inv, leidos>>
    PROVE  SafeInv'
<1> USE DEF SafeInv
<1>1. filas' = {f \in filas : f.inv # inv[t]}
    BY DEF Free
<1>2. UnaFila'
    BY <1>1 DEF UnaFila
<1>3. \A s \in Tasks : pc'[s] \in Releasing => pc[s] = pc'[s] /\ s # t
    BY DEF Goto, Typed, TypeOK, Releasing
<1>4. OneRelease'
    BY <1>3 DEF OneRelease
<1>5. HeldInv'
    BY <1>1, <1>3 DEF HeldInv, OneRelease, Releasing
<1>6. FilaFacturada'
    BY <1>1 DEF FilaFacturada, Free, HeldInv, UnaFila, Typed, TypeOK
<1> QED BY <1>2, <1>4, <1>5, <1>6

LEMMA SafeStep ==
    ASSUME "soporte" \in Unicos, Apart # "nothing", SafeInv, [Next]_vars
    PROVE  SafeInv'
<1>1. Typed'
    BY TypedStep DEF SafeInv
<1> USE DEF SafeInv, Typed, TypeOK
<1>2. CASE Crash
    <2>1. \A s \in Tasks : pc'[s] \notin Releasing
        BY <1>2 DEF Crash, Active, Billing, Releasing
    <2>2. "release" \in Releasing
        BY DEF Releasing
    <2> QED BY <1>1, <1>2, <2>1, <2>2, QuietSafe DEF Crash, tables
<1>3. ASSUME NEW d \in Discounts, Approve(d) \/ Withdraw(d) PROVE SafeInv'
    BY <1>1, <1>3 DEF Approve, Withdraw, Decide, UnaFila, OneRelease, HeldInv, FilaFacturada
<1>4. ASSUME NEW t \in Tasks, Step(t) PROVE SafeInv'
    <2>1. CASE FindDiscounts(t)
        BY <1>1, <2>1, QuietSafe DEF FindDiscounts, Goto, tables, Releasing
    <2>2. CASE Bill(t)
        BY <1>1, <2>2, ChargeSafe DEF Bill
    <2>3. CASE BillConflict(t)
        BY <1>1, <2>3, QuietSafe DEF BillConflict, Goto, tables, Releasing
    <2>4. CASE FindBilled(t)
        BY <1>1, <2>4, QuietSafe DEF FindBilled, Goto, tables, Releasing
    <2>5. CASE Release(t)
        BY <1>1, <2>5, FreeSafe DEF Release
    <2> QED BY <1>4, <2>1, <2>2, <2>3, <2>4, <2>5 DEF Step
<1>5. ASSUME NEW t \in Tasks, Fail(t) PROVE SafeInv'
    BY <1>1, <1>5, QuietSafe DEF Fail, Goto, tables, Releasing
<1>6. ASSUME NEW t \in Tasks, CommitLost(t) PROVE SafeInv'
    BY <1>1, <1>6, ChargeSafe, FreeSafe DEF CommitLost
<1>7. ASSUME NEW t \in Tasks, NEW i \in Invoices, Pay(t, i) PROVE SafeInv'
    BY <1>1, <1>7, QuietSafe DEF Pay, Goto, Releasing
<1>8. ASSUME NEW t \in Tasks, NEW i \in Invoices, Reverse(t, i) PROVE SafeInv'
    <2>1. ReleasingOn(i) = {}
        BY <1>8, DiscountAssumption DEF Reverse, ReleasingOn, On, Active
    <2>2. OneRelease'
        BY <1>8, <2>1 DEF Reverse, Goto, ReleasingOn, OneRelease, Releasing
    <2>3. HeldInv'
        BY <1>8 DEF Reverse, Goto, HeldInv
    <2> QED BY <1>1, <1>8, <2>2, <2>3 DEF Reverse, UnaFila, FilaFacturada
<1>9. CASE UNCHANGED vars
    BY <1>1, <1>9 DEF vars, UnaFila, OneRelease, HeldInv, FilaFacturada
<1> QED BY <1>2, <1>3, <1>4, <1>5, <1>6, <1>7, <1>8, <1>9 DEF Next

(* A discount that stands on an invoice is never free to be billed again,  *)
(* given its unique index and releases of one invoice kept apart, for any  *)
(* invoices, discounts, tasks and failures.                                *)
THEOREM BilledIsTaken ==
    ASSUME "soporte" \in Unicos, Apart # "nothing"
    PROVE  Spec => []FilaFacturada
BY InitSafe, SafeStep, PTL DEF Spec, SafeInv

-----------------------------------------------------------------------------
(* With the calls on one invoice kept apart, what a task has read of its   *)
(* invoice is still true when its transaction runs.                        *)
Alone    == \A s, t \in Tasks : (Active(s) /\ Active(t) /\ inv[s] = inv[t]) => s = t
ReadInv  == \A t \in Tasks : pc[t] = "release" => leidos[t] = BilledOn(inv[t])
ToBill   == \A t \in Tasks : pc[t] = "bill" =>
                /\ \A d \in leidos[t] : estado[d] \in {"APROBADO", "RECHAZADO", "FACTURADO"}
                /\ leidos[t] = Deduplicated(leidos[t])
PaidInv  == \A t \in Tasks : pc[t] \in Billing => pagos[inv[t]] > 0
EmptyInv == Repay \/ \A t \in Tasks : (pc[t] \in Billing /\ inv[t] \notin fallidos) =>
                BilledOn(inv[t]) = {}

SerialInv == /\ SafeInv
             /\ Alone
             /\ ReadInv
             /\ ToBill
             /\ PaidInv
             /\ FacturadoConFila
             /\ LibreTrasReverso

CategoryInv == SerialInv /\ EmptyInv /\ (Repay \/ UnaPorCategoria)

LEMMA DedupTwice == ASSUME NEW D PROVE Deduplicated(Deduplicated(D)) = Deduplicated(D)
BY DEF Deduplicated

LEMMA InitSerial == Init => SerialInv /\ CategoryInv
<1> SUFFICES ASSUME Init PROVE SerialInv /\ CategoryInv
    OBVIOUS
<1>1. SerialInv
    BY InitSafe DEF Init, SerialInv, Alone, ReadInv, ToBill, PaidInv, Active, Billing, Releasing,
       FacturadoConFila, LibreTrasReverso, BilledOn
<1>2. EmptyInv /\ UnaPorCategoria
    BY DEF Init, EmptyInv, UnaPorCategoria, Billing
<1> QED BY <1>1, <1>2 DEF CategoryInv

(* A step that leaves the rows alone and starts no task on an invoice that *)
(* has one: the conjuncts that only speak of rows and tasks.               *)
LEMMA RestSerial ==
    ASSUME SerialInv, SafeInv', UNCHANGED filas,
           \A s \in Tasks : Active(s)' => Active(s) /\ inv'[s] = inv[s],
           \A s \in Tasks : pc'[s] = "release" =>
               \/ pc[s] = "release" /\ leidos'[s] = leidos[s]
               \/ leidos'[s] = BilledOn(inv[s])
    PROVE  Alone' /\ ReadInv'
<1> USE DEF SerialInv
<1>1. Alone'
    BY DEF Alone
<1>2. \A s \in Tasks : pc'[s] = "release" => Active(s)'
    BY DEF Active, Releasing
<1>3. ReadInv'
    BY <1>2 DEF ReadInv, BilledOn
<1> QED BY <1>1, <1>3

(* Billing on one invoice leaves the rows of every other one. *)
LEMMA ChargeSerial ==
    ASSUME SerialInv, SafeInv', "soporte" \in Unicos, NEW t \in Tasks, pc[t] = "bill",
           leidos[t] # {} => ~ Conflict(t), Charge(t), Goto(t, "done"),
           UNCHANGED <<inv, leidos>>, fallidos \subseteq fallidos'
    PROVE  SerialInv'
<1> USE DEF SerialInv, SafeInv, Typed, TypeOK
<1>1. filas' = filas \cup {[by |-> t, inv |-> inv[t], desc |-> d] : d \in leidos[t]}
    BY DEF Charge
<1>2. \A s \in Tasks : Active(s)' => Active(s) /\ s # t /\ pc'[s] = pc[s]
    BY DEF Goto, Active, Billing, Releasing
<1>3. Active(t)
    BY DEF Active, Billing
<1>4. \A i : i # inv[t] => BilledOn(i)' = BilledOn(i)
    BY <1>1 DEF BilledOn
<1>5. Alone'
    BY <1>2 DEF Alone
<1>6. ReadInv'
    <2> SUFFICES ASSUME NEW s \in Tasks, pc'[s] = "release"
                 PROVE  (leidos[s] = BilledOn(inv[s]))'
        BY DEF ReadInv
    <2>1. Active(s)'
        BY DEF Active, Releasing
    <2>2. inv[s] # inv[t]
        BY <1>2, <1>3, <2>1 DEF Alone
    <2>3. pc[s] = "release"
        BY <1>2, <2>1
    <2> QED BY <1>4, <2>2, <2>3 DEF ReadInv
<1>7. ToBill'
    BY <1>2, DedupTwice DEF ToBill, Goto, Charge
<1>8. PaidInv'
    BY <1>2 DEF PaidInv, Goto, Charge, Billing
<1>9. FacturadoConFila'
    <2> SUFFICES ASSUME NEW d \in Discounts, estado'[d] = "FACTURADO"
                 PROVE  \E f \in filas' : f.desc = d
        BY DEF FacturadoConFila
    <2>1. CASE d \in leidos[t]
        <3> DEFINE row == [by |-> t, inv |-> inv[t], desc |-> d]
        <3>1. row \in filas' /\ row.desc = d
            BY <1>1, <2>1
        <3> QED BY <3>1
    <2>2. CASE d \notin leidos[t]
        BY <1>1, <2>2 DEF FacturadoConFila, Charge
    <2> QED BY <2>1, <2>2
<1>10. LibreTrasReverso'
    <2> SUFFICES ASSUME NEW i \in Invoices, i \notin fallidos', pagos'[i] = 0, On(i)' = {}
                 PROVE  BilledOn(i)' = {}
        BY DEF LibreTrasReverso
    <2>1. i # inv[t]
        BY DEF PaidInv, Billing, Charge
    <2>2. On(i) = {}
        BY <2>1 DEF On, Active, Goto
    <2> QED BY <1>4, <2>1, <2>2 DEF LibreTrasReverso, Charge
<1> QED BY <1>5, <1>6, <1>7, <1>8, <1>9, <1>10

(* A release that ends leaves its invoice without rows, and deletes none   *)
(* of a discount that it does not approve.                                 *)
LEMMA FreeSerial ==
    ASSUME SerialInv, SafeInv', NEW t \in Tasks, pc[t] = "release", Free(t), Goto(t, "done"),
           UNCHANGED <<inv, leidos>>, fallidos \subseteq fallidos'
    PROVE  SerialInv'
<1> USE DEF SerialInv, SafeInv, Typed, TypeOK
<1>1. filas' = {f \in filas : f.inv # inv[t]}
    BY DEF Free
<1>2. \A s \in Tasks : Active(s)' => Active(s) /\ s # t /\ pc'[s] = pc[s]
    BY DEF Goto, Active, Billing, Releasing
<1>3. Active(t)
    BY DEF Active, Releasing
<1>4. /\ \A i : i # inv[t] => BilledOn(i)' = BilledOn(i)
      /\ BilledOn(inv[t])' = {}
    BY <1>1 DEF BilledOn
<1>5. Alone'
    BY <1>2 DEF Alone
<1>6. ReadInv'
    <2> SUFFICES ASSUME NEW s \in Tasks, pc'[s] = "release"
                 PROVE  (leidos[s] = BilledOn(inv[s]))'
        BY DEF ReadInv
    <2>1. Active(s)'
        BY DEF Active, Releasing
    <2>2. inv[s] # inv[t]
        BY <1>2, <1>3, <2>1 DEF Alone
    <2>3. pc[s] = "release"
        BY <1>2, <2>1
    <2> QED BY <1>4, <2>2, <2>3 DEF ReadInv
<1>7. ToBill'
    BY <1>2 DEF ToBill, Goto, Free
<1>8. PaidInv'
    BY <1>2 DEF PaidInv, Goto, Free, Billing
<1>9. FacturadoConFila'
    BY <1>1 DEF FacturadoConFila, Free, ReadInv, BilledOn
<1>10. LibreTrasReverso'
    <2> SUFFICES ASSUME NEW i \in Invoices, i \notin fallidos', pagos'[i] = 0, On(i)' = {},
                        i # inv[t]
                 PROVE  BilledOn(i)' = {}
        BY <1>4 DEF LibreTrasReverso
    <2>2. On(i) = {}
        BY DEF On, Active, Goto
    <2> QED BY <1>4, <2>2 DEF LibreTrasReverso, Free
<1> QED BY <1>5, <1>6, <1>7, <1>8, <1>9, <1>10

(* A call that ends with nothing written. *)
LEMMA EndSerial ==
    ASSUME SerialInv, SafeInv', UNCHANGED <<tables, inv, leidos>>,
           fallidos \subseteq fallidos',
           \A s \in Tasks : pc'[s] = pc[s] \/ (pc'[s] = "done" /\ Active(s)),
           \A s \in Tasks : (pc'[s] # pc[s]) =>
               \/ inv[s] \in fallidos' \/ pagos[inv[s]] > 0
    PROVE  SerialInv'
<1> USE DEF SerialInv, SafeInv, Typed, TypeOK
<1>1. \A s \in Tasks : Active(s)' => Active(s) /\ pc'[s] = pc[s]
    BY DEF Active, Billing, Releasing
<1>2. Alone' /\ ReadInv'
    BY <1>1, RestSerial DEF tables, Active, Releasing
<1>3. ToBill'
    BY DEF ToBill, tables
<1>4. PaidInv'
    BY DEF PaidInv, tables, Billing
<1>5. FacturadoConFila'
    BY DEF FacturadoConFila, tables
<1>6. LibreTrasReverso'
    <2> SUFFICES ASSUME NEW i \in Invoices, i \notin fallidos', pagos'[i] = 0, On(i)' = {}
                 PROVE  BilledOn(i)' = {}
        BY DEF LibreTrasReverso
    <2>1. pagos[i] = 0
        BY DEF tables
    <2>2. On(i) = {}
        <3> SUFFICES ASSUME NEW s \in On(i) PROVE FALSE
            OBVIOUS
        <3>1. s \in Tasks /\ Active(s) /\ inv[s] = i
            BY DEF On
        <3>2. pc'[s] # pc[s]
            BY <3>1 DEF On, Active
        <3> QED BY <2>1, <3>1, <3>2
    <2> QED BY <2>1, <2>2 DEF LibreTrasReverso, BilledOn, tables
<1> QED BY <1>2, <1>3, <1>4, <1>5, <1>6

LEMMA StartSerial ==
    ASSUME SerialInv, SafeInv', NEW t \in Tasks, NEW i \in Invoices, On(i) = {}, pc[t] = "idle",
           inv' = [inv EXCEPT ![t] = i],
           UNCHANGED <<estado, filas, leidos, fallidos>>,
           \A j \in Invoices \ {i} : pagos'[j] = pagos[j],
           \/ pagos'[i] > 0 /\ Goto(t, "find")
           \/ Goto(t, "relFind")
    PROVE  SerialInv'
<1> USE DEF SerialInv, SafeInv, Typed, TypeOK
<1>1. \A s \in Tasks \ {t} : pc'[s] = pc[s] /\ inv'[s] = inv[s]
    BY DEF Goto
<1>2. inv'[t] = i /\ pc'[t] \in {"find", "relFind"} /\ (pc'[t] = "find" => pagos'[i] > 0)
    BY DEF Goto
<1>3. \A s \in Tasks \ {t} : Active(s) => inv[s] # i /\ inv[s] \in Invoices
    BY DEF On, Active, Billing, Releasing, WorksInv
<1>4. Alone'
    <2> SUFFICES ASSUME NEW r \in Tasks, NEW s \in Tasks, Active(r)', Active(s)',
                        inv'[r] = inv'[s]
                 PROVE  r = s
        BY DEF Alone
    <2>1. \A u \in Tasks \ {t} : Active(u)' => Active(u)
        BY <1>1 DEF Active
    <2> QED BY <1>1, <1>2, <1>3, <2>1 DEF Alone
<1>5. ReadInv'
    BY <1>1, <1>2 DEF ReadInv, BilledOn
<1>6. ToBill'
    BY <1>1, <1>2 DEF ToBill
<1>7. PaidInv'
    <2> SUFFICES ASSUME NEW s \in Tasks, pc'[s] \in Billing PROVE pagos'[inv'[s]] > 0
        BY DEF PaidInv
    <2>1. CASE s = t
        BY <1>2, <2>1 DEF Billing
    <2>2. CASE s # t
        <3>1. Active(s) /\ pc[s] \in Billing
            BY <1>1, <2>2 DEF Active
        <3> QED BY <1>1, <1>3, <2>2, <3>1 DEF PaidInv
    <2> QED BY <2>1, <2>2
<1>8. FacturadoConFila'
    BY DEF FacturadoConFila
<1>9. LibreTrasReverso'
    <2> SUFFICES ASSUME NEW j \in Invoices, j \notin fallidos', pagos'[j] = 0, On(j)' = {}
                 PROVE  BilledOn(j)' = {}
        BY DEF LibreTrasReverso
    <2>1. j # i
        BY <1>2 DEF On, Active, Billing, Releasing
    <2>2. On(j) = {}
        <3> SUFFICES ASSUME NEW s \in On(j) PROVE FALSE
            OBVIOUS
        <3>1. s # t /\ s \in Tasks /\ Active(s) /\ inv[s] = j
            BY DEF On, Active, Billing, Releasing
        <3>2. s \in On(j)'
            BY <1>1, <3>1 DEF On, Active
        <3> QED BY <3>2
    <2> QED BY <2>1, <2>2 DEF LibreTrasReverso, BilledOn
<1> QED BY <1>4, <1>5, <1>6, <1>7, <1>8, <1>9

LEMMA SerialStep ==
    ASSUME "soporte" \in Unicos, Apart = "everything", SerialInv, [Next]_vars
    PROVE  SerialInv'
<1>1. SafeInv'
    BY SafeStep DEF SerialInv
<1> USE DEF SerialInv, SafeInv, Typed, TypeOK
<1>2. CASE Crash
    <2>1. \A s \in Tasks : pc'[s] = pc[s] \/ (pc'[s] = "done" /\ Active(s))
        BY <1>2 DEF Crash
    <2>2. \A s \in Tasks : pc'[s] # pc[s] => inv[s] \in fallidos'
        BY <1>2 DEF Crash
    <2> QED BY <1>1, <1>2, <2>1, <2>2, EndSerial DEF Crash
<1>3. ASSUME NEW d \in Discounts, Approve(d) \/ Withdraw(d) PROVE SerialInv'
    <2>1. UNCHANGED <<pagos, filas, pc, inv, leidos, fallidos>>
        BY <1>3 DEF Approve, Withdraw, Decide
    <2>2. /\ \A e \in Discounts : estado'[e] = "FACTURADO" <=> estado[e] = "FACTURADO"
          /\ \A e \in Discounts : estado[e] \in {"APROBADO", "RECHAZADO", "FACTURADO"} =>
                 estado'[e] \in {"APROBADO", "RECHAZADO", "FACTURADO"}
        BY <1>3 DEF Approve, Withdraw, Decide
    <2>3. ToBill'
        BY <2>1, <2>2 DEF ToBill
    <2>4. Alone' /\ ReadInv'
        BY <2>1 DEF Alone, ReadInv, Active, BilledOn
    <2>5. PaidInv' /\ FacturadoConFila' /\ LibreTrasReverso'
        BY <2>1, <2>2 DEF PaidInv, FacturadoConFila, LibreTrasReverso, On, Active, BilledOn
    <2> QED BY <1>1, <2>3, <2>4, <2>5
<1>4. ASSUME NEW t \in Tasks, FindDiscounts(t) PROVE SerialInv'
    <2>1. /\ UNCHANGED <<tables, inv, fallidos>>
          /\ pc[t] = "find" /\ pc'[t] = "bill"
          /\ \A s \in Tasks \ {t} : pc'[s] = pc[s] /\ leidos'[s] = leidos[s]
        BY <1>4 DEF FindDiscounts, Goto
    <2>2. leidos'[t] = Deduplicated({d \in Matching[inv[t]] : estado[d] = "APROBADO"})
        BY <1>4 DEF FindDiscounts
    <2>3. \A s \in Tasks : Active(s)' <=> Active(s)
        BY <2>1 DEF Active, Billing
    <2>4. Alone' /\ ReadInv'
        BY <1>1, <2>1, <2>3, RestSerial DEF tables
    <2>5. ToBill'
        <3>1. leidos'[t] = Deduplicated(leidos'[t])
            BY <2>2, DedupTwice
        <3>2. \A d \in leidos'[t] : estado'[d] = "APROBADO"
            BY <2>1, <2>2 DEF Deduplicated, tables
        <3> QED BY <2>1, <3>1, <3>2 DEF ToBill, tables
    <2>6. PaidInv'
        BY <2>1 DEF PaidInv, tables, Billing
    <2>7. FacturadoConFila'
        BY <2>1 DEF FacturadoConFila, tables
    <2>8. \A i : On(i)' = On(i)
        BY <2>1, <2>3 DEF On
    <2>9. LibreTrasReverso'
        BY <2>1, <2>8 DEF LibreTrasReverso, BilledOn, tables
    <2> QED BY <1>1, <2>4, <2>5, <2>6, <2>7, <2>9
<1>5. ASSUME NEW t \in Tasks, Bill(t) PROVE SerialInv'
    BY <1>1, <1>5, ChargeSerial DEF Bill
<1>6. ASSUME NEW t \in Tasks, BillConflict(t) PROVE SerialInv'
    BY <1>1, <1>6, EndSerial DEF BillConflict, Goto, Active, Billing
<1>7. ASSUME NEW t \in Tasks, FindBilled(t) PROVE SerialInv'
    <2>1. /\ UNCHANGED <<tables, inv, fallidos>>
          /\ pc[t] = "relFind" /\ pc'[t] = "release" /\ leidos'[t] = BilledOn(inv[t])
          /\ \A s \in Tasks \ {t} : pc'[s] = pc[s] /\ leidos'[s] = leidos[s]
        BY <1>7 DEF FindBilled, Goto
    <2>3. \A s \in Tasks : Active(s)' <=> Active(s)
        BY <2>1 DEF Active, Releasing
    <2>4. Alone' /\ ReadInv'
        BY <1>1, <2>1, <2>3, RestSerial DEF tables
    <2>5. ToBill' /\ PaidInv'
        BY <2>1 DEF ToBill, PaidInv, tables, Billing
    <2>6. FacturadoConFila'
        BY <2>1 DEF FacturadoConFila, tables
    <2>7. \A i : On(i)' = On(i)
        BY <2>1, <2>3 DEF On
    <2>8. LibreTrasReverso'
        BY <2>1, <2>7 DEF LibreTrasReverso, BilledOn, tables
    <2> QED BY <1>1, <2>4, <2>5, <2>6, <2>8
<1>8. ASSUME NEW t \in Tasks, Release(t) PROVE SerialInv'
    BY <1>1, <1>8, FreeSerial DEF Release
<1>9. ASSUME NEW t \in Tasks, Fail(t) PROVE SerialInv'
    BY <1>1, <1>9, EndSerial DEF Fail, Goto
<1>10. ASSUME NEW t \in Tasks, CommitLost(t) PROVE SerialInv'
    BY <1>1, <1>10, ChargeSerial, FreeSerial DEF CommitLost
<1>11. ASSUME NEW t \in Tasks, NEW i \in Invoices, Pay(t, i) PROVE SerialInv'
    <2>1. pagos'[i] > 0 /\ \A j \in Invoices \ {i} : pagos'[j] = pagos[j]
        BY <1>11 DEF Pay
    <2>2. On(i) = {} /\ pc[t] = "idle" /\ Goto(t, "find")
        BY <1>11 DEF Pay
    <2>3. inv' = [inv EXCEPT ![t] = i] /\ UNCHANGED <<estado, filas, leidos, fallidos>>
        BY <1>11 DEF Pay
    <2> QED BY <1>1, <2>1, <2>2, <2>3, StartSerial
<1>12. ASSUME NEW t \in Tasks, NEW i \in Invoices, Reverse(t, i) PROVE SerialInv'
    <2>1. \A j \in Invoices \ {i} : pagos'[j] = pagos[j]
        BY <1>12 DEF Reverse
    <2>2. On(i) = {} /\ pc[t] = "idle" /\ Goto(t, "relFind")
        BY <1>12 DEF Reverse
    <2>3. inv' = [inv EXCEPT ![t] = i] /\ UNCHANGED <<estado, filas, leidos, fallidos>>
        BY <1>12 DEF Reverse
    <2> QED BY <1>1, <2>1, <2>2, <2>3, StartSerial
<1>13. CASE UNCHANGED vars
    BY <1>1, <1>13 DEF vars, Alone, ReadInv, ToBill, PaidInv, FacturadoConFila,
       LibreTrasReverso, Active, On, BilledOn
<1> QED BY <1>2, <1>3, <1>4, <1>5, <1>6, <1>7, <1>8, <1>9, <1>10, <1>11, <1>12, <1>13
        DEF Next, Step

(* With the calls on one invoice kept apart, no discount is used up        *)
(* without standing on an invoice.                                         *)
THEOREM NoneIsWasted ==
    ASSUME "soporte" \in Unicos, Apart = "everything"
    PROVE  Spec => []FacturadoConFila
BY InitSerial, SerialStep, PTL DEF Spec, SerialInv

(* With the calls on one invoice kept apart, a reversal that runs to its   *)
(* end leaves its invoice no discount.                                     *)
THEOREM ReversalFrees ==
    ASSUME "soporte" \in Unicos, Apart = "everything"
    PROVE  Spec => []LibreTrasReverso
BY InitSerial, SerialStep, PTL DEF Spec, SerialInv

-----------------------------------------------------------------------------
(* An invoice is paid once at a time: its rows come from one billing. *)
LEMMA DistinctCategories ==
    ASSUME NEW D \in SUBSET Discounts, D = Deduplicated(D),
           NEW d \in D, NEW e \in D, d # e
    PROVE  Category[d] = 0 \/ Category[d] # Category[e]
<1>1. /\ Rank[d] \in Nat /\ Rank[e] \in Nat /\ Rank[d] # Rank[e]
      /\ Category[d] \in Nat /\ Category[e] \in Nat
    BY DiscountAssumption
<1>2. Rank[d] > Rank[e] \/ Rank[e] > Rank[d]
    BY <1>1
<1> QED BY <1>2 DEF Deduplicated

LEMMA CategoryCharge ==
    ASSUME CategoryInv, SerialInv', ~ Repay, NEW t \in Tasks, pc[t] = "bill",
           Charge(t), Goto(t, "done"), UNCHANGED <<inv, leidos>>, fallidos \subseteq fallidos'
    PROVE  EmptyInv' /\ UnaPorCategoria'
<1> USE DEF CategoryInv, SerialInv, SafeInv, Typed, TypeOK
<1>1. filas' = filas \cup {[by |-> t, inv |-> inv[t], desc |-> d] : d \in leidos[t]}
    BY DEF Charge
<1>2. \A i : i # inv[t] => BilledOn(i)' = BilledOn(i)
    BY <1>1 DEF BilledOn
<1>3. EmptyInv'
    <2> SUFFICES ASSUME NEW s \in Tasks, pc'[s] \in Billing, inv[s] \notin fallidos'
                 PROVE  BilledOn(inv[s])' = {}
        BY DEF EmptyInv
    <2>1. pc[s] \in Billing /\ s # t /\ Active(s) /\ Active(t)
        BY DEF Goto, Active, Billing
    <2>2. inv[s] # inv[t]
        BY <2>1 DEF Alone
    <2> QED BY <1>2, <2>1, <2>2 DEF EmptyInv
<1>4. UnaPorCategoria'
    <2> SUFFICES ASSUME NEW f \in filas', NEW g \in filas', f.inv = g.inv, f.inv \notin fallidos',
                        f # g
                 PROVE  Category[f.desc] = 0 \/ Category[f.desc] # Category[g.desc]
        BY DEF UnaPorCategoria
    <2>1. CASE f.inv = inv[t]
        <3>1. BilledOn(inv[t]) = {}
            BY <2>1 DEF EmptyInv, Billing
        <3>a. \A h \in filas : h.inv = inv[t] => h.desc \in BilledOn(inv[t])
            BY DEF BilledOn
        <3>2. f \notin filas /\ g \notin filas
            BY <2>1, <3>1, <3>a
        <3>3. PICK d \in leidos[t] : f = [by |-> t, inv |-> inv[t], desc |-> d]
            BY <1>1, <3>2
        <3>4. PICK e \in leidos[t] : g = [by |-> t, inv |-> inv[t], desc |-> e]
            BY <1>1, <3>2
        <3>5. d # e /\ leidos[t] = Deduplicated(leidos[t])
            BY <3>3, <3>4 DEF ToBill
        <3> QED BY <3>3, <3>4, <3>5, DistinctCategories
    <2>2. CASE f.inv # inv[t]
        <3>1. f \in filas /\ g \in filas
            BY <1>1, <2>2
        <3> QED BY <3>1 DEF UnaPorCategoria
    <2> QED BY <2>1, <2>2
<1> QED BY <1>3, <1>4

LEMMA CategoryFree ==
    ASSUME CategoryInv, SerialInv', ~ Repay, NEW t \in Tasks, pc[t] = "release",
           Free(t), Goto(t, "done"), UNCHANGED <<inv, leidos>>, fallidos \subseteq fallidos'
    PROVE  EmptyInv' /\ UnaPorCategoria'
<1> USE DEF CategoryInv, SerialInv, SafeInv, Typed, TypeOK
<1>1. filas' \subseteq filas
    BY DEF Free
<1>2. \A i : BilledOn(i)' \subseteq BilledOn(i)
    BY <1>1 DEF BilledOn
<1>3. \A s \in Tasks : pc'[s] \in Billing => pc[s] \in Billing
    BY DEF Goto, Billing
<1>4. EmptyInv'
    BY <1>2, <1>3 DEF EmptyInv
<1>5. UnaPorCategoria'
    BY <1>1 DEF UnaPorCategoria
<1> QED BY <1>4, <1>5

LEMMA CategoryQuiet ==
    ASSUME CategoryInv, ~ Repay, UNCHANGED filas, fallidos \subseteq fallidos',
           \A s \in Tasks : pc'[s] \in Billing =>
               \/ pc[s] \in Billing /\ inv'[s] = inv[s]
               \/ inv'[s] \notin fallidos => BilledOn(inv'[s]) = {}
    PROVE  EmptyInv' /\ UnaPorCategoria'
<1>1. EmptyInv'
    <2> SUFFICES ASSUME NEW s \in Tasks, pc'[s] \in Billing, inv'[s] \notin fallidos'
                 PROVE  (BilledOn(inv[s]) = {})'
        BY DEF EmptyInv
    <2>1. BilledOn(inv[s])' = {f.desc : f \in {g \in filas : g.inv = inv'[s]}}
        BY DEF BilledOn
    <2> QED BY <2>1 DEF CategoryInv, EmptyInv, BilledOn
<1>2. UnaPorCategoria'
    BY DEF CategoryInv, UnaPorCategoria
<1> QED BY <1>1, <1>2

LEMMA CategoryStep ==
    ASSUME "soporte" \in Unicos, Apart = "everything", ~ Repay, CategoryInv, [Next]_vars
    PROVE  CategoryInv'
<1>1. SerialInv'
    BY SerialStep DEF CategoryInv
<1> SUFFICES EmptyInv' /\ UnaPorCategoria'
    BY <1>1 DEF CategoryInv
<1>0. Typed /\ TypeOK
    BY DEF CategoryInv, SerialInv, SafeInv, Typed
<1>2. CASE Crash
    BY <1>0, <1>2, CategoryQuiet DEF Crash, tables, TypeOK, Billing
<1>3. ASSUME NEW d \in Discounts, Approve(d) \/ Withdraw(d) PROVE EmptyInv' /\ UnaPorCategoria'
    BY <1>3, CategoryQuiet DEF Approve, Withdraw, Decide
<1>4. ASSUME NEW t \in Tasks, FindDiscounts(t) PROVE EmptyInv' /\ UnaPorCategoria'
    BY <1>0, <1>4, CategoryQuiet DEF FindDiscounts, Goto, tables, TypeOK, Billing
<1>5. ASSUME NEW t \in Tasks, Bill(t) PROVE EmptyInv' /\ UnaPorCategoria'
    BY <1>1, <1>5, CategoryCharge DEF Bill
<1>6. ASSUME NEW t \in Tasks, BillConflict(t) PROVE EmptyInv' /\ UnaPorCategoria'
    BY <1>0, <1>6, CategoryQuiet DEF BillConflict, Goto, tables, TypeOK, Billing
<1>7. ASSUME NEW t \in Tasks, FindBilled(t) PROVE EmptyInv' /\ UnaPorCategoria'
    BY <1>0, <1>7, CategoryQuiet DEF FindBilled, Goto, tables, TypeOK, Billing
<1>8. ASSUME NEW t \in Tasks, Release(t) PROVE EmptyInv' /\ UnaPorCategoria'
    BY <1>1, <1>8, CategoryFree DEF Release
<1>9. ASSUME NEW t \in Tasks, Fail(t) PROVE EmptyInv' /\ UnaPorCategoria'
    BY <1>0, <1>9, CategoryQuiet DEF Fail, Goto, tables, TypeOK, Billing
<1>10. ASSUME NEW t \in Tasks, CommitLost(t) PROVE EmptyInv' /\ UnaPorCategoria'
    BY <1>1, <1>10, CategoryCharge, CategoryFree DEF CommitLost
<1>11. ASSUME NEW t \in Tasks, NEW i \in Invoices, Pay(t, i) PROVE EmptyInv' /\ UnaPorCategoria'
    <2>1. pagos[i] = 0 /\ On(i) = {}
        BY <1>0, <1>11 DEF Pay, TypeOK
    <2>2. i \notin fallidos => BilledOn(i) = {}
        BY <2>1 DEF CategoryInv, SerialInv, LibreTrasReverso
    <2>3. /\ UNCHANGED <<filas, fallidos>>
          /\ inv'[t] = i
          /\ \A s \in Tasks \ {t} : pc'[s] = pc[s] /\ inv'[s] = inv[s]
        BY <1>0, <1>11 DEF Pay, Goto, TypeOK
    <2> QED BY <2>2, <2>3, CategoryQuiet
<1>12. ASSUME NEW t \in Tasks, NEW i \in Invoices, Reverse(t, i) PROVE EmptyInv' /\ UnaPorCategoria'
    <2>1. /\ UNCHANGED <<filas, fallidos>>
          /\ pc'[t] = "relFind"
          /\ \A s \in Tasks \ {t} : pc'[s] = pc[s] /\ inv'[s] = inv[s]
        BY <1>0, <1>12 DEF Reverse, Goto, TypeOK
    <2> QED BY <2>1, CategoryQuiet DEF Billing
<1>13. CASE UNCHANGED vars
    BY <1>13, CategoryQuiet DEF vars
<1> QED BY <1>2, <1>3, <1>4, <1>5, <1>6, <1>7, <1>8, <1>9, <1>10, <1>11, <1>12, <1>13
        DEF Next, Step

(* With the calls on one invoice kept apart and an invoice paid once at a  *)
(* time, no two discounts of one category are billed on it.                *)
THEOREM OnePerCategory ==
    ASSUME "soporte" \in Unicos, Apart = "everything", ~ Repay
    PROVE  Spec => []UnaPorCategoria
BY InitSerial, CategoryStep, PTL DEF Spec, CategoryInv

-----------------------------------------------------------------------------
(* The refinement: who a discount belongs to is read off its one row. *)
LEMMA TitularOf ==
    ASSUME UnaFila
    PROVE  /\ \A f \in filas : Titular(f.desc) = f.inv
           /\ \A d : (~ \E f \in filas : f.desc = d) => Titular(d) = Nadie
<1>1. ASSUME NEW f \in filas PROVE Titular(f.desc) = f.inv
    <2> DEFINE g == CHOOSE h \in filas : h.desc = f.desc
    <2>1. g \in filas /\ g.desc = f.desc
        OBVIOUS
    <2>2. g = f
        BY <2>1 DEF UnaFila
    <2> QED BY <2>2 DEF Titular
<1> QED BY <1>1 DEF Titular

LEMMA ChargeLife ==
    ASSUME "soporte" \in Unicos, SerialInv, SerialInv', NEW t \in Tasks, pc[t] = "bill",
           leidos[t] # {} => ~ Conflict(t), Charge(t)
    PROVE  Life!Next
<1> USE DEF SerialInv, SafeInv, Typed, TypeOK
<1>1. inv[t] \in Invoices /\ leidos[t] \in SUBSET Discounts
    BY DEF WorksInv
<1>2. filas' = filas \cup {[by |-> t, inv |-> inv[t], desc |-> d] : d \in leidos[t]}
    BY DEF Charge
<1>3. \A d \in leidos[t] : ~ \E f \in filas : f.desc = d
    BY DEF Conflict
<1>4. \A d \in leidos[t] : estado[d] \in {"APROBADO", "RECHAZADO"} /\ Titular(d) = Nadie
    BY <1>1, <1>3, TitularOf DEF ToBill, FacturadoConFila
<1>5. ASSUME NEW d \in Discounts
      PROVE  Titular(d)' = IF d \in leidos[t] THEN inv[t] ELSE Titular(d)
    <2>1. CASE d \in leidos[t]
        <3> DEFINE row == [by |-> t, inv |-> inv[t], desc |-> d]
        <3>1. row \in filas' /\ row.desc = d /\ row.inv = inv[t]
            BY <1>2, <2>1
        <3> DEFINE g == CHOOSE f \in filas' : f.desc = d
        <3> HIDE DEF row
        <3>2. g \in filas' /\ g.desc = d
            BY <3>1
        <3>3. g = row
            BY <3>1, <3>2 DEF UnaFila
        <3> QED BY <2>1, <3>1, <3>3 DEF Titular
    <2>2. CASE d \notin leidos[t]
        <3>1. \A f : (f \in filas' /\ f.desc = d) <=> (f \in filas /\ f.desc = d)
            BY <1>2, <2>2
        <3>2. (\E f \in filas' : f.desc = d) <=> (\E f \in filas : f.desc = d)
            BY <3>1
        <3>3. (CHOOSE f \in filas' : f.desc = d) = (CHOOSE f \in filas : f.desc = d)
            BY <3>1
        <3> QED BY <2>2, <3>2, <3>3 DEF Titular
    <2> QED BY <2>1, <2>2
<1>6. Life!Bill(inv[t], leidos[t])
    BY <1>1, <1>4, <1>5 DEF Life!Bill, Charge
<1> QED BY <1>1, <1>6 DEF Life!Next

LEMMA FreeLife ==
    ASSUME SerialInv, NEW t \in Tasks, pc[t] = "release", Free(t)
    PROVE  Life!Next
<1> USE DEF SerialInv, SafeInv, Typed, TypeOK
<1>1. inv[t] \in Invoices /\ inv[t] # Nadie
    BY DiscountAssumption DEF WorksInv
<1>2. filas' = {f \in filas : f.inv # inv[t]}
    BY DEF Free
<1>3. ASSUME NEW d \in Discounts
      PROVE  /\ d \in leidos[t] <=> Titular(d) = inv[t]
             /\ Titular(d)' = IF Titular(d) = inv[t] THEN Nadie ELSE Titular(d)
    <2>1. leidos[t] = BilledOn(inv[t])
        BY DEF ReadInv
    <2>2. CASE d \in leidos[t]
        <3>1. PICK f \in filas : f.desc = d /\ f.inv = inv[t]
            BY <2>1, <2>2 DEF BilledOn
        <3>2. Titular(d) = inv[t]
            BY <3>1, TitularOf
        <3>3. ~ \E g \in filas' : g.desc = d
            BY <1>2, <3>1 DEF UnaFila
        <3> QED BY <2>2, <3>2, <3>3 DEF Titular
    <2>3. CASE d \notin leidos[t]
        <3>1. \A f \in filas : f.desc = d => f.inv # inv[t]
            BY <2>1, <2>3 DEF BilledOn
        <3>2. \A f : (f \in filas' /\ f.desc = d) <=> (f \in filas /\ f.desc = d)
            BY <1>2, <3>1
        <3>3. (\E f \in filas' : f.desc = d) <=> (\E f \in filas : f.desc = d)
            BY <3>2
        <3>4. (CHOOSE f \in filas' : f.desc = d) = (CHOOSE f \in filas : f.desc = d)
            BY <3>2
        <3>5. Titular(d)' = Titular(d)
            BY <3>3, <3>4 DEF Titular
        <3>6. Titular(d) # inv[t]
            BY <1>1, <3>1, TitularOf
        <3> QED BY <2>3, <3>5, <3>6
    <2> QED BY <2>2, <2>3
<1>4. Life!Release(inv[t])
    BY <1>3 DEF Life!Release, Free
<1> QED BY <1>1, <1>4 DEF Life!Next

LEMMA LifeStep ==
    ASSUME "soporte" \in Unicos, SerialInv, SerialInv', [Next]_vars
    PROVE  [Life!Next]_Life!vars
<1> DEFINE same == UNCHANGED <<estado, filas>>
<1>1. ASSUME same PROVE UNCHANGED Life!vars
    BY <1>1 DEF Life!vars, Titular
<1>2. CASE Crash
    BY <1>1, <1>2 DEF Crash, tables
<1>3. ASSUME NEW d \in Discounts, Approve(d) \/ Withdraw(d) PROVE Life!Next
    <2>1. \A e \in Discounts : Titular(e)' = Titular(e)
        BY <1>3 DEF Approve, Withdraw, Decide, Titular
    <2>2. Life!Approve(d) \/ Life!Withdraw(d)
        BY <1>3, <2>1 DEF Approve, Withdraw, Decide, Life!Approve, Life!Withdraw
    <2> QED BY <2>2 DEF Life!Next
<1>4. ASSUME NEW t \in Tasks, Step(t) PROVE [Life!Next]_Life!vars
    BY <1>1, <1>4, ChargeLife, FreeLife
       DEF Step, FindDiscounts, Bill, BillConflict, FindBilled, Release, tables
<1>5. ASSUME NEW t \in Tasks, Fail(t) PROVE UNCHANGED Life!vars
    BY <1>1, <1>5 DEF Fail, tables
<1>6. ASSUME NEW t \in Tasks, CommitLost(t) PROVE Life!Next
    BY <1>6, ChargeLife, FreeLife DEF CommitLost
<1>7. ASSUME NEW t \in Tasks, NEW i \in Invoices, Pay(t, i) \/ Reverse(t, i)
      PROVE  UNCHANGED Life!vars
    BY <1>1, <1>7 DEF Pay, Reverse
<1>8. CASE UNCHANGED vars
    BY <1>1, <1>8 DEF vars
<1> QED BY <1>2, <1>3, <1>4, <1>5, <1>6, <1>7, <1>8 DEF Next

(* With the calls on one invoice kept apart, billing and release implement *)
(* the life of a discount: taken by one invoice, given back at once.       *)
THEOREM ImplementsLife ==
    ASSUME "soporte" \in Unicos, Apart = "everything"
    PROVE  Spec => LifeSpec
<1>1. Init => Life!Init
    BY DEF Init, Life!Init, Titular
<1>2. SerialInv /\ SerialInv' /\ [Next]_vars => [Life!Next]_Life!vars
    BY LifeStep
<1>3. Spec => []SerialInv
    BY InitSerial, SerialStep, PTL DEF Spec
<1> QED BY <1>1, <1>2, <1>3, PTL DEF Spec, LifeSpec, Life!Spec
=============================================================================
