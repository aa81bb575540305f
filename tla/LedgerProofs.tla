---------------------------- MODULE LedgerProofs ----------------------------
(* Theorems about SysLedger, for every value of its constants. *)
EXTENDS SysLedger, FiniteSetTheorems, TLAPS

-----------------------------------------------------------------------------
(* The ids that a registration reads. *)

(* A set of numbers up to n has a highest one, which is what Max returns. *)
LEMMA MaxUpTo ==
    ASSUME NEW n \in Nat, NEW S \in SUBSET (0 .. n), S # {}
    PROVE  Max(S) \in S /\ \A y \in S : y <= Max(S)
<1> DEFINE R == {ss \in Nat \X Nat : ss[1] < ss[2]}
           B == {b \in Nat : \A y \in S : y <= b}
<1>1. IsWellFoundedOn(R, Nat)
    BY NatLessThanWellFounded DEF OpToRel
<1>2. n \in B
    OBVIOUS
<1>3. PICK b \in B : \A c \in B : ~ (<<c, b>> \in R)
    <2> HIDE DEF R
    <2> QED BY <1>1, <1>2, WFMin
<1>4. b \in S
    <2> SUFFICES ASSUME b \notin S PROVE FALSE
        OBVIOUS
    <2>1. \A y \in S : y <= b /\ y # b /\ y >= 0 /\ y \in Int
        OBVIOUS
    <2>2. PICK y \in S : TRUE
        OBVIOUS
    <2>3. b - 1 \in Nat /\ b \in Nat
        BY <2>1, <2>2
    <2>4. b - 1 \in B
        BY <2>1, <2>3
    <2>5. <<b - 1, b>> \in R
        BY <2>3
    <2> QED BY <1>3, <2>4, <2>5
<1>5. \E x \in S : \A y \in S : x >= y
    BY <1>4
<1> QED BY <1>5 DEF Max

LEMMA IdsTyped ==
    ASSUME NEW ids \in SUBSET Nat, NEW first \in Nat
    PROVE  NextId(ids, first) \in Nat /\ NextDet(ids) \in Nat
<1> DEFINE fit == Printable({k + 1 : k \in ids})
<1>1. MaxId \in Nat /\ fit \subseteq 0 .. MaxId /\ Printable(ids) \subseteq 0 .. MaxId
    BY SysLedgerAssumption DEF Printable
<1>2. ASSUME NEW S, S \subseteq 0 .. MaxId, S # {} PROVE Max(S) \in Nat
    <2>1. Max(S) \in S
        BY <1>1, <1>2, MaxUpTo
    <2>2. \A y \in S : y \in Nat
        BY <1>1, <1>2
    <2> QED BY <2>1, <2>2
<1>3. Printable(ids) # {} => Max(Printable(ids)) \in Nat
    BY <1>1, <1>2
<1>4. NextId(ids, first) = IF ids = {} THEN first
                             ELSE IF fit # {} THEN Max(fit) ELSE Overflow
    BY DEF NextId
<1>5. NextId(ids, first) \in Nat
    <2>1. fit # {} => Max(fit) \in Nat
        BY <1>1, <1>2
    <2> HIDE DEF fit
    <2> QED BY <1>1, <2>1, <1>4 DEF Overflow
<1> QED BY <1>3, <1>5 DEF NextDet

(* As long as the last printable id is not in use, an id that was read is  *)
(* in use by nobody, or is the one that does not fit any more.             *)
LEMMA FreshId ==
    ASSUME NEW ids \in SUBSET Nat, NEW first \in Nat, MaxId \notin ids
    PROVE  NextId(ids, first) \notin ids \/ NextId(ids, first) = Overflow
<1> DEFINE fit == Printable({k + 1 : k \in ids})
<1>1. MaxId \in Nat /\ fit \subseteq 0 .. MaxId
    BY SysLedgerAssumption DEF Printable
<1>2. fit # {} => Max(fit) \in fit /\ \A y \in fit : y <= Max(fit)
    <2> HIDE DEF fit
    <2> QED BY <1>1, MaxUpTo
<1>3. ASSUME fit # {}, Max(fit) \in ids PROVE FALSE
    <2>1. Max(fit) \in 0 .. MaxId /\ Max(fit) # MaxId
        BY <1>1, <1>2, <1>3
    <2>2. Max(fit) + 1 \in {k + 1 : k \in ids}
        <3> HIDE DEF fit
        <3> QED BY <1>3
    <2>3. Max(fit) + 1 \in 0 .. MaxId
        <3> HIDE DEF fit
        <3> QED BY <1>1, <2>1
    <2>4. Max(fit) + 1 \in fit
        BY <2>2, <2>3 DEF Printable
    <2> HIDE DEF fit
    <2> QED BY <1>2, <1>3, <2>1, <2>4
<1>4. NextId(ids, first) = IF ids = {} THEN first
                             ELSE IF fit # {} THEN Max(fit) ELSE Overflow
    BY DEF NextId
<1> HIDE DEF fit
<1> QED BY <1>3, <1>4

-----------------------------------------------------------------------------
(* Types, and that a task at work has an invoice. *)
AtWork   == Syncing \cup Deleting
WorksInv == \A t \in Tasks : pc[t] \in AtWork => job[t].inv \in Invoices

Typed == TypeOK /\ WorksInv

Jobs == [inv : Invoices \cup {None}, ter : Nat, nuevo : BOOLEAN,
         pago : Nat, id : Nat, det : Nat]

LEMMA BlankTyped == \A i \in Invoices \cup {None} : Blank(i) \in Jobs
BY DEF Blank, Jobs

(* The environment keeps to what it keeps apart. *)
LEMMA OrdenStands == [Next]_vars => orden' = orden
<1> SUFFICES ASSUME [Next]_vars PROVE orden' = orden
    OBVIOUS
<1>1. ASSUME NEW t \in Tasks, Step(t) PROVE orden' = orden
    BY <1>1 DEF Step, NextInvoice, LookUp, FindTercero, CodTercero, FindPago, CodFactura, CodDet, CommitSys,
                CommitConflict, Mark, Reject, DelFind, DelDetails, DelHeader, env
<1>2. ASSUME NEW t \in Tasks, NEW i \in Invoices,
             Fail(t) \/ CommitLost(t) \/ StartBulk(t) \/ Reverse(i, t) \/ StartOne(t, i)
      PROVE  orden' = orden
    BY <1>2 DEF Fail, CommitLost, StartBulk, Reverse, StartOne, env
<1> QED BY <1>1, <1>2 DEF Next, NewYear, Crash, StopJob, StartJob, Pay, Fail, CommitLost, StartBulk, vars, env

LEMMA InitTyped == Init => Typed
BY BlankTyped, SysLedgerAssumption
   DEF Init, Typed, TypeOK, WorksInv, AtWork, Syncing, Deleting, Jobs

(* A task that goes on with another one of its reads. *)
LEMMA GotoTyped ==
    ASSUME Typed, NEW t \in Tasks, NEW l \in AtWork, Goto(t, l), pc[t] \in AtWork,
           NEW j \in Jobs, j.inv = job[t].inv, job' = [job EXCEPT ![t] = j]
    PROVE  /\ pc' \in [Tasks -> AtWork \cup {"idle", "next"}]
           /\ job' \in [Tasks -> Jobs]
           /\ WorksInv'
BY DEF Typed, TypeOK, WorksInv, AtWork, Goto, Jobs

(* A call that ends. *)
LEMMA ReturnTyped ==
    ASSUME Typed, NEW t \in Tasks, Return(t)
    PROVE  /\ pc' \in [Tasks -> AtWork \cup {"idle", "next"}]
           /\ job' \in [Tasks -> Jobs]
           /\ WorksInv'
<1>1. Blank(None) \in Jobs /\ "idle" \notin AtWork /\ "next" \notin AtWork
    BY BlankTyped DEF AtWork, Syncing, Deleting
<1> QED BY <1>1 DEF Typed, TypeOK, WorksInv, AtWork, Return, Goto, Jobs

LEMMA BeginTyped ==
    ASSUME Typed, NEW t \in Tasks, NEW i \in Invoices, Begin(t, i)
    PROVE  /\ pc' \in [Tasks -> AtWork \cup {"idle", "next"}]
           /\ job' \in [Tasks -> Jobs]
           /\ WorksInv'
<1>1. Blank(i) \in Jobs /\ Blank(i).inv = i /\ "lookup" \in AtWork
    BY BlankTyped DEF AtWork, Syncing, Blank
<1> QED BY <1>1 DEF Typed, TypeOK, WorksInv, AtWork, Begin, Jobs

(* The rows that a commit writes. *)
LEMMA CommitTyped ==
    ASSUME Typed, NEW t \in Tasks, pc[t] = "commit",
           headers' = headers \cup {NewHeader(t)},
           details' = details \cup {[id |-> job[t].det, factura |-> job[t].id]},
           terceros' = IF job[t].nuevo
                         THEN terceros \cup {[cod |-> job[t].ter, student |-> StudentOf[job[t].inv]]}
                         ELSE terceros
    PROVE  /\ headers' \subseteq [id : Nat, recibo : Invoices, ter : Nat, pago : Nat]
           /\ details' \subseteq [id : Nat, factura : Nat]
           /\ terceros' \subseteq [cod : Nat, student : Students]
<1>1. job[t] \in Jobs /\ job[t].inv \in Invoices /\ StudentOf[job[t].inv] \in Students
    BY SysLedgerAssumption DEF Typed, TypeOK, WorksInv, AtWork, Syncing, Jobs
<1>2. NewHeader(t) \in [id : Nat, recibo : Invoices, ter : Nat, pago : Nat]
    BY <1>1 DEF NewHeader, Jobs
<1>3. /\ [id |-> job[t].det, factura |-> job[t].id] \in [id : Nat, factura : Nat]
      /\ [cod |-> job[t].ter, student |-> StudentOf[job[t].inv]] \in [cod : Nat, student : Students]
    BY <1>1 DEF Jobs
<1> QED BY <1>2, <1>3 DEF Typed, TypeOK

LEMMA StepTyped ==
    ASSUME Typed, NEW t \in Tasks, Step(t)
    PROVE  Typed'
<1> USE DEF Typed
<1> DEFINE j == job[t]
<1>1. j \in Jobs
    BY DEF TypeOK, Jobs
<1>2. \A f \in [Tasks -> Jobs] : \A k \in Jobs : [f EXCEPT ![t] = k] \in [Tasks -> Jobs]
    OBVIOUS
<1>3. job = [job EXCEPT ![t] = j]
    BY DEF TypeOK
<1>4. {p.cod : p \in terceros} \subseteq Nat /\ {h.id : h \in headers} \subseteq Nat
      /\ {d.id : d \in details} \subseteq Nat
    BY DEF TypeOK
<1>5. CASE NextInvoice(t)
    <2>1. PICK i \in todo[t] : Begin(t, i) /\ todo' = [todo EXCEPT ![t] = todo[t] \ {i}]
        BY <1>5 DEF NextInvoice
    <2> QED BY <1>5, <2>1, BeginTyped DEF NextInvoice, TypeOK, Jobs, AtWork, sigedin, ledger, env
<1>6. CASE LookUp(t)
    <2>1. pc[t] \in AtWork /\ job' = [job EXCEPT ![t] = j]
        BY <1>6, <1>3 DEF LookUp, AtWork, Syncing
    <2>2. \E l \in AtWork : Goto(t, l)
        BY <1>6 DEF LookUp, AtWork, Syncing
    <2> QED BY <1>1, <1>6, <2>1, <2>2, GotoTyped DEF LookUp, TypeOK, Jobs, AtWork, sigedin, ledger, env
<1>7. CASE FindTercero(t)
    <2>1. CASE job' = job /\ Goto(t, "codTer")
        <3>1. pc[t] \in AtWork /\ "codTer" \in AtWork /\ job' = [job EXCEPT ![t] = j]
            BY <1>3, <1>7, <2>1 DEF FindTercero, AtWork, Syncing
        <3> QED BY <1>1, <1>7, <2>1, <3>1, GotoTyped DEF FindTercero, TypeOK, Jobs, AtWork, sigedin, ledger, env
    <2>2. ASSUME NEW p \in terceros, job' = [job EXCEPT ![t].ter = p.cod], Goto(t, "pago") PROVE Typed'
        <3>1. PICK k \in Jobs : k.inv = j.inv /\ job' = [job EXCEPT ![t] = k]
            BY <1>1, <2>2 DEF TypeOK, Jobs
        <3>2. pc[t] \in AtWork /\ "pago" \in AtWork
            BY <1>7 DEF FindTercero, AtWork, Syncing
        <3> QED BY <1>7, <2>2, <3>1, <3>2, GotoTyped DEF FindTercero, TypeOK, Jobs, AtWork, sigedin, ledger, env
    <2> QED BY <1>7, <2>1, <2>2 DEF FindTercero
<1>17. CASE CodTercero(t)
    <2>1. NextId({p.cod : p \in terceros}, 0) \in Nat
        BY <1>4, IdsTyped
    <2>2. PICK k \in Jobs : k.inv = j.inv /\ job' = [job EXCEPT ![t] = k]
        BY <1>1, <1>17, <2>1 DEF CodTercero, TypeOK, Jobs
    <2>3. pc[t] \in AtWork /\ "pago" \in AtWork
        BY <1>17 DEF CodTercero, AtWork, Syncing
    <2> QED BY <1>17, <2>2, <2>3, GotoTyped DEF CodTercero, TypeOK, Jobs, AtWork, sigedin, ledger, env
<1>8. CASE FindPago(t)
    <2>1. CASE Return(t)
        BY <1>8, <2>1, ReturnTyped DEF FindPago, TypeOK, Jobs, AtWork, sigedin, ledger, env
    <2>2. CASE Goto(t, "codFactura") /\ job' = [job EXCEPT ![t].pago = pago[job[t].inv]]
        <3>1. pc[t] \in AtWork /\ "codFactura" \in AtWork /\ j.inv \in Invoices
            BY <1>8 DEF FindPago, AtWork, Syncing, WorksInv
        <3>2. PICK k \in Jobs : k.inv = j.inv /\ job' = [job EXCEPT ![t] = k]
            <4>1. pago[j.inv] \in Nat
                BY <3>1, SysLedgerAssumption DEF TypeOK
            <4>2. [j EXCEPT !.pago = pago[j.inv]] \in Jobs
                BY <1>1, <4>1 DEF Jobs
            <4> QED BY <1>1, <2>2, <4>2 DEF Jobs
        <3> QED BY <1>8, <2>2, <3>1, <3>2, GotoTyped DEF FindPago, TypeOK, Jobs, AtWork, sigedin, ledger, env
    <2> QED BY <1>8, <2>1, <2>2 DEF FindPago
<1>9. CASE CodFactura(t)
    <2>1. NextId({h.id : h \in headers}, 1) \in Nat
        BY <1>4, IdsTyped
    <2>2. PICK k \in Jobs : k.inv = j.inv /\ job' = [job EXCEPT ![t] = k]
        BY <1>1, <1>9, <2>1 DEF CodFactura, TypeOK, Jobs
    <2>3. pc[t] \in AtWork /\ "codDet" \in AtWork
        BY <1>9 DEF CodFactura, AtWork, Syncing
    <2> QED BY <1>9, <2>2, <2>3, GotoTyped DEF CodFactura, TypeOK, Jobs, AtWork, sigedin, ledger, env
<1>18. CASE CodDet(t)
    <2>1. NextDet({d.id : d \in details}) \in Nat
        BY <1>4, IdsTyped
    <2>2. PICK k \in Jobs : k.inv = j.inv /\ job' = [job EXCEPT ![t] = k]
        BY <1>1, <1>18, <2>1 DEF CodDet, TypeOK, Jobs
    <2>3. pc[t] \in AtWork /\ "commit" \in AtWork
        BY <1>18 DEF CodDet, AtWork, Syncing
    <2> QED BY <1>18, <2>2, <2>3, GotoTyped DEF CodDet, TypeOK, Jobs, AtWork, sigedin, ledger, env
<1>10. CASE CommitSys(t)
    <2>1. pc[t] \in AtWork /\ "mark" \in AtWork /\ job' = [job EXCEPT ![t] = j]
        BY <1>3, <1>10 DEF CommitSys, AtWork, Syncing
    <2> QED BY <1>1, <1>10, <2>1, GotoTyped, CommitTyped
            DEF CommitSys, TypeOK, Jobs, AtWork, sigedin, env
<1>11. CASE CommitConflict(t)
    BY <1>11, ReturnTyped DEF CommitConflict, TypeOK, Jobs, AtWork, sigedin, ledger, env
<1>12. CASE Mark(t)
    BY <1>12, ReturnTyped DEF Mark, TypeOK, Jobs, AtWork, sigedin, ledger, env
<1>13. CASE Reject(t)
    BY <1>13, ReturnTyped DEF Reject, TypeOK, Jobs, AtWork, sigedin, ledger, env
<1>14. CASE DelFind(t)
    <2>1. CASE Return(t)
        BY <1>14, <2>1, ReturnTyped DEF DelFind, TypeOK, Jobs, AtWork, sigedin, ledger, env
    <2>2. CASE \E h \in headers : job' = [job EXCEPT ![t].id = h.id] /\ Goto(t, "delDetails")
        <3>1. pc[t] \in AtWork /\ "delDetails" \in AtWork
            BY <1>14 DEF DelFind, AtWork, Deleting
        <3>2. PICK k \in Jobs : k.inv = j.inv /\ job' = [job EXCEPT ![t] = k]
            BY <1>1, <2>2 DEF TypeOK, Jobs
        <3> QED BY <1>14, <2>2, <3>1, <3>2, GotoTyped DEF DelFind, TypeOK, Jobs, AtWork, sigedin, ledger, env
    <2> QED BY <1>14, <2>1, <2>2 DEF DelFind
<1>15. CASE DelDetails(t)
    <2>1. pc[t] \in AtWork /\ "delHeader" \in AtWork /\ job' = [job EXCEPT ![t] = j]
        BY <1>3, <1>15 DEF DelDetails, AtWork, Deleting
    <2> QED BY <1>1, <1>15, <2>1, GotoTyped DEF DelDetails, TypeOK, Jobs, AtWork, sigedin, env
<1>16. CASE DelHeader(t)
    BY <1>16, ReturnTyped DEF DelHeader, TypeOK, Jobs, AtWork, sigedin, env
<1> QED BY <1>5, <1>6, <1>7, <1>8, <1>9, <1>10, <1>11, <1>12, <1>13, <1>14, <1>15, <1>16,
           <1>17, <1>18 DEF Step

LEMMA TypedStep == Typed /\ [Next]_vars => Typed'
<1> SUFFICES ASSUME Typed, [Next]_vars PROVE Typed'
    OBVIOUS
<1> USE SysLedgerAssumption DEF Typed
<1>1. CASE NewYear
    BY <1>1 DEF NewYear, TypeOK, WorksInv, sigedin, ledger
<1>2. CASE Crash
    <2>1. "idle" \notin AtWork /\ Blank(None) \in Jobs
        BY BlankTyped DEF AtWork, Syncing, Deleting
    <2> QED BY <1>2, <2>1 DEF Crash, TypeOK, WorksInv, Jobs, sigedin, ledger, env
<1>3. CASE StopJob \/ StartJob
    <2>1. faults' \in 0 .. MaxFaults /\ activo' \in BOOLEAN
        <3>1. activo' = FALSE \/ activo' = TRUE
            BY <1>3 DEF StopJob, StartJob
        <3>2. faults' = faults \/ (faults < MaxFaults /\ faults' = faults + 1)
            BY <1>3 DEF StopJob, StartJob
        <3>3. activo' \in BOOLEAN
            BY <3>1
        <3>4. faults \in 0 .. MaxFaults
            BY DEF TypeOK
        <3>5. faults' \in 0 .. MaxFaults
            BY <3>2, <3>4
        <3> QED BY <3>3, <3>5
    <2>2. UNCHANGED <<sigedin, ledger, pc, job, todo, env>>
        BY <1>3 DEF StopJob, StartJob
    <2>3. /\ UNCHANGED <<pago, anioPago, verify, headers, details, terceros>>
          /\ UNCHANGED <<pc, job, todo, pagos, anio, reversed, orden>>
        BY <2>2 DEF sigedin, ledger, env
    <2>4. WorksInv'
        BY <2>3 DEF WorksInv
    <2> QED BY <2>1, <2>3, <2>4 DEF TypeOK
<1>4. ASSUME NEW i \in Invoices, Pay(i) PROVE Typed'
    BY <1>4 DEF Pay, TypeOK, WorksInv, ledger
<1>5. ASSUME NEW t \in Tasks, Step(t) PROVE Typed'
    BY <1>5, StepTyped
<1>6. ASSUME NEW t \in Tasks, Fail(t) PROVE Typed'
    BY <1>6, ReturnTyped DEF Fail, TypeOK, Jobs, AtWork, sigedin, ledger, env
<1>7. ASSUME NEW t \in Tasks, CommitLost(t) PROVE Typed'
    <2>1. faults' \in 0 .. MaxFaults
        BY <1>7 DEF CommitLost, TypeOK
    <2>2. /\ headers' \subseteq [id : Nat, recibo : Invoices, ter : Nat, pago : Nat]
          /\ details' \subseteq [id : Nat, factura : Nat]
          /\ terceros' \subseteq [cod : Nat, student : Students]
        BY <1>7, CommitTyped DEF CommitLost
    <2>3. Return(t) /\ UNCHANGED <<sigedin, todo, env, activo>>
        BY <1>7 DEF CommitLost
    <2> QED BY <2>1, <2>2, <2>3, ReturnTyped DEF TypeOK, Jobs, AtWork, sigedin, env
<1>8. ASSUME NEW t \in Tasks, StartBulk(t) PROVE Typed'
    <2>1. "next" \notin AtWork
        BY DEF AtWork, Syncing, Deleting
    <2>2. PICK S \in SUBSET Pending : todo' = [todo EXCEPT ![t] = S]
        BY <1>8 DEF StartBulk
    <2> QED BY <1>8, <2>1, <2>2 DEF StartBulk, Pending, TypeOK, WorksInv, sigedin, ledger, env
<1>9. ASSUME NEW t \in Tasks, NEW i \in Invoices, Reverse(i, t) PROVE Typed'
    <2>1. Blank(i) \in Jobs /\ Blank(i).inv = i /\ "delFind" \in Deleting
        BY BlankTyped DEF Blank, Deleting
    <2> QED BY <1>9, <2>1 DEF Reverse, TypeOK, WorksInv, AtWork, Jobs, ledger
<1>10. ASSUME NEW t \in Tasks, NEW i \in Invoices, StartOne(t, i) PROVE Typed'
    BY <1>10, BeginTyped DEF StartOne, TypeOK, Jobs, AtWork, sigedin, ledger, env
<1>11. CASE UNCHANGED vars
    BY <1>11 DEF vars, TypeOK, WorksInv, sigedin, ledger, env
<1> QED BY <1>1, <1>2, <1>3, <1>4, <1>5, <1>6, <1>7, <1>8, <1>9, <1>10, <1>11 DEF Next

(* Payments, ledger and tasks keep their types, for any invoices, students *)
(* and tasks, however calls overlap, fail or run out of ids.               *)
THEOREM LedgerTypes == Spec => []TypeOK
BY InitTyped, TypedStep, PTL DEF Spec, Typed

-----------------------------------------------------------------------------
(* What a step of one task does to the others: nothing. *)
TaskStep(t) == \/ Step(t) \/ Fail(t) \/ CommitLost(t) \/ StartBulk(t)
               \/ \E i \in Invoices : Reverse(i, t) \/ StartOne(t, i)

Others(t) == \A u \in Tasks \ {t} : pc'[u] = pc[u] /\ job'[u] = job[u]

LEMMA Returned ==
    ASSUME Typed, NEW t \in Tasks, Return(t)
    PROVE  pc'[t] \in {"idle", "next"} /\ job'[t] = Blank(None) /\ Others(t)
BY DEF Typed, TypeOK, Return, Goto, Others

LEMMA Went ==
    ASSUME Typed, NEW t \in Tasks, NEW l, Goto(t, l)
    PROVE  pc'[t] = l /\ \A u \in Tasks \ {t} : pc'[u] = pc[u]
BY DEF Typed, TypeOK, Goto

LEMMA Began ==
    ASSUME Typed, NEW t \in Tasks, NEW i \in Invoices, Begin(t, i)
    PROVE  pc'[t] = "lookup" /\ job'[t] = Blank(i) /\ Others(t)
BY DEF Typed, TypeOK, Begin, Others

LEMMA OthersStand ==
    ASSUME Typed, NEW t \in Tasks, TaskStep(t)
    PROVE  Others(t)
<1> USE DEF Typed, TypeOK
<1>1. ASSUME NEW i \in Invoices, Begin(t, i) PROVE Others(t)
    BY <1>1, Began
<1>2. CASE Return(t)
    BY <1>2, Returned
<1>3. ASSUME NEW l, Goto(t, l), \A u \in Tasks \ {t} : job'[u] = job[u] PROVE Others(t)
    BY <1>3, Went DEF Others
<1>4. CASE NextInvoice(t)
    BY <1>1, <1>4 DEF NextInvoice
<1>5. CASE LookUp(t) \/ CommitSys(t) \/ DelDetails(t)
    BY <1>3, <1>5 DEF LookUp, CommitSys, DelDetails
<1>6. CASE FindTercero(t)
    BY <1>3, <1>6 DEF FindTercero
<1>7. CASE FindPago(t)
    BY <1>2, <1>3, <1>7 DEF FindPago
<1>8. CASE CodTercero(t) \/ CodFactura(t) \/ CodDet(t)
    BY <1>3, <1>8 DEF CodTercero, CodFactura, CodDet
<1>9. CASE CommitConflict(t) \/ Mark(t) \/ Reject(t) \/ DelHeader(t) \/ Fail(t) \/ CommitLost(t)
    BY <1>2, <1>9 DEF CommitConflict, Mark, Reject, DelHeader, Fail, CommitLost
<1>10. CASE DelFind(t)
    BY <1>2, <1>3, <1>10 DEF DelFind
<1>11. CASE StartBulk(t)
    BY <1>11 DEF StartBulk, Others
<1>12. ASSUME NEW i \in Invoices, Reverse(i, t) PROVE Others(t)
    BY <1>12 DEF Reverse, Others
<1>13. ASSUME NEW i \in Invoices, StartOne(t, i) PROVE Others(t)
    BY <1>1, <1>13 DEF StartOne
<1> QED BY <1>4, <1>5, <1>6, <1>7, <1>8, <1>9, <1>10, <1>11, <1>12, <1>13 DEF TaskStep, Step

-----------------------------------------------------------------------------
(* The third party and the payment on a header. *)

(* With the payment read, and with the third party found or given an id.   *)
Billing == {"codFactura", "codDet", "commit"}
Entered == {"pago"} \cup Billing

(* A registration that found a third party holds one of its student, and   *)
(* one that read the payment holds one.                                    *)
BillableAt(t) ==
    /\ pc[t] \in Entered /\ ~ job[t].nuevo =>
          \E p \in terceros : p.cod = job[t].ter /\ p.student = StudentOf[job[t].inv]
    /\ pc[t] \in Billing => job[t].pago # 0
Billable == \A t \in Tasks : BillableAt(t)

(* The headers bill their own students, who have codes of their own.       *)
Facturado ==
    /\ \A h \in headers :
          /\ h.pago # 0
          /\ \E p \in terceros : p.cod = h.ter /\ p.student = StudentOf[h.recibo]
    /\ \A p, q \in terceros : p.cod = q.cod => p = q

(* With the registrations of a student kept apart, whoever found no third  *)
(* party of it is alone with that fact until its transaction is over.      *)
OneEntering == \A t, u \in Tasks :
    pc[t] \in Syncing /\ pc[u] \in Syncing /\ StudentOf[job[t].inv] = StudentOf[job[u].inv] => t = u
Unknown(t) == pc[t] = "codTer" \/ (pc[t] \in Entered /\ job[t].nuevo)
NuevoAt(t) ==
    /\ Unknown(t) => \A p \in terceros : p.student # StudentOf[job[t].inv]
    /\ pc[t] \in {"lookup", "tercero"} => ~ job[t].nuevo
UnTercero  == \A p, q \in terceros : p.student = q.student => p = q

StudentBody == OneEntering /\ UnTercero /\ \A t \in Tasks : NuevoAt(t)

TerceroInv == /\ Typed /\ Billable /\ Facturado
              /\ "student" \in orden => StudentBody

LEMMA BillableOthers ==
    ASSUME Billable, NEW t \in Tasks, Others(t), terceros \subseteq terceros', BillableAt(t)'
    PROVE  Billable'
BY DEF Billable, BillableAt, Others

(* Nothing but a commit writes a header or a third party. *)
LEMMA TerceroUnwritten ==
    ASSUME Facturado, headers' \subseteq headers, terceros' = terceros
    PROVE  Facturado'
BY DEF Facturado

(* What a commit writes. *)
LEMMA TerceroWritten ==
    ASSUME Typed, Billable, Facturado, NEW t \in Tasks, pc[t] = "commit", ~ Conflict(t),
           headers' = headers \cup {NewHeader(t)},
           terceros' = IF job[t].nuevo
                         THEN terceros \cup {[cod |-> job[t].ter, student |-> StudentOf[job[t].inv]]}
                         ELSE terceros
    PROVE  Facturado' /\ terceros \subseteq terceros'
<1> DEFINE n == [cod |-> job[t].ter, student |-> StudentOf[job[t].inv]]
<1>1. job[t].pago # 0
    BY DEF Billable, BillableAt, Billing
<1>2. \E p \in terceros' : p.cod = job[t].ter /\ p.student = StudentOf[job[t].inv]
    <2>1. CASE job[t].nuevo
        <3>1. n \in terceros' /\ n.cod = job[t].ter /\ n.student = StudentOf[job[t].inv]
            BY <2>1
        <3> QED BY <3>1
    <2>2. CASE ~ job[t].nuevo
        BY <2>2 DEF Billable, BillableAt, Entered, Billing
    <2> QED BY <2>1, <2>2
<1>3. NewHeader(t).ter = job[t].ter /\ NewHeader(t).recibo = job[t].inv /\ NewHeader(t).pago = job[t].pago
    BY DEF NewHeader
<1>4. terceros \subseteq terceros'
    OBVIOUS
<1>5. ASSUME NEW p \in terceros', NEW q \in terceros', p.cod = q.cod PROVE p = q
    <2>1. CASE ~ job[t].nuevo
        BY <1>5, <2>1 DEF Facturado
    <2>2. CASE job[t].nuevo
        <3>1. \A x \in terceros : x.cod # n.cod
            BY <2>2 DEF Conflict
        <3>2. \A x \in terceros' : x \in terceros \/ x = n
            BY <2>2
        <3> HIDE DEF n
        <3> QED BY <1>5, <3>1, <3>2 DEF Facturado
    <2> QED BY <2>1, <2>2
<1>6. \A h \in headers' : h \in headers \/ h = NewHeader(t)
    OBVIOUS
<1>7. ASSUME NEW h \in headers'
      PROVE  /\ h.pago # 0
             /\ \E p \in terceros' : p.cod = h.ter /\ p.student = StudentOf[h.recibo]
    <2>1. CASE h \in headers
        BY <1>4, <2>1 DEF Facturado
    <2>2. CASE h = NewHeader(t)
        BY <1>1, <1>2, <1>3, <2>2
    <2> QED BY <1>6, <2>1, <2>2
<1>8. Facturado'
    BY <1>5, <1>7 DEF Facturado
<1> QED BY <1>4, <1>8

LEMMA TerceroTask ==
    ASSUME Typed, Billable, Facturado, NEW t \in Tasks, TaskStep(t)
    PROVE  (Billable /\ Facturado)'
<1>1. Others(t)
    BY OthersStand
<1>2. ASSUME terceros' = terceros, headers' \subseteq headers, BillableAt(t)'
      PROVE  (Billable /\ Facturado)'
    BY <1>1, <1>2, BillableOthers, TerceroUnwritten
<1>3. ASSUME pc'[t] \notin Entered PROVE BillableAt(t)'
    BY <1>3 DEF BillableAt, Entered
<1>4. Return(t) => BillableAt(t)'
    BY <1>3, Returned DEF Entered, Billing
<1>5. \A i \in Invoices : Begin(t, i) => BillableAt(t)'
    BY <1>3, Began DEF Entered, Billing
<1>6. CASE NextInvoice(t)
    BY <1>2, <1>5, <1>6 DEF NextInvoice, ledger, Typed, TypeOK
<1>7. CASE LookUp(t) \/ DelDetails(t)
    BY <1>2, <1>3, <1>7, Went DEF LookUp, DelDetails, ledger, Entered, Billing
<1>8. CASE FindTercero(t)
    <2>1. terceros' = terceros /\ headers' = headers
        BY <1>8 DEF FindTercero, ledger
    <2>2. CASE Goto(t, "codTer")
        <3>1. pc'[t] \notin Entered
            BY <2>2, Went DEF Entered, Billing
        <3> QED BY <1>2, <1>3, <2>1, <3>1
    <2>3. ASSUME NEW p \in terceros, p.student = StudentOf[job[t].inv],
                 job' = [job EXCEPT ![t].ter = p.cod], Goto(t, "pago")
          PROVE  (Billable /\ Facturado)'
        <3>1. pc'[t] = "pago" /\ job'[t].ter = p.cod /\ job'[t].inv = job[t].inv
            BY <2>3, Went DEF Typed, TypeOK
        <3>2. BillableAt(t)'
            BY <2>1, <2>3, <3>1 DEF BillableAt, Billing
        <3> QED BY <1>2, <2>1, <3>2
    <2> QED BY <1>8, <2>2, <2>3 DEF FindTercero
<1>9. CASE CodTercero(t)
    <2>1. terceros' = terceros /\ headers' = headers
        BY <1>9 DEF CodTercero, ledger
    <2>2. pc'[t] = "pago" /\ job'[t].nuevo
        BY <1>9, Went DEF CodTercero, Typed, TypeOK
    <2>3. BillableAt(t)'
        BY <2>2 DEF BillableAt, Billing
    <2> QED BY <1>2, <2>1, <2>3
<1>10. CASE FindPago(t)
    <2>1. terceros' = terceros /\ headers' = headers
        BY <1>10 DEF FindPago, ledger
    <2>2. CASE Goto(t, "codFactura") /\ pago[job[t].inv] # 0 /\ job' = [job EXCEPT ![t].pago = pago[job[t].inv]]
        <3>1. pc'[t] = "codFactura" /\ pc[t] = "pago" /\ BillableAt(t)
            BY <1>10, <2>2, Went DEF FindPago, Billable
        <3> QED BY <1>2, <2>1, <2>2, <3>1 DEF BillableAt, Entered, Billing, Typed, TypeOK
    <2> QED BY <1>2, <1>4, <1>10, <2>1, <2>2 DEF FindPago
<1>11. CASE CodFactura(t) \/ CodDet(t)
    <2>1. terceros' = terceros /\ headers' = headers
        BY <1>11 DEF CodFactura, CodDet, ledger
    <2>2. pc[t] \in {"codFactura", "codDet"} /\ BillableAt(t)
        BY <1>11 DEF CodFactura, CodDet, Billable
    <2>3. job'[t].pago = job[t].pago /\ job'[t].ter = job[t].ter
          /\ job'[t].nuevo = job[t].nuevo /\ job'[t].inv = job[t].inv
        BY <1>11 DEF CodFactura, CodDet, Typed, TypeOK
    <2>4. BillableAt(t)'
        BY <2>1, <2>2, <2>3 DEF BillableAt, Entered, Billing
    <2> QED BY <1>2, <2>1, <2>4
<1>12. CASE CommitSys(t)
    <2>1. pc'[t] \notin Entered
        BY <1>12, Went DEF CommitSys, Entered, Billing
    <2> QED BY <1>1, <1>3, <1>12, <2>1, TerceroWritten, BillableOthers DEF CommitSys
<1>13. CASE CommitLost(t)
    BY <1>1, <1>4, <1>13, TerceroWritten, BillableOthers DEF CommitLost
<1>14. CASE CommitConflict(t) \/ Mark(t) \/ Reject(t) \/ DelHeader(t) \/ Fail(t)
    BY <1>2, <1>4, <1>14 DEF CommitConflict, Mark, Reject, DelHeader, Fail, ledger
<1>15. CASE DelFind(t)
    BY <1>2, <1>3, <1>4, <1>15, Went DEF DelFind, ledger, Entered, Billing
<1>16. CASE StartBulk(t)
    <2>1. terceros' = terceros /\ headers' = headers /\ pc' = [pc EXCEPT ![t] = "next"]
        BY <1>16 DEF StartBulk, ledger
    <2>2. pc'[t] \notin Entered
        BY <2>1 DEF Typed, TypeOK, Entered, Billing
    <2> QED BY <1>2, <1>3, <2>1, <2>2
<1>17. ASSUME NEW i \in Invoices, Reverse(i, t) PROVE (Billable /\ Facturado)'
    BY <1>2, <1>3, <1>17 DEF Reverse, ledger, Typed, TypeOK, Entered, Billing
<1>18. ASSUME NEW i \in Invoices, StartOne(t, i) PROVE (Billable /\ Facturado)'
    BY <1>2, <1>5, <1>18 DEF StartOne, ledger
<1> QED BY <1>6, <1>7, <1>8, <1>9, <1>10, <1>11, <1>12, <1>13, <1>14, <1>15, <1>16, <1>17, <1>18
        DEF TaskStep, Step

(* A step that writes no third party. *)
LEMMA StudentQuiet ==
    ASSUME StudentBody, NEW t \in Tasks, Others(t), terceros' = terceros, NuevoAt(t)',
           pc'[t] \in Syncing => \/ pc[t] \in Syncing /\ job'[t].inv = job[t].inv
                                 \/ \A u \in Tasks : pc[u] \in Syncing =>
                                       StudentOf[job[u].inv] # StudentOf[job'[t].inv]
    PROVE  StudentBody'
<1> USE DEF StudentBody, Others
<1>1. OneEntering'
    BY DEF OneEntering
<1>2. UnTercero'
    BY DEF UnTercero
<1>3. \A u \in Tasks : NuevoAt(u)'
    BY DEF NuevoAt, Unknown
<1> QED BY <1>1, <1>2, <1>3

(* A commit enters a student who was not there. *)
LEMMA StudentCommit ==
    ASSUME StudentBody, NEW t \in Tasks, Others(t), pc[t] = "commit",
           terceros' = IF job[t].nuevo
                         THEN terceros \cup {[cod |-> job[t].ter, student |-> StudentOf[job[t].inv]]}
                         ELSE terceros,
           pc'[t] \in {"idle", "next"} \/ (pc'[t] = "mark" /\ job'[t] = job[t])
    PROVE  StudentBody'
<1> USE DEF StudentBody, Others
<1> DEFINE n == [cod |-> job[t].ter, student |-> StudentOf[job[t].inv]]
<1>1. n.student = StudentOf[job[t].inv] /\ \A p \in terceros' : p \in terceros \/ (job[t].nuevo /\ p = n)
    OBVIOUS
<1>2. job[t].nuevo => \A p \in terceros : p.student # n.student
    BY <1>1 DEF NuevoAt, Unknown, Entered, Billing
<1> HIDE DEF n
<1>3. OneEntering'
    BY DEF OneEntering, Syncing
<1>4. UnTercero'
    BY <1>1, <1>2 DEF UnTercero
<1>5. NuevoAt(t)'
    BY DEF NuevoAt, Unknown, Entered, Billing
<1>6. ASSUME NEW u \in Tasks \ {t} PROVE NuevoAt(u)'
    <2>1. Unknown(u) => StudentOf[job[u].inv] # n.student
        BY <1>1 DEF OneEntering, Unknown, Entered, Billing, Syncing
    <2> QED BY <1>1, <2>1 DEF NuevoAt, Unknown
<1> QED BY <1>3, <1>4, <1>5, <1>6

LEMMA StudentTask ==
    ASSUME Typed, "student" \in orden, StudentBody, NEW t \in Tasks, TaskStep(t)
    PROVE  StudentBody'
<1>1. Others(t) /\ NuevoAt(t)
    BY OthersStand DEF StudentBody
<1>2. ASSUME terceros' = terceros, pc'[t] \notin Syncing PROVE StudentBody'
    BY <1>1, <1>2, StudentQuiet DEF NuevoAt, Unknown, Entered, Billing, Syncing
<1>3. ASSUME terceros' = terceros, Return(t) PROVE StudentBody'
    BY <1>2, <1>3, Returned DEF Syncing
<1>4. ASSUME NEW i \in Invoices, terceros' = terceros, Begin(t, i) PROVE StudentBody'
    <2>1. pc'[t] = "lookup" /\ job'[t].inv = i /\ ~ job'[t].nuevo
        <3>1. pc'[t] = "lookup" /\ job'[t] = Blank(i)
            BY <1>4, Began
        <3> QED BY <3>1 DEF Blank
    <2>2. ASSUME NEW u \in Tasks, pc[u] \in Syncing PROVE StudentOf[job[u].inv] # StudentOf[i]
        <3>1. job[u].inv \in Invoices /\ SyncingOn(job[u].inv)
            BY <2>2 DEF Typed, WorksInv, AtWork, SyncingOn
        <3> QED BY <1>4, <3>1 DEF Begin, SyncAdmitted
    <2> QED BY <1>1, <1>4, <2>1, <2>2, StudentQuiet DEF NuevoAt, Unknown, Entered, Billing
<1>5. ASSUME terceros' = terceros, pc[t] \in Syncing, job'[t].inv = job[t].inv, NuevoAt(t)'
      PROVE  StudentBody'
    BY <1>1, <1>5, StudentQuiet
<1>6. CASE NextInvoice(t)
    BY <1>4, <1>6 DEF NextInvoice, ledger, Typed, TypeOK
<1>7. CASE LookUp(t)
    <2>1. terceros' = terceros /\ pc[t] \in Syncing /\ job' = job
        BY <1>7 DEF LookUp, ledger, Syncing
    <2>2. pc'[t] \in {"tercero", "mark"}
        BY <1>7, Went DEF LookUp
    <2>3. pc[t] = "lookup"
        BY <1>7 DEF LookUp
    <2> QED BY <1>1, <1>5, <2>1, <2>2, <2>3 DEF NuevoAt, Unknown, Entered, Billing
<1>8. CASE FindTercero(t)
    <2>1. terceros' = terceros /\ pc[t] = "tercero"
        BY <1>8 DEF FindTercero, ledger
    <2>2. CASE (\A p \in terceros : p.student # StudentOf[job[t].inv]) /\ job' = job /\ Goto(t, "codTer")
        <3>1. pc'[t] = "codTer"
            BY <2>2, Went
        <3> QED BY <1>5, <2>1, <2>2, <3>1 DEF NuevoAt, Syncing
    <2>3. ASSUME NEW p \in terceros, job' = [job EXCEPT ![t].ter = p.cod], Goto(t, "pago")
          PROVE  StudentBody'
        <3>1. job'[t].inv = job[t].inv /\ job'[t].nuevo = job[t].nuevo /\ pc'[t] = "pago"
            BY <2>3, Went DEF Typed, TypeOK
        <3>2. ~ job[t].nuevo
            BY <1>1, <2>1 DEF NuevoAt
        <3> QED BY <1>5, <2>1, <3>1, <3>2 DEF NuevoAt, Unknown, Syncing
    <2> QED BY <1>8, <2>2, <2>3 DEF FindTercero
<1>9. CASE CodTercero(t)
    <2>1. terceros' = terceros /\ pc[t] = "codTer" /\ job'[t].inv = job[t].inv
        BY <1>9 DEF CodTercero, ledger, Typed, TypeOK
    <2>2. pc'[t] = "pago"
        BY <1>9, Went DEF CodTercero
    <2> QED BY <1>1, <1>5, <2>1, <2>2 DEF NuevoAt, Unknown, Syncing
<1>10. CASE FindPago(t)
    <2>1. terceros' = terceros /\ pc[t] = "pago"
        BY <1>10 DEF FindPago, ledger
    <2>2. CASE job' = [job EXCEPT ![t].pago = pago[job[t].inv]]
        <3>1. job'[t].inv = job[t].inv /\ job'[t].nuevo = job[t].nuevo
            BY <2>2 DEF Typed, TypeOK
        <3>2. pc'[t] \in {"codFactura", "idle", "next"}
            BY <1>10, Went, Returned DEF FindPago
        <3>3. NuevoAt(t)'
            BY <1>1, <2>1, <3>1, <3>2 DEF NuevoAt, Unknown, Entered, Billing
        <3> QED BY <1>5, <2>1, <3>1, <3>3 DEF Syncing
    <2> QED BY <1>3, <1>10, <2>1, <2>2 DEF FindPago
<1>11. CASE CodFactura(t) \/ CodDet(t)
    <2>1. terceros' = terceros /\ pc[t] \in {"codFactura", "codDet"}
        BY <1>11 DEF CodFactura, CodDet, ledger
    <2>2. job'[t].inv = job[t].inv /\ job'[t].nuevo = job[t].nuevo
        BY <1>11 DEF CodFactura, CodDet, Typed, TypeOK
    <2>3. pc'[t] \in {"codDet", "commit"}
        BY <1>11, Went DEF CodFactura, CodDet
    <2>4. NuevoAt(t)'
        BY <1>1, <2>1, <2>2, <2>3 DEF NuevoAt, Unknown, Entered, Billing
    <2> QED BY <1>5, <2>1, <2>2, <2>4 DEF Syncing
<1>12. CASE CommitSys(t)
    BY <1>1, <1>12, Went, StudentCommit DEF CommitSys
<1>13. CASE CommitLost(t)
    BY <1>1, <1>13, Returned, StudentCommit DEF CommitLost
<1>14. CASE CommitConflict(t) \/ Mark(t) \/ Reject(t) \/ DelHeader(t) \/ Fail(t)
    BY <1>3, <1>14 DEF CommitConflict, Mark, Reject, DelHeader, Fail, ledger
<1>15. CASE DelFind(t) \/ DelDetails(t)
    <2>1. terceros' = terceros
        BY <1>15 DEF DelFind, DelDetails, ledger
    <2>2. pc'[t] \in {"delDetails", "delHeader", "idle", "next"}
        BY <1>15, Went, Returned DEF DelFind, DelDetails
    <2> QED BY <1>2, <2>1, <2>2 DEF Syncing
<1>16. CASE StartBulk(t)
    <2>1. terceros' = terceros /\ pc'[t] = "next"
        BY <1>16 DEF StartBulk, ledger, Typed, TypeOK
    <2> QED BY <1>2, <2>1 DEF Syncing
<1>17. ASSUME NEW i \in Invoices, Reverse(i, t) PROVE StudentBody'
    <2>1. terceros' = terceros /\ pc'[t] = "delFind"
        BY <1>17 DEF Reverse, ledger, Typed, TypeOK
    <2> QED BY <1>2, <2>1 DEF Syncing
<1>18. ASSUME NEW i \in Invoices, StartOne(t, i) PROVE StudentBody'
    BY <1>4, <1>18 DEF StartOne, ledger
<1> QED BY <1>6, <1>7, <1>8, <1>9, <1>10, <1>11, <1>12, <1>13, <1>14, <1>15, <1>16, <1>17, <1>18
        DEF TaskStep, Step

LEMMA TerceroStep == TerceroInv /\ [Next]_vars => TerceroInv'
<1> SUFFICES ASSUME TerceroInv, [Next]_vars
             PROVE  (Billable /\ Facturado)' /\ ("student" \in orden => StudentBody')
    BY TypedStep, OrdenStands DEF TerceroInv
<1> USE DEF TerceroInv
<1> DEFINE Kept == (Billable /\ Facturado)' /\ ("student" \in orden => StudentBody')
<1>1. ASSUME UNCHANGED <<ledger, pc, job>> PROVE Kept
    BY <1>1 DEF Billable, BillableAt, Facturado, StudentBody, OneEntering, UnTercero, NuevoAt,
                Unknown, ledger
<1>2. CASE NewYear \/ StopJob \/ StartJob \/ UNCHANGED vars
    BY <1>1, <1>2 DEF NewYear, StopJob, StartJob, vars
<1>3. ASSUME NEW i \in Invoices, Pay(i) PROVE Kept
    BY <1>1, <1>3 DEF Pay
<1>4. CASE Crash
    <2>1. UNCHANGED ledger /\ \A t \in Tasks : pc'[t] = "idle"
        BY <1>4 DEF Crash
    <2> QED BY <2>1 DEF Billable, BillableAt, Facturado, StudentBody, OneEntering, UnTercero, NuevoAt,
                        Unknown, Entered, Billing, Syncing, ledger
<1>5. ASSUME NEW t \in Tasks, TaskStep(t) PROVE Kept
    BY <1>5, TerceroTask, StudentTask
<1> QED BY <1>2, <1>3, <1>4, <1>5 DEF Next, TaskStep

LEMMA InitTercero == Init => TerceroInv
<1> SUFFICES ASSUME Init PROVE TerceroInv
    OBVIOUS
<1>1. Typed /\ terceros = Previos /\ headers = {} /\ \A t \in Tasks : pc[t] = "idle"
    BY InitTyped DEF Init
<1>2. Facturado /\ UnTercero
    BY <1>1, SysLedgerAssumption DEF Facturado, UnTercero
<1> QED BY <1>1, <1>2 DEF TerceroInv, Billable, BillableAt, StudentBody, OneEntering, NuevoAt, Unknown,
                          Entered, Billing, Syncing

(* A header bills the third party of its invoice's student and an actual   *)
(* payment, whatever the ids that concurrent registrations read; and a     *)
(* student whose registrations are kept apart is one third party.          *)
THEOREM TerceroProved == Spec => []TerceroDelEstudiante
<1>1. TerceroInv => TerceroDelEstudiante
    BY DEF TerceroInv, Facturado, StudentBody, UnTercero, TerceroDelEstudiante
<1> QED BY <1>1, InitTercero, TerceroStep, PTL DEF Spec

-----------------------------------------------------------------------------
(* The clean-up of the ledger, when those of one invoice do not overlap. *)

IdsUnicos == \A g, h \in headers : g.id = h.id => g = h

OneCleaner == \A t, u \in Tasks :
    pc[t] \in Deleting /\ pc[u] \in Deleting /\ job[t].inv = job[u].inv => t = u

(* The header that a clean-up has found stands until it deletes it, and    *)
(* stands alone once its details are gone; and whoever is about to write   *)
(* the mark has a header to show for it, unless there was a reversal.      *)
CleanAt(t) ==
    /\ pc[t] \in {"delDetails", "delHeader"} =>
          \E h \in headers : h.id = job[t].id /\ h.recibo = job[t].inv
    /\ pc[t] = "delHeader" => \A d \in details : d.factura # job[t].id
    /\ pc[t] \in Deleting => job[t].inv \in reversed
    /\ pc[t] = "mark" /\ job[t].inv \notin reversed => \E h \in headers : h.recibo = job[t].inv

CleanBody == /\ IdsUnicos /\ OneCleaner
             /\ \A t \in Tasks : CleanAt(t)
             /\ DetalleCompleto /\ MarcaRespaldada

CleanInv == Typed /\ ("delete" \in orden => CleanBody)

(* A step that writes neither headers nor details. *)
LEMMA CleanQuiet ==
    ASSUME Typed, CleanBody, NEW t \in Tasks, Others(t),
           headers' = headers, details' = details,
           reversed \subseteq reversed', faults > 0 => faults' > 0,
           pc[t] = "delHeader" => faults' > 0,
           CleanAt(t)',
           pc'[t] \in Deleting => \/ pc[t] \in Deleting /\ job'[t].inv = job[t].inv
                                  \/ ~ DeletingOn(job'[t].inv),
           \A i \in Invoices : verify'[i] = "REGISTRADO" /\ i \notin reversed' =>
               verify[i] = "REGISTRADO" \/ \E h \in headers : h.recibo = i
    PROVE  CleanBody'
<1> USE DEF CleanBody, Others
<1>1. IdsUnicos'
    BY DEF IdsUnicos
<1>2. OneCleaner'
    BY DEF OneCleaner, DeletingOn
<1>3. \A u \in Tasks : CleanAt(u)'
    BY DEF CleanAt
<1>4. DetalleCompleto'
    <2>1. ASSUME NEW h \in headers
          PROVE  \/ \E d \in details : d.factura = h.id
                 \/ \E u \in Tasks : pc'[u] = "delHeader" /\ job'[u].id = h.id
                 \/ h.recibo \in reversed' /\ faults' > 0
        <3>1. CASE \E d \in details : d.factura = h.id
            BY <3>1
        <3>2. CASE h.recibo \in reversed /\ faults > 0
            BY <3>2
        <3>3. ASSUME NEW u \in Tasks, pc[u] = "delHeader" /\ job[u].id = h.id
              PROVE  \/ \E v \in Tasks : pc'[v] = "delHeader" /\ job'[v].id = h.id
                     \/ h.recibo \in reversed' /\ faults' > 0
            <4>1. h.recibo = job[u].inv /\ job[u].inv \in reversed
                BY <3>3 DEF CleanAt, IdsUnicos, Deleting
            <4> QED BY <3>3, <4>1
        <3> QED BY <3>1, <3>2, <3>3 DEF DetalleCompleto
    <2> QED BY <2>1 DEF DetalleCompleto
<1>5. MarcaRespaldada'
    BY DEF MarcaRespaldada
<1> QED BY <1>1, <1>2, <1>3, <1>4, <1>5

(* A commit: its header and its detail are new ones. *)
LEMMA CleanCommit ==
    ASSUME Typed, CleanBody, NEW t \in Tasks, Others(t), pc[t] = "commit", ~ Conflict(t),
           headers' = headers \cup {NewHeader(t)},
           details' = details \cup {[id |-> job[t].det, factura |-> job[t].id]},
           UNCHANGED <<reversed, verify>>, faults > 0 => faults' > 0,
           pc'[t] \in {"idle", "next"} \/ (pc'[t] = "mark" /\ job'[t] = job[t])
    PROVE  CleanBody'
<1> USE DEF CleanBody, Others
<1> DEFINE n == NewHeader(t)
           m == [id |-> job[t].det, factura |-> job[t].id]
<1>1. n.id = job[t].id /\ n.recibo = job[t].inv /\ m.factura = job[t].id
    BY DEF NewHeader
<1>2. \A h \in headers : h.id # job[t].id
    BY DEF Conflict
<1>3. n \in headers' /\ m \in details' /\ headers \subseteq headers' /\ details \subseteq details'
    OBVIOUS
<1>4. \A h \in headers' : h \in headers \/ h = n
    OBVIOUS
<1>5. \A d \in details' : d \in details \/ d = m
    OBVIOUS
<1> HIDE DEF n, m
<1>6. IdsUnicos'
    BY <1>1, <1>2, <1>4 DEF IdsUnicos
<1>7. OneCleaner'
    BY DEF OneCleaner, Deleting
<1>8. \A u \in Tasks : CleanAt(u)'
    <2>1. CleanAt(t)'
        BY <1>1, <1>3 DEF CleanAt, Deleting
    <2>2. ASSUME NEW u \in Tasks \ {t} PROVE CleanAt(u)'
        BY <1>1, <1>2, <1>3, <1>5 DEF CleanAt
    <2> QED BY <2>1, <2>2
<1>9. DetalleCompleto'
    <2>1. ASSUME NEW u \in Tasks, pc[u] = "delHeader"
          PROVE  pc'[u] = "delHeader" /\ job'[u] = job[u]
        BY <2>1
    <2>2. ASSUME NEW h \in headers
          PROVE  \/ \E d \in details' : d.factura = h.id
                 \/ \E u \in Tasks : pc'[u] = "delHeader" /\ job'[u].id = h.id
                 \/ h.recibo \in reversed' /\ faults' > 0
        <3>1. CASE \E u \in Tasks : pc[u] = "delHeader" /\ job[u].id = h.id
            BY <2>1, <3>1
        <3>2. CASE \E d \in details : d.factura = h.id
            BY <1>3, <3>2
        <3> QED BY <3>1, <3>2 DEF DetalleCompleto
    <2>3. \E d \in details' : d.factura = n.id
        BY <1>1, <1>3
    <2>4. \A d \in details' : \E h \in headers' : h.id = d.factura
        BY <1>1, <1>3, <1>5 DEF DetalleCompleto
    <2> QED BY <1>4, <2>2, <2>3, <2>4 DEF DetalleCompleto
<1>10. MarcaRespaldada'
    BY <1>3 DEF MarcaRespaldada
<1> QED BY <1>6, <1>7, <1>8, <1>9, <1>10

LEMMA CleanDetails ==
    ASSUME Typed, CleanBody, NEW t \in Tasks, DelDetails(t)
    PROVE  CleanBody'
<1> USE DEF CleanBody, Others
<1>1. Others(t)
    BY OthersStand DEF TaskStep, Step
<1>2. pc[t] = "delDetails" /\ pc'[t] = "delHeader" /\ job'[t] = job[t]
    BY Went DEF DelDetails
<1>3. UNCHANGED <<headers, reversed, verify, faults>>
    BY DEF DelDetails, sigedin, env
<1>4. details' = {d \in details : d.factura # job[t].id}
    BY DEF DelDetails
<1>5. IdsUnicos' /\ MarcaRespaldada'
    BY <1>3 DEF IdsUnicos, MarcaRespaldada
<1>6. OneCleaner'
    BY <1>1, <1>2 DEF OneCleaner, Deleting
<1>7. CleanAt(t)'
    BY <1>2, <1>3, <1>4 DEF CleanAt, Deleting
<1>8. \A u \in Tasks \ {t} : CleanAt(u)'
    BY <1>1, <1>3, <1>4 DEF CleanAt
<1>9. DetalleCompleto'
    <2>1. ASSUME NEW h \in headers, h.id # job[t].id
          PROVE  \/ \E d \in details' : d.factura = h.id
                 \/ \E u \in Tasks : pc'[u] = "delHeader" /\ job'[u].id = h.id
                 \/ h.recibo \in reversed' /\ faults' > 0
        <3>1. (\E d \in details : d.factura = h.id) => \E d \in details' : d.factura = h.id
            BY <1>4, <2>1
        <3>2. (\E u \in Tasks : pc[u] = "delHeader" /\ job[u].id = h.id) =>
                 \E u \in Tasks : pc'[u] = "delHeader" /\ job'[u].id = h.id
            BY <1>1, <1>2
        <3> QED BY <1>3, <3>1, <3>2 DEF DetalleCompleto
    <2>2. \A d \in details' : \E h \in headers' : h.id = d.factura
        BY <1>3, <1>4 DEF DetalleCompleto
    <2> QED BY <1>2, <1>3, <2>1, <2>2 DEF DetalleCompleto
<1> QED BY <1>5, <1>6, <1>7, <1>8, <1>9

(* The header that a clean-up deletes is the one of its own invoice. *)
LEMMA OwnHeader ==
    ASSUME CleanBody, NEW t \in Tasks, pc[t] \in {"delDetails", "delHeader"},
           NEW h \in headers, h.id = job[t].id
    PROVE  h.recibo = job[t].inv
BY DEF CleanBody, CleanAt, IdsUnicos

LEMMA CleanHeader ==
    ASSUME Typed, CleanBody, NEW t \in Tasks, DelHeader(t)
    PROVE  CleanBody'
<1> USE DEF CleanBody, Others
<1>1. Others(t) /\ pc[t] = "delHeader" /\ pc'[t] \in {"idle", "next"}
    BY Returned DEF DelHeader
<1>2. UNCHANGED <<details, reversed, verify, faults>>
    BY DEF DelHeader, sigedin, env
<1>3. headers' = {h \in headers : h.id # job[t].id}
    BY DEF DelHeader
<1>4. \A h \in headers : h \notin headers' => h.recibo = job[t].inv
    BY <1>1, <1>3, OwnHeader
<1>5. job[t].inv \in reversed /\ \A d \in details : d.factura # job[t].id
    BY <1>1 DEF CleanAt, Deleting
<1>6. IdsUnicos'
    BY <1>3 DEF IdsUnicos
<1>7. OneCleaner'
    BY <1>1 DEF OneCleaner, Deleting
<1>8. CleanAt(t)'
    BY <1>1 DEF CleanAt, Deleting
<1>9. ASSUME NEW u \in Tasks \ {t} PROVE CleanAt(u)'
    <2>1. pc[u] \in {"delDetails", "delHeader"} => job[u].inv # job[t].inv
        BY <1>1 DEF OneCleaner, Deleting
    <2>2. pc[u] \in {"delDetails", "delHeader"} =>
              \E h \in headers' : h.id = job[u].id /\ h.recibo = job[u].inv
        BY <1>4, <2>1 DEF CleanAt
    <2>3. pc[u] = "mark" /\ job[u].inv \notin reversed =>
              \E h \in headers' : h.recibo = job[u].inv
        BY <1>4, <1>5 DEF CleanAt
    <2> QED BY <1>1, <1>2, <2>2, <2>3 DEF CleanAt
<1>10. DetalleCompleto'
    <2>1. ASSUME NEW h \in headers'
          PROVE  \/ \E d \in details' : d.factura = h.id
                 \/ \E u \in Tasks : pc'[u] = "delHeader" /\ job'[u].id = h.id
                 \/ h.recibo \in reversed' /\ faults' > 0
        <3>1. h \in headers /\ h.id # job[t].id
            BY <1>3
        <3> QED BY <1>1, <1>2, <3>1 DEF DetalleCompleto
    <2>2. \A d \in details' : \E h \in headers' : h.id = d.factura
        BY <1>2, <1>3, <1>5 DEF DetalleCompleto
    <2> QED BY <2>1, <2>2 DEF DetalleCompleto
<1>11. MarcaRespaldada'
    BY <1>2, <1>4, <1>5 DEF MarcaRespaldada
<1> QED BY <1>6, <1>7, <1>8, <1>9, <1>10, <1>11

LEMMA CleanTask ==
    ASSUME Typed, CleanBody, "delete" \in orden, NEW t \in Tasks, TaskStep(t)
    PROVE  CleanBody'
<1> USE DEF CleanAt
<1> DEFINE Marks == \A i \in Invoices : verify'[i] = "REGISTRADO" /\ i \notin reversed' =>
                        verify[i] = "REGISTRADO" \/ \E h \in headers : h.recibo = i
           Quiet == headers' = headers /\ details' = details
           Still == Quiet /\ UNCHANGED <<verify, reversed>>
<1>0. Others(t) /\ faults \in Nat
    BY OthersStand DEF Typed, TypeOK
<1>1. Still => Marks /\ reversed \subseteq reversed'
    OBVIOUS
<1>2. ASSUME Still, pc[t] # "delHeader", pc'[t] \notin Deleting \cup {"mark"}, faults > 0 => faults' > 0
      PROVE  CleanBody'
    BY <1>0, <1>1, <1>2, CleanQuiet DEF Deleting
<1>3. ASSUME Still, Return(t), pc[t] # "delHeader", faults' = faults PROVE CleanBody'
    BY <1>2, <1>3, Returned DEF Deleting
<1>4. CASE NextInvoice(t)
    <2>1. Still /\ pc[t] = "next" /\ faults' = faults
        BY <1>4 DEF NextInvoice, sigedin, ledger, env
    <2>2. pc'[t] = "lookup"
        BY <1>4, Began DEF NextInvoice, Typed, TypeOK
    <2> QED BY <1>2, <2>1, <2>2 DEF Deleting
<1>5. CASE LookUp(t)
    <2>1. Still /\ pc[t] = "lookup" /\ faults' = faults /\ job' = job
        BY <1>5 DEF LookUp, sigedin, ledger, env
    <2>2. CASE \E h \in headers : h.recibo = job[t].inv
        <3>1. pc'[t] = "mark"
            BY <1>5, <2>2, Went DEF LookUp
        <3> QED BY <1>0, <1>1, <2>1, <2>2, <3>1, CleanQuiet DEF Deleting
    <2>3. CASE ~ \E h \in headers : h.recibo = job[t].inv
        <3>1. pc'[t] = "tercero"
            BY <1>5, <2>3, Went DEF LookUp
        <3> QED BY <1>2, <2>1, <3>1 DEF Deleting
    <2> QED BY <2>2, <2>3
<1>6. CASE FindTercero(t) \/ CodTercero(t)
    <2>1. Still /\ pc[t] \in {"tercero", "codTer"} /\ faults' = faults
        BY <1>6 DEF FindTercero, CodTercero, sigedin, ledger, env
    <2>2. pc'[t] \in {"codTer", "pago"}
        BY <1>6, Went DEF FindTercero, CodTercero
    <2> QED BY <1>2, <2>1, <2>2 DEF Deleting
<1>7. CASE FindPago(t)
    <2>1. Still /\ pc[t] = "pago" /\ faults' = faults
        BY <1>7 DEF FindPago, sigedin, ledger, env
    <2>2. Return(t) \/ pc'[t] = "codFactura"
        BY <1>7, Went DEF FindPago
    <2> QED BY <1>2, <1>3, <2>1, <2>2 DEF Deleting
<1>8. CASE CodFactura(t) \/ CodDet(t)
    <2>1. Still /\ pc[t] \in {"codFactura", "codDet"} /\ faults' = faults
        BY <1>8 DEF CodFactura, CodDet, sigedin, ledger, env
    <2>2. pc'[t] \in {"codDet", "commit"}
        BY <1>8, Went DEF CodFactura, CodDet
    <2> QED BY <1>2, <2>1, <2>2 DEF Deleting
<1>9. CASE CommitSys(t)
    <2>1. /\ pc[t] = "commit" /\ ~ Conflict(t)
          /\ headers' = headers \cup {NewHeader(t)}
          /\ details' = details \cup {[id |-> job[t].det, factura |-> job[t].id]}
          /\ UNCHANGED <<reversed, verify>> /\ faults' = faults
          /\ pc'[t] = "mark" /\ job'[t] = job[t]
        BY <1>9, Went DEF CommitSys, sigedin, env
    <2> QED BY <1>0, <2>1, CleanCommit
<1>10. CASE CommitLost(t)
    <2>1. /\ pc[t] = "commit" /\ ~ Conflict(t)
          /\ headers' = headers \cup {NewHeader(t)}
          /\ details' = details \cup {[id |-> job[t].det, factura |-> job[t].id]}
          /\ UNCHANGED <<reversed, verify>> /\ faults' = faults + 1
          /\ pc'[t] \in {"idle", "next"}
        BY <1>10, Returned DEF CommitLost, sigedin, env
    <2> QED BY <1>0, <2>1, CleanCommit
<1>11. CASE CommitConflict(t) \/ Reject(t)
    <2>1. Still /\ Return(t) /\ pc[t] # "delHeader" /\ faults' = faults
        BY <1>11 DEF CommitConflict, Reject, sigedin, ledger, env
    <2> QED BY <1>3, <2>1
<1>12. CASE Mark(t)
    <2>1. /\ Quiet /\ UNCHANGED <<reversed, faults>> /\ Return(t)
          /\ pc[t] = "mark" /\ verify' = [verify EXCEPT ![job[t].inv] = "REGISTRADO"]
        BY <1>12 DEF Mark, sigedin, ledger, env
    <2>2. Marks
        BY <2>1 DEF CleanBody, Typed, TypeOK
    <2>3. pc'[t] \in {"idle", "next"}
        BY <2>1, Returned
    <2> QED BY <1>0, <2>1, <2>2, <2>3, CleanQuiet DEF Deleting
<1>13. CASE DelFind(t)
    <2>1. Still /\ pc[t] = "delFind" /\ faults' = faults
        BY <1>13 DEF DelFind, sigedin, ledger, env
    <2>2. CASE Return(t)
        BY <1>3, <2>1, <2>2
    <2>3. ASSUME NEW h \in headers, h.recibo = job[t].inv, job' = [job EXCEPT ![t].id = h.id],
                 Goto(t, "delDetails")
          PROVE  CleanBody'
        <3>1. pc'[t] = "delDetails" /\ job'[t].id = h.id /\ job'[t].inv = job[t].inv
            BY <2>3, Went DEF Typed, TypeOK
        <3>2. job[t].inv \in reversed
            BY <2>1 DEF CleanBody, Deleting
        <3> QED BY <1>0, <1>1, <2>1, <2>3, <3>1, <3>2, CleanQuiet DEF Deleting
    <2> QED BY <1>13, <2>2, <2>3 DEF DelFind
<1>14. CASE DelDetails(t)
    BY <1>14, CleanDetails
<1>15. CASE DelHeader(t)
    BY <1>15, CleanHeader
<1>16. CASE Fail(t)
    <2>1. Still /\ pc'[t] \in {"idle", "next"} /\ faults' = faults + 1
        BY <1>16, Returned DEF Fail, sigedin, ledger, env
    <2> QED BY <1>0, <1>1, <2>1, CleanQuiet DEF Deleting
<1>17. CASE StartBulk(t)
    <2>1. Still /\ pc[t] = "idle" /\ pc' = [pc EXCEPT ![t] = "next"] /\ faults' = faults
        BY <1>17 DEF StartBulk, sigedin, ledger, env
    <2>2. pc'[t] = "next"
        BY <2>1 DEF Typed, TypeOK
    <2> QED BY <1>2, <2>1, <2>2 DEF Deleting
<1>18. ASSUME NEW i \in Invoices, Reverse(i, t) PROVE CleanBody'
    <2>1. /\ Quiet /\ reversed' = reversed \cup {i} /\ faults' = faults
          /\ verify' = [verify EXCEPT ![i] = "PENDIENTE"]
          /\ pc[t] = "idle" /\ ~ DeletingOn(i)
        BY <1>18 DEF Reverse, DeleteAdmitted, ledger
    <2>2. pc'[t] = "delFind" /\ job'[t].inv = i
        BY <1>18 DEF Reverse, Blank, Typed, TypeOK
    <2>3. Marks
        BY <2>1 DEF Typed, TypeOK
    <2> QED BY <1>0, <2>1, <2>2, <2>3, CleanQuiet DEF Deleting
<1>19. ASSUME NEW i \in Invoices, StartOne(t, i) PROVE CleanBody'
    <2>1. Still /\ pc[t] = "idle" /\ faults' = faults /\ pc'[t] = "lookup"
        BY <1>19, Began DEF StartOne, sigedin, ledger, env
    <2> QED BY <1>2, <2>1 DEF Deleting
<1> QED BY <1>4, <1>5, <1>6, <1>7, <1>8, <1>9, <1>10, <1>11, <1>12, <1>13, <1>14, <1>15,
           <1>16, <1>17, <1>18, <1>19 DEF TaskStep, Step

LEMMA CleanStep == CleanInv /\ [Next]_vars => CleanInv'
<1> SUFFICES ASSUME CleanInv, [Next]_vars, "delete" \in orden PROVE CleanBody'
    BY TypedStep, OrdenStands DEF CleanInv
<1> USE DEF CleanInv
<1>1. ASSUME UNCHANGED <<headers, details, reversed, verify, pc, job>>, faults > 0 => faults' > 0
      PROVE  CleanBody'
    BY <1>1 DEF CleanBody, IdsUnicos, OneCleaner, CleanAt, DetalleCompleto, MarcaRespaldada
<1>2. CASE NewYear \/ StartJob \/ UNCHANGED vars
    BY <1>1, <1>2 DEF NewYear, StartJob, vars, sigedin, ledger, env
<1>3. CASE StopJob
    BY <1>1, <1>3 DEF StopJob, sigedin, ledger, env, Typed, TypeOK
<1>4. ASSUME NEW i \in Invoices, Pay(i) PROVE CleanBody'
    BY <1>1, <1>4 DEF Pay, ledger
<1>5. CASE Crash
    <2>1. /\ UNCHANGED <<headers, details, reversed, verify>> /\ faults' > 0
          /\ \A t \in Tasks : pc'[t] = "idle"
        BY <1>5 DEF Crash, sigedin, ledger, env, Typed, TypeOK
    <2>2. ASSUME NEW h \in headers, NEW u \in Tasks, pc[u] = "delHeader", job[u].id = h.id
          PROVE  h.recibo \in reversed
        BY <2>2, OwnHeader DEF CleanBody, CleanAt, Deleting
    <2>3. DetalleCompleto'
        BY <2>1, <2>2 DEF CleanBody, DetalleCompleto
    <2> QED BY <2>1, <2>3 DEF CleanBody, IdsUnicos, OneCleaner, CleanAt, MarcaRespaldada, Deleting
<1>6. ASSUME NEW t \in Tasks, TaskStep(t) PROVE CleanBody'
    BY <1>6, CleanTask
<1> QED BY <1>2, <1>3, <1>4, <1>5, <1>6 DEF Next, TaskStep

LEMMA CleanAlways == Spec => []CleanInv
<1>1. Init => CleanInv
    BY InitTyped DEF Init, CleanInv, CleanBody, IdsUnicos, OneCleaner, CleanAt, Deleting,
                     DetalleCompleto, MarcaRespaldada
<1> QED BY <1>1, CleanStep, PTL DEF Spec

(* While the clean-ups of one invoice do not overlap, an invoice that was  *)
(* never reversed and is marked as registered is in the ledger.            *)
THEOREM MarcaProved == Spec => []("delete" \in orden => MarcaRespaldada)
BY CleanAlways, PTL DEF CleanInv, CleanBody

(* While the clean-ups of one invoice do not overlap, header and details   *)
(* stand together, but for the clean-ups that are under way or were cut.   *)
THEOREM DetalleProved == Spec => []("delete" \in orden => DetalleCompleto)
BY CleanAlways, PTL DEF CleanInv, CleanBody

(* A clean-up never deletes the header of another invoice. *)
THEOREM BorraProved == Spec => BorraLoSuyo
<1> DEFINE Suyo == \A h \in headers \ headers' :
                      \/ "delete" \notin orden
                      \/ \E t \in Tasks : pc[t] = "delHeader" /\ job[t].inv = h.recibo
<1>1. CleanInv /\ [Next]_vars => [Suyo]_vars
    <2> SUFFICES ASSUME CleanInv, Next, "delete" \in orden, NEW h \in headers \ headers'
                 PROVE  \E t \in Tasks : pc[t] = "delHeader" /\ job[t].inv = h.recibo
        OBVIOUS
    <2>1. PICK t \in Tasks : DelHeader(t)
        BY DEF Next, NewYear, Crash, StopJob, StartJob, Pay, Step, NextInvoice, LookUp, FindTercero,
               CodTercero, FindPago, CodFactura, CodDet, CommitSys, CommitConflict, Mark, Reject, DelFind, DelDetails,
               Fail, CommitLost, StartBulk, Reverse, StartOne, ledger
    <2>2. pc[t] = "delHeader" /\ h \in headers /\ h.id = job[t].id
        BY <2>1 DEF DelHeader
    <2> QED BY <2>2, OwnHeader DEF CleanInv
<1> QED BY <1>1, CleanAlways, PTL DEF Spec, BorraLoSuyo

-----------------------------------------------------------------------------
(* The ledger mirrors the payments, with the calls on one invoice apart. *)

Apart == orden = {"sync", "delete", "quiet"}

OneTask == \A t, u \in Tasks :
    pc[t] \in AtWork /\ pc[u] \in AtWork /\ job[t].inv = job[u].inv => t = u

(* A registration that found no header is alone with that fact, and with   *)
(* the payment it read; a clean-up works on an invoice without the mark.   *)
BookAt(t) ==
    /\ pc[t] \in {"tercero", "codTer", "pago"} \cup Billing => \A h \in headers : h.recibo # job[t].inv
    /\ pc[t] = "mark" => \E h \in headers : h.recibo = job[t].inv
    /\ pc[t] \in Billing => job[t].pago = pago[job[t].inv]
    /\ pc[t] \in Deleting => verify[job[t].inv] = "PENDIENTE"

OneHeader == \A g, h \in headers : g.recibo = h.recibo => g = h
MarkShows == \A i \in Invoices : verify[i] = "REGISTRADO" => \E h \in headers : h.recibo = i
InForce   == faults = 0 => \A h \in headers : h.pago = pago[h.recibo] \/ DeletingOn(h.recibo)

BookBody == OneTask /\ OneHeader /\ MarkShows /\ InForce /\ \A t \in Tasks : BookAt(t)
BookInv  == TerceroInv /\ CleanInv /\ (Apart => BookBody)

(* A step that touches neither headers nor payments nor marks. *)
LEMMA BookQuiet ==
    ASSUME BookBody, NEW t \in Tasks, Others(t), UNCHANGED <<headers, pago, verify>>,
           faults' = 0 => faults = 0,
           BookAt(t)',
           pc'[t] \in AtWork => \/ pc[t] \in AtWork /\ job'[t].inv = job[t].inv
                                \/ ~ SyncingOn(job'[t].inv) /\ ~ DeletingOn(job'[t].inv),
           pc[t] \in Deleting => \/ pc'[t] \in Deleting /\ job'[t].inv = job[t].inv
                                 \/ \A h \in headers : h.recibo # job[t].inv
                                 \/ faults' # 0
    PROVE  BookBody'
<1> USE DEF BookBody, Others
<1>1. OneTask'
    BY DEF OneTask, SyncingOn, DeletingOn, AtWork
<1>2. OneHeader' /\ MarkShows'
    BY DEF OneHeader, MarkShows
<1>3. \A u \in Tasks : BookAt(u)'
    BY DEF BookAt
<1>4. InForce'
    <2> SUFFICES ASSUME faults' = 0, NEW h \in headers, h.pago # pago[h.recibo]
                 PROVE  \E v \in Tasks : pc'[v] \in Deleting /\ job'[v].inv = h.recibo
        BY DEF InForce, DeletingOn
    <2>1. PICK u \in Tasks : pc[u] \in Deleting /\ job[u].inv = h.recibo
        BY DEF InForce, DeletingOn
    <2> QED BY <2>1
<1> QED BY <1>1, <1>2, <1>3, <1>4

LEMMA BookCommit ==
    ASSUME BookBody, NEW t \in Tasks, Others(t), pc[t] = "commit",
           headers' = headers \cup {NewHeader(t)}, UNCHANGED <<pago, verify>>,
           faults' = 0 => faults = 0,
           pc'[t] \in {"idle", "next"} \/ (pc'[t] = "mark" /\ job'[t] = job[t])
    PROVE  BookBody'
<1> USE DEF BookBody, Others
<1> DEFINE n == NewHeader(t)
<1>1. n.recibo = job[t].inv /\ n.pago = pago[job[t].inv] /\ \A h \in headers : h.recibo # job[t].inv
    BY DEF NewHeader, BookAt, Billing
<1>2. n \in headers' /\ headers \subseteq headers' /\ \A h \in headers' : h \in headers \/ h = n
    OBVIOUS
<1> HIDE DEF n
<1>3. OneTask'
    BY DEF OneTask, AtWork, Syncing, Deleting
<1>4. OneHeader' /\ MarkShows'
    BY <1>1, <1>2 DEF OneHeader, MarkShows
<1>5. BookAt(t)'
    BY <1>1, <1>2 DEF BookAt, Billing, Deleting
<1>6. ASSUME NEW u \in Tasks \ {t} PROVE BookAt(u)'
    <2>1. pc[u] \in AtWork => job[u].inv # job[t].inv
        BY DEF OneTask, AtWork, Syncing
    <2> QED BY <1>1, <1>2, <2>1 DEF BookAt, Billing, AtWork, Syncing
<1>7. InForce'
    <2> SUFFICES ASSUME faults' = 0, NEW h \in headers', h.pago # pago[h.recibo]
                 PROVE  \E v \in Tasks : pc'[v] \in Deleting /\ job'[v].inv = h.recibo
        BY DEF InForce, DeletingOn
    <2>1. PICK u \in Tasks : pc[u] \in Deleting /\ job[u].inv = h.recibo
        BY <1>1, <1>2 DEF InForce, DeletingOn
    <2> QED BY <2>1 DEF Deleting
<1> QED BY <1>3, <1>4, <1>5, <1>6, <1>7

LEMMA BookDelete ==
    ASSUME Typed, CleanBody, BookBody, NEW t \in Tasks, DelHeader(t)
    PROVE  BookBody'
<1> USE DEF BookBody, Others
<1>1. Others(t) /\ pc[t] = "delHeader" /\ pc'[t] \in {"idle", "next"}
    BY Returned DEF DelHeader
<1>2. UNCHANGED <<pago, verify, faults>> /\ headers' = {h \in headers : h.id # job[t].id}
    BY DEF DelHeader, sigedin
<1>3. PICK g \in headers : g.id = job[t].id /\ g.recibo = job[t].inv
    BY <1>1 DEF CleanBody, CleanAt
<1>4. \A h \in headers' : h \in headers /\ h.recibo # job[t].inv
    BY <1>2, <1>3 DEF OneHeader
<1>5. \A h \in headers : h.recibo # job[t].inv => h \in headers'
    BY <1>1, <1>2, OwnHeader
<1>6. verify[job[t].inv] = "PENDIENTE"
    BY <1>1 DEF BookAt, Billing, Deleting
<1>7. OneTask'
    BY <1>1 DEF OneTask, AtWork, Syncing, Deleting
<1>8. OneHeader' /\ MarkShows'
    BY <1>2, <1>4, <1>5, <1>6 DEF OneHeader, MarkShows
<1>9. BookAt(t)'
    BY <1>1 DEF BookAt, Billing, Deleting
<1>10. ASSUME NEW u \in Tasks \ {t} PROVE BookAt(u)'
    <2>1. pc[u] \in AtWork => job[u].inv # job[t].inv
        BY <1>1 DEF OneTask, AtWork, Deleting
    <2> QED BY <1>1, <1>2, <1>4, <1>5, <2>1 DEF BookAt, Billing, AtWork, Syncing
<1>11. InForce'
    <2> SUFFICES ASSUME faults' = 0, NEW h \in headers', h.pago # pago[h.recibo]
                 PROVE  \E v \in Tasks : pc'[v] \in Deleting /\ job'[v].inv = h.recibo
        BY <1>2 DEF InForce, DeletingOn
    <2>1. PICK u \in Tasks : pc[u] \in Deleting /\ job[u].inv = h.recibo
        BY <1>2, <1>4 DEF InForce, DeletingOn
    <2>2. u # t
        BY <1>4, <2>1
    <2> QED BY <1>1, <2>1, <2>2
<1> QED BY <1>7, <1>8, <1>9, <1>10, <1>11

LEMMA BookMark ==
    ASSUME Typed, BookBody, NEW t \in Tasks, Mark(t)
    PROVE  BookBody'
<1> USE DEF BookBody, Others
<1>1. Others(t) /\ pc[t] = "mark" /\ pc'[t] \in {"idle", "next"}
    BY Returned DEF Mark
<1>2. UNCHANGED <<pago, headers, faults>> /\ verify' = [verify EXCEPT ![job[t].inv] = "REGISTRADO"]
    BY DEF Mark, ledger
<1>3. OneTask'
    BY <1>1 DEF OneTask, AtWork, Syncing, Deleting
<1>4. OneHeader' /\ MarkShows'
    BY <1>1, <1>2 DEF OneHeader, MarkShows, BookAt, Billing, Typed, TypeOK
<1>5. BookAt(t)'
    BY <1>1 DEF BookAt, Billing, Deleting
<1>6. ASSUME NEW u \in Tasks \ {t} PROVE BookAt(u)'
    <2>1. pc[u] \in AtWork => job[u].inv # job[t].inv
        BY <1>1 DEF OneTask, AtWork, Syncing
    <2>2. pc[u] \in Deleting => verify'[job[u].inv] = verify[job[u].inv]
        BY <1>2, <2>1 DEF Typed, TypeOK, WorksInv, AtWork
    <2> QED BY <1>1, <1>2, <2>2 DEF BookAt
<1>7. InForce'
    <2> SUFFICES ASSUME faults' = 0, NEW h \in headers', h.pago # pago[h.recibo]
                 PROVE  \E v \in Tasks : pc'[v] \in Deleting /\ job'[v].inv = h.recibo
        BY <1>2 DEF InForce, DeletingOn
    <2>1. PICK u \in Tasks : pc[u] \in Deleting /\ job[u].inv = h.recibo
        BY <1>2 DEF InForce, DeletingOn
    <2> QED BY <1>1, <2>1 DEF Deleting
<1> QED BY <1>3, <1>4, <1>5, <1>6, <1>7

LEMMA BookReverse ==
    ASSUME Typed, Apart, BookBody, NEW t \in Tasks, NEW i \in Invoices, Reverse(i, t)
    PROVE  BookBody'
<1> USE DEF BookBody, Others
<1>1. /\ pc[t] = "idle" /\ ~ SyncingOn(i) /\ ~ DeletingOn(i)
      /\ pago' = [pago EXCEPT ![i] = 0] /\ verify' = [verify EXCEPT ![i] = "PENDIENTE"]
      /\ UNCHANGED <<headers, faults>>
    BY DEF Reverse, DeleteAdmitted, Apart, ledger
<1>2. Others(t) /\ pc'[t] = "delFind" /\ job'[t].inv = i
    BY DEF Reverse, Blank, Typed, TypeOK
<1>3. OneTask'
    BY <1>1, <1>2 DEF OneTask, AtWork, SyncingOn, DeletingOn
<1>4. OneHeader' /\ MarkShows'
    BY <1>1 DEF OneHeader, MarkShows, Typed, TypeOK
<1>5. BookAt(t)'
    BY <1>1, <1>2 DEF BookAt, Billing, Typed, TypeOK
<1>6. ASSUME NEW u \in Tasks \ {t} PROVE BookAt(u)'
    <2>1. pc[u] \in AtWork => job[u].inv # i
        BY <1>1 DEF SyncingOn, DeletingOn, AtWork
    <2>2. pc[u] \in AtWork => /\ verify'[job[u].inv] = verify[job[u].inv]
                              /\ pago'[job[u].inv] = pago[job[u].inv]
        BY <1>1, <2>1 DEF Typed, TypeOK, WorksInv
    <2> QED BY <1>1, <1>2, <2>2 DEF BookAt, Billing, AtWork, Syncing
<1>7. InForce'
    <2> SUFFICES ASSUME faults' = 0, NEW h \in headers', h.pago # pago'[h.recibo]
                 PROVE  \E v \in Tasks : pc'[v] \in Deleting /\ job'[v].inv = h.recibo
        BY <1>1 DEF InForce, DeletingOn
    <2>1. CASE h.recibo = i
        BY <1>2, <2>1 DEF Deleting
    <2>2. CASE h.recibo # i
        <3>1. h.pago # pago[h.recibo] /\ h \in headers
            BY <1>1, <2>2 DEF Typed, TypeOK
        <3>2. PICK u \in Tasks : pc[u] \in Deleting /\ job[u].inv = h.recibo
            BY <1>1, <3>1 DEF InForce, DeletingOn
        <3> QED BY <1>1, <1>2, <3>2 DEF Deleting
    <2> QED BY <2>1, <2>2
<1> QED BY <1>3, <1>4, <1>5, <1>6, <1>7

LEMMA BookPay ==
    ASSUME TerceroInv, Apart, BookBody, NEW i \in Invoices, Pay(i)
    PROVE  BookBody'
<1> USE DEF BookBody
<1>1. /\ pago[i] = 0 /\ ~ DeletingOn(i) /\ pago' = [pago EXCEPT ![i] = pagos + 1]
      /\ UNCHANGED <<headers, verify, pc, job, faults>>
    BY DEF Pay, Apart, ledger
<1>2. OneTask' /\ OneHeader' /\ MarkShows'
    BY <1>1 DEF OneTask, OneHeader, MarkShows
<1>3. ASSUME NEW u \in Tasks PROVE BookAt(u)'
    <2>1. pc[u] \in Billing => job[u].inv # i /\ job[u].inv \in Invoices
        BY <1>1 DEF BookAt, TerceroInv, Billable, BillableAt, Billing, Typed, WorksInv, AtWork, Syncing
    <2>2. pc[u] \in Billing => pago'[job[u].inv] = pago[job[u].inv]
        BY <1>1, <2>1 DEF TerceroInv, Typed, TypeOK
    <2> QED BY <1>1, <2>2 DEF BookAt
<1>4. InForce'
    <2> SUFFICES ASSUME faults' = 0, NEW h \in headers, h.pago # pago'[h.recibo]
                 PROVE  DeletingOn(h.recibo)
        BY <1>1 DEF InForce, DeletingOn
    <2>1. h.pago # 0 /\ h.recibo \in Invoices
        BY DEF TerceroInv, Facturado, Typed, TypeOK
    <2>2. h.recibo # i => pago'[h.recibo] = pago[h.recibo]
        BY <1>1, <2>1 DEF TerceroInv, Typed, TypeOK
    <2>3. h.pago = pago[h.recibo] \/ DeletingOn(h.recibo)
        BY <1>1 DEF InForce
    <2> QED BY <1>1, <2>1, <2>2, <2>3
<1> QED BY <1>2, <1>3, <1>4

LEMMA BookTask ==
    ASSUME TerceroInv, CleanBody, Apart, BookBody, NEW t \in Tasks, TaskStep(t)
    PROVE  BookBody'
<1> USE DEF TerceroInv
<1> DEFINE Still == UNCHANGED <<headers, pago, verify>>
<1>0. Others(t) /\ faults \in Nat
    BY OthersStand DEF Typed, TypeOK
<1>1. ASSUME Still, faults' = 0 => faults = 0, Return(t),
             pc[t] \in Deleting => (\A h \in headers : h.recibo # job[t].inv) \/ faults' # 0
      PROVE  BookBody'
    <2>1. pc'[t] \in {"idle", "next"}
        BY <1>1, Returned
    <2> QED BY <1>0, <1>1, <2>1, BookQuiet DEF BookAt, Billing, AtWork, Syncing, Deleting
<1>2. ASSUME NEW i \in Invoices, Begin(t, i), Still, faults' = faults, pc[t] \notin AtWork
      PROVE  BookBody'
    <2>1. pc'[t] = "lookup" /\ job'[t].inv = i
        <3>1. pc'[t] = "lookup" /\ job'[t] = Blank(i)
            BY <1>2, Began
        <3> QED BY <3>1 DEF Blank
    <2>2. ~ SyncingOn(i) /\ ~ DeletingOn(i)
        BY <1>2 DEF Begin, SyncAdmitted, Apart
    <2>3. BookAt(t)'
        BY <2>1 DEF BookAt, Billing, Deleting
    <2>4. pc[t] \notin Deleting
        BY <1>2 DEF AtWork
    <2> QED BY <1>0, <1>2, <2>1, <2>2, <2>3, <2>4, BookQuiet
<1>3. CASE NextInvoice(t)
    <2>1. Still /\ faults' = faults /\ pc[t] \notin AtWork
        BY <1>3 DEF NextInvoice, sigedin, ledger, AtWork, Syncing, Deleting
    <2> QED BY <1>2, <1>3, <2>1 DEF NextInvoice, Typed, TypeOK
<1>4. CASE LookUp(t)
    <2>1. Still /\ faults' = faults /\ job' = job /\ pc[t] = "lookup"
        BY <1>4 DEF LookUp, sigedin, ledger
    <2>2. CASE \E h \in headers : h.recibo = job[t].inv
        <3>1. pc'[t] = "mark"
            BY <1>4, <2>2, Went DEF LookUp
        <3> QED BY <1>0, <2>1, <2>2, <3>1, BookQuiet DEF BookAt, Billing, AtWork, Syncing, Deleting
    <2>3. CASE ~ \E h \in headers : h.recibo = job[t].inv
        <3>1. pc'[t] = "tercero"
            BY <1>4, <2>3, Went DEF LookUp
        <3> QED BY <1>0, <2>1, <2>3, <3>1, BookQuiet DEF BookAt, Billing, AtWork, Syncing, Deleting
    <2> QED BY <2>2, <2>3
<1>5. CASE FindTercero(t) \/ CodTercero(t)
    <2>1. Still /\ faults' = faults /\ pc[t] \in {"tercero", "codTer"}
        BY <1>5 DEF FindTercero, CodTercero, sigedin, ledger
    <2>2. pc'[t] \in {"codTer", "pago"} /\ job'[t].inv = job[t].inv
        BY <1>5, Went DEF FindTercero, CodTercero, Typed, TypeOK
    <2>3. BookAt(t)
        BY DEF BookBody
    <2> QED BY <1>0, <2>1, <2>2, <2>3, BookQuiet DEF BookAt, Billing, AtWork, Syncing, Deleting
<1>6. CASE FindPago(t)
    <2>1. Still /\ faults' = faults /\ pc[t] = "pago" /\ BookAt(t)
        BY <1>6 DEF FindPago, sigedin, ledger, BookBody
    <2>2. CASE Return(t)
        BY <1>1, <2>1, <2>2 DEF Deleting
    <2>3. CASE Goto(t, "codFactura") /\ job' = [job EXCEPT ![t].pago = pago[job[t].inv]]
        <3>1. pc'[t] = "codFactura" /\ job'[t].inv = job[t].inv /\ job'[t].pago = pago[job[t].inv]
            BY <2>3, Went DEF Typed, TypeOK
        <3> QED BY <1>0, <2>1, <3>1, BookQuiet DEF BookAt, Billing, AtWork, Syncing, Deleting
    <2> QED BY <1>6, <2>2, <2>3 DEF FindPago
<1>7. CASE CodFactura(t) \/ CodDet(t)
    <2>1. Still /\ faults' = faults /\ pc[t] \in {"codFactura", "codDet"} /\ BookAt(t)
        BY <1>7 DEF CodFactura, CodDet, sigedin, ledger, BookBody
    <2>2. pc'[t] \in {"codDet", "commit"}
        BY <1>7, Went DEF CodFactura, CodDet
    <2>3. job'[t].inv = job[t].inv /\ job'[t].pago = job[t].pago
        BY <1>7 DEF CodFactura, CodDet, Typed, TypeOK
    <2> QED BY <1>0, <2>1, <2>2, <2>3, BookQuiet DEF BookAt, Billing, AtWork, Syncing, Deleting
<1>8. CASE CommitSys(t)
    <2>1. /\ pc[t] = "commit" /\ headers' = headers \cup {NewHeader(t)}
          /\ UNCHANGED <<pago, verify, faults>> /\ pc'[t] = "mark" /\ job'[t] = job[t]
        BY <1>8, Went DEF CommitSys, sigedin
    <2> QED BY <1>0, <2>1, BookCommit
<1>9. CASE CommitLost(t)
    <2>1. /\ pc[t] = "commit" /\ headers' = headers \cup {NewHeader(t)}
          /\ UNCHANGED <<pago, verify>> /\ pc'[t] \in {"idle", "next"} /\ faults' = faults + 1
        BY <1>9, Returned DEF CommitLost, sigedin
    <2> QED BY <1>0, <2>1, BookCommit
<1>10. CASE CommitConflict(t) \/ Reject(t)
    <2>1. Still /\ faults' = faults /\ Return(t) /\ pc[t] \notin Deleting
        BY <1>10 DEF CommitConflict, Reject, sigedin, ledger, Deleting
    <2> QED BY <1>1, <2>1
<1>11. CASE Mark(t)
    BY <1>11, BookMark
<1>12. CASE DelFind(t)
    <2>1. Still /\ faults' = faults /\ pc[t] = "delFind" /\ BookAt(t)
        BY <1>12 DEF DelFind, sigedin, ledger, BookBody
    <2>2. CASE Return(t) /\ ~ \E h \in headers : h.recibo = job[t].inv
        BY <1>1, <2>1, <2>2
    <2>3. ASSUME NEW h \in headers, Goto(t, "delDetails"), job' = [job EXCEPT ![t].id = h.id]
          PROVE  BookBody'
        <3>1. pc'[t] = "delDetails" /\ job'[t].inv = job[t].inv
            BY <2>3, Went DEF Typed, TypeOK
        <3> QED BY <1>0, <2>1, <3>1, BookQuiet DEF BookAt, Billing, AtWork, Deleting
    <2> QED BY <1>12, <2>2, <2>3 DEF DelFind
<1>13. CASE DelDetails(t)
    <2>1. Still /\ faults' = faults /\ pc[t] = "delDetails" /\ pc'[t] = "delHeader"
          /\ job' = job /\ BookAt(t)
        BY <1>13, Went DEF DelDetails, sigedin, BookBody
    <2> QED BY <1>0, <2>1, BookQuiet DEF BookAt, Billing, AtWork, Deleting
<1>14. CASE DelHeader(t)
    BY <1>14, BookDelete
<1>15. CASE Fail(t)
    <2>1. Still /\ faults' = faults + 1 /\ Return(t)
        BY <1>15 DEF Fail, sigedin, ledger
    <2> QED BY <1>0, <1>1, <2>1
<1>16. CASE StartBulk(t)
    <2>1. /\ Still /\ faults' = faults
          /\ pc[t] = "idle" /\ pc' = [pc EXCEPT ![t] = "next"]
        BY <1>16 DEF StartBulk, sigedin, ledger
    <2>2. pc'[t] = "next"
        BY <2>1 DEF Typed, TypeOK
    <2> QED BY <1>0, <2>1, <2>2, BookQuiet DEF BookAt, Billing, AtWork, Syncing, Deleting
<1>17. ASSUME NEW i \in Invoices, Reverse(i, t) PROVE BookBody'
    BY <1>17, BookReverse
<1>18. ASSUME NEW i \in Invoices, StartOne(t, i) PROVE BookBody'
    <2>1. Still /\ faults' = faults /\ pc[t] \notin AtWork /\ Begin(t, i)
        BY <1>18 DEF StartOne, sigedin, ledger, AtWork, Syncing, Deleting
    <2> QED BY <1>2, <2>1
<1> QED BY <1>3, <1>4, <1>5, <1>6, <1>7, <1>8, <1>9, <1>10, <1>11, <1>12, <1>13, <1>14, <1>15,
           <1>16, <1>17, <1>18 DEF TaskStep, Step

LEMMA BookStep == BookInv /\ [Next]_vars => BookInv'
<1> SUFFICES ASSUME BookInv, [Next]_vars, Apart, CleanBody PROVE BookBody'
    BY TerceroStep, CleanStep, OrdenStands DEF BookInv, CleanInv, Apart
<1> USE DEF BookInv, TerceroInv
<1>1. ASSUME UNCHANGED <<headers, pago, verify, pc, job>>, faults' = 0 => faults = 0
      PROVE  BookBody'
    BY <1>1 DEF BookBody, OneTask, OneHeader, MarkShows, InForce, DeletingOn, BookAt
<1>2. CASE NewYear \/ StartJob \/ UNCHANGED vars
    BY <1>1, <1>2 DEF NewYear, StartJob, vars, sigedin, ledger
<1>3. CASE StopJob
    BY <1>1, <1>3 DEF StopJob, sigedin, ledger, Typed, TypeOK
<1>4. ASSUME NEW i \in Invoices, Pay(i) PROVE BookBody'
    BY <1>4, BookPay
<1>5. CASE Crash
    <2>1. /\ UNCHANGED <<headers, pago, verify>> /\ faults' # 0
          /\ \A t \in Tasks : pc'[t] = "idle"
        BY <1>5 DEF Crash, sigedin, ledger, Typed, TypeOK
    <2> QED BY <2>1 DEF BookBody, OneTask, OneHeader, MarkShows, InForce, BookAt, Billing, AtWork, Syncing, Deleting
<1>6. ASSUME NEW t \in Tasks, TaskStep(t) PROVE BookBody'
    BY <1>6, BookTask
<1> QED BY <1>2, <1>3, <1>4, <1>5, <1>6 DEF Next, TaskStep

LEMMA InitBook == Init => BookInv
<1> SUFFICES ASSUME Init PROVE BookInv
    OBVIOUS
<1>1. TerceroInv
    BY InitTercero
<1>2. CleanInv
    BY InitTyped DEF Init, CleanInv, CleanBody, IdsUnicos, OneCleaner, CleanAt, Deleting,
                     DetalleCompleto, MarcaRespaldada
<1>3. BookBody
    BY DEF Init, BookBody, OneTask, OneHeader, MarkShows, InForce, BookAt, Billing, AtWork, Syncing, Deleting
<1> QED BY <1>1, <1>2, <1>3 DEF BookInv

LEMMA BookExact == BookInv => LibroExacto
BY DEF BookInv, Apart, BookBody, OneHeader, MarkShows, InForce, LibroExacto

(* With the calls on one invoice kept apart, an invoice has one header at  *)
(* most, a mark always has one, and without faults a header records the    *)
(* payment in force or its clean-up is running.                            *)
THEOREM LibroProved == Spec => []LibroExacto
BY InitBook, BookExact, BookStep, PTL DEF Spec
=============================================================================
