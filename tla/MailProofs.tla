----------------------------- MODULE MailProofs -----------------------------
(* Theorems about ReceiptMail, for every value of its constants. *)
EXTENDS ReceiptMail, TLAPS

(* What a task has in hand: the invoice it is at, and its batch. *)
Works(t) == {f \in Facturas : pc[t] # "idle" /\ f \in lote[t] \cup {obj[t]}}

(* Only a job that runs has a batch, and it takes from it what it is at.   *)
BatchInv == \A t \in Tareas : /\ obj[t] \notin lote[t]
                              /\ pc[t] = "idle" \/ tipo[t] # "job" => lote[t] = {}

(* A mail went out before any mark is under way, or set. *)
MarkInv == \A f \in Facturas : f \in marcas \/ marca[f] = "ENVIADO" => enviada[f] # 0

(* Payments are numbered from 1, and so is the one a receipt shows. *)
NumberInv == /\ \A f \in Facturas : pago[f] # SinPago => veces[f] # 0
             /\ \A t \in Tareas : pc[t] = "envia" => rinde[t] # 0

(* A mail that is ready has its payment. *)
ReadyInv == aparte => \A t \in Tareas : pc[t] = "envia" => pago[obj[t]] # SinPago

(* An invoice is with one task, or its mark is under way. *)
AloneInv == aparte =>
    /\ \A t, u \in Tareas : t # u => Works(t) \cap Works(u) = {}
    /\ \A t \in Tareas : Works(t) \cap marcas = {}

(* What a handler or a job has in hand got no receipt; what got one got    *)
(* one, and the job does not pick it up again.                             *)
OnceInv == aparte /\ fallas = 0 =>
    /\ \A t \in Tareas : tipo[t] \in {"pago", "job"} => \A f \in Works(t) : recibos[f] = 0
    /\ \A f \in Facturas : \/ recibos[f] = 0
                           \/ /\ recibos[f] = 1
                              /\ \/ pago[f] = SinPago \/ marca[f] = "ENVIADO"
                                 \/ f \in marcas

MailInv == TypeOK /\ BatchInv /\ MarkInv /\ NumberInv /\ ReadyInv /\ AloneInv /\ OnceInv

-----------------------------------------------------------------------------
LEMMA MinOfTwo ==
    ASSUME NEW a \in Int, NEW b \in Int
    PROVE  Min({a, b}) = IF a <= b THEN a ELSE b
BY DEF Min

LEMMA InitMail == Init => MailInv
<1> SUFFICES ASSUME Init PROVE MailInv
    OBVIOUS
<1>1. TypeOK
    BY MailAssumption DEF Init, TypeOK, Tipos, Pasos
<1>2. \A t \in Tareas : Works(t) = {}
    BY DEF Init, Works
<1>3. BatchInv
    BY DEF Init, BatchInv
<1>4. MarkInv
    BY DEF Init, MarkInv
<1>5. ReadyInv
    BY DEF Init, ReadyInv
<1>6. AloneInv
    BY <1>2 DEF AloneInv
<1>7. OnceInv
    BY <1>2 DEF Init, OnceInv
<1>8. NumberInv
    BY DEF Init, NumberInv
<1> QED BY <1>1, <1>3, <1>4, <1>5, <1>6, <1>7, <1>8 DEF MailInv

(* What a step leaves alone of a task. *)
Still(u) == /\ Works(u)' = Works(u)
            /\ pc'[u] = pc[u] /\ obj'[u] = obj[u]
            /\ tipo'[u] = tipo[u] /\ rinde'[u] = rinde[u]

(* A task that leaves its invoice keeps only its batch. *)
LEMMA Leaves ==
    ASSUME TypeOK, BatchInv, NEW t \in Tareas, pc[t] # "idle", obj[t] \in Facturas, Leave(t)
    PROVE  /\ BatchInv'
           /\ pc' \in [Tareas -> Pasos] /\ obj' \in [Tareas -> Facturas \cup {Nula}]
           /\ \A u \in Tareas : IF pc'[u] \in {"busca", "recibo", "envia"}
                                  THEN obj'[u] \in Facturas ELSE obj'[u] = Nula
           /\ Works(t)' = Works(t) \ {obj[t]}
           /\ lote' = lote /\ tipo' \in [Tareas -> Tipos] /\ tipo'[t] \in {tipo[t], "portal"}
           /\ rinde' \in [Tareas -> 0..MaxPagos]
           /\ pc'[t] # "envia"
           /\ \A u \in Tareas : u # t => Still(u)
<1>1. /\ pc'[t] = IF tipo[t] = "job" THEN "sigue" ELSE "idle"
      /\ obj'[t] = Nula /\ lote' = lote
      /\ tipo'[t] = IF tipo[t] = "job" THEN "job" ELSE "portal"
      /\ \A u \in Tareas : u # t => /\ obj'[u] = obj[u] /\ pc'[u] = pc[u]
                                   /\ tipo'[u] = tipo[u] /\ rinde'[u] = rinde[u]
    BY DEF Leave, Rest, TypeOK
<1>2. lote[t] \subseteq Facturas /\ obj[t] \notin lote[t] /\ (tipo[t] # "job" => lote[t] = {})
    BY DEF TypeOK, BatchInv
<1>3. Works(t)' = Works(t) \ {obj[t]}
    <2>1. Works(t) = lote[t] \cup {obj[t]}
        BY <1>2 DEF Works
    <2>2. Works(t)' = lote[t]
        BY <1>1, <1>2, MailAssumption DEF Works
    <2> QED BY <1>2, <2>1, <2>2
<1>4. BatchInv'
    BY <1>1, <1>2, MailAssumption DEF BatchInv, TypeOK
<1>6. tipo' \in [Tareas -> Tipos] /\ rinde' \in [Tareas -> 0..MaxPagos]
    BY MailAssumption DEF Leave, Rest, TypeOK, Tipos
<1>5. /\ pc' \in [Tareas -> Pasos] /\ obj' \in [Tareas -> Facturas \cup {Nula}]
      /\ \A u \in Tareas : IF pc'[u] \in {"busca", "recibo", "envia"}
                             THEN obj'[u] \in Facturas ELSE obj'[u] = Nula
    BY <1>1 DEF Leave, Rest, TypeOK, Pasos
<1>7. \A u \in Tareas : u # t => Still(u)
    BY <1>1 DEF Still, Works
<1> QED BY <1>1, <1>3, <1>4, <1>5, <1>6, <1>7

(* A task that goes on with its invoice. *)
LEMMA Goes ==
    ASSUME TypeOK, BatchInv, NEW t \in Tareas, pc[t] # "idle", obj[t] \in Facturas,
           NEW l \in {"recibo", "envia"}, Goto(t, l)
    PROVE  /\ BatchInv'
           /\ pc' \in [Tareas -> Pasos]
           /\ \A u \in Tareas : IF pc'[u] \in {"busca", "recibo", "envia"}
                                  THEN obj'[u] \in Facturas ELSE obj'[u] = Nula
           /\ \A u \in Tareas : Works(u)' = Works(u)
           /\ UNCHANGED <<tipo, obj, lote>>
           /\ pc'[t] = l
           /\ \A u \in Tareas : u # t => pc'[u] = pc[u]
<1>1. pc'[t] = l /\ \A u \in Tareas : u # t => pc'[u] = pc[u]
    BY DEF Goto, TypeOK
<1> QED BY <1>1 DEF Goto, TypeOK, Pasos, BatchInv, Works

-----------------------------------------------------------------------------
(* What tasks have in hand decides who works on an invoice: nobody takes   *)
(* up what is not free, and what a task marks it puts down.                *)
LEMMA AloneKept ==
    ASSUME AloneInv, aparte' = aparte, NEW t \in Tareas,
           \A u \in Tareas : u # t => Works(u)' = Works(u),
           \A f \in Works(t)' : f \in Works(t) \/ Free(f),
           \A f \in marcas' : \/ f \in marcas /\ f \notin Works(t)' \ Works(t)
                              \/ f \in Works(t) /\ f \notin Works(t)'
    PROVE  AloneInv'
<1> SUFFICES ASSUME aparte
             PROVE  /\ \A u, v \in Tareas : u # v => Works(u)' \cap Works(v)' = {}
                    /\ \A u \in Tareas : Works(u)' \cap marcas' = {}
    BY DEF AloneInv
<1>1. \A f \in Works(t)' : \A u \in Tareas : u # t => f \notin Works(u)
    BY DEF AloneInv, Free, Busy, Works
<1>2. \A u, v \in Tareas : u # v => Works(u)' \cap Works(v)' = {}
    BY <1>1 DEF AloneInv
<1>3. \A u \in Tareas : Works(u)' \cap marcas' = {}
    BY DEF AloneInv
<1> QED BY <1>2, <1>3

(* A task that starts on what is free and has no receipt, or for the       *)
(* portal.                                                                 *)
Begins(t, k, f, l, s) ==
    /\ Start(t, k, f, l)
    /\ s \in SUBSET Facturas /\ lote' = [lote EXCEPT ![t] = s]
    /\ k \in Tipos /\ f \notin s /\ (s # {} => k = "job")
    /\ \/ l \in {"busca", "recibo"} /\ f \in Facturas
       \/ l = "sigue" /\ f = Nula
    /\ \A g \in s \cup ({f} \cap Facturas) : Free(g)
    /\ pago' \in [Facturas -> 0..MaxDia \cup {SinPago}]
    /\ recibos' \in [Facturas -> 0..MaxRecibos] /\ veces' \in [Facturas -> 0..MaxPagos]
    /\ \A g \in Facturas : pago[g] # SinPago => pago'[g] # SinPago
    /\ \A g \in Facturas : pago'[g] # SinPago => veces'[g] # 0
    /\ \A g \in Facturas : recibos'[g] = 0 \/ (pago'[g] = pago[g] /\ recibos'[g] = recibos[g])
    /\ aparte /\ fallas = 0 /\ k \in {"pago", "job"} =>
           \A g \in s \cup ({f} \cap Facturas) : recibos'[g] = 0
    /\ UNCHANGED <<marca, dia, aparte, marcas, enviada, fallas>>

LEMMA StartKept ==
    ASSUME MailInv, NEW t \in Tareas, NEW k, NEW f, NEW l, NEW s, Begins(t, k, f, l, s)
    PROVE  MailInv'
<1> USE DEF Begins
<1>0. TypeOK /\ BatchInv
    BY DEF MailInv
<1>1. /\ BatchInv'
      /\ tipo' \in [Tareas -> Tipos] /\ pc' \in [Tareas -> Pasos]
      /\ obj' \in [Tareas -> Facturas \cup {Nula}]
      /\ lote' \in [Tareas -> SUBSET Facturas]
      /\ \A u \in Tareas : IF pc'[u] \in {"busca", "recibo", "envia"}
                             THEN obj'[u] \in Facturas ELSE obj'[u] = Nula
      /\ Works(t)' = s \cup ({f} \cap Facturas)
      /\ tipo'[t] = k /\ pc'[t] = l /\ obj'[t] = f
      /\ \A u \in Tareas : u # t =>
            /\ Works(u)' = Works(u) /\ tipo'[u] = tipo[u] /\ pc'[u] = pc[u]
            /\ obj'[u] = obj[u]
      /\ rinde' = rinde
    <2>1. /\ tipo'[t] = k /\ obj'[t] = f /\ pc'[t] = l /\ lote'[t] = s
          /\ \A u \in Tareas : u # t =>
                tipo'[u] = tipo[u] /\ obj'[u] = obj[u] /\ pc'[u] = pc[u] /\ lote'[u] = lote[u]
        <3>1. /\ tipo'[t] = k /\ pc'[t] = l /\ lote'[t] = s
              /\ \A u \in Tareas : u # t =>
                    tipo'[u] = tipo[u] /\ pc'[u] = pc[u] /\ lote'[u] = lote[u]
            BY <1>0 DEF Start, TypeOK
        <3> QED BY <1>0, <3>1 DEF Start, TypeOK
    <2>2. f \in Facturas \cup {Nula} /\ l \in Pasos
        BY DEF Pasos
    <2>3. BatchInv'
        BY <1>0, <2>1 DEF BatchInv
    <2>4. /\ tipo' \in [Tareas -> Tipos] /\ pc' \in [Tareas -> Pasos]
          /\ obj' \in [Tareas -> Facturas \cup {Nula}]
          /\ lote' \in [Tareas -> SUBSET Facturas]
        BY <1>0, <2>2 DEF Start, TypeOK
    <2>5. \A u \in Tareas : IF pc'[u] \in {"busca", "recibo", "envia"}
                               THEN obj'[u] \in Facturas ELSE obj'[u] = Nula
        BY <1>0, <2>1 DEF TypeOK
    <2>6. Works(t)' = s \cup ({f} \cap Facturas)
        BY <2>1 DEF Works
    <2>7. \A u \in Tareas : u # t => Works(u)' = Works(u)
        BY <2>1 DEF Works
    <2> QED BY <2>1, <2>3, <2>4, <2>5, <2>6, <2>7 DEF Start
<1>2. TypeOK'
    BY <1>1 DEF MailInv, TypeOK
<1>3. MarkInv'
    BY DEF MailInv, MarkInv
<1>7. NumberInv'
    BY <1>1 DEF MailInv, NumberInv
<1>4. ReadyInv'
    BY <1>1 DEF MailInv, ReadyInv, TypeOK
<1>5. AloneInv'
    <2>1. pc[t] = "idle"
        BY DEF Start
    <2>2. Works(t) = {}
        BY <2>1 DEF Works
    <2>3. aparte => Works(t)' \cap marcas = {}
        BY <1>1 DEF Free, Busy
    <2>4. ASSUME aparte PROVE AloneInv'
        BY <1>1, <2>2, <2>3, <2>4, AloneKept DEF MailInv
    <2> QED BY <2>4 DEF AloneInv
<1>6. OnceInv'
    <2> SUFFICES ASSUME aparte, fallas = 0
                 PROVE  /\ \A u \in Tareas : tipo'[u] \in {"pago", "job"} =>
                              \A g \in Works(u)' : recibos'[g] = 0
                        /\ \A g \in Facturas : \/ recibos'[g] = 0
                                               \/ /\ recibos'[g] = 1
                                                  /\ \/ pago'[g] = SinPago \/ marca'[g] = "ENVIADO"
                                                     \/ g \in marcas'
        BY DEF OnceInv
    <2>1. \A u \in Tareas : u # t => Works(u) \subseteq Facturas
        BY DEF Works
    <2> QED BY <1>1, <2>1 DEF MailInv, OnceInv
<1> QED BY <1>1, <1>2, <1>3, <1>4, <1>5, <1>6, <1>7 DEF MailInv

LEMMA PayStep == ASSUME MailInv, NEW t \in Tareas, NEW f \in Facturas, Pay(t, f) PROVE MailInv'
<1>0. PICK s \in SUBSET Facturas : s = {}
    OBVIOUS
<1>1. lote' = [lote EXCEPT ![t] = s]
    BY <1>0 DEF Pay, Start, MailInv, BatchInv, TypeOK
<1>2. PICK d \in 0 .. MaxDia : pago' = [pago EXCEPT ![f] = d]
    <2>1. dia \in Nat /\ MaxDia \in Nat /\ dia <= MaxDia
        BY MailAssumption DEF MailInv, TypeOK
    <2>2. PICK d \in {dia, dia - 1} : d >= 0 /\ pago' = [pago EXCEPT ![f] = d]
        BY DEF Pay
    <2>3. d \in 0 .. MaxDia
        BY <2>1, <2>2
    <2> QED BY <2>2, <2>3
<1>3. /\ pago' \in [Facturas -> 0..MaxDia \cup {SinPago}]
      /\ \A g \in Facturas : pago[g] # SinPago => pago'[g] # SinPago
      /\ \A g \in Facturas : g # f => pago'[g] = pago[g]
    BY <1>2, MailAssumption DEF MailInv, TypeOK
<1>4. /\ recibos' \in [Facturas -> 0..MaxRecibos] /\ veces' \in [Facturas -> 0..MaxPagos]
      /\ recibos'[f] = 0 /\ \A g \in Facturas : g # f => recibos'[g] = recibos[g]
    BY MailAssumption DEF Pay, MailInv, TypeOK
<1>5. /\ Start(t, "pago", f, "recibo") /\ "pago" \in Tipos /\ Free(f)
      /\ UNCHANGED <<marca, dia, aparte, marcas, enviada, fallas>>
    BY DEF Pay, Tipos
<1>6. /\ \A g \in s \cup ({f} \cap Facturas) : Free(g)
      /\ \A g \in s \cup ({f} \cap Facturas) : recibos'[g] = 0
    BY <1>0, <1>4, <1>5
<1>7. f \notin s /\ (s # {} => "pago" = "job")
    BY <1>0
<1>8. \A g \in Facturas : recibos'[g] = 0 \/ (pago'[g] = pago[g] /\ recibos'[g] = recibos[g])
    BY <1>3, <1>4
<1>9. \A g \in Facturas : pago'[g] # SinPago => veces'[g] # 0
    <2>1. veces[f] \in Nat /\ veces'[f] = veces[f] + 1
          /\ \A g \in Facturas : g # f => veces'[g] = veces[g]
        BY MailAssumption DEF Pay, MailInv, TypeOK
    <2> QED BY <1>3, <2>1 DEF MailInv, NumberInv
<1>10. Begins(t, "pago", f, "recibo", s)
    BY <1>1, <1>3, <1>4, <1>5, <1>6, <1>7, <1>8, <1>9 DEF Begins
<1> QED BY <1>10, StartKept

LEMMA AskStep == ASSUME MailInv, NEW t \in Tareas, NEW f \in Facturas, Ask(t, f) PROVE MailInv'
<1>0. PICK s \in SUBSET Facturas : s = {}
    OBVIOUS
<1>1. Start(t, "portal", f, "busca")
    BY DEF Ask
<1>4. lote' = [lote EXCEPT ![t] = s]
    BY <1>0, <1>1 DEF Ask, Start, MailInv, BatchInv, TypeOK
<1>2. /\ pago' \in [Facturas -> 0..MaxDia \cup {SinPago}]
      /\ recibos' \in [Facturas -> 0..MaxRecibos] /\ veces' \in [Facturas -> 0..MaxPagos]
    BY DEF Ask, hist, MailInv, TypeOK
<1>3. "portal" \in Tipos /\ Free(f) /\ UNCHANGED <<pago, marca, dia, aparte, marcas, hist, fallas>>
    BY DEF Ask, Tipos
<1>5. \A g \in s \cup ({f} \cap Facturas) : Free(g)
    BY <1>0, <1>3
<1>6. f \notin s /\ (s # {} => "portal" = "job") /\ "portal" \notin {"pago", "job"}
    BY <1>0
<1>8. \A g \in Facturas : pago'[g] # SinPago => veces'[g] # 0
    BY <1>3 DEF hist, MailInv, NumberInv
<1>7. Begins(t, "portal", f, "busca", s)
    BY <1>1, <1>2, <1>3, <1>4, <1>5, <1>6, <1>8 DEF Begins, hist
<1> QED BY <1>7, StartKept

LEMMA StartJobStep == ASSUME MailInv, NEW t \in Tareas, StartJob(t) PROVE MailInv'
<1>1. PICK s \in SUBSET Pending : /\ \A f \in s : Free(f)
                                  /\ lote' = [lote EXCEPT ![t] = s]
    BY DEF StartJob
<1>2. s \in SUBSET Facturas /\ \A f \in s : pago[f] # SinPago /\ marca[f] # "ENVIADO"
    <2>1. dia # SinPago
        BY MailAssumption DEF MailInv, TypeOK
    <2> QED BY <2>1 DEF Pending
<1>3. Nula \notin s
    BY <1>2, MailAssumption
<1>4. aparte /\ fallas = 0 => \A g \in s : recibos[g] = 0
    BY <1>1, <1>2 DEF Free, Busy, MailInv, OnceInv
<1>5. /\ pago' \in [Facturas -> 0..MaxDia \cup {SinPago}]
      /\ recibos' \in [Facturas -> 0..MaxRecibos] /\ veces' \in [Facturas -> 0..MaxPagos]
    BY DEF StartJob, hist, MailInv, TypeOK
<1>6. s \cup ({Nula} \cap Facturas) = s
    BY MailAssumption
<1>7. Start(t, "job", Nula, "sigue") /\ UNCHANGED <<pago, marca, dia, aparte, marcas, hist, fallas>>
    BY DEF StartJob
<1>8. "job" \in Tipos
    BY DEF Tipos
<1>9. \A g \in Facturas : pago'[g] # SinPago => veces'[g] # 0
    BY <1>7 DEF hist, MailInv, NumberInv
<1>10. Begins(t, "job", Nula, "sigue", s)
    BY <1>1, <1>2, <1>3, <1>4, <1>5, <1>6, <1>7, <1>8, <1>9 DEF Begins, hist
<1> QED BY <1>10, StartKept

-----------------------------------------------------------------------------
(* A task that goes on, or leaves, without a mail. *)
LEMMA QuietKept ==
    ASSUME MailInv, NEW t \in Tareas, TypeOK', BatchInv',
           Works(t)' \subseteq Works(t),
           \A u \in Tareas : u # t => Still(u),
           tipo'[t] \in {tipo[t], "portal"},
           pc'[t] = "envia" => pago[obj'[t]] # SinPago /\ rinde'[t] # 0,
           fallas' = 0 => fallas = 0,
           UNCHANGED <<pago, marca, dia, aparte, marcas, hist>>
    PROVE  MailInv'
<1> USE DEF Still
<1>5. NumberInv'
    BY DEF MailInv, NumberInv, hist
<1>1. MarkInv'
    BY DEF MailInv, MarkInv, hist
<1>2. ReadyInv'
    BY DEF MailInv, ReadyInv
<1>3. AloneInv'
    BY AloneKept DEF MailInv
<1>4. OnceInv'
    BY DEF MailInv, OnceInv, hist
<1> QED BY <1>1, <1>2, <1>3, <1>4, <1>5 DEF MailInv

LEMMA JobNextStep == ASSUME MailInv, NEW t \in Tareas, JobNext(t) PROVE MailInv'
<1>0. /\ pc[t] = "sigue" /\ obj[t] = Nula /\ lote[t] \subseteq Facturas
      /\ TypeOK /\ BatchInv
    BY DEF JobNext, MailInv, TypeOK
<1>1. CASE lote[t] = {}
    <2>1. /\ pc' = [pc EXCEPT ![t] = "idle"] /\ tipo' = [tipo EXCEPT ![t] = "portal"]
          /\ UNCHANGED <<obj, lote, rinde>>
        BY <1>1 DEF JobNext, Rest
    <2>2. TypeOK'
        BY <1>0, <2>1 DEF JobNext, TypeOK, Pasos, Tipos, hist
    <2>3. BatchInv'
        BY <1>0, <1>1, <2>1 DEF JobNext, BatchInv, TypeOK
    <2>4. Works(t)' \subseteq Works(t)
        BY <1>0, <1>1, <2>1 DEF Works, TypeOK
    <2>5. \A u \in Tareas : u # t => Still(u)
        BY <1>0, <2>1 DEF Still, Works, TypeOK
    <2>6. pc'[t] # "envia" /\ tipo'[t] = "portal"
        BY <1>0, <2>1 DEF TypeOK
    <2> QED BY <2>2, <2>3, <2>4, <2>5, <2>6, QuietKept DEF JobNext
<1>2. CASE lote[t] # {}
    <2>1. PICK f \in lote[t] : /\ lote' = [lote EXCEPT ![t] = @ \ {f}]
                               /\ obj' = [obj EXCEPT ![t] = f]
                               /\ pc' = [pc EXCEPT ![t] = "busca"]
                               /\ UNCHANGED <<tipo, rinde>>
        BY <1>2 DEF JobNext
    <2>2. /\ lote'[t] = lote[t] \ {f} /\ obj'[t] = f /\ pc'[t] = "busca"
          /\ \A u \in Tareas : u # t => lote'[u] = lote[u] /\ obj'[u] = obj[u] /\ pc'[u] = pc[u]
        BY <1>0, <2>1 DEF TypeOK
    <2>3. TypeOK'
        <3>1. lote' \in [Tareas -> SUBSET Facturas]
            BY <1>0, <2>1 DEF TypeOK
        <3>2. pc' \in [Tareas -> Pasos] /\ obj' \in [Tareas -> Facturas \cup {Nula}]
            BY <1>0, <2>1 DEF TypeOK, Pasos
        <3>3. \A u \in Tareas : IF pc'[u] \in {"busca", "recibo", "envia"}
                                  THEN obj'[u] \in Facturas ELSE obj'[u] = Nula
            BY <1>0, <2>2 DEF TypeOK
        <3> QED BY <1>0, <2>1, <3>1, <3>2, <3>3 DEF JobNext, TypeOK, hist
    <2>4. BatchInv'
        BY <1>0, <1>2, <2>1, <2>2 DEF JobNext, BatchInv
    <2>5. Works(t)' \subseteq Works(t)
        BY <1>0, <2>1, <2>2 DEF Works
    <2>6. \A u \in Tareas : u # t => Still(u)
        BY <2>1, <2>2 DEF Still, Works
    <2> QED BY <2>1, <2>2, <2>3, <2>4, <2>5, <2>6, QuietKept DEF JobNext
<1> QED BY <1>1, <1>2

(* A task that leaves without a mail. *)
LEMMA LeaveKept ==
    ASSUME MailInv, NEW t \in Tareas, pc[t] \in {"busca", "recibo", "envia"}, Leave(t),
           fallas' \in 0 .. MaxFallas, fallas' = 0 => fallas = 0,
           UNCHANGED <<pago, marca, dia, aparte, marcas, hist>>
    PROVE  MailInv'
<1>0. pc[t] # "idle" /\ obj[t] \in Facturas /\ TypeOK /\ BatchInv
    BY DEF MailInv, TypeOK
<1>1. /\ BatchInv'
      /\ pc' \in [Tareas -> Pasos] /\ obj' \in [Tareas -> Facturas \cup {Nula}]
      /\ \A u \in Tareas : IF pc'[u] \in {"busca", "recibo", "envia"}
                             THEN obj'[u] \in Facturas ELSE obj'[u] = Nula
      /\ Works(t)' = Works(t) \ {obj[t]}
      /\ lote' = lote /\ tipo' \in [Tareas -> Tipos] /\ tipo'[t] \in {tipo[t], "portal"}
      /\ rinde' \in [Tareas -> 0..MaxPagos]
      /\ pc'[t] # "envia"
      /\ \A u \in Tareas : u # t => Still(u)
    BY <1>0, Leaves
<1>2. TypeOK'
    BY <1>0, <1>1 DEF TypeOK, hist
<1> QED BY <1>1, <1>2, QuietKept

LEMMA GoKept ==
    ASSUME MailInv, NEW t \in Tareas, pc[t] \in {"busca", "recibo"},
           NEW l \in {"recibo", "envia"}, Goto(t, l),
           NEW n \in 0 .. MaxPagos, rinde' = [rinde EXCEPT ![t] = n],
           l = "envia" => pago[obj[t]] # SinPago /\ n # 0,
           UNCHANGED <<pago, marca, dia, aparte, marcas, hist, fallas>>
    PROVE  MailInv'
<1>0. pc[t] # "idle" /\ obj[t] \in Facturas /\ TypeOK /\ BatchInv
    BY DEF MailInv, TypeOK
<1>1. /\ BatchInv'
      /\ pc' \in [Tareas -> Pasos]
      /\ \A u \in Tareas : IF pc'[u] \in {"busca", "recibo", "envia"}
                             THEN obj'[u] \in Facturas ELSE obj'[u] = Nula
      /\ \A u \in Tareas : Works(u)' = Works(u)
      /\ UNCHANGED <<tipo, obj, lote>>
      /\ pc'[t] = l
      /\ \A u \in Tareas : u # t => pc'[u] = pc[u]
    BY <1>0, Goes
<1>2. TypeOK'
    BY <1>0, <1>1 DEF TypeOK, hist
<1>3. rinde'[t] = n /\ \A u \in Tareas : u # t => Still(u)
    BY <1>0, <1>1 DEF Still, TypeOK
<1> QED BY <1>1, <1>2, <1>3, QuietKept

LEMMA FindStep == ASSUME MailInv, NEW t \in Tareas, Find(t) PROVE MailInv'
<1>1. fallas' \in 0 .. MaxFallas
    BY DEF Find, MailInv, TypeOK
<1>2. CASE Leave(t)
    BY <1>1, <1>2, LeaveKept DEF Find
<1>3. CASE Goto(t, "recibo") /\ rinde' = rinde
    <2>1. rinde[t] \in 0 .. MaxPagos /\ rinde' = [rinde EXCEPT ![t] = rinde[t]]
        BY <1>3 DEF MailInv, TypeOK
    <2> QED BY <1>3, <2>1, GoKept DEF Find
<1> QED BY <1>2, <1>3 DEF Find

LEMMA ReceiptStep == ASSUME MailInv, NEW t \in Tareas, Receipt(t) PROVE MailInv'
<1>1. fallas' \in 0 .. MaxFallas
    BY DEF Receipt, MailInv, TypeOK
<1>2. CASE Leave(t)
    BY <1>1, <1>2, LeaveKept DEF Receipt
<1>3. CASE Render(t) /\ pago[obj[t]] # SinPago
    <2>1. veces[obj[t]] \in 0 .. MaxPagos /\ veces[obj[t]] # 0
        BY <1>3 DEF Receipt, MailInv, TypeOK, NumberInv
    <2> QED BY <1>3, <2>1, GoKept DEF Receipt, Render
<1> QED BY <1>2, <1>3 DEF Receipt

LEMMA FailsStep ==
    ASSUME MailInv, NEW t \in Tareas, SendFails(t) \/ ReadFails(t)
    PROVE  MailInv'
<1>1. /\ fallas' \in 0 .. MaxFallas /\ fallas' # 0
      /\ pc[t] \in {"busca", "recibo", "envia"} /\ Leave(t)
      /\ UNCHANGED <<pago, marca, dia, aparte, marcas, hist>>
    BY MailAssumption DEF SendFails, ReadFails, MailInv, TypeOK
<1> QED BY <1>1, LeaveKept

(* The mail of a payment: the invoice is this task's alone, and its mark   *)
(* is under way before anyone else may take it up.                         *)
LEMMA SendStep == ASSUME MailInv, NEW t \in Tareas, Send(t) PROVE MailInv'
<1> DEFINE n == Min({recibos[obj[t]] + 1, MaxRecibos})
<1>0. /\ pc[t] = "envia" /\ obj[t] \in Facturas /\ TypeOK /\ BatchInv /\ Leave(t)
    BY DEF Send, MailInv, TypeOK
<1>1. /\ BatchInv'
      /\ pc' \in [Tareas -> Pasos] /\ obj' \in [Tareas -> Facturas \cup {Nula}]
      /\ \A u \in Tareas : IF pc'[u] \in {"busca", "recibo", "envia"}
                             THEN obj'[u] \in Facturas ELSE obj'[u] = Nula
      /\ Works(t)' = Works(t) \ {obj[t]}
      /\ lote' = lote /\ tipo' \in [Tareas -> Tipos] /\ tipo'[t] \in {tipo[t], "portal"}
      /\ rinde' \in [Tareas -> 0..MaxPagos]
      /\ pc'[t] # "envia"
      /\ \A u \in Tareas : u # t => Still(u)
    BY <1>0, Leaves
<1>2. n \in 0 .. MaxRecibos /\ (recibos[obj[t]] = 0 => n \in {0, 1})
    <2>1. recibos[obj[t]] \in Nat /\ MaxRecibos \in Nat
        BY <1>0, MailAssumption DEF TypeOK
    <2> QED BY <2>1, MinOfTwo
<1>3. /\ recibos' \in [Facturas -> 0..MaxRecibos]
      /\ recibos'[obj[t]] = IF tipo[t] \in {"pago", "job"} THEN n ELSE recibos[obj[t]]
      /\ \A f \in Facturas : f # obj[t] => recibos'[f] = recibos[f]
    <2> HIDE DEF n
    <2>1. recibos' = [recibos EXCEPT ![obj[t]] = IF tipo[t] \in {"pago", "job"} THEN n ELSE @]
        BY DEF Send, n
    <2> QED BY <1>0, <1>2, <2>1 DEF TypeOK
<1> HIDE DEF n
<1>4. TypeOK'
    <2>1. enviada' \in [Facturas -> 0..MaxPagos] /\ marcas' \subseteq Facturas
        BY <1>0 DEF Send, TypeOK
    <2> QED BY <1>0, <1>1, <1>3, <2>1 DEF Send, TypeOK
<1>5. MarkInv'
    <2>1. /\ enviada'[obj[t]] # 0
          /\ \A f \in Facturas : f # obj[t] => enviada'[f] = enviada[f]
        BY <1>0 DEF Send, MailInv, NumberInv, TypeOK
    <2> QED BY <2>1 DEF Send, MailInv, MarkInv
<1> USE DEF Still
<1>10. NumberInv'
    BY <1>1 DEF Send, MailInv, NumberInv
<1>6. ReadyInv'
    BY <1>1 DEF Send, MailInv, ReadyInv
<1>7. obj[t] \in Works(t) /\ obj[t] \notin Works(t)'
    BY <1>0, <1>1 DEF Works
<1>8. AloneInv'
    BY <1>1, <1>7, AloneKept DEF Send, MailInv
<1>9. OnceInv'
    <2> SUFFICES ASSUME aparte, fallas = 0
                 PROVE  /\ \A u \in Tareas : tipo'[u] \in {"pago", "job"} =>
                              \A g \in Works(u)' : recibos'[g] = 0
                        /\ \A g \in Facturas : \/ recibos'[g] = 0
                                               \/ /\ recibos'[g] = 1
                                                  /\ \/ pago'[g] = SinPago \/ marca'[g] = "ENVIADO"
                                                     \/ g \in marcas'
        BY DEF Send, OnceInv
    <2>1. \A u \in Tareas : u # t => obj[t] \notin Works(u)
        BY <1>7 DEF MailInv, AloneInv
    <2>2. \A u \in Tareas : obj[t] \notin Works(u)' /\ Works(u)' \subseteq Works(u)
        BY <1>1, <1>7, <2>1
    <2>3. \A u \in Tareas : Works(u) \subseteq Facturas
        BY DEF Works
    <2>4. ASSUME NEW u \in Tareas, tipo'[u] \in {"pago", "job"}, NEW g \in Works(u)'
          PROVE  recibos'[g] = 0
        BY <1>1, <1>3, <2>2, <2>3, <2>4 DEF MailInv, OnceInv
    <2>5. ASSUME NEW g \in Facturas
          PROVE  \/ recibos'[g] = 0
                 \/ /\ recibos'[g] = 1
                    /\ \/ pago'[g] = SinPago \/ marca'[g] = "ENVIADO" \/ g \in marcas'
        <3>1. CASE g = obj[t]
            <4>1. g \in marcas'
                BY <3>1 DEF Send
            <4>2. CASE tipo[t] \in {"pago", "job"}
                <5>1. recibos[g] = 0
                    BY <1>7, <3>1, <4>2 DEF MailInv, OnceInv
                <5> QED BY <1>2, <1>3, <3>1, <4>1, <4>2, <5>1
            <4>3. CASE tipo[t] \notin {"pago", "job"}
                <5>1. recibos'[g] = recibos[g]
                    BY <1>3, <3>1, <4>3
                <5> QED BY <4>1, <5>1 DEF MailInv, OnceInv
            <4> QED BY <4>2, <4>3
        <3>2. CASE g # obj[t]
            <4>1. recibos'[g] = recibos[g]
                BY <1>3, <3>2
            <4> QED BY <4>1 DEF Send, MailInv, OnceInv
        <3> QED BY <3>1, <3>2
    <2> QED BY <2>4, <2>5
<1> QED BY <1>1, <1>4, <1>5, <1>6, <1>8, <1>9, <1>10 DEF MailInv

-----------------------------------------------------------------------------
(* Steps that no task takes. *)
LEMMA ReverseStep == ASSUME MailInv, NEW f \in Facturas, Reverse(f) PROVE MailInv'
<1>1. /\ pago' \in [Facturas -> 0..MaxDia \cup {SinPago}] /\ pago'[f] = SinPago
      /\ \A g \in Facturas : g # f => pago'[g] = pago[g]
    BY DEF Reverse, MailInv, TypeOK
<1>2. TypeOK'
    BY <1>1 DEF Reverse, MailInv, TypeOK, tasks, hist
<1>3. BatchInv' /\ MarkInv'
    BY DEF Reverse, MailInv, BatchInv, MarkInv, tasks, hist
<1>4. ReadyInv'
    BY <1>1 DEF Reverse, MailInv, TypeOK, ReadyInv, tasks
<1>5. AloneInv'
    BY DEF Reverse, MailInv, AloneInv, Works, tasks
<1>6. OnceInv'
    <2>1. \A t \in Tareas : Works(t)' = Works(t)
        BY DEF Reverse, Works, tasks
    <2> QED BY <1>1, <2>1 DEF Reverse, MailInv, OnceInv, tasks, hist
<1>7. NumberInv'
    BY <1>1 DEF Reverse, MailInv, NumberInv, tasks, hist
<1> QED BY <1>2, <1>3, <1>4, <1>5, <1>6, <1>7 DEF MailInv

LEMMA RedrawStep == ASSUME MailInv, NEW f \in Facturas, Redraw(f) PROVE MailInv'
<1>1. /\ marca' \in [Facturas -> {"PENDIENTE", "ENVIADO"}] /\ marca'[f] = "PENDIENTE"
      /\ \A g \in Facturas : g # f => marca'[g] = marca[g]
    BY DEF Redraw, MailInv, TypeOK
<1>2. TypeOK'
    BY <1>1 DEF Redraw, MailInv, TypeOK, tasks, hist
<1>3. BatchInv' /\ MarkInv'
    BY <1>1 DEF Redraw, MailInv, BatchInv, MarkInv, tasks, hist
<1>4. ReadyInv'
    BY DEF Redraw, MailInv, ReadyInv, tasks
<1>5. AloneInv'
    BY DEF Redraw, MailInv, AloneInv, Works, tasks
<1>6. OnceInv'
    <2>1. \A t \in Tareas : Works(t)' = Works(t)
        BY DEF Redraw, Works, tasks
    <2> QED BY <1>1, <2>1 DEF Redraw, MailInv, OnceInv, tasks, hist
<1>7. NumberInv'
    BY DEF Redraw, MailInv, NumberInv, tasks, hist
<1> QED BY <1>2, <1>3, <1>4, <1>5, <1>6, <1>7 DEF MailInv

LEMMA MarkStep ==
    ASSUME MailInv, NEW f \in Facturas, Mark(f) \/ MarkFails(f)
    PROVE  MailInv'
<1>1. /\ f \in marcas /\ marcas' = marcas \ {f}
      /\ marca' \in [Facturas -> {"PENDIENTE", "ENVIADO"}]
      /\ \A g \in Facturas : marca'[g] = marca[g] \/ (g = f /\ marca'[g] = "ENVIADO")
      /\ \/ fallas' = fallas /\ marca'[f] = "ENVIADO"
         \/ fallas' # 0 /\ fallas' \in 0 .. MaxFallas
      /\ UNCHANGED <<pago, dia, aparte, tasks, hist>>
    <2>0. marca \in [Facturas -> {"PENDIENTE", "ENVIADO"}]
        BY DEF MailInv, TypeOK
    <2>1. CASE Mark(f)
        <3>1. /\ marca' \in [Facturas -> {"PENDIENTE", "ENVIADO"}] /\ marca'[f] = "ENVIADO"
              /\ \A g \in Facturas : g # f => marca'[g] = marca[g]
            BY <2>0, <2>1 DEF Mark
        <3>2. \A g \in Facturas : marca'[g] = marca[g] \/ (g = f /\ marca'[g] = "ENVIADO")
            BY <3>1
        <3> QED BY <2>1, <3>1, <3>2 DEF Mark
    <2>2. CASE MarkFails(f)
        <3>1. fallas' # 0 /\ fallas' \in 0 .. MaxFallas
            BY <2>2, MailAssumption DEF MarkFails, MailInv, TypeOK
        <3> QED BY <2>0, <2>2, <3>1 DEF MarkFails
    <2> QED BY <2>1, <2>2
<1>2. TypeOK'
    BY <1>1 DEF MailInv, TypeOK, tasks, hist
<1>3. BatchInv' /\ MarkInv'
    BY <1>1 DEF MailInv, BatchInv, MarkInv, tasks, hist
<1>4. ReadyInv'
    BY <1>1 DEF MailInv, ReadyInv, tasks
<1>5. AloneInv'
    BY <1>1 DEF MailInv, AloneInv, Works, tasks
<1>6. OnceInv'
    <2>1. \A t \in Tareas : Works(t)' = Works(t)
        BY <1>1 DEF Works, tasks
    <2> QED BY <1>1, <2>1 DEF MailInv, OnceInv, tasks, hist
<1>7. NumberInv'
    BY <1>1 DEF MailInv, NumberInv, tasks, hist
<1> QED BY <1>2, <1>3, <1>4, <1>5, <1>6, <1>7 DEF MailInv

LEMMA CrashStep == ASSUME MailInv, Crash PROVE MailInv'
<1>1. /\ \A t \in Tareas : pc'[t] = "idle" /\ obj'[t] = Nula /\ lote'[t] = {}
      /\ pc' \in [Tareas -> Pasos] /\ obj' \in [Tareas -> Facturas \cup {Nula}]
      /\ lote' \in [Tareas -> SUBSET Facturas]
      /\ tipo' \in [Tareas -> Tipos] /\ rinde' \in [Tareas -> 0..MaxPagos]
    BY MailAssumption DEF Crash, Pasos, Tipos
<1>2. fallas' # 0 /\ fallas' \in 0 .. MaxFallas
    BY MailAssumption DEF Crash, MailInv, TypeOK
<1>3. TypeOK'
    BY <1>1, <1>2 DEF Crash, MailInv, TypeOK, hist
<1>4. BatchInv' /\ MarkInv'
    BY <1>1 DEF Crash, MailInv, BatchInv, MarkInv, hist
<1>5. ReadyInv'
    BY <1>1 DEF ReadyInv
<1>6. AloneInv'
    <2>1. \A t \in Tareas : Works(t)' = {}
        BY <1>1 DEF Works
    <2> QED BY <2>1 DEF AloneInv
<1>7. OnceInv'
    BY <1>2 DEF OnceInv
<1>8. NumberInv'
    BY <1>1 DEF Crash, MailInv, NumberInv, hist
<1> QED BY <1>3, <1>4, <1>5, <1>6, <1>7, <1>8 DEF MailInv

LEMMA NextDayStep == ASSUME MailInv, NextDay PROVE MailInv'
<1>1. TypeOK'
    BY MailAssumption DEF NextDay, MailInv, TypeOK, tasks, hist
<1> QED BY <1>1 DEF NextDay, MailInv, BatchInv, MarkInv, NumberInv, ReadyInv, AloneInv,
       OnceInv, Works, tasks, hist

LEMMA NextMail == MailInv /\ [Next]_vars => MailInv'
<1> SUFFICES ASSUME MailInv, [Next]_vars PROVE MailInv'
    OBVIOUS
<1>1. CASE UNCHANGED vars
    BY <1>1 DEF vars, tasks, hist, MailInv, TypeOK, BatchInv, MarkInv, NumberInv, ReadyInv, AloneInv,
                OnceInv, Works
<1>2. CASE \E t \in Tareas :
              \/ \E f \in Facturas : Pay(t, f) \/ Ask(t, f)
              \/ StartJob(t) \/ Step(t) \/ SendFails(t) \/ ReadFails(t)
    BY <1>2, PayStep, AskStep, StartJobStep, JobNextStep, FindStep, ReceiptStep, SendStep, FailsStep
       DEF Step
<1>3. CASE \E f \in Facturas : Reverse(f) \/ Redraw(f) \/ Mark(f) \/ MarkFails(f)
    BY <1>3, ReverseStep, RedrawStep, MarkStep
<1> QED BY <1>1, <1>2, <1>3, CrashStep, NextDayStep DEF Next

LEMMA MailKept == Spec => []MailInv
BY InitMail, NextMail, PTL DEF Spec

-----------------------------------------------------------------------------
(* However jobs, handlers and calls overlap, fail or are cut off: an       *)
(* invoice counts as mailed only when a mail of it went out                *)
(* (ReceiptMail!MarcaConEnvio).                                            *)
THEOREM MarcaProved == Spec => []MarcaConEnvio
<1>1. MailInv => MarcaConEnvio
    BY DEF MailInv, MarkInv, MarcaConEnvio
<1> QED BY <1>1, MailKept, PTL

(* With the calls on an invoice apart and no faults: a payment's handler   *)
(* and the job send one receipt between them (ReceiptMail!UnRecibo).       *)
THEOREM ReciboProved == Spec => []UnRecibo
<1>1. MailInv => UnRecibo
    BY DEF MailInv, OnceInv, UnRecibo
<1> QED BY <1>1, MailKept, PTL

(* With the calls on an invoice apart, no receipt goes out for a payment   *)
(* that was taken back (ReceiptMail!ReciboDePago).                         *)
THEOREM PagoProved == Spec => ReciboDePago
<1> DEFINE A == aparte => \A f \in Facturas : recibos'[f] > recibos[f] => pago[f] # SinPago
<1>1. MailInv /\ [Next]_vars => [A]_vars
    <2> SUFFICES ASSUME MailInv, Next, aparte, NEW f \in Facturas, recibos'[f] > recibos[f]
                 PROVE  pago[f] # SinPago
        OBVIOUS
    <2>0. /\ recibos \in [Facturas -> 0..MaxRecibos] /\ MaxRecibos \in Nat
          /\ ~ (recibos[f] > recibos[f]) /\ ~ (0 > recibos[f])
        BY MailAssumption DEF MailInv, TypeOK
    <2>1. CASE UNCHANGED recibos
        BY <2>0, <2>1
    <2>2. ASSUME NEW t \in Tareas, NEW g \in Facturas, Pay(t, g) PROVE FALSE
        BY <2>0, <2>2 DEF Pay
    <2>3. ASSUME NEW t \in Tareas, Send(t) PROVE pago[f] # SinPago
        <3>1. f = obj[t]
            BY <2>0, <2>3 DEF Send
        <3> QED BY <2>3, <3>1 DEF Send, MailInv, ReadyInv
    <2>4. CASE \/ \E t \in Tareas : \/ \E g \in Facturas : Ask(t, g)
                                    \/ StartJob(t) \/ JobNext(t) \/ Find(t) \/ Receipt(t)
                                    \/ SendFails(t) \/ ReadFails(t)
               \/ \E g \in Facturas : Reverse(g) \/ Redraw(g) \/ Mark(g) \/ MarkFails(g)
               \/ Crash \/ NextDay
        <3>1. UNCHANGED recibos
            BY <2>4 DEF Ask, StartJob, JobNext, Find, Receipt, SendFails, ReadFails, Reverse,
                        Redraw, Mark, MarkFails, Crash, NextDay, hist
        <3> QED BY <2>1, <3>1
    <2> QED BY <2>2, <2>3, <2>4 DEF Next, Step
<1> QED BY <1>1, MailKept, PTL DEF Spec, ReciboDePago
=============================================================================
