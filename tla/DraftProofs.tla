---------------------------- MODULE DraftProofs ----------------------------
(* Theorems about InvoiceDraft, for every value of its constants. *)
EXTENDS InvoiceDraft, FiniteSetTheorems, TLAPS

-----------------------------------------------------------------------------
(* What a set of rows adds up to.  Suma takes the rows one after another,  *)
(* in an order of its own, by a function on the subsets of the set.        *)

(* Of any subsets of a finite set, one has no other one inside it. *)
LEMMA MinimalSubset ==
    ASSUME NEW S, IsFiniteSet(S), NEW B \in SUBSET (SUBSET S), B # {}
    PROVE  \E T \in B : \A U \in B : U \subseteq T => U = T
<1>1. B \subseteq FiniteSubsetsOf(S)
    BY FS_Subset DEF FiniteSubsetsOf
<1>2. PICK T \in B : \A U \in B : ~ (<<U, T>> \in StrictSubsetOrdering(S))
    BY <1>1, FS_StrictSubsetOrderingWellFounded, WFMin
<1>3. ASSUME NEW U \in B, U \subseteq T, U # T PROVE FALSE
    BY <1>2, <1>3 DEF StrictSubsetOrdering
<1> QED BY <1>3

Pick(s) == CHOOSE x \in s : TRUE
IsSum(g, S) == g = [s \in SUBSET S |-> IF s = {} THEN 0
                                       ELSE Pick(s).valor + g[s \ {Pick(s)}]]
SumOf(S) == CHOOSE g : IsSum(g, S)

LEMMA SumaIsSum == ASSUME NEW S PROVE Suma(S) = SumOf(S)[S]
BY DEF Suma, MapThenSumSet, MapThenFoldSet, SumOf, IsSum, Pick

(* Two such functions agree where both are defined. *)
LEMMA SumsAgree ==
    ASSUME NEW S, IsFiniteSet(S), NEW T \in SUBSET S, NEW g, NEW h, IsSum(g, S), IsSum(h, T),
           NEW U \in SUBSET T
    PROVE  g[U] = h[U]
<1> DEFINE B == {V \in SUBSET T : g[V] # h[V]}
<1> SUFFICES ASSUME B # {} PROVE FALSE
    OBVIOUS
<1>1. IsFiniteSet(T)
    BY FS_Subset
<1>2. PICK V \in B : \A W \in B : W \subseteq V => W = V
    <2>1. B \in SUBSET (SUBSET T)
        OBVIOUS
    <2> HIDE DEF B
    <2> QED BY <1>1, <2>1, MinimalSubset
<1>3. V # {}
    BY <1>2 DEF IsSum
<1>4. Pick(V) \in V
    BY <1>3 DEF Pick
<1> DEFINE W == V \ {Pick(V)}
<1>5. W \in SUBSET T /\ W \subseteq V /\ W # V
    BY <1>2, <1>4
<1>6. g[W] = h[W]
    BY <1>2, <1>5
<1>7. g[V] = Pick(V).valor + g[W] /\ h[V] = Pick(V).valor + h[W]
    BY <1>2, <1>3 DEF IsSum
<1> QED BY <1>2, <1>6, <1>7

LEMMA SumExists ==
    ASSUME NEW S, IsFiniteSet(S)
    PROVE  IsSum(SumOf(S), S)
<1> DEFINE B == {T \in SUBSET S : ~ \E g : IsSum(g, T)}
<1> SUFFICES ASSUME B # {} PROVE FALSE
    BY DEF SumOf
<1>1. PICK T \in B : \A U \in B : U \subseteq T => U = T
    <2>1. B \in SUBSET (SUBSET S)
        OBVIOUS
    <2> HIDE DEF B
    <2> QED BY <2>1, MinimalSubset
<1>2. ASSUME NEW U \in SUBSET T, U # T PROVE IsSum(SumOf(U), U)
    <2>1. \E g : IsSum(g, U)
        BY <1>1, <1>2
    <2> QED BY <2>1 DEF SumOf
<1> DEFINE Rest(U) == U \ {Pick(U)}
           G == [U \in SUBSET T |-> IF U = {} THEN 0
                                    ELSE Pick(U).valor + SumOf(Rest(U))[Rest(U)]]
<1>3. ASSUME NEW U \in SUBSET T, U # {}
      PROVE  Rest(U) \in SUBSET T /\ Rest(U) # T /\ Rest(U) \subseteq U
    <2>1. Pick(U) \in U
        BY <1>3 DEF Pick
    <2> QED BY <2>1
<1>4. ASSUME NEW V \in SUBSET T, V # T PROVE G[V] = SumOf(V)[V]
    <2>1. IsSum(SumOf(V), V)
        BY <1>2, <1>4
    <2>2. CASE V = {}
        BY <2>1, <2>2 DEF IsSum
    <2>3. CASE V # {}
        <3> DEFINE W == Rest(V)
        <3>1. W \in SUBSET T /\ W # T /\ W \subseteq V
            BY <1>3, <2>3
        <3>2. IsSum(SumOf(W), W)
            BY <1>2, <3>1
        <3>3. IsFiniteSet(V)
            BY <1>1, FS_Subset
        <3>4. SumOf(V)[W] = SumOf(W)[W]
            BY <2>1, <3>1, <3>2, <3>3, SumsAgree
        <3>5. SumOf(V)[V] = Pick(V).valor + SumOf(V)[W]
            BY <2>1, <2>3 DEF IsSum
        <3>6. G[V] = Pick(V).valor + SumOf(W)[W]
            BY <2>3
        <3> QED BY <3>4, <3>5, <3>6
    <2> QED BY <2>2, <2>3
<1>5. \A U \in SUBSET T : U # {} => G[Rest(U)] = SumOf(Rest(U))[Rest(U)]
    BY <1>3, <1>4
<1>6. IsSum(G, T)
    <2>1. ASSUME NEW U \in SUBSET T
          PROVE  G[U] = IF U = {} THEN 0 ELSE Pick(U).valor + G[U \ {Pick(U)}]
        BY <1>5
    <2>2. G = [U \in SUBSET T |-> G[U]]
        OBVIOUS
    <2> HIDE DEF G
    <2> QED BY <2>1, <2>2 DEF IsSum
<1> QED BY <1>1, <1>6

LEMMA SumaStep ==
    ASSUME NEW S, IsFiniteSet(S), S # {}
    PROVE  /\ Pick(S) \in S
           /\ Suma(S) = Pick(S).valor + Suma(S \ {Pick(S)})
<1> DEFINE W == S \ {Pick(S)}
<1>1. Pick(S) \in S
    BY DEF Pick
<1>2. IsFiniteSet(W) /\ W \in SUBSET S
    BY FS_Subset
<1>3. SumOf(S)[W] = SumOf(W)[W]
    BY <1>2, SumExists, SumsAgree
<1>4. SumOf(S)[S] = Pick(S).valor + SumOf(S)[W]
    BY SumExists DEF IsSum
<1> QED BY <1>1, <1>3, <1>4, SumaIsSum

LEMMA SumaVacia == Suma({}) = 0
BY FS_EmptySet, SumExists, SumaIsSum DEF IsSum

LEMMA SumaUno == ASSUME NEW r, r.valor \in Nat PROVE Suma({r}) = r.valor
<1>1. IsFiniteSet({r}) /\ {r} # {}
    BY FS_Singleton
<1>2. Pick({r}) \in {r}
    BY <1>1, SumaStep
<1>3. Pick({r}) = r /\ {r} \ {r} = {}
    BY <1>2
<1> QED BY <1>1, <1>3, SumaStep, SumaVacia

LEMMA SumaNat ==
    ASSUME NEW S \in SUBSET Rows, IsFiniteSet(S)
    PROVE  Suma(S) \in Nat
<1> DEFINE B == {T \in SUBSET S : Suma(T) \notin Nat}
<1> SUFFICES ASSUME B # {} PROVE FALSE
    OBVIOUS
<1>1. PICK T \in B : \A U \in B : U \subseteq T => U = T
    <2>1. B \in SUBSET (SUBSET S)
        OBVIOUS
    <2> HIDE DEF B
    <2> QED BY <2>1, MinimalSubset
<1>2. IsFiniteSet(T) /\ Suma(T) \notin Nat
    BY <1>1, FS_Subset
<1>3. T # {}
    BY <1>2, SumaVacia
<1>4. Pick(T) \in T /\ Suma(T) = Pick(T).valor + Suma(T \ {Pick(T)})
    BY <1>2, <1>3, SumaStep
<1>5. Suma(T \ {Pick(T)}) \in Nat
    BY <1>1, <1>4
<1>6. Pick(T).valor \in Nat
    BY <1>1, <1>4 DEF Rows
<1> QED BY <1>2, <1>4, <1>5, <1>6

-----------------------------------------------------------------------------
(* Types, and that who works on an invoice works on one that was saved. *)

Saved(f)  == factura[f].estado # "ninguna"
Handling  == Writing \cup Calling \cup Paying
WorksOn   == \A p \in Peticiones : pc[p] \in Handling => obj[p] \in Facturas /\ Saved(obj[p])
Bounded   == \E n \in Nat : \A f \in Facturas : Saved(f) => f <= n

Typed == TypeOK /\ IsFiniteSet(lineas) /\ WorksOn /\ Bounded

(* A set of numbers up to n has a highest one, which is what Max returns. *)
LEMMA MaxUpTo ==
    ASSUME NEW n \in Nat, NEW S \in SUBSET (0 .. n), S # {}
    PROVE  Max(S) \in S /\ \A y \in S : y <= Max(S)
<1> DEFINE R == {ss \in Nat \X Nat : ss[1] < ss[2]}
           B == {b \in Nat : \A y \in S : y <= b}
<1>1. IsWellFoundedOn(R, Nat)
    BY NatLessThanWellFounded DEF OpToRel
<1>2. n \in B
    OBVIOUS
<1>3. PICK b \in B : \A c \in B : ~ (<<c, b>> \in R)
    <2> HIDE DEF R
    <2> QED BY <1>1, <1>2, WFMin
<1>4. b \in S
    <2> SUFFICES ASSUME b \notin S PROVE FALSE
        OBVIOUS
    <2>1. \A y \in S : y <= b /\ y # b /\ y >= 0 /\ y \in Int
        OBVIOUS
    <2>2. PICK y \in S : TRUE
        OBVIOUS
    <2>3. b - 1 \in Nat /\ b \in Nat
        BY <2>1, <2>2
    <2>4. b - 1 \in B
        BY <2>1, <2>3
    <2>5. <<b - 1, b>> \in R
        BY <2>3
    <2> QED BY <1>3, <2>4, <2>5
<1>5. \E x \in S : \A y \in S : x >= y
    BY <1>4
<1> QED BY <1>5 DEF Max

(* What findDuplicateInvoice returns, when it finds one. *)
LEMMA LatestIsReusable ==
    ASSUME Typed, Reusable # {}
    PROVE  Max(Reusable) \in Reusable
<1>1. PICK n \in Nat : \A f \in Facturas : Saved(f) => f <= n
    BY DEF Typed, Bounded
<1>2. \A f \in Reusable : f \in Facturas /\ Saved(f)
    BY DEF Reusable, Saved
<1>3. \A f \in Reusable : f \in Nat /\ f <= n
    BY <1>1, <1>2, DraftAssumption
<1>4. Reusable \subseteq 0 .. n
    BY <1>3
<1> QED BY <1>4, MaxUpTo

LEMMA LinesTyped ==
    ASSUME Typed, NEW f \in Facturas
    PROVE  LineasDe(f) \in SUBSET Rows /\ PagosDe(f) \in SUBSET Rows /\ Suma(LineasDe(f)) \in Nat
<1>1. LineasDe(f) \in SUBSET Rows /\ PagosDe(f) \in SUBSET Rows /\ LineasDe(f) \subseteq lineas
    BY DEF Typed, TypeOK, LineasDe, PagosDe
<1>2. IsFiniteSet(LineasDe(f))
    BY <1>1, FS_Subset DEF Typed
<1> QED BY <1>1, <1>2, SumaNat

LEMMA InitTyped == Init => Typed
<1> SUFFICES ASSUME Init PROVE Typed
    OBVIOUS
<1>1. Bounded
    BY DEF Init, Bounded, Saved
<1>2. TypeOK
    BY DraftAssumption DEF Init, TypeOK, Estados
<1> QED BY <1>1, <1>2, FS_EmptySet
        DEF Init, Typed, WorksOn, Handling, Writing, Calling, Paying

(* The transactions on the tables: what they write is typed, and an        *)
(* invoice that was saved stays.                                           *)
Stays == \A f \in Facturas : Saved(f) <=> Saved(f)'

TablesTyped ==
    /\ factura' \in [Facturas -> [estado : Estados, valor : Nat, reciente : BOOLEAN]]
    /\ lineas' \subseteq Rows /\ pagos' \subseteq Rows
    /\ IsFiniteSet(lineas')

LEMMA SaveOnTyped ==
    ASSUME Typed, NEW p \in Peticiones, SaveOn(p)
    PROVE  TablesTyped /\ Stays
<1> DEFINE f == obj[p]
           r == Row(f, p, calculo[p])
<1>1. f \in Facturas /\ Saved(f) /\ calculo[p] \in Nat
    BY DEF SaveOn, Typed, TypeOK, WorksOn, Handling, Writing, Calling
<1>2. lineas' = lineas \cup {r} /\ pagos' = pagos /\ r \in Rows
    BY <1>1 DEF SaveOn, Row, Rows
<1>3. lineas' \subseteq Rows /\ pagos' \subseteq Rows /\ IsFiniteSet(lineas')
    <2> HIDE DEF r
    <2> QED BY <1>2, FS_AddElement DEF Typed, TypeOK
<1>4. factura' = [factura EXCEPT ![f].valor = calculo[p],
                                 ![f].estado = IF visto[p] = "PAGO_INICADO" THEN @ ELSE "PAGO_INICADO"]
    BY DEF SaveOn
<1> HIDE DEF f
<1>5. factura' \in [Facturas -> [estado : Estados, valor : Nat, reciente : BOOLEAN]]
    BY <1>1, <1>4 DEF Typed, TypeOK, Estados
<1>6. Stays
    BY <1>1, <1>4 DEF Stays, Saved, Typed, TypeOK
<1> QED BY <1>3, <1>5, <1>6 DEF TablesTyped

LEMMA PayOnTyped ==
    ASSUME Typed, NEW p \in Peticiones, PayOn(p)
    PROVE  TablesTyped /\ Stays
<1> DEFINE f == obj[p]
           r == Row(f, p, calculo[p])
<1>1. f \in Facturas /\ Saved(f) /\ calculo[p] \in Nat
    BY DEF PayOn, Typed, TypeOK, WorksOn, Handling, Paying
<1>2. pagos' = pagos \cup {r} /\ lineas' = lineas /\ r \in Rows
    BY <1>1 DEF PayOn, Row, Rows
<1>3. lineas' \subseteq Rows /\ pagos' \subseteq Rows /\ IsFiniteSet(lineas')
    BY <1>2 DEF Typed, TypeOK
<1>4. factura' = [factura EXCEPT ![f].estado = "PAGO_FINALIZADO_OK"]
    BY DEF PayOn
<1> HIDE DEF f
<1>5. factura' \in [Facturas -> [estado : Estados, valor : Nat, reciente : BOOLEAN]]
    BY <1>4 DEF Typed, TypeOK, Estados
<1>6. Stays
    BY <1>1, <1>4 DEF Stays, Saved, Typed, TypeOK
<1> QED BY <1>3, <1>5, <1>6 DEF TablesTyped

LEMMA EraseTyped ==
    ASSUME Typed, NEW p \in Peticiones, lineas' = lineas \ LineasDe(obj[p]),
           UNCHANGED <<factura, pagos>>
    PROVE  TablesTyped /\ Stays
BY FS_Subset DEF Typed, TypeOK, TablesTyped, Stays, Saved

(* A request that goes on, with tables that keep the invoices. *)
LEMMA WorksOnKept ==
    ASSUME Typed, Stays, NEW p \in Peticiones, NEW l, Goto(p, l), obj' = obj,
           l \in Handling => pc[p] \in Handling
    PROVE  WorksOn' /\ Bounded'
<1>1. Bounded'
    BY DEF Typed, Bounded, Stays
<1>2. WorksOn'
    BY DEF Typed, TypeOK, WorksOn, Stays, Goto
<1> QED BY <1>1, <1>2

LEMMA GotoTyped ==
    ASSUME Typed, NEW p \in Peticiones, NEW l \in Working \cup {"idle", "fin"}, Goto(p, l)
    PROVE  pc' \in [Peticiones -> Working \cup {"idle", "fin"}]
BY DEF Typed, TypeOK, Goto

RequestStep(p) ==
    \/ Create(p) \/ \E f \in Facturas : Consult(p, f)
    \/ Step(p) \/ GoPay(p) \/ GiveUp(p)
    \/ Fail(p) \/ CommitLost(p)

LEMMA RequestTyped ==
    ASSUME Typed, NEW p \in Peticiones, RequestStep(p)
    PROVE  Typed'
<1> USE DEF Typed
<1>1. ASSUME NEW l \in Working \cup {"idle", "fin"}, Goto(p, l), obj' = obj,
             l \in Handling => pc[p] \in Handling, TablesTyped, Stays,
             UNCHANGED <<tarifa, previo, sueltos, visto, reversos, aparte, tarifas>>,
             calculo' \in [Peticiones -> Nat], fallas' \in 0 .. MaxFallas
      PROVE  Typed'
    BY <1>1, GotoTyped, WorksOnKept DEF TypeOK, TablesTyped
<1>2. UNCHANGED tables => TablesTyped /\ Stays
    BY DEF tables, TypeOK, TablesTyped, Stays, Saved
<1>3. CASE Create(p) \/ SaveRefused(p) \/ GoPay(p) \/ GiveUp(p) \/ FindForPayment(p)
    <2>1. PICK l \in {"calcula", "fin", "paga: busca", "paga"} :
              Goto(p, l) /\ (l \in Handling => pc[p] \in Handling)
        BY <1>3 DEF Create, SaveRefused, GoPay, GiveUp, FindForPayment,
                    Handling, Writing, Calling, Paying
    <2>2. l \in Working \cup {"idle", "fin"}
        BY <2>1 DEF Working, Creating, Paying
    <2>3. UNCHANGED <<tables, tarifa, locals, counts>>
        BY <1>3 DEF Create, SaveRefused, GoPay, GiveUp, FindForPayment
    <2> QED BY <1>1, <1>2, <2>1, <2>2, <2>3 DEF locals, counts, TypeOK
<1>4. CASE Price(p) \/ PriceAgain(p)
    <2>1. PICK l \in {"duplicado", "cotizada", "reborra"} :
              Goto(p, l) /\ (l \in Handling => pc[p] \in Handling)
        BY <1>4 DEF Price, PriceAgain, Handling, Writing, Calling, Paying
    <2>2. l \in Working \cup {"idle", "fin"}
        BY <2>1 DEF Working, Creating, Calling
    <2>3. calculo' = [calculo EXCEPT ![p] = tarifa] /\ tarifa \in Nat
        BY <1>4, DraftAssumption DEF Price, PriceAgain, TypeOK
    <2>4. calculo' \in [Peticiones -> Nat]
        BY <2>3 DEF TypeOK
    <2>5. UNCHANGED <<tables, tarifa, obj, previo, sueltos, visto, counts>>
        BY <1>4 DEF Price, PriceAgain
    <2> QED BY <1>1, <1>2, <2>1, <2>2, <2>4, <2>5 DEF counts, TypeOK
<1>5. CASE FindDuplicate(p)
    <2>1. UNCHANGED <<tables, tarifa, calculo, previo, sueltos, visto, counts>>
        BY <1>5 DEF FindDuplicate
    <2>2. CASE Reusable = {}
        <3>1. Goto(p, "inserta") /\ obj' = obj
            BY <1>5, <2>2 DEF FindDuplicate
        <3>2. "inserta" \in Working \cup {"idle", "fin"} /\ "inserta" \notin Handling
            BY DEF Working, Creating, Handling, Writing, Calling, Paying
        <3> QED BY <1>1, <1>2, <2>1, <3>1, <3>2 DEF counts, TypeOK
    <2>3. CASE Reusable # {}
        <3> DEFINE f == Max(Reusable)
        <3>1. Goto(p, "borra") /\ obj' = [obj EXCEPT ![p] = f]
            BY <1>5, <2>3 DEF FindDuplicate
        <3>2. f \in Facturas /\ Saved(f)
            BY <2>3, LatestIsReusable DEF Reusable, Saved
        <3>3. "borra" \in Working \cup {"idle", "fin"}
            BY DEF Working, Creating
        <3> HIDE DEF f
        <3>4. /\ pc' \in [Peticiones -> Working \cup {"idle", "fin"}]
              /\ obj' \in [Peticiones -> Facturas \cup {Nula}]
            BY <3>1, <3>2, <3>3, GotoTyped DEF TypeOK
        <3>5. WorksOn' /\ Bounded'
            BY <2>1, <3>1, <3>2 DEF WorksOn, Bounded, Saved, Goto, TypeOK, tables
        <3> QED BY <2>1, <3>4, <3>5 DEF TypeOK, tables, counts
    <2> QED BY <2>2, <2>3
<1>6. CASE Insert(p)
    <2>1. PICK f \in Facturas :
              /\ \A g \in Facturas : g < f <=> factura[g].estado # "ninguna"
              /\ InsertOn(p, f)
              /\ obj' = [obj EXCEPT ![p] = f]
        BY <1>6 DEF Insert
    <2>2. Goto(p, "fin") /\ UNCHANGED <<tarifa, calculo, previo, sueltos, visto, counts>>
        BY <1>6 DEF Insert
    <2> DEFINE r == Row(f, p, calculo[p])
    <2>3. r \in Rows /\ lineas' = lineas \cup {r} /\ pagos' = pagos
        BY <2>1 DEF InsertOn, Row, Rows, TypeOK
    <2> HIDE DEF r
    <2>4. lineas' \subseteq Rows /\ pagos' \subseteq Rows /\ IsFiniteSet(lineas')
        BY <2>3, FS_AddElement DEF TypeOK
    <2>5. factura' = [factura EXCEPT ![f] =
              [estado |-> "PAGO_INICADO", valor |-> calculo[p], reciente |-> TRUE]]
        BY <2>1 DEF InsertOn
    <2>6. factura' \in [Facturas -> [estado : Estados, valor : Nat, reciente : BOOLEAN]]
        BY <2>5 DEF TypeOK, Estados
    <2>7. /\ pc' \in [Peticiones -> Working \cup {"idle", "fin"}]
          /\ obj' \in [Peticiones -> Facturas \cup {Nula}]
        BY <2>1, <2>2, GotoTyped DEF TypeOK
    <2>8. \A g \in Facturas : Saved(g)' => g <= f
        BY <2>1, <2>5, DraftAssumption DEF Saved, TypeOK
    <2>9. Bounded'
        BY <2>8, DraftAssumption DEF Bounded
    <2>10. \A g \in Facturas : Saved(g) => Saved(g)'
        BY <2>5 DEF Saved, TypeOK
    <2>11. "fin" \notin Handling
        BY DEF Handling, Writing, Calling, Paying
    <2>12. \A q \in Peticiones : q # p => pc'[q] = pc[q] /\ obj'[q] = obj[q]
        BY <2>1, <2>2 DEF Goto, TypeOK
    <2>13. pc'[p] = "fin"
        BY <2>2 DEF Goto, TypeOK
    <2>14. WorksOn'
        BY <2>10, <2>11, <2>12, <2>13 DEF WorksOn
    <2> QED BY <2>2, <2>4, <2>6, <2>7, <2>9, <2>14 DEF TypeOK, counts
<1>7. ASSUME NEW f \in Facturas, Consult(p, f) PROVE Typed'
    <2>1. /\ Goto(p, "consulta") /\ obj' = [obj EXCEPT ![p] = f] /\ Saved(f)
          /\ UNCHANGED <<tables, tarifa, calculo, previo, sueltos, visto, counts>>
        BY <1>7 DEF Consult, Saved
    <2>2. "consulta" \in Working \cup {"idle", "fin"}
        BY DEF Working, Calling
    <2>3. /\ pc' \in [Peticiones -> Working \cup {"idle", "fin"}]
          /\ obj' \in [Peticiones -> Facturas \cup {Nula}]
        BY <2>1, <2>2, GotoTyped DEF TypeOK
    <2>4. WorksOn' /\ Bounded'
        BY <2>1 DEF WorksOn, Bounded, Saved, Goto, TypeOK, tables
    <2> QED BY <2>1, <2>3, <2>4 DEF TypeOK, tables, counts
<1>8. CASE ReadInvoice(p)
    <2>1. pc[p] = "consulta" /\ UNCHANGED <<tables, tarifa, obj, sueltos, visto, counts>>
        BY <1>8 DEF ReadInvoice
    <2>2. obj[p] \in Facturas
        BY <2>1 DEF WorksOn, Handling, Calling
    <2>3. Suma(LineasDe(obj[p])) \in Nat
        BY <2>2, LinesTyped
    <2>4. calculo' \in [Peticiones -> Nat] /\ previo' \in [Peticiones -> Nat]
        BY <1>8, <2>3 DEF ReadInvoice, TypeOK
    <2>5. PICK l \in {"fin", "recalcula", "cotizada"} : Goto(p, l)
        BY <1>8 DEF ReadInvoice
    <2>6. l \in Working \cup {"idle", "fin"} /\ pc[p] \in Handling
        BY <2>1, <2>5 DEF Working, Calling, Handling
    <2>7. pc' \in [Peticiones -> Working \cup {"idle", "fin"}] /\ WorksOn' /\ Bounded'
        BY <1>2, <2>1, <2>5, <2>6, GotoTyped, WorksOnKept
    <2> QED BY <2>1, <2>4, <2>7 DEF TypeOK, tables, counts
<1>9. CASE EraseLines(p)
    <2>1. PICK l \in {"lee", "relee"} : Goto(p, l)
        BY <1>9 DEF EraseLines
    <2>2. l \in Working \cup {"idle", "fin"} /\ pc[p] \in Handling
        BY <1>9, <2>1 DEF EraseLines, Working, Creating, Calling, Handling, Writing
    <2>3. TablesTyped /\ Stays
        BY <1>9, EraseTyped DEF EraseLines
    <2>4. UNCHANGED <<tarifa, locals, counts>>
        BY <1>9 DEF EraseLines
    <2> QED BY <1>1, <2>1, <2>2, <2>3, <2>4 DEF locals, counts, TypeOK
<1>10. CASE LoadForSave(p)
    <2>1. pc[p] \in {"lee", "relee"} /\ UNCHANGED <<tables, tarifa, obj, calculo, previo, counts>>
        BY <1>10 DEF LoadForSave
    <2>2. pc[p] \in Handling
        BY <2>1 DEF Handling, Writing, Calling
    <2>3. obj[p] \in Facturas
        BY <2>2 DEF WorksOn
    <2>4. LineasDe(obj[p]) \cup PagosDe(obj[p]) \in SUBSET Rows /\ factura[obj[p]].estado \in Estados
        BY <2>3, LinesTyped DEF TypeOK
    <2>5. sueltos' \in [Peticiones -> SUBSET Rows] /\ visto' \in [Peticiones -> Estados]
        BY <1>10, <2>4 DEF LoadForSave, TypeOK
    <2>6. PICK l \in {"guarda", "reguarda"} : Goto(p, l)
        BY <1>10 DEF LoadForSave
    <2>7. l \in Working \cup {"idle", "fin"}
        BY <2>6 DEF Working, Creating, Calling
    <2>8. pc' \in [Peticiones -> Working \cup {"idle", "fin"}] /\ WorksOn' /\ Bounded'
        BY <1>2, <2>1, <2>2, <2>6, <2>7, GotoTyped, WorksOnKept
    <2> QED BY <2>1, <2>5, <2>8 DEF TypeOK, tables, counts
<1>11. CASE Save(p)
    <2>1. PICK l \in {"fin", "cotizada"} : Goto(p, l)
        BY <1>11 DEF Save
    <2>2. l \in Working \cup {"idle", "fin"} /\ pc[p] \in Handling
        BY <1>11, <2>1 DEF Save, SaveOn, Working, Calling, Handling, Writing
    <2>3. TablesTyped /\ Stays
        BY <1>11, SaveOnTyped DEF Save
    <2>4. UNCHANGED <<tarifa, locals, counts>>
        BY <1>11 DEF Save
    <2> QED BY <1>1, <2>1, <2>2, <2>3, <2>4 DEF locals, counts, TypeOK
<1>12. CASE Pay(p)
    <2>1. Goto(p, "fin") /\ UNCHANGED <<tarifa, locals, counts>> /\ TablesTyped /\ Stays
        BY <1>12, PayOnTyped DEF Pay
    <2>2. "fin" \notin Handling
        BY DEF Handling, Writing, Calling, Paying
    <2> QED BY <1>1, <2>1, <2>2 DEF locals, counts, TypeOK
<1>13. CASE Fail(p) \/ CommitLost(p)
    <2>1. Goto(p, "fin") /\ UNCHANGED <<tarifa, locals, reversos, aparte, tarifas>>
        BY <1>13 DEF Fail, CommitLost
    <2>2. fallas' \in 0 .. MaxFallas
        <3>1. fallas < MaxFallas /\ fallas' = fallas + 1
            BY <1>13 DEF Fail, CommitLost
        <3>2. fallas \in 0 .. MaxFallas
            BY DEF TypeOK
        <3> QED BY <3>1, <3>2, DraftAssumption
    <2>3. TablesTyped /\ Stays
        BY <1>2, <1>13, SaveOnTyped, PayOnTyped, EraseTyped DEF Fail, CommitLost
    <2>4. "fin" \notin Handling
        BY DEF Handling, Writing, Calling, Paying
    <2> QED BY <1>1, <2>1, <2>2, <2>3, <2>4 DEF locals, TypeOK
<1> QED BY <1>3, <1>4, <1>5, <1>6, <1>7, <1>8, <1>9, <1>10, <1>11, <1>12, <1>13
        DEF RequestStep, Step

LEMMA TypedStep == Typed /\ [Next]_vars => Typed'
<1> SUFFICES ASSUME Typed, [Next]_vars PROVE Typed'
    OBVIOUS
<1> USE DraftAssumption DEF Typed
<1>1. ASSUME NEW p \in Peticiones, RequestStep(p) PROVE Typed'
    BY <1>1, RequestTyped
<1>2. ASSUME NEW f \in Facturas, Reverse(f) PROVE Typed'
    <2>1. /\ factura' = [factura EXCEPT ![f].estado = "PAGO_INICADO"]
          /\ reversos' = reversos \cup {f}
          /\ UNCHANGED <<lineas, tarifa, pc, locals, aparte, tarifas, fallas>>
        BY <1>2 DEF Reverse
    <2>2. PICK g \in PagosDe(f) : pagos' = pagos \ {g}
        BY <1>2 DEF Reverse
    <2>3. factura' \in [Facturas -> [estado : Estados, valor : Nat, reciente : BOOLEAN]]
        BY <2>1 DEF TypeOK, Estados
    <2>4. \A h \in Facturas : Saved(h)' <=> Saved(h) \/ h = f
        BY <2>1 DEF TypeOK, Saved
    <2>5. Bounded'
        <3>1. PICK n \in Nat : \A h \in Facturas : Saved(h) => h <= n
            BY DEF Bounded
        <3>2. \E m \in Nat : n <= m /\ f <= m
            BY <3>1
        <3>3. PICK m \in Nat : n <= m /\ f <= m
            BY <3>2
        <3>4. \A h \in Facturas : Saved(h)' => h <= m
            BY <2>4, <3>1, <3>3
        <3> QED BY <3>4 DEF Bounded
    <2>6. WorksOn'
        BY <2>1, <2>4 DEF WorksOn, locals
    <2>7. pagos' \subseteq Rows
        BY <2>2 DEF TypeOK
    <2> QED BY <2>1, <2>3, <2>5, <2>6, <2>7 DEF TypeOK, locals
<1>3. ASSUME NEW f \in Facturas, Expire(f) PROVE Typed'
    <2>1. /\ factura' = [factura EXCEPT ![f].reciente = FALSE]
          /\ UNCHANGED <<lineas, pagos, tarifa, pc, locals, counts>>
        BY <1>3 DEF Expire
    <2>2. factura' \in [Facturas -> [estado : Estados, valor : Nat, reciente : BOOLEAN]]
        BY <2>1 DEF TypeOK
    <2>3. \A h \in Facturas : factura'[h].estado = factura[h].estado
        BY <2>1 DEF TypeOK
    <2>4. WorksOn' /\ Bounded'
        BY <2>1, <2>3 DEF WorksOn, Bounded, Saved, locals
    <2> QED BY <2>1, <2>2, <2>4 DEF TypeOK, locals, counts
<1>4. CASE ChangePrice
    <2>1. /\ tarifas' \in 0 .. MaxTarifas /\ tarifa' \in Precios
          /\ UNCHANGED <<tables, pc, locals, reversos, aparte, fallas>>
        BY <1>4 DEF ChangePrice, TypeOK
    <2> QED BY <2>1 DEF TypeOK, WorksOn, Bounded, Saved, tables, locals
<1>5. CASE Crash
    <2>1. /\ fallas < MaxFallas /\ fallas' = fallas + 1
          /\ UNCHANGED <<tables, tarifa, locals, reversos, aparte, tarifas>>
          /\ pc' = [p \in Peticiones |-> IF Active(p) THEN "fin" ELSE pc[p]]
        BY <1>5 DEF Crash
    <2>2. fallas' \in 0 .. MaxFallas
        BY <2>1 DEF TypeOK
    <2>3. pc' \in [Peticiones -> Working \cup {"idle", "fin"}]
        BY <2>1 DEF TypeOK
    <2>4. "fin" \notin Handling /\ \A p \in Peticiones : pc'[p] = pc[p] \/ pc'[p] = "fin"
        BY <2>1 DEF Handling, Writing, Calling, Paying
    <2>5. WorksOn' /\ Bounded'
        BY <2>1, <2>4 DEF WorksOn, Bounded, Saved, tables, locals
    <2> QED BY <2>1, <2>2, <2>3, <2>5 DEF TypeOK, tables, locals
<1>6. CASE UNCHANGED vars
    BY <1>6 DEF TypeOK, WorksOn, Bounded, Saved, vars, tables, locals, counts
<1> QED BY <1>1, <1>2, <1>3, <1>4, <1>5, <1>6 DEF Next, RequestStep

(* A request's step leaves the variables of the others alone. *)
Others(p) == \A q \in Peticiones \ {p} :
    /\ pc'[q] = pc[q] /\ obj'[q] = obj[q] /\ calculo'[q] = calculo[q]
    /\ previo'[q] = previo[q] /\ sueltos'[q] = sueltos[q] /\ visto'[q] = visto[q]

LEMMA OthersStand ==
    ASSUME Typed, NEW p \in Peticiones, RequestStep(p)
    PROVE  Others(p)
<1> USE DEF Typed, TypeOK, Others, Goto, locals
<1>1. CASE Create(p) \/ GoPay(p) \/ GiveUp(p) \/ Fail(p) \/ CommitLost(p)
    BY <1>1 DEF Create, GoPay, GiveUp, Fail, CommitLost
<1>2. ASSUME NEW f \in Facturas, Consult(p, f) PROVE Others(p)
    BY <1>2 DEF Consult
<1>3. CASE Price(p) \/ FindDuplicate(p) \/ Insert(p)
    BY <1>3 DEF Price, FindDuplicate, Insert
<1>4. CASE ReadInvoice(p) \/ PriceAgain(p)
    BY <1>4 DEF ReadInvoice, PriceAgain
<1>5. CASE EraseLines(p) \/ LoadForSave(p) \/ Save(p) \/ SaveRefused(p)
    BY <1>5 DEF EraseLines, LoadForSave, Save, SaveRefused
<1>6. CASE FindForPayment(p) \/ Pay(p)
    BY <1>6 DEF FindForPayment, Pay
<1> QED BY <1>1, <1>2, <1>3, <1>4, <1>5, <1>6 DEF RequestStep, Step

-----------------------------------------------------------------------------
(* The state of an invoice and its payments. *)

UnsavedUnpaid == \A f \in Facturas : ~ Saved(f) => PagosDe(f) = {}

PaidShows == \A f \in Facturas :
    /\ factura[f].estado = "PAGO_FINALIZADO_OK" => PagosDe(f) # {}
    /\ PagosDe(f) # {} /\ f \notin reversos => factura[f].estado = "PAGO_FINALIZADO_OK"

(* A save that has loaded a paid invoice has its payments among the rows   *)
(* it would detach, and is refused; they may only be gone by a reversal.   *)
LoadedAt(p) ==
    pc[p] \in {"guarda", "reguarda"} =>
        /\ \A r \in sueltos[p] : r.fac = obj[p]
        /\ visto[p] # "PAGO_INICADO" => obj[p] \in reversos \/ sueltos[p] \cap pagos # {}

EstadoInv == Typed /\ UnsavedUnpaid /\ PaidShows /\ \A p \in Peticiones : LoadedAt(p)

LEMMA LoadedOthers ==
    ASSUME \A q \in Peticiones : LoadedAt(q), NEW p \in Peticiones, Others(p),
           pagos \subseteq pagos', reversos \subseteq reversos', LoadedAt(p)'
    PROVE  \A q \in Peticiones : LoadedAt(q)'
BY DEF LoadedAt, Others

LEMMA StateOfSave ==
    ASSUME EstadoInv, NEW p \in Peticiones, SaveOn(p), reversos' = reversos
    PROVE  UnsavedUnpaid' /\ PaidShows'
<1> USE DEF EstadoInv
<1> DEFINE f == obj[p]
<1>1. f \in Facturas /\ Saved(f) /\ pc[p] \in {"guarda", "reguarda"}
    BY DEF SaveOn, Typed, WorksOn, Handling, Writing, Calling
<1>2. pagos' = pagos /\ \A g \in Facturas : factura'[g].estado =
          IF g = f /\ visto[p] # "PAGO_INICADO" THEN "PAGO_INICADO" ELSE factura[g].estado
    <2>1. factura' = [factura EXCEPT ![f].valor = calculo[p],
              ![f].estado = IF visto[p] = "PAGO_INICADO" THEN @ ELSE "PAGO_INICADO"]
        BY DEF SaveOn
    <2>2. pagos' = pagos
        BY DEF SaveOn
    <2> HIDE DEF f
    <2> QED BY <2>1, <2>2, <1>1 DEF Typed, TypeOK
<1>3. visto[p] # "PAGO_INICADO" => f \in reversos
    <2>1. sueltos[p] \cap pagos = {}
        BY DEF SaveOn, Refused
    <2> QED BY <1>1, <2>1 DEF LoadedAt
<1>4. UnsavedUnpaid'
    BY <1>1, <1>2 DEF UnsavedUnpaid, Saved, PagosDe
<1>5. PaidShows'
    BY <1>2, <1>3 DEF PaidShows, PagosDe
<1> QED BY <1>4, <1>5

LEMMA StateOfPay ==
    ASSUME EstadoInv, NEW p \in Peticiones, PayOn(p), reversos' = reversos
    PROVE  UnsavedUnpaid' /\ PaidShows'
<1> USE DEF EstadoInv
<1>1. PICK f \in Facturas : f = obj[p] /\ Saved(f)
    BY DEF PayOn, Typed, WorksOn, Handling, Paying
<1> DEFINE r == Row(f, p, calculo[p])
<1>2. pagos' = pagos \cup {r} /\ r.fac = f
    BY <1>1 DEF PayOn, Row
<1> HIDE DEF r
<1>3. \A g \in Facturas : factura'[g].estado =
          IF g = f THEN "PAGO_FINALIZADO_OK" ELSE factura[g].estado
    BY <1>1 DEF PayOn, Typed, TypeOK
<1>4. \A g \in Facturas : g # f => PagosDe(g)' = PagosDe(g)
    BY <1>2 DEF PagosDe
<1>5. PagosDe(f)' # {}
    <2>1. r \in PagosDe(f)'
        BY <1>2 DEF PagosDe
    <2> QED BY <2>1
<1>6. UnsavedUnpaid'
    BY <1>3, <1>4 DEF UnsavedUnpaid, Saved
<1>7. PaidShows'
    BY <1>3, <1>4, <1>5 DEF PaidShows
<1> QED BY <1>6, <1>7

LEMMA StateOfRequest ==
    ASSUME EstadoInv, NEW p \in Peticiones, RequestStep(p)
    PROVE  (UnsavedUnpaid /\ PaidShows)' /\ \A q \in Peticiones : LoadedAt(q)'
<1> USE DEF EstadoInv
<1>1. Others(p)
    BY OthersStand
<1>2. ASSUME UNCHANGED <<factura, pagos, reversos>> PROVE UnsavedUnpaid' /\ PaidShows'
    BY <1>2 DEF UnsavedUnpaid, PaidShows, Saved, PagosDe
<1>3. ASSUME pc'[p] \notin {"guarda", "reguarda"} PROVE LoadedAt(p)'
    BY <1>3 DEF LoadedAt
<1>4. \A l : Goto(p, l) => pc'[p] = l
    BY DEF Goto, Typed, TypeOK
<1>5. CASE Create(p) \/ SaveRefused(p) \/ GoPay(p) \/ GiveUp(p) \/ FindForPayment(p) \/ Fail(p)
    <2>1. UNCHANGED <<factura, pagos, reversos>> /\ pc'[p] \notin {"guarda", "reguarda"}
        BY <1>4, <1>5 DEF Create, SaveRefused, GoPay, GiveUp, FindForPayment, Fail, tables, counts
    <2> QED BY <1>1, <1>2, <1>3, <2>1, LoadedOthers
<1>6. CASE Price(p) \/ PriceAgain(p) \/ FindDuplicate(p) \/ ReadInvoice(p)
    <2>1. UNCHANGED <<factura, pagos, reversos>>
        BY <1>6 DEF Price, PriceAgain, FindDuplicate, ReadInvoice, tables, counts
    <2>2. pc'[p] \notin {"guarda", "reguarda"}
        BY <1>4, <1>6 DEF Price, PriceAgain, FindDuplicate, ReadInvoice
    <2> QED BY <1>1, <1>2, <1>3, <2>1, <2>2, LoadedOthers
<1>7. CASE EraseLines(p)
    <2>1. UNCHANGED <<factura, pagos, reversos>>
        BY <1>7 DEF EraseLines, counts
    <2>2. pc'[p] \notin {"guarda", "reguarda"}
        BY <1>4, <1>7 DEF EraseLines
    <2> QED BY <1>1, <1>2, <1>3, <2>1, <2>2, LoadedOthers
<1>8. ASSUME NEW f \in Facturas, Consult(p, f)
      PROVE  (UnsavedUnpaid /\ PaidShows)' /\ \A q \in Peticiones : LoadedAt(q)'
    <2>1. UNCHANGED <<factura, pagos, reversos>> /\ pc'[p] = "consulta"
        BY <1>4, <1>8 DEF Consult, tables, counts
    <2> QED BY <1>1, <1>2, <1>3, <2>1, LoadedOthers
<1>9. CASE Insert(p)
    <2>1. PICK f \in Facturas : ~ Saved(f) /\ InsertOn(p, f)
        <3>1. PICK f \in Facturas : (f < f <=> Saved(f)) /\ InsertOn(p, f)
            BY <1>9 DEF Insert, Saved
        <3> QED BY <3>1, DraftAssumption
    <2>2. pagos' = pagos /\ reversos' = reversos /\ pc'[p] = "fin"
        BY <1>4, <1>9, <2>1 DEF Insert, InsertOn, counts
    <2>3. \A g \in Facturas : factura'[g].estado =
              IF g = f THEN "PAGO_INICADO" ELSE factura[g].estado
        BY <2>1 DEF InsertOn, Typed, TypeOK
    <2>4. PagosDe(f) = {} /\ \A g \in Facturas : PagosDe(g)' = PagosDe(g)
        BY <2>1, <2>2 DEF UnsavedUnpaid, PagosDe
    <2>5. UnsavedUnpaid' /\ PaidShows'
        BY <2>2, <2>3, <2>4 DEF UnsavedUnpaid, PaidShows, Saved
    <2> QED BY <1>1, <1>3, <2>2, <2>5, LoadedOthers
<1>10. CASE LoadForSave(p)
    <2> DEFINE f == obj[p]
    <2>1. /\ UNCHANGED <<factura, pagos, reversos, obj>> /\ f \in Facturas /\ Saved(f)
          /\ sueltos'[p] = LineasDe(f) \cup PagosDe(f) /\ visto'[p] = factura[f].estado
        BY <1>10 DEF LoadForSave, tables, counts, Typed, TypeOK, WorksOn, Handling, Writing, Calling
    <2>2. \A r \in LineasDe(f) \cup PagosDe(f) : r.fac = f
        BY DEF LineasDe, PagosDe
    <2>3. PagosDe(f) \subseteq pagos
        BY DEF PagosDe
    <2>4. factura[f].estado \in Estados
        BY <2>1 DEF Typed, TypeOK
    <2>5. visto'[p] # "PAGO_INICADO" => PagosDe(f) # {}
        BY <2>1, <2>4 DEF PaidShows, Estados, Saved
    <2>6. LoadedAt(p)'
        BY <2>1, <2>2, <2>3, <2>5 DEF LoadedAt
    <2> QED BY <1>1, <1>2, <2>1, <2>6, LoadedOthers
<1>11. CASE Save(p)
    <2>1. SaveOn(p) /\ reversos' = reversos /\ pagos' = pagos
        BY <1>11 DEF Save, SaveOn, counts
    <2>2. pc'[p] \notin {"guarda", "reguarda"}
        BY <1>4, <1>11 DEF Save
    <2> QED BY <1>1, <1>3, <2>1, <2>2, StateOfSave, LoadedOthers
<1>12. CASE Pay(p)
    <2>1. PayOn(p) /\ reversos' = reversos /\ pagos \subseteq pagos' /\ pc'[p] = "fin"
        BY <1>4, <1>12 DEF Pay, PayOn, counts
    <2> QED BY <1>1, <1>3, <2>1, StateOfPay, LoadedOthers
<1>13. CASE CommitLost(p)
    <2>1. reversos' = reversos /\ pagos \subseteq pagos' /\ pc'[p] = "fin"
        BY <1>4, <1>13 DEF CommitLost, SaveOn, PayOn
    <2>2. UnsavedUnpaid' /\ PaidShows'
        BY <1>2, <1>13, <2>1, StateOfSave, StateOfPay DEF CommitLost
    <2> QED BY <1>1, <1>3, <2>1, <2>2, LoadedOthers
<1> QED BY <1>5, <1>6, <1>7, <1>8, <1>9, <1>10, <1>11, <1>12, <1>13 DEF RequestStep, Step

LEMMA EstadoStep == EstadoInv /\ [Next]_vars => EstadoInv'
<1> SUFFICES ASSUME EstadoInv, [Next]_vars
             PROVE  (UnsavedUnpaid /\ PaidShows)' /\ \A q \in Peticiones : LoadedAt(q)'
    BY TypedStep DEF EstadoInv
<1> USE DEF EstadoInv
<1>1. ASSUME NEW p \in Peticiones, RequestStep(p)
      PROVE  (UnsavedUnpaid /\ PaidShows)' /\ \A q \in Peticiones : LoadedAt(q)'
    BY <1>1, StateOfRequest
<1>2. ASSUME NEW f \in Facturas, Reverse(f)
      PROVE  (UnsavedUnpaid /\ PaidShows)' /\ \A q \in Peticiones : LoadedAt(q)'
    <2>1. PICK g \in PagosDe(f) : pagos' = pagos \ {g}
        BY <1>2 DEF Reverse
    <2>2. reversos' = reversos \cup {f} /\ UNCHANGED <<pc, obj, sueltos, visto>>
        BY <1>2 DEF Reverse, locals
    <2>3. \A h \in Facturas : factura'[h].estado = IF h = f THEN "PAGO_INICADO" ELSE factura[h].estado
        BY <1>2 DEF Reverse, Typed, TypeOK
    <2>4. g.fac = f /\ \A h \in Facturas : h # f => PagosDe(h)' = PagosDe(h)
        BY <2>1 DEF PagosDe
    <2>5. UnsavedUnpaid' /\ PaidShows'
        BY <2>2, <2>3, <2>4 DEF UnsavedUnpaid, PaidShows, Saved
    <2>6. ASSUME NEW q \in Peticiones PROVE LoadedAt(q)'
        BY <2>1, <2>2, <2>4 DEF LoadedAt
    <2> QED BY <2>5, <2>6
<1>3. ASSUME NEW f \in Facturas, Expire(f)
      PROVE  (UnsavedUnpaid /\ PaidShows)' /\ \A q \in Peticiones : LoadedAt(q)'
    <2>1. UNCHANGED <<pagos, pc, obj, sueltos, visto, reversos>>
        BY <1>3 DEF Expire, locals, counts
    <2>2. \A h \in Facturas : factura'[h].estado = factura[h].estado
        BY <1>3 DEF Expire, Typed, TypeOK
    <2> QED BY <2>1, <2>2 DEF UnsavedUnpaid, PaidShows, LoadedAt, Saved, PagosDe
<1>4. CASE ChangePrice \/ UNCHANGED vars
    BY <1>4 DEF ChangePrice, vars, tables, locals, counts, UnsavedUnpaid, PaidShows, LoadedAt, Saved, PagosDe
<1>5. CASE Crash
    <2>1. UNCHANGED <<factura, pagos, obj, sueltos, visto, reversos>>
        BY <1>5 DEF Crash, tables, locals
    <2>2. \A q \in Peticiones : pc'[q] = pc[q] \/ pc'[q] = "fin"
        BY <1>5 DEF Crash
    <2> QED BY <2>1, <2>2 DEF UnsavedUnpaid, PaidShows, LoadedAt, Saved, PagosDe
<1> QED BY <1>1, <1>2, <1>3, <1>4, <1>5 DEF Next, RequestStep

(* However drafts, consultations, payments and reversals overlap, a save   *)
(* never undoes a payment: an invoice shows as paid only with a payment,   *)
(* and always with one, unless one of its payments was taken back.         *)
THEOREM EstadoProved == Spec => []EstadoFiel
<1>1. Init => EstadoInv
    <2> SUFFICES ASSUME Init PROVE EstadoInv
        OBVIOUS
    <2>1. \A f \in Facturas : PagosDe(f) = {} /\ factura[f].estado = "ninguna"
        BY DEF Init, PagosDe
    <2> QED BY <2>1, InitTyped DEF Init, EstadoInv, UnsavedUnpaid, PaidShows, LoadedAt
<1>2. EstadoInv => EstadoFiel
    BY DEF EstadoInv, Typed, PaidShows, EstadoFiel
<1> QED BY <1>1, <1>2, EstadoStep, PTL DEF Spec

-----------------------------------------------------------------------------
(* A paid invoice keeps lines, with payments apart from the writers. *)

LineWork == Writing \cup (Calling \ {"cotizada"})

KeptApart == \A p, q \in Peticiones :
    pc[p] \in Paying /\ pc[q] \in LineWork => obj[p] # obj[q]

(* A payment that found lines finds them still, and who may delete lines   *)
(* has seen that there is no payment, and there is none yet.               *)
LinesAt(p) ==
    /\ pc[p] = "paga" => LineasDe(obj[p]) # {}
    /\ pc[p] \in {"borra", "recalcula", "reborra"} => PagosDe(obj[p]) = {}

PaidLines == \A f \in Facturas : PagosDe(f) # {} => LineasDe(f) # {}

LineBody == KeptApart /\ PaidLines /\ \A p \in Peticiones : LinesAt(p)
LineInv  == Typed /\ (aparte # "nada" => LineBody)

(* Who leaves or goes on keeps the others apart; lines vanish only where   *)
(* they are deleted, and payments appear only where they are made.         *)
LEMMA LineRequest ==
    ASSUME Typed, LineBody, NEW p \in Peticiones, Others(p),
           pc'[p] \in Paying => \/ pc[p] \in Paying /\ obj'[p] = obj[p]
                                \/ \A q \in Peticiones \ {p} : pc[q] \in LineWork => obj[q] # obj'[p],
           pc'[p] \in LineWork => \/ pc[p] \in LineWork /\ obj'[p] = obj[p]
                                  \/ \A q \in Peticiones \ {p} : pc[q] \in Paying => obj[q] # obj'[p],
           lineas \subseteq lineas' \/ (pc[p] \in {"borra", "reborra"} /\ lineas' = lineas \ LineasDe(obj[p])),
           pagos' = pagos \/ (pc[p] = "paga" /\ \A g \in pagos' : g \in pagos \/ g.fac = obj[p]),
           LinesAt(p)'
    PROVE  LineBody'
<1> USE DEF LineBody, Others
<1>1. Paying \cap LineWork = {}
    BY DEF Paying, LineWork, Writing, Calling
<1>2. KeptApart'
    BY <1>1 DEF KeptApart
<1>3. ASSUME NEW f \in Facturas, LineasDe(f) # {}, LineasDe(f)' = {}
      PROVE  pc[p] \in {"borra", "reborra"} /\ obj[p] = f
    BY <1>3 DEF LineasDe
<1>4. ASSUME NEW f \in Facturas, PagosDe(f) = {}, PagosDe(f)' # {}
      PROVE  pc[p] = "paga" /\ obj[p] = f
    BY <1>4 DEF PagosDe
<1>5. PaidLines'
    <2> SUFFICES ASSUME NEW f \in Facturas, PagosDe(f)' # {}, LineasDe(f)' = {} PROVE FALSE
        BY DEF PaidLines
    <2>1. CASE PagosDe(f) # {}
        BY <1>3, <2>1 DEF PaidLines, LinesAt
    <2>2. CASE PagosDe(f) = {}
        BY <1>3, <1>4, <2>2 DEF LinesAt
    <2> QED BY <2>1, <2>2
<1>6. ASSUME NEW q \in Peticiones \ {p} PROVE LinesAt(q)'
    <2>1. CASE pc[q] = "paga"
        <3>1. PICK f \in Facturas : f = obj[q]
            BY <2>1 DEF Typed, WorksOn, Handling, Paying
        <3>2. ~ (pc[p] \in {"borra", "reborra"} /\ obj[p] = f)
            BY <2>1, <3>1 DEF KeptApart, LineWork, Writing, Calling, Paying
        <3>3. LineasDe(f)' # {}
            BY <1>3, <2>1, <3>1, <3>2 DEF LinesAt
        <3> QED BY <2>1, <3>1, <3>3 DEF LinesAt
    <2>2. CASE pc[q] \in {"borra", "recalcula", "reborra"}
        <3>1. PICK f \in Facturas : f = obj[q]
            BY <2>2 DEF Typed, WorksOn, Handling, Writing, Calling
        <3>2. ~ (pc[p] = "paga" /\ obj[p] = f)
            BY <2>2, <3>1 DEF KeptApart, LineWork, Writing, Calling, Paying
        <3>3. PagosDe(f)' = {}
            BY <1>4, <2>2, <3>1, <3>2 DEF LinesAt
        <3> QED BY <2>2, <3>1, <3>3 DEF LinesAt
    <2> QED BY <2>1, <2>2 DEF LinesAt
<1> QED BY <1>2, <1>5, <1>6

LEMMA LineOfRequest ==
    ASSUME Typed, aparte # "nada", LineBody, NEW p \in Peticiones, RequestStep(p)
    PROVE  LineBody'
<1>1. Others(p)
    BY OthersStand
<1>2. \A l : Goto(p, l) => pc'[p] = l
    BY DEF Goto, Typed, TypeOK
<1> DEFINE Out == {"idle", "calcula", "duplicado", "inserta", "cotizada", "fin"}
<1>3. \A l \in Out : l \notin Paying /\ l \notin LineWork /\ l \notin {"paga", "borra", "recalcula", "reborra"}
    BY DEF Paying, LineWork, Writing, Calling
<1>4. ASSUME pc'[p] \in Out, UNCHANGED <<lineas, pagos>> PROVE LineBody'
    BY <1>1, <1>3, <1>4, LineRequest DEF LinesAt
<1>5. CASE Create(p) \/ SaveRefused(p) \/ GiveUp(p) \/ Fail(p)
    BY <1>2, <1>4, <1>5 DEF Create, SaveRefused, GiveUp, Fail, tables
<1>6. CASE Price(p)
    BY <1>2, <1>4, <1>6 DEF Price, tables
<1>7. CASE FindDuplicate(p)
    <2>1. UNCHANGED <<lineas, pagos>>
        BY <1>7 DEF FindDuplicate, tables
    <2>2. CASE Reusable = {}
        BY <1>2, <1>4, <1>7, <2>1, <2>2 DEF FindDuplicate
    <2>3. CASE Reusable # {}
        <3>1. PICK f \in Facturas : f = Max(Reusable) /\ PagosDe(f) = {}
            BY <2>3, LatestIsReusable DEF Typed, Reusable
        <3>2. obj'[p] = f /\ PaysOn(f) = {} /\ pc'[p] = "borra"
            BY <1>2, <1>7, <2>3, <3>1 DEF FindDuplicate, Typed, TypeOK
        <3>3. \A q \in Peticiones \ {p} : pc[q] \in Paying => obj[q] # obj'[p]
            BY <3>2 DEF PaysOn
        <3>4. PagosDe(f)' = {}
            BY <2>1, <3>1 DEF PagosDe
        <3>5. LinesAt(p)' /\ pc'[p] \notin Paying
            BY <3>2, <3>4 DEF LinesAt, Paying
        <3> QED BY <1>1, <2>1, <3>3, <3>5, LineRequest
    <2> QED BY <2>2, <2>3
<1>8. CASE Insert(p)
    <2>1. pc'[p] = "fin" /\ lineas \subseteq lineas' /\ pagos' = pagos
        BY <1>2, <1>8 DEF Insert, InsertOn
    <2> QED BY <1>1, <1>3, <2>1, LineRequest DEF LinesAt
<1>9. ASSUME NEW f \in Facturas, Consult(p, f) PROVE LineBody'
    <2>1. UNCHANGED <<lineas, pagos>> /\ pc'[p] = "consulta" /\ obj'[p] = f /\ PaysOn(f) = {}
        BY <1>2, <1>9 DEF Consult, tables, Typed, TypeOK
    <2>2. \A q \in Peticiones \ {p} : pc[q] \in Paying => obj[q] # obj'[p]
        BY <2>1 DEF PaysOn
    <2> QED BY <1>1, <2>1, <2>2, LineRequest DEF LinesAt, Paying
<1>10. CASE ReadInvoice(p)
    <2>1. UNCHANGED <<lineas, pagos, obj>> /\ pc[p] = "consulta"
        BY <1>10 DEF ReadInvoice, tables
    <2>2. CASE Goto(p, "fin") \/ Goto(p, "cotizada")
        BY <1>2, <1>4, <2>1, <2>2
    <2>3. CASE PagosDe(obj[p]) = {} /\ Goto(p, "recalcula")
        <3>1. pc'[p] = "recalcula" /\ PagosDe(obj[p])' = {}
            BY <1>2, <2>1, <2>3 DEF PagosDe
        <3> QED BY <1>1, <2>1, <3>1, LineRequest DEF LinesAt, Paying, LineWork, Calling
    <2> QED BY <1>10, <2>2, <2>3 DEF ReadInvoice
<1>11. CASE PriceAgain(p)
    <2>1. UNCHANGED <<lineas, pagos, obj>> /\ pc[p] = "recalcula" /\ LinesAt(p)
        BY <1>11 DEF PriceAgain, tables, LineBody
    <2>2. CASE Goto(p, "cotizada")
        BY <1>2, <1>4, <2>1, <2>2
    <2>3. CASE Goto(p, "reborra")
        <3>1. pc'[p] = "reborra" /\ PagosDe(obj[p])' = {}
            BY <1>2, <2>1, <2>3 DEF PagosDe, LinesAt
        <3> QED BY <1>1, <2>1, <3>1, LineRequest DEF LinesAt, Paying, LineWork, Calling
    <2> QED BY <1>11, <2>2, <2>3 DEF PriceAgain
<1>12. CASE EraseLines(p)
    <2>1. /\ pc[p] \in {"borra", "reborra"} /\ lineas' = lineas \ LineasDe(obj[p])
          /\ pagos' = pagos /\ obj' = obj
        BY <1>12 DEF EraseLines, locals
    <2>2. pc'[p] \in {"lee", "relee"}
        BY <1>2, <1>12 DEF EraseLines
    <2> QED BY <1>1, <2>1, <2>2, LineRequest DEF LinesAt, Paying, LineWork, Writing, Calling
<1>13. CASE LoadForSave(p)
    <2>1. UNCHANGED <<lineas, pagos, obj>> /\ pc[p] \in {"lee", "relee"}
        BY <1>13 DEF LoadForSave, tables
    <2>2. pc'[p] \in {"guarda", "reguarda"}
        BY <1>2, <1>13 DEF LoadForSave
    <2> QED BY <1>1, <2>1, <2>2, LineRequest DEF LinesAt, Paying, LineWork, Writing, Calling
<1>14. CASE Save(p)
    <2>1. lineas \subseteq lineas' /\ pagos' = pagos
        BY <1>14 DEF Save, SaveOn
    <2>2. pc'[p] \in {"fin", "cotizada"}
        BY <1>2, <1>14 DEF Save
    <2> QED BY <1>1, <1>3, <2>1, <2>2, LineRequest DEF LinesAt
<1>15. CASE GoPay(p)
    <2>1. UNCHANGED <<lineas, pagos, obj>> /\ pc'[p] = "paga: busca" /\ WritesOn(obj[p]) \ {p} = {}
        BY <1>2, <1>15 DEF GoPay, tables, locals
    <2>2. \A q \in Peticiones \ {p} : pc[q] \in LineWork => obj[q] # obj'[p]
        BY <2>1 DEF WritesOn, LineWork
    <2> QED BY <1>1, <2>1, <2>2, LineRequest DEF LinesAt, LineWork, Writing, Calling
<1>16. CASE FindForPayment(p)
    <2>1. UNCHANGED <<lineas, pagos, obj>> /\ pc[p] = "paga: busca"
        BY <1>16 DEF FindForPayment, tables, locals
    <2>2. CASE Goto(p, "fin")
        BY <1>2, <1>4, <2>1, <2>2
    <2>3. CASE LineasDe(obj[p]) # {} /\ Goto(p, "paga")
        <3>1. pc'[p] = "paga" /\ LineasDe(obj[p])' # {}
            BY <1>2, <2>1, <2>3 DEF LineasDe
        <3> QED BY <1>1, <2>1, <3>1, LineRequest DEF LinesAt, Paying, LineWork, Writing, Calling
    <2> QED BY <1>16, <2>2, <2>3 DEF FindForPayment
<1>17. CASE Pay(p) \/ CommitLost(p)
    <2>1. pc'[p] = "fin"
        BY <1>2, <1>17 DEF Pay, CommitLost
    <2>2. PayOn(p) => /\ pc[p] = "paga" /\ lineas' = lineas
                      /\ \A g \in pagos' : g \in pagos \/ g.fac = obj[p]
        BY DEF PayOn, Row
    <2>3. SaveOn(p) => lineas \subseteq lineas' /\ pagos' = pagos
        BY DEF SaveOn
    <2>4. \/ PayOn(p) \/ SaveOn(p)
          \/ /\ pc[p] \in {"borra", "reborra"}
             /\ lineas' = lineas \ LineasDe(obj[p])
             /\ pagos' = pagos
        BY <1>17 DEF Pay, CommitLost
    <2> QED BY <1>1, <1>3, <2>1, <2>2, <2>3, <2>4, LineRequest DEF LinesAt
<1> QED BY <1>5, <1>6, <1>7, <1>8, <1>9, <1>10, <1>11, <1>12, <1>13, <1>14, <1>15, <1>16, <1>17
        DEF RequestStep, Step

(* The environment keeps to what it keeps apart. *)
LEMMA AparteStands == [Next]_vars => aparte' = aparte
<1> SUFFICES ASSUME [Next]_vars PROVE aparte' = aparte
    OBVIOUS
<1>1. ASSUME NEW p \in Peticiones, Step(p) PROVE aparte' = aparte
    BY <1>1 DEF Step, Price, FindDuplicate, Insert, ReadInvoice, PriceAgain, EraseLines, LoadForSave,
                Save, SaveRefused, FindForPayment, Pay, counts
<1>2. ASSUME NEW p \in Peticiones, RequestStep(p) PROVE aparte' = aparte
    BY <1>1, <1>2 DEF RequestStep, Create, Consult, GoPay, GiveUp, Fail, CommitLost, counts
<1> QED BY <1>2 DEF Next, RequestStep, Reverse, Expire, ChangePrice, Crash, vars, counts

LEMMA LineStep == LineInv /\ [Next]_vars => LineInv'
<1> SUFFICES ASSUME Typed, aparte # "nada", LineBody, [Next]_vars PROVE LineBody'
    BY TypedStep, AparteStands DEF LineInv
<1>1. ASSUME NEW p \in Peticiones, RequestStep(p) PROVE LineBody'
    BY <1>1, LineOfRequest
<1>2. ASSUME UNCHANGED <<lineas, obj>>, pagos' \subseteq pagos,
             \A q \in Peticiones : pc'[q] = pc[q] \/ pc'[q] = "fin"
      PROVE  LineBody'
    <2>1. \A f : LineasDe(f)' = LineasDe(f) /\ (PagosDe(f) = {} => PagosDe(f)' = {})
        BY <1>2 DEF LineasDe, PagosDe
    <2>2. "fin" \notin Paying /\ "fin" \notin LineWork
        BY DEF Paying, LineWork, Writing, Calling
    <2>3. KeptApart'
        BY <1>2, <2>2 DEF KeptApart, LineBody
    <2>4. PaidLines'
        BY <2>1 DEF PaidLines, LineBody
    <2>5. ASSUME NEW q \in Peticiones PROVE LinesAt(q)'
        <3>1. LineasDe(obj[q])' = LineasDe(obj[q]) /\ (PagosDe(obj[q]) = {} => PagosDe(obj[q])' = {})
            BY <1>2 DEF LineasDe, PagosDe
        <3> QED BY <1>2, <3>1 DEF LinesAt, LineBody
    <2> QED BY <2>3, <2>4, <2>5 DEF LineBody
<1>3. ASSUME NEW f \in Facturas, Reverse(f) \/ Expire(f) PROVE LineBody'
    BY <1>2, <1>3 DEF Reverse, Expire, locals
<1>4. CASE ChangePrice \/ Crash \/ UNCHANGED vars
    BY <1>2, <1>4 DEF ChangePrice, Crash, vars, tables, locals
<1> QED BY <1>1, <1>3, <1>4 DEF Next, RequestStep

(* With the payments of an invoice apart from its writers, an invoice that *)
(* is paid keeps lines.                                                    *)
THEOREM PagadaProved == Spec => []PagadaConLineas
<1>1. Init => LineInv
    <2> SUFFICES ASSUME Init PROVE LineInv
        OBVIOUS
    <2>1. \A f \in Facturas : PagosDe(f) = {}
        BY DEF Init, PagosDe
    <2> QED BY <2>1, InitTyped
            DEF Init, LineInv, LineBody, KeptApart, PaidLines, LinesAt, Paying
<1>2. LineInv => PagadaConLineas
    BY DEF LineInv, LineBody, PaidLines, PagadaConLineas
<1> QED BY <1>1, <1>2, LineStep, PTL DEF Spec

-----------------------------------------------------------------------------
(* Requests one at a time: the life of an invoice. *)

Single(S) == S = {} \/ \E r \in Rows : S = {r}

OneActive == \A p, q \in Peticiones : Active(p) /\ Active(q) => p = q

RowsOnce == \A f \in Facturas :
    /\ Single(LineasDe(f)) /\ Single(PagosDe(f))
    /\ ~ Saved(f) => LineasDe(f) = {} /\ PagosDe(f) = {}

(* What the one request at work has seen is still so.  A quote, in         *)
(* particular, is what the lines come to.                                  *)
Quoted == {"cotizada"} \cup Paying

SoloAt(p) ==
    /\ pc[p] = "inserta" => Reusable = {}
    /\ pc[p] \in {"lee", "guarda", "relee", "reguarda"} => LineasDe(obj[p]) = {}
    /\ pc[p] \in Handling \ {"consulta"} => PagosDe(obj[p]) = {}
    /\ pc[p] \in {"recalcula"} \cup Quoted => LineasDe(obj[p]) # {}
    /\ pc[p] = "recalcula" => previo[p] = Suma(LineasDe(obj[p]))
    /\ pc[p] \in Quoted => calculo[p] = Suma(LineasDe(obj[p]))

SoloBody == OneActive /\ RowsOnce /\ \A p \in Peticiones : SoloAt(p)
SoloInv  == LineInv /\ (aparte = "todo" => SoloBody)

(* The five things that a step can do to the rows of an invoice. *)
Elsewhere(f) == \A g \in Facturas \ {f} :
    LineasDe(g)' = LineasDe(g) /\ PagosDe(g)' = PagosDe(g) /\ (Saved(g)' <=> Saved(g))

Same == \A g \in Facturas :
    LineasDe(g)' = LineasDe(g) /\ PagosDe(g)' = PagosDe(g) /\ (Saved(g)' <=> Saved(g))

Writes(f, v) ==
    /\ LineasDe(f) = {} /\ PagosDe(f) = {} /\ PagosDe(f)' = {}
    /\ \E r \in Rows : r.valor = v /\ LineasDe(f)' = {r}
    /\ Saved(f)' /\ Elsewhere(f)

Erases(f) ==
    /\ PagosDe(f) = {} /\ PagosDe(f)' = {}
    /\ LineasDe(f)' = {}
    /\ Saved(f) /\ Saved(f)' /\ Elsewhere(f)

Pays(f) ==
    /\ PagosDe(f) = {} /\ LineasDe(f) # {} /\ LineasDe(f)' = LineasDe(f)
    /\ \E r \in Rows : r.valor = Suma(LineasDe(f)) /\ PagosDe(f)' = {r}
    /\ Saved(f) /\ Saved(f)' /\ Elsewhere(f)

Unpays(f) ==
    /\ PagosDe(f) # {} /\ PagosDe(f)' = {}
    /\ LineasDe(f) # {} /\ LineasDe(f)' = LineasDe(f)
    /\ Saved(f) /\ Saved(f)' /\ Elsewhere(f)

Touches == \/ Same
           \/ \E f \in Facturas, v \in Nat : Writes(f, v)
           \/ \E f \in Facturas : Erases(f) \/ Pays(f) \/ Unpays(f)

LEMMA SameRows ==
    ASSUME UNCHANGED <<lineas, pagos>>,
           \A g \in Facturas : Saved(g)' <=> Saved(g)
    PROVE  Same
BY DEF Same, LineasDe, PagosDe

(* The transactions, in these terms. *)
LEMMA RowsOfInsert ==
    ASSUME Typed, SoloBody, NEW p \in Peticiones, NEW f \in Facturas, ~ Saved(f), InsertOn(p, f)
    PROVE  Writes(f, calculo[p]) /\ calculo[p] \in Nat
<1> DEFINE r == Row(f, p, calculo[p])
<1>1. lineas' = lineas \cup {r} /\ pagos' = pagos /\ r \in Rows /\ r.fac = f /\ r.valor = calculo[p]
    BY DEF InsertOn, Row, Rows, Typed, TypeOK
<1>2. \A g \in Facturas : Saved(g)' <=> Saved(g) \/ g = f
    BY DEF InsertOn, Saved, Typed, TypeOK
<1>3. calculo[p] \in Nat
    BY DEF Typed, TypeOK
<1>4. LineasDe(f) = {} /\ PagosDe(f) = {}
    BY DEF SoloBody, RowsOnce
<1> HIDE DEF r
<1>5. LineasDe(f)' = {r} /\ PagosDe(f)' = {}
    BY <1>1, <1>4 DEF LineasDe, PagosDe
<1>6. Elsewhere(f)
    BY <1>1, <1>2 DEF Elsewhere, LineasDe, PagosDe
<1> QED BY <1>1, <1>2, <1>3, <1>4, <1>5, <1>6 DEF Writes

LEMMA RowsOfSave ==
    ASSUME Typed, SoloBody, NEW p \in Peticiones, SaveOn(p)
    PROVE  \E f \in Facturas : f = obj[p] /\ calculo[p] \in Nat /\ Writes(f, calculo[p])
<1>1. PICK f \in Facturas : f = obj[p] /\ Saved(f)
    BY DEF SaveOn, Typed, WorksOn, Handling, Writing, Calling
<1> DEFINE r == Row(f, p, calculo[p])
<1>2. lineas' = lineas \cup {r} /\ pagos' = pagos /\ r \in Rows /\ r.fac = f /\ r.valor = calculo[p]
    BY <1>1 DEF SaveOn, Row, Rows, Typed, TypeOK
<1>3. \A g \in Facturas : Saved(g)' <=> Saved(g)
    BY SaveOnTyped DEF Stays
<1>4. calculo[p] \in Nat
    BY DEF Typed, TypeOK
<1>5. LineasDe(f) = {} /\ PagosDe(f) = {}
    BY <1>1 DEF SaveOn, SoloBody, SoloAt, Handling, Writing, Calling
<1> HIDE DEF r
<1>6. LineasDe(f)' = {r} /\ PagosDe(f)' = {}
    BY <1>2, <1>5 DEF LineasDe, PagosDe
<1>7. Elsewhere(f)
    BY <1>2, <1>3 DEF Elsewhere, LineasDe, PagosDe
<1> QED BY <1>1, <1>2, <1>3, <1>4, <1>5, <1>6, <1>7 DEF Writes

LEMMA RowsOfErase ==
    ASSUME Typed, SoloBody, NEW p \in Peticiones, pc[p] \in {"borra", "reborra"},
           lineas' = lineas \ LineasDe(obj[p]), UNCHANGED <<factura, pagos>>
    PROVE  \E f \in Facturas : f = obj[p] /\ Erases(f)
<1>1. PICK f \in Facturas : f = obj[p] /\ Saved(f)
    BY DEF Typed, WorksOn, Handling, Writing, Calling
<1>2. PagosDe(f) = {}
    BY <1>1 DEF SoloBody, SoloAt, Handling, Writing, Calling
<1>3. LineasDe(f)' = {} /\ PagosDe(f)' = {}
    BY <1>1, <1>2 DEF LineasDe, PagosDe
<1>4. Elsewhere(f) /\ Saved(f)'
    BY <1>1 DEF Elsewhere, LineasDe, PagosDe, Saved
<1> QED BY <1>1, <1>2, <1>3, <1>4 DEF Erases

LEMMA RowsOfPay ==
    ASSUME Typed, SoloBody, NEW p \in Peticiones, PayOn(p)
    PROVE  \E f \in Facturas : f = obj[p] /\ Pays(f)
<1>1. PICK f \in Facturas : f = obj[p] /\ Saved(f)
    BY DEF PayOn, Typed, WorksOn, Handling, Paying
<1> DEFINE r == Row(f, p, calculo[p])
<1>2. pagos' = pagos \cup {r} /\ lineas' = lineas /\ r \in Rows /\ r.fac = f /\ r.valor = calculo[p]
    BY <1>1 DEF PayOn, Row, Rows, Typed, TypeOK
<1>3. \A g \in Facturas : Saved(g)' <=> Saved(g)
    BY PayOnTyped DEF Stays
<1>4. LineasDe(f) # {} /\ PagosDe(f) = {} /\ calculo[p] = Suma(LineasDe(f))
    BY <1>1 DEF PayOn, SoloBody, SoloAt, Quoted, Handling, Paying
<1> HIDE DEF r
<1>5. PagosDe(f)' = {r} /\ LineasDe(f)' = LineasDe(f)
    BY <1>2, <1>4 DEF LineasDe, PagosDe
<1>6. Elsewhere(f)
    BY <1>2, <1>3 DEF Elsewhere, LineasDe, PagosDe
<1> QED BY <1>1, <1>2, <1>3, <1>4, <1>5, <1>6 DEF Pays

LEMMA RowsOfReverse ==
    ASSUME Typed, LineBody, SoloBody, NEW f \in Facturas, Reverse(f)
    PROVE  Unpays(f)
<1>1. PICK g \in PagosDe(f) : pagos' = pagos \ {g}
    BY DEF Reverse
<1>2. lineas' = lineas /\ \A h \in Facturas : Saved(h)' <=> Saved(h) \/ h = f
    BY DEF Reverse, Saved, Typed, TypeOK
<1>3. PagosDe(f) = {g} /\ Saved(f)
    BY <1>1 DEF SoloBody, RowsOnce, Single
<1>4. LineasDe(f) # {}
    BY <1>1 DEF LineBody, PaidLines
<1>5. PagosDe(f)' = {} /\ LineasDe(f)' = LineasDe(f)
    BY <1>1, <1>2, <1>3 DEF LineasDe, PagosDe
<1>6. Elsewhere(f)
    BY <1>1, <1>2 DEF Elsewhere, LineasDe, PagosDe
<1> QED BY <1>2, <1>3, <1>4, <1>5, <1>6 DEF Unpays

LEMMA TouchesKeepOnce ==
    ASSUME RowsOnce, Touches
    PROVE  RowsOnce'
<1>1. CASE Same
    BY <1>1 DEF RowsOnce, Same, Single
<1>2. ASSUME NEW f \in Facturas, NEW v \in Nat, Writes(f, v) PROVE RowsOnce'
    BY <1>2 DEF RowsOnce, Writes, Elsewhere, Single
<1>3. ASSUME NEW f \in Facturas, Erases(f) \/ Pays(f) \/ Unpays(f) PROVE RowsOnce'
    BY <1>3 DEF RowsOnce, Erases, Pays, Unpays, Elsewhere, Single
<1> QED BY <1>1, <1>2, <1>3 DEF Touches

(* The request that makes a step is alone at work. *)
LEMMA AloneAtWork ==
    ASSUME aparte = "todo", OneActive, NEW p \in Peticiones, RequestStep(p)
    PROVE  \A q \in Peticiones \ {p} : ~ Active(q)
<1>1. Active(p) => \A q \in Peticiones \ {p} : ~ Active(q)
    BY DEF OneActive
<1>2. CASE Create(p) \/ \E f \in Facturas : Consult(p, f)
    BY <1>2 DEF Create, Consult
<1>3. CASE Step(p) \/ GoPay(p) \/ GiveUp(p)
    <2>1. Active(p)
        BY <1>3 DEF Step, GoPay, GiveUp, Price, FindDuplicate, Insert, ReadInvoice, PriceAgain,
                    EraseLines, LoadForSave, Save, SaveOn, SaveRefused, FindForPayment, Pay, PayOn,
                    Active, Working, Creating, Calling, Paying
    <2> QED BY <1>1, <2>1
<1>4. CASE Fail(p) \/ CommitLost(p)
    <2>1. Active(p)
        BY <1>4 DEF Fail, CommitLost, SaveOn, PayOn, Active, Working, Creating, Calling, Paying
    <2> QED BY <1>1, <2>1
<1> QED BY <1>2, <1>3, <1>4 DEF RequestStep

LEMMA SoloRequest ==
    ASSUME SoloBody, NEW p \in Peticiones, \A q \in Peticiones \ {p} : ~ Active(q),
           Others(p), Touches, SoloAt(p)'
    PROVE  SoloBody'
<1>1. \A q \in Peticiones \ {p} : pc'[q] \notin Working
    BY DEF Others, Active
<1>2. OneActive'
    BY <1>1 DEF OneActive, Active
<1>3. Handling \subseteq Working /\ Quoted \subseteq Handling
      /\ {"inserta", "recalcula", "lee", "guarda", "relee", "reguarda"} \subseteq Working
    BY DEF Handling, Working, Quoted, Creating, Writing, Calling, Paying
<1>4. \A q \in Peticiones \ {p} : SoloAt(q)'
    BY <1>1, <1>3 DEF SoloAt
<1>5. RowsOnce'
    BY TouchesKeepOnce DEF SoloBody
<1> QED BY <1>2, <1>4, <1>5 DEF SoloBody

LEMMA SoloOfRequest ==
    ASSUME Typed, aparte = "todo", LineBody, SoloBody, NEW p \in Peticiones, RequestStep(p)
    PROVE  Touches /\ SoloBody'
<1>1. Others(p) /\ \A q \in Peticiones \ {p} : ~ Active(q)
    BY OthersStand, AloneAtWork DEF SoloBody
<1>2. \A l : Goto(p, l) => pc'[p] = l
    BY DEF Goto, Typed, TypeOK
<1>3. UNCHANGED tables => Touches
    <2>1. UNCHANGED tables => Same
        BY SameRows DEF tables, Saved
    <2> QED BY <2>1 DEF Touches
<1> DEFINE Out == {"calcula", "duplicado", "fin"}
<1>4. ASSUME pc'[p] \in Out PROVE SoloAt(p)'
    BY <1>4 DEF SoloAt, Quoted, Handling, Writing, Calling, Paying
<1>5. SoloAt(p)
    BY DEF SoloBody
<1>6. CASE Create(p) \/ SaveRefused(p) \/ GiveUp(p) \/ Fail(p)
    <2>1. UNCHANGED tables /\ pc'[p] \in Out
        BY <1>2, <1>6 DEF Create, SaveRefused, GiveUp, Fail
    <2> QED BY <1>1, <1>3, <1>4, <2>1, SoloRequest
<1>7. CASE Price(p)
    <2>1. UNCHANGED tables /\ pc'[p] \in Out
        BY <1>2, <1>7 DEF Price
    <2> QED BY <1>1, <1>3, <1>4, <2>1, SoloRequest
<1>8. CASE FindDuplicate(p)
    <2>1. UNCHANGED tables
        BY <1>8 DEF FindDuplicate
    <2>2. CASE Reusable = {}
        <3>1. pc'[p] = "inserta" /\ Reusable' = {}
            BY <1>2, <1>8, <2>1, <2>2 DEF FindDuplicate, Reusable, PagosDe, tables
        <3>2. SoloAt(p)'
            BY <3>1 DEF SoloAt, Quoted, Handling, Writing, Calling, Paying
        <3> QED BY <1>1, <1>3, <2>1, <3>2, SoloRequest
    <2>3. CASE Reusable # {}
        <3>1. PICK f \in Facturas : f = Max(Reusable) /\ PagosDe(f) = {}
            BY <2>3, LatestIsReusable DEF Typed, Reusable
        <3>2. obj'[p] = f /\ pc'[p] = "borra"
            BY <1>2, <1>8, <2>3, <3>1 DEF FindDuplicate, Typed, TypeOK
        <3>3. PagosDe(f)' = {}
            BY <2>1, <3>1 DEF PagosDe, tables
        <3>4. SoloAt(p)'
            BY <3>2, <3>3 DEF SoloAt, Quoted, Paying
        <3> QED BY <1>1, <1>3, <2>1, <3>4, SoloRequest
    <2> QED BY <2>2, <2>3
<1>9. CASE Insert(p)
    <2>1. PICK f \in Facturas : (f < f <=> Saved(f)) /\ InsertOn(p, f)
        BY <1>9 DEF Insert, Saved
    <2>2. Writes(f, calculo[p]) /\ calculo[p] \in Nat
        BY <2>1, DraftAssumption, RowsOfInsert
    <2>3. Touches /\ pc'[p] = "fin"
        BY <1>2, <1>9, <2>2 DEF Touches, Insert
    <2> QED BY <1>1, <1>4, <2>3, SoloRequest
<1>10. ASSUME NEW f \in Facturas, Consult(p, f) PROVE Touches /\ SoloBody'
    <2>1. UNCHANGED tables /\ pc'[p] = "consulta"
        BY <1>2, <1>10 DEF Consult
    <2>2. SoloAt(p)'
        BY <2>1 DEF SoloAt, Quoted, Paying
    <2> QED BY <1>1, <1>3, <2>1, <2>2, SoloRequest
<1>11. CASE ReadInvoice(p)
    <2>1. UNCHANGED tables /\ obj' = obj /\ pc[p] = "consulta"
        BY <1>11 DEF ReadInvoice
    <2>2. CASE Goto(p, "fin")
        BY <1>1, <1>2, <1>3, <1>4, <2>1, <2>2, SoloRequest
    <2>3. CASE ~ Goto(p, "fin")
        <3>1. /\ LineasDe(obj[p]) # {} /\ PagosDe(obj[p]) = {}
              /\ previo' = [previo EXCEPT ![p] = Suma(LineasDe(obj[p]))]
              /\ calculo' = [calculo EXCEPT ![p] = Suma(LineasDe(obj[p]))]
              /\ pc'[p] \in {"recalcula", "cotizada"}
            BY <1>2, <1>11, <2>3 DEF ReadInvoice
        <3>2. previo'[p] = Suma(LineasDe(obj[p])) /\ calculo'[p] = Suma(LineasDe(obj[p]))
            BY <3>1 DEF Typed, TypeOK
        <3>3. LineasDe(obj[p])' = LineasDe(obj[p]) /\ PagosDe(obj[p])' = PagosDe(obj[p])
            BY <2>1 DEF LineasDe, PagosDe, tables
        <3>4. SoloAt(p)'
            BY <3>1, <3>2, <3>3 DEF SoloAt, Quoted
        <3> QED BY <1>1, <1>3, <2>1, <3>4, SoloRequest
    <2> QED BY <2>2, <2>3
<1>12. CASE PriceAgain(p)
    <2>1. UNCHANGED tables /\ obj' = obj /\ pc[p] = "recalcula" /\ calculo'[p] = tarifa
        BY <1>12 DEF PriceAgain, Typed, TypeOK
    <2>2. LineasDe(obj[p])' = LineasDe(obj[p]) /\ PagosDe(obj[p])' = PagosDe(obj[p])
        BY <2>1 DEF LineasDe, PagosDe, tables
    <2>3. /\ LineasDe(obj[p]) # {} /\ PagosDe(obj[p]) = {}
          /\ previo[p] = Suma(LineasDe(obj[p]))
        BY <1>5, <2>1 DEF SoloAt, Handling, Calling
    <2>4. (pc'[p] = "cotizada" /\ calculo'[p] = previo[p]) \/ pc'[p] = "reborra"
        BY <1>2, <1>12, <2>1 DEF PriceAgain
    <2>5. SoloAt(p)'
        BY <2>2, <2>3, <2>4 DEF SoloAt, Quoted, Paying
    <2> QED BY <1>1, <1>3, <2>1, <2>5, SoloRequest
<1>13. CASE EraseLines(p)
    <2>1. pc'[p] \in {"lee", "relee"} /\ obj' = obj
        BY <1>2, <1>13 DEF EraseLines, locals
    <2>2. PICK f \in Facturas : f = obj[p] /\ Erases(f)
        BY <1>13, RowsOfErase DEF EraseLines
    <2>3. LineasDe(obj[p])' = {} /\ PagosDe(obj[p])' = {}
        BY <2>1, <2>2 DEF Erases, LineasDe, PagosDe
    <2>4. SoloAt(p)'
        BY <2>1, <2>3 DEF SoloAt, Quoted, Paying
    <2> QED BY <1>1, <2>2, <2>4, SoloRequest DEF Touches
<1>14. CASE LoadForSave(p)
    <2>1. UNCHANGED tables /\ obj' = obj /\ pc[p] \in {"lee", "relee"}
        BY <1>14 DEF LoadForSave
    <2>2. pc'[p] \in {"guarda", "reguarda"}
        BY <1>2, <1>14 DEF LoadForSave
    <2>3. LineasDe(obj[p])' = {} /\ PagosDe(obj[p])' = {}
        BY <1>5, <2>1 DEF SoloAt, Handling, Writing, Calling, LineasDe, PagosDe, tables
    <2>4. SoloAt(p)'
        BY <2>2, <2>3 DEF SoloAt, Quoted, Paying
    <2> QED BY <1>1, <1>3, <2>1, <2>4, SoloRequest
<1>15. CASE Save(p)
    <2>1. pc'[p] \in {"fin", "cotizada"} /\ obj' = obj /\ calculo' = calculo
        BY <1>2, <1>15 DEF Save, locals
    <2>2. PICK f \in Facturas : f = obj[p] /\ calculo[p] \in Nat /\ Writes(f, calculo[p])
        BY <1>15, RowsOfSave DEF Save
    <2>3. PICK r \in Rows : r.valor = calculo[p] /\ LineasDe(f)' = {r}
        BY <2>2 DEF Writes
    <2>4. LineasDe(obj[p])' = {r} /\ PagosDe(obj[p])' = {}
        BY <2>1, <2>2, <2>3 DEF Writes, LineasDe, PagosDe
    <2>5. Suma(LineasDe(obj[p]))' = calculo[p]
        BY <2>2, <2>3, <2>4, SumaUno
    <2>6. SoloAt(p)'
        BY <2>1, <2>4, <2>5 DEF SoloAt, Quoted
    <2> QED BY <1>1, <2>2, <2>6, SoloRequest DEF Touches
<1>16. CASE GoPay(p) \/ FindForPayment(p)
    <2>1. UNCHANGED <<tables, obj, calculo>> /\ pc[p] \in Quoted
        BY <1>16 DEF GoPay, FindForPayment, locals, Quoted, Paying
    <2>2. pc'[p] \in {"paga: busca", "paga", "fin"}
        BY <1>2, <1>16 DEF GoPay, FindForPayment
    <2>3. LineasDe(obj[p])' = LineasDe(obj[p]) /\ PagosDe(obj[p])' = PagosDe(obj[p])
        BY <2>1 DEF LineasDe, PagosDe, tables
    <2>4. /\ LineasDe(obj[p]) # {} /\ PagosDe(obj[p]) = {} /\ calculo[p] = Suma(LineasDe(obj[p]))
        BY <1>5, <2>1 DEF SoloAt, Quoted, Handling, Calling, Paying
    <2>5. SoloAt(p)'
        BY <2>1, <2>2, <2>3, <2>4 DEF SoloAt
    <2> QED BY <1>1, <1>3, <2>1, <2>5, SoloRequest
<1>17. CASE Pay(p) \/ CommitLost(p)
    <2>1. pc'[p] = "fin"
        BY <1>2, <1>17 DEF Pay, CommitLost
    <2>2. CASE SaveOn(p)
        <3>1. Touches
            BY <2>2, RowsOfSave DEF Touches
        <3> QED BY <1>1, <1>4, <2>1, <3>1, SoloRequest
    <2>3. CASE PayOn(p)
        <3>1. Touches
            BY <2>3, RowsOfPay DEF Touches
        <3> QED BY <1>1, <1>4, <2>1, <3>1, SoloRequest
    <2>4. CASE /\ pc[p] \in {"borra", "reborra"}
               /\ lineas' = lineas \ LineasDe(obj[p])
               /\ UNCHANGED <<factura, pagos>>
        <3>1. Touches
            BY <2>4, RowsOfErase DEF Touches
        <3> QED BY <1>1, <1>4, <2>1, <3>1, SoloRequest
    <2> QED BY <1>17, <2>2, <2>3, <2>4 DEF Pay, CommitLost
<1> QED BY <1>6, <1>7, <1>8, <1>9, <1>10, <1>11, <1>12, <1>13, <1>14, <1>15, <1>16, <1>17
        DEF RequestStep, Step

LEMMA SoloStep == SoloInv /\ [Next]_vars => SoloInv' /\ (aparte = "todo" => Touches)
<1> SUFFICES ASSUME Typed, aparte = "todo", LineBody, SoloBody, [Next]_vars
             PROVE  Touches /\ SoloBody'
    BY LineStep, AparteStands DEF SoloInv, LineInv
<1>1. ASSUME NEW p \in Peticiones, RequestStep(p) PROVE Touches /\ SoloBody'
    BY <1>1, SoloOfRequest
<1>2. ASSUME NEW f \in Facturas, Reverse(f) PROVE Touches /\ SoloBody'
    <2>1. Unpays(f)
        BY <1>2, RowsOfReverse
    <2>2. Touches
        BY <2>1 DEF Touches
    <2>3. \A q \in Peticiones : pc'[q] \notin Working
        BY <1>2 DEF Reverse, Active
    <2>4. OneActive'
        BY <2>3 DEF OneActive, Active
    <2>5. ASSUME NEW q \in Peticiones PROVE SoloAt(q)'
        BY <2>3 DEF SoloAt, Quoted, Handling, Working, Creating, Writing, Calling, Paying
    <2>6. RowsOnce'
        BY <2>2, TouchesKeepOnce DEF SoloBody
    <2> QED BY <2>2, <2>4, <2>5, <2>6 DEF SoloBody
<1>3. ASSUME UNCHANGED <<lineas, pagos, locals>>,
             \A g \in Facturas : factura'[g].estado = factura[g].estado
                                 /\ (factura'[g].reciente => factura[g].reciente),
             \A q \in Peticiones : pc'[q] = pc[q] \/ pc'[q] = "fin"
      PROVE  Touches /\ SoloBody'
    <2>1. Same
        BY <1>3, SameRows DEF Saved
    <2>2. Touches
        BY <2>1 DEF Touches
    <2>3. OneActive'
        BY <1>3 DEF SoloBody, OneActive, Active, Working, Creating, Calling, Paying
    <2>4. Reusable = {} => Reusable' = {}
        BY <1>3 DEF Reusable, PagosDe
    <2>5. ASSUME NEW q \in Peticiones PROVE SoloAt(q)'
        <3>1. LineasDe(obj[q])' = LineasDe(obj[q]) /\ PagosDe(obj[q])' = PagosDe(obj[q])
            BY <1>3 DEF LineasDe, PagosDe, locals
        <3>2. calculo'[q] = calculo[q] /\ previo'[q] = previo[q]
            BY <1>3 DEF locals
        <3>3. CASE pc'[q] = "fin"
            BY <3>3 DEF SoloAt, Quoted, Handling, Writing, Calling, Paying
        <3>4. CASE pc'[q] = pc[q]
            BY <2>4, <3>1, <3>2, <3>4 DEF SoloBody, SoloAt
        <3> QED BY <1>3, <3>3, <3>4
    <2>6. RowsOnce'
        BY <2>2, TouchesKeepOnce DEF SoloBody
    <2> QED BY <2>2, <2>3, <2>5, <2>6 DEF SoloBody
<1>4. ASSUME NEW f \in Facturas, Expire(f) PROVE Touches /\ SoloBody'
    <2>1. \A g \in Facturas : factura'[g].estado = factura[g].estado
                              /\ (factura'[g].reciente => factura[g].reciente)
        BY <1>4 DEF Expire, Typed, TypeOK
    <2> QED BY <1>3, <1>4, <2>1 DEF Expire
<1>5. CASE ChangePrice \/ Crash \/ UNCHANGED vars
    BY <1>3, <1>5 DEF ChangePrice, Crash, vars, tables
<1> QED BY <1>1, <1>2, <1>4, <1>5 DEF Next, RequestStep

LEMMA SoloAlways == Spec => []SoloInv
<1>1. Init => SoloInv
    <2> SUFFICES ASSUME Init PROVE SoloInv
        OBVIOUS
    <2>1. \A f \in Facturas : LineasDe(f) = {} /\ PagosDe(f) = {}
        BY DEF Init, LineasDe, PagosDe
    <2>2. LineBody
        BY <2>1 DEF Init, LineBody, KeptApart, PaidLines, LinesAt, Paying
    <2>3. RowsOnce
        BY <2>1 DEF RowsOnce, Single
    <2>4. OneActive
        BY DEF Init, OneActive, Active, Working, Creating, Calling, Paying
    <2>5. \A p \in Peticiones : SoloAt(p)
        BY DEF Init, SoloAt, Quoted, Handling, Writing, Calling, Paying
    <2> QED BY <2>2, <2>3, <2>4, <2>5, InitTyped DEF SoloInv, LineInv, SoloBody
<1> QED BY <1>1, SoloStep, PTL DEF Spec

(* With requests one at a time, an enrolment or an inscription gets a new  *)
(* invoice only when no recent one waits for its payment.                  *)
THEOREM NuevaProved ==
    ASSUME Categoria \in {"MATRICULA", "INSCRIPCION"}
    PROVE  Spec => NuevaSoloSiNoHay
<1> DEFINE Nueva == aparte = "todo" => \A f \in Facturas :
        factura[f].estado = "ninguna" /\ factura'[f].estado # "ninguna" =>
            \A g \in Facturas : factura[g].estado # "ninguna" /\ PagosDe(g) = {}
                                => ~ factura[g].reciente
<1>1. SoloInv /\ [Next]_vars => [Nueva]_vars
    <2> SUFFICES ASSUME Typed, LineBody, SoloBody, aparte = "todo", Next,
                        NEW f \in Facturas, ~ Saved(f), Saved(f)',
                        NEW g \in Facturas, Saved(g), PagosDe(g) = {}, factura[g].reciente
                 PROVE  FALSE
        BY DEF SoloInv, LineInv, Saved
    <2>1. PagosDe(f) = {}
        BY DEF SoloBody, RowsOnce
    <2>2. ASSUME NEW h \in Facturas, Reverse(h) PROVE FALSE
        <3>1. h = f
            BY <2>2 DEF Reverse, Saved, Typed, TypeOK
        <3> QED BY <2>1, <2>2, <3>1 DEF Reverse
    <2>3. ASSUME NEW h \in Facturas, Expire(h) PROVE FALSE
        BY <2>3 DEF Expire, Saved, Typed, TypeOK
    <2>4. factura' # factura
        BY DEF Saved
    <2>5. ASSUME NEW p \in Peticiones, RequestStep(p) PROVE FALSE
        <3>1. ~ (Stays)
            BY DEF Stays
        <3>2. CASE SaveOn(p) \/ PayOn(p)
            BY <3>1, <3>2, SaveOnTyped, PayOnTyped
        <3>3. CASE Insert(p)
            <4>1. Reusable = {}
                BY <3>3 DEF Insert, SoloBody, SoloAt
            <4> QED BY <4>1 DEF Reusable, Saved
        <3> QED BY <2>4, <2>5, <3>2, <3>3
                DEF RequestStep, Step, Create, Consult, GoPay, GiveUp, Fail, CommitLost, Price,
                    FindDuplicate, ReadInvoice, PriceAgain, EraseLines, LoadForSave, Save,
                    SaveRefused, FindForPayment, Pay, tables
    <2> QED BY <2>2, <2>3, <2>4, <2>5 DEF Next, RequestStep, ChangePrice, Crash, tables
<1> QED BY <1>1, SoloAlways, PTL DEF Spec, NuevaSoloSiNoHay

-----------------------------------------------------------------------------
(* The refinement of InvoiceLife. *)

LEMMA LifeInit == Init => Life!Init
<1> SUFFICES ASSUME Init PROVE Life!Init
    OBVIOUS
<1>1. \A f \in Facturas : LineasDe(f) = {} /\ PagosDe(f) = {} /\ Fase(f) = "ninguna"
    BY DEF Init, LineasDe, PagosDe, Fase
<1> QED BY <1>1, SumaVacia DEF Life!Init

(* An invoice whose rows stay is where it was. *)
LEMMA FaseElsewhere ==
    ASSUME NEW g \in Facturas, LineasDe(g)' = LineasDe(g), PagosDe(g)' = PagosDe(g),
           Saved(g)' <=> Saved(g)
    PROVE  /\ Fase(g)' = Fase(g)
           /\ Suma(LineasDe(g))' = Suma(LineasDe(g))
           /\ Suma(PagosDe(g))' = Suma(PagosDe(g))
<1>1. Fase(g)' = Fase(g)
    BY DEF Fase, Saved
<1> QED BY <1>1

LEMMA LifeOfTouch ==
    ASSUME RowsOnce, Touches
    PROVE  Life!Next \/ UNCHANGED Life!vars
<1> DEFINE fase == [f \in Facturas |-> Fase(f)]
           precio == [f \in Facturas |-> Suma(LineasDe(f))]
           cobrado == [f \in Facturas |-> Suma(PagosDe(f))]
<1>1. CASE Same
    <2>1. \A g \in Facturas : /\ Fase(g)' = Fase(g)
                              /\ Suma(LineasDe(g))' = Suma(LineasDe(g))
                              /\ Suma(PagosDe(g))' = Suma(PagosDe(g))
        BY <1>1, FaseElsewhere DEF Same
    <2> QED BY <2>1 DEF Life!vars
<1>2. ASSUME NEW f \in Facturas, Elsewhere(f)
      PROVE  \A g \in Facturas \ {f} : /\ Fase(g)' = Fase(g)
                                       /\ Suma(LineasDe(g))' = Suma(LineasDe(g))
                                       /\ Suma(PagosDe(g))' = Suma(PagosDe(g))
    BY <1>2, FaseElsewhere DEF Elsewhere
<1>3. ASSUME NEW f \in Facturas PROVE Suma(LineasDe(f)) \in Nat /\ (LineasDe(f) = {} => Suma(LineasDe(f)) = 0)
    BY SumaVacia, SumaUno DEF RowsOnce, Single, Rows
<1>4. ASSUME NEW f \in Facturas, NEW v \in Nat, Writes(f, v) PROVE Life!Next
    <2>1. Fase(f) \in {"ninguna", "sin lineas"}
        BY <1>4 DEF Writes, Fase
    <2>2. PICK r \in Rows : r.valor = v /\ LineasDe(f)' = {r}
        BY <1>4 DEF Writes
    <2>3. Fase(f)' = "borrador"
        BY <1>4, <2>2 DEF Writes, Fase, Saved
    <2>4. Suma(LineasDe(f))' = v
        BY <2>2, SumaUno
    <2>5. Suma(PagosDe(f))' = Suma(PagosDe(f))
        BY <1>4 DEF Writes
    <2>6. \A g \in Facturas \ {f} : /\ Fase(g)' = Fase(g)
                                    /\ Suma(LineasDe(g))' = Suma(LineasDe(g))
                                    /\ Suma(PagosDe(g))' = Suma(PagosDe(g))
        BY <1>2, <1>4 DEF Writes
    <2>7. fase' = [fase EXCEPT ![f] = "borrador"]
        BY <2>3, <2>6
    <2>8. precio' \in [Facturas -> Nat] /\ \A g \in Facturas \ {f} : precio'[g] = precio[g]
        BY <1>3, <2>4, <2>6
    <2>9. cobrado' = cobrado
        BY <2>5, <2>6
    <2> QED BY <2>1, <2>7, <2>8, <2>9 DEF Life!Next, Life!Write
<1>5. ASSUME NEW f \in Facturas, Erases(f) PROVE Life!Next \/ UNCHANGED Life!vars
    <2>1. CASE LineasDe(f) = {}
        <3>1. Same
            BY <1>5, <2>1 DEF Same, Erases, Elsewhere
        <3> QED BY <1>1, <3>1
    <2>2. CASE LineasDe(f) # {}
        <3>1. Fase(f) = "borrador" /\ Fase(f)' = "sin lineas"
            BY <1>5, <2>2 DEF Erases, Fase, Saved
        <3>2. Suma(LineasDe(f))' = 0 /\ Suma(PagosDe(f))' = Suma(PagosDe(f))
            BY <1>5, SumaVacia DEF Erases
        <3>3. \A g \in Facturas \ {f} : /\ Fase(g)' = Fase(g)
                                        /\ Suma(LineasDe(g))' = Suma(LineasDe(g))
                                        /\ Suma(PagosDe(g))' = Suma(PagosDe(g))
            BY <1>2, <1>5 DEF Erases
        <3>4. fase' = [fase EXCEPT ![f] = "sin lineas"] /\ precio' = [precio EXCEPT ![f] = 0]
            BY <3>1, <3>2, <3>3
        <3>5. cobrado' = cobrado
            BY <3>2, <3>3
        <3> QED BY <3>1, <3>4, <3>5 DEF Life!Next, Life!Erase
    <2> QED BY <2>1, <2>2
<1>6. ASSUME NEW f \in Facturas, Pays(f) PROVE Life!Next
    <2>1. PICK r \in Rows : r.valor = Suma(LineasDe(f)) /\ PagosDe(f)' = {r}
        BY <1>6 DEF Pays
    <2>2. Fase(f) = "borrador" /\ Fase(f)' = "pagada"
        BY <1>6, <2>1 DEF Pays, Fase, Saved
    <2>3. Suma(PagosDe(f))' = Suma(LineasDe(f)) /\ Suma(LineasDe(f))' = Suma(LineasDe(f))
        BY <1>3, <1>6, <2>1, SumaUno DEF Pays
    <2>4. \A g \in Facturas \ {f} : /\ Fase(g)' = Fase(g)
                                    /\ Suma(LineasDe(g))' = Suma(LineasDe(g))
                                    /\ Suma(PagosDe(g))' = Suma(PagosDe(g))
        BY <1>2, <1>6 DEF Pays
    <2>5. fase' = [fase EXCEPT ![f] = "pagada"]
        BY <2>2, <2>4
    <2>6. cobrado' = [cobrado EXCEPT ![f] = precio[f]] /\ precio' = precio
        BY <2>3, <2>4
    <2> QED BY <2>2, <2>5, <2>6 DEF Life!Next, Life!Pay
<1>7. ASSUME NEW f \in Facturas, Unpays(f) PROVE Life!Next
    <2>1. Fase(f) = "pagada" /\ Fase(f)' = "borrador"
        BY <1>7 DEF Unpays, Fase, Saved
    <2>2. Suma(PagosDe(f))' = 0 /\ Suma(LineasDe(f))' = Suma(LineasDe(f))
        BY <1>7, SumaVacia DEF Unpays
    <2>3. \A g \in Facturas \ {f} : /\ Fase(g)' = Fase(g)
                                    /\ Suma(LineasDe(g))' = Suma(LineasDe(g))
                                    /\ Suma(PagosDe(g))' = Suma(PagosDe(g))
        BY <1>2, <1>7 DEF Unpays
    <2>4. fase' = [fase EXCEPT ![f] = "borrador"]
        BY <2>1, <2>3
    <2>5. cobrado' = [cobrado EXCEPT ![f] = 0] /\ precio' = precio
        BY <2>2, <2>3
    <2> QED BY <2>1, <2>4, <2>5 DEF Life!Next, Life!Reverse
<1> QED BY <1>1, <1>4, <1>5, <1>6, <1>7 DEF Touches

(* With requests one at a time, invoices live as InvoiceLife says: lines   *)
(* change only while nobody has paid, what is paid is what they add up to, *)
(* once, and a paid invoice leaves that state by a reversal only.          *)
THEOREM LifeProved == Spec => LifeSpec
<1>1. SoloInv /\ [Next]_vars => [aparte = "todo" => Life!Next]_(Life!vars)
    BY SoloStep, LifeOfTouch DEF SoloInv, SoloBody
<1> QED BY <1>1, LifeInit, SoloAlways, PTL DEF Spec, LifeSpec
=============================================================================
