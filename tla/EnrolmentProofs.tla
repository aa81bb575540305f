-------------------------- MODULE EnrolmentProofs --------------------------
(***************************************************************************)
(* Theorems about an enrolment, for every value of the constants: what it  *)
(* costs (InvoicePrice) and which type its student is of (StudentType).    *)
(***************************************************************************)
EXTENDS InvoicePrice, StudentType, FiniteSetTheorems, TLAPS

-----------------------------------------------------------------------------
(* Sums.  SumFunctionOnSet adds the values of w over S one after another,  *)
(* in an order of its own, by a function on the subsets of S.  Its laws    *)
(* are proved by a smallest counterexample.                                *)

(* Of any subsets of a finite set, one has no other one inside it. *)
LEMMA MinimalSubset ==
    ASSUME NEW S, IsFiniteSet(S), NEW B \in SUBSET (SUBSET S), B # {}
    PROVE  \E T \in B : \A U \in B : U \subseteq T => U = T
<1>1. B \subseteq FiniteSubsetsOf(S)
    BY FS_Subset DEF FiniteSubsetsOf
<1>2. PICK T \in B : \A U \in B : ~ (<<U, T>> \in StrictSubsetOrdering(S))
    BY <1>1, FS_StrictSubsetOrderingWellFounded, WFMin
<1>3. ASSUME NEW U \in B, U \subseteq T, U # T PROVE FALSE
    BY <1>2, <1>3 DEF StrictSubsetOrdering
<1> QED BY <1>3

Pick(s) == CHOOSE x \in s : TRUE
IsSum(g, w, S) == g = [s \in SUBSET S |-> IF s = {} THEN 0
                                          ELSE w[Pick(s)] + g[s \ {Pick(s)}]]
SumOf(w, S) == CHOOSE g : IsSum(g, w, S)

LEMMA SumIsSum == ASSUME NEW w, NEW S PROVE SumFunctionOnSet(w, S) = SumOf(w, S)[S]
BY DEF SumFunctionOnSet, FoldFunctionOnSet, MapThenFoldSet, SumOf, IsSum, Pick

(* Two such functions agree where both are defined. *)
LEMMA SumsAgree ==
    ASSUME NEW w, NEW S, IsFiniteSet(S), NEW T \in SUBSET S, NEW g, NEW h,
           IsSum(g, w, S), IsSum(h, w, T), NEW U \in SUBSET T
    PROVE  g[U] = h[U]
<1> DEFINE B == {V \in SUBSET T : g[V] # h[V]}
<1> SUFFICES ASSUME B # {} PROVE FALSE
    OBVIOUS
<1>1. IsFiniteSet(T)
    BY FS_Subset
<1>2. PICK V \in B : \A W \in B : W \subseteq V => W = V
    <2>1. B \in SUBSET (SUBSET T)
        OBVIOUS
    <2> HIDE DEF B
    <2> QED BY <1>1, <2>1, MinimalSubset
<1>3. V # {}
    BY <1>2 DEF IsSum
<1>4. Pick(V) \in V
    BY <1>3 DEF Pick
<1> DEFINE W == V \ {Pick(V)}
<1>5. W \in SUBSET T /\ W \subseteq V /\ W # V
    BY <1>2, <1>4
<1>6. g[W] = h[W]
    BY <1>2, <1>5
<1>7. g[V] = w[Pick(V)] + g[W] /\ h[V] = w[Pick(V)] + h[W]
    BY <1>2, <1>3 DEF IsSum
<1> QED BY <1>2, <1>6, <1>7

LEMMA SumExists ==
    ASSUME NEW w, NEW S, IsFiniteSet(S)
    PROVE  IsSum(SumOf(w, S), w, S)
<1> DEFINE B == {T \in SUBSET S : ~ \E g : IsSum(g, w, T)}
<1> SUFFICES ASSUME B # {} PROVE FALSE
    BY DEF SumOf
<1>1. PICK T \in B : \A U \in B : U \subseteq T => U = T
    <2>1. B \in SUBSET (SUBSET S)
        OBVIOUS
    <2> HIDE DEF B
    <2> QED BY <2>1, MinimalSubset
<1>2. ASSUME NEW U \in SUBSET T, U # T PROVE IsSum(SumOf(w, U), w, U)
    <2>1. \E g : IsSum(g, w, U)
        BY <1>1, <1>2
    <2> QED BY <2>1 DEF SumOf
<1> DEFINE Rest(U) == U \ {Pick(U)}
           G == [U \in SUBSET T |-> IF U = {} THEN 0
                                    ELSE w[Pick(U)] + SumOf(w, Rest(U))[Rest(U)]]
<1>3. ASSUME NEW U \in SUBSET T, U # {}
      PROVE  Rest(U) \in SUBSET T /\ Rest(U) # T /\ Rest(U) \subseteq U
    <2>1. Pick(U) \in U
        BY <1>3 DEF Pick
    <2> QED BY <2>1
<1>4. ASSUME NEW V \in SUBSET T, V # T PROVE G[V] = SumOf(w, V)[V]
    <2>1. IsSum(SumOf(w, V), w, V)
        BY <1>2, <1>4
    <2>2. CASE V = {}
        BY <2>1, <2>2 DEF IsSum
    <2>3. CASE V # {}
        <3> DEFINE W == Rest(V)
        <3>1. W \in SUBSET T /\ W # T /\ W \subseteq V
            BY <1>3, <2>3
        <3>2. IsSum(SumOf(w, W), w, W)
            BY <1>2, <3>1
        <3>3. IsFiniteSet(V)
            BY <1>1, FS_Subset
        <3>4. SumOf(w, V)[W] = SumOf(w, W)[W]
            BY <2>1, <3>1, <3>2, <3>3, SumsAgree
        <3>5. SumOf(w, V)[V] = w[Pick(V)] + SumOf(w, V)[W]
            BY <2>1, <2>3 DEF IsSum
        <3>6. G[V] = w[Pick(V)] + SumOf(w, W)[W]
            BY <2>3
        <3> QED BY <3>4, <3>5, <3>6
    <2> QED BY <2>2, <2>3
<1>5. \A U \in SUBSET T : U # {} => G[Rest(U)] = SumOf(w, Rest(U))[Rest(U)]
    BY <1>3, <1>4
<1>6. IsSum(G, w, T)
    <2>1. ASSUME NEW U \in SUBSET T
          PROVE  G[U] = IF U = {} THEN 0 ELSE w[Pick(U)] + G[U \ {Pick(U)}]
        BY <1>5
    <2>2. G = [U \in SUBSET T |-> G[U]]
        OBVIOUS
    <2> HIDE DEF G
    <2> QED BY <2>1, <2>2 DEF IsSum
<1> QED BY <1>1, <1>6

LEMMA SumEmpty == ASSUME NEW w PROVE SumFunctionOnSet(w, {}) = 0
<1>1. IsFiniteSet({})
    BY FS_EmptySet
<1>2. IsSum(SumOf(w, {}), w, {})
    BY <1>1, SumExists
<1>3. SumOf(w, {})[{}] = 0
    BY <1>2 DEF IsSum
<1> QED BY <1>3, SumIsSum

LEMMA SumStep ==
    ASSUME NEW w, NEW S, IsFiniteSet(S), S # {}
    PROVE  /\ Pick(S) \in S
           /\ SumFunctionOnSet(w, S) = w[Pick(S)] + SumFunctionOnSet(w, S \ {Pick(S)})
<1> DEFINE W == S \ {Pick(S)}
<1>1. Pick(S) \in S
    BY DEF Pick
<1>2. IsFiniteSet(W) /\ W \in SUBSET S
    BY FS_Subset
<1>0. IsSum(SumOf(w, S), w, S) /\ IsSum(SumOf(w, W), w, W)
    <2> HIDE DEF W
    <2> QED BY <1>2, SumExists
<1>3. SumOf(w, S)[W] = SumOf(w, W)[W]
    <2> HIDE DEF W
    <2> QED BY <1>0, <1>2, SumsAgree
<1>4. SumOf(w, S)[S] = w[Pick(S)] + SumOf(w, S)[W]
    BY <1>0 DEF IsSum
<1> QED BY <1>1, <1>3, <1>4, SumIsSum

(* What holds of the empty set, and of a set whenever it holds of the set  *)
(* without the element that is added first, holds of all finite sets: a    *)
(* least set without it has a least element missing.                       *)
LEMMA SumInt ==
    ASSUME NEW w, NEW S, IsFiniteSet(S), \A x \in S : w[x] \in Int
    PROVE  SumFunctionOnSet(w, S) \in Int
<1> DEFINE B == {T \in SUBSET S : SumFunctionOnSet(w, T) \notin Int}
<1> SUFFICES ASSUME B # {} PROVE FALSE
    OBVIOUS
<1>1. PICK T \in B : \A U \in B : U \subseteq T => U = T
    <2>1. B \in SUBSET (SUBSET S)
        OBVIOUS
    <2> HIDE DEF B
    <2> QED BY <2>1, MinimalSubset
<1>2. IsFiniteSet(T) /\ T # {}
    <2>1. SumFunctionOnSet(w, {}) = 0
        BY SumEmpty
    <2>2. T \in SUBSET S /\ T \in B
        BY <1>1
    <2>3. IsFiniteSet(T)
        BY <2>2, FS_Subset
    <2> QED BY <2>1, <2>2, <2>3
<1>3. /\ Pick(T) \in T
      /\ SumFunctionOnSet(w, T) = w[Pick(T)] + SumFunctionOnSet(w, T \ {Pick(T)})
    BY <1>2, SumStep
<1>4. SumFunctionOnSet(w, T \ {Pick(T)}) \in Int /\ w[Pick(T)] \in Int
    BY <1>1, <1>3
<1> QED BY <1>1, <1>3, <1>4

(* Termwise not more, in all not more. *)
LEMMA SumLeq ==
    ASSUME NEW v, NEW w, NEW S, IsFiniteSet(S),
           \A x \in S : v[x] \in Int /\ w[x] \in Int /\ v[x] <= w[x]
    PROVE  SumFunctionOnSet(v, S) <= SumFunctionOnSet(w, S)
<1> DEFINE B == {T \in SUBSET S : ~ (SumFunctionOnSet(v, T) <= SumFunctionOnSet(w, T))}
<1> SUFFICES ASSUME B # {} PROVE FALSE
    OBVIOUS
<1>1. PICK T \in B : \A U \in B : U \subseteq T => U = T
    <2>1. B \in SUBSET (SUBSET S)
        OBVIOUS
    <2> HIDE DEF B
    <2> QED BY <2>1, MinimalSubset
<1>2. IsFiniteSet(T) /\ T # {}
    <2>1. SumFunctionOnSet(w, {}) = 0 /\ SumFunctionOnSet(v, {}) = 0
        BY SumEmpty
    <2>2. T \in SUBSET S /\ T \in B
        BY <1>1
    <2>3. IsFiniteSet(T)
        BY <2>2, FS_Subset
    <2> QED BY <2>1, <2>2, <2>3
<1> DEFINE R == T \ {Pick(T)}
<1>3. /\ Pick(T) \in T
      /\ SumFunctionOnSet(v, T) = v[Pick(T)] + SumFunctionOnSet(v, R)
      /\ SumFunctionOnSet(w, T) = w[Pick(T)] + SumFunctionOnSet(w, R)
    BY <1>2, SumStep
<1>4. SumFunctionOnSet(v, R) <= SumFunctionOnSet(w, R)
    BY <1>1, <1>3
<1>5. SumFunctionOnSet(v, R) \in Int /\ SumFunctionOnSet(w, R) \in Int
    <2>1. IsFiniteSet(R)
        BY <1>2, FS_Subset
    <2> QED BY <1>1, <2>1, SumInt
<1>6. Pick(T) \in S
    BY <1>1, <1>3
<1> HIDE DEF R
<1>7. SumFunctionOnSet(v, T) <= SumFunctionOnSet(w, T)
    BY <1>3, <1>4, <1>5, <1>6
<1> QED BY <1>1, <1>7

LEMMA SumNat ==
    ASSUME NEW w, NEW S, IsFiniteSet(S), \A x \in S : w[x] \in Nat
    PROVE  SumFunctionOnSet(w, S) \in Nat
<1> DEFINE B == {T \in SUBSET S : SumFunctionOnSet(w, T) \notin Nat}
<1> SUFFICES ASSUME B # {} PROVE FALSE
    OBVIOUS
<1>1. PICK T \in B : \A U \in B : U \subseteq T => U = T
    <2>1. B \in SUBSET (SUBSET S)
        OBVIOUS
    <2> HIDE DEF B
    <2> QED BY <2>1, MinimalSubset
<1>2. IsFiniteSet(T) /\ T # {}
    <2>1. SumFunctionOnSet(w, {}) = 0
        BY SumEmpty
    <2>2. T \in SUBSET S /\ T \in B
        BY <1>1
    <2>3. IsFiniteSet(T)
        BY <2>2, FS_Subset
    <2> QED BY <2>1, <2>2, <2>3
<1>3. /\ Pick(T) \in T
      /\ SumFunctionOnSet(w, T) = w[Pick(T)] + SumFunctionOnSet(w, T \ {Pick(T)})
    BY <1>2, SumStep
<1>4. SumFunctionOnSet(w, T \ {Pick(T)}) \in Nat /\ w[Pick(T)] \in Nat
    BY <1>1, <1>3
<1> QED BY <1>1, <1>3, <1>4

(* Any element may come first. *)
LEMMA SumAny ==
    ASSUME NEW w, NEW S, IsFiniteSet(S), \A x \in S : w[x] \in Int, NEW y \in S
    PROVE  SumFunctionOnSet(w, S) = w[y] + SumFunctionOnSet(w, S \ {y})
<1> DEFINE B == {T \in SUBSET S : \E x \in T :
                    SumFunctionOnSet(w, T) # w[x] + SumFunctionOnSet(w, T \ {x})}
<1> SUFFICES ASSUME B # {} PROVE FALSE
    OBVIOUS
<1>1. PICK T \in B : \A U \in B : U \subseteq T => U = T
    <2>1. B \in SUBSET (SUBSET S)
        OBVIOUS
    <2> HIDE DEF B
    <2> QED BY <2>1, MinimalSubset
<1>2. PICK x \in T : SumFunctionOnSet(w, T) # w[x] + SumFunctionOnSet(w, T \ {x})
    BY <1>1
<1> DEFINE p == Pick(T)
           R == T \ {p, x}
<1>3. IsFiniteSet(T) /\ T # {} /\ T \subseteq S
    BY <1>1, <1>2, FS_Subset
<1>4. p \in T /\ SumFunctionOnSet(w, T) = w[p] + SumFunctionOnSet(w, T \ {p})
    BY <1>3, SumStep
<1>5. p # x
    BY <1>2, <1>4
<1>6. T \ {p} \notin B /\ T \ {x} \notin B
    BY <1>1, <1>2, <1>4
<1>7. SumFunctionOnSet(w, T \ {p}) = w[x] + SumFunctionOnSet(w, R)
    <2>1. x \in T \ {p} /\ (T \ {p}) \ {x} = R /\ T \ {p} \in SUBSET S
        BY <1>2, <1>3, <1>5
    <2> HIDE DEF R, p
    <2> QED BY <1>6, <2>1
<1>8. SumFunctionOnSet(w, T \ {x}) = w[p] + SumFunctionOnSet(w, R)
    <2>1. p \in T \ {x} /\ (T \ {x}) \ {p} = R /\ T \ {x} \in SUBSET S
        BY <1>3, <1>4, <1>5
    <2> HIDE DEF R, p
    <2> QED BY <1>6, <2>1
<1>9. SumFunctionOnSet(w, R) \in Int /\ w[p] \in Int /\ w[x] \in Int
    <2>1. IsFiniteSet(R) /\ R \subseteq S
        BY <1>3, FS_Subset
    <2> QED BY <1>3, <1>4, <2>1, SumInt
<1> HIDE DEF R, p
<1> QED BY <1>2, <1>4, <1>7, <1>8, <1>9

LEMMA FiniteImage ==
    ASSUME NEW b, NEW S, IsFiniteSet(S)
    PROVE  IsFiniteSet({b[x] : x \in S})
<1> DEFINE T == {b[x] : x \in S}
           f == [x \in S |-> b[x]]
<1>1. f \in Surjection(S, T)
    BY DEF Surjection
<1> HIDE DEF T, f
<1>2. IsFiniteSet(T)
    BY <1>1, FS_Surjection
<1> QED BY <1>2 DEF T

(* A sum over an image, where nothing falls together, is one over the set. *)
LEMMA SumImage ==
    ASSUME NEW b, NEW v, NEW w, NEW S, IsFiniteSet(S),
           \A x, y \in S : b[x] = b[y] => x = y,
           \A x \in S : w[x] \in Int /\ v[b[x]] = w[x]
    PROVE  SumFunctionOnSet(v, {b[x] : x \in S}) = SumFunctionOnSet(w, S)
<1> DEFINE I(T) == {b[x] : x \in T}
           B == {T \in SUBSET S : SumFunctionOnSet(v, I(T)) # SumFunctionOnSet(w, T)}
<1> SUFFICES ASSUME B # {} PROVE FALSE
    OBVIOUS
<1>1. PICK T \in B : \A U \in B : U \subseteq T => U = T
    <2>1. B \in SUBSET (SUBSET S)
        OBVIOUS
    <2> HIDE DEF B
    <2> QED BY <2>1, MinimalSubset
<1>2. T # {}
    <2>1. I({}) = {}
        OBVIOUS
    <2>2. SumFunctionOnSet(w, {}) = 0 /\ SumFunctionOnSet(v, {}) = 0
        BY SumEmpty
    <2> QED BY <1>1, <2>1, <2>2
<1>3. PICK x \in T : TRUE
    BY <1>2
<1>4. IsFiniteSet(T) /\ T \subseteq S /\ IsFiniteSet(I(T))
    <2>1. T \in SUBSET S
        BY <1>1
    <2>2. IsFiniteSet(T)
        BY <2>1, FS_Subset
    <2> QED BY <2>1, <2>2, FiniteImage
<1>5. SumFunctionOnSet(w, T) = w[x] + SumFunctionOnSet(w, T \ {x})
    BY <1>3, <1>4, SumAny
<1>6. SumFunctionOnSet(v, I(T)) = v[b[x]] + SumFunctionOnSet(v, I(T) \ {b[x]})
    <2>1. b[x] \in I(T) /\ \A z \in I(T) : v[z] \in Int
        BY <1>3, <1>4
    <2> HIDE DEF I
    <2> QED BY <1>4, <2>1, SumAny
<1>7. I(T) \ {b[x]} = I(T \ {x})
    BY <1>3, <1>4
<1>8. SumFunctionOnSet(v, I(T \ {x})) = SumFunctionOnSet(w, T \ {x})
    BY <1>1, <1>3
<1>9. v[b[x]] = w[x]
    BY <1>3, <1>4
<1> HIDE DEF I
<1> QED BY <1>1, <1>5, <1>6, <1>7, <1>8, <1>9

LEMMA SumSame ==
    ASSUME NEW v, NEW w, NEW S, IsFiniteSet(S), \A x \in S : v[x] \in Int /\ v[x] = w[x]
    PROVE  SumFunctionOnSet(v, S) = SumFunctionOnSet(w, S)
<1>1. /\ SumFunctionOnSet(v, S) <= SumFunctionOnSet(w, S)
      /\ SumFunctionOnSet(w, S) <= SumFunctionOnSet(v, S)
    BY SumLeq
<1>2. SumFunctionOnSet(v, S) \in Int /\ SumFunctionOnSet(w, S) \in Int
    BY SumInt
<1> QED BY <1>1, <1>2

-----------------------------------------------------------------------------
(* Lines and totals: a line is made of one detail of the package.          *)
Unidades(q, d) == IF q.matricula /\ d.concepto \notin INDIVIDUAL_CREDIT_CONCEPT_IDS
                    THEN d.cantidad ELSE q.quantity
Renglon(q, d) ==
    [concepto  |-> d.concepto,
     valor     |-> d.valor,
     cantidad  |-> IF Unidades(q, d) < 1 THEN 1 ELSE Unidades(q, d),
     aumento   |-> IF d.ext THEN q.aumentoExtra + d.aumento ELSE d.aumento,
     descuento |-> normalizeRate(IF d.ext \/ d.concepto \in q.externos
                                   THEN q.descuentoExtra + d.descuento ELSE d.descuento)]

LEMMA LinesOfDetails ==
    ASSUME NEW q
    PROVE  createDetailInvoice(q) = {Renglon(q, d) : d \in q.detalle}
BY DEF createDetailInvoice, Renglon, Unidades

(* What a handler passes to createDetailInvoice. *)
IsOrder(q) == /\ q.detalle \subseteq DetallePaquete /\ IsFiniteSet(q.detalle)
              /\ q.aumentoExtra \in Nat /\ q.descuentoExtra \in Nat /\ q.quantity \in Nat

LEMMA LineTyped ==
    ASSUME NEW q, IsOrder(q), NEW d \in q.detalle
    PROVE  Renglon(q, d) \in Linea
<1>1. d \in DetallePaquete /\ q.aumentoExtra \in Nat /\ q.descuentoExtra \in Nat /\ q.quantity \in Nat
    BY DEF IsOrder
<1>2. Unidades(q, d) \in Nat
    BY <1>1 DEF Unidades, DetallePaquete
<1>3. \A x \in Nat : normalizeRate(x) \in 0 .. 100
    BY DEF normalizeRate
<1>4. /\ d.concepto \in Nat /\ d.valor \in Nat /\ d.aumento \in Nat /\ d.descuento \in Nat
    BY <1>1 DEF DetallePaquete
<1>5. (IF d.ext \/ d.concepto \in q.externos
         THEN q.descuentoExtra + d.descuento ELSE d.descuento) \in Nat
    BY <1>1, <1>4
<1>6. (IF d.ext THEN q.aumentoExtra + d.aumento ELSE d.aumento) \in Nat
    BY <1>1, <1>4
<1>7. (IF Unidades(q, d) < 1 THEN 1 ELSE Unidades(q, d)) \in Nat
    BY <1>2
<1>8. normalizeRate(IF d.ext \/ d.concepto \in q.externos
                      THEN q.descuentoExtra + d.descuento ELSE d.descuento) \in 0 .. 100
    BY <1>3, <1>5
<1> QED BY <1>4, <1>6, <1>7, <1>8 DEF Renglon, Linea

LEMMA LinesTyped ==
    ASSUME NEW q, IsOrder(q)
    PROVE  /\ createDetailInvoice(q) \in SUBSET Linea
           /\ IsFiniteSet(createDetailInvoice(q))
           /\ q.detalle # {} => createDetailInvoice(q) # {}
<1> DEFINE b == [d \in q.detalle |-> Renglon(q, d)]
<1>1. createDetailInvoice(q) = {b[d] : d \in q.detalle}
    BY LinesOfDetails
<1>2. IsFiniteSet({b[d] : d \in q.detalle})
    <2> HIDE DEF b
    <2> QED BY FiniteImage DEF IsOrder
<1>3. createDetailInvoice(q) \in SUBSET Linea
    BY LinesOfDetails, LineTyped
<1>4. q.detalle # {} => createDetailInvoice(q) # {}
    BY LinesOfDetails
<1> QED BY <1>1, <1>2, <1>3, <1>4

(* The three totals as sums over lines. *)
Cobrado(p, l) ==
    LET concepts == {d.concepto : d \in {e \in p.detalle : e.ext}}
        aumento  == IF l.concepto \in concepts THEN p.config.porcentajeExt ELSE l.aumento
        quantity == IF l.concepto = TECHNOLOGY_CREDIT_CONCEPT_ID
                         /\ normalizeRate(l.descuento) = 100
                      THEN 1 ELSE l.cantidad
    IN  subTotalSinAumento(l) + l.valor * quantity * safeAumento(aumento)

LEMMA TotalIsSum ==
    ASSUME NEW ls
    PROVE  Total(ls) = SumFunctionOnSet([l \in ls |-> calcularSubTotal(l)], ls)
BY DEF Total, totalExtraordinario, SumOver, SumFunction

LEMMA OrdinarioIsSum ==
    ASSUME NEW ls
    PROVE  totalOrdinario(ls) = SumFunctionOnSet([l \in ls |-> subTotalSinAumento(l)], ls)
BY DEF totalOrdinario, SumOver, SumFunction

LEMMA ExtraordinarioIsSum ==
    ASSUME NEW ls, NEW p
    PROVE  calcularTotalExtraOrdinario(ls, p) =
              SumFunctionOnSet([l \in ls |-> Cobrado(p, l)], ls)
BY DEF calcularTotalExtraOrdinario, SumOver, SumFunction, Cobrado

LEMMA ProductNat == \A x, y \in Nat : x * y \in Nat
OBVIOUS

LEMMA RatesBounded ==
    /\ \A x \in Int : normalizeRate(x) \in 0 .. 100 /\ safeAumento(x) \in Nat
    /\ \A x \in 0 .. 100 : normalizeRate(x) = x
    /\ \A x \in Nat : safeAumento(x) = x
BY DEF normalizeRate, safeAumento

(* What a line adds to each total. *)
LEMMA LineAmounts ==
    ASSUME NEW l \in Linea, NEW p, p.config \in Config
    PROVE  /\ subtotal(l) \in Nat
           /\ calcularSubTotal(l) \in Nat
           /\ subTotalSinAumento(l) \in Nat
           /\ Cobrado(p, l) \in Nat
           /\ subTotalSinAumento(l) <= Cobrado(p, l)
           /\ calcularSubTotal(l) = subTotalSinAumento(l) + subtotal(l) * l.aumento
<1>1. /\ l.valor \in Nat /\ l.cantidad \in Nat /\ l.aumento \in Nat /\ l.descuento \in 0 .. 100
      /\ p.config.porcentajeExt \in Nat
    BY DEF Linea, Config
<1>2. normalizeRate(l.descuento) = l.descuento /\ safeAumento(l.aumento) = l.aumento
    BY <1>1, RatesBounded
<1>3. subtotal(l) \in Nat
    BY <1>1, ProductNat DEF subtotal
<1>4. 100 - l.descuento \in Nat /\ 100 - l.descuento + l.aumento \in Nat
    BY <1>1
<1>5. subTotalSinAumento(l) = subtotal(l) * (100 - l.descuento) /\ subTotalSinAumento(l) \in Nat
    BY <1>2, <1>3, <1>4, ProductNat DEF subTotalSinAumento
<1>6. calcularSubTotal(l) = subtotal(l) * (100 - l.descuento + l.aumento) /\ calcularSubTotal(l) \in Nat
    BY <1>2, <1>3, <1>4, ProductNat DEF calcularSubTotal
<1>7. \A x, y, z \in Nat : x * (y + z) = x * y + x * z
    OBVIOUS
<1>8. calcularSubTotal(l) = subTotalSinAumento(l) + subtotal(l) * l.aumento
    BY <1>1, <1>3, <1>4, <1>5, <1>6, <1>7
<1> DEFINE aumento  == IF l.concepto \in {d.concepto : d \in {e \in p.detalle : e.ext}}
                         THEN p.config.porcentajeExt ELSE l.aumento
           quantity == IF l.concepto = TECHNOLOGY_CREDIT_CONCEPT_ID
                            /\ normalizeRate(l.descuento) = 100
                         THEN 1 ELSE l.cantidad
<1>9. aumento \in Nat /\ quantity \in Nat
    BY <1>1
<1>10. Cobrado(p, l) = subTotalSinAumento(l) + l.valor * quantity * safeAumento(aumento)
    BY DEF Cobrado
<1> HIDE DEF aumento, quantity
<1>11. l.valor * quantity * safeAumento(aumento) \in Nat
    <2>1. safeAumento(aumento) \in Nat
        BY <1>9, RatesBounded
    <2> QED BY <1>1, <1>9, <2>1, ProductNat
<1> QED BY <1>3, <1>5, <1>6, <1>8, <1>10, <1>11

LEMMA TotalsNat ==
    ASSUME NEW ls \in SUBSET Linea, IsFiniteSet(ls)
    PROVE  Total(ls) \in Nat /\ totalOrdinario(ls) \in Nat
<1> DEFINE c == [concepto |-> 0, config |-> [minCreditos |-> 0, porcentajeExt |-> 0]]
<1>1. c.config \in Config
    BY DEF Config
<1> HIDE DEF c
<1>2. \A l \in ls : calcularSubTotal(l) \in Nat /\ subTotalSinAumento(l) \in Nat
    BY <1>1, LineAmounts
<1> DEFINE v == [l \in ls |-> calcularSubTotal(l)]
           w == [l \in ls |-> subTotalSinAumento(l)]
<1>3. \A l \in ls : v[l] \in Nat /\ w[l] \in Nat
    BY <1>2
<1>4. Total(ls) = SumFunctionOnSet(v, ls) /\ totalOrdinario(ls) = SumFunctionOnSet(w, ls)
    BY TotalIsSum, OrdinarioIsSum
<1> HIDE DEF v, w
<1> QED BY <1>3, <1>4, SumNat

(* Orders for the same details, whatever they raise the price by. *)
UnaVez(ds)      == \A d, e \in ds : d.concepto = e.concepto => d = e
SameOrder(q, r) == /\ q.detalle = r.detalle /\ q.descuentoExtra = r.descuentoExtra
                   /\ q.quantity = r.quantity /\ q.matricula = r.matricula
                   /\ q.externos = r.externos

(* Line by line the same, in all the same. *)
LEMMA SameByDetail ==
    ASSUME NEW q, NEW r, IsOrder(q), q.detalle = r.detalle, UnaVez(q.detalle), NEW v, NEW w,
           \A d \in q.detalle : /\ v[Renglon(q, d)] \in Int
                                /\ v[Renglon(q, d)] = w[Renglon(r, d)]
    PROVE  SumFunctionOnSet(v, createDetailInvoice(q)) = SumFunctionOnSet(w, createDetailInvoice(r))
<1> DEFINE D == q.detalle
           a == [d \in D |-> Renglon(q, d)]
           b == [d \in D |-> Renglon(r, d)]
           f == [d \in D |-> v[Renglon(q, d)]]
<1>1. IsFiniteSet(D)
    BY DEF IsOrder
<1>2. /\ \A d \in D : f[d] \in Int /\ v[a[d]] = f[d] /\ w[b[d]] = f[d]
      /\ \A d, e \in D : a[d] = a[e] => d = e
      /\ \A d, e \in D : b[d] = b[e] => d = e
    BY DEF UnaVez, Renglon
<1>3. /\ createDetailInvoice(q) = {a[d] : d \in D}
      /\ createDetailInvoice(r) = {b[d] : d \in D}
    BY LinesOfDetails
<1> HIDE DEF D, a, b, f
<1>4. SumFunctionOnSet(v, {a[d] : d \in D}) = SumFunctionOnSet(f, D)
    BY <1>1, <1>2, SumImage
<1>5. SumFunctionOnSet(w, {b[d] : d \in D}) = SumFunctionOnSet(f, D)
    BY <1>1, <1>2, SumImage
<1> QED BY <1>3, <1>4, <1>5

LEMMA LineAlike ==
    ASSUME NEW p \in Paquetes, NEW q, NEW r, IsOrder(q), IsOrder(r), SameOrder(q, r),
           q.detalle = p.detalle, NEW d \in p.detalle, d.aumento = 0
    PROVE  /\ subTotalSinAumento(Renglon(q, d)) = subTotalSinAumento(Renglon(r, d))
           /\ Cobrado(p, Renglon(q, d)) = Cobrado(p, Renglon(r, d))
<1> DEFINE l == Renglon(q, d)
           m == Renglon(r, d)
           concepts == {c.concepto : c \in {e \in p.detalle : e.ext}}
<1>1. /\ l.concepto = d.concepto /\ m.concepto = d.concepto
      /\ l.valor = m.valor /\ l.cantidad = m.cantidad /\ l.descuento = m.descuento
    BY DEF Renglon, Unidades, SameOrder
<1>2. subTotalSinAumento(l) = subTotalSinAumento(m)
    BY <1>1 DEF subTotalSinAumento, subtotal
<1>3. CASE d.ext
    <2>1. d.concepto \in concepts
        BY <1>3
    <2> HIDE DEF l, m
    <2> QED BY <1>1, <1>2, <2>1 DEF Cobrado, l, m
<1>4. CASE ~ d.ext
    <2>1. l.aumento = m.aumento
        BY <1>4 DEF Renglon
    <2> HIDE DEF l, m
    <2> QED BY <1>1, <1>2, <2>1 DEF Cobrado, l, m
<1> QED BY <1>2, <1>3, <1>4

(* A print, and that it does not tell on which day its lines were made. *)
Impreso(ls, p) == [ordinario      |-> MathRound(totalOrdinario(ls)),
                   extraordinario |-> MathRound(calcularTotalExtraOrdinario(ls, p))]

LEMMA PrintedAlike ==
    ASSUME PriceAssumption, NEW p \in Paquetes, NEW q, NEW r, IsOrder(q), IsOrder(r),
           SameOrder(q, r), q.detalle = p.detalle, \A d \in p.detalle : d.aumento = 0
    PROVE  Impreso(createDetailInvoice(q), p) = Impreso(createDetailInvoice(r), p)
<1> DEFINE ls == createDetailInvoice(q)
           ms == createDetailInvoice(r)
           v1 == [l \in ls |-> subTotalSinAumento(l)]
           w1 == [l \in ms |-> subTotalSinAumento(l)]
           v2 == [l \in ls |-> Cobrado(p, l)]
           w2 == [l \in ms |-> Cobrado(p, l)]
<1>1. p.config \in Config /\ UnaVez(p.detalle)
    BY DEF PriceAssumption, UnaVez
<1>2. ASSUME NEW d \in p.detalle
      PROVE  /\ Renglon(q, d) \in ls /\ Renglon(r, d) \in ms
             /\ subTotalSinAumento(Renglon(q, d)) \in Nat
             /\ Cobrado(p, Renglon(q, d)) \in Nat
             /\ subTotalSinAumento(Renglon(q, d)) = subTotalSinAumento(Renglon(r, d))
             /\ Cobrado(p, Renglon(q, d)) = Cobrado(p, Renglon(r, d))
    <2>1. Renglon(q, d) \in ls /\ Renglon(r, d) \in ms
        BY LinesOfDetails DEF SameOrder
    <2>2. Renglon(q, d) \in Linea
        BY LineTyped
    <2> HIDE DEF ls, ms
    <2> QED BY <1>1, <2>1, <2>2, LineAmounts, LineAlike
<1>3. \A d \in q.detalle : /\ v1[Renglon(q, d)] \in Int
                           /\ v1[Renglon(q, d)] = w1[Renglon(r, d)]
                           /\ v2[Renglon(q, d)] \in Int
                           /\ v2[Renglon(q, d)] = w2[Renglon(r, d)]
    <2> HIDE DEF ls, ms
    <2> QED BY <1>2
<1>4. q.detalle = r.detalle
    BY DEF SameOrder
<1>5. /\ totalOrdinario(ls) = SumFunctionOnSet(v1, ls)
      /\ totalOrdinario(ms) = SumFunctionOnSet(w1, ms)
    BY OrdinarioIsSum
<1>6. /\ calcularTotalExtraOrdinario(ls, p) = SumFunctionOnSet(v2, ls)
      /\ calcularTotalExtraOrdinario(ms, p) = SumFunctionOnSet(w2, ms)
    BY ExtraordinarioIsSum
<1> HIDE DEF v1, v2, w1, w2
<1>7. SumFunctionOnSet(v1, ls) = SumFunctionOnSet(w1, ms)
    BY <1>1, <1>3, <1>4, SameByDetail
<1>8. SumFunctionOnSet(v2, ls) = SumFunctionOnSet(w2, ms)
    BY <1>1, <1>3, <1>4, SameByDetail
<1> HIDE DEF ls, ms
<1>9. Impreso(ls, p) = Impreso(ms, p)
    BY <1>5, <1>6, <1>7, <1>8 DEF Impreso
<1> QED BY <1>9 DEF ls, ms

(* What is quoted up to the ordinary deadline is the ordinary total. *)
LEMMA QuotedOrdinary ==
    ASSUME PriceAssumption, NEW p \in Paquetes, NEW q, IsOrder(q), q.aumentoExtra = 0,
           q.detalle = p.detalle, \A d \in p.detalle : d.aumento = 0
    PROVE  Total(createDetailInvoice(q)) = totalOrdinario(createDetailInvoice(q))
<1> DEFINE ls == createDetailInvoice(q)
           v == [l \in ls |-> calcularSubTotal(l)]
           w == [l \in ls |-> subTotalSinAumento(l)]
<1>1. p.config \in Config
    BY DEF PriceAssumption
<1>2. ASSUME NEW l \in ls
      PROVE  calcularSubTotal(l) \in Int /\ calcularSubTotal(l) = subTotalSinAumento(l)
    <2>1. PICK d \in q.detalle : l = Renglon(q, d)
        BY LinesOfDetails
    <2>2. l \in Linea
        BY <2>1, LineTyped
    <2>3. l.aumento = 0
        BY <2>1 DEF Renglon
    <2>4. /\ subtotal(l) \in Nat /\ subTotalSinAumento(l) \in Nat
          /\ calcularSubTotal(l) = subTotalSinAumento(l) + subtotal(l) * l.aumento
        BY <1>1, <2>2, LineAmounts
    <2> QED BY <2>3, <2>4
<1>3. \A l \in ls : v[l] \in Int /\ v[l] = w[l]
    BY <1>2
<1>4. Total(ls) = SumFunctionOnSet(v, ls) /\ totalOrdinario(ls) = SumFunctionOnSet(w, ls)
    BY TotalIsSum, OrdinarioIsSum
<1>5. IsFiniteSet(ls)
    BY LinesTyped
<1> HIDE DEF ls, v, w
<1>6. Total(ls) = totalOrdinario(ls)
    BY <1>3, <1>4, <1>5, SumSame
<1> QED BY <1>6 DEF ls

(* Past it, the extraordinary one, unless credits of technology are free. *)
Gratis(ls) == \E l \in ls :
    l.concepto = TECHNOLOGY_CREDIT_CONCEPT_ID /\ l.descuento = 100 /\ l.cantidad > 1

LEMMA QuotedExtraordinary ==
    ASSUME PriceAssumption, NEW p \in Paquetes, NEW q, IsOrder(q),
           q.aumentoExtra = p.config.porcentajeExt, q.detalle = p.detalle,
           \A d \in p.detalle : d.aumento = 0, ~ Gratis(createDetailInvoice(q))
    PROVE  Total(createDetailInvoice(q)) = calcularTotalExtraOrdinario(createDetailInvoice(q), p)
<1> DEFINE ls == createDetailInvoice(q)
           v == [l \in ls |-> calcularSubTotal(l)]
           w == [l \in ls |-> Cobrado(p, l)]
<1>1. /\ p.config \in Config /\ p.config.porcentajeExt \in Nat
      /\ \A d, e \in p.detalle : d.concepto = e.concepto => d = e
    BY DEF PriceAssumption, Config
<1>2. ASSUME NEW l \in ls
      PROVE  calcularSubTotal(l) \in Int /\ calcularSubTotal(l) = Cobrado(p, l)
    <2>1. PICK d \in p.detalle : l = Renglon(q, d)
        BY LinesOfDetails
    <2>2. l \in Linea
        BY <2>1, LineTyped
    <2>3. /\ subtotal(l) \in Nat /\ calcularSubTotal(l) \in Nat
          /\ calcularSubTotal(l) = subTotalSinAumento(l) + subtotal(l) * l.aumento
        BY <1>1, <2>2, LineAmounts
    <2> DEFINE concepts == {c.concepto : c \in {e \in p.detalle : e.ext}}
               aumento  == IF l.concepto \in concepts THEN p.config.porcentajeExt ELSE l.aumento
               quantity == IF l.concepto = TECHNOLOGY_CREDIT_CONCEPT_ID
                                /\ normalizeRate(l.descuento) = 100
                             THEN 1 ELSE l.cantidad
    <2>4. aumento = l.aumento
        <3>1. l.concepto = d.concepto
            BY <2>1 DEF Renglon
        <3>2. CASE d.ext
            BY <2>1, <3>1, <3>2, <1>1 DEF Renglon, DetallePaquete
        <3>3. CASE ~ d.ext
            BY <1>1, <3>1, <3>3
        <3> QED BY <3>2, <3>3
    <2>5. quantity = l.cantidad
        <3>1. l.cantidad \in Nat /\ l.descuento \in 0 .. 100
            BY <2>2 DEF Linea
        <3>2. l.cantidad >= 1
            BY <2>1, <3>1 DEF Renglon
        <3>3. normalizeRate(l.descuento) = l.descuento
            BY <3>1, RatesBounded
        <3>4. l.concepto = TECHNOLOGY_CREDIT_CONCEPT_ID /\ l.descuento = 100 => l.cantidad = 1
            BY <3>1, <3>2 DEF Gratis
        <3> QED BY <3>3, <3>4
    <2>6. safeAumento(l.aumento) = l.aumento
        BY <2>2, RatesBounded DEF Linea
    <2>7. Cobrado(p, l) = subTotalSinAumento(l) + l.valor * quantity * safeAumento(aumento)
        BY DEF Cobrado
    <2> HIDE DEF ls, concepts, aumento, quantity
    <2> QED BY <2>3, <2>4, <2>5, <2>6, <2>7 DEF subtotal
<1>3. \A l \in ls : v[l] \in Int /\ v[l] = w[l]
    BY <1>2
<1>4. /\ Total(ls) = SumFunctionOnSet(v, ls)
      /\ calcularTotalExtraOrdinario(ls, p) = SumFunctionOnSet(w, ls)
    BY TotalIsSum, ExtraordinarioIsSum
<1>5. IsFiniteSet(ls)
    BY LinesTyped
<1> HIDE DEF ls, v, w
<1>6. Total(ls) = calcularTotalExtraOrdinario(ls, p)
    BY <1>3, <1>4, <1>5, SumSame
<1> QED BY <1>6 DEF ls

-----------------------------------------------------------------------------
(* An enrolment is priced from its package, the discounts and the credits  *)
(* of now, and the surcharge of the day.                                   *)
Tarifa(p, recargo) ==
    [detalle |-> p.detalle,
     aumentoExtra |-> Rate(DescuentosMatricula(p), 0) + recargo,
     descuentoExtra |-> Rate(DescuentosMatricula(p), 1),
     quantity |-> IF Modo = "INDIVIDUAL" THEN matricula.creditos ELSE 0,
     matricula |-> p.categoria = MATRICULA,
     externos |-> IF EsEspecializacion THEN SPECIALIZATION_TUITION_CONCEPT_IDS ELSE {}]
LineasDe(p, recargo) == createDetailInvoice(Tarifa(p, recargo))
Recargo(dia) == IF dia > Ordinaria THEN Actual.porcentajeExt ELSE 0
Recargos     == {0, Actual.porcentajeExt}

(* What is on file, on paper and quoted comes from one package, when it    *)
(* comes from the discounts and credits of now; the days may differ.       *)
LineasInv == "lineas" \in vigentes /\ factura.categoria = MATRICULA =>
    \E p \in Paquetes : /\ PaqueteMatricula = {p} /\ factura.paquete = p.codigo
                        /\ \E r \in Recargos : factura.lineas = LineasDe(p, r)
ImpresoInv == "impreso" \in vigentes =>
    /\ "lineas" \in vigentes
    /\ factura.categoria = MATRICULA =>
         \E p \in Paquetes : /\ PaqueteMatricula = {p}
                             /\ \E r \in Recargos : impreso = Impreso(LineasDe(p, r), p)
CotizaInv == "cotizado" \in vigentes /\ factura.categoria = MATRICULA =>
    \E p \in Paquetes : /\ PaqueteMatricula = {p}
                        /\ cotizado.valor = Total(LineasDe(p, Recargo(cotizado.dia)))

PriceTyped == /\ TypeOK
              /\ matricula \in [matricula : {1}, nivel : Niveles, creditos : Creditos]
              /\ hoy \in Nat
              /\ factura # Nada => IsFiniteSet(factura.lineas)
              /\ vigentes # {} => factura # Nada
              /\ "cotizado" \in vigentes => cotizado \in [valor : Nat, dia : 0 .. hoy]

(* What holds whatever the tables hold: the types, and the value of the    *)
(* invoice.  What is on file, on paper and quoted stays of one package.    *)
PriceSound == PriceTyped /\ ValorEsLineas
TracedInv  == LineasInv /\ ImpresoInv /\ CotizaInv
PriceInv   == PriceSound /\ TracedInv

(* What the tables hold.  The codes that the source has for enrolments and *)
(* inscriptions are codes of such packages.                                *)
CodigosPropios ==
    /\ \A p \in Paquetes, modo \in {"INDIVIDUAL", "COMPLETO"}, nivel \in Niveles :
          p.codigo = PACKAGE_TYPE(modo, nivel) => p.categoria = MATRICULA
    /\ \A p \in Paquetes : p.codigo = INSCRIPCION_PACKAGE => p.categoria # MATRICULA

(* As the comment at invoice.util.ts:31 has it: nothing but the            *)
(* extraordinary enrolment makes one dearer, neither a discount that       *)
(* raises the price nor a surcharge of the package.                        *)
SoloExtraordinaria ==
    /\ \A d \in Descuentos : d.pago = MATRICULA => d.accion # 0
    /\ \A p \in Paquetes : p.categoria = MATRICULA => \A d \in p.detalle : d.aumento = 0

(* Packages of enrolments have the surcharge of the current configuration. *)
RecargoVigente ==
    \A p \in Paquetes : p.categoria = MATRICULA => p.config.porcentajeExt = Actual.porcentajeExt

-----------------------------------------------------------------------------
(* Orders of the handlers, and the bills they make. *)
LEMMA RateIsSum ==
    ASSUME NEW ds, NEW a
    PROVE  Rate(ds, a) = SumFunctionOnSet([d \in {e \in ds : e.accion = a} |-> d.porcentaje],
                                          {e \in ds : e.accion = a})
BY DEF Rate, SumOver, SumFunction

LEMMA RateNat ==
    ASSUME NEW ds \in SUBSET Descuento, IsFiniteSet(ds), NEW a
    PROVE  Rate(ds, a) \in Nat
<1> DEFINE X == {e \in ds : e.accion = a}
           w == [d \in X |-> d.porcentaje]
<1>1. IsFiniteSet(X)
    BY FS_Subset
<1>2. \A d \in X : w[d] \in Nat
    BY DEF Descuento
<1>3. Rate(ds, a) = SumFunctionOnSet(w, X)
    BY RateIsSum
<1> HIDE DEF X, w
<1> QED BY <1>1, <1>2, <1>3, SumNat

LEMMA RateNone ==
    ASSUME NEW ds, NEW a, \A d \in ds : d.accion # a
    PROVE  Rate(ds, a) = 0
<1>1. {e \in ds : e.accion = a} = {}
    OBVIOUS
<1> QED BY <1>1, RateIsSum, SumEmpty

(* What is left of the discounts of the student, whatever the handler. *)
LEMMA DiscountsTyped ==
    ASSUME PriceAssumption, NEW ds \in SUBSET Aprobados
    PROVE  ds \in SUBSET Descuento /\ IsFiniteSet(ds)
<1>1. ds \in SUBSET Descuentos
    BY DEF Aprobados
<1> QED BY <1>1, FS_Subset DEF PriceAssumption

LEMMA EnrolmentDiscounts ==
    ASSUME NEW p
    PROVE  DescuentosMatricula(p) \in SUBSET {d \in Aprobados : d.pago = p.categoria}
BY DEF DescuentosMatricula, filterDiscountsForPackage, deduplicateDiscountsByCategory,
       filterDiscountsForEnrollment, findForEnrollment

LEMMA OrderTyped ==
    ASSUME PriceAssumption, PriceTyped, NEW p \in Paquetes, NEW recargo \in Nat
    PROVE  IsOrder(Tarifa(p, recargo))
<1>1. DescuentosMatricula(p) \in SUBSET Aprobados
    BY EnrolmentDiscounts
<1>2. /\ Rate(DescuentosMatricula(p), 0) \in Nat
      /\ Rate(DescuentosMatricula(p), 1) \in Nat
    BY <1>1, DiscountsTyped, RateNat
<1>3. (IF Modo = "INDIVIDUAL" THEN matricula.creditos ELSE 0) \in Nat
    BY DEF PriceAssumption, PriceTyped
<1> QED BY <1>2, <1>3 DEF PriceAssumption, IsOrder, Tarifa

LEMMA RecargoNat == ASSUME PriceAssumption PROVE Recargos \subseteq Nat
BY DEF PriceAssumption, Recargos, Config

LEMMA RecargoOfDay == ASSUME NEW dia PROVE Recargo(dia) \in Recargos
BY DEF Recargo, Recargos

LEMMA BillTyped ==
    ASSUME PriceAssumption, NEW p \in Paquetes, NEW q, IsOrder(q), q.detalle # {},
           NEW valor \in Nat, NEW limite \in Int \cup {FinIns}
    PROVE  LET f == Bill(p, createDetailInvoice(q), valor, limite)
           IN  f \in Factura /\ f.lineas # {} /\ IsFiniteSet(f.lineas)
<1>1. p.categoria \in Nat /\ p.codigo \in Nat
    BY DEF PriceAssumption
<1> QED BY <1>1, LinesTyped DEF Bill, Factura

(* An enrolment's price is that of its order for today. *)
LEMMA GeneratedEnrolment ==
    ASSUME NEW p
    PROVE  generateInvoiceEnrrolment(p) =
              Bill(p, LineasDe(p, Recargo(hoy)), Total(LineasDe(p, Recargo(hoy))), Extraordinaria)
BY DEF generateInvoiceEnrrolment, LineasDe, Tarifa, Recargo

LEMMA EnrolmentPackages ==
    ASSUME PriceAssumption, PriceTyped
    PROVE  /\ PaqueteMatricula \subseteq {p \in Paquetes : p.detalle # {}}
           /\ IsFiniteSet(PaqueteMatricula)
           /\ CodigosPropios => \A p \in PaqueteMatricula : p.categoria = MATRICULA
<1>1. PaqueteMatricula \subseteq {p \in Paquetes : p.detalle # {}}
    BY DEF PaqueteMatricula, ByCode
<1>2. IsFiniteSet(PaqueteMatricula)
    BY <1>1, FS_Subset DEF PriceAssumption
<1>3. ASSUME CodigosPropios, NEW p \in PaqueteMatricula PROVE p.categoria = MATRICULA
    <2>1. CASE EsEspecializacion
        BY <2>1 DEF PaqueteMatricula
    <2>2. CASE ~ EsEspecializacion
        <3>1. p \in Paquetes /\ p.codigo = PACKAGE_TYPE(Modo, matricula.nivel)
            BY <2>2 DEF PaqueteMatricula, ByCode
        <3>2. Modo \in {"INDIVIDUAL", "COMPLETO"} /\ matricula.nivel \in Niveles
            BY DEF Modo, resolveEnrollmentPaymentMode, PriceTyped
        <3> QED BY <1>3, <3>1, <3>2 DEF CodigosPropios
    <2> QED BY <2>1, <2>2
<1> QED BY <1>1, <1>2, <1>3

(* The one package there is. *)
LEMMA OnePackage ==
    ASSUME PriceAssumption, PriceTyped, Cardinality(PaqueteMatricula) = 1, NEW p \in PaqueteMatricula
    PROVE  PaqueteMatricula = {p} /\ p \in Paquetes /\ p.detalle # {}
<1>1. \E x : PaqueteMatricula = {x}
    BY EnrolmentPackages, FS_Singleton
<1> QED BY <1>1, EnrolmentPackages

LEMMA EnrolmentBill ==
    ASSUME PriceAssumption, PriceTyped, NEW p \in PaqueteMatricula
    PROVE  LET f == generateInvoiceEnrrolment(p)
           IN  /\ f \in Factura /\ f.lineas # {} /\ IsFiniteSet(f.lineas)
               /\ f.categoria = p.categoria /\ f.paquete = p.codigo
               /\ f.lineas = LineasDe(p, Recargo(hoy)) /\ f.valor = Total(f.lineas)
<1> DEFINE q  == Tarifa(p, Recargo(hoy))
           ls == LineasDe(p, Recargo(hoy))
<1>1. p \in Paquetes /\ p.detalle # {}
    BY EnrolmentPackages
<1>2. IsOrder(q)
    BY <1>1, OrderTyped, RecargoNat, RecargoOfDay
<1>3. q.detalle # {} /\ ls = createDetailInvoice(q)
    BY <1>1 DEF Tarifa, LineasDe
<1>4. ls \in SUBSET Linea /\ IsFiniteSet(ls)
    BY <1>2, <1>3, LinesTyped
<1> HIDE DEF q, ls
<1>5. Total(ls) \in Nat
    BY <1>4, TotalsNat
<1>6. Extraordinaria \in Int
    BY DEF PriceAssumption
<1>7. generateInvoiceEnrrolment(p) = Bill(p, ls, Total(ls), Extraordinaria)
    BY GeneratedEnrolment DEF ls
<1>8. LET f == Bill(p, ls, Total(ls), Extraordinaria)
      IN  f \in Factura /\ f.lineas # {} /\ IsFiniteSet(f.lineas)
    BY <1>1, <1>2, <1>3, <1>5, <1>6, BillTyped
<1>9. LET f == Bill(p, ls, Total(ls), Extraordinaria)
      IN  f.categoria = p.categoria /\ f.paquete = p.codigo /\ f.lineas = ls /\ f.valor = Total(ls)
    BY DEF Bill
<1> QED BY <1>7, <1>8, <1>9 DEF ls

(* The other handlers: what they order, and the bills they make. *)
LEMMA SelectedTyped ==
    ASSUME PriceAssumption, NEW p \in Paquetes, NEW concepto, NEW total \in Nat
    PROVE  Selected(p, concepto, total) \in SUBSET DetallePaquete
           /\ IsFiniteSet(Selected(p, concepto, total))
<1> DEFINE E == {d \in p.detalle : concepto \in {0, d.concepto}}
           b == [d \in E |-> [d EXCEPT !.valor = total, !.cantidad = 1]]
           M == {[d EXCEPT !.valor = total, !.cantidad = 1] : d \in E}
<1>1. p.detalle \in SUBSET DetallePaquete /\ IsFiniteSet(p.detalle)
    BY DEF PriceAssumption
<1>2. E \in SUBSET DetallePaquete /\ E \subseteq p.detalle
    BY <1>1
<1>3. IsFiniteSet(E)
    BY <1>1, <1>2, FS_Subset
<1>4. Selected(p, concepto, total) \in {M, E}
    BY DEF Selected
<1>5. M \in SUBSET DetallePaquete
    <2>1. \A d \in DetallePaquete : [d EXCEPT !.valor = total, !.cantidad = 1] \in DetallePaquete
        BY DEF DetallePaquete
    <2> HIDE DEF E
    <2> SUFFICES ASSUME NEW m \in M PROVE m \in DetallePaquete
        OBVIOUS
    <2>2. PICK d \in E : m = [d EXCEPT !.valor = total, !.cantidad = 1]
        OBVIOUS
    <2> QED BY <1>2, <2>1, <2>2
<1>6. IsFiniteSet(M)
    <2>1. M = {b[d] : d \in E}
        OBVIOUS
    <2> HIDE DEF E, b, M
    <2>2. IsFiniteSet({b[d] : d \in E})
        BY <1>3, FiniteImage
    <2> QED BY <2>1, <2>2
<1> HIDE DEF E, M
<1> QED BY <1>2, <1>3, <1>4, <1>5, <1>6

LEMMA OtherRates ==
    ASSUME PriceAssumption, NEW categoria, NEW a
    PROVE  /\ Rate(deduplicateDiscountsByCategory(filterDiscountsForEnrollment(
                       findForEnrollment(categoria), matricula)), a) \in Nat
           /\ Rate(deduplicateDiscountsByCategory(findForInvoiceGeneral(categoria)), a) \in Nat
<1>1. /\ deduplicateDiscountsByCategory(filterDiscountsForEnrollment(
             findForEnrollment(categoria), matricula)) \in SUBSET Aprobados
      /\ deduplicateDiscountsByCategory(findForInvoiceGeneral(categoria)) \in SUBSET Aprobados
    BY DEF deduplicateDiscountsByCategory, filterDiscountsForEnrollment, findForEnrollment,
           findForInvoiceGeneral
<1> QED BY <1>1, DiscountsTyped, RateNat

LEMMA LastDay ==
    ASSUME PriceAssumption, PriceTyped
    PROVE  generateEndDatePayment(hoy, Mes) \in Int
BY DEF PriceAssumption, PriceTyped, generateEndDatePayment

(* What any handler's bill is like. *)
IsBill(f) == /\ f \in Factura /\ f.lineas # {} /\ IsFiniteSet(f.lineas)
             /\ f.categoria # OTROS => f.valor = Total(f.lineas)

LEMMA TotalBill ==
    ASSUME PriceAssumption, NEW p \in Paquetes, NEW q, IsOrder(q), q.detalle # {},
           NEW limite \in Int \cup {FinIns}
    PROVE  LET ls == createDetailInvoice(q)
           IN  IsBill(Bill(p, ls, Total(ls), limite))
<1> DEFINE ls == createDetailInvoice(q)
           f  == Bill(p, ls, Total(ls), limite)
<1>1. ls \in SUBSET Linea /\ IsFiniteSet(ls)
    BY LinesTyped
<1>2. Total(ls) \in Nat
    BY <1>1, TotalsNat
<1>3. f \in Factura /\ f.lineas # {} /\ IsFiniteSet(f.lineas)
    BY <1>2, BillTyped
<1>4. f.valor = Total(f.lineas)
    BY DEF Bill
<1> QED BY <1>3, <1>4 DEF IsBill

LEMMA RegistrationBill ==
    ASSUME PriceAssumption, PriceTyped, NEW p \in Paquetes, p.detalle # {}
    PROVE  LET f == generateInvoiceRegistration(p) IN IsBill(f) /\ f.categoria = p.categoria
<1> DEFINE ds == deduplicateDiscountsByCategory(
                    filterDiscountsForEnrollment(findForEnrollment(p.categoria), matricula))
           q  == [detalle |-> p.detalle,
                  aumentoExtra |-> Rate(ds, 0), descuentoExtra |-> Rate(ds, 1),
                  quantity |-> 1, matricula |-> FALSE, externos |-> {}]
           limite == IF FinIns # SinFecha THEN FinIns ELSE generateEndDatePayment(hoy, Mes)
           ls == createDetailInvoice(q)
<1>1. Rate(ds, 0) \in Nat /\ Rate(ds, 1) \in Nat
    BY OtherRates
<1>2. p.detalle \in SUBSET DetallePaquete /\ IsFiniteSet(p.detalle)
    BY DEF PriceAssumption
<1>3. generateInvoiceRegistration(p) = Bill(p, ls, Total(ls), limite)
    BY DEF generateInvoiceRegistration
<1>4. limite \in Int \cup {FinIns}
    BY LastDay
<1> HIDE DEF ds
<1>5. IsOrder(q) /\ q.detalle # {}
    BY <1>1, <1>2 DEF IsOrder
<1> HIDE DEF q, limite
<1>6. IsBill(Bill(p, ls, Total(ls), limite))
    BY <1>4, <1>5, TotalBill
<1> QED BY <1>3, <1>6 DEF Bill

LEMMA VariousBill ==
    ASSUME PriceAssumption, PriceTyped, NEW p \in Paquetes, NEW concepto, NEW total \in Nat,
           NEW cantidad \in Nat, Selected(p, concepto, total) # {}
    PROVE  LET f == generateInvoiceVariousByInvoice(p, concepto, total, cantidad)
           IN  IsBill(f) /\ f.categoria = p.categoria
<1> DEFINE ds == deduplicateDiscountsByCategory(findForInvoiceGeneral(p.categoria))
           S  == Selected(p, concepto, total)
           q  == [detalle |-> S, aumentoExtra |-> Rate(ds, 0), descuentoExtra |-> Rate(ds, 1),
                  quantity |-> cantidad, matricula |-> FALSE, externos |-> {}]
           limite == generateEndDatePayment(hoy, Mes)
           ls == createDetailInvoice(q)
<1>1. Rate(ds, 0) \in Nat /\ Rate(ds, 1) \in Nat
    BY OtherRates
<1>2. S \in SUBSET DetallePaquete /\ IsFiniteSet(S)
    BY SelectedTyped
<1>3. generateInvoiceVariousByInvoice(p, concepto, total, cantidad) = Bill(p, ls, Total(ls), limite)
    BY DEF generateInvoiceVariousByInvoice
<1>4. limite \in Int \cup {FinIns}
    BY LastDay
<1> HIDE DEF ds, S
<1>5. IsOrder(q)
    BY <1>1, <1>2 DEF IsOrder
<1>6. q.detalle # {}
    BY DEF S
<1> HIDE DEF q, limite
<1>7. IsBill(Bill(p, ls, Total(ls), limite))
    BY <1>4, <1>5, <1>6, TotalBill
<1> QED BY <1>3, <1>7 DEF Bill

LEMMA OtherBill ==
    ASSUME PriceAssumption, PriceTyped, NEW p \in Paquetes, NEW concepto, NEW total \in Nat,
           p.categoria = OTROS, Selected(p, concepto, total) # {}
    PROVE  LET f == generateInvoiceOther(p, concepto, total)
           IN  IsBill(f) /\ f.categoria = p.categoria
<1> DEFINE S  == Selected(p, concepto, total)
           q  == [detalle |-> S, aumentoExtra |-> 0, descuentoExtra |-> 0,
                  quantity |-> 1, matricula |-> FALSE, externos |-> {}]
           limite == generateEndDatePayment(hoy, Mes)
           ls == createDetailInvoice(q)
           f  == Bill(p, ls, 100 * total, limite)
<1>1. S \in SUBSET DetallePaquete /\ IsFiniteSet(S)
    BY SelectedTyped
<1>2. generateInvoiceOther(p, concepto, total) = f
    BY DEF generateInvoiceOther
<1>3. limite \in Int \cup {FinIns}
    BY LastDay
<1> HIDE DEF S
<1>4. IsOrder(q)
    BY <1>1 DEF IsOrder
<1>5. q.detalle # {}
    BY DEF S
<1>6. 100 * total \in Nat
    OBVIOUS
<1> HIDE DEF q, limite
<1>7. f \in Factura /\ f.lineas # {} /\ IsFiniteSet(f.lineas)
    BY <1>3, <1>4, <1>5, <1>6, BillTyped
<1>8. f.categoria = p.categoria
    BY DEF Bill
<1> QED BY <1>2, <1>7, <1>8 DEF IsBill

LEMMA PricedBill ==
    ASSUME PriceAssumption, PriceTyped, NEW p \in Paquetes, NEW concepto, NEW total \in Nat,
           NEW cantidad \in Nat, NEW f \in Priced(p, concepto, total, cantidad)
    PROVE  /\ IsBill(f)
           /\ CodigosPropios /\ f.categoria = MATRICULA =>
                 p.categoria = MATRICULA
<1>1. CASE p.categoria = MATRICULA
    <2>1. PICK x \in PaqueteMatricula : f = generateInvoiceEnrrolment(x)
        BY <1>1 DEF Priced, MATRICULA, INSCRIPCION
    <2> QED BY <1>1, <2>1, EnrolmentBill DEF IsBill
<1>2. CASE p.categoria = INSCRIPCION
    <2> DEFINE c == IF p.codigo \in EPackageCode THEN p.codigo ELSE INSCRIPCION_PACKAGE
    <2>1. PICK x \in ByCode(c) : f = generateInvoiceRegistration(x)
        BY <1>2 DEF Priced, MATRICULA, INSCRIPCION
    <2>2. x \in Paquetes /\ x.codigo = c /\ x.detalle # {}
        BY DEF ByCode
    <2>3. IsBill(f) /\ f.categoria = x.categoria
        BY <2>1, <2>2, RegistrationBill
    <2>4. ASSUME CodigosPropios PROVE x.categoria # MATRICULA
        <3>1. CASE c = p.codigo
            <4>1. x = p
                BY <2>2, <3>1 DEF PriceAssumption
            <4> QED BY <1>2, <4>1 DEF MATRICULA, INSCRIPCION
        <3>2. CASE c = INSCRIPCION_PACKAGE
            BY <2>2, <2>4, <3>2 DEF CodigosPropios
        <3> QED BY <3>1, <3>2
    <2> QED BY <2>3, <2>4
<1>3. CASE p.categoria # MATRICULA /\ p.categoria # INSCRIPCION
    <2>1. Selected(p, concepto, total) # {}
        BY <1>3 DEF Priced
    <2>2. CASE p.categoria = OTROS
        <3>1. f = generateInvoiceOther(p, concepto, total)
            BY <1>3, <2>1, <2>2 DEF Priced
        <3> QED BY <1>3, <2>1, <2>2, <3>1, OtherBill
    <2>3. CASE p.categoria # OTROS
        <3>1. f = generateInvoiceVariousByInvoice(p, concepto, total, cantidad)
            BY <1>3, <2>1, <2>3 DEF Priced
        <3> QED BY <1>3, <2>1, <3>1, VariousBill
    <2> QED BY <2>2, <2>3
<1> QED BY <1>1, <1>2, <1>3

(* One price of an enrolment is one package. *)
LEMMA OneEnrolment ==
    ASSUME PriceAssumption, PriceTyped, NEW p \in Paquetes, NEW concepto, NEW total,
           NEW cantidad, p.categoria = MATRICULA,
           Cardinality(Priced(p, concepto, total, cantidad)) = 1,
           NEW f \in Priced(p, concepto, total, cantidad)
    PROVE  \E x \in Paquetes : /\ PaqueteMatricula = {x} /\ f.paquete = x.codigo
                               /\ f.lineas = LineasDe(x, Recargo(hoy))
<1> DEFINE g == [x \in PaqueteMatricula |-> generateInvoiceEnrrolment(x)]
           N == {g[x] : x \in PaqueteMatricula}
<1>1. Priced(p, concepto, total, cantidad) = {generateInvoiceEnrrolment(x) : x \in PaqueteMatricula}
    BY DEF Priced, MATRICULA, INSCRIPCION
<1>2. \A x \in PaqueteMatricula : /\ x \in Paquetes /\ g[x].paquete = x.codigo
                                  /\ g[x].lineas = LineasDe(x, Recargo(hoy))
    BY EnrolmentBill, EnrolmentPackages
<1> HIDE DEF g
<1>3. IsFiniteSet(N)
    BY FiniteImage, EnrolmentPackages
<1>4. \E z : N = {z}
    <2>1. Priced(p, concepto, total, cantidad) = N
        BY <1>1 DEF g
    <2> HIDE DEF N
    <2> QED BY <1>3, <2>1, FS_Singleton
<1>5. PICK x \in PaqueteMatricula : f = g[x]
    BY <1>1 DEF g
<1>6. \A y \in PaqueteMatricula : g[y] = g[x]
    BY <1>4
<1>7. \A y \in PaqueteMatricula : y = x
    BY <1>2, <1>6 DEF PriceAssumption
<1>8. PaqueteMatricula = {x}
    BY <1>7
<1> QED BY <1>2, <1>5, <1>8

-----------------------------------------------------------------------------
(* What does not change while discounts and credits stay. *)
LEMMA Stands ==
    ASSUME UNCHANGED <<matricula, aprobados>>
    PROVE  /\ PaqueteMatricula' = PaqueteMatricula
           /\ \A p, r : LineasDe(p, r)' = LineasDe(p, r)
<1>1. /\ Modo' = Modo /\ EsEspecializacion' = EsEspecializacion
      /\ \A p : DescuentosMatricula(p)' = DescuentosMatricula(p)
    BY DEF Modo, EsEspecializacion, DescuentosMatricula, findForEnrollment, Aprobados
<1>2. PaqueteMatricula' = PaqueteMatricula
    BY <1>1 DEF PaqueteMatricula
<1>3. \A p, r : Tarifa(p, r)' = Tarifa(p, r)
    BY <1>1 DEF Tarifa
<1> QED BY <1>2, <1>3 DEF LineasDe

LEMMA InitPrice == ASSUME PriceAssumption, Init PROVE PriceInv
BY DEF Init, PriceInv, PriceSound, TracedInv, PriceTyped, TypeOK, LineasInv, ImpresoInv, CotizaInv, ValorEsLineas

(* An action that writes one of the program's bills. *)
LEMMA WritesBill ==
    ASSUME PriceAssumption, PriceSound, IsBill(factura'), hoy' = hoy,
           UNCHANGED <<matricula, aprobados>>,
           vigentes' \subseteq {"lineas", "impreso", "cotizado"},
           cotizado' # Nada => cotizado' \in [valor : Nat, dia : 0 .. hoy],
           "cotizado" \in vigentes' => cotizado' \in [valor : Nat, dia : 0 .. hoy]
    PROVE  PriceSound'
<1>1. factura' # Nada
    BY DEF IsBill, PriceAssumption
<1>2. TypeOK'
    BY DEF PriceSound, PriceTyped, TypeOK, IsBill
<1>3. PriceTyped'
    BY <1>1, <1>2 DEF PriceSound, PriceTyped, IsBill
<1>4. ValorEsLineas'
    BY DEF ValorEsLineas, IsBill
<1> QED BY <1>3, <1>4 DEF PriceSound

LEMMA SoundGenerate ==
    ASSUME PriceAssumption, PriceSound, Generate
    PROVE  PriceSound'
<1>1. PICK p \in Paquetes, total \in Totales, cantidad \in Cantidades :
        \E concepto \in {0} \cup {d.concepto : d \in p.detalle} :
            factura' \in Priced(p, concepto, total, cantidad)
    BY DEF Generate
<1>2. total \in Nat /\ cantidad \in Nat
    BY DEF PriceAssumption
<1>3. IsBill(factura')
    BY <1>1, <1>2, PricedBill DEF PriceSound
<1>4. /\ vigentes' = vigentes \cup {"lineas"}
      /\ UNCHANGED <<matricula, aprobados, hoy, cotizado>>
    BY DEF Generate
<1> QED BY <1>3, <1>4, WritesBill DEF PriceSound, PriceTyped, TypeOK

LEMMA SoundConsult ==
    ASSUME PriceAssumption, PriceSound, ConsultEnrolment
    PROVE  PriceSound'
<1>1. PICK p \in PaqueteMatricula :
        LET nueva == generateInvoiceEnrrolment(p) IN
        /\ cotizado' = [valor |-> nueva.valor, dia |-> hoy]
        /\ \/ UNCHANGED factura /\ vigentes' = vigentes \cup {"cotizado"}
           \/ factura' = nueva /\ vigentes' = vigentes \cup {"cotizado", "lineas"}
    BY DEF ConsultEnrolment
<1> DEFINE nueva == generateInvoiceEnrrolment(p)
<1>2. IsBill(nueva)
    BY EnrolmentBill DEF IsBill, PriceSound
<1>3. nueva.valor \in Nat
    BY <1>2 DEF IsBill, Factura
<1>4. hoy \in 0 .. hoy
    BY DEF PriceSound, PriceTyped
<1>5. cotizado' \in [valor : Nat, dia : 0 .. hoy]
    BY <1>1, <1>3, <1>4
<1>6. IsBill(factura)
    BY DEF ConsultEnrolment, PriceSound, PriceTyped, TypeOK, ValorEsLineas, IsBill
<1>7. IsBill(factura')
    BY <1>1, <1>2, <1>6
<1>8. vigentes' \subseteq {"lineas", "impreso", "cotizado"}
    BY <1>1 DEF PriceSound, PriceTyped, TypeOK
<1>9. UNCHANGED <<matricula, aprobados, hoy>>
    BY DEF ConsultEnrolment
<1> QED BY <1>5, <1>7, <1>8, <1>9, WritesBill

LEMMA SoundOther ==
    ASSUME PriceAssumption, PriceSound, ConsultOther
    PROVE  PriceSound'
<1>1. IsBill(factura)
    BY DEF ConsultOther, PriceSound, PriceTyped, TypeOK, ValorEsLineas, IsBill
<1>2. Total(factura.lineas) \in Nat
    BY <1>1, TotalsNat DEF IsBill, Factura
<1>3. cotizado' \in [valor : Nat, dia : 0 .. hoy]
    BY <1>2 DEF ConsultOther, PriceSound, PriceTyped
<1>4. IsBill(factura') /\ UNCHANGED <<matricula, aprobados, hoy>>
    BY <1>1 DEF ConsultOther
<1>5. vigentes' \subseteq {"lineas", "impreso", "cotizado"}
    BY DEF ConsultOther, PriceSound, PriceTyped, TypeOK
<1> QED BY <1>3, <1>4, <1>5, WritesBill

LEMMA SoundStep == ASSUME PriceAssumption, PriceSound, [Next]_vars PROVE PriceSound'
<1>1. CASE Generate
    BY <1>1, SoundGenerate
<1>2. CASE ConsultEnrolment
    BY <1>2, SoundConsult
<1>3. CASE ConsultOther
    BY <1>3, SoundOther
<1>4. CASE GetHtmlInvoice
    BY <1>4 DEF GetHtmlInvoice, PriceSound, PriceTyped, TypeOK, ValorEsLineas
<1>5. ASSUME NEW d \in Descuentos, Decide(d) PROVE PriceSound'
    BY <1>5 DEF Decide, PriceSound, PriceTyped, TypeOK, ValorEsLineas
<1>6. ASSUME NEW c \in Creditos, Enrol(c) PROVE PriceSound'
    BY <1>6 DEF Enrol, PriceSound, PriceTyped, TypeOK, ValorEsLineas
<1>7. CASE NextDay
    BY <1>7 DEF NextDay, PriceSound, PriceTyped, TypeOK, ValorEsLineas
<1>8. CASE UNCHANGED vars
    BY <1>8 DEF vars, PriceSound, PriceTyped, TypeOK, ValorEsLineas
<1> QED BY <1>1, <1>2, <1>3, <1>4, <1>5, <1>6, <1>7, <1>8 DEF Next

LEMMA PriceSoundAlways == Spec => []PriceSound
<1>1. Init => PriceSound
    BY PriceAssumption, InitPrice DEF PriceInv
<1>2. PriceSound /\ [Next]_vars => PriceSound'
    BY PriceAssumption, SoundStep
<1> QED BY <1>1, <1>2, PTL DEF Spec

(* The state of a student's invoice is one of the program's. *)
THEOREM PriceTypes == Spec => []TypeOK
<1>1. PriceSound => TypeOK
    BY DEF PriceSound, PriceTyped
<1> QED BY <1>1, PriceSoundAlways, PTL

(* The value on an invoice that no client has set is what its lines come   *)
(* to, whichever handler wrote it last.                                    *)
THEOREM ValorProved == Spec => []ValorEsLineas
<1>1. PriceSound => ValorEsLineas
    BY DEF PriceSound
<1> QED BY <1>1, PriceSoundAlways, PTL

(* A quote is what the lines on file come to when it has been given. *)
LEMMA QuoteStep ==
    ASSUME PriceAssumption, PriceSound, [Next]_vars, cotizado' # cotizado
    PROVE  cotizado'.valor = Total(factura'.lineas)
<1>1. CASE ConsultEnrolment
    <2>1. PICK p \in PaqueteMatricula :
            LET nueva == generateInvoiceEnrrolment(p) IN
            /\ cotizado' = [valor |-> nueva.valor, dia |-> hoy]
            /\ IF Total(factura.lineas) = nueva.valor
                 THEN UNCHANGED factura
                 ELSE factura' = nueva
        BY <1>1 DEF ConsultEnrolment
    <2> DEFINE nueva == generateInvoiceEnrrolment(p)
    <2>2. nueva.valor = Total(nueva.lineas)
        BY EnrolmentBill DEF PriceSound
    <2>3. CASE Total(factura.lineas) = nueva.valor
        BY <2>1, <2>3
    <2>4. CASE Total(factura.lineas) # nueva.valor
        BY <2>1, <2>2, <2>4
    <2> QED BY <2>3, <2>4
<1>2. CASE ConsultOther
    BY <1>2 DEF ConsultOther
<1> QED BY <1>1, <1>2 DEF Next, vars, Generate, GetHtmlInvoice, Decide, Enrol, NextDay

(* A bank is quoted what is on file from then on. *)
THEOREM CotizaProved == Spec => CotizaLoEscrito
<1>1. PriceSound /\ [Next]_vars
        => [cotizado' # cotizado => cotizado'.valor = Total(factura'.lineas)]_vars
    BY PriceAssumption, QuoteStep
<1> QED BY <1>1, PriceSoundAlways, PTL DEF Spec, CotizaLoEscrito

(* With the same discounts and credits, what has not been written or is    *)
(* not of now needs no new argument.                                       *)
LEMMA KeepsLines ==
    ASSUME PriceSound, LineasInv, UNCHANGED <<matricula, aprobados>>, factura' = factura,
           "lineas" \in vigentes' => "lineas" \in vigentes
    PROVE  LineasInv'
BY Stands DEF LineasInv

LEMMA KeepsPrint ==
    ASSUME PriceSound, ImpresoInv, UNCHANGED <<matricula, aprobados>>, impreso' = impreso,
           factura # Nada /\ factura'.categoria = MATRICULA => factura.categoria = MATRICULA,
           "impreso" \in vigentes' => "impreso" \in vigentes,
           "lineas" \in vigentes => "lineas" \in vigentes'
    PROVE  ImpresoInv'
<1>1. vigentes # {} => factura # Nada
    BY DEF PriceSound, PriceTyped
<1>2. \A p, r : Impreso(LineasDe(p, r), p)' = Impreso(LineasDe(p, r), p)
    BY Stands DEF Impreso
<1> QED BY <1>1, <1>2, Stands DEF ImpresoInv

LEMMA KeepsQuote ==
    ASSUME PriceSound, CotizaInv, UNCHANGED <<matricula, aprobados>>, cotizado' = cotizado,
           factura # Nada /\ factura'.categoria = MATRICULA => factura.categoria = MATRICULA,
           "cotizado" \in vigentes' => "cotizado" \in vigentes
    PROVE  CotizaInv'
<1>1. vigentes # {} => factura # Nada
    BY DEF PriceSound, PriceTyped
<1> QED BY <1>1, Stands DEF CotizaInv

LEMMA QuoteConsult ==
    ASSUME PriceAssumption, PriceSound, ConsultEnrolment
    PROVE  CotizaInv'
<1>1. PICK p \in PaqueteMatricula :
        cotizado' = [valor |-> generateInvoiceEnrrolment(p).valor, dia |-> hoy]
    BY DEF ConsultEnrolment
<1>2. UNCHANGED <<matricula, aprobados>>
    BY DEF ConsultEnrolment
<1>3. PaqueteMatricula = {p} /\ p \in Paquetes
    BY OnePackage DEF ConsultEnrolment, PriceSound
<1>4. generateInvoiceEnrrolment(p).valor = Total(LineasDe(p, Recargo(hoy)))
    BY EnrolmentBill DEF PriceSound
<1>5. cotizado'.valor = Total(LineasDe(p, Recargo(cotizado'.dia)))
    BY <1>1, <1>4
<1>6. Total(LineasDe(p, Recargo(cotizado.dia)))' = Total(LineasDe(p, Recargo(cotizado'.dia)))
    BY <1>2, Stands DEF Recargo
<1> QED BY <1>2, <1>3, <1>5, <1>6, Stands DEF CotizaInv

LEMMA QuoteTraced ==
    ASSUME PriceAssumption, PriceSound, CotizaInv, [Next]_vars
    PROVE  CotizaInv'
<1>1. CASE ConsultEnrolment
    BY <1>1, QuoteConsult
<1>2. CASE ConsultOther
    BY <1>2 DEF ConsultOther, CotizaInv
<1>3. CASE vigentes' = {}
    BY <1>3 DEF CotizaInv
<1>4. CASE /\ UNCHANGED <<matricula, aprobados, cotizado>>
           /\ factura # Nada => factura'.categoria = factura.categoria
           /\ "cotizado" \in vigentes' => "cotizado" \in vigentes
    BY <1>4, KeepsQuote
<1>5. Generate \/ GetHtmlInvoice \/ NextDay \/ UNCHANGED vars =>
         /\ UNCHANGED <<matricula, aprobados, cotizado>>
         /\ factura # Nada => factura'.categoria = factura.categoria
         /\ "cotizado" \in vigentes' => "cotizado" \in vigentes
    BY DEF Generate, GetHtmlInvoice, NextDay, vars
<1>6. (\E d \in Descuentos : Decide(d)) \/ (\E c \in Creditos : Enrol(c)) => vigentes' = {}
    BY DEF Decide, Enrol
<1> QED BY <1>1, <1>2, <1>3, <1>4, <1>5, <1>6 DEF Next

LEMMA TracedGenerate ==
    ASSUME PriceAssumption, CodigosPropios, PriceSound, TracedInv, Generate
    PROVE  TracedInv'
<1>1. PICK p \in Paquetes, total \in Totales, cantidad \in Cantidades :
        \E concepto \in {0} \cup {d.concepto : d \in p.detalle} :
            /\ Cardinality(Priced(p, concepto, total, cantidad)) = 1
            /\ factura' \in Priced(p, concepto, total, cantidad)
    BY DEF Generate
<1>2. total \in Nat /\ cantidad \in Nat
    BY DEF PriceAssumption
<1>3. /\ factura # Nada => factura'.categoria = factura.categoria
      /\ vigentes' = vigentes \cup {"lineas"}
      /\ UNCHANGED <<matricula, aprobados, hoy, cotizado, impreso>>
    BY DEF Generate
<1>4. ASSUME factura'.categoria = MATRICULA
      PROVE  \E x \in Paquetes : /\ PaqueteMatricula = {x} /\ factura'.paquete = x.codigo
                                 /\ factura'.lineas = LineasDe(x, Recargo(hoy))
    <2>1. p.categoria = MATRICULA
        BY <1>1, <1>2, <1>4, PricedBill DEF PriceSound
    <2> QED BY <1>1, <2>1, OneEnrolment DEF PriceSound
<1>5. LineasInv'
    BY <1>3, <1>4, Stands, RecargoOfDay DEF LineasInv
<1>6. ImpresoInv'
    BY <1>3, KeepsPrint DEF TracedInv
<1>7. CotizaInv'
    BY <1>3, KeepsQuote DEF TracedInv
<1> QED BY <1>5, <1>6, <1>7 DEF TracedInv

LEMMA TracedPrint ==
    ASSUME PriceAssumption, PriceSound, TracedInv, GetHtmlInvoice
    PROVE  TracedInv'
<1>1. UNCHANGED <<matricula, aprobados, factura, cotizado>>
    BY DEF GetHtmlInvoice
<1>2. PICK p \in ByCode(factura.paquete) : impreso' = Impreso(factura.lineas, p)
    BY DEF GetHtmlInvoice, Printed, Impreso
<1>3. /\ "lineas" \in vigentes' <=> "lineas" \in vigentes
      /\ "cotizado" \in vigentes' <=> "cotizado" \in vigentes
      /\ "impreso" \in vigentes' => "lineas" \in vigentes
    BY DEF GetHtmlInvoice
<1>4. LineasInv' /\ CotizaInv'
    BY <1>1, <1>3, KeepsLines, KeepsQuote DEF TracedInv
<1>5. ASSUME "impreso" \in vigentes', factura.categoria = MATRICULA
      PROVE  \E x \in Paquetes : /\ PaqueteMatricula = {x}
                                 /\ \E r \in Recargos : impreso' = Impreso(LineasDe(x, r), x)
    <2>1. PICK x \in Paquetes : /\ PaqueteMatricula = {x} /\ factura.paquete = x.codigo
                                /\ \E r \in Recargos : factura.lineas = LineasDe(x, r)
        BY <1>3, <1>5 DEF TracedInv, LineasInv
    <2>2. x = p
        BY <2>1 DEF ByCode, PriceAssumption
    <2> QED BY <1>2, <2>1, <2>2
<1>6. \A x, r : Impreso(LineasDe(x, r), x)' = Impreso(LineasDe(x, r), x)
    BY <1>1, Stands DEF Impreso
<1>7. ImpresoInv'
    BY <1>1, <1>3, <1>5, <1>6, Stands DEF ImpresoInv
<1> QED BY <1>4, <1>7 DEF TracedInv

LEMMA TracedConsult ==
    ASSUME PriceAssumption, PriceSound, TracedInv, ConsultEnrolment
    PROVE  TracedInv'
<1>1. PICK p \in PaqueteMatricula :
        LET nueva == generateInvoiceEnrrolment(p) IN
        /\ cotizado' = [valor |-> nueva.valor, dia |-> hoy]
        /\ \/ UNCHANGED factura /\ vigentes' = vigentes \cup {"cotizado"}
           \/ factura' = nueva /\ vigentes' = vigentes \cup {"cotizado", "lineas"}
    BY DEF ConsultEnrolment
<1>2. /\ UNCHANGED <<matricula, aprobados, hoy, impreso>>
      /\ factura # Nada /\ factura.categoria = MATRICULA
    BY DEF ConsultEnrolment
<1>3. PaqueteMatricula = {p} /\ p \in Paquetes
    BY OnePackage DEF ConsultEnrolment, PriceSound
<1> DEFINE nueva == generateInvoiceEnrrolment(p)
<1>4. /\ nueva.paquete = p.codigo /\ nueva.lineas = LineasDe(p, Recargo(hoy))
      /\ nueva.valor = Total(nueva.lineas)
    BY EnrolmentBill DEF PriceSound
<1> HIDE DEF nueva
<1>5. /\ cotizado' = [valor |-> nueva.valor, dia |-> hoy]
      /\ \/ factura' = factura /\ vigentes' = vigentes \cup {"cotizado"}
         \/ factura' = nueva /\ vigentes' = vigentes \cup {"cotizado", "lineas"}
    BY <1>1 DEF nueva
<1>6. CotizaInv'
    BY QuoteConsult
<1>7. LineasInv'
    <2>1. CASE factura' = factura /\ vigentes' = vigentes \cup {"cotizado"}
        BY <1>2, <2>1, KeepsLines DEF TracedInv
    <2>2. CASE factura' = nueva
        BY <1>2, <1>3, <1>4, <2>2, Stands, RecargoOfDay DEF LineasInv
    <2> QED BY <1>5, <2>1, <2>2
<1>8. ImpresoInv'
    <2>1. /\ "impreso" \in vigentes' => "impreso" \in vigentes
          /\ "lineas" \in vigentes => "lineas" \in vigentes'
        BY <1>5
    <2> QED BY <1>2, <2>1, KeepsPrint DEF TracedInv
<1> QED BY <1>6, <1>7, <1>8 DEF TracedInv

LEMMA TracedStep ==
    ASSUME PriceAssumption, CodigosPropios, PriceSound, TracedInv, [Next]_vars
    PROVE  TracedInv'
<1>1. CASE Generate
    BY <1>1, TracedGenerate
<1>2. CASE GetHtmlInvoice
    BY <1>2, TracedPrint
<1>3. CASE ConsultEnrolment
    BY <1>3, TracedConsult
<1>4. CASE ConsultOther
    <2>1. /\ UNCHANGED <<matricula, aprobados, hoy, factura, impreso>>
          /\ factura'.categoria # MATRICULA
          /\ "lineas" \in vigentes' <=> "lineas" \in vigentes
          /\ "impreso" \in vigentes' <=> "impreso" \in vigentes
        BY <1>4 DEF ConsultOther
    <2>2. LineasInv' /\ ImpresoInv'
        BY <2>1, KeepsLines, KeepsPrint DEF TracedInv
    <2>3. CotizaInv'
        BY <2>1 DEF CotizaInv
    <2> QED BY <2>2, <2>3 DEF TracedInv
<1>5. CASE vigentes' = {}
    BY <1>5 DEF TracedInv, LineasInv, ImpresoInv, CotizaInv
<1>6. CASE UNCHANGED <<matricula, aprobados, factura, cotizado, impreso, vigentes>>
    BY <1>6, KeepsLines, KeepsPrint, KeepsQuote DEF TracedInv
<1>7. (\E d \in Descuentos : Decide(d)) \/ (\E c \in Creditos : Enrol(c)) => vigentes' = {}
    BY DEF Decide, Enrol
<1>8. NextDay \/ UNCHANGED vars => UNCHANGED <<matricula, aprobados, factura, cotizado, impreso, vigentes>>
    BY DEF NextDay, vars
<1> QED BY <1>1, <1>2, <1>3, <1>4, <1>5, <1>6, <1>7, <1>8 DEF Next

LEMMA PriceInvAlways == ASSUME CodigosPropios PROVE Spec => []PriceInv
<1>1. Init => PriceInv
    BY PriceAssumption, InitPrice
<1>2. PriceInv /\ [Next]_vars => PriceInv'
    BY PriceAssumption, SoundStep, TracedStep DEF PriceInv
<1> QED BY <1>1, <1>2, PTL DEF Spec

(* Lines of the same order are free alike. *)
LEMMA GratisAlike ==
    ASSUME NEW q, NEW r, SameOrder(q, r), Gratis(createDetailInvoice(q))
    PROVE  Gratis(createDetailInvoice(r))
<1>1. PICK d \in q.detalle : /\ Renglon(q, d).concepto = TECHNOLOGY_CREDIT_CONCEPT_ID
                             /\ Renglon(q, d).descuento = 100 /\ Renglon(q, d).cantidad > 1
    BY LinesOfDetails DEF Gratis
<1>2. Renglon(r, d) \in createDetailInvoice(r)
    BY LinesOfDetails DEF SameOrder
<1>3. /\ Renglon(r, d).concepto = Renglon(q, d).concepto
      /\ Renglon(r, d).descuento = Renglon(q, d).descuento
      /\ Renglon(r, d).cantidad = Renglon(q, d).cantidad
    BY DEF Renglon, Unidades, SameOrder
<1> QED BY <1>1, <1>2, <1>3 DEF Gratis

LEMMA PrintStands ==
    ASSUME PriceAssumption, CodigosPropios, SoloExtraordinaria, RecargoVigente, PriceInv
    PROVE  ImpresoVale
<1>1. TypeOK
    BY DEF PriceInv, PriceSound, PriceTyped
<1> SUFFICES ASSUME {"impreso", "cotizado"} \subseteq vigentes, factura.categoria = MATRICULA
             PROVE  /\ cotizado.dia <= Ordinaria => MathRound(cotizado.valor) = impreso.ordinario
                    /\ cotizado.dia > Ordinaria /\ ~ CreditosGratis =>
                          MathRound(cotizado.valor) = impreso.extraordinario
    BY <1>1 DEF ImpresoVale
<1>2. PriceTyped /\ LineasInv /\ ImpresoInv /\ CotizaInv
    BY DEF PriceInv, PriceSound, TracedInv
<1>3. PICK p \in Paquetes :
        /\ PaqueteMatricula = {p}
        /\ cotizado.valor = Total(LineasDe(p, Recargo(cotizado.dia)))
    BY <1>2 DEF CotizaInv
<1>4. PICK r \in Recargos : impreso = Impreso(LineasDe(p, r), p)
    BY <1>2, <1>3 DEF ImpresoInv
<1>5. PICK s \in Recargos : factura.lineas = LineasDe(p, s)
    BY <1>2, <1>3 DEF ImpresoInv, LineasInv
<1> DEFINE t == Recargo(cotizado.dia)
<1>6. t \in Recargos /\ {r, s, t} \subseteq Nat
    BY RecargoOfDay, RecargoNat
<1>7. p.categoria = MATRICULA
    BY <1>2, <1>3, EnrolmentPackages
<1>8. \A d \in p.detalle : d.aumento = 0
    BY <1>7 DEF SoloExtraordinaria
<1>9. Rate(DescuentosMatricula(p), 0) = 0
    <2>1. \A d \in DescuentosMatricula(p) : d.accion # 0
        BY <1>7, EnrolmentDiscounts DEF SoloExtraordinaria, Aprobados
    <2> QED BY <2>1, RateNone
<1> HIDE DEF t
<1>10. /\ IsOrder(Tarifa(p, r)) /\ IsOrder(Tarifa(p, s)) /\ IsOrder(Tarifa(p, t))
       /\ SameOrder(Tarifa(p, r), Tarifa(p, t)) /\ SameOrder(Tarifa(p, t), Tarifa(p, s))
       /\ Tarifa(p, t).detalle = p.detalle /\ Tarifa(p, r).detalle = p.detalle
       /\ Tarifa(p, t).aumentoExtra = t
    <2>1. /\ IsOrder(Tarifa(p, r)) /\ IsOrder(Tarifa(p, s)) /\ IsOrder(Tarifa(p, t))
        BY <1>2, <1>6, OrderTyped
    <2>2. Tarifa(p, t).aumentoExtra = t
        BY <1>6, <1>9 DEF Tarifa
    <2> QED BY <2>1, <2>2 DEF Tarifa, SameOrder
<1>11. impreso = Impreso(LineasDe(p, t), p)
    BY <1>4, <1>8, <1>10, PrintedAlike DEF LineasDe
<1>12. ASSUME cotizado.dia <= Ordinaria PROVE MathRound(cotizado.valor) = impreso.ordinario
    <2>1. cotizado.dia \in Int /\ Ordinaria \in Int
        BY <1>2 DEF PriceTyped, PriceAssumption
    <2>2. t = 0
        BY <1>12, <2>1 DEF t, Recargo
    <2>3. Total(LineasDe(p, t)) = totalOrdinario(LineasDe(p, t))
        BY <1>8, <1>10, <2>2, QuotedOrdinary DEF LineasDe
    <2> QED BY <1>3, <1>11, <2>3 DEF t, Impreso
<1>13. ASSUME cotizado.dia > Ordinaria, ~ CreditosGratis
       PROVE  MathRound(cotizado.valor) = impreso.extraordinario
    <2>1. t = p.config.porcentajeExt
        BY <1>7, <1>13 DEF t, Recargo, RecargoVigente
    <2>2. ~ Gratis(LineasDe(p, s))
        BY <1>5, <1>13 DEF CreditosGratis, Gratis
    <2>3. ~ Gratis(LineasDe(p, t))
        BY <1>10, <2>2, GratisAlike DEF LineasDe
    <2>4. Total(LineasDe(p, t)) = calcularTotalExtraOrdinario(LineasDe(p, t), p)
        BY <1>8, <1>10, <2>1, <2>3, QuotedExtraordinary DEF LineasDe
    <2> QED BY <1>3, <1>11, <2>4 DEF t, Impreso
<1> QED BY <1>12, <1>13

(* The two barcodes of an enrolment are what the bank asks for on either   *)
(* side of the ordinary deadline, as long as no discount or credit changes *)
(* and but for technology credits that are free; where nothing but the     *)
(* extraordinary enrolment makes an enrolment dearer, and its packages     *)
(* have the surcharge in force.                                            *)
THEOREM ImpresoProved ==
    ASSUME CodigosPropios, SoloExtraordinaria, RecargoVigente
    PROVE  Spec => []ImpresoVale
<1>1. PriceInv => ImpresoVale
    BY PriceAssumption, PrintStands
<1> QED BY <1>1, PriceInvAlways, PTL

(* Rates of packages are percentages. *)
PorcentajesDePaquete == \A p \in Paquetes : \A d \in p.detalle : d.descuento <= 100

LEMMA NoGratuity ==
    ASSUME PriceAssumption, PorcentajesDePaquete, PriceInv
    PROVE  SinGratuidadEnPosgrado
<1> SUFFICES ASSUME "lineas" \in vigentes, factura.categoria = MATRICULA,
                    matricula.nivel \in {11, 16},
                    \A d \in Aprobados : d.categoria = GRATUITY_DISCOUNT_CATEGORY_ID,
                    NEW l \in factura.lineas, NEW p \in ByCode(factura.paquete)
             PROVE  \E e \in p.detalle : e.concepto = l.concepto /\ e.descuento = l.descuento
    BY DEF SinGratuidadEnPosgrado
<1>1. PICK x \in Paquetes : /\ PaqueteMatricula = {x} /\ factura.paquete = x.codigo
                            /\ \E r \in Recargos : factura.lineas = LineasDe(x, r)
    BY DEF PriceInv, TracedInv, LineasInv
<1>2. x = p
    BY <1>1 DEF ByCode, PriceAssumption
<1>3. PICK r \in Recargos : factura.lineas = LineasDe(p, r)
    BY <1>1, <1>2
<1>4. DescuentosMatricula(p) = {}
    <2>1. filterDiscountsForEnrollment(findForEnrollment(p.categoria), matricula) = {}
        BY DEF filterDiscountsForEnrollment, isDiscountApplicableToEnrollment, isGratuityDiscount,
               GRATUITY_INELIGIBLE_LEVEL_CODES, findForEnrollment
    <2> QED BY <2>1 DEF DescuentosMatricula, deduplicateDiscountsByCategory, filterDiscountsForPackage
<1>5. Tarifa(p, r).descuentoExtra = 0 /\ Tarifa(p, r).detalle = p.detalle
    BY <1>4, RateNone DEF Tarifa
<1>6. PICK d \in p.detalle : l = Renglon(Tarifa(p, r), d)
    BY <1>3, <1>5, LinesOfDetails DEF LineasDe
<1>7. d.descuento \in 0 .. 100
    BY <1>1, <1>2 DEF PorcentajesDePaquete, PriceAssumption, DetallePaquete
<1>8. normalizeRate(d.descuento) = d.descuento /\ 0 + d.descuento = d.descuento
    BY <1>7, RatesBounded
<1>9. l.concepto = d.concepto /\ l.descuento = d.descuento
    BY <1>5, <1>6, <1>8 DEF Renglon
<1> QED BY <1>9

(* Gratuity alone takes nothing off a postgraduate enrolment. *)
THEOREM GratuidadProved ==
    ASSUME CodigosPropios, PorcentajesDePaquete
    PROVE  Spec => []SinGratuidadEnPosgrado
<1>1. PriceInv => SinGratuidadEnPosgrado
    BY PriceAssumption, NoGratuity
<1> QED BY <1>1, PriceInvAlways, PTL

-----------------------------------------------------------------------------
(* What else a student may count on.                                       *)

(* searchInvoiceForPayment quotes an enrolment what it quoted before, as   *)
(* long as no discount or credit changes and the ordinary deadline does    *)
(* not pass, whatever was generated or printed in between.                 *)
PrecioEstable ==
    [][ConsultEnrolment /\ "cotizado" \in vigentes
          /\ (cotizado.dia > Ordinaria <=> hoy > Ordinaria)
       => cotizado'.valor = cotizado.valor]_vars

THEOREM EstableProved == Spec => PrecioEstable
<1>1. Init => PriceSound /\ CotizaInv
    BY PriceAssumption, InitPrice DEF PriceInv, TracedInv
<1>2. PriceSound /\ CotizaInv /\ [Next]_vars => (PriceSound /\ CotizaInv)'
    BY PriceAssumption, SoundStep, QuoteTraced
<1>3. ASSUME PriceSound, CotizaInv, ConsultEnrolment, "cotizado" \in vigentes,
             cotizado.dia > Ordinaria <=> hoy > Ordinaria
      PROVE  cotizado'.valor = cotizado.valor
    <2>1. PICK p \in PaqueteMatricula :
            cotizado' = [valor |-> generateInvoiceEnrrolment(p).valor, dia |-> hoy]
        BY <1>3 DEF ConsultEnrolment
    <2>2. cotizado.valor = Total(LineasDe(p, Recargo(cotizado.dia)))
        BY <1>3 DEF CotizaInv, ConsultEnrolment
    <2>3. generateInvoiceEnrrolment(p).valor = Total(LineasDe(p, Recargo(hoy)))
        BY <1>3, PriceAssumption, EnrolmentBill DEF PriceSound
    <2>4. Recargo(hoy) = Recargo(cotizado.dia)
        BY <1>3 DEF Recargo
    <2> QED BY <2>1, <2>2, <2>3, <2>4
<1>4. PriceSound /\ CotizaInv /\ [Next]_vars =>
        [ConsultEnrolment /\ "cotizado" \in vigentes
            /\ (cotizado.dia > Ordinaria <=> hoy > Ordinaria)
         => cotizado'.valor = cotizado.valor]_vars
    BY <1>3
<1> QED BY <1>1, <1>2, <1>4, PTL DEF Spec, PrecioEstable

(* getHtmlInvoice never prints an extraordinary barcode that is cheaper    *)
(* than the ordinary one.                                                  *)
BarrasEnOrden == impreso # Nada => impreso.ordinario <= impreso.extraordinario

LEMMA PrintedInOrder ==
    ASSUME PriceAssumption, NEW p \in Paquetes, NEW ls \in SUBSET Linea, IsFiniteSet(ls)
    PROVE  Impreso(ls, p).ordinario <= Impreso(ls, p).extraordinario
<1> DEFINE v == [l \in ls |-> subTotalSinAumento(l)]
           w == [l \in ls |-> Cobrado(p, l)]
<1>1. \A l \in ls : v[l] \in Int /\ w[l] \in Int /\ v[l] <= w[l]
    <2>1. p.config \in Config
        BY DEF PriceAssumption
    <2> QED BY <2>1, LineAmounts
<1>2. /\ totalOrdinario(ls) = SumFunctionOnSet(v, ls)
      /\ calcularTotalExtraOrdinario(ls, p) = SumFunctionOnSet(w, ls)
    BY OrdinarioIsSum, ExtraordinarioIsSum
<1> HIDE DEF v, w
<1>3. /\ totalOrdinario(ls) \in Int /\ calcularTotalExtraOrdinario(ls, p) \in Int
      /\ totalOrdinario(ls) <= calcularTotalExtraOrdinario(ls, p)
    BY <1>1, <1>2, SumLeq, SumInt
<1>4. \A x, y \in Int : x <= y => MathRound(x) <= MathRound(y)
    BY DEF MathRound
<1> QED BY <1>3, <1>4 DEF Impreso

THEOREM BarrasProved == Spec => []BarrasEnOrden
<1>1. Init => BarrasEnOrden
    BY DEF Init, BarrasEnOrden
<1>2. ASSUME PriceSound, BarrasEnOrden, [Next]_vars PROVE BarrasEnOrden'
    <2>1. CASE GetHtmlInvoice
        <3>1. PICK p \in ByCode(factura.paquete) : impreso' = Impreso(factura.lineas, p)
            BY <2>1 DEF GetHtmlInvoice, Printed, Impreso
        <3>2. factura.lineas \in SUBSET Linea /\ IsFiniteSet(factura.lineas)
            BY <1>2, <2>1 DEF GetHtmlInvoice, PriceSound, PriceTyped, TypeOK, Factura
        <3>3. p \in Paquetes
            BY DEF ByCode
        <3>4. impreso'.ordinario <= impreso'.extraordinario
            BY <3>1, <3>2, <3>3, PriceAssumption, PrintedInOrder
        <3> QED BY <3>4 DEF BarrasEnOrden
    <2>2. CASE impreso' = impreso
        BY <1>2, <2>2 DEF BarrasEnOrden
    <2> QED BY <1>2, <2>1, <2>2 DEF Next, vars, Generate, ConsultEnrolment, ConsultOther,
                                    Decide, Enrol, NextDay
<1>3. PriceSound /\ BarrasEnOrden /\ [Next]_vars => BarrasEnOrden'
    BY <1>2
<1> QED BY <1>1, <1>3, PriceSoundAlways, PTL DEF Spec

(* deduplicateDiscountsByCategory leaves exactly one discount of every     *)
(* category there is, one that none is newer than.                         *)
THEOREM UnoPorCategoria ==
    ASSUME NEW ds \in SUBSET Descuento, IsFiniteSet(ds), \A d, e \in ds : d.id = e.id => d = e,
           NEW c \in Nat \ {0}, \E d \in ds : d.categoria = c
    PROVE  \E d \in ds : /\ {e \in deduplicateDiscountsByCategory(ds) : e.categoria = c} = {d}
                         /\ \A e \in ds : e.categoria = c => e.fecha <= d.fecha
<1> DEFINE S    == {d \in ds : d.categoria = c}
           U(d) == {e \in S : shouldReplaceDiscount(d, e)}
           B    == {U(d) : d \in S}
<1>1. \A d \in S : /\ d \in ds /\ d.categoria = c /\ d.fecha \in Nat /\ d.id \in Nat
    BY DEF Descuento
<1>2. IsFiniteSet(S)
    BY FS_Subset
<1>3. B \in SUBSET (SUBSET S) /\ B # {}
    <2>1. PICK d \in ds : d.categoria = c
        OBVIOUS
    <2>2. d \in S
        BY <2>1
    <2> HIDE DEF S
    <2>3. U(d) \in B
        BY <2>2
    <2>4. B \in SUBSET (SUBSET S)
        OBVIOUS
    <2> QED BY <2>3, <2>4
<1>4. \E T \in B : \A X \in B : X \subseteq T => X = T
    <2> HIDE DEF S, B
    <2> QED BY <1>2, <1>3, MinimalSubset
<1>5. PICK d \in S : \A e \in S : U(e) \subseteq U(d) => U(e) = U(d)
    <2> HIDE DEF S
    <2>1. PICK T \in B : \A X \in B : X \subseteq T => X = T
        BY <1>4
    <2>2. PICK d \in S : T = U(d)
        BY <2>1
    <2>3. \A e \in S : U(e) \in B
        OBVIOUS
    <2> HIDE DEF B, U
    <2> QED BY <2>1, <2>2, <2>3
<1> HIDE DEF S
<1>6. \A e \in S : ~ shouldReplaceDiscount(d, e)
    <2> SUFFICES ASSUME NEW e \in S, shouldReplaceDiscount(d, e) PROVE FALSE
        OBVIOUS
    <2>1. U(e) \subseteq U(d)
        BY <1>1 DEF shouldReplaceDiscount
    <2>2. e \in U(d)
        OBVIOUS
    <2>3. e \notin U(e)
        BY <1>1 DEF shouldReplaceDiscount
    <2> QED BY <1>5, <2>1, <2>2, <2>3
<1>7. \A e \in S : e.fecha <= d.fecha
    BY <1>1, <1>6 DEF shouldReplaceDiscount
<1>8. \A e \in S : e # d => shouldReplaceDiscount(e, d)
    <2> SUFFICES ASSUME NEW e \in S, e # d PROVE shouldReplaceDiscount(e, d)
        OBVIOUS
    <2>1. e.id # d.id
        BY <1>1
    <2> QED BY <1>1, <1>6, <2>1 DEF shouldReplaceDiscount
<1>9. {e \in deduplicateDiscountsByCategory(ds) : e.categoria = c} = {d}
    <2>1. \A e : e \in S <=> e \in ds /\ e.categoria = c
        BY DEF S
    <2>2. d \in deduplicateDiscountsByCategory(ds)
        BY <1>6, <2>1 DEF deduplicateDiscountsByCategory
    <2>3. \A e \in deduplicateDiscountsByCategory(ds) : e.categoria = c => e = d
        BY <1>8, <2>1 DEF deduplicateDiscountsByCategory
    <2> QED BY <1>1, <2>2, <2>3
<1> QED BY <1>1, <1>7, <1>9 DEF S

(* The type of the student, beside an academic system that goes on. *)
(* The academic system: the first enrolment, and only that one, is marked  *)
(* as new; who takes a subject twice lost it before.                       *)
Retaken(S) == \A f, g \in S : f.asig = g.asig /\ f # g =>
                 {f.estado, g.estado} \cap {"perdida", "cancelada"} # {}
Lost(S)    == \E f \in S : f.estado = "perdida"

AcademyInv == /\ \A k \in 1 .. Len(matriculas) : matriculas[k].nuevo = "SI" => k = 1
              /\ \A f \in filas : f.mat <= Len(matriculas)
              /\ Retaken(filas)

(* The call has read the subjects and goes on. *)
SubjectsRead == "asignaturas" \notin pendientes /\ (pendientes # {} \/ leido # NadaLeido)

(* What it read of them, beside what they are now. *)
SeenInv == SubjectsRead =>
    /\ Retaken(leido.filas)
    /\ \A f \in leido.filas : /\ f.estado # "cancelada"
                              /\ f.mat <= Len(matriculas)
                              /\ f.estado = "perdida" => f \in filas
    /\ conHistoria => \E f \in leido.filas : f.mat # 1
    /\ atrasado => Lost(leido.filas)

AnswerInv == /\ pendientes # {} => respuesta = SinRespuesta
             /\ atrasado => Lost(filas)
             /\ respuesta.tipo = 1 => ~ conHistoria
             /\ AtrasoNoSeBorra

StudentInv == StudentAssumption /\ StudentTypeOK /\ AcademyInv /\ SeenInv /\ AnswerInv

-----------------------------------------------------------------------------
(* Rows of a finite list that are as many as their subjects differ in them. *)
LEMMA RepetidaTwice ==
    ASSUME NEW l, IsFiniteSet(l.filas), Repetida(l)
    PROVE  \E f, g \in l.filas : f # g /\ f.asig = g.asig
<1> SUFFICES ASSUME \A f, g \in l.filas : f.asig = g.asig => f = g
             PROVE  Cardinality({f.asig : f \in l.filas}) = Cardinality(l.filas)
    BY DEF Repetida, Cardinality
<1> DEFINE T == {f.asig : f \in l.filas}
           b == [f \in l.filas |-> f.asig]
<1>1. b \in Bijection(l.filas, T)
    BY DEF Bijection, Injection, Surjection, IsInjective
<1>2. ExistsBijection(l.filas, T)
    BY <1>1 DEF ExistsBijection
<1> HIDE DEF T
<1>3. Cardinality(T) = Cardinality(l.filas)
    BY <1>2, FS_Bijection
<1> QED BY <1>3 DEF T

(* What an answer means. *)
LEMMA ClasificaEs ==
    ASSUME NEW l
    PROVE  /\ Clasifica(l) \in {SinRespuesta, [tipo |-> 1, fechas |-> "nuevos"],
                                [tipo |-> 2, fechas |-> "antiguos"],
                                [tipo |-> 3, fechas |-> FechasAntiguo(l)]}
           /\ Clasifica(l).tipo = 1 => EsNuevo(l)
           /\ Clasifica(l).tipo = 2 => ~ EsNoNivelado(l)
           /\ Clasifica(l).tipo = 3 => EsNoNivelado(l)
<1>1. CASE Falla(l)
    <2>1. Clasifica(l) = SinRespuesta
        BY <1>1, Zenon DEF Clasifica
    <2> QED BY <2>1 DEF SinRespuesta
<1>2. CASE ~ Falla(l) /\ EsNuevo(l)
    <2>1. Clasifica(l) = [tipo |-> 1, fechas |-> "nuevos"]
        BY <1>2, Zenon DEF Clasifica
    <2> QED BY <1>2, <2>1
<1>3. CASE ~ Falla(l) /\ ~ EsNuevo(l) /\ EsNoNivelado(l)
    <2>1. Clasifica(l) = [tipo |-> 3, fechas |-> FechasAntiguo(l)]
        BY <1>3, Zenon DEF Clasifica
    <2> QED BY <1>3, <2>1
<1>4. CASE ~ Falla(l) /\ ~ EsNuevo(l) /\ ~ EsNoNivelado(l)
    <2>1. Clasifica(l) = [tipo |-> 2, fechas |-> "antiguos"]
        BY <1>4, Zenon DEF Clasifica
    <2> QED BY <1>4, <2>1
<1> QED BY <1>1, <1>2, <1>3, <1>4

-----------------------------------------------------------------------------
LEMMA InitStudent == ASSUME StudentAssumption, StudentInit PROVE StudentInv
<1>0. MaxMatriculas \in Nat
    BY DEF StudentAssumption
<1>1. StudentTypeOK
    <2>1. matriculas \in Seq(Matricula) /\ Len(matriculas) = 0
        BY DEF StudentInit
    <2>2. {pensum, periodo, fechasPropias, atrasado, conHistoria} \subseteq BOOLEAN
        BY DEF StudentInit
    <2>3. leido \in [pensum : BOOLEAN, filas : SUBSET Fila, numero : 0 .. MaxMatriculas,
                     periodo : BOOLEAN, propias : BOOLEAN]
        BY <1>0 DEF StudentInit, NadaLeido
    <2> QED BY <2>1, <2>2, <2>3, <1>0 DEF StudentInit, StudentTypeOK, SinRespuesta
<1>2. AcademyInv
    BY DEF StudentInit, AcademyInv, Retaken
<1>3. ~ SubjectsRead
    BY DEF StudentInit, SubjectsRead
<1>4. AnswerInv
    BY DEF StudentInit, AnswerInv, SinRespuesta, AtrasoNoSeBorra
<1> QED BY <1>1, <1>2, <1>3, <1>4 DEF StudentInv, SeenInv

LEMMA MaxIsNat == StudentInv => MaxMatriculas \in Nat
BY DEF StudentInv, StudentAssumption

(* Whatever the academic system does, results stay and enrolments grow: a  *)
(* call that goes on keeps what it may say.                                *)
LEMMA CallKept ==
    ASSUME StudentInv, Len(matriculas') >= Len(matriculas),
           Len(matriculas) \in Nat, Len(matriculas') \in Nat,
           \A f \in filas : f.estado = "perdida" => f \in filas',
           UNCHANGED <<pendientes, leido, respuesta, atrasado, conHistoria>>
    PROVE  SeenInv' /\ AnswerInv'
<1>1. AnswerInv'
    BY DEF StudentInv, AnswerInv, Lost, AtrasoNoSeBorra
<1>2. ASSUME SubjectsRead' PROVE SeenInv'
    <2>1. SubjectsRead
        BY <1>2 DEF SubjectsRead
    <2>2. \A f \in leido.filas : f.mat \in Nat
        BY DEF StudentInv, StudentTypeOK, Fila
    <2> QED BY <2>1, <2>2 DEF StudentInv, SeenInv, Retaken, Lost
<1> QED BY <1>1, <1>2 DEF SeenInv

LEMMA EnrolStep ==
    ASSUME StudentInv, NewEnrolment,
           UNCHANGED <<pendientes, leido, respuesta, atrasado, conHistoria>>
    PROVE  StudentInv'
<1> DEFINE n == Len(matriculas)
<1>0. PICK ss \in SUBSET {s \in Asignaturas : Abierta(s)} :
           filas' = filas \cup {[mat |-> n + 1, asig |-> s, estado |-> "cursa"] : s \in ss}
    BY DEF NewEnrolment
<1>1. PICK m \in Matricula : /\ matriculas' = Append(matriculas, m)
                             /\ m.nuevo = "SI" => matriculas = <<>>
    <2>1. [nuevo |-> IF matriculas = <<>> THEN "SI" ELSE "NO", viva |-> TRUE] \in Matricula
        BY DEF Matricula
    <2> QED BY <2>1 DEF NewEnrolment
<1>2. /\ n \in Nat /\ n < MaxMatriculas /\ matriculas \in Seq(Matricula)
    BY DEF NewEnrolment, StudentInv, StudentTypeOK
<1>3. /\ matriculas' \in Seq(Matricula) /\ Len(matriculas') = n + 1 /\ matriculas'[n + 1] = m
      /\ \A k \in 1 .. n : matriculas'[k] = matriculas[k]
    BY <1>1, <1>2
<1>4. filas' \subseteq Fila
    <2>1. ASSUME NEW s \in ss PROVE [mat |-> n + 1, asig |-> s, estado |-> "cursa"] \in Fila
        BY <1>0, <1>2, MaxIsNat DEF Fila
    <2> QED BY <1>0, <2>1 DEF StudentInv, StudentTypeOK
<1>5. StudentTypeOK'
    BY <1>2, <1>3, <1>4, MaxIsNat DEF NewEnrolment, StudentInv, StudentTypeOK
<1>6. AcademyInv'
    <2>1. \A k \in 1 .. Len(matriculas') : matriculas'[k].nuevo = "SI" => k = 1
        <3>1. 1 .. Len(matriculas') = (1 .. n) \cup {n + 1}
            BY <1>2, <1>3
        <3>2. m.nuevo = "SI" => n = 0
            BY <1>1
        <3> QED BY <1>2, <1>3, <3>1, <3>2 DEF StudentInv, AcademyInv
    <2>2. \A f \in filas' : f.mat <= Len(matriculas')
        BY <1>0, <1>2, <1>3 DEF StudentInv, AcademyInv, StudentTypeOK, Fila
    <2>3. ASSUME NEW f \in filas', NEW g \in filas', f.asig = g.asig, f # g
          PROVE  {f.estado, g.estado} \cap {"perdida", "cancelada"} # {}
        <3>1. CASE f \in filas /\ g \in filas
            BY <2>3, <3>1 DEF StudentInv, AcademyInv, Retaken
        <3>2. CASE f \in filas /\ g \notin filas
            <4>1. g.asig \in ss
                BY <1>0, <3>2
            <4> QED BY <2>3, <3>2, <4>1 DEF Abierta, Registradas
        <3>3. CASE g \in filas /\ f \notin filas
            <4>1. f.asig \in ss
                BY <1>0, <3>3
            <4> QED BY <2>3, <3>3, <4>1 DEF Abierta, Registradas
        <3>4. CASE g \notin filas /\ f \notin filas
            BY <1>0, <2>3, <3>4
        <3> QED BY <3>1, <3>2, <3>3, <3>4
    <2> QED BY <2>1, <2>2, <2>3 DEF AcademyInv, Retaken
<1>7. SeenInv' /\ AnswerInv'
    BY <1>0, <1>2, <1>3, CallKept
<1> QED BY <1>5, <1>6, <1>7 DEF StudentInv

LEMMA GradeStep ==
    ASSUME StudentInv, Grade,
           UNCHANGED <<pendientes, leido, respuesta, atrasado, conHistoria>>
    PROVE  StudentInv'
<1>1. PICK f \in filas, e \in {"aprobada", "perdida", "cancelada"} :
           f.estado = "cursa" /\ filas' = (filas \ {f}) \cup {[f EXCEPT !.estado = e]}
    BY DEF Grade
<1>2. PICK h \in Fila : /\ h = [f EXCEPT !.estado = e]
                        /\ h.mat = f.mat /\ h.asig = f.asig /\ h.estado = e
    <2>1. f \in Fila
        BY DEF StudentInv, StudentTypeOK
    <2>2. [f EXCEPT !.estado = e] \in Fila
        BY <2>1 DEF Fila
    <2>3. /\ [f EXCEPT !.estado = e].mat = f.mat /\ [f EXCEPT !.estado = e].asig = f.asig
          /\ [f EXCEPT !.estado = e].estado = e
        BY <2>1 DEF Fila
    <2> QED BY <2>2, <2>3
<1>3. StudentTypeOK'
    BY <1>1, <1>2 DEF Grade, StudentInv, StudentTypeOK
<1>4. AcademyInv'
    <2>1. \A g \in filas' : g.mat <= Len(matriculas')
        BY <1>1, <1>2 DEF Grade, StudentInv, AcademyInv
    <2>2. ASSUME NEW g \in filas, g # f, g.asig = f.asig
          PROVE  g.estado \in {"perdida", "cancelada"}
        <3>1. {g.estado, f.estado} \cap {"perdida", "cancelada"} # {}
            BY <2>2 DEF StudentInv, AcademyInv, Retaken
        <3> QED BY <1>1, <3>1
    <2>3. Retaken(filas')
        <3>1. filas' = (filas \ {f}) \cup {h}
            BY <1>1, <1>2
        <3>2. ASSUME NEW a \in filas', NEW b \in filas', a.asig = b.asig, a # b
              PROVE  {a.estado, b.estado} \cap {"perdida", "cancelada"} # {}
            <4>1. CASE a # h /\ b # h
                BY <3>1, <3>2, <4>1 DEF StudentInv, AcademyInv, Retaken
            <4>2. CASE a = h
                <5>1. b.estado \in {"perdida", "cancelada"}
                    BY <1>2, <2>2, <3>1, <3>2, <4>2
                <5> QED BY <5>1
            <4>3. CASE b = h
                <5>1. a.estado \in {"perdida", "cancelada"}
                    BY <1>2, <2>2, <3>1, <3>2, <4>3
                <5> QED BY <5>1
            <4> QED BY <4>1, <4>2, <4>3
        <3> QED BY <3>2 DEF Retaken
    <2> QED BY <2>1, <2>3 DEF Grade, StudentInv, AcademyInv
<1>5. SeenInv' /\ AnswerInv'
    <2>1. \A g \in filas : g.estado = "perdida" => g \in filas'
        BY <1>1
    <2>2. Len(matriculas') \in Nat /\ Len(matriculas) \in Nat /\ Len(matriculas') >= Len(matriculas)
        BY DEF Grade, StudentInv, StudentTypeOK
    <2> QED BY <2>1, <2>2, CallKept
<1> QED BY <1>3, <1>4, <1>5 DEF StudentInv

LEMMA CancelStep ==
    ASSUME StudentInv, Cancel,
           UNCHANGED <<pendientes, leido, respuesta, atrasado, conHistoria>>
    PROVE  StudentInv'
<1>1. PICK m \in DOMAIN matriculas :
           /\ matriculas' = [matriculas EXCEPT ![m].viva = FALSE]
           /\ filas' = {IF f.mat = m /\ f.estado = "cursa"
                          THEN [f EXCEPT !.estado = "cancelada"] ELSE f : f \in filas}
    BY DEF Cancel
<1>2. /\ matriculas' \in Seq(Matricula) /\ Len(matriculas') = Len(matriculas)
      /\ Len(matriculas) \in Nat
      /\ \A k \in 1 .. Len(matriculas) : matriculas'[k].nuevo = matriculas[k].nuevo
    <2>1. matriculas \in Seq(Matricula) /\ m \in 1 .. Len(matriculas)
        BY DEF StudentInv, StudentTypeOK
    <2>2. matriculas[m] \in Matricula
        BY <2>1
    <2>3. [matriculas[m] EXCEPT !.viva = FALSE] \in Matricula
          /\ [matriculas[m] EXCEPT !.viva = FALSE].nuevo = matriculas[m].nuevo
        BY <2>2 DEF Matricula
    <2> QED BY <1>1, <2>1, <2>3
<1>3. \A g \in filas' : \E f \in filas : /\ g \in Fila /\ g.mat = f.mat /\ g.asig = f.asig
                                         /\ g = f \/ g.estado = "cancelada"
    <2>1. ASSUME NEW g \in filas'
          PROVE  \E f \in filas : /\ g \in Fila /\ g.mat = f.mat /\ g.asig = f.asig
                                  /\ g = f \/ g.estado = "cancelada"
        <3>1. PICK f \in filas : g = IF f.mat = m /\ f.estado = "cursa"
                                        THEN [f EXCEPT !.estado = "cancelada"] ELSE f
            BY <1>1
        <3>2. f \in Fila
            BY DEF StudentInv, StudentTypeOK
        <3>3. g \in Fila /\ g.mat = f.mat /\ g.asig = f.asig /\ (g = f \/ g.estado = "cancelada")
            BY <3>1, <3>2 DEF Fila
        <3> QED BY <3>3
    <2> QED BY <2>1
<1>4. StudentTypeOK'
    BY <1>2, <1>3 DEF Cancel, StudentInv, StudentTypeOK
<1>5. AcademyInv'
    <2>1. \A g \in filas' : g.mat <= Len(matriculas')
        BY <1>2, <1>3 DEF StudentInv, AcademyInv
    <2>2. Retaken(filas')
        BY <1>3 DEF StudentInv, AcademyInv, Retaken
    <2> QED BY <1>2, <2>1, <2>2 DEF StudentInv, AcademyInv
<1>6. SeenInv' /\ AnswerInv'
    <2>1. \A g \in filas : g.estado = "perdida" => g \in filas'
        BY <1>1
    <2> QED BY <1>2, <2>1, CallKept
<1> QED BY <1>4, <1>5, <1>6 DEF StudentInv

LEMMA ConfigureStep ==
    ASSUME StudentInv, Configure,
           UNCHANGED <<pendientes, leido, respuesta, atrasado, conHistoria>>
    PROVE  StudentInv'
<1>1. StudentTypeOK' /\ AcademyInv'
    BY DEF Configure, StudentInv, StudentTypeOK, AcademyInv
<1>2. Len(matriculas') \in Nat /\ Len(matriculas) \in Nat /\ Len(matriculas') >= Len(matriculas)
    BY DEF Configure, StudentInv, StudentTypeOK
<1>3. SeenInv' /\ AnswerInv'
    BY <1>2, CallKept DEF Configure
<1> QED BY <1>1, <1>3 DEF StudentInv

-----------------------------------------------------------------------------
(* A call asks for everything again. *)
LEMMA AskStep == ASSUME StudentInv, Ask PROVE StudentInv'
<1>1. StudentTypeOK'
    <2>1. NadaLeido \in [pensum : BOOLEAN, filas : SUBSET Fila, numero : 0 .. MaxMatriculas,
                         periodo : BOOLEAN, propias : BOOLEAN]
        BY MaxIsNat DEF NadaLeido
    <2> QED BY <2>1 DEF Ask, StudentInv, StudentTypeOK, academia
<1>2. AcademyInv'
    BY DEF Ask, StudentInv, AcademyInv, academia
<1>3. ~ SubjectsRead'
    BY DEF Ask, SubjectsRead, Lecturas
<1>4. AnswerInv'
    BY DEF Ask, StudentInv, AnswerInv, academia, SinRespuesta, AtrasoNoSeBorra
<1> QED BY <1>1, <1>2, <1>3, <1>4 DEF StudentInv, SeenInv

LEMMA FailsStep == ASSUME StudentInv, ReadFails PROVE StudentInv'
<1>1. StudentTypeOK'
    <2>1. NadaLeido \in [pensum : BOOLEAN, filas : SUBSET Fila, numero : 0 .. MaxMatriculas,
                         periodo : BOOLEAN, propias : BOOLEAN]
        BY MaxIsNat DEF NadaLeido
    <2> QED BY <2>1 DEF ReadFails, StudentInv, StudentTypeOK, academia
<1>2. AcademyInv'
    BY DEF ReadFails, StudentInv, AcademyInv, academia
<1>3. ~ SubjectsRead'
    BY DEF ReadFails, SubjectsRead
<1>4. AnswerInv'
    BY DEF ReadFails, StudentInv, AnswerInv, academia, AtrasoNoSeBorra
<1> QED BY <1>1, <1>2, <1>3, <1>4 DEF StudentInv, SeenInv

(* The other reads: the subjects stay as they were read. *)
LEMMA OtherRead ==
    ASSUME StudentInv, NEW q \in Lecturas \ {"asignaturas"}, Read(q),
           leido'.filas = leido.filas, UNCHANGED conHistoria,
           leido' \in [pensum : BOOLEAN, filas : SUBSET Fila, numero : 0 .. MaxMatriculas,
                       periodo : BOOLEAN, propias : BOOLEAN]
    PROVE  StudentInv'
<1>1. StudentTypeOK'
    BY DEF Read, StudentInv, StudentTypeOK, academia
<1>2. AcademyInv'
    BY DEF Read, StudentInv, AcademyInv, academia
<1>3. SeenInv'
    <2>1. SubjectsRead' => SubjectsRead
        BY DEF Read, SubjectsRead
    <2> QED BY <2>1 DEF Read, StudentInv, SeenInv, academia
<1>4. AnswerInv'
    <2>1. respuesta = SinRespuesta
        BY DEF Read, StudentInv, AnswerInv
    <2> QED BY <2>1 DEF Read, StudentInv, AnswerInv, academia, AtrasoNoSeBorra
<1> QED BY <1>1, <1>2, <1>3, <1>4 DEF StudentInv

LEMMA ReadPensumStep == ASSUME StudentInv, ReadPensum PROVE StudentInv'
<1>1. /\ leido' \in [pensum : BOOLEAN, filas : SUBSET Fila, numero : 0 .. MaxMatriculas,
                     periodo : BOOLEAN, propias : BOOLEAN]
      /\ leido'.filas = leido.filas
    BY DEF ReadPensum, StudentInv, StudentTypeOK
<1> QED BY <1>1, OtherRead DEF ReadPensum, Lecturas

LEMMA ReadPeriodoStep == ASSUME StudentInv, ReadPeriodo PROVE StudentInv'
<1>1. /\ leido' \in [pensum : BOOLEAN, filas : SUBSET Fila, numero : 0 .. MaxMatriculas,
                     periodo : BOOLEAN, propias : BOOLEAN]
      /\ leido'.filas = leido.filas
    BY DEF ReadPeriodo, StudentInv, StudentTypeOK
<1> QED BY <1>1, OtherRead DEF ReadPeriodo, Lecturas

LEMMA ReadNumeroStep == ASSUME StudentInv, ReadNumero PROVE StudentInv'
<1> DEFINE L == {m \in DOMAIN matriculas : matriculas[m].viva}
<1>1. Len(matriculas) \in 0 .. MaxMatriculas /\ L \subseteq 1 .. Len(matriculas)
    BY DEF StudentInv, StudentTypeOK
<1>2. /\ IsFiniteSet(1 .. Len(matriculas))
      /\ Cardinality(1 .. Len(matriculas)) = Len(matriculas)
    <2>1. Len(matriculas) \in Nat
        BY <1>1, MaxIsNat
    <2> QED BY <2>1, FS_Interval
<1>3. leido' = [leido EXCEPT !.numero = Cardinality(L)]
    BY DEF ReadNumero, Cardinality
<1> HIDE DEF L
<1>4. Cardinality(L) \in 0 .. MaxMatriculas
    <2>1. IsFiniteSet(L) /\ Cardinality(L) <= Len(matriculas)
        BY <1>1, <1>2, FS_Subset
    <2>2. Cardinality(L) \in Nat
        BY <2>1, FS_CardinalityType
    <2> QED BY <1>1, <2>1, <2>2, MaxIsNat
<1>5. /\ leido' \in [pensum : BOOLEAN, filas : SUBSET Fila, numero : 0 .. MaxMatriculas,
                     periodo : BOOLEAN, propias : BOOLEAN]
      /\ leido'.filas = leido.filas
    BY <1>3, <1>4 DEF StudentInv, StudentTypeOK
<1> QED BY <1>5, OtherRead DEF ReadNumero, Lecturas

(* What is read of the subjects holds of them as they are. *)
LEMMA ReadAsignaturasStep == ASSUME StudentInv, ReadAsignaturas PROVE StudentInv'
<1>1. /\ leido' \in [pensum : BOOLEAN, filas : SUBSET Fila, numero : 0 .. MaxMatriculas,
                     periodo : BOOLEAN, propias : BOOLEAN]
      /\ leido'.filas = Registradas
    BY DEF ReadAsignaturas, StudentInv, StudentTypeOK, Registradas
<1>2. conHistoria' = \E f \in filas : f.mat # 1 /\ f.estado \in {"aprobada", "perdida"}
    BY DEF ReadAsignaturas
<1>3. StudentTypeOK'
    <2>1. conHistoria' \in BOOLEAN
        BY <1>2
    <2> QED BY <1>1, <2>1 DEF ReadAsignaturas, Read, StudentInv, StudentTypeOK, academia
<1>4. AcademyInv'
    BY DEF ReadAsignaturas, Read, StudentInv, AcademyInv, academia
<1>5. SeenInv'
    <2>1. Retaken(leido'.filas)
        BY <1>1 DEF StudentInv, AcademyInv, Retaken, Registradas
    <2>2. \A f \in leido'.filas : /\ f.estado # "cancelada" /\ f.mat <= Len(matriculas)
                                  /\ f \in filas
        BY <1>1 DEF StudentInv, AcademyInv, Registradas
    <2>3. conHistoria' => \E f \in leido'.filas : f.mat # 1
        BY <1>1, <1>2 DEF Registradas
    <2>4. atrasado => Lost(leido'.filas)
        BY <1>1 DEF StudentInv, AnswerInv, Lost, Registradas
    <2> QED BY <2>1, <2>2, <2>3, <2>4 DEF ReadAsignaturas, Read, SeenInv, academia
<1>6. AnswerInv'
    <2>1. respuesta = SinRespuesta
        BY DEF ReadAsignaturas, Read, StudentInv, AnswerInv
    <2> QED BY <2>1 DEF ReadAsignaturas, Read, StudentInv, AnswerInv, academia, AtrasoNoSeBorra,
                        SinRespuesta
<1> QED BY <1>3, <1>4, <1>5, <1>6 DEF StudentInv

(* The answer goes by what was read.  A subject twice in a finite list was *)
(* lost the first time.                                                    *)
LEMMA AnswerStep ==
    ASSUME StudentInv, IsFiniteSet(leido.filas), Answer
    PROVE  StudentInv'
<1> DEFINE l == leido
<1>0. respuesta' = Clasifica(l) /\ atrasado' = (atrasado \/ respuesta'.tipo = 3)
    BY DEF Answer
<1>1. SubjectsRead
    BY DEF Answer, SubjectsRead
<1>2. StudentTypeOK'
    <2>1. NadaLeido \in [pensum : BOOLEAN, filas : SUBSET Fila, numero : 0 .. MaxMatriculas,
                         periodo : BOOLEAN, propias : BOOLEAN]
        BY MaxIsNat DEF NadaLeido
    <2>2. respuesta' \in {SinRespuesta, [tipo |-> 1, fechas |-> "nuevos"],
                          [tipo |-> 2, fechas |-> "antiguos"],
                          [tipo |-> 3, fechas |-> "antiguos"],
                          [tipo |-> 3, fechas |-> "programa"]}
        BY <1>0, ClasificaEs DEF FechasAntiguo
    <2>3. atrasado' \in BOOLEAN
        BY <1>0 DEF StudentInv, StudentTypeOK
    <2> QED BY <2>1, <2>2, <2>3 DEF Answer, StudentInv, StudentTypeOK, academia
<1>3. AcademyInv'
    BY DEF Answer, StudentInv, AcademyInv, academia
<1>4. ~ SubjectsRead'
    BY DEF Answer, SubjectsRead
<1>5. respuesta'.tipo = 1 => ~ conHistoria
    <2> SUFFICES ASSUME EsNuevo(l), conHistoria PROVE FALSE
        BY <1>0, ClasificaEs
    <2>1. PICK f \in l.filas : f.mat # 1
        BY <1>1 DEF StudentInv, SeenInv
    <2>2. f.mat \in 1 .. Len(matriculas)
        <3>1. f \in Fila
            BY DEF StudentInv, StudentTypeOK
        <3> QED BY <1>1, <3>1 DEF StudentInv, SeenInv, StudentTypeOK, Fila
    <2>3. matriculas[f.mat].nuevo # "SI"
        BY <2>1, <2>2 DEF StudentInv, AcademyInv
    <2> QED BY <2>1, <2>3 DEF EsNuevo
<1>6. Lost(l.filas) => EsNoNivelado(l)
    BY DEF Lost, EsNoNivelado
<1>7. EsNoNivelado(l) => Lost(l.filas)
    <2> SUFFICES ASSUME Repetida(l) PROVE Lost(l.filas)
        BY DEF EsNoNivelado, CursoIncompleto, Lost
    <2>1. PICK f, g \in l.filas : f # g /\ f.asig = g.asig
        BY RepetidaTwice
    <2>2. {f.estado, g.estado} \cap {"perdida", "cancelada"} # {}
        BY <1>1, <2>1 DEF StudentInv, SeenInv, Retaken
    <2>3. f.estado # "cancelada" /\ g.estado # "cancelada"
        BY <1>1, <2>1 DEF StudentInv, SeenInv
    <2> QED BY <2>2, <2>3 DEF Lost
<1>8. atrasado' => Lost(filas')
    <2>1. Lost(l.filas) => Lost(filas)
        BY <1>1 DEF StudentInv, SeenInv, Lost
    <2>2. respuesta'.tipo = 3 => Lost(filas)
        BY <1>0, <1>7, <2>1, ClasificaEs
    <2> QED BY <1>0, <2>2 DEF Answer, academia, StudentInv, AnswerInv, Lost
<1>9. atrasado' => respuesta'.tipo # 2
    <2>1. respuesta'.tipo = 2 => ~ Lost(l.filas)
        BY <1>0, <1>6, ClasificaEs
    <2>2. atrasado => Lost(l.filas)
        BY <1>1 DEF StudentInv, SeenInv
    <2>3. 3 # 2
        OBVIOUS
    <2> QED BY <1>0, <2>1, <2>2, <2>3, Zenon
<1>10. AnswerInv'
    BY <1>5, <1>8, <1>9 DEF Answer, AnswerInv, AtrasoNoSeBorra
<1> QED BY <1>2, <1>3, <1>4, <1>10 DEF StudentInv, SeenInv

(* The lists of subjects stay finite when there are finitely many. *)
LEMMA FiniteRows ==
    ASSUME MaxMatriculas \in Nat, IsFiniteSet(Asignaturas), NEW F \in SUBSET Fila
    PROVE  IsFiniteSet(F)
<1> DEFINE E == {"cursa", "aprobada", "perdida", "cancelada"}
           P == ((1 .. MaxMatriculas) \X Asignaturas) \X E
           r == [x \in P |-> [mat |-> x[1][1], asig |-> x[1][2], estado |-> x[2]]]
<1>1. IsFiniteSet(P)
    <2>1. IsFiniteSet(1 .. MaxMatriculas)
        BY FS_Interval
    <2>2. IsFiniteSet(E)
        <3>1. IsFiniteSet({}) /\ E = ((({} \cup {"cursa"}) \cup {"aprobada"}) \cup {"perdida"})
                                     \cup {"cancelada"}
            BY FS_EmptySet
        <3>2. IsFiniteSet({} \cup {"cursa"})
            BY <3>1, FS_AddElement
        <3>3. IsFiniteSet(({} \cup {"cursa"}) \cup {"aprobada"})
            BY <3>2, FS_AddElement
        <3>4. IsFiniteSet((({} \cup {"cursa"}) \cup {"aprobada"}) \cup {"perdida"})
            BY <3>3, FS_AddElement
        <3> QED BY <3>1, <3>4, FS_AddElement
    <2> HIDE DEF E
    <2>3. IsFiniteSet((1 .. MaxMatriculas) \X Asignaturas)
        BY <2>1, FS_Product
    <2> QED BY <2>2, <2>3, FS_Product
<1>2. r \in Surjection(P, Fila)
    <2>1. \A x \in P : r[x] \in Fila
        BY DEF Fila
    <2>2. ASSUME NEW f \in Fila PROVE \E x \in P : r[x] = f
        <3>1. <<<<f.mat, f.asig>>, f.estado>> \in P
            BY DEF Fila
        <3>2. r[<<<<f.mat, f.asig>>, f.estado>>] = f
            BY <3>1 DEF Fila
        <3> QED BY <3>1, <3>2
    <2> HIDE DEF P
    <2>3. r \in [P -> Fila]
        BY <2>1
    <2> QED BY <2>2, <2>3 DEF Surjection
<1> HIDE DEF r, P
<1>3. IsFiniteSet(Fila)
    BY <1>1, <1>2, FS_Surjection
<1> QED BY <1>3, FS_Subset

LEMMA StudentStep ==
    ASSUME IsFiniteSet(Asignaturas), StudentInv, [StudentNext]_studentVars
    PROVE  StudentInv'
<1>1. CASE Academy
    BY <1>1, EnrolStep, GradeStep, CancelStep, ConfigureStep DEF Academy
<1>2. CASE Reading
    BY <1>2, ReadPensumStep, ReadAsignaturasStep, ReadNumeroStep, ReadPeriodoStep, FailsStep
       DEF Reading
<1>3. CASE Answer
    <2>1. IsFiniteSet(leido.filas)
        <3>1. leido.filas \in SUBSET Fila
            BY DEF StudentInv, StudentTypeOK
        <3> QED BY <3>1, MaxIsNat, FiniteRows
    <2> QED BY <1>3, <2>1, AnswerStep
<1>4. CASE UNCHANGED studentVars
    BY <1>4 DEF studentVars, academia, StudentInv, StudentTypeOK, AcademyInv, Retaken, SeenInv, SubjectsRead,
                Lost, AnswerInv, AtrasoNoSeBorra
<1> QED BY <1>1, <1>2, <1>3, <1>4, AskStep DEF StudentNext

LEMMA StudentKept ==
    ASSUME IsFiniteSet(Asignaturas)
    PROVE  StudentSpec => []StudentInv
BY StudentAssumption, InitStudent, StudentStep, PTL DEF StudentSpec

(* Whatever the academic system does between the reads, nobody enrols with *)
(* the dates of the new who had a result in a later enrolment when his     *)
(* subjects were read (StudentType!NuevoSinHistoria).                      *)
THEOREM NuevoProved ==
    ASSUME IsFiniteSet(Asignaturas)
    PROVE  StudentSpec => []NuevoSinHistoria
<1>1. StudentInv => NuevoSinHistoria
    BY DEF StudentInv, AnswerInv, NuevoSinHistoria
<1> QED BY <1>1, StudentKept, PTL

(* Whatever he drops or cancels afterwards, who was told that he is behind *)
(* is not told later that he is up to date (StudentType!AtrasoNoSeBorra).  *)
THEOREM AtrasoProved ==
    ASSUME IsFiniteSet(Asignaturas)
    PROVE  StudentSpec => []AtrasoNoSeBorra
<1>1. StudentInv => AtrasoNoSeBorra
    BY DEF StudentInv, AnswerInv
<1> QED BY <1>1, StudentKept, PTL
=============================================================================
