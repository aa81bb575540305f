----------------------------- MODULE PoolProofs -----------------------------
(* Theorems about ConnectionPool, for every value of its constants. *)
EXTENDS ConnectionPool, FiniteSetTheorems, TLAPS

(* An agent that has a connection, or waits for one. *)
Busy(a) == Uses(a) \/ Waits(a)

(* Where each connection is: in the hands of agents that do not wait, one  *)
(* for each, or free while nobody waits, or lost by a failed query.        *)
OneEach == \A a \in Agentes : \A c, d \in mano[a] : c = d
Apart   == /\ \A a, b \in Agentes : a # b => mano[a] \cap mano[b] = {}
           /\ \A a \in Agentes : mano[a] \cap (libres \cup perdidas) = {}
           /\ libres \cap perdidas = {}
Queued  == /\ \A i \in 1 .. Len(cola) : mano[cola[i]] = {}
           /\ \A i, j \in 1 .. Len(cola) : cola[i] = cola[j] => i = j
           /\ cola # <<>> => libres = {}
NoOther == \A c \in limite : \/ c \in libres \cup perdidas
                             \/ \E a \in Agentes : c \in mano[a]
Lent    == OneEach /\ Apart /\ Queued /\ NoOther

(* What the agents of a request say of it: nobody works for one that is    *)
(* over but its second agent, which was asked for and has not answered.    *)
Served(p) == /\ tramo[p] = 0 => ~ Busy(Uno(p))
             /\ segunda[p] = "pedida" <=> Busy(Dos(p))
             /\ segunda[p] = "pedida" => tramo[p] = 0 \/ Tramo(p) \in Dobles

PoolInv == TypeOK /\ Lent /\ \A p \in Pedidos : Served(p)

-----------------------------------------------------------------------------
(* Every handler has a stretch. *)
LEMMA Stretches ==
    ASSUME NEW r \in DOMAIN Rutas
    PROVE  Len(Rutas[r]) \in Nat /\ Len(Rutas[r]) >= 1
BY DEF Rutas

LEMMA Agents ==
    ASSUME NEW p \in Pedidos
    PROVE  /\ Uno(p) \in Agentes /\ Dos(p) \in Agentes
           /\ \A q \in Pedidos : Uno(p) # Dos(q) /\ (Uno(p) = Uno(q) => p = q)
                                 /\ (Dos(p) = Dos(q) => p = q)
BY DEF Uno, Dos, Agentes

(* An agent that asks gets a free connection or the last place. *)
LEMMA TakeLent ==
    ASSUME TypeOK, Lent, NEW a \in Agentes, ~ Busy(a), Take(a),
           UNCHANGED <<limite, perdidas>>
    PROVE  /\ Lent'
           /\ mano' \in [Agentes -> SUBSET limite] /\ libres' \subseteq limite
           /\ cola' \in Seq(Agentes)
           /\ Busy(a)' /\ \A b \in Agentes : b # a => (Busy(b)' <=> Busy(b))
<1>1. CASE libres = {} /\ cola' = Append(cola, a) /\ UNCHANGED <<mano, libres>>
    <2>1. /\ cola' \in Seq(Agentes) /\ Len(cola') = Len(cola) + 1
          /\ \A i \in 1 .. Len(cola) : cola'[i] = cola[i]
          /\ cola'[Len(cola) + 1] = a /\ Len(cola) \in Nat
        BY <1>1 DEF TypeOK
    <2>2. mano[a] = {} /\ \A i \in 1 .. Len(cola) : cola[i] # a
        BY DEF Busy, Uses, Waits
    <2>3. Queued'
        <3>1. 1 .. Len(cola') = (1 .. Len(cola)) \cup {Len(cola) + 1}
            BY <2>1
        <3>2. \A i \in 1 .. Len(cola') : mano'[cola'[i]] = {}
            BY <1>1, <2>1, <2>2, <3>1 DEF Lent, Queued
        <3>3. \A i, j \in 1 .. Len(cola') : cola'[i] = cola'[j] => i = j
            BY <2>1, <2>2, <3>1 DEF Lent, Queued
        <3> QED BY <1>1, <3>2, <3>3 DEF Queued
    <2>4. Lent'
        BY <1>1, <2>3 DEF Lent, OneEach, Apart, NoOther
    <2>5. Waits(a)' /\ \A b \in Agentes : b # a => (Waits(b)' <=> Waits(b))
        BY <2>1 DEF Waits
    <2> QED BY <1>1, <2>1, <2>4, <2>5 DEF Busy, Uses, TypeOK
<1>2. CASE \E c \in libres : /\ mano' = [mano EXCEPT ![a] = {c}]
                             /\ libres' = libres \ {c}
                             /\ UNCHANGED cola
    <2>1. PICK c \in libres : /\ mano' = [mano EXCEPT ![a] = {c}]
                              /\ libres' = libres \ {c}
                              /\ UNCHANGED cola
        BY <1>2
    <2>2. /\ mano' \in [Agentes -> SUBSET limite] /\ mano'[a] = {c}
          /\ \A b \in Agentes : b # a => mano'[b] = mano[b]
        BY <2>1 DEF TypeOK
    <2>3. cola = <<>>
        BY DEF Lent, Queued
    <2>4. Queued'
        BY <2>1, <2>3 DEF Queued
    <2>5. OneEach' /\ Apart'
        BY <2>1, <2>2 DEF Lent, OneEach, Apart
    <2>6. NoOther'
        BY <2>1, <2>2 DEF Lent, NoOther, Busy, Uses
    <2> QED BY <2>1, <2>2, <2>4, <2>5, <2>6 DEF Lent, Busy, Uses, Waits, TypeOK
<1> QED BY <1>1, <1>2 DEF Take

(* What an agent gives back is free, or in the hand of the first who       *)
(* waited: nobody else's turn changes.                                     *)
LEMMA GiveLent ==
    ASSUME TypeOK, Lent, NEW a \in Agentes, Uses(a), Give(a),
           UNCHANGED <<limite, perdidas>>
    PROVE  /\ Lent'
           /\ mano' \in [Agentes -> SUBSET limite] /\ libres' \subseteq limite
           /\ cola' \in Seq(Agentes)
           /\ ~ Busy(a)' /\ \A b \in Agentes : b # a => (Busy(b)' <=> Busy(b))
<1>0. ~ Waits(a)
    BY DEF Lent, Queued, Uses, Waits
<1>1. CASE /\ cola = <<>>
           /\ libres' = libres \cup mano[a]
           /\ mano' = [mano EXCEPT ![a] = {}]
           /\ UNCHANGED cola
    <2>1. /\ mano' \in [Agentes -> SUBSET limite] /\ mano'[a] = {}
          /\ \A b \in Agentes : b # a => mano'[b] = mano[b]
          /\ libres' \subseteq limite
        BY <1>1 DEF TypeOK
    <2>2. Queued'
        BY <1>1 DEF Queued
    <2>3. OneEach' /\ Apart'
        BY <1>1, <2>1 DEF Lent, OneEach, Apart
    <2>4. NoOther'
        BY <1>1, <2>1 DEF Lent, NoOther
    <2> QED BY <1>0, <1>1, <2>1, <2>2, <2>3, <2>4 DEF Lent, Busy, Uses, Waits, TypeOK
<1>2. CASE /\ cola # <<>>
           /\ mano' = [mano EXCEPT ![a] = {}, ![Head(cola)] = mano[a]]
           /\ cola' = Tail(cola)
           /\ UNCHANGED libres
    <2>0. PICK h \in Agentes : h = Head(cola)
        BY <1>2 DEF TypeOK
    <2>1. /\ Len(cola) \in Nat /\ Len(cola) >= 1 /\ h = cola[1] /\ h \in Agentes
          /\ Len(cola') = Len(cola) - 1 /\ cola' \in Seq(Agentes)
          /\ \A i \in 1 .. Len(cola') : cola'[i] = cola[i + 1]
        BY <1>2, <2>0 DEF TypeOK
    <2>2. h # a /\ mano[h] = {}
        BY <1>0, <2>1 DEF Waits, Lent, Queued
    <2>3. /\ mano' \in [Agentes -> SUBSET limite] /\ mano'[a] = {} /\ mano'[h] = mano[a]
          /\ \A b \in Agentes : b # a /\ b # h => mano'[b] = mano[b]
        BY <1>2, <2>0, <2>1, <2>2 DEF TypeOK
    <2>4. \A i \in 1 .. Len(cola') : cola'[i] # h /\ cola'[i] # a /\ cola'[i] \in Agentes
        <3>1. \A i \in 1 .. Len(cola') : i + 1 \in 1 .. Len(cola) /\ i + 1 # 1
            BY <2>1
        <3> QED BY <1>0, <2>1, <3>1 DEF Lent, Queued, Waits
    <2>5. Queued'
        <3>1. \A i, j \in 1 .. Len(cola') : cola'[i] = cola'[j] => i = j
            <4>1. \A i \in 1 .. Len(cola') : i + 1 \in 1 .. Len(cola)
                BY <2>1
            <4>2. \A i, j \in 1 .. Len(cola') : i + 1 = j + 1 => i = j
                BY <2>1
            <4> QED BY <2>1, <4>1, <4>2 DEF Lent, Queued
        <3>2. \A i \in 1 .. Len(cola') : mano'[cola'[i]] = {}
            <4>1. \A i \in 1 .. Len(cola') : i + 1 \in 1 .. Len(cola)
                BY <2>1
            <4> QED BY <2>1, <2>3, <2>4, <4>1 DEF Lent, Queued
        <3>3. libres' = {}
            BY <1>2 DEF Lent, Queued
        <3> QED BY <3>1, <3>2, <3>3 DEF Queued
    <2>6. OneEach' /\ Apart'
        BY <1>2, <2>1, <2>2, <2>3 DEF Lent, OneEach, Apart
    <2>7. NoOther'
        BY <1>2, <2>1, <2>2, <2>3 DEF Lent, NoOther
    <2>8. ~ Busy(a)'
        BY <2>3, <2>4 DEF Busy, Uses, Waits
    <2>9. \A b \in Agentes : b # a => (Busy(b)' <=> Busy(b))
        <3>1. Busy(h)' /\ Busy(h)
            BY <2>1, <2>3 DEF Busy, Uses, Waits
        <3>2. ASSUME NEW b \in Agentes, b # a, b # h PROVE Waits(b)' <=> Waits(b)
            <4>1. ASSUME NEW k \in 1 .. Len(cola), cola[k] = b
                  PROVE  \E i \in 1 .. Len(cola') : cola'[i] = b
                <5>1. k # 1 /\ k - 1 \in 1 .. Len(cola') /\ (k - 1) + 1 = k
                    BY <2>1, <3>2, <4>1
                <5>2. cola'[k - 1] = b
                    BY <2>1, <4>1, <5>1
                <5> QED BY <5>1, <5>2
            <4>2. ASSUME NEW i \in 1 .. Len(cola'), cola'[i] = b
                  PROVE  \E k \in 1 .. Len(cola) : cola[k] = b
                <5>1. i + 1 \in 1 .. Len(cola)
                    BY <2>1
                <5> QED BY <2>1, <4>2, <5>1
            <4> QED BY <4>1, <4>2 DEF Waits
        <3> QED BY <2>3, <3>1, <3>2 DEF Busy, Uses
    <2> QED BY <1>2, <2>1, <2>3, <2>5, <2>6, <2>7, <2>8, <2>9 DEF Lent, TypeOK
<1> QED BY <1>1, <1>2 DEF Give

(* A runner that is not released takes its connection with it. *)
LEMMA LoseLent ==
    ASSUME TypeOK, Lent, NEW a \in Agentes, Uses(a),
           perdidas' = perdidas \cup mano[a], mano' = [mano EXCEPT ![a] = {}],
           UNCHANGED <<limite, libres, cola>>
    PROVE  /\ Lent'
           /\ mano' \in [Agentes -> SUBSET limite] /\ perdidas' \subseteq limite
           /\ ~ Busy(a)' /\ \A b \in Agentes : b # a => (Busy(b)' <=> Busy(b))
<1>1. /\ mano' \in [Agentes -> SUBSET limite] /\ mano'[a] = {}
      /\ \A b \in Agentes : b # a => mano'[b] = mano[b]
      /\ perdidas' \subseteq limite
    BY DEF TypeOK
<1>2. ~ Waits(a)
    BY DEF Lent, Queued, Uses, Waits
<1>3. \A i \in 1 .. Len(cola) : cola[i] \in Agentes
    BY DEF TypeOK
<1>4. Queued'
    BY <1>1, <1>3 DEF Lent, Queued
<1>5. OneEach' /\ Apart'
    BY <1>1 DEF Lent, OneEach, Apart
<1>6. NoOther'
    BY <1>1 DEF Lent, NoOther
<1> QED BY <1>1, <1>2, <1>4, <1>5, <1>6 DEF Lent, Busy, Uses, Waits

-----------------------------------------------------------------------------
(* What one request's two agents did leaves every other request as it was. *)
LEMMA OthersServed ==
    ASSUME PoolInv, NEW p \in Pedidos,
           \A q \in Pedidos : q # p =>
               /\ tramo'[q] = tramo[q] /\ segunda'[q] = segunda[q] /\ ruta'[q] = ruta[q]
               /\ (Busy(Uno(q))' <=> Busy(Uno(q))) /\ (Busy(Dos(q))' <=> Busy(Dos(q))),
           Served(p)'
    PROVE  \A q \in Pedidos : Served(q)'
<1>1. ASSUME NEW q \in Pedidos, q # p PROVE Served(q)'
    <2>1. Served(q)
        BY DEF PoolInv
    <2>2. Tramo(q)' = Tramo(q)
        BY <1>1 DEF Tramo
    <2>3. \A x, y : Uno(x)' = Uno(x) /\ Dos(x)' = Dos(x)
        BY DEF Uno, Dos
    <2> QED BY <1>1, <2>1, <2>2 DEF Served
<1> QED BY <1>1

LEMMA InitPool == Init => PoolInv
<1> SUFFICES ASSUME Init PROVE PoolInv
    OBVIOUS
<1>1. "pagar" \in DOMAIN Rutas
    BY DEF Rutas
<1>2. TypeOK
    <2>1. Len(Rutas["pagar"]) >= 0
        BY <1>1, Stretches
    <2> QED BY <1>1, <2>1, PoolAssumption DEF Init, TypeOK
<1>3. Lent
    BY DEF Init, Lent, OneEach, Apart, Queued, NoOther
<1>4. \A a \in Agentes : ~ Busy(a)
    BY DEF Init, Busy, Uses, Waits
<1>5. \A p \in Pedidos : Served(p)
    BY <1>4, Agents DEF Init, Served
<1> QED BY <1>2, <1>3, <1>5 DEF PoolInv

(* A request comes once its own second agent, too, is through. *)
LEMMA ArrivePool ==
    ASSUME PoolInv, NEW p \in Pedidos, Arrive(p)
    PROVE  PoolInv'
<1>0. PICK r \in DOMAIN Rutas : ruta' = [ruta EXCEPT ![p] = r]
    BY DEF Arrive
<1>1. TypeOK'
    <2>1. /\ ruta' \in [Pedidos -> DOMAIN Rutas] /\ tramo' \in [Pedidos -> Nat]
          /\ ruta'[p] = r /\ tramo'[p] = 1
          /\ \A q \in Pedidos : q # p => ruta'[q] = ruta[q] /\ tramo'[q] = tramo[q]
        BY <1>0 DEF Arrive, PoolInv, TypeOK
    <2>2. 1 <= Len(Rutas[r])
        BY Stretches
    <2>3. \A q \in Pedidos : tramo'[q] <= Len(Rutas[ruta'[q]])
        BY <2>1, <2>2 DEF PoolInv, TypeOK
    <2> QED BY <2>1, <2>3 DEF Arrive, PoolInv, TypeOK, pool
<1>2. Lent'
    BY DEF Arrive, PoolInv, Lent, OneEach, Apart, Queued, NoOther, pool
<1>3. \A a \in Agentes : Busy(a)' <=> Busy(a)
    BY DEF Arrive, Busy, Uses, Waits, pool
<1>4. Served(p)'
    <2>1. Served(p) /\ tramo[p] = 0 /\ ~ Busy(Dos(p)) /\ tramo'[p] = 1
          /\ segunda'[p] = segunda[p]
        BY DEF Arrive, PoolInv, TypeOK, Busy
    <2>2. ~ Busy(Uno(p)) /\ segunda[p] # "pedida"
        BY <2>1 DEF Served
    <2>3. ~ Busy(Dos(p))'
        BY <2>1, <1>3, Agents
    <2> QED BY <2>1, <2>2, <2>3 DEF Served
<1>5. \A q \in Pedidos : q # p =>
               /\ tramo'[q] = tramo[q] /\ segunda'[q] = segunda[q] /\ ruta'[q] = ruta[q]
               /\ (Busy(Uno(q))' <=> Busy(Uno(q))) /\ (Busy(Dos(q))' <=> Busy(Dos(q)))
    <2>1. \A q \in Pedidos : (Busy(Uno(q))' <=> Busy(Uno(q))) /\ (Busy(Dos(q))' <=> Busy(Dos(q)))
        BY <1>3, Agents
    <2> QED BY <1>0, <2>1 DEF Arrive, PoolInv, TypeOK
<1> QED BY <1>1, <1>2, <1>4, <1>5, OthersServed DEF PoolInv

LEMMA ConnectPool ==
    ASSUME PoolInv, NEW p \in Pedidos, Connect(p)
    PROVE  PoolInv'
<1>0. Uno(p) \in Agentes /\ ~ Busy(Uno(p))
    BY Agents DEF Connect, Busy
<1>1. /\ Lent'
      /\ mano' \in [Agentes -> SUBSET limite] /\ libres' \subseteq limite
      /\ cola' \in Seq(Agentes)
      /\ Busy(Uno(p))' /\ \A b \in Agentes : b # Uno(p) => (Busy(b)' <=> Busy(b))
    BY <1>0, TakeLent DEF Connect, PoolInv
<1>2. TypeOK'
    BY <1>1 DEF Connect, PoolInv, TypeOK
<1>3. Served(p)'
    BY <1>1, Agents DEF Connect, PoolInv, Served, Tramo
<1>4. \A q \in Pedidos : q # p =>
               /\ tramo'[q] = tramo[q] /\ segunda'[q] = segunda[q] /\ ruta'[q] = ruta[q]
               /\ (Busy(Uno(q))' <=> Busy(Uno(q))) /\ (Busy(Dos(q))' <=> Busy(Dos(q)))
    BY <1>1, Agents DEF Connect
<1> QED BY <1>1, <1>2, <1>3, <1>4, OthersServed DEF PoolInv

LEMMA ConnectSecondPool ==
    ASSUME PoolInv, NEW p \in Pedidos, ConnectSecond(p)
    PROVE  PoolInv'
<1>0. Dos(p) \in Agentes /\ ~ Busy(Dos(p))
    BY Agents DEF ConnectSecond, PoolInv, Served
<1>1. /\ Lent'
      /\ mano' \in [Agentes -> SUBSET limite] /\ libres' \subseteq limite
      /\ cola' \in Seq(Agentes)
      /\ Busy(Dos(p))' /\ \A b \in Agentes : b # Dos(p) => (Busy(b)' <=> Busy(b))
    BY <1>0, TakeLent DEF ConnectSecond, PoolInv
<1>2. TypeOK'
    BY <1>1 DEF ConnectSecond, PoolInv, TypeOK
<1>3. Served(p)'
    <2>1. segunda'[p] = "pedida" /\ tramo[p] # 0 /\ Tramo(p)' = Tramo(p) /\ Tramo(p) \in Dobles
        BY DEF ConnectSecond, Tramo, PoolInv, TypeOK
    <2> QED BY <1>1, <2>1 DEF ConnectSecond, Served
<1>4. \A q \in Pedidos : q # p =>
               /\ tramo'[q] = tramo[q] /\ segunda'[q] = segunda[q] /\ ruta'[q] = ruta[q]
               /\ (Busy(Uno(q))' <=> Busy(Uno(q))) /\ (Busy(Dos(q))' <=> Busy(Dos(q)))
    BY <1>1, Agents DEF ConnectSecond, PoolInv, TypeOK
<1> QED BY <1>1, <1>2, <1>3, <1>4, OthersServed DEF PoolInv

(* Its second agent answers, or fails. *)
LEMMA SettlePool ==
    ASSUME PoolInv, NEW p \in Pedidos, NEW s \in {"hecha", "rota"},
           Uses(Dos(p)), Give(Dos(p)), Settle(p, s), fallas' \in 0 .. MaxFallas,
           UNCHANGED <<limite, ruta, tramo, perdidas>>
    PROVE  PoolInv'
<1>0. Dos(p) \in Agentes
    BY Agents
<1>1. /\ Lent'
      /\ mano' \in [Agentes -> SUBSET limite] /\ libres' \subseteq limite
      /\ cola' \in Seq(Agentes)
      /\ ~ Busy(Dos(p))' /\ \A b \in Agentes : b # Dos(p) => (Busy(b)' <=> Busy(b))
    BY <1>0, GiveLent DEF PoolInv
<1>2. TypeOK'
    BY <1>1 DEF Settle, PoolInv, TypeOK
<1>3. Served(p)'
    <2>1. segunda'[p] # "pedida"
        BY DEF Settle, PoolInv, TypeOK
    <2>2. Busy(Uno(p))' <=> Busy(Uno(p))
        BY <1>1, Agents
    <2> QED BY <1>1, <2>1, <2>2 DEF PoolInv, Served
<1>4. \A q \in Pedidos : q # p =>
               /\ tramo'[q] = tramo[q] /\ segunda'[q] = segunda[q] /\ ruta'[q] = ruta[q]
               /\ (Busy(Uno(q))' <=> Busy(Uno(q))) /\ (Busy(Dos(q))' <=> Busy(Dos(q)))
    BY <1>1, Agents DEF Settle, PoolInv, TypeOK
<1> QED BY <1>1, <1>2, <1>3, <1>4, OthersServed DEF PoolInv

(* Its runner is through with the stretch, whichever way that ends. *)
LEMMA RunnerPool ==
    ASSUME PoolInv, NEW p \in Pedidos, Lent',
           mano' \in [Agentes -> SUBSET limite], libres' \subseteq limite,
           cola' \in Seq(Agentes), perdidas' \subseteq limite,
           ~ Busy(Uno(p))', \A b \in Agentes : b # Uno(p) => (Busy(b)' <=> Busy(b)),
           Advance(p) \/ Abandon(p),
           segunda' \in [Pedidos -> {"falta", "pedida", "hecha", "rota"}],
           segunda'[p] = "pedida" <=> segunda[p] = "pedida",
           segunda'[p] = "pedida" => tramo'[p] = 0,
           \A q \in Pedidos : q # p => segunda'[q] = segunda[q],
           fallas' \in 0 .. MaxFallas, UNCHANGED <<limite, ruta>>
    PROVE  PoolInv'
<1>1. /\ tramo' \in [Pedidos -> Nat] /\ tramo'[p] <= Len(Rutas[ruta[p]])
      /\ \A q \in Pedidos : q # p => tramo'[q] = tramo[q]
    <2>1. Len(Rutas[ruta[p]]) \in Nat
        BY Stretches DEF PoolInv, TypeOK
    <2>2. tramo \in [Pedidos -> Nat] /\ tramo[p] <= Len(Rutas[ruta[p]])
        BY DEF PoolInv, TypeOK
    <2>3. CASE Advance(p)
        BY <2>1, <2>2, <2>3 DEF Advance
    <2>4. CASE Abandon(p)
        BY <2>1, <2>2, <2>4 DEF Abandon
    <2> QED BY <2>3, <2>4
<1>2. TypeOK'
    BY <1>1 DEF PoolInv, TypeOK
<1>3. Served(p)'
    <2>1. Busy(Dos(p))' <=> Busy(Dos(p))
        BY Agents
    <2> QED BY <2>1 DEF PoolInv, Served
<1>4. \A q \in Pedidos : q # p =>
               /\ tramo'[q] = tramo[q] /\ segunda'[q] = segunda[q] /\ ruta'[q] = ruta[q]
               /\ (Busy(Uno(q))' <=> Busy(Uno(q))) /\ (Busy(Dos(q))' <=> Busy(Dos(q)))
    BY <1>1, Agents
<1> QED BY <1>2, <1>3, <1>4, OthersServed DEF PoolInv

LEMMA DonePool ==
    ASSUME PoolInv, NEW p \in Pedidos, Done(p) \/ FailAfter(p)
    PROVE  PoolInv'
<1>0. /\ Uno(p) \in Agentes /\ tramo[p] # 0 /\ Uses(Uno(p)) /\ Give(Uno(p))
      /\ segunda' = [segunda EXCEPT ![p] = "falta"]
      /\ Advance(p) \/ Abandon(p)
      /\ UNCHANGED <<limite, ruta, perdidas, fallas>>
    BY Agents DEF Done, FailAfter
<1>1. /\ Lent'
      /\ mano' \in [Agentes -> SUBSET limite] /\ libres' \subseteq limite
      /\ cola' \in Seq(Agentes)
      /\ ~ Busy(Uno(p))' /\ \A b \in Agentes : b # Uno(p) => (Busy(b)' <=> Busy(b))
    BY <1>0, GiveLent DEF PoolInv
<1>2. segunda[p] # "pedida"
    <2>1. Served(p)
        BY DEF PoolInv
    <2>2. CASE Done(p)
        BY <1>0, <2>1, <2>2 DEF Done, Served
    <2>3. CASE FailAfter(p)
        BY <2>3 DEF FailAfter
    <2> QED BY <2>2, <2>3
<1>3. /\ segunda' \in [Pedidos -> {"falta", "pedida", "hecha", "rota"}]
      /\ segunda'[p] = "falta"
      /\ \A q \in Pedidos : q # p => segunda'[q] = segunda[q]
    BY <1>0 DEF PoolInv, TypeOK
<1>4. perdidas' \subseteq limite /\ fallas' \in 0 .. MaxFallas
    BY <1>0 DEF PoolInv, TypeOK
<1> QED BY <1>0, <1>1, <1>2, <1>3, <1>4, RunnerPool

LEMMA FailPool ==
    ASSUME PoolInv, NEW p \in Pedidos, Fail(p)
    PROVE  PoolInv'
<1>0. Uno(p) \in Agentes
    BY Agents
<1>1. /\ Lent'
      /\ mano' \in [Agentes -> SUBSET limite] /\ libres' \subseteq limite
      /\ cola' \in Seq(Agentes) /\ perdidas' \subseteq limite
      /\ ~ Busy(Uno(p))' /\ \A b \in Agentes : b # Uno(p) => (Busy(b)' <=> Busy(b))
    <2>1. CASE Tramo(p) = "fuga"
        <3>1. /\ Lent'
              /\ mano' \in [Agentes -> SUBSET limite] /\ perdidas' \subseteq limite
              /\ ~ Busy(Uno(p))' /\ \A b \in Agentes : b # Uno(p) => (Busy(b)' <=> Busy(b))
            BY <1>0, <2>1, LoseLent DEF Fail, PoolInv
        <3> QED BY <2>1, <3>1 DEF Fail, PoolInv, TypeOK
    <2>2. CASE Tramo(p) # "fuga"
        <3>1. /\ Lent'
              /\ mano' \in [Agentes -> SUBSET limite] /\ libres' \subseteq limite
              /\ cola' \in Seq(Agentes)
              /\ ~ Busy(Uno(p))' /\ \A b \in Agentes : b # Uno(p) => (Busy(b)' <=> Busy(b))
            BY <1>0, <2>2, GiveLent DEF Fail, PoolInv
        <3> QED BY <2>2, <3>1 DEF Fail, PoolInv, TypeOK
    <2> QED BY <2>1, <2>2
<1>2. /\ segunda' \in [Pedidos -> {"falta", "pedida", "hecha", "rota"}]
      /\ segunda'[p] = "pedida" <=> segunda[p] = "pedida"
      /\ \A q \in Pedidos : q # p => segunda'[q] = segunda[q]
    BY DEF Fail, PoolInv, TypeOK
<1>3. /\ Advance(p) \/ Abandon(p)
      /\ segunda'[p] = "pedida" => tramo'[p] = 0
    <2>1. CASE Abandon(p)
        BY <2>1 DEF Abandon, PoolInv, TypeOK
    <2>2. CASE MayGoOn(p) /\ Advance(p)
        <3>1. Tramo(p) \notin Dobles
            BY <2>2 DEF MayGoOn, Tramo, Rutas, Dobles
        <3>2. segunda[p] # "pedida"
            BY <3>1 DEF PoolInv, Served, Fail
        <3> QED BY <1>2, <2>2, <3>2
    <2> QED BY <2>1, <2>2 DEF Fail
<1>4. fallas' \in 0 .. MaxFallas
    BY PoolAssumption DEF Fail, PoolInv, TypeOK
<1>5. UNCHANGED <<limite, ruta>>
    BY DEF Fail
<1> QED BY <1>1, <1>2, <1>3, <1>4, <1>5, RunnerPool

LEMMA NextPool == PoolInv /\ [Next]_vars => PoolInv'
<1> SUFFICES ASSUME PoolInv, [Next]_vars PROVE PoolInv'
    OBVIOUS
<1>1. CASE UNCHANGED vars
    <2>1. \A p : Tramo(p)' = Tramo(p)
        BY <1>1 DEF vars, Tramo
    <2> QED BY <1>1, <2>1 DEF vars, pool, PoolInv, TypeOK, Lent, OneEach, Apart, Queued, NoOther,
                              Served, Busy, Uses, Waits
<1>2. ASSUME NEW p \in Pedidos, AnswerSecond(p) PROVE PoolInv'
    <2>1. fallas' \in 0 .. MaxFallas
        BY <1>2 DEF AnswerSecond, PoolInv, TypeOK
    <2> QED BY <1>2, <2>1, SettlePool DEF AnswerSecond
<1>3. ASSUME NEW p \in Pedidos, FailSecond(p) PROVE PoolInv'
    <2>1. fallas' \in 0 .. MaxFallas
        BY <1>3, PoolAssumption DEF FailSecond, PoolInv, TypeOK
    <2> QED BY <1>3, <2>1, SettlePool DEF FailSecond
<1> QED BY <1>1, <1>2, <1>3, ArrivePool, ConnectPool, ConnectSecondPool, DonePool, FailPool
        DEF Next, Step

-----------------------------------------------------------------------------
(* The pool keeps the invariant. *)
LEMMA PoolKept == Spec => []PoolInv
BY InitPool, NextPool, PTL DEF Spec

(* However handlers fail, are overtaken by their own queries or leave some *)
(* behind, a connection is in one hand, or free, or lost; and nobody waits *)
(* while one is free (ConnectionPool!Reparto).                             *)
THEOREM RepartoProved == Spec => []Reparto
<1>1. PoolInv => Reparto
    BY DEF PoolInv, Lent, Apart, Queued, Reparto
<1> QED BY <1>1, PoolKept, PTL

(* When everyone waits, every connection was lost by a failed query or is  *)
(* held by a runner whose own repository waits: there is no other deadlock *)
(* (ConnectionPool!UnicoAtasco).                                           *)
THEOREM AtascoProved == Spec => []UnicoAtasco
<1>1. PoolInv => UnicoAtasco
    <2> SUFFICES ASSUME PoolInv, Stuck
                 PROVE  limite = perdidas \cup
                                 UNION {mano[Uno(p)] : p \in {q \in Pedidos : HoldsAndWaits(q)}}
        BY DEF UnicoAtasco
    <2>1. ASSUME NEW c \in limite, c \notin perdidas
          PROVE  \E p \in {q \in Pedidos : HoldsAndWaits(q)} : c \in mano[Uno(p)]
        <3>1. libres = {}
            BY DEF Stuck, PoolInv, Lent, Queued
        <3>2. PICK a \in Agentes : c \in mano[a]
            BY <2>1, <3>1 DEF PoolInv, Lent, NoOther
        <3>3. PICK p \in Pedidos : a = Uno(p) \/ a = Dos(p)
            BY DEF Agentes, Uno, Dos
        <3>4. a = Uno(p) /\ Uses(Uno(p))
            BY <3>2, <3>3 DEF Stuck, Uses
        <3>5. tramo[p] # 0
            BY <3>4 DEF PoolInv, Served, Busy
        <3> QED BY <3>2, <3>4, <3>5 DEF Stuck, HoldsAndWaits
    <2>2. perdidas \subseteq limite /\ \A p \in Pedidos : mano[Uno(p)] \subseteq limite
        BY Agents DEF PoolInv, TypeOK
    <2> QED BY <2>1, <2>2
<1> QED BY <1>1, PoolKept, PTL

-----------------------------------------------------------------------------
(* Only a query that fails loses a connection, and it loses one. *)
LossBound == IsFiniteSet(perdidas) /\ Cardinality(perdidas) <= fallas

LEMMA LossNext == PoolInv /\ LossBound /\ [Next]_vars => LossBound'
<1> SUFFICES ASSUME PoolInv, LossBound, [Next]_vars PROVE LossBound'
    OBVIOUS
<1>1. CASE UNCHANGED <<perdidas, fallas>>
    BY <1>1 DEF LossBound
<1>2. ASSUME NEW p \in Pedidos, Fail(p) PROVE LossBound'
    <2>0. PICK c : c \in mano[Uno(p)]
        BY <1>2 DEF Fail, Uses
    <2>1. mano[Uno(p)] = {c}
        BY <2>0, Agents DEF PoolInv, Lent, OneEach
    <2>2. perdidas' = perdidas \/ perdidas' = perdidas \cup {c}
        BY <1>2, <2>1 DEF Fail
    <2>3. IsFiniteSet(perdidas') /\ Cardinality(perdidas') <= Cardinality(perdidas) + 1
        <3>1. Cardinality(perdidas) \in Nat /\ IsFiniteSet(perdidas)
            BY FS_CardinalityType DEF LossBound
        <3>2. IsFiniteSet(perdidas \cup {c})
            BY <3>1, FS_AddElement
        <3>3. Cardinality(perdidas \cup {c}) \in {Cardinality(perdidas), Cardinality(perdidas) + 1}
            BY <3>1, FS_AddElement
        <3> QED BY <2>2, <3>1, <3>2, <3>3
    <2>4. fallas' = fallas + 1 /\ fallas \in Nat
        BY <1>2, PoolAssumption DEF Fail, PoolInv, TypeOK
    <2>5. Cardinality(perdidas') \in Nat /\ Cardinality(perdidas) \in Nat
        BY <2>3, FS_CardinalityType DEF LossBound
    <2> QED BY <2>3, <2>4, <2>5 DEF LossBound
<1>3. ASSUME NEW p \in Pedidos, FailSecond(p) PROVE LossBound'
    BY <1>3, FS_CardinalityType, PoolAssumption DEF FailSecond, LossBound, PoolInv, TypeOK
<1>4. CASE \E p \in Pedidos : Arrive(p) \/ Step(p) \/ AnswerSecond(p)
    BY <1>4, <1>1 DEF Arrive, Step, Connect, ConnectSecond, Done, FailAfter, AnswerSecond
<1> QED BY <1>1, <1>2, <1>3, <1>4 DEF Next, vars

(* A pool with more connections than requests and failures is never stuck, *)
(* whatever the limit, the handlers and the order of their calls: the      *)
(* safety half of ConnectionPool!TodoPedidoTermina.                        *)
THEOREM SobranProved ==
    ASSUME IsFiniteSet(Pedidos)
    PROVE  Spec => [](Sobran => ~ Stuck)
<1>1. Init => LossBound
    BY FS_EmptySet DEF Init, LossBound
<1>2. PoolInv /\ LossBound => (Sobran => ~ Stuck)
    <2> SUFFICES ASSUME PoolInv, LossBound, Stuck PROVE ~ Sobran
        OBVIOUS
    <2> DEFINE Hand == [p \in Pedidos |-> IF Uses(Uno(p)) THEN CHOOSE c : c \in mano[Uno(p)]
                                                           ELSE CHOOSE c : c \in limite]
               Held == {Hand[p] : p \in Pedidos}
    <2>1. IsFiniteSet(Held) /\ Cardinality(Held) <= Cardinality(Pedidos)
        <3>1. Hand \in Surjection(Pedidos, Held)
            BY DEF Surjection
        <3> HIDE DEF Hand, Held
        <3> QED BY <3>1, FS_Surjection
    <2>2. limite \subseteq perdidas \cup Held
        <3>1. ASSUME NEW c \in limite, c \notin perdidas PROVE c \in Held
            <4>1. libres = {}
                BY DEF Stuck, PoolInv, Lent, Queued
            <4>2. PICK a \in Agentes : c \in mano[a]
                BY <3>1, <4>1 DEF PoolInv, Lent, NoOther
            <4>3. PICK p \in Pedidos : a = Uno(p) \/ a = Dos(p)
                BY DEF Agentes, Uno, Dos
            <4>4. a = Uno(p) /\ Uses(Uno(p))
                BY <4>2, <4>3 DEF Stuck, Uses
            <4>5. c = CHOOSE d : d \in mano[Uno(p)]
                BY <4>2, <4>4 DEF PoolInv, Lent, OneEach
            <4> QED BY <4>4, <4>5
        <3> QED BY <3>1
    <2> HIDE DEF Held
    <2>3. /\ IsFiniteSet(perdidas \cup Held)
          /\ Cardinality(perdidas \cup Held) <= Cardinality(perdidas) + Cardinality(Held)
        <3>1. IsFiniteSet(perdidas)
            BY DEF LossBound
        <3>2. /\ IsFiniteSet(perdidas \cup Held)
              /\ Cardinality(perdidas \cup Held) =
                     Cardinality(perdidas) + Cardinality(Held) - Cardinality(perdidas \cap Held)
            BY <2>1, <3>1, FS_Union
        <3>3. IsFiniteSet(perdidas \cap Held)
            BY <2>1, FS_Intersection
        <3>4. /\ Cardinality(perdidas) \in Nat /\ Cardinality(Held) \in Nat
              /\ Cardinality(perdidas \cap Held) \in Nat
            BY <2>1, <3>1, <3>3, FS_CardinalityType
        <3> QED BY <3>2, <3>4
    <2>4. /\ IsFiniteSet(limite)
          /\ Cardinality(limite) <= Cardinality(perdidas \cup Held)
        BY <2>2, <2>3, FS_Subset
    <2>5. /\ Cardinality(limite) \in Nat /\ Cardinality(perdidas \cup Held) \in Nat
          /\ Cardinality(perdidas) \in Nat /\ Cardinality(Held) \in Nat
          /\ Cardinality(Pedidos) \in Nat
        BY <2>1, <2>3, <2>4, FS_CardinalityType DEF LossBound
    <2>6. Cardinality(perdidas) <= fallas /\ fallas \in 0 .. MaxFallas
        BY DEF LossBound, PoolInv, TypeOK
    <2> QED BY <2>1, <2>3, <2>4, <2>5, <2>6, PoolAssumption DEF Sobran
<1> QED BY <1>1, <1>2, LossNext, PoolKept, PTL DEF Spec
=============================================================================
