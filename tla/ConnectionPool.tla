--------------------------- MODULE ConnectionPool ---------------------------
(***************************************************************************)
(* The connections of the default data source (app.module.ts: one pool of  *)
(* the mysql driver, with its default limit) and how the handlers take and *)
(* give them back.  A handler is a sequence of stretches, each one a use   *)
(* of a connection:                                                        *)
(*   "llano"   calls to repositories, one connection at a time, which      *)
(*             TypeORM gives back whatever happens;                        *)
(*   "seguro"  a query runner that is released in a finally;               *)
(*   "fuga"    a query runner that is released only if its query worked;   *)
(*   "tipo"    the queries of generateStudentTypeByEnrollment: a runner    *)
(*             and, at the same time, a repository with a connection of    *)
(*             its own; all are awaited and then the runner is released;   *)
(*   "baja"    deleteDiscuountInvoice: a repository with a connection of   *)
(*             its own is awaited inside the transaction of a runner.      *)
(* Where a handler awaits such a stretch and another repository, or two    *)
(* repositories, with one Promise.all, they come one after the other: the  *)
(* repository waits for nothing while it has its connection.               *)
(* The driver is external: it lends a free connection, or makes the caller *)
(* wait, without a limit of time, in a queue that is served in order.      *)
(***************************************************************************)
EXTENDS Integers, Sequences, FiniteSets

CONSTANTS Conexiones,  \* connections
          Limites,     \* the sets of them that a pool may be limited to
          Pedidos,     \* requests in flight
          MaxFallas    \* queries that fail (bound)

ASSUME PoolAssumption == MaxFallas \in Nat /\ Limites \subseteq SUBSET Conexiones

Rutas == [ crear       |-> <<"llano", "fuga", "fuga", "llano", "tipo", "llano">>,
           inscripcion |-> <<"llano", "fuga", "fuga", "llano">>,
           consultar   |-> <<"llano", "fuga", "llano", "tipo", "llano">>,
           tipo        |-> <<"seguro", "tipo">>,
           imprimir    |-> <<"llano", "tipo">>,
           pagar       |-> <<"llano", "seguro", "llano", "seguro", "llano">>,
           reversar    |-> <<"llano", "seguro", "baja">> ]

VARIABLES limite,    \* the connections this pool may open
          ruta,      \* the handler a request runs
          tramo,     \* its stretch, 0 when it is over
          segunda,   \* how the repository called beside the runner is doing
          mano,      \* the connection an agent has, as a set
          libres,    \* free connections
          cola,      \* agents that wait for one
          perdidas,  \* connections nobody will give back
          fallas     \* failed queries

pool == <<mano, libres, cola>>
vars == <<limite, ruta, tramo, segunda, pool, perdidas, fallas>>

(* A request takes connections as two agents: its runner (or repository),  *)
(* and the repository it calls while it has a runner.                      *)
Uno(p) == <<p, 1>>
Dos(p) == <<p, 2>>
Agentes == Pedidos \X {1, 2}

Dobles == {"tipo", "baja"}
Tramo(p) == Rutas[ruta[p]][tramo[p]]

Waits(a) == \E k \in 1 .. Len(cola) : cola[k] = a
Uses(a)  == mano[a] # {}

Init == /\ limite \in Limites
        /\ ruta = [p \in Pedidos |-> "pagar"]
        /\ tramo = [p \in Pedidos |-> 0]
        /\ segunda = [p \in Pedidos |-> "falta"]
        /\ mano = [a \in Agentes |-> {}]
        /\ libres = limite
        /\ cola = <<>>
        /\ perdidas = {}
        /\ fallas = 0

(* The driver lends a connection or keeps the agent waiting. *)
Take(a) ==
    \/ \E c \in libres : /\ mano' = [mano EXCEPT ![a] = {c}]
                         /\ libres' = libres \ {c}
                         /\ UNCHANGED cola
    \/ /\ libres = {}
       /\ cola' = Append(cola, a)
       /\ UNCHANGED <<mano, libres>>

(* An agent gives its connection back, to the one that waits first if any. *)
Give(a) ==
    \/ /\ cola = <<>>
       /\ libres' = libres \cup mano[a]
       /\ mano' = [mano EXCEPT ![a] = {}]
       /\ UNCHANGED cola
    \/ /\ cola # <<>>
       /\ mano' = [mano EXCEPT ![a] = {}, ![Head(cola)] = mano[a]]
       /\ cola' = Tail(cola)
       /\ UNCHANGED libres

-----------------------------------------------------------------------------
Arrive(p) ==
    /\ tramo[p] = 0
    /\ ~ Uses(Dos(p)) /\ ~ Waits(Dos(p))
    /\ \E r \in DOMAIN Rutas : ruta' = [ruta EXCEPT ![p] = r]
    /\ tramo' = [tramo EXCEPT ![p] = 1]
    /\ UNCHANGED <<limite, segunda, pool, perdidas, fallas>>

(* connect(), or the first thing a repository does. *)
Connect(p) ==
    /\ tramo[p] # 0 /\ ~ Uses(Uno(p)) /\ ~ Waits(Uno(p))
    /\ Take(Uno(p))
    /\ UNCHANGED <<limite, ruta, tramo, segunda, perdidas, fallas>>

(* The repository that is called while the runner is out. *)
ConnectSecond(p) ==
    /\ tramo[p] # 0 /\ Uses(Uno(p)) /\ Tramo(p) \in Dobles
    /\ segunda[p] = "falta"
    /\ segunda' = [segunda EXCEPT ![p] = "pedida"]
    /\ Take(Dos(p))
    /\ UNCHANGED <<limite, ruta, tramo, perdidas, fallas>>

(* It answers, or fails, and its connection goes back.  When the handler   *)
(* is over already nobody hears of it.                                     *)
Settle(p, s) == segunda' = [segunda EXCEPT ![p] = IF tramo[p] = 0 THEN "falta" ELSE s]

AnswerSecond(p) ==
    /\ Uses(Dos(p))
    /\ Give(Dos(p)) /\ Settle(p, "hecha")
    /\ UNCHANGED <<limite, ruta, tramo, perdidas, fallas>>

FailSecond(p) ==
    /\ Uses(Dos(p))
    /\ fallas < MaxFallas
    /\ fallas' = fallas + 1
    /\ Give(Dos(p)) /\ Settle(p, "rota")
    /\ UNCHANGED <<limite, ruta, tramo, perdidas>>

-----------------------------------------------------------------------------
(* The stretch ends with everything it awaited, and gives its connection   *)
(* back; the request goes to its next stretch, or is over.                 *)
Advance(p) == tramo' = [tramo EXCEPT ![p] = IF @ < Len(Rutas[ruta[p]]) THEN @ + 1 ELSE 0]

Abandon(p) == tramo' = [tramo EXCEPT ![p] = 0]

Done_Loses(p) ==
    /\ tramo[p] # 0 /\ Uses(Uno(p))
    /\ Tramo(p) \in Dobles => segunda[p] = "hecha"
    /\ segunda' = [segunda EXCEPT ![p] = "falta"]
    /\ IF Tramo(p) # "tipo" THEN Give(Uno(p)) /\ UNCHANGED perdidas
         ELSE /\ perdidas' = perdidas \cup mano[Uno(p)]
              /\ mano' = [mano EXCEPT ![Uno(p)] = {}]
              /\ UNCHANGED <<libres, cola>>
    /\ Advance(p)
    /\ UNCHANGED <<limite, ruta, fallas>>
Done_Keeps(p) ==
    /\ tramo[p] # 0 /\ Uses(Uno(p))
    /\ Tramo(p) \in Dobles => segunda[p] = "hecha"
    /\ segunda' = [segunda EXCEPT ![p] = "falta"]
    /\ IF Tramo(p) = "tipo" THEN UNCHANGED pool ELSE Give(Uno(p))
    /\ Advance(p)
    /\ UNCHANGED <<limite, ruta, perdidas, fallas>>
Done(p) ==
    /\ tramo[p] # 0 /\ Uses(Uno(p))
    /\ Tramo(p) \in Dobles => segunda[p] = "hecha"
    /\ segunda' = [segunda EXCEPT ![p] = "falta"]
    /\ Give(Uno(p))
    /\ Advance(p)
    /\ UNCHANGED <<limite, ruta, perdidas, fallas>>

(* A payment that is committed (its third stretch) goes on after a failed  *)
(* call to the ledger, though not without its discounts, and in any case   *)
(* after a failed billing of them (its fourth).                            *)
MayGoOn(p)  == ruta[p] = "pagar" /\ tramo[p] \in {3, 4}
MustGoOn(p) == ruta[p] = "pagar" /\ tramo[p] = 4

(* A query of the stretch fails: a finally, a catch or TypeORM gives the   *)
(* connection back, but not after a "fuga".  In "tipo" the runner does not *)
(* wait for the repository that was called beside it.                      *)
Fail_Twice(p) ==
    /\ tramo[p] # 0 /\ Uses(Uno(p)) /\ cola # <<>>
    /\ fallas < MaxFallas
    /\ fallas' = fallas + 1
    /\ mano' = [mano EXCEPT ![Uno(p)] = {}, ![Head(cola)] = mano[Uno(p)]]
    /\ libres' = libres \cup mano[Uno(p)]
    /\ cola' = Tail(cola)
    /\ Abandon(p)
    /\ UNCHANGED <<limite, ruta, segunda, perdidas>>
Fail(p) ==
    /\ tramo[p] # 0 /\ Uses(Uno(p))
    /\ fallas < MaxFallas
    /\ fallas' = fallas + 1
    /\ Tramo(p) = "tipo" => segunda[p] # "falta"
    /\ Tramo(p) = "baja" => segunda[p] # "pedida"
    /\ \/ MayGoOn(p) /\ Advance(p)
       \/ ~ MustGoOn(p) /\ Abandon(p)
    /\ segunda' = [segunda EXCEPT ![p] = IF @ = "pedida" THEN @ ELSE "falta"]
    /\ \/ /\ Tramo(p) = "fuga"
          /\ perdidas' = perdidas \cup mano[Uno(p)]
          /\ mano' = [mano EXCEPT ![Uno(p)] = {}]
          /\ UNCHANGED <<libres, cola>>
       \/ /\ Tramo(p) # "fuga"
          /\ Give(Uno(p))
          /\ UNCHANGED perdidas
    /\ UNCHANGED <<limite, ruta>>

(* The repository beside it failed: so does the handler. *)
FailAfter(p) ==
    /\ tramo[p] # 0 /\ Uses(Uno(p)) /\ segunda[p] = "rota"
    /\ Abandon(p)
    /\ segunda' = [segunda EXCEPT ![p] = "falta"]
    /\ Give(Uno(p))
    /\ UNCHANGED <<limite, ruta, perdidas, fallas>>

Step(p) == Connect(p) \/ ConnectSecond(p) \/ Done(p) \/ FailAfter(p)

Next == \E p \in Pedidos : \/ Arrive(p) \/ Step(p) \/ AnswerSecond(p)
                           \/ Fail(p) \/ FailSecond(p)

Spec == Init /\ [][Next]_vars

(* The database answers and handlers go on; requests need not come. *)
FairSpec == Spec /\ \A p \in Pedidos : WF_vars(Step(p)) /\ WF_vars(AnswerSecond(p))

-----------------------------------------------------------------------------
(* Requests, connections and the queue keep their types. *)
TypeOK ==
    /\ limite \in Limites
    /\ ruta \in [Pedidos -> DOMAIN Rutas]
    /\ tramo \in [Pedidos -> Nat]
    /\ \A p \in Pedidos : tramo[p] <= Len(Rutas[ruta[p]])
    /\ segunda \in [Pedidos -> {"falta", "pedida", "hecha", "rota"}]
    /\ mano \in [Agentes -> SUBSET limite]
    /\ libres \subseteq limite
    /\ cola \in Seq(Agentes)
    /\ perdidas \subseteq limite
    /\ fallas \in 0 .. MaxFallas

(* However handlers fail, are overtaken by their own queries or leave some *)
(* behind: a connection is in one hand at a time, or free, or lost, so     *)
(* that no handler writes in another one's transaction; and nobody waits   *)
(* while one is free.                                                      *)
Reparto ==
    /\ TypeOK
    /\ \A a, b \in Agentes : a # b => mano[a] \cap mano[b] = {}
    /\ \A a \in Agentes : mano[a] \cap (libres \cup perdidas) = {}
    /\ libres \cap perdidas = {}
    /\ cola # <<>> => libres = {}

(* A runner that has what the repository called beside it waits for. *)
HoldsAndWaits(p) == Uses(Uno(p)) /\ Waits(Dos(p))

(* Somebody waits, and whoever has a connection is over or waits too. *)
Stuck == /\ cola # <<>>
         /\ \A p \in Pedidos : /\ ~ Uses(Dos(p))
                               /\ Uses(Uno(p)) => tramo[p] = 0 \/ Waits(Dos(p))

(* The only way the pool can stand still: each of its connections was lost *)
(* by a failed query or is held by a runner whose repository waits.        *)
UnicoAtasco ==
    Stuck => limite = perdidas \cup UNION {mano[Uno(p)] : p \in {q \in Pedidos : HoldsAndWaits(q)}}

(* With more connections than requests and failures, it does not: every    *)
(* request ends, and waits its turn however many others come.              *)
Sobran == Cardinality(limite) > Cardinality(Pedidos) + MaxFallas
TodoPedidoTermina == \A p \in Pedidos : Sobran /\ tramo[p] # 0 ~> tramo[p] = 0
=============================================================================
