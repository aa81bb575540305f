---------------------------- MODULE InvoiceLife ----------------------------
(***************************************************************************)
(* What the drafts promise about an invoice: its lines may be taken away   *)
(* and written anew, at another price, only while nobody has paid; what is *)
(* paid is exactly what the lines add up to, once; and a paid invoice only *)
(* leaves that state by the reversal of its payment.  InvoiceDraft         *)
(* implements it when the requests of a student are kept apart.            *)
(***************************************************************************)
EXTENDS Naturals

CONSTANTS Facturas

VARIABLES fase,     \* where an invoice stands
          precio,   \* what its lines add up to
          cobrado   \* what has been paid on it

vars == <<fase, precio, cobrado>>

Init == /\ fase = [f \in Facturas |-> "ninguna"]
        /\ precio = [f \in Facturas |-> 0]
        /\ cobrado = [f \in Facturas |-> 0]

Write(f) ==
    /\ fase[f] \in {"ninguna", "sin lineas"}
    /\ fase' = [fase EXCEPT ![f] = "borrador"]
    /\ precio' \in [Facturas -> Nat]
    /\ \A g \in Facturas \ {f} : precio'[g] = precio[g]
    /\ UNCHANGED cobrado

Erase(f) ==
    /\ fase[f] = "borrador"
    /\ fase' = [fase EXCEPT ![f] = "sin lineas"]
    /\ precio' = [precio EXCEPT ![f] = 0]
    /\ UNCHANGED cobrado

Pay(f) ==
    /\ fase[f] = "borrador"
    /\ fase' = [fase EXCEPT ![f] = "pagada"]
    /\ cobrado' = [cobrado EXCEPT ![f] = precio[f]]
    /\ UNCHANGED precio

Reverse(f) ==
    /\ fase[f] = "pagada"
    /\ fase' = [fase EXCEPT ![f] = "borrador"]
    /\ cobrado' = [cobrado EXCEPT ![f] = 0]
    /\ UNCHANGED precio

Next == \E f \in Facturas : Write(f) \/ Erase(f) \/ Pay(f) \/ Reverse(f)

Spec == Init /\ [][Next]_vars
=============================================================================
