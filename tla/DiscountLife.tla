---------------------------- MODULE DiscountLife ----------------------------
(***************************************************************************)
(* What billing promises about a discount: it belongs to no invoice or to  *)
(* one, an invoice takes only discounts that were approved and that nobody *)
(* holds, and gives all of its own back at once.  DiscountBilling          *)
(* implements it when the calls on one invoice are kept apart.  A          *)
(* withdrawal that comes after the discounts were read is not noticed: an  *)
(* invoice may take a discount that was approved and is RECHAZADO by now,  *)
(* never one that is still PENDIENTE.                                      *)
(***************************************************************************)
CONSTANTS Invoices, Discounts, Nadie

VARIABLES estado,   \* porcentaje_estado_id of a discount
          titular   \* the invoice a discount is billed on, or Nadie

vars == <<estado, titular>>

Init == /\ estado \in [Discounts -> {"PENDIENTE", "APROBADO"}]
        /\ titular = [d \in Discounts |-> Nadie]

Approve(d) == /\ estado[d] \in {"PENDIENTE", "RECHAZADO"}
              /\ estado' = [estado EXCEPT ![d] = "APROBADO"]
              /\ UNCHANGED titular

Withdraw(d) == /\ estado[d] = "APROBADO"
               /\ estado' = [estado EXCEPT ![d] = "RECHAZADO"]
               /\ UNCHANGED titular

Bill(i, D) ==
    /\ \A d \in D : estado[d] \in {"APROBADO", "RECHAZADO"} /\ titular[d] = Nadie
    /\ estado' = [d \in Discounts |-> IF d \in D THEN "FACTURADO" ELSE estado[d]]
    /\ titular' = [d \in Discounts |-> IF d \in D THEN i ELSE titular[d]]

Release(i) ==
    /\ estado' = [d \in Discounts |-> IF titular[d] = i THEN "APROBADO" ELSE estado[d]]
    /\ titular' = [d \in Discounts |-> IF titular[d] = i THEN Nadie ELSE titular[d]]

Next == \/ \E d \in Discounts : Approve(d) \/ Withdraw(d)
        \/ \E i \in Invoices : Release(i) \/ \E D \in SUBSET Discounts : Bill(i, D)

Spec == Init /\ [][Next]_vars
=============================================================================
