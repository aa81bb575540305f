------------------------- MODULE MCDiscountBilling -------------------------
(* Constants of DiscountBilling for TLC. *)
EXTENDS DiscountBilling, TLC

CONSTANTS i1, i2, d1, d2, d3, t1, t2, t3, t4, t5, nadie

(* Both invoices are of one enrolment: d1 and d2 are of one category, d2   *)
(* being the later one, and d3 has none.                                   *)
Shared    == [i \in Invoices |-> Discounts]
Category3 == (d1 :> 7) @@ (d2 :> 7) @@ (d3 :> 0)
Rank3     == (d1 :> 1) @@ (d2 :> 2) @@ (d3 :> 3)

Sym == Permutations(Tasks) \cup Permutations(Invoices)
=============================================================================
