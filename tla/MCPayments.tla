----------------------------- MODULE MCPayments -----------------------------
(* Constants of Payments for TLC. *)
EXTENDS Payments, TLC

CONSTANTS i1, i2, n, a, b, r1, r2, r3

(* a and b are raw codes of the same day with the same tail: they have the *)
(* same normal form n, which is its own.                                   *)
Normal3 == (n :> n) @@ (a :> n) @@ (b :> n)
Normal2 == (n :> n) @@ (a :> n)

(* i1 falls due on the first day, i2 after the last. *)
Due1 == (i1 :> 0)
Due2 == (i1 :> 0) @@ (i2 :> 9)

Sym == Permutations(Requests)
=============================================================================
