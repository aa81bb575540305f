----------------------------- MODULE MCCashDesk -----------------------------
(* Constants of CashDesk for TLC. *)
EXTENDS CashDesk, TLC

CONSTANTS i1, i2, d1, t1, t2, t3, t4, nadie, ana

(* Two invoices of one enrolment, which compete for its discount. *)
OneStudent == [i \in Invoices |-> ana]
Shared     == [i \in Invoices |-> Discounts]
MCCategory == [d \in Discounts |-> 7]
MCRank     == [d \in Discounts |-> 1]

Sym == Permutations(Tasks) \cup Permutations(Invoices)
=============================================================================
