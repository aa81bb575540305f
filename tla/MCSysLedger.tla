---------------------------- MODULE MCSysLedger ----------------------------
(* Constants of SysLedger for TLC. *)
EXTENDS SysLedger, TLC

CONSTANTS i1, i2, i3, t1, t2, none, ana, eva

(* All invoices are for one student, who is new to the ledger; it knows    *)
(* somebody else.                                                          *)
OneStudent == [i \in Invoices |-> ana]
Known      == {[cod |-> 0, student |-> eva]}

(* What is kept from overlapping: the clean-ups of an invoice, and perhaps *)
(* the registrations of a student; all of the calls on an invoice; those   *)
(* with a clean-up among them; nothing.                                    *)
AllApart    == {"sync", "delete", "quiet"}
MCOrdenes   == {{"delete"}, {"delete", "student"}, AllApart}
LiveOrdenes == {{"delete", "quiet"}, AllApart}
Unordered   == {{}}

Sym == Permutations(Invoices) \cup Permutations(Tasks)
=============================================================================
