---------------------------- MODULE PaymentBook ----------------------------
(***************************************************************************)
(* What the two cash-desk controllers promise the banks, with requests,    *)
(* transactions and failures left out: a book of the payments in force,    *)
(* one entry for an invoice and a transaction code, and the state of each  *)
(* invoice, which follows the last entry written or removed.  Payments     *)
(* implements it when a bank has one request in flight per invoice.        *)
(***************************************************************************)
CONSTANTS Invoices, Codes

VARIABLES book,      \* the <<invoice, code>> pairs paid and not reversed
          estadoId   \* the state column of each invoice

vars == <<book, estadoId>>

Init == /\ book = {}
        /\ estadoId = [i \in Invoices |-> "PAGO_INICIADO"]

Pay(i, c) ==
    /\ <<i, c>> \notin book
    /\ book' = book \cup {<<i, c>>}
    /\ estadoId' = [estadoId EXCEPT ![i] = "PAGO_FINALIZADO_OK"]

(* Any reversal puts the invoice back to PAGO_INICIADO, also when another  *)
(* payment of it is still in the book.                                     *)
Reverse(i, c) ==
    /\ <<i, c>> \in book
    /\ book' = book \ {<<i, c>>}
    /\ estadoId' = [estadoId EXCEPT ![i] = "PAGO_INICIADO"]

Next == \E i \in Invoices, c \in Codes : Pay(i, c) \/ Reverse(i, c)

Spec == Init /\ [][Next]_vars
=============================================================================
