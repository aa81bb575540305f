--------------------------- MODULE MCReceiptMail ---------------------------
(* ReceiptMail for TLC. *)
EXTENDS ReceiptMail, TLC

CONSTANTS f1, f2, f3, t1, t2, t3
=============================================================================
