--------------------------- MODULE MCInvoiceDraft ---------------------------
(* InvoiceDraft for TLC. *)
EXTENDS InvoiceDraft, TLC

CONSTANTS nula, p1, p2, p3, p4

MCDos    == {1, 2}
MCTres   == {1, 2, 3}
MCPeticionesTres   == {p1, p2, p3}
MCPeticionesCuatro == {p1, p2, p3, p4}
MCPrecios == {2, 3}

Sym == Permutations(Peticiones)
=============================================================================
