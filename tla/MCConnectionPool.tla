-------------------------- MODULE MCConnectionPool --------------------------
(* ConnectionPool for TLC. *)
EXTENDS ConnectionPool, TLC

CONSTANTS c1, c2, c3, c4, p1, p2, p3

MCLimites == {{c1}, {c1, c2}, {c1, c2, c3}, {c1, c2, c3, c4}}
=============================================================================
