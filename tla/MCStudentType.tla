---------------------------- MODULE MCStudentType ----------------------------
(* StudentType for TLC. *)
EXTENDS StudentType, TLC

CONSTANTS s1, s2, s3

Sym == Permutations(Asignaturas)
=============================================================================
