\* A career of two enrolments that goes on between the reads.
SPECIFICATION StudentSpec
CONSTANTS
    s1 = s1
    s2 = s2
    s3 = s3
    Asignaturas = {s1, s2}
    MaxMatriculas = 2
CHECK_DEADLOCK FALSE
SYMMETRY Sym
INVARIANT NuevoSinHistoria
INVARIANT AtrasoNoSeBorra
