---------------------------- MODULE StudentType ----------------------------
(***************************************************************************)
(* generateStudentTypeByEnrollment (EnrollmentService): is a student new,  *)
(* up to date ("nivelado") or behind, and with which dates does he enrol.  *)
(* The answer is made of four reads that no transaction ties together:     *)
(* three queries on one connection, which runs them in order, and the      *)
(* period on another.  The academic system, external, goes on meanwhile:   *)
(* it enrols the student, grades, drops and cancels.                       *)
(*                                                                         *)
(* One student is modelled, since the reads are all of one, and one call   *)
(* of his at a time: calls only read, and two that overlap know nothing of *)
(* each other.                                                             *)
(***************************************************************************)
EXTENDS Integers, FiniteSets, Sequences

CONSTANTS Asignaturas,  \* subjects
          MaxMatriculas \* enrolments of the student (bound)

ASSUME StudentAssumption == MaxMatriculas \in Nat

VARIABLES matriculas,   \* col_matricula of the student, in order
          filas,        \* his subjects, col_colegio_asignatura_matricula
          pensum,       \* do the queries find subjects of his syllabus?
          periodo,      \* is the period of the enrolment configured?
          fechasPropias,\* mat_ordinaria of the programme
          pendientes,   \* the reads a call still waits for
          leido,        \* what it has read
          respuesta,    \* the last call's answer, if there is one
          atrasado,     \* history: some answer was NO_NIVELADO
          conHistoria   \* history: results in a later enrolment, when read

academia == <<matriculas, filas, pensum, periodo, fechasPropias>>
studentVars == <<academia, pendientes, leido, respuesta, atrasado, conHistoria>>

(* A row of ASIGNATURAS_REGISTRADAS; cod_estadomateria is 1 for "perdida"  *)
(* and 6, which the query leaves out, for "cancelada".                     *)
Fila == [mat : 1 .. MaxMatriculas, asig : Asignaturas,
         estado : {"cursa", "aprobada", "perdida", "cancelada"}]

(* cod_estadomatricula in (2, 5) is a cancelled enrolment.                 *)
Matricula == [nuevo : {"SI", "NO"}, viva : BOOLEAN]

Lecturas == {"pensum", "asignaturas", "numero", "periodo"}
NadaLeido == [pensum |-> FALSE, filas |-> {}, numero |-> 0, periodo |-> FALSE, propias |-> FALSE]
SinRespuesta == [tipo |-> 0, fechas |-> "ninguna"]

StudentInit == /\ matriculas = <<>> /\ filas = {}
               /\ pensum \in BOOLEAN /\ periodo \in BOOLEAN /\ fechasPropias \in BOOLEAN
               /\ pendientes = {} /\ leido = NadaLeido
               /\ respuesta = SinRespuesta
               /\ atrasado = FALSE /\ conHistoria = FALSE

-----------------------------------------------------------------------------
(* The academic system.  A subject may be taken again when it was lost or  *)
(* dropped; only what is being taken is graded or dropped.                 *)
Registradas == {f \in filas : f.estado # "cancelada"}
Abierta(s) == \A f \in Registradas : f.asig = s => f.estado = "perdida"

NewEnrolment == /\ Len(matriculas) < MaxMatriculas
                /\ matriculas' = Append(matriculas,
                       [nuevo |-> IF matriculas = <<>> THEN "SI" ELSE "NO", viva |-> TRUE])
                /\ \E ss \in SUBSET {s \in Asignaturas : Abierta(s)} :
                      filas' = filas \cup {[mat |-> Len(matriculas) + 1, asig |-> s,
                                            estado |-> "cursa"] : s \in ss}
                /\ UNCHANGED <<pensum, periodo, fechasPropias>>

Grade == /\ \E f \in filas : /\ f.estado = "cursa"
                             /\ \E e \in {"aprobada", "perdida", "cancelada"} :
                                   filas' = (filas \ {f}) \cup {[f EXCEPT !.estado = e]}
         /\ UNCHANGED <<matriculas, pensum, periodo, fechasPropias>>

Cancel == /\ \E m \in DOMAIN matriculas :
                /\ matriculas[m].viva
                /\ matriculas' = [matriculas EXCEPT ![m].viva = FALSE]
                /\ filas' = {IF f.mat = m /\ f.estado = "cursa"
                               THEN [f EXCEPT !.estado = "cancelada"] ELSE f : f \in filas}
          /\ UNCHANGED <<pensum, periodo, fechasPropias>>

Configure == /\ fechasPropias' \in BOOLEAN /\ periodo' = TRUE
             /\ UNCHANGED <<matriculas, filas, pensum>>

Academy == /\ NewEnrolment \/ Grade \/ Cancel \/ Configure
           /\ UNCHANGED <<pendientes, leido, respuesta, atrasado, conHistoria>>

-----------------------------------------------------------------------------
(* The reads. *)

Ask == /\ pendientes = {} /\ matriculas # <<>>
       /\ pendientes' = Lecturas
       /\ leido' = NadaLeido /\ respuesta' = SinRespuesta
       /\ UNCHANGED <<academia, atrasado, conHistoria>>

Read(q) == /\ q \in pendientes
           /\ pendientes' = pendientes \ {q}
           /\ UNCHANGED <<academia, respuesta, atrasado>>

ReadPensum == /\ Read("pensum")
              /\ leido' = [leido EXCEPT !.pensum = pensum]
              /\ UNCHANGED conHistoria

ReadAsignaturas ==
    /\ "pensum" \notin pendientes
    /\ Read("asignaturas")
    /\ leido' = [leido EXCEPT !.filas = Registradas, !.propias = fechasPropias]
    /\ conHistoria' = \E f \in filas : f.mat # 1 /\ f.estado \in {"aprobada", "perdida"}

ReadNumero ==
    /\ "asignaturas" \notin pendientes
    /\ Read("numero")
    /\ leido' = [leido EXCEPT !.numero =
                   Cardinality({m \in DOMAIN matriculas : matriculas[m].viva})]
    /\ UNCHANGED conHistoria

ReadPeriodo == /\ Read("periodo")
               /\ leido' = [leido EXCEPT !.periodo = periodo]
               /\ UNCHANGED conHistoria

(* A read that throws ends the call with an error. *)
ReadFails == /\ pendientes # {}
             /\ pendientes' = {} /\ leido' = NadaLeido
             /\ UNCHANGED <<academia, respuesta, atrasado, conHistoria>>

-----------------------------------------------------------------------------
(* The answer. *)

(* The dates of a student who is behind: the programme's own, if any. *)
FechasAntiguo(l) == IF l.filas # {} /\ l.propias THEN "programa" ELSE "antiguos"

(* No answer without a period or without anything to go by. *)
Falla(l) == ~ l.periodo \/ (~ l.pensum /\ l.filas = {})

EsNuevo_Some(l) ==
    \/ l.pensum /\ l.filas = {}
    \/ (\E f \in l.filas : matriculas[f.mat].nuevo = "SI") /\ l.numero = 1
EsNuevo(l) ==
    \/ l.pensum /\ l.filas = {}
    \/ (\A f \in l.filas : matriculas[f.mat].nuevo = "SI") /\ l.numero = 1

MatriculaUnica(l) == \A f, g \in l.filas : f.mat = g.mat
Repetida(l) == Cardinality({f.asig : f \in l.filas}) # Cardinality(l.filas)

(* Course by course, the subjects registered against the subjects of the   *)
(* syllabus, both counted in the same list.                                *)
CursoIncompleto(l) ==
    \E c \in {f.mat : f \in l.filas} :
        LET numeroAsigRegistradas == Cardinality({f \in l.filas : f.mat = c})
            numeroAsigPensul      == Cardinality({f \in l.filas : f.mat = c})
        IN  numeroAsigPensul # numeroAsigRegistradas

EsNoNivelado_Latest(l) ==
    \E f \in l.filas : f.estado = "perdida" /\ \A g \in l.filas : g.mat <= f.mat
EsNoNivelado(l) ==
    \/ ~ MatriculaUnica(l) /\ (Repetida(l) \/ CursoIncompleto(l))
    \/ \E f \in l.filas : f.estado = "perdida"

Clasifica(l) ==
    CASE Falla(l) -> SinRespuesta
      [] ~ Falla(l) /\ EsNuevo(l) -> [tipo |-> 1, fechas |-> "nuevos"]
      [] ~ Falla(l) /\ ~ EsNuevo(l) /\ EsNoNivelado(l) ->
             [tipo |-> 3, fechas |-> FechasAntiguo(l)]
      [] ~ Falla(l) /\ ~ EsNuevo(l) /\ ~ EsNoNivelado(l) ->
             [tipo |-> 2, fechas |-> "antiguos"]

Answer == /\ pendientes = {} /\ leido # NadaLeido
          /\ respuesta' = Clasifica(leido)
          /\ atrasado' = (atrasado \/ respuesta'.tipo = 3)
          /\ leido' = NadaLeido
          /\ UNCHANGED <<academia, pendientes, conHistoria>>

Reading == ReadPensum \/ ReadAsignaturas \/ ReadNumero \/ ReadPeriodo \/ ReadFails
StudentNext == Academy \/ Ask \/ Reading \/ Answer

StudentSpec == StudentInit /\ [][StudentNext]_studentVars

-----------------------------------------------------------------------------
(* Enrolments, subjects, reads and answers keep their types, and an answer *)
(* its dates.                                                              *)
StudentTypeOK ==
    /\ matriculas \in Seq(Matricula) /\ Len(matriculas) <= MaxMatriculas
    /\ filas \subseteq Fila
    /\ {pensum, periodo, fechasPropias, atrasado, conHistoria} \subseteq BOOLEAN
    /\ pendientes \subseteq Lecturas
    /\ leido \in [pensum : BOOLEAN, filas : SUBSET Fila, numero : 0 .. MaxMatriculas,
                  periodo : BOOLEAN, propias : BOOLEAN]
    /\ respuesta \in {SinRespuesta, [tipo |-> 1, fechas |-> "nuevos"],
                      [tipo |-> 2, fechas |-> "antiguos"],
                      [tipo |-> 3, fechas |-> "antiguos"], [tipo |-> 3, fechas |-> "programa"]}

(* Whatever changes between the reads: nobody enrols with the dates of the *)
(* new who had a result in a later enrolment when his subjects were read.  *)
NuevoSinHistoria == StudentTypeOK /\ (respuesta.tipo = 1 => ~ conHistoria)

(* Whatever he drops or cancels afterwards: who was once told that he is   *)
(* behind is not told by a later call that he is up to date.  (A call that *)
(* began before that answer may have read what he was then.)               *)
AtrasoNoSeBorra == atrasado => respuesta.tipo # 2
=============================================================================
