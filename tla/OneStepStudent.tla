----------------------------- MODULE OneStepStudent -----------------------------
(***************************************************************************)
(* The one-step student of src/mnel/one_step_specialist.py: observations   *)
(* of a recurrent teacher are retained with an independent target, a small *)
(* network is trained on those that were verified, calibrated, and asked   *)
(* before its teacher, which answers only when the student abstains.       *)
(* Models and observations are immutable records, named by their content.  *)
(***************************************************************************)
EXTENDS RecurrentSpecialist

CONSTANTS
  TeacherRows,      \* sets of labelled rows a teacher is trained or calibrated with
  Rows,             \* rows put to teachers: id, features and the target expected, if any
  Noted,            \* those of them that go into a context
  StudentRows,      \* sets of such rows that students are calibrated with
  Asked,            \* vectors asked
  Weights,          \* networks that training may end in
  Score(_, _, _),   \* what a network gives a class of a prepared vector, of a thousand
  Generations,      \* generations of teachers
  MaxTeachers,      \* bound: teacher models
  MaxObservations,  \* bound: observations retained
  MaxStudents       \* bound: student models

\* A target nobody gave.
None == -1

ASSUME RowsAssumption ==
  /\ \A rows \in TeacherRows : rows # {} /\ \A r \in rows : r.label \in Nat \ {0} /\ r.features \in Vector
  /\ \A r \in Rows \cup UNION StudentRows : r.features \in Vector /\ r.expected \in Nat \cup {None}
  /\ Noted \subseteq Rows
  /\ Asked \subseteq Vector /\ {} \notin StudentRows
\* The vectors a network is put to: queries prepared in an empty context or in one with a row
\* noted, and rows of a calibration.
Prepared ==
  {Encode(query, [mean |-> mean]) : query \in Asked, mean \in {Zero} \cup {r.features : r \in Noted}}
  \cup {r.features : r \in UNION StudentRows}

\* What a network gives a class is a probability, of a thousand.
ASSUME ScoreAssumption ==
  \A weights \in Weights, prepared \in Prepared, label \in {r.expected : r \in Rows} :
    Score(weights, prepared, label) \in 0 .. 1000
ASSUME StudentBounds == MaxTeachers \in Nat /\ MaxObservations \in Nat /\ MaxStudents \in Nat

Provider == "recurrent"
Role == "role"

VARIABLES
  teachers,      \* the teacher models
  observations,  \* the TeacherObservations retained
  students,      \* the student models
  answer         \* the last FallbackResult, none at first

studentVars == <<teachers, observations, students, answer>>

-----------------------------------------------------------------------------
(* Teacher observations.                                                   *)

\* Mutant: a target the teacher did not propose verifies it all the same.
StatusTrusting(target, decision) ==
  CASE target = None -> "unknown"
    [] target # None /\ decision = ABSTAIN -> "abstention"
    [] target = ABSTAIN /\ decision # ABSTAIN -> "rejected-teacher-target"
    [] OTHER -> "verified"

\* TargetStatus: verified when the teacher proposes the independent target.
Status(target, decision) ==
  CASE target = None -> "unknown"
    [] target # None /\ decision = ABSTAIN -> "abstention"
    [] target # None /\ decision # ABSTAIN ->
         IF decision = target THEN "verified" ELSE "rejected-teacher-target"

\* collect_teacher_observation's record: the teacher by its model identity.
Observation(teacher, row, context) ==
  LET result == TeacherDecision(teacher, row.features, context, MaxIterations)
  IN  [ teacher |-> teacher, row |-> row, context |-> context,
        decision |-> result.decision, confidence |-> result.confidence,
        status |-> Status(row.expected, result.decision) ]

\* The contexts a caller has for a teacher: an empty one, one with an observation, or one that
\* another provider's model made.
Contexts(teacher) ==
  LET empty == EmptyContext(teacher)
  IN  {empty, [empty EXCEPT !.provider = "other"]} \cup {Updated(empty, r) : r \in Noted}

-----------------------------------------------------------------------------
(* Students.                                                               *)

Verified(set) == {o \in set : o.status = "verified"}
Mean(set) == OnLanes(LAMBDA i : MapThenSumSet(LAMBDA o : o.row.features[i], set) \div Cardinality(set))

\* DistillationDataset: observations of one teacher model, of which some are verified.
Datasets ==
  {set \in SUBSET observations : Cardinality({o.teacher : o \in set}) = 1 /\ Verified(set) # {}}

StudentOperatingEnvelope(confidence, distance) ==
  [min_confidence |-> confidence, max_distance |-> distance]

\* The student names its teacher and the rows it learned from.
OneStepStudentModel(training, weights, center, envelope) ==
  [ teacher |-> (CHOOSE o \in training : TRUE).teacher, training |-> training,
    labels |-> {o.row.expected : o \in training}, weights |-> weights, center |-> center,
    envelope |-> envelope, calibration |-> {} ]

\* OneStepStudentModel refuses to exist without a class, with more than eight of them, or with
\* its center out of range.
StudentWellformed(s) == Cardinality(s.labels) \in 1 .. 8 /\ s.center \in Vector

\* train_one_step_student
TrainedStudent(set, weights) ==
  LET training == Verified(set)
      center   == Mean(training)
      radius   == Max({Distance(o.row.features, center) : o \in training})
  IN  OneStepStudentModel(training, weights, center,
        StudentOperatingEnvelope(700, AtLeast(600, radius + 240)))

\* calibrate_one_step_student; the rows are prepared in the student's own, empty, context.
CalibratedStudent(s, rows) ==
  LET scores == {Score(s.weights, r.features, r.expected) : r \in {r \in rows : r.expected \in s.labels}}
      known  == {Distance(r.features, s.center) : r \in {r \in rows : r.expected # ABSTAIN}}
      reach  == IF known = {} THEN s.envelope.max_distance ELSE Max(known)
  IN  [s EXCEPT !.calibration = rows,
         !.envelope = StudentOperatingEnvelope(
                        Clip(550, 900, IF scores = {} THEN 700 ELSE Min(scores) - 40),
                        AtLeast(1, reach + 160))]

StudentAccepts(s, context) ==
  /\ context.role = s.teacher.role /\ context.generation = s.teacher.generation
  /\ context.provider = s.teacher.provider

\* The class a network scores highest, the first of several.
Best(s, prepared) ==
  CHOOSE a \in s.labels : \A b \in s.labels :
    LET x == Score(s.weights, prepared, a)
        y == Score(s.weights, prepared, b)
    IN  x > y \/ (x = y /\ a <= b)

Abstention == [decision |-> ABSTAIN, confidence |-> 0]

\* OneStepStudentModel.infer: a context it does not accept makes it abstain.
StudentDecision(s, query, context) ==
  LET prepared == Encode(query, context)
      best     == Best(s, prepared)
      score    == Score(s.weights, prepared, best)
  IN  IF ~ StudentAccepts(s, context) \/ Distance(prepared, s.center) > s.envelope.max_distance
        THEN Abstention
      ELSE [ decision |-> IF score < s.envelope.min_confidence THEN ABSTAIN ELSE best,
             confidence |-> score ]

\* Mutant: a teacher of the same generation will do.
LineageByGeneration(teacher, s) ==
  teacher.provider = s.teacher.provider /\ teacher.generation = s.teacher.generation

\* The model, its generation, architecture and envelope are those the student names.
LineageCompatible(teacher, s) == teacher = s.teacher

\* infer_with_teacher_fallback: the teacher may raise, and then the abstention stands.
Fallback(s, teacher, query, context) ==
  LET mine    == StudentDecision(s, query, context)
      invoked == mine.decision = ABSTAIN
      raised  == invoked /\ ~ TeacherAccepts(teacher, context)
      final   == IF invoked /\ ~ raised
                   THEN TeacherDecision(teacher, query, context, MaxIterations) ELSE mine
  IN  [ student |-> s, teacher |-> teacher, query |-> query, context |-> context,
        proposed |-> mine.decision, invoked |-> invoked, raised |-> raised,
        final |-> final.decision ]

-----------------------------------------------------------------------------
StudentInit ==
  /\ teachers = {}
  /\ observations = {}
  /\ students = {}
  /\ answer = << >>

TrainTeacher(generation, rows) ==
  /\ Cardinality(teachers) < MaxTeachers
  /\ Wellformed(TrainedTeacher(Provider, Role, generation, rows))
  /\ teachers' = teachers \cup {TrainedTeacher(Provider, Role, generation, rows)}
  /\ UNCHANGED <<observations, students, answer>>

\* Refused when a row has a label the teacher does not know.
CalibrateTeacher(teacher, rows) ==
  /\ Cardinality(teachers) < MaxTeachers
  /\ {r.label : r \in rows} \subseteq DOMAIN teacher.centroids
  /\ teachers' = teachers \cup {CalibratedTeacher(teacher, rows)}
  /\ UNCHANGED <<observations, students, answer>>

\* The context must be of the teacher's role and generation, or nothing is retained.
Collect(teacher, row, context) ==
  /\ Cardinality(observations) < MaxObservations
  /\ TeacherAccepts(teacher, context)
  /\ observations' = observations \cup {Observation(teacher, row, context)}
  /\ UNCHANGED <<teachers, students, answer>>

\* Refused on what is no dataset, with fewer than two classes to tell apart, and when the model is.
TrainStudent(set, weights) ==
  /\ Cardinality(students) < MaxStudents
  /\ set \in Datasets
  /\ Cardinality({o.row.expected : o \in Verified(set)}) >= 2
  /\ StudentWellformed(TrainedStudent(set, weights))
  /\ students' = students \cup {TrainedStudent(set, weights)}
  /\ UNCHANGED <<teachers, observations, answer>>

CalibrateStudent(s, rows) ==
  /\ Cardinality(students) < MaxStudents
  /\ students' = students \cup {CalibratedStudent(s, rows)}
  /\ UNCHANGED <<teachers, observations, answer>>

\* A teacher that is not the student's own is refused.
Ask(s, teacher, query, context) ==
  /\ LineageCompatible(teacher, s)
  /\ answer' = Fallback(s, teacher, query, context)
  /\ UNCHANGED <<teachers, observations, students>>

StudentNext ==
  \/ \E generation \in Generations, rows \in TeacherRows : TrainTeacher(generation, rows)
  \/ \E teacher \in teachers :
       \/ \E rows \in TeacherRows : CalibrateTeacher(teacher, rows)
       \/ \E row \in Rows : \E context \in Contexts(teacher) : Collect(teacher, row, context)
  \/ \E set \in SUBSET observations, weights \in Weights : TrainStudent(set, weights)
  \/ \E s \in students :
       \/ \E rows \in StudentRows : CalibrateStudent(s, rows)
       \/ \E teacher \in teachers, query \in Asked :
            \E of \in teachers : \E context \in Contexts(of) : Ask(s, teacher, query, context)

StudentSpec == StudentInit /\ [][StudentNext]_studentVars

-----------------------------------------------------------------------------
\* Nothing unverified teaches: every row behind a student, behind its classes and behind an answer
\* of it is an observation retained of the one model the student names, under the thresholds that
\* model still has, on which that model proposed the independent target.
TaughtByVerified ==
  \A s \in students \cup (IF answer = << >> THEN {} ELSE {answer.student}) :
    /\ s.training # {} /\ s.training \subseteq observations
    /\ s.teacher \in teachers
    /\ \A o \in s.training : o.teacher = s.teacher /\ o.decision = o.row.expected
    /\ ABSTAIN \notin s.labels

\* The answer of a student's teacher is that of the very model its rows came from: no model that
\* was calibrated since, and none of another generation, answers in its place.  What neither
\* abstains on is answered as the student proposed, whatever the teacher would have said.
FallbackToOwnTeacher ==
  answer # << >> =>
    /\ \A o \in answer.student.training : o.teacher = answer.teacher
    /\ answer.final # answer.proposed => answer.invoked /\ ~ answer.raised
    /\ answer.proposed # ABSTAIN => answer.final \in answer.student.labels

\* Refining never changes the class: whatever the query, the context and the budget, a teacher
\* that is made and answers gives the class nearest to the query as it was encoded.
RefinementKeepsClass ==
  [][ \A teacher \in teachers' \ teachers : \A query \in Asked, context \in Contexts(teacher) :
        \A budget \in 1 .. MaxIterations :
          TeacherDecision(teacher, query, context, budget).decision
            \in {ABSTAIN, Nearest(Encode(query, context), teacher.centroids)} ]_teachers

\* What a model is calibrated on it knows, in an empty context: a teacher answers every row of
\* its calibration, however little it is refined, and a student abstains on a row of a class of
\* its own only if it gives that class less than the least confidence there is.
CalibrationHolds ==
  [][ /\ \A teacher \in teachers' \ teachers : \A r \in teacher.calibration :
           \A budget \in 1 .. MaxIterations :
             TeacherDecision(teacher, r.features, EmptyContext(teacher), budget).decision # ABSTAIN
      /\ \A s \in students' \ students : \A r \in s.calibration : r.expected \in s.labels =>
           \/ StudentDecision(s, r.features, EmptyContext(s.teacher)).decision # ABSTAIN
           \/ Score(s.weights, r.features, r.expected) < 550
    ]_<<teachers, students>>
=============================================================================
