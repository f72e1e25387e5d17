-------------------------- MODULE RecurrentSpecialist --------------------------
(***************************************************************************)
(* The bounded recurrent specialist of src/mnel/recurrent_specialist.py:   *)
(* nearest-centroid classes over four integer lanes, a query that is       *)
(* refined towards its class for a bounded number of iterations, and       *)
(* thresholds set by calibration.  The artifact is immutable, so that a    *)
(* model is a record and its identity is its content.                      *)
(***************************************************************************)
EXTENDS Integers, FiniteSets, FiniteSetsExt

Lanes == 1 .. 4
Vector == [Lanes -> -1000 .. 1000]
OnLanes(Value(_)) == <<Value(1), Value(2), Value(3), Value(4)>>
Zero == <<0, 0, 0, 0>>

\* Classes are numbered in the order of their labels; 0 is no class.
ABSTAIN == 0

\* OperatingEnvelope: what training gives every model; calibration replaces the thresholds.
MaxIterations == 4
ConvergenceDelta == 2
Envelope == [min_confidence |-> 600, max_distance |-> 700]

Abs(n) == IF n < 0 THEN - n ELSE n
AtLeast(low, n) == IF n < low THEN low ELSE n
AtMost(high, n) == IF n > high THEN high ELSE n
Clip(low, high, n) == AtLeast(low, AtMost(high, n))

\* _distance
Distance(l, r) == Abs(l[1] - r[1]) + Abs(l[2] - r[2]) + Abs(l[3] - r[3]) + Abs(l[4] - r[4])

-----------------------------------------------------------------------------
(* Context: what was observed shifts a query a little.                     *)

\* empty_context
EmptyContext(model) ==
  [ provider |-> model.provider, role |-> model.role, generation |-> model.generation,
    observed |-> {}, mean |-> Zero ]

\* context_update.  The identity the update leaves behind binds the content it has then, so that
\* a second update of the context is refused: no context holds more than one observation.
Updated(context, observation) ==
  [context EXCEPT !.observed = {observation.id}, !.mean = observation.features]

\* _encode_query; the student prepares a query the same way.
Encode(query, context) ==
  OnLanes(LAMBDA i : Clip(-1000, 1000, query[i] + context.mean[i] \div 16))

-----------------------------------------------------------------------------
(* Training and calibration.                                               *)

\* The mean of the rows of one class, rounded down lane by lane.
Centroid(rows) ==
  OnLanes(LAMBDA i : MapThenSumSet(LAMBDA r : r.features[i], rows) \div Cardinality(rows))

RecurrentSpecialistModel(provider, role, generation, centroids) ==
  [ provider |-> provider, role |-> role, generation |-> generation, centroids |-> centroids,
    envelope |-> Envelope, calibration |-> {} ]

\* train_recurrent_specialist
TrainedTeacher(provider, role, generation, rows) ==
  RecurrentSpecialistModel(provider, role, generation,
    [label \in {r.label : r \in rows} |-> Centroid({r \in rows : r.label = label})])

\* RecurrentSpecialistModel refuses to exist without a class, with more than sixteen of them, or
\* with a centroid out of range.
Wellformed(model) ==
  /\ Cardinality(DOMAIN model.centroids) \in 1 .. 16
  /\ \A label \in DOMAIN model.centroids : model.centroids[label] \in Vector

Distances(vector, centroids) == [label \in DOMAIN centroids |-> Distance(vector, centroids[label])]

\* The class that comes first by distance and label.
Precedes(d, a, b) == d[a] < d[b] \/ (d[a] = d[b] /\ a <= b)
Nearest(vector, centroids) ==
  LET d == Distances(vector, centroids)
  IN  CHOOSE a \in DOMAIN d : \A b \in DOMAIN d : Precedes(d, a, b)

\* How much nearer the nearest centroid is than the next; the threshold if there is no other.
Margin(vector, centroids, max_distance) ==
  LET d    == Distances(vector, centroids)
      best == Nearest(vector, centroids)
  IN  IF DOMAIN d = {best} THEN max_distance
      ELSE Min({d[b] : b \in DOMAIN d \ {best}}) - d[best]

\* Mutant: the nearest of the rows says how far the known reaches.
ReachToNearest(model, rows) ==
  AtLeast(1, Min({Distance(r.features, model.centroids[r.label]) : r \in rows}) + 80)

\* How far from its centroid a row may be.
Reach(model, rows) ==
  AtLeast(1, Max({Distance(r.features, model.centroids[r.label]) : r \in rows}) + 80)

\* calibrate_recurrent_specialist: another model of the same generation.
CalibratedTeacher(model, rows) ==
  LET reach   == Reach(model, rows)
      margins == {Margin(r.features, model.centroids, model.envelope.max_distance) : r \in rows}
  IN  [model EXCEPT !.calibration = rows,
         !.envelope = [ min_confidence |-> Clip(500, 850, 500 + (Min(margins) * 500) \div reach),
                        max_distance |-> reach ]]

-----------------------------------------------------------------------------
(* Inference.                                                              *)

\* Mutant: a step goes half as far again as the centroid.
RefineBeyond(hidden, target) ==
  OnLanes(LAMBDA i : hidden[i] + ((target[i] - hidden[i]) * 3) \div 2)

\* Three quarters of the way to the centroid, rounded down.
Refine(hidden, target) ==
  OnLanes(LAMBDA i : hidden[i] + ((target[i] - hidden[i]) * 3) \div 4)

\* The state after n iterations at most: it stays once a step is no longer than the delta.
Refined(hidden, centroids) ==
  LET state[n \in 0 .. MaxIterations] ==
        IF n = 0 THEN [hidden |-> hidden, iterations |-> 0, converged |-> FALSE]
        ELSE LET before == state[n - 1]
                 next   == Refine(before.hidden, centroids[Nearest(before.hidden, centroids)])
             IN  IF before.converged THEN before
                 ELSE [ hidden |-> next, iterations |-> n,
                        converged |-> Distance(before.hidden, next) <= ConvergenceDelta ]
  IN  state

\* An abstention keeps the confidence it was left with.
SpecialistDecision(abstains, label, confidence, iterations) ==
  [ decision |-> IF abstains THEN ABSTAIN ELSE label,
    confidence |-> confidence, iterations |-> iterations ]

\* infer() raises on a context of another role or generation; it does not look at the provider.
TeacherAccepts(model, context) == context.role = model.role /\ context.generation = model.generation

\* infer(), with a budget of iterations: novelty is judged by the query, confidence after refining.
TeacherDecision(model, query, context, budget) ==
  LET encoded    == Encode(query, context)
      final      == Refined(encoded, model.centroids)[budget]
      best       == Nearest(final.hidden, model.centroids)
      far        == model.envelope.max_distance
      confidence ==
        Clip(0, 1000, 500 + (Margin(final.hidden, model.centroids, far) * 500) \div AtLeast(1, far))
      ood        == Distance(encoded, model.centroids[Nearest(encoded, model.centroids)]) > far
  IN  SpecialistDecision(ood \/ confidence < model.envelope.min_confidence,
                         best, confidence, final.iterations)
=============================================================================
