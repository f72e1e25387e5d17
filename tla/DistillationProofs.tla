-------------------------- MODULE DistillationProofs --------------------------
(***************************************************************************)
(* Distillation.  For any records, ideas, queries and processes, a study   *)
(* judges a prediction once per process, lets a prohibited strategy take   *)
(* the place of another at the worst odds only, and shows with it the      *)
(* memories that speak against it.                                         *)
(***************************************************************************)
EXTENDS TransferStudy, OneStepStudent, WellFoundedInduction, FiniteSetTheorems, TLAPS

(* The study. *)

\* Source records in the index are the developer's, and only hidden records are read or judge; what
\* a strategy was distilled from or revised on is not restricted.
ViewsInv ==
  /\ index.records \subseteq Development
  /\ seen \subseteq TransferEvaluator
  /\ \A p \in predictions : p.strategy \in strategies
  /\ \A e \in evaluations : e.prediction.strategy \in strategies /\ e.outcome \in seen

\* Evidence is evaluations, and the process rejects each strategy with the evaluation of its own
\* that the process itself returned.
WorkflowInv ==
  /\ process \in Nat \ {0}
  /\ \A s \in strategies : s.evidence \subseteq evaluations
  /\ \A e \in evaluations :
       e.process \in 1 .. process /\ (e.process = process => Rejects(e.prediction.strategy, e))

StudyInv == ViewsInv /\ WorkflowInv /\ JudgedOnce

-----------------------------------------------------------------------------
\* A step that keeps workflow and evaluations, and builds strategies of evidence there is.
LEMMA DeveloperStudyInv ==
  ASSUME StudyInv, UNCHANGED <<process, predictions, evaluations>>,
         seen \subseteq seen', seen' \subseteq TransferEvaluator,
         strategies \subseteq strategies',
         \A s \in strategies' \ strategies : s.evidence \subseteq evaluations,
         index'.records \subseteq Development
  PROVE  StudyInv'
<1>1. ViewsInv'
  BY DEF StudyInv, ViewsInv
<1>2. WorkflowInv'
  BY DEF StudyInv, WorkflowInv, Rejects
<1>3. JudgedOnce'
  BY DEF StudyInv, JudgedOnce
<1> QED BY <1>1, <1>2, <1>3 DEF StudyInv

\* A prediction is finalised on a hidden record, once in a process, which knows it then.
LEMMA FinalizeStudyInv ==
  ASSUME StudyInv, NEW p \in predictions, NEW r \in seen, NEW status, Finalize(p, r, status)
  PROVE  StudyInv'
<1> DEFINE new == Evaluation(p, r, status)
<1>1. /\ evaluations' = evaluations \cup {new} /\ ~ Finalized(p)
      /\ UNCHANGED <<process, strategies, index, predictions, seen>>
  BY DEF Finalize
<1>2. new.prediction = p /\ new.outcome = r /\ new.process = process
  BY DEF Evaluation
<1> HIDE DEF new
<1>3. ViewsInv'
  BY <1>1, <1>2 DEF StudyInv, ViewsInv
<1>4. WorkflowInv'
  <2>1. ASSUME NEW e \in evaluations'
        PROVE  /\ e.process \in 1 .. process'
               /\ e.process = process' => e.prediction \in predictions'
    <3>1. CASE e \in evaluations
      BY <1>1, <3>1 DEF StudyInv, WorkflowInv, Rejects
    <3>2. CASE e = new
      <4>1. e.prediction \in predictions'
        BY <1>1, <1>2, <3>2
      <4>2. e.process \in 1 .. process'
        BY <1>1, <1>2, <3>2 DEF StudyInv, WorkflowInv
      <4> QED BY <4>1, <4>2
    <3> QED BY <1>1, <3>1, <3>2
  <2>2. /\ process' \in Nat \ {0}
        /\ \A s \in strategies' : s.evidence \subseteq evaluations'
    BY <1>1 DEF StudyInv, WorkflowInv
  <2> QED BY <2>1, <2>2 DEF WorkflowInv, Rejects
<1>5. JudgedOnce'
  <2> SUFFICES ASSUME NEW e \in evaluations', NEW f \in evaluations',
                      e.prediction = f.prediction, e.process = f.process
               PROVE  e = f
    BY DEF JudgedOnce
  <2>1. \A x \in evaluations : ~ (x.prediction = p /\ x.process = process)
    BY <1>1 DEF Finalized
  <2>2. CASE e \in evaluations /\ f \in evaluations
    BY <2>2 DEF StudyInv, JudgedOnce
  <2>3. CASE e = new \/ f = new
    BY <1>1, <1>2, <2>1, <2>3
  <2> QED BY <1>1, <2>2, <2>3
<1> QED BY <1>3, <1>4, <1>5 DEF StudyInv

\* A new process knows no prediction, and every evaluation is an earlier one's.
LEMMA RestartStudyInv == StudyInv /\ Restart => StudyInv'
<1> SUFFICES ASSUME StudyInv, Restart PROVE StudyInv'
  OBVIOUS
<1>1. /\ process' = process + 1 /\ index' = EmptyIndex /\ predictions' = {}
      /\ UNCHANGED <<strategies, seen, evaluations>>
  BY DEF Restart
<1>2. ViewsInv'
  BY <1>1 DEF StudyInv, ViewsInv, EmptyIndex
<1>3. WorkflowInv'
  BY <1>1 DEF StudyInv, WorkflowInv
<1>4. JudgedOnce'
  BY <1>1 DEF StudyInv, JudgedOnce
<1> QED BY <1>2, <1>3, <1>4 DEF StudyInv

\* Every step of developer, evaluator and operator preserves the invariant.
LEMMA NextStudyInv == StudyInv /\ [Next]_vars => StudyInv'
<1> SUFFICES ASSUME StudyInv, [Next]_vars PROVE StudyInv'
  OBVIOUS
<1>0. seen \subseteq TransferEvaluator /\ index.records \subseteq Development
  BY DEF StudyInv, ViewsInv
<1>1. ASSUME NEW view, IndexRecords(view) PROVE StudyInv'
  <2>1. PICK added : /\ added \subseteq Development
                     /\ index' = [index EXCEPT !.records = @ \cup added]
    BY <1>1 DEF IndexRecords
  <2>2. index'.records \in {index.records, index.records \cup added}
    BY <2>1
  <2> QED BY <1>0, <1>1, <2>1, <2>2, DeveloperStudyInv DEF IndexRecords
<1>2. ASSUME NEW x, IndexStrategy(x) \/ IndexMemory(x) PROVE StudyInv'
  <2>1. CASE IndexStrategy(x)
    BY <1>0, <2>1, DeveloperStudyInv DEF IndexStrategy
  <2>2. CASE IndexMemory(x)
    BY <1>0, <2>2, DeveloperStudyInv DEF IndexMemory
  <2> QED BY <1>2, <2>1, <2>2
<1>3. ASSUME NEW idea, NEW group, Distil(idea, group) PROVE StudyInv'
  <2>1. Strategy(idea, group, {}, "untested", {}).evidence = {}
    BY DEF Strategy
  <2> QED BY <1>0, <1>3, <2>1, DeveloperStudyInv DEF Distil
<1>4. ASSUME NEW s \in strategies, NEW e \in evaluations, Revise(s, e) PROVE StudyInv'
  <2>1. s.evidence \cup {e} \subseteq evaluations
    BY DEF StudyInv, WorkflowInv
  <2>2. Strategy(s.idea, s.sources, s.evidence \cup {e}, e.status, {s}).evidence = s.evidence \cup {e}
    BY DEF Strategy
  <2> QED BY <1>0, <1>4, <2>1, <2>2, DeveloperStudyInv DEF Revise
<1>5. ASSUME NEW s \in strategies, NEW environment, Freeze(s, environment) PROVE StudyInv'
  <2>1. /\ predictions' = predictions \cup {Prediction(s, environment)}
        /\ Prediction(s, environment).strategy = s
        /\ UNCHANGED <<process, strategies, index, seen, evaluations>>
    BY <1>5 DEF Freeze, Prediction
  <2>2. ViewsInv'
    BY <2>1 DEF StudyInv, ViewsInv
  <2>3. WorkflowInv' /\ JudgedOnce'
    BY <2>1 DEF StudyInv, WorkflowInv, JudgedOnce, Rejects
  <2> QED BY <2>2, <2>3 DEF StudyInv
<1>6. ASSUME NEW r \in TransferEvaluator, ReadHidden(r) PROVE StudyInv'
  BY <1>0, <1>6, DeveloperStudyInv DEF ReadHidden
<1>7. CASE UNCHANGED vars
  BY <1>0, <1>7, DeveloperStudyInv DEF vars
<1> QED
  BY <1>1, <1>2, <1>3, <1>4, <1>5, <1>6, <1>7, FinalizeStudyInv, RestartStudyInv DEF Next

\* What every state of a study satisfies: the index ingests no hidden source record, evidence and
\* predictions are of what there is, and a process that judged a strategy rejects its repair from
\* that result when it is asked.  Hidden outcomes in the evidence of a strategy are not excluded.
THEOREM StudyInvariant == Spec => []StudyInv
<1>1. Init => StudyInv
  BY DEF Init, StudyInv, ViewsInv, WorkflowInv, JudgedOnce, EmptyIndex
<1> QED BY <1>1, NextStudyInv, PTL DEF Spec

\* No process finalises a prediction twice (TransferWorkflow.finalize).
THEOREM OneJudgementPerProcess == Spec => []JudgedOnce
<1> QED BY StudyInvariant, PTL DEF StudyInv

-----------------------------------------------------------------------------
\* A strategy in conflict scores two halves at most, and that only when everything speaks for it;
\* one that is not, and is hit, scores two at least, and two only when its scope alone speaks for it.
LEMMA Scores ==
  ASSUME NEW s, NEW query
  PROVE  /\ StrategyScore(s, query) \in Int
         /\ Conflicts(s, query) # {} =>
              /\ StrategyScore(s, query) <= 2
              /\ StrategyScore(s, query) = 2 =>
                   s.status = "supported" /\ query.trigger \in s.idea.triggers
         /\ Conflicts(s, query) = {} /\ StrategyScore(s, query) > 0 =>
              /\ StrategyScore(s, query) >= 2
              /\ StrategyScore(s, query) = 2 =>
                   s.status # "supported" /\ query.trigger \notin s.idea.triggers
BY DEF StrategyScore, If

\* Strategies among the hits have the scores of strategies.
LEMMA StrategyHits ==
  ASSUME NEW query, NEW x \in Hits(query), x.class = "strategy"
  PROVE  /\ x.score = StrategyScore(x.record, query)
         /\ StrategyScore(x.record, query) > 0 \/ Conflicts(x.record, query) # {}
BY DEF Hits, Hit

\* A prohibited strategy takes the place of a clean one only when everything speaks for it and
\* nothing but its scope for the other (RetrievalIndex.retrieve).
THEOREM ProhibitedYield == Spec => []ConflictsYield
<1>1. ConflictsYield
  <2> SUFFICES ASSUME NEW query \in Queries, NEW cut \in Cuts(query), NEW h \in cut,
                      NEW g \in Hits(query) \ cut,
                      Prohibited(h, query), g.class = "strategy", ~ Prohibited(g, query)
               PROVE  /\ h.record.status = "supported" /\ query.trigger \in h.record.idea.triggers
                      /\ g.record.status # "supported" /\ query.trigger \notin g.record.idea.triggers
    BY DEF ConflictsYield
  <2>1. h \in Hits(query) /\ ~ (g.score > h.score)
    BY DEF Cuts, Outranks
  <2>2. /\ h.score = StrategyScore(h.record, query) /\ Conflicts(h.record, query) # {}
        /\ g.score = StrategyScore(g.record, query) /\ Conflicts(g.record, query) = {}
        /\ StrategyScore(g.record, query) > 0
    BY <2>1, StrategyHits DEF Prohibited
  <2>3. /\ StrategyScore(h.record, query) \in Int /\ StrategyScore(h.record, query) <= 2
        /\ StrategyScore(g.record, query) \in Int /\ StrategyScore(g.record, query) >= 2
    BY <2>2, Scores
  <2>4. StrategyScore(h.record, query) = 2 /\ StrategyScore(g.record, query) = 2
    BY <2>1, <2>2, <2>3
  <2> QED BY <2>2, <2>4, Scores
<1> QED BY <1>1, PTL

\* A retrieval that shows a prohibited strategy shows the memories that match, whatever the limit
\* (RetrievalIndex.retrieve): they outrank it.
THEOREM ProhibitionIsShown == Spec => []ProhibitionShown
<1>1. ProhibitionShown
  <2> SUFFICES ASSUME NEW query \in Queries, NEW cut \in Cuts(query), NEW h \in cut,
                      Prohibited(h, query), NEW m \in Consulted(query), Matches(m, query),
                      Hit("negative-memory", m, 6) \notin cut
               PROVE  FALSE
    BY DEF ProhibitionShown
  <2> DEFINE g == Hit("negative-memory", m, 6)
  <2>1. g \in Hits(query) \ cut /\ g.score = 6
    BY DEF Hits, Hit
  <2>2. h \in Hits(query) /\ ~ (g.score > h.score)
    BY <2>1 DEF Cuts, Outranks
  <2>3. h.score = StrategyScore(h.record, query) /\ Conflicts(h.record, query) # {}
    BY <2>2, StrategyHits DEF Prohibited
  <2>4. h.score \in Int /\ h.score <= 2
    BY <2>3, Scores
  <2> QED BY <2>1, <2>2, <2>4
<1> QED BY <1>1, PTL
-----------------------------------------------------------------------------
(* The recurrent specialist: what refining does to distances.              *)

IntVector(v) == v[1] \in Int /\ v[2] \in Int /\ v[3] \in Int /\ v[4] \in Int

\* Lane by lane, v is on the way from h to c.
Between(h, v, c) ==
  \A i \in 1 .. 4 : (h[i] <= v[i] /\ v[i] <= c[i]) \/ (c[i] <= v[i] /\ v[i] <= h[i])

\* The centroids of a model: a class or more, numbered from 1, in integer lanes.
Centroids(centroids) ==
  /\ DOMAIN centroids # {} /\ DOMAIN centroids \subseteq Nat \ {0}
  /\ \A label \in DOMAIN centroids : IntVector(centroids[label])

\* The range written out, for the provers.
LEMMA OneToFour == 1 .. 4 = {1, 2, 3, 4}
OBVIOUS

\* A vector has integer lanes, over the lanes of the program.
LEMMA VectorInts == ASSUME NEW v \in Vector PROVE IntVector(v)
<1> DEFINE range == -1000 .. 1000
<1>1. \A n \in range : n \in Int
  OBVIOUS
<1> HIDE DEF range
<1>2. v \in [1 .. 4 -> range]
  BY DEF Vector, Lanes, range
<1>3. \A i \in 1 .. 4 : v[i] \in Int
  BY <1>1, <1>2
<1> QED BY <1>3, OneToFour DEF IntVector

\* One lane: a step ends between where it started and where it aims.
LEMMA LaneRefined ==
  ASSUME NEW h \in Int, NEW c \in Int
  PROVE  LET v == h + ((c - h) * 3) \div 4
         IN  v \in Int /\ ((h <= v /\ v <= c) \/ (c <= v /\ v <= h))
OBVIOUS

\* A refined lane lies between the lane it was and that of the centroid.
LEMMA RefinedBetween ==
  ASSUME NEW h, NEW c, IntVector(h), IntVector(c)
  PROVE  IntVector(Refine(h, c)) /\ Between(h, Refine(h, c), c)
<1> DEFINE v == Refine(h, c)
<1>1. \A i \in 1 .. 4 : v[i] = h[i] + ((c[i] - h[i]) * 3) \div 4
  BY DEF Refine, OnLanes
<1>2. \A i \in 1 .. 4 : h[i] \in Int /\ c[i] \in Int
  BY OneToFour DEF IntVector
<1>3. \A i \in 1 .. 4 : v[i] \in Int /\ ((h[i] <= v[i] /\ v[i] <= c[i]) \/ (c[i] <= v[i] /\ v[i] <= h[i]))
  BY <1>1, <1>2, LaneRefined
<1>4. IntVector(v)
  BY <1>3, OneToFour DEF IntVector
<1>5. Between(h, v, c)
  BY <1>3 DEF Between
<1> QED BY <1>4, <1>5

\* Distances are natural numbers, obey the triangle inequality, and add up along the way.
LEMMA Distances4 ==
  ASSUME NEW h, NEW v, NEW c, IntVector(h), IntVector(v), IntVector(c)
  PROVE  /\ Distance(h, c) \in Nat
         /\ Distance(h, c) <= Distance(h, v) + Distance(v, c)
         /\ Between(h, v, c) => Distance(h, c) = Distance(h, v) + Distance(v, c)
<1>1. ASSUME NEW x \in Int, NEW y \in Int, NEW z \in Int
      PROVE  /\ Abs(x - z) \in Nat /\ Abs(x - y) \in Nat /\ Abs(y - z) \in Nat
             /\ Abs(x - z) <= Abs(x - y) + Abs(y - z)
             /\ (x <= y /\ y <= z) \/ (z <= y /\ y <= x) => Abs(x - z) = Abs(x - y) + Abs(y - z)
  BY DEF Abs
<1>2. \A i \in 1 .. 4 : h[i] \in Int /\ v[i] \in Int /\ c[i] \in Int
  BY DEF IntVector
<1>3. \A i \in 1 .. 4 :
        /\ Abs(h[i] - c[i]) \in Nat /\ Abs(h[i] - v[i]) \in Nat /\ Abs(v[i] - c[i]) \in Nat
        /\ Abs(h[i] - c[i]) <= Abs(h[i] - v[i]) + Abs(v[i] - c[i])
        /\ Between(h, v, c) => Abs(h[i] - c[i]) = Abs(h[i] - v[i]) + Abs(v[i] - c[i])
  BY <1>1, <1>2 DEF Between
<1> QED BY <1>3 DEF Distance


\* A set of natural numbers with a member has a least one.
LEMMA Smallest ==
  ASSUME NEW S \in SUBSET Nat, S # {}
  PROVE  \E x \in S : \A y \in S : x <= y
<1>1. PICK x \in S : \A y \in S : ~ (<<y, x>> \in OpToRel(<, Nat))
  BY NatLessThanWellFounded, WFMin
<1>2. ASSUME NEW y \in S PROVE x <= y
  <2>1. x \in Nat /\ y \in Nat
    OBVIOUS
  <2>2. ~ (y < x)
    BY <1>1, <2>1 DEF OpToRel
  <2> QED BY <2>1, <2>2
<1> QED BY <1>2

\* The class that comes first by distance and number.
ComesFirst(v, centroids, a) ==
  /\ a \in DOMAIN centroids
  /\ \A b \in DOMAIN centroids :
       \/ Distance(v, centroids[a]) < Distance(v, centroids[b])
       \/ Distance(v, centroids[a]) = Distance(v, centroids[b]) /\ a <= b

\* There is exactly one nearest class, the one the model takes.
LEMMA NearestComesFirst ==
  ASSUME NEW v, IntVector(v), NEW centroids, Centroids(centroids)
  PROVE  /\ ComesFirst(v, centroids, Nearest(v, centroids))
         /\ \A a : ComesFirst(v, centroids, a) => a = Nearest(v, centroids)
<1> DEFINE d(a) == Distance(v, centroids[a])
           D == DOMAIN centroids
           n == Nearest(v, centroids)
<1>1. \A a \in D : a \in Nat /\ d(a) \in Nat
  BY Distances4 DEF Centroids
<1>2. n = CHOOSE a \in D : \A b \in D : d(a) < d(b) \/ (d(a) = d(b) /\ a <= b)
  BY DEF Nearest, Distances, Precedes
<1> HIDE DEF n
<1>3. \E a \in D : \A b \in D : d(a) < d(b) \/ (d(a) = d(b) /\ a <= b)
  <2> DEFINE S == {d(a) : a \in D}
  <2>1. S \in SUBSET Nat /\ S # {}
    BY <1>1 DEF Centroids
  <2>2. PICK x \in S : \A y \in S : x <= y
    BY <2>1, Smallest
  <2> DEFINE T == {a \in D : d(a) = x}
  <2>3. T \in SUBSET Nat /\ T # {}
    BY <1>1
  <2>4. PICK a \in T : \A b \in T : a <= b
    BY <2>3, Smallest
  <2>5. ASSUME NEW b \in D PROVE d(a) < d(b) \/ (d(a) = d(b) /\ a <= b)
    <3>1. d(a) <= d(b) /\ d(a) \in Nat /\ d(b) \in Nat
      BY <1>1, <2>2
    <3>2. d(b) = d(a) => a <= b
      BY <2>4
    <3> HIDE DEF d
    <3> QED BY <3>1, <3>2
  <2> QED BY <2>5
<1>4. ComesFirst(v, centroids, n)
  BY <1>2, <1>3 DEF ComesFirst
<1>5. ASSUME NEW a, ComesFirst(v, centroids, a) PROVE a = n
  <2>1. a \in D /\ n \in D
    BY <1>4, <1>5 DEF ComesFirst
  <2>2. /\ d(a) < d(n) \/ (d(a) = d(n) /\ a <= n)
        /\ d(n) < d(a) \/ (d(n) = d(a) /\ n <= a)
    BY <1>4, <1>5, <2>1 DEF ComesFirst
  <2>3. a \in Nat /\ n \in Nat /\ d(a) \in Nat /\ d(n) \in Nat
    BY <1>1, <2>1
  <2> HIDE DEF d
  <2> QED BY <2>2, <2>3
<1> QED BY <1>4, <1>5 DEF n

\* Another vector is in the same class, and no class is nearer to it, compared with its own,
\* than it was.
Keeps(h, v, centroids) ==
  LET n == Nearest(h, centroids)
  IN  /\ IntVector(v)
      /\ Nearest(v, centroids) = n
      /\ \A b \in DOMAIN centroids :
           Distance(h, centroids[b]) - Distance(h, centroids[n])
             <= Distance(v, centroids[b]) - Distance(v, centroids[n])

\* A step of refinement keeps the class and loses no margin: it goes straight to the centroid,
\* however its lanes are rounded.
LEMMA RefineKeeps ==
  ASSUME NEW h, IntVector(h), NEW centroids, Centroids(centroids)
  PROVE  Keeps(h, Refine(h, centroids[Nearest(h, centroids)]), centroids)
<1> DEFINE n == Nearest(h, centroids)
           c == centroids[n]
           v == Refine(h, c)
           D == DOMAIN centroids
<1>1. ComesFirst(h, centroids, n)
  BY NearestComesFirst
<1>2. IntVector(c) /\ n \in D /\ D \subseteq Nat
  BY <1>1 DEF ComesFirst, Centroids
<1>3. IntVector(v) /\ Between(h, v, c)
  BY <1>2, RefinedBetween
<1> HIDE DEF n, c, v
<1>4. /\ Distance(h, c) = Distance(h, v) + Distance(v, c)
      /\ Distance(h, c) \in Nat /\ Distance(h, v) \in Nat /\ Distance(v, c) \in Nat
  BY <1>2, <1>3, Distances4
<1>5. ASSUME NEW b \in D
      PROVE  /\ Distance(h, centroids[b]) \in Nat /\ Distance(v, centroids[b]) \in Nat
             /\ Distance(h, centroids[b]) <= Distance(h, v) + Distance(v, centroids[b])
  BY <1>3, Distances4 DEF Centroids
<1>6. \A b \in D : Distance(h, centroids[b]) - Distance(h, c) <= Distance(v, centroids[b]) - Distance(v, c)
  BY <1>4, <1>5
<1>7. ComesFirst(v, centroids, n)
  <2> SUFFICES ASSUME NEW b \in D
               PROVE  \/ Distance(v, c) < Distance(v, centroids[b])
                      \/ Distance(v, c) = Distance(v, centroids[b]) /\ n <= b
    BY <1>2 DEF ComesFirst, c
  <2>1. \/ Distance(h, c) < Distance(h, centroids[b])
        \/ Distance(h, c) = Distance(h, centroids[b]) /\ n <= b
    BY <1>1 DEF ComesFirst, c
  <2> QED BY <1>2, <1>4, <1>5, <1>6, <2>1
<1>8. n = Nearest(v, centroids)
  BY <1>3, <1>7, NearestComesFirst
<1>9. Keeps(h, v, centroids)
  BY <1>3, <1>6, <1>8 DEF Keeps, n, c
<1> QED BY <1>9 DEF v, c, n

\* What keeps the class of what keeps the class keeps the class.
LEMMA KeepsTransitive ==
  ASSUME NEW h, NEW v, NEW u, NEW centroids, Centroids(centroids), IntVector(h),
         Keeps(h, v, centroids), Keeps(v, u, centroids)
  PROVE  Keeps(h, u, centroids)
<1> DEFINE n == Nearest(h, centroids)
<1>1. Nearest(v, centroids) = n /\ Nearest(u, centroids) = n /\ IntVector(v) /\ IntVector(u)
  BY DEF Keeps
<1>2. n \in DOMAIN centroids
  BY NearestComesFirst DEF ComesFirst
<1>3. ASSUME NEW b \in DOMAIN centroids
      PROVE  /\ Distance(h, centroids[b]) \in Nat /\ Distance(v, centroids[b]) \in Nat
             /\ Distance(u, centroids[b]) \in Nat
  BY <1>1, Distances4 DEF Centroids
<1>4. \A b \in DOMAIN centroids :
        /\ Distance(h, centroids[b]) - Distance(h, centroids[n])
             <= Distance(v, centroids[b]) - Distance(v, centroids[n])
        /\ Distance(v, centroids[b]) - Distance(v, centroids[n])
             <= Distance(u, centroids[b]) - Distance(u, centroids[n])
  BY <1>1 DEF Keeps
<1>5. \A b \in DOMAIN centroids :
        Distance(h, centroids[b]) - Distance(h, centroids[n])
          <= Distance(u, centroids[b]) - Distance(u, centroids[n])
  BY <1>2, <1>3, <1>4
<1> QED BY <1>1, <1>5 DEF Keeps

\* A state of the refinement, and the one after it (the body of the loop in infer()).
RefinedOnce(before, centroids, n) ==
  LET next == Refine(before.hidden, centroids[Nearest(before.hidden, centroids)])
  IN  IF before.converged THEN before
      ELSE [ hidden |-> next, iterations |-> n,
             converged |-> Distance(before.hidden, next) <= ConvergenceDelta ]

\* The loop is a function of the number of iterations: four are few enough to write it down.
LEMMA RefinedIsLoop ==
  ASSUME NEW hidden, NEW centroids
  PROVE  /\ Refined(hidden, centroids)[0] = [hidden |-> hidden, iterations |-> 0, converged |-> FALSE]
         /\ \A n \in 1 .. 4 :
              Refined(hidden, centroids)[n] = RefinedOnce(Refined(hidden, centroids)[n - 1], centroids, n)
<1> DEFINE s0 == [hidden |-> hidden, iterations |-> 0, converged |-> FALSE]
           s1 == RefinedOnce(s0, centroids, 1)
           s2 == RefinedOnce(s1, centroids, 2)
           s3 == RefinedOnce(s2, centroids, 3)
           s4 == RefinedOnce(s3, centroids, 4)
           f == [n \in 0 .. 4 |-> IF n = 0 THEN s0 ELSE IF n = 1 THEN s1 ELSE IF n = 2 THEN s2
                                  ELSE IF n = 3 THEN s3 ELSE s4]
           Loop(g) == g = [n \in 0 .. 4 |-> IF n = 0 THEN s0 ELSE RefinedOnce(g[n - 1], centroids, n)]
<1>1. Refined(hidden, centroids) = CHOOSE g : Loop(g)
  BY DEF Refined, MaxIterations, RefinedOnce
<1> HIDE DEF s0
<1>2. Loop(f)
  <2>1. /\ s1 = RefinedOnce(s0, centroids, 1) /\ s2 = RefinedOnce(s1, centroids, 2)
        /\ s3 = RefinedOnce(s2, centroids, 3) /\ s4 = RefinedOnce(s3, centroids, 4)
    OBVIOUS
  <2> HIDE DEF s1, s2, s3, s4
  <2>2. \A n \in 0 .. 4 : f[n] = IF n = 0 THEN s0 ELSE RefinedOnce(f[n - 1], centroids, n)
    BY <2>1
  <2> QED BY <2>2
<1>3. Loop(Refined(hidden, centroids))
  <2> HIDE DEF f, Loop
  <2> QED BY <1>1, <1>2
<1> DEFINE F == Refined(hidden, centroids)
<1>4. F = [n \in 0 .. 4 |-> IF n = 0 THEN s0 ELSE RefinedOnce(F[n - 1], centroids, n)]
  BY <1>3
<1> HIDE DEF F, Loop
<1>5. F[0] = s0 /\ \A n \in 1 .. 4 : F[n] = RefinedOnce(F[n - 1], centroids, n)
  BY <1>4
<1> QED BY <1>5 DEF s0, F

\* Whatever the budget, the loop ends in the class it started in, with no less margin.
LEMMA RefinedKeeps ==
  ASSUME NEW hidden, IntVector(hidden), NEW centroids, Centroids(centroids), NEW budget \in 0 .. 4
  PROVE  Keeps(hidden, Refined(hidden, centroids)[budget].hidden, centroids)
<1> DEFINE F == Refined(hidden, centroids)
           K(n) == Keeps(hidden, F[n].hidden, centroids)
<1>z. F[0] = [hidden |-> hidden, iterations |-> 0, converged |-> FALSE]
  BY RefinedIsLoop
<1>n. \A n \in 1 .. 4 : F[n] = RefinedOnce(F[n - 1], centroids, n)
  BY RefinedIsLoop
<1> HIDE DEF F
<1>0. F[0].hidden = hidden
  BY <1>z
<1>1. K(0)
  <2>1. \A b \in DOMAIN centroids : Distance(hidden, centroids[b]) \in Nat
    BY Distances4 DEF Centroids
  <2>2. Nearest(hidden, centroids) \in DOMAIN centroids
    BY NearestComesFirst DEF ComesFirst
  <2> QED BY <1>0, <2>1, <2>2 DEF Keeps
<1>2. ASSUME NEW n \in 1 .. 4, K(n - 1) PROVE K(n)
  <2> DEFINE before == F[n - 1]
             next == Refine(before.hidden, centroids[Nearest(before.hidden, centroids)])
  <2>1. F[n] = RefinedOnce(before, centroids, n)
    BY <1>n
  <2>2. CASE before.converged
    BY <1>2, <2>1, <2>2 DEF RefinedOnce
  <2>3. CASE ~ before.converged
    <3>1. F[n].hidden = next
      BY <2>1, <2>3 DEF RefinedOnce
    <3>2. IntVector(before.hidden) /\ Keeps(hidden, before.hidden, centroids)
      BY <1>2 DEF Keeps
    <3>3. Keeps(before.hidden, next, centroids)
      BY <3>2, RefineKeeps
    <3> QED BY <3>1, <3>2, <3>3, KeepsTransitive
  <2> QED BY <2>2, <2>3
<1>3. K(1)
  BY <1>1, <1>2
<1>4. K(2)
  BY <1>2, <1>3
<1>5. K(3)
  BY <1>2, <1>4
<1>6. K(4)
  BY <1>2, <1>5
<1> QED BY <1>1, <1>3, <1>4, <1>5, <1>6 DEF F

-----------------------------------------------------------------------------
(* Teachers, observations, students.                                       *)

\* A teacher has the centroids of one class or more, in range, and a threshold.
TeacherTyped(teacher) ==
  /\ teacher = [ provider |-> teacher.provider, role |-> teacher.role,
                 generation |-> teacher.generation, centroids |-> teacher.centroids,
                 envelope |-> teacher.envelope, calibration |-> teacher.calibration ]
  /\ Centroids(teacher.centroids)
  /\ \A label \in DOMAIN teacher.centroids : teacher.centroids[label] \in Vector
  /\ teacher.envelope.max_distance \in Nat \ {0}

\* An observation that was verified proposed what was expected, and that is a class.
ObservationTrue(o) ==
  /\ o.teacher \in teachers /\ o.row \in Rows
  /\ o.status = "verified" => /\ o.decision = o.row.expected /\ o.decision # ABSTAIN
                              /\ o.row.expected \in Nat

\* A student learned from verified observations of its own teacher.
StudentTaught(s) ==
  /\ s = [ teacher |-> s.teacher, training |-> s.training, labels |-> s.labels,
           weights |-> s.weights, center |-> s.center, envelope |-> s.envelope,
           calibration |-> s.calibration ]
  /\ s.training # {} /\ s.training \subseteq observations
  /\ s.teacher \in teachers
  /\ \A o \in s.training : o.teacher = s.teacher /\ o.status = "verified"
  /\ s.labels = {o.row.expected : o \in s.training}
  /\ s.center \in Vector /\ s.weights \in Weights

\* An answer is that of a student there is and of its own teacher, and says who gave it.
AnswerAccounted ==
  answer # << >> =>
    /\ answer.student \in students /\ answer.teacher = answer.student.teacher
    /\ answer.final # answer.proposed => answer.invoked /\ ~ answer.raised
    /\ answer.proposed # ABSTAIN => answer.final \in answer.student.labels

SpecialistInv ==
  /\ IsFiniteSet(teachers)
  /\ \A teacher \in teachers : TeacherTyped(teacher)
  /\ \A o \in observations : ObservationTrue(o)
  /\ \A s \in students : StudentTaught(s)
  /\ AnswerAccounted

\* Preparing a vector leaves it a vector of integers, and in an empty context leaves it alone.
LEMMA EncodeTyped ==
  ASSUME NEW query \in Vector, NEW context, IntVector(context.mean)
  PROVE  IntVector(Encode(query, context)) /\ (context.mean = Zero => Encode(query, context) = query)
<1> DEFINE v == Encode(query, context)
           range == -1000 .. 1000
<1>1. \A i \in 1 .. 4 : query[i] \in range /\ context.mean[i] \in Int
  BY OneToFour DEF Vector, Lanes, IntVector
<1>2. \A x \in range, m \in Int :
        LET y == Clip(-1000, 1000, x + m \div 16)
        IN  y \in Int /\ (m = 0 => y = x)
  BY DEF Clip, AtLeast, AtMost
<1>3. v = << v[1], v[2], v[3], v[4] >>
      /\ \A i \in 1 .. 4 : v[i] = Clip(-1000, 1000, query[i] + context.mean[i] \div 16)
  BY DEF Encode, OnLanes
<1> HIDE DEF v, range
<1>4. \A i \in 1 .. 4 : v[i] \in Int /\ (context.mean[i] = 0 => v[i] = query[i])
  BY <1>1, <1>2, <1>3
<1>5. IntVector(v)
  BY <1>4, OneToFour DEF IntVector
<1>6. context.mean = Zero => \A i \in 1 .. 4 : context.mean[i] = 0
  BY DEF Zero
<1>7. query = << query[1], query[2], query[3], query[4] >>
  BY DEF Vector, Lanes
<1>8. context.mean = Zero => v = query
  BY <1>3, <1>4, <1>6, <1>7
<1> QED BY <1>5, <1>8 DEF v

\* Min and Max of natural numbers are what their names say.
LEMMA MinIs ==
  ASSUME NEW S \in SUBSET Nat, S # {}
  PROVE  Min(S) \in S /\ \A x \in S : Min(S) <= x
BY Smallest DEF Min

\* The library's Max of a bounded set of naturals is in it and above it.
LEMMA MaxIs ==
  ASSUME NEW S, NEW bound \in Nat, S \in SUBSET (0 .. bound), S # {}
  PROVE  Max(S) \in S /\ \A x \in S : x <= Max(S)
<1> DEFINE T == {bound - x : x \in S}
<1>1. T \in SUBSET Nat /\ T # {}
  <2>1. \A x \in S : x \in Nat /\ bound - x \in Nat
    OBVIOUS
  <2> QED BY <2>1
<1>2. PICK y \in T : \A z \in T : y <= z
  BY <1>1, Smallest
<1>3. PICK x \in S : y = bound - x
  OBVIOUS
<1>4. \A z \in S : x >= z
  <2> SUFFICES ASSUME NEW z \in S PROVE x >= z
    OBVIOUS
  <2>1. bound - z \in T /\ x \in Nat /\ z \in Nat
    OBVIOUS
  <2> QED BY <1>2, <1>3, <2>1
<1>5. Max(S) \in S /\ \A z \in S : Max(S) >= z
  BY <1>4 DEF Max
<1>6. \A z \in S : z \in Nat
  OBVIOUS
<1> QED BY <1>5, <1>6

\* Vectors are at most 8000 apart.
LEMMA DistanceBounded ==
  ASSUME NEW v \in Vector, NEW u \in Vector
  PROVE  Distance(v, u) \in Nat /\ Distance(v, u) <= 8000
<1> DEFINE range == -1000 .. 1000
<1>1. \A x \in range, y \in range : Abs(x - y) \in Nat /\ Abs(x - y) <= 2000
  BY DEF Abs
<1>2. \A i \in 1 .. 4 : v[i] \in range /\ u[i] \in range
  <2>1. Vector = [Lanes -> range]
    BY DEF Vector
  <2> HIDE DEF range
  <2>2. \A i \in Lanes : v[i] \in range /\ u[i] \in range
    BY <2>1, Zenon
  <2> QED BY <2>2, Zenon DEF Lanes
<1> HIDE DEF range
<1>3. \A i \in 1 .. 4 : Abs(v[i] - u[i]) \in Nat /\ Abs(v[i] - u[i]) <= 2000
  BY <1>1, <1>2
<1> DEFINE apart(i) == Abs(v[i] - u[i])
<1>4. Distance(v, u) = apart(1) + apart(2) + apart(3) + apart(4)
  BY Zenon DEF Distance
<1>5. \A i \in 1 .. 4 : apart(i) \in Nat /\ apart(i) <= 2000
  BY <1>3
<1> HIDE DEF apart
<1>6. /\ apart(1) \in Nat /\ apart(1) <= 2000 /\ apart(2) \in Nat /\ apart(2) <= 2000
      /\ apart(3) \in Nat /\ apart(3) <= 2000 /\ apart(4) \in Nat /\ apart(4) <= 2000
  BY <1>5
<1> QED BY <1>4, <1>6

\* Calibration finds a reach that is at least one and exceeds the distance of each row.
LEMMA ReachCovers ==
  ASSUME NEW model, TeacherTyped(model), NEW rows \in TeacherRows,
         {r.label : r \in rows} \subseteq DOMAIN model.centroids
  PROVE  /\ Reach(model, rows) \in Nat \ {0}
         /\ \A r \in rows : Distance(r.features, model.centroids[r.label]) < Reach(model, rows)
<1> DEFINE Apart(r) == Distance(r.features, model.centroids[r.label])
           S == {Apart(r) : r \in rows}
<1>1. rows # {} /\ \A r \in rows : r.features \in Vector /\ r.label \in DOMAIN model.centroids
  BY RowsAssumption
<1>2. \A r \in rows : Apart(r) \in Nat /\ Apart(r) <= 8000
  BY <1>1, DistanceBounded DEF TeacherTyped
<1>4. Reach(model, rows) = AtLeast(1, Max(S) + 80)
  BY DEF Reach
<1>5. \E bound \in Nat : \A r \in rows : Apart(r) \in Nat /\ Apart(r) <= bound
  BY <1>2
<1>6. PICK bound \in Nat : \A r \in rows : Apart(r) \in Nat /\ Apart(r) <= bound
  BY <1>5
<1> HIDE DEF Apart
<1>7. S \in SUBSET (0 .. bound) /\ S # {} /\ \A r \in rows : Apart(r) \in S
  BY <1>1, <1>6
<1> HIDE DEF S
<1>8. Max(S) \in S /\ \A x \in S : x <= Max(S)
  BY <1>6, <1>7, MaxIs
<1>9. Max(S) \in Nat
  <2>1. S \subseteq Nat
    BY <1>6, <1>7
  <2> QED BY <1>8, <2>1, Zenon
<1>10. AtLeast(1, Max(S) + 80) = Max(S) + 80
  BY <1>9 DEF AtLeast
<1> QED BY <1>4, <1>6, <1>7, <1>8, <1>9, <1>10 DEF Apart

\* A context gives a vector of integers, and its preparation is that of its mean.
LEMMA ContextMean ==
  ASSUME NEW teacher, NEW context \in Contexts(teacher)
  PROVE  /\ context.mean \in {Zero} \cup {r.features : r \in Noted}
         /\ IntVector(context.mean)
<1> DEFINE empty == EmptyContext(teacher)
<1>1. /\ empty.mean = Zero /\ [empty EXCEPT !.provider = "other"].mean = Zero
      /\ \A r \in Noted : Updated(empty, r).mean = r.features
  BY DEF EmptyContext, Updated
<1>2. context \in {empty, [empty EXCEPT !.provider = "other"]} \cup {Updated(empty, r) : r \in Noted}
  BY DEF Contexts
<1>3. context.mean \in {Zero} \cup {r.features : r \in Noted}
  BY <1>1, <1>2
<1>4. IntVector(Zero)
  BY DEF Zero, IntVector
<1>5. \A r \in Noted : IntVector(r.features)
  BY RowsAssumption, VectorInts
<1> QED BY <1>3, <1>4, <1>5

\* Calibrating a teacher leaves its classes alone and gives it a reach.
LEMMA CalibratedTyped ==
  ASSUME NEW model, TeacherTyped(model), NEW rows \in TeacherRows,
         {r.label : r \in rows} \subseteq DOMAIN model.centroids
  PROVE  /\ TeacherTyped(CalibratedTeacher(model, rows))
         /\ CalibratedTeacher(model, rows).centroids = model.centroids
         /\ CalibratedTeacher(model, rows).calibration = rows
         /\ CalibratedTeacher(model, rows).envelope.max_distance = Reach(model, rows)
<1> DEFINE margins == {Margin(r.features, model.centroids, model.envelope.max_distance) : r \in rows}
           confidence == Clip(500, 850, 500 + (Min(margins) * 500) \div Reach(model, rows))
           new == CalibratedTeacher(model, rows)
<1>1. new = [model EXCEPT !.calibration = rows,
               !.envelope = [min_confidence |-> confidence, max_distance |-> Reach(model, rows)]]
  BY DEF CalibratedTeacher
<1>2. Reach(model, rows) \in Nat \ {0}
  BY ReachCovers
<1> HIDE DEF new, confidence, margins
<1>3. model = [ provider |-> model.provider, role |-> model.role, generation |-> model.generation,
                centroids |-> model.centroids, envelope |-> model.envelope,
                calibration |-> model.calibration ]
  BY DEF TeacherTyped
<1>4. new = [ provider |-> model.provider, role |-> model.role, generation |-> model.generation,
              centroids |-> model.centroids,
              envelope |-> [min_confidence |-> confidence, max_distance |-> Reach(model, rows)],
              calibration |-> rows ]
  BY <1>1, <1>3
<1>5. TeacherTyped(new)
  BY <1>2, <1>4 DEF TeacherTyped
<1> QED BY <1>4, <1>5 DEF new, confidence, margins

\* A teacher that training makes and the code accepts is typed, and not yet calibrated.
LEMMA TrainedTyped ==
  ASSUME NEW generation, NEW rows \in TeacherRows,
         Wellformed(TrainedTeacher(Provider, Role, generation, rows))
  PROVE  /\ TeacherTyped(TrainedTeacher(Provider, Role, generation, rows))
         /\ TrainedTeacher(Provider, Role, generation, rows).calibration = {}
<1> DEFINE labels == {r.label : r \in rows}
           C == [label \in labels |-> Centroid({r \in rows : r.label = label})]
           new == TrainedTeacher(Provider, Role, generation, rows)
<1>1. new = [ provider |-> Provider, role |-> Role, generation |-> generation, centroids |-> C,
              envelope |-> Envelope, calibration |-> {} ]
  BY DEF TrainedTeacher, RecurrentSpecialistModel
<1>2. DOMAIN C # {} /\ DOMAIN C \subseteq Nat \ {0}
  BY RowsAssumption
<1> HIDE DEF C
<1>3. \A label \in DOMAIN C : C[label] \in Vector
  BY <1>1 DEF Wellformed
<1>4. Centroids(C)
  BY <1>2, <1>3, VectorInts DEF Centroids
<1>5. new.envelope.max_distance \in Nat \ {0}
  BY <1>1 DEF Envelope
<1> QED BY <1>1, <1>3, <1>4, <1>5 DEF TeacherTyped

\* What is collected of a teacher is true: verified is what it proposed and somebody expected.
LEMMA CollectedTrue ==
  ASSUME NEW teacher \in teachers, NEW row \in Rows, NEW context
  PROVE  ObservationTrue(Observation(teacher, row, context))
<1> DEFINE d == TeacherDecision(teacher, row.features, context, MaxIterations).decision
           o == Observation(teacher, row, context)
<1>1. o.teacher = teacher /\ o.row = row /\ o.decision = d /\ o.status = Status(row.expected, d)
  BY DEF Observation
<1> HIDE DEF d, o
<1>2. row.expected \in Nat \cup {None}
  BY RowsAssumption
<1>3. Status(row.expected, d) = "verified" => row.expected # None /\ d # ABSTAIN /\ d = row.expected
  <2>1. CASE row.expected = None
    <3>1. Status(row.expected, d) = "unknown"
      BY <2>1, Zenon DEF Status
    <3> QED BY <3>1
  <2>2. CASE row.expected # None /\ d = ABSTAIN
    <3>1. Status(row.expected, d) = "abstention"
      BY <2>2, Zenon DEF Status
    <3> QED BY <3>1
  <2>3. CASE row.expected # None /\ d # ABSTAIN
    <3>1. Status(row.expected, d) = IF d = row.expected THEN "verified" ELSE "rejected-teacher-target"
      BY <2>3, Zenon DEF Status
    <3> QED BY <2>3, <3>1
  <2> QED BY <2>1, <2>2, <2>3
<1>4. ObservationTrue(o)
  BY <1>1, <1>2, <1>3 DEF ObservationTrue
<1> QED BY <1>4 DEF o

\* A student trained on a dataset is taught by the verified observations of one teacher.
LEMMA TrainedTaught ==
  ASSUME SpecialistInv, NEW set \in Datasets, NEW weights \in Weights,
         StudentWellformed(TrainedStudent(set, weights))
  PROVE  /\ StudentTaught(TrainedStudent(set, weights))
         /\ TrainedStudent(set, weights).calibration = {}
<1> DEFINE new == TrainedStudent(set, weights)
           training == Verified(set)
           of == {o.teacher : o \in set}
           one == CHOOSE o \in training : TRUE
<1>1. set \subseteq observations /\ Cardinality(of) = 1 /\ training # {}
  BY DEF Datasets
<1>2. training \subseteq set /\ \A o \in training : o.status = "verified"
  BY DEF Verified
<1>3. new = [ teacher |-> one.teacher, training |-> training,
              labels |-> {o.row.expected : o \in training}, weights |-> weights,
              center |-> new.center, envelope |-> new.envelope, calibration |-> {} ]
  BY DEF TrainedStudent, OneStepStudentModel
<1>4. new.center \in Vector
  BY DEF StudentWellformed
<1> HIDE DEF new, training
<1>5. one \in training
  BY <1>1
<1>6. of \subseteq teachers /\ IsFiniteSet(of)
  <2>1. of \subseteq teachers
    BY <1>1 DEF SpecialistInv, ObservationTrue
  <2> QED BY <2>1, FS_Subset DEF SpecialistInv
<1>7. PICK x : of = {x}
  BY <1>1, <1>6, FS_Singleton
<1>8. \A o \in set : o.teacher = x
  BY <1>7
<1>9. one.teacher = x /\ x \in teachers /\ \A o \in training : o.teacher = x
  BY <1>2, <1>5, <1>6, <1>7, <1>8
<1>10. StudentTaught(new)
  BY <1>1, <1>2, <1>3, <1>4, <1>5, <1>9 DEF StudentTaught
<1> QED BY <1>3, <1>10 DEF new

\* Calibrating a student changes its thresholds and nothing else.
LEMMA CalibratedTaught ==
  ASSUME NEW s \in students, StudentTaught(s), NEW rows
  PROVE  StudentTaught(CalibratedStudent(s, rows))
<1> DEFINE new    == CalibratedStudent(s, rows)
           scores == {Score(s.weights, r.features, r.expected) : r \in {r \in rows : r.expected \in s.labels}}
           known  == {Distance(r.features, s.center) : r \in {r \in rows : r.expected # ABSTAIN}}
           reach  == IF known = {} THEN s.envelope.max_distance ELSE Max(known)
           envelope == [ min_confidence |-> Clip(550, 900, IF scores = {} THEN 700 ELSE Min(scores) - 40),
                         max_distance |-> AtLeast(1, reach + 160) ]
<1>1. new = [s EXCEPT !.calibration = rows, !.envelope = envelope]
  BY Zenon DEF CalibratedStudent, StudentOperatingEnvelope
<1> HIDE DEF new, envelope
<1>3. s = [ teacher |-> s.teacher, training |-> s.training, labels |-> s.labels,
            weights |-> s.weights, center |-> s.center, envelope |-> s.envelope,
            calibration |-> s.calibration ]
  BY DEF StudentTaught
<1>4. new = [ teacher |-> s.teacher, training |-> s.training, labels |-> s.labels,
              weights |-> s.weights, center |-> s.center, envelope |-> envelope,
              calibration |-> rows ]
  BY <1>1, <1>3
<1>5. StudentTaught(new)
  BY <1>4 DEF StudentTaught
<1> QED BY <1>5 DEF new

\* The classes of a student are numbered from one and scored as probabilities: there is a best.
LEMMA BestIs ==
  ASSUME SpecialistInv, NEW s, StudentTaught(s), NEW prepared \in Prepared
  PROVE  /\ ABSTAIN \notin s.labels
         /\ Best(s, prepared) \in s.labels
         /\ \A a \in s.labels : /\ Score(s.weights, prepared, a) \in 0 .. 1000
                                /\ Score(s.weights, prepared, a)
                                     <= Score(s.weights, prepared, Best(s, prepared))
<1> DEFINE f(a) == Score(s.weights, prepared, a)
           L == s.labels
           best == Best(s, prepared)
<1>1. /\ L # {} /\ L \subseteq Nat \ {ABSTAIN}
      /\ L \subseteq {r.expected : r \in Rows}
  <2>1. \A o \in s.training : /\ o.row \in Rows /\ o.row.expected \in Nat
                              /\ o.row.expected # ABSTAIN
    BY DEF StudentTaught, SpecialistInv, ObservationTrue
  <2>2. s.training # {} /\ L = {o.row.expected : o \in s.training}
    BY DEF StudentTaught
  <2> QED BY <2>1, <2>2
<1>2. \A a \in L : f(a) \in 0 .. 1000
  <2>1. s.weights \in Weights
    BY DEF StudentTaught
  <2> HIDE DEF L
  <2> QED BY <1>1, <2>1, ScoreAssumption
<1>3. best = CHOOSE a \in L : \A b \in L : f(a) > f(b) \/ (f(a) = f(b) /\ a <= b)
  BY DEF Best
<1> HIDE DEF best
<1>4. \A a \in L : f(a) \in Nat /\ 1000 - f(a) \in Nat
  <2> HIDE DEF f
  <2> QED BY <1>2
<1> DEFINE S == {1000 - f(a) : a \in L}
<1>5. S \in SUBSET Nat /\ S # {}
  <2> HIDE DEF f
  <2> QED BY <1>1, <1>4
<1>6. PICK x \in S : \A y \in S : x <= y
  BY <1>5, Smallest
<1> DEFINE T == {a \in L : 1000 - f(a) = x}
<1>7. T \in SUBSET Nat /\ T # {}
  BY <1>1
<1>8. PICK a \in T : \A b \in T : a <= b
  BY <1>7, Smallest
<1>9. ASSUME NEW b \in L PROVE f(a) > f(b) \/ (f(a) = f(b) /\ a <= b)
  <2>1. /\ a \in L /\ f(a) \in Nat /\ f(b) \in Nat
        /\ 1000 - f(a) <= 1000 - f(b)
    BY <1>4, <1>6
  <2>2. f(b) = f(a) => a <= b
    BY <1>8
  <2> HIDE DEF f
  <2> QED BY <2>1, <2>2
<1>10. best \in L /\ \A b \in L : f(best) > f(b) \/ (f(best) = f(b) /\ best <= b)
  BY <1>3, <1>9
<1>11. \A b \in L : f(b) <= f(best)
  <2> HIDE DEF f
  <2> QED BY <1>4, <1>10
<1> QED BY <1>1, <1>2, <1>10, <1>11 DEF best

\* A student proposes a class of its own or abstains.
LEMMA ProposesItsOwn ==
  ASSUME SpecialistInv, NEW s, StudentTaught(s), NEW query, NEW context,
         Encode(query, context) \in Prepared
  PROVE  StudentDecision(s, query, context).decision \in s.labels \cup {ABSTAIN}
<1>1. Best(s, Encode(query, context)) \in s.labels
  BY BestIs
<1> QED BY <1>1 DEF StudentDecision, Abstention

\* What a student is asked encodes to something a specialist was prepared for.
LEMMA AskedPrepared ==
  ASSUME NEW teacher, NEW context \in Contexts(teacher), NEW query \in Asked
  PROVE  Encode(query, context) \in Prepared
<1>1. context.mean \in {Zero} \cup {r.features : r \in Noted}
  BY ContextMean
<1>2. Encode(query, context) = Encode(query, [mean |-> context.mean])
  BY DEF Encode, OnLanes
<1> DEFINE means == {Zero} \cup {r.features : r \in Noted}
<1>3. \A mean \in means : Encode(query, [mean |-> mean]) \in Prepared
  <2> DEFINE E(q, mean) == Encode(q, [mean |-> mean])
             all == {E(q, mean) : q \in Asked, mean \in means}
  <2>1. all \subseteq Prepared
    BY DEF Prepared
  <2> HIDE DEF means, E
  <2>2. \A mean \in means : E(query, mean) \in all
    OBVIOUS
  <2> HIDE DEF all
  <2>3. \A mean \in means : E(query, mean) \in Prepared
    BY <2>1, <2>2
  <2> QED BY <2>3 DEF E
<1> HIDE DEF means
<1>4. context.mean \in means
  BY <1>1 DEF means
<1> QED BY <1>2, <1>3, <1>4

\* An answer is accounted for when it is given (infer_with_teacher_fallback).
LEMMA AskAccounted ==
  ASSUME SpecialistInv, NEW s \in students, NEW of, NEW context \in Contexts(of),
         NEW query \in Asked, NEW teacher, LineageCompatible(teacher, s),
         answer' = Fallback(s, teacher, query, context), students' = students
  PROVE  AnswerAccounted'
<1> DEFINE mine == StudentDecision(s, query, context)
           its  == TeacherDecision(teacher, query, context, MaxIterations)
           new  == Fallback(s, teacher, query, context)
<1>1. mine.decision \in s.labels \cup {ABSTAIN}
  BY AskedPrepared, ProposesItsOwn DEF SpecialistInv
<1>2. /\ new.student = s /\ new.teacher = teacher /\ new.proposed = mine.decision
      /\ new.invoked = (mine.decision = ABSTAIN)
      /\ new.raised = (new.invoked /\ ~ TeacherAccepts(teacher, context))
      /\ new.invoked /\ ~ new.raised => new.final = its.decision
      /\ ~ (new.invoked /\ ~ new.raised) => new.final = mine.decision
  BY DEF Fallback
<1> HIDE DEF mine, its, new
<1>3. teacher = s.teacher
  BY DEF LineageCompatible
<1>4. answer' = new
  BY DEF new
<1>5. /\ new.final # new.proposed => new.invoked /\ ~ new.raised
      /\ new.proposed # ABSTAIN => new.final \in s.labels
  BY <1>1, <1>2
<1> QED BY <1>2, <1>3, <1>4, <1>5 DEF AnswerAccounted

\* What holds of teachers, observations, students and the last answer in every state.
THEOREM SpecialistInvariant == StudentSpec => []SpecialistInv
<1>1. StudentInit => SpecialistInv
  BY FS_EmptySet DEF StudentInit, SpecialistInv, AnswerAccounted
<1>2. SpecialistInv /\ [StudentNext]_studentVars => SpecialistInv'
  <2> SUFFICES ASSUME SpecialistInv, [StudentNext]_studentVars PROVE SpecialistInv'
    OBVIOUS
  <2> USE DEF SpecialistInv
  <2>1. ASSUME NEW new, TeacherTyped(new), teachers' = teachers \cup {new},
               UNCHANGED <<observations, students, answer>>
        PROVE  SpecialistInv'
    <3>1. IsFiniteSet(teachers')
      BY <2>1, FS_AddElement
    <3>2. \A o \in observations : ObservationTrue(o)'
      BY <2>1 DEF ObservationTrue
    <3>3. \A s \in students : StudentTaught(s)'
      BY <2>1 DEF StudentTaught
    <3>4. AnswerAccounted'
      BY <2>1 DEF AnswerAccounted
    <3> QED BY <2>1, <3>1, <3>2, <3>3, <3>4
  <2>2. ASSUME NEW new, StudentTaught(new), students' = students \cup {new},
               UNCHANGED <<teachers, observations, answer>>
        PROVE  SpecialistInv'
    <3>1. \A s \in students \cup {new} : StudentTaught(s)'
      BY <2>2 DEF StudentTaught
    <3>2. AnswerAccounted'
      BY <2>2 DEF AnswerAccounted
    <3> QED BY <2>2, <3>1, <3>2 DEF ObservationTrue
  <2>3. ASSUME NEW generation, NEW rows \in TeacherRows, TrainTeacher(generation, rows)
        PROVE  SpecialistInv'
    <3> HIDE DEF SpecialistInv
    <3> QED BY <2>1, <2>3, TrainedTyped DEF TrainTeacher
  <2>4. ASSUME NEW teacher \in teachers, NEW rows \in TeacherRows, CalibrateTeacher(teacher, rows)
        PROVE  SpecialistInv'
    <3>1. TeacherTyped(CalibratedTeacher(teacher, rows))
      <4>1. TeacherTyped(teacher)
        OBVIOUS
      <4> HIDE DEF SpecialistInv
      <4> QED BY <2>4, <4>1, CalibratedTyped DEF CalibrateTeacher
    <3> HIDE DEF SpecialistInv
    <3> QED BY <2>1, <2>4, <3>1 DEF CalibrateTeacher
  <2>5. ASSUME NEW teacher \in teachers, NEW row \in Rows, NEW context, Collect(teacher, row, context)
        PROVE  SpecialistInv'
    <3> DEFINE new == Observation(teacher, row, context)
    <3>1. ObservationTrue(new)
      BY CollectedTrue
    <3>2. observations' = observations \cup {new} /\ UNCHANGED <<teachers, students, answer>>
      BY <2>5 DEF Collect
    <3> HIDE DEF new
    <3>3. \A o \in observations' : ObservationTrue(o)'
      BY <3>1, <3>2 DEF ObservationTrue
    <3>4. \A s \in students : StudentTaught(s)'
      BY <3>2 DEF StudentTaught
    <3>5. AnswerAccounted'
      BY <3>2 DEF AnswerAccounted
    <3> QED BY <3>2, <3>3, <3>4, <3>5
  <2>6. ASSUME NEW set, NEW weights \in Weights, TrainStudent(set, weights)
        PROVE  SpecialistInv'
    <3> HIDE DEF SpecialistInv
    <3> QED BY <2>2, <2>6, TrainedTaught DEF TrainStudent
  <2>7. ASSUME NEW s \in students, NEW rows, CalibrateStudent(s, rows)
        PROVE  SpecialistInv'
    <3>1. StudentTaught(CalibratedStudent(s, rows))
      <4>1. StudentTaught(s)
        OBVIOUS
      <4> HIDE DEF SpecialistInv
      <4> QED BY <4>1, CalibratedTaught
    <3> HIDE DEF SpecialistInv
    <3> QED BY <2>2, <2>7, <3>1 DEF CalibrateStudent
  <2>8. ASSUME NEW s \in students, NEW teacher \in teachers, NEW query \in Asked, NEW of \in teachers,
               NEW context \in Contexts(of), Ask(s, teacher, query, context)
        PROVE  SpecialistInv'
    <3>1. UNCHANGED <<teachers, observations, students>> /\ AnswerAccounted'
      <4> HIDE DEF SpecialistInv
      <4> QED BY <2>8, AskAccounted DEF Ask
    <3> QED BY <3>1 DEF ObservationTrue, StudentTaught
  <2>9. CASE UNCHANGED studentVars
    BY <2>9 DEF studentVars, ObservationTrue, StudentTaught, AnswerAccounted
  <2> HIDE DEF SpecialistInv
  <2> QED BY <2>3, <2>4, <2>5, <2>6, <2>7, <2>8, <2>9 DEF StudentNext
<1> QED BY <1>1, <1>2, PTL DEF StudentSpec

\* Only verified observations of its own teacher teach a student, whichever thresholds are
\* replaced and whoever is asked (TargetStatus, train_one_step_student).
THEOREM OnlyVerifiedTeaches == StudentSpec => []TaughtByVerified
<1>1. SpecialistInv => TaughtByVerified
  <2> SUFFICES ASSUME SpecialistInv,
                      NEW s \in students \cup (IF answer = << >> THEN {} ELSE {answer.student})
               PROVE  /\ s.training # {} /\ s.training \subseteq observations
                      /\ s.teacher \in teachers
                      /\ \A o \in s.training : o.teacher = s.teacher /\ o.decision = o.row.expected
                      /\ ABSTAIN \notin s.labels
    BY Zenon DEF TaughtByVerified
  <2>1. s \in students
    BY DEF SpecialistInv, AnswerAccounted
  <2>2. StudentTaught(s) /\ \A o \in observations : ObservationTrue(o)
    BY <2>1 DEF SpecialistInv
  <2>3. \A o \in s.training : o.decision = o.row.expected /\ o.row.expected # ABSTAIN
    BY <2>2 DEF StudentTaught, ObservationTrue
  <2> QED BY <2>2, <2>3 DEF StudentTaught
<1> QED BY <1>1, SpecialistInvariant, PTL

\* Only the student's own teacher answers for it, and only when it abstains
\* (infer_with_teacher_fallback).
THEOREM OwnTeacherAnswers == StudentSpec => []FallbackToOwnTeacher
<1>1. SpecialistInv => FallbackToOwnTeacher
  <2> SUFFICES ASSUME SpecialistInv, answer # << >>
               PROVE  /\ \A o \in answer.student.training : o.teacher = answer.teacher
                      /\ answer.final # answer.proposed => answer.invoked /\ ~ answer.raised
                      /\ answer.proposed # ABSTAIN => answer.final \in answer.student.labels
    BY DEF FallbackToOwnTeacher
  <2>1. StudentTaught(answer.student)
    BY DEF SpecialistInv, AnswerAccounted
  <2> QED BY <2>1 DEF SpecialistInv, AnswerAccounted, StudentTaught
<1> QED BY <1>1, SpecialistInvariant, PTL

\* The decision of a teacher: the class of the query as it was encoded, or none.
LEMMA DecisionIsNearest ==
  ASSUME NEW teacher, TeacherTyped(teacher), NEW query \in Vector, NEW context,
         IntVector(context.mean), NEW budget \in 0 .. 4
  PROVE  TeacherDecision(teacher, query, context, budget).decision
           \in {ABSTAIN, Nearest(Encode(query, context), teacher.centroids)}
<1> DEFINE encoded == Encode(query, context)
           final == Refined(encoded, teacher.centroids)[budget]
           best == Nearest(final.hidden, teacher.centroids)
           d == TeacherDecision(teacher, query, context, budget).decision
<1>1. d \in {ABSTAIN, best}
  BY DEF TeacherDecision, SpecialistDecision
<1>2. IntVector(encoded)
  BY EncodeTyped
<1>3. Keeps(encoded, final.hidden, teacher.centroids)
  BY <1>2, RefinedKeeps DEF TeacherTyped
<1> HIDE DEF final, d, encoded
<1>4. best = Nearest(encoded, teacher.centroids)
  BY <1>3 DEF Keeps
<1>5. d \in {ABSTAIN, Nearest(encoded, teacher.centroids)}
  BY <1>1, <1>4
<1> QED BY <1>5 DEF d, encoded

\* However long it refines, a teacher answers the class the query was nearest to at first.
THEOREM RefiningKeepsTheClass == StudentSpec => RefinementKeepsClass
<1>1. SpecialistInv' => \A teacher \in teachers' \ teachers : \A query \in Asked, context \in Contexts(teacher) :
        \A budget \in 1 .. MaxIterations :
          TeacherDecision(teacher, query, context, budget).decision
            \in {ABSTAIN, Nearest(Encode(query, context), teacher.centroids)}
  <2> SUFFICES ASSUME SpecialistInv', NEW teacher \in teachers', NEW query \in Asked,
                      NEW context \in Contexts(teacher), NEW budget \in 1 .. 4
               PROVE  TeacherDecision(teacher, query, context, budget).decision
                        \in {ABSTAIN, Nearest(Encode(query, context), teacher.centroids)}
    BY Zenon DEF MaxIterations
  <2>1. TeacherTyped(teacher)
    BY DEF SpecialistInv, TeacherTyped
  <2>2. IntVector(context.mean)
    BY ContextMean
  <2>3. query \in Vector /\ budget \in 0 .. 4
    BY RowsAssumption
  <2> QED BY <2>1, <2>2, <2>3, DecisionIsNearest
<1> QED BY <1>1, SpecialistInvariant, PTL DEF RefinementKeepsClass

\* Dividing keeps the order.
LEMMA DivMonotone ==
  ASSUME NEW a \in Nat, NEW b \in Nat, a <= b, NEW k \in Nat \ {0}
  PROVE  /\ a \div k \in Nat /\ a \div k <= b \div k
         /\ (k * 500) \div k = 500
<1> DEFINE p == a \div k
           q == b \div k
<1>1. p \in Int /\ q \in Int /\ k * p <= a /\ b < k * (q + 1)
  OBVIOUS
<1>2. p \in Nat
  OBVIOUS
<1>3. (k * 500) \div k = 500
  OBVIOUS
<1> HIDE DEF p, q
<1>4. ASSUME q + 1 <= p PROVE FALSE
  <2>1. k * (q + 1) <= k * p
    BY <1>1, <1>4
  <2> QED BY <1>1, <2>1
<1>5. p <= q
  BY <1>1, <1>4
<1> QED BY <1>2, <1>3, <1>5 DEF p, q

\* The margin is a natural number, and does not shrink when the class is kept.
LEMMA MarginKept ==
  ASSUME NEW centroids, Centroids(centroids), NEW h, IntVector(h), NEW v, Keeps(h, v, centroids),
         NEW far \in Nat
  PROVE  /\ Margin(h, centroids, far) \in Nat
         /\ Margin(v, centroids, far) \in Nat
         /\ Margin(h, centroids, far) <= Margin(v, centroids, far)
         /\ DOMAIN centroids = {Nearest(h, centroids)} =>
              Margin(h, centroids, far) = far /\ Margin(v, centroids, far) = far
<1> DEFINE n == Nearest(h, centroids)
           D == DOMAIN centroids
           dh(b) == Distance(h, centroids[b])
           dv(b) == Distance(v, centroids[b])
           Sh == {dh(b) : b \in D \ {n}}
           Sv == {dv(b) : b \in D \ {n}}
<1>1. IntVector(v) /\ Nearest(v, centroids) = n
  BY DEF Keeps
<1>2. ComesFirst(h, centroids, n) /\ ComesFirst(v, centroids, n)
  BY <1>1, NearestComesFirst
<1>3. n \in D /\ \A b \in D : dh(b) \in Nat /\ dv(b) \in Nat
  BY <1>1, <1>2, Distances4 DEF Centroids, ComesFirst
<1>4. \A b \in D : dh(n) <= dh(b) /\ dv(n) <= dv(b)
  BY <1>2, <1>3 DEF ComesFirst
<1>5. \A b \in D : dh(b) - dh(n) <= dv(b) - dv(n)
  BY DEF Keeps
<1>6. /\ Margin(h, centroids, far) = IF D = {n} THEN far ELSE Min(Sh) - dh(n)
      /\ Margin(v, centroids, far) = IF D = {n} THEN far ELSE Min(Sv) - dv(n)
  <2>1. Distances(h, centroids) = [b \in D |-> dh(b)] /\ Distances(v, centroids) = [b \in D |-> dv(b)]
    BY DEF Distances
  <2> DEFINE eh == Distances(h, centroids)
             ev == Distances(v, centroids)
  <2>2. /\ Margin(h, centroids, far) =
             IF DOMAIN eh = {n} THEN far ELSE Min({eh[b] : b \in DOMAIN eh \ {n}}) - eh[n]
        /\ Margin(v, centroids, far) =
             IF DOMAIN ev = {n} THEN far ELSE Min({ev[b] : b \in DOMAIN ev \ {n}}) - ev[n]
    BY <1>1 DEF Margin
  <2> HIDE DEF n, dh, dv, eh, ev
  <2>3. DOMAIN eh = D /\ DOMAIN ev = D /\ \A b \in D : eh[b] = dh(b) /\ ev[b] = dv(b)
    BY <2>1 DEF eh, ev
  <2>4. {eh[b] : b \in DOMAIN eh \ {n}} = Sh /\ {ev[b] : b \in DOMAIN ev \ {n}} = Sv
    BY <2>3
  <2>5. eh[n] = dh(n) /\ ev[n] = dv(n)
    BY <1>3, <2>3
  <2> QED BY <2>2, <2>3, <2>4, <2>5
<1> HIDE DEF n, dh, dv
<1>7. CASE D = {n}
  BY <1>6, <1>7 DEF n
<1>8. CASE D # {n}
  <2>1. PICK c \in D : c # n
    BY <1>3, <1>8
  <2>2. Sh \in SUBSET Nat /\ Sh # {} /\ Sv \in SUBSET Nat /\ Sv # {}
    BY <1>3, <2>1
  <2>3. Min(Sh) \in Sh /\ Min(Sv) \in Sv /\ \A x \in Sh : Min(Sh) <= x
    BY <2>2, MinIs
  <2>4. PICK a \in D \ {n} : Min(Sv) = dv(a)
    BY <2>3
  <2>5. PICK b \in D \ {n} : Min(Sh) = dh(b)
    BY <2>3
  <2>6. Min(Sh) <= dh(a)
    BY <2>3, <2>4
  <2> DEFINE mh == Min(Sh)
             mv == Min(Sv)
  <2>7. /\ mh \in Nat /\ mv \in Nat /\ mh <= dh(a) /\ mv = dv(a) /\ dh(n) <= mh /\ dv(n) <= mv
        /\ dh(a) - dh(n) <= dv(a) - dv(n)
    BY <1>3, <1>4, <1>5, <2>4, <2>5, <2>6
  <2>8. /\ Margin(h, centroids, far) = mh - dh(n) /\ Margin(v, centroids, far) = mv - dv(n)
    BY <1>6, <1>8
  <2> HIDE DEF mh, mv, Sh, Sv
  <2> QED BY <1>3, <1>8, <2>4, <2>7, <2>8 DEF n
<1> QED BY <1>7, <1>8

\* A margin that is no smaller gives a confidence that reaches the threshold.
LEMMA ConfidenceReaches ==
  ASSUME NEW m \in Nat, NEW margin \in Nat, NEW reach \in Nat \ {0},
         m <= margin \/ margin = reach
  PROVE  Clip(500, 850, 500 + (m * 500) \div reach)
           <= Clip(0, 1000, 500 + (margin * 500) \div reach)
<1> DEFINE x == (m * 500) \div reach
           y == (margin * 500) \div reach
<1>1. x \in Nat /\ y \in Nat
  BY DivMonotone
<1>2. x <= y \/ y = 500
  BY DivMonotone
<1> HIDE DEF x, y
<1>3. Clip(500, 850, 500 + x) <= Clip(0, 1000, 500 + y)
  BY <1>1, <1>2 DEF Clip, AtLeast, AtMost
<1> QED BY <1>3 DEF x, y

\* A teacher answers every row it was calibrated on, in an empty context.
LEMMA TeacherKnows ==
  ASSUME NEW model, TeacherTyped(model), NEW rows \in TeacherRows,
         {r.label : r \in rows} \subseteq DOMAIN model.centroids,
         NEW r \in rows, NEW budget \in 0 .. 4
  PROVE  LET new == CalibratedTeacher(model, rows)
         IN  TeacherDecision(new, r.features, EmptyContext(new), budget).decision # ABSTAIN
<1> DEFINE new == CalibratedTeacher(model, rows)
           C == model.centroids
           reach == Reach(model, rows)
           q == r.features
           final == Refined(q, C)[budget]
           far == model.envelope.max_distance
           margins == {Margin(s.features, C, far) : s \in rows}
           least == new.envelope.min_confidence
           confidence == Clip(0, 1000, 500 + (Margin(final.hidden, C, reach) * 500) \div AtLeast(1, reach))
           best == Nearest(final.hidden, C)
           ood == Distance(q, C[Nearest(q, C)]) > reach
<1>1. /\ new.centroids = C /\ new.envelope.max_distance = reach
      /\ reach \in Nat \ {0} /\ Distance(q, C[r.label]) < reach
  BY CalibratedTyped, ReachCovers
<1>2. least = Clip(500, 850, 500 + (Min(margins) * 500) \div reach)
  <2>1. model = [ provider |-> model.provider, role |-> model.role, generation |-> model.generation,
                  centroids |-> model.centroids, envelope |-> model.envelope,
                  calibration |-> model.calibration ]
    BY DEF TeacherTyped
  <2> DEFINE threshold == Clip(500, 850, 500 + (Min(margins) * 500) \div reach)
  <2>2. new = [model EXCEPT !.calibration = rows,
                 !.envelope = [min_confidence |-> threshold, max_distance |-> reach]]
    BY DEF CalibratedTeacher
  <2> HIDE DEF threshold, margins, reach, new
  <2>3. new.envelope = [min_confidence |-> threshold, max_distance |-> reach]
    BY <2>1, <2>2
  <2>4. new.envelope.min_confidence = threshold
    BY <2>3
  <2> QED BY <2>4 DEF threshold
<1>3. q \in Vector /\ IntVector(q) /\ r.label \in DOMAIN C /\ Centroids(C) /\ far \in Nat \ {0}
  BY RowsAssumption, VectorInts DEF TeacherTyped
<1>4. Encode(q, EmptyContext(new)) = q
  <2>1. EmptyContext(new).mean = Zero /\ IntVector(Zero)
    BY DEF EmptyContext, IntVector, Zero
  <2> HIDE DEF new, q
  <2> QED BY <1>3, <2>1, EncodeTyped
<1>5. Keeps(q, final.hidden, C)
  BY <1>3, RefinedKeeps
<1>6. ComesFirst(q, C, Nearest(q, C))
  BY <1>3, NearestComesFirst
<1>7. ~ ood
  <2>1. Nearest(q, C) \in DOMAIN C
    BY <1>6 DEF ComesFirst
  <2>2. Distance(q, C[Nearest(q, C)]) \in Nat /\ Distance(q, C[r.label]) \in Nat
    BY <1>3, <2>1, Distances4 DEF Centroids
  <2>3. Distance(q, C[Nearest(q, C)]) <= Distance(q, C[r.label])
    BY <1>3, <1>6, <2>2 DEF ComesFirst
  <2> HIDE DEF reach, q, C
  <2> QED BY <1>1, <2>2, <2>3
<1>8. /\ Margin(final.hidden, C, reach) \in Nat
      /\ Min(margins) \in Nat
      /\ Min(margins) <= Margin(final.hidden, C, reach) \/ Margin(final.hidden, C, reach) = reach
  <2>1. \A s \in rows : Margin(s.features, C, far) \in Nat
    <3> SUFFICES ASSUME NEW s \in rows PROVE Margin(s.features, C, far) \in Nat
      OBVIOUS
    <3>1. s.features \in Vector /\ IntVector(s.features)
      BY RowsAssumption, VectorInts
    <3>2. Keeps(s.features, s.features, C)
      <4>1. Nearest(s.features, C) \in DOMAIN C
        BY <1>3, <3>1, NearestComesFirst DEF ComesFirst
      <4>2. \A b \in DOMAIN C : Distance(s.features, C[b]) \in Nat
        BY <1>3, <3>1, Distances4 DEF Centroids
      <4> QED BY <3>1, <4>1, <4>2 DEF Keeps
    <3> QED BY <1>3, <3>1, <3>2, MarginKept
  <2> HIDE DEF far, q, C, reach, final
  <2>2. margins \in SUBSET Nat /\ margins # {} /\ Margin(q, C, far) \in margins
    BY <2>1 DEF q
  <2>3. Min(margins) \in Nat /\ Min(margins) <= Margin(q, C, far)
    <3> HIDE DEF margins
    <3>1. Min(margins) \in margins /\ \A x \in margins : Min(margins) <= x
      BY <2>2, MinIs
    <3> QED BY <2>2, <3>1
  <2>4. /\ Margin(q, C, far) <= Margin(final.hidden, C, far)
        /\ Margin(final.hidden, C, far) \in Nat
        /\ Margin(final.hidden, C, reach) \in Nat
        /\ DOMAIN C = {Nearest(q, C)} => Margin(final.hidden, C, reach) = reach
    BY <1>1, <1>3, <1>5, MarginKept
  <2>5. DOMAIN C # {Nearest(q, C)} => Margin(final.hidden, C, far) = Margin(final.hidden, C, reach)
    <3>1. Nearest(final.hidden, C) = Nearest(q, C)
      BY <1>5 DEF Keeps
    <3>2. DOMAIN Distances(final.hidden, C) = DOMAIN C
      BY DEF Distances
    <3> QED BY <3>1, <3>2 DEF Margin
  <2> HIDE DEF margins
  <2>6. Margin(q, C, far) \in Nat
    BY <2>2, <2>1 DEF q
  <2> QED BY <2>3, <2>4, <2>5, <2>6
<1>9. AtLeast(1, reach) = reach
  <2> HIDE DEF reach
  <2> QED BY <1>1 DEF AtLeast
<1>10. ~ (confidence < least)
  <2> DEFINE m == Min(margins)
             margin == Margin(final.hidden, C, reach)
  <2> HIDE DEF m, margin, reach
  <2>1. Clip(500, 850, 500 + (m * 500) \div reach) <= Clip(0, 1000, 500 + (margin * 500) \div reach)
    BY <1>1, <1>8, ConfidenceReaches DEF m, margin
  <2>2. Clip(500, 850, 500 + (m * 500) \div reach) \in Int /\ Clip(0, 1000, 500 + (margin * 500) \div reach) \in Int
    <3>1. (m * 500) \div reach \in Int /\ (margin * 500) \div reach \in Int
      BY <1>1, <1>8 DEF m, margin
    <3> QED BY <3>1 DEF Clip, AtLeast, AtMost
  <2> DEFINE a == Clip(500, 850, 500 + (m * 500) \div reach)
             b == Clip(0, 1000, 500 + (margin * 500) \div reach)
  <2>3. least = a /\ confidence = b
    BY <1>2, <1>9 DEF m, margin
  <2> HIDE DEF a, b, least, confidence
  <2> QED BY <2>1, <2>2, <2>3 DEF a, b
<1>11. best # ABSTAIN
  <2>1. best = Nearest(q, C)
    BY <1>5 DEF Keeps
  <2>2. best \in DOMAIN C
    BY <1>6, <2>1 DEF ComesFirst
  <2> QED BY <1>3, <2>2 DEF Centroids, ABSTAIN
<1>12. TeacherDecision(new, q, EmptyContext(new), budget).decision =
         IF ood \/ confidence < least THEN ABSTAIN ELSE best
  <2> HIDE DEF new
  <2> QED BY <1>1, <1>4 DEF TeacherDecision, SpecialistDecision
<1> HIDE DEF new, ood, confidence, least, best, q
<1>13. TeacherDecision(new, q, EmptyContext(new), budget).decision # ABSTAIN
  BY <1>7, <1>10, <1>11, <1>12
<1> QED BY <1>13 DEF new, q

\* A network is put to the rows of every calibration.
LEMMA RowsPrepared ==
  ASSUME NEW rows \in StudentRows, NEW r \in rows
  PROVE  r.features \in Vector /\ r.features \in Prepared
<1> DEFINE all == UNION StudentRows
<1>1. r \in all
  OBVIOUS
<1>2. r.features \in Vector
  BY <1>1, RowsAssumption
<1>3. {t.features : t \in all} \subseteq Prepared
  BY DEF Prepared
<1> HIDE DEF all
<1>4. r.features \in {t.features : t \in all}
  BY <1>1
<1> QED BY <1>2, <1>3, <1>4

\* A student answers every row it was calibrated on, unless it gives the class of the row less
\* than the least confidence there is.
LEMMA StudentKnows ==
  ASSUME SpecialistInv, NEW s \in students, NEW rows \in StudentRows,
         NEW r \in rows, r.expected \in s.labels,
         550 <= Score(s.weights, r.features, r.expected)
  PROVE  LET new == CalibratedStudent(s, rows)
         IN  StudentDecision(new, r.features, EmptyContext(new.teacher)).decision # ABSTAIN
<1> DEFINE new == CalibratedStudent(s, rows)
           q == r.features
           context == EmptyContext(new.teacher)
           scores == {Score(s.weights, t.features, t.expected) : t \in {t \in rows : t.expected \in s.labels}}
           known  == {Distance(t.features, s.center) : t \in {t \in rows : t.expected # ABSTAIN}}
           reach  == IF known = {} THEN s.envelope.max_distance ELSE Max(known)
           threshold == Clip(550, 900, IF scores = {} THEN 700 ELSE Min(scores) - 40)
           best == Best(new, q)
           score == Score(new.weights, q, best)
           its == Score(s.weights, q, r.expected)
<1>1. /\ StudentTaught(s) /\ StudentTaught(new)
  BY CalibratedTaught DEF SpecialistInv
<1>2. /\ new.teacher = s.teacher /\ new.labels = s.labels /\ new.weights = s.weights
      /\ new.center = s.center
      /\ new.envelope.min_confidence = threshold
      /\ new.envelope.max_distance = AtLeast(1, reach + 160)
  <2> DEFINE envelope == [min_confidence |-> threshold, max_distance |-> AtLeast(1, reach + 160)]
  <2>1. new = [s EXCEPT !.calibration = rows, !.envelope = envelope]
    BY Zenon DEF CalibratedStudent, StudentOperatingEnvelope
  <2> HIDE DEF new, envelope
  <2>2. s = [ teacher |-> s.teacher, training |-> s.training, labels |-> s.labels,
              weights |-> s.weights, center |-> s.center, envelope |-> s.envelope,
              calibration |-> s.calibration ]
    BY <1>1 DEF StudentTaught
  <2>3. /\ new.teacher = s.teacher /\ new.labels = s.labels /\ new.weights = s.weights
        /\ new.center = s.center /\ new.envelope = envelope
    BY <2>1, <2>2
  <2> HIDE DEF threshold, reach
  <2>4. /\ envelope.min_confidence = threshold
        /\ envelope.max_distance = AtLeast(1, reach + 160)
    BY DEF envelope
  <2> QED BY <2>3, <2>4
<1>3. \A t \in rows : t.features \in Vector /\ t.features \in Prepared
  BY RowsPrepared
<1>4. \A t \in rows : t.expected \in s.labels => Score(s.weights, t.features, t.expected) \in 0 .. 1000
  BY <1>1, <1>3, BestIs
<1>5. /\ ABSTAIN \notin s.labels /\ best \in s.labels /\ its \in 0 .. 1000 /\ score \in 0 .. 1000
      /\ its <= score
  <2>1. /\ ABSTAIN \notin new.labels /\ best \in new.labels
        /\ \A a \in new.labels : /\ Score(new.weights, q, a) \in 0 .. 1000
                                 /\ Score(new.weights, q, a) <= Score(new.weights, q, best)
    <3>1. q \in Prepared
      BY <1>3
    <3> HIDE DEF new, q
    <3> QED BY <1>1, <3>1, BestIs DEF best
  <2> HIDE DEF new, best
  <2> QED BY <1>2, <2>1
<1>6. ~ (score < threshold)
  <2>1. \A x \in 0 .. 1000 : x \in Nat
    OBVIOUS
  <2>2. scores \in SUBSET Nat /\ its \in scores
    <3> HIDE DEF its
    <3>1. its \in scores
      BY DEF its
    <3> QED BY <1>4, <2>1, <3>1
  <2> HIDE DEF scores
  <2>3. Min(scores) \in Nat /\ Min(scores) <= its
    <3>1. scores # {}
      BY <2>2
    <3>2. Min(scores) \in scores /\ \A x \in scores : Min(scores) <= x
      BY <2>2, <3>1, MinIs
    <3> QED BY <2>2, <3>2
  <2> DEFINE m == Min(scores)
  <2>4. threshold = Clip(550, 900, m - 40)
    <3>1. scores # {}
      BY <2>2
    <3> HIDE DEF its, score, best, known, reach
    <3>2. (IF scores = {} THEN 700 ELSE Min(scores) - 40) = m - 40
      <4> HIDE DEF threshold
      <4> QED BY <3>1
    <3> QED BY <3>2
  <2> HIDE DEF m, threshold
  <2>5. m \in Nat /\ m <= its
    BY <2>3 DEF m
  <2>6. 550 <= its /\ its \in Nat /\ score \in Nat /\ its <= score
    BY <1>5, <2>1
  <2> HIDE DEF its, score
  <2> QED BY <2>4, <2>5, <2>6 DEF Clip, AtLeast, AtMost
<1>7. ~ (Distance(q, new.center) > new.envelope.max_distance)
  <2>1. \A t \in rows : Distance(t.features, s.center) \in Nat /\ Distance(t.features, s.center) <= 8000
    BY <1>1, <1>3, DistanceBounded DEF StudentTaught
  <2>2. Distance(q, s.center) \in known
    BY <1>5
  <2>3. \E bound \in Nat : \A t \in rows :
          Distance(t.features, s.center) \in Nat /\ Distance(t.features, s.center) <= bound
    BY <2>1
  <2>4. PICK bound \in Nat : \A t \in rows :
          Distance(t.features, s.center) \in Nat /\ Distance(t.features, s.center) <= bound
    BY <2>3
  <2>5. known \in SUBSET (0 .. bound) /\ known # {}
    BY <2>2, <2>4
  <2>6. reach = Max(known)
    BY <2>5
  <2> HIDE DEF known, reach, q, new
  <2>7. Max(known) \in known /\ \A x \in known : x <= Max(known)
    BY <2>5, MaxIs
  <2>8. \A x \in known : x \in Nat
    BY <2>4, <2>5
  <2> DEFINE m == Max(known)
             d == Distance(q, s.center)
  <2>9. m \in Nat /\ d \in Nat /\ d <= m /\ reach = m
    BY <2>2, <2>6, <2>7, <2>8
  <2>10. Distance(q, new.center) = d /\ new.envelope.max_distance = AtLeast(1, m + 160)
    BY <1>2, <2>9
  <2> HIDE DEF m, d
  <2> QED BY <2>9, <2>10 DEF AtLeast
<1>8. Encode(q, context) = q
  <2>1. context.mean = Zero /\ IntVector(Zero) /\ q \in Vector
    BY <1>3 DEF EmptyContext, IntVector, Zero
  <2> HIDE DEF context, q
  <2> QED BY <2>1, EncodeTyped
<1>9. StudentAccepts(new, context)
  <2> HIDE DEF new
  <2> QED BY DEF StudentAccepts, EmptyContext
<1> HIDE DEF new, q, context
<1>10. StudentDecision(new, q, context).decision = IF score < threshold THEN ABSTAIN ELSE best
  <2>1. StudentDecision(new, q, context) =
          [ decision |-> IF score < new.envelope.min_confidence THEN ABSTAIN ELSE best,
            confidence |-> score ]
    BY <1>7, <1>8, <1>9 DEF StudentDecision
  <2> HIDE DEF score, best, threshold
  <2> QED BY <1>2, <2>1
<1> HIDE DEF score, threshold, best
<1>11. StudentDecision(new, q, context).decision # ABSTAIN
  BY <1>5, <1>6, <1>10
<1> QED BY <1>11 DEF new, q, context

\* What a model was calibrated on it answers: a teacher whatever the budget, a student unless the
\* class of the row is one it hardly believes in (calibrate_recurrent_specialist,
\* calibrate_one_step_student).
THEOREM CalibratedIsKnown == StudentSpec => CalibrationHolds
<1> DEFINE TeacherKnowing(teacher) ==
             \A r \in teacher.calibration : \A budget \in 1 .. MaxIterations :
               TeacherDecision(teacher, r.features, EmptyContext(teacher), budget).decision # ABSTAIN
           StudentKnowing(s) ==
             \A r \in s.calibration : r.expected \in s.labels =>
               \/ StudentDecision(s, r.features, EmptyContext(s.teacher)).decision # ABSTAIN
               \/ Score(s.weights, r.features, r.expected) < 550
           A == /\ \A teacher \in teachers' \ teachers : TeacherKnowing(teacher)
                /\ \A s \in students' \ students : StudentKnowing(s)
<1>1. ASSUME SpecialistInv, SpecialistInv', [StudentNext]_studentVars PROVE A
  <2>1. ASSUME NEW generation, NEW rows \in TeacherRows, TrainTeacher(generation, rows)
        PROVE  A
    <3> DEFINE new == TrainedTeacher(Provider, Role, generation, rows)
    <3>1. teachers' = teachers \cup {new} /\ students' = students /\ new.calibration = {}
      BY <2>1, TrainedTyped DEF TrainTeacher
    <3> HIDE DEF new
    <3> QED BY <3>1
  <2>2. ASSUME NEW teacher \in teachers, NEW rows \in TeacherRows, CalibrateTeacher(teacher, rows)
        PROVE  A
    <3> DEFINE new == CalibratedTeacher(teacher, rows)
    <3>1. TeacherTyped(teacher) /\ {r.label : r \in rows} \subseteq DOMAIN teacher.centroids
      BY <1>1, <2>2 DEF SpecialistInv, CalibrateTeacher
    <3>2. new.calibration = rows
      BY <3>1, CalibratedTyped
    <3>3. \A r \in rows : \A budget \in 0 .. 4 :
            TeacherDecision(new, r.features, EmptyContext(new), budget).decision # ABSTAIN
      BY <3>1, TeacherKnows
    <3>4. teachers' = teachers \cup {new} /\ students' = students
      BY <2>2 DEF CalibrateTeacher
    <3>5. 1 .. MaxIterations \subseteq 0 .. 4
      BY DEF MaxIterations
    <3> HIDE DEF new
    <3>6. TeacherKnowing(new)
      BY <3>2, <3>3, <3>5, Zenon
    <3> HIDE DEF TeacherKnowing
    <3> QED BY <3>4, <3>6
  <2>3. ASSUME NEW set, NEW weights \in Weights, TrainStudent(set, weights)
        PROVE  A
    <3> DEFINE new == TrainedStudent(set, weights)
    <3>1. students' = students \cup {new} /\ teachers' = teachers /\ new.calibration = {}
      BY <1>1, <2>3, TrainedTaught DEF TrainStudent
    <3> HIDE DEF new
    <3> QED BY <3>1
  <2>4. ASSUME NEW s \in students, NEW rows \in StudentRows, CalibrateStudent(s, rows)
        PROVE  A
    <3> DEFINE new == CalibratedStudent(s, rows)
    <3>1. students' = students \cup {new} /\ teachers' = teachers
      BY <2>4 DEF CalibrateStudent
    <3>2. StudentTaught(s)
      BY <1>1 DEF SpecialistInv
    <3>3. new.calibration = rows /\ new.labels = s.labels /\ new.weights = s.weights
      <4>1. \E envelope : new = [s EXCEPT !.calibration = rows, !.envelope = envelope]
        <5> DEFINE scores == {Score(s.weights, t.features, t.expected) : t \in {t \in rows : t.expected \in s.labels}}
                   known  == {Distance(t.features, s.center) : t \in {t \in rows : t.expected # ABSTAIN}}
                   reach  == IF known = {} THEN s.envelope.max_distance ELSE Max(known)
                   threshold == Clip(550, 900, IF scores = {} THEN 700 ELSE Min(scores) - 40)
                   envelope == [min_confidence |-> threshold, max_distance |-> AtLeast(1, reach + 160)]
        <5>1. new = [s EXCEPT !.calibration = rows, !.envelope = envelope]
          BY Zenon DEF CalibratedStudent, StudentOperatingEnvelope
        <5> HIDE DEF new, envelope
        <5> QED BY <5>1
      <4>2. PICK envelope : new = [s EXCEPT !.calibration = rows, !.envelope = envelope]
        BY <4>1
      <4>3. s = [ teacher |-> s.teacher, training |-> s.training, labels |-> s.labels,
                  weights |-> s.weights, center |-> s.center, envelope |-> s.envelope,
                  calibration |-> s.calibration ]
        BY <3>2 DEF StudentTaught
      <4> HIDE DEF new
      <4> QED BY <4>2, <4>3
    <3>4. \A r \in rows : r.expected \in s.labels /\ 550 <= Score(s.weights, r.features, r.expected) =>
            StudentDecision(new, r.features, EmptyContext(new.teacher)).decision # ABSTAIN
      BY <1>1, StudentKnows
    <3>5. \A r \in rows : r.expected \in s.labels =>
            \/ 550 <= Score(s.weights, r.features, r.expected)
            \/ Score(s.weights, r.features, r.expected) < 550
      <4>1. \A r \in rows : r.features \in Prepared
        BY RowsPrepared
      <4>2. \A r \in rows : r.expected \in s.labels => Score(s.weights, r.features, r.expected) \in 0 .. 1000
        BY <1>1, <3>2, <4>1, BestIs
      <4> QED BY <4>2
    <3> HIDE DEF new
    <3>6. StudentKnowing(new)
      BY <3>3, <3>4, <3>5, Zenon
    <3> HIDE DEF StudentKnowing
    <3> QED BY <3>1, <3>6
  <2>5. ASSUME UNCHANGED <<teachers, students>> PROVE A
    BY <2>5
  <2>6. ASSUME NEW teacher, NEW row, NEW context, Collect(teacher, row, context) PROVE A
    BY <2>5, <2>6 DEF Collect
  <2>7. ASSUME NEW s, NEW teacher, NEW query, NEW context, Ask(s, teacher, query, context) PROVE A
    BY <2>5, <2>7 DEF Ask
  <2>8. CASE UNCHANGED studentVars
    BY <2>5, <2>8 DEF studentVars
  <2> HIDE DEF A
  <2> QED BY <1>1, <2>1, <2>2, <2>3, <2>4, <2>6, <2>7, <2>8, Zenon DEF StudentNext
<1> QED BY <1>1, SpecialistInvariant, PTL DEF CalibrationHolds, StudentSpec
=============================================================================
