----------------------------- MODULE TransferStudy -----------------------------
(***************************************************************************)
(* The distillation study of src/mnel/distillation.py: records are read    *)
(* through a view, the developer's or the evaluator's, grouped, distilled  *)
(* into principles and strategies and indexed for retrieval; transfer      *)
(* predictions are frozen and finalised with a hidden record; strategies   *)
(* are revised on the evidence of evaluations.  Nothing in the code ties   *)
(* the view to what is done with it.  Index and workflow live in the       *)
(* memory of a process; strategies and evaluations are records their       *)
(* holders keep.                                                           *)
(***************************************************************************)
EXTENDS Integers, FiniteSets, Functions

CONSTANTS
  Records,           \* identities of the study records, by which they sort
  VisibilityOf,      \* the visibility of each
  FeatureOf,         \* the feature key of each
  Ideas,             \* triggers and scopes a strategy is distilled with, and memories it declares
  Memories,          \* entries of negative memory
  Queries,           \* what is looked up in the index
  Statuses,          \* the statuses an evaluator gives
  Environments,      \* transfer environments, with the effect predicted for each
  MAX_GROUPS,        \* the largest number of groups
  MAX_GROUP_RECORDS, \* the largest number of records in a group
  MaxStrategies,     \* bound: strategies built
  MaxEvaluations,    \* bound: evaluations returned
  MaxProcesses       \* bound: processes, one after the other

Eligible == {"development", "selection-observed"}

\* A strategy's triggers, the values of its scope, and the negative memory it declares.
Idea == [triggers : SUBSET STRING \ {{}}, scope : SUBSET STRING, declared : SUBSET STRING]
Memory == [id : STRING, contexts : SUBSET STRING]
Query == [trigger : STRING, context : SUBSET STRING, limit : Nat \ {0}, negative : BOOLEAN]

ASSUME RecordsAssumption ==
  /\ IsFiniteSet(Records) /\ Records \subseteq Nat
  /\ VisibilityOf \in [Records -> Eligible \cup {"transfer-hidden", "future-final"}]
  /\ DOMAIN FeatureOf = Records
ASSUME InputsAssumption == Ideas \subseteq Idea /\ Memories \subseteq Memory /\ Queries \subseteq Query
ASSUME StatusesAssumption == Statuses \subseteq {"untested", "failed", "partial", "supported"}
ASSUME BoundsAssumption ==
  /\ MAX_GROUPS \in Nat \ {0} /\ MAX_GROUP_RECORDS \in Nat \ {0}
  /\ MaxStrategies \in Nat /\ MaxEvaluations \in Nat /\ MaxProcesses \in Nat \ {0}

VARIABLES
  process,     \* the number of the process
  strategies,  \* the strategies built so far
  index,       \* RetrievalIndex of the process: what has been added of each class
  predictions, \* TransferWorkflow._predictions of the process
  seen,        \* the hidden records the evaluator has read
  evaluations  \* the evaluations returned, with the process that returned each

vars == <<process, strategies, index, predictions, seen, evaluations>>

-----------------------------------------------------------------------------
(* Views and groups.                                                       *)

\* StudyDataAccess: what get(), require() and records() of a view over the records return.
View(allowed) == {r \in Records : VisibilityOf[r] \in allowed}

Development == View(Eligible)
TransferEvaluator == View({"transfer-hidden"})

First(set, n) == {r \in set : Cardinality({q \in set : q < r}) < n}
Least(set) == CHOOSE r \in set : \A q \in set : r <= q

\* The records of a view with the features of r, as many as fit, in the order of their identities.
Bucket(view, r) == First({q \in view : FeatureOf[q] = FeatureOf[r]}, MAX_GROUP_RECORDS)

\* reference_feature_groups: a group per feature key.  Which are kept of too many depends on a
\* digest: the model keeps those of the first representatives.
Groups(view) ==
  LET buckets == {Bucket(view, r) : r \in view}
      kept    == First({Least(b) : b \in buckets}, MAX_GROUPS)
  IN  {b \in buckets : Least(b) \in kept}

-----------------------------------------------------------------------------
(* Retrieval.                                                              *)

Matches(memory, query) == memory.contexts \cap query.context # {}

\* The memories a retrieval looks at.
Consulted(query) == IF query.negative THEN index.memories ELSE {}

\* DistilledStrategy.conflicts: a strategy that declares memories is in conflict with those only.
Conflicts(s, query) ==
  {m \in Consulted(query) :
     Matches(m, query) /\ (s.idea.declared = {} \/ m.id \in s.idea.declared)}

If(condition, value) == IF condition THEN value ELSE 0

\* Mutant: a conflict costs no more than support earns.
StrategyScoreMild(s, query) ==
  If(query.trigger \in s.idea.triggers, 8) + If(query.context \cap s.idea.scope # {}, 2)
    + If(s.status = "supported", 4) - If(Conflicts(s, query) # {}, 4)

\* Scores in halves, for a source record scores one half.
StrategyScore(s, query) ==
  If(query.trigger \in s.idea.triggers, 8) + If(query.context \cap s.idea.scope # {}, 2)
    + If(s.status = "supported", 4) - If(Conflicts(s, query) # {}, 12)

Hit(class, record, score) == [class |-> class, record |-> record, score |-> score]

\* retrieve() before the cut.  A strategy in conflict stays in, however low it scores.
Hits(query) ==
  {Hit("strategy", s, StrategyScore(s, query)) :
     s \in {s \in index.strategies : StrategyScore(s, query) > 0 \/ Conflicts(s, query) # {}}}
  \cup {Hit("principle", p, 2) : p \in {p \in index.principles : query.context \cap p.scope # {}}}
  \cup {Hit("negative-memory", m, 6) : m \in {m \in Consulted(query) : Matches(m, query)}}
  \cup {Hit("source-record", r, 1) :
          r \in {r \in index.records : FeatureOf[r] \in query.context \cup {query.trigger}}}

\* The classes of hits, by which hits of one score are sorted.
Classes == <<"negative-memory", "principle", "source-record", "strategy">>
Place(class) == CHOOSE i \in 1 .. 4 : Classes[i] = class

Outranks(h, g) ==
  h.score > g.score \/ (h.score = g.score /\ Place(h.class) < Place(g.class))

\* The hits are cut at the limit; ties of score and class are broken by digests, in any order.
Cuts(query) ==
  LET hits == Hits(query)
      kept == IF Cardinality(hits) < query.limit THEN Cardinality(hits) ELSE query.limit
  IN  {cut \in SUBSET hits :
         Cardinality(cut) = kept /\ \A h \in cut, g \in hits \ cut : ~ Outranks(g, h)}

-----------------------------------------------------------------------------
EmptyIndex == [records |-> {}, principles |-> {}, strategies |-> {}, memories |-> {}]

\* build_distilled_strategy: its identity is its content.
Strategy(idea, sources, evidence, status, parents) ==
  [idea |-> idea, sources |-> sources, evidence |-> evidence, status |-> status, parents |-> parents]

Principle(scope, sources) == [scope |-> scope, sources |-> sources]

\* TransferPrediction: the hidden domain is an environment.
Prediction(s, environment) == [strategy |-> s, environment |-> environment]

\* TransferEvaluation, and the process whose workflow returned it.
Evaluation(p, r, status) == [prediction |-> p, outcome |-> r, status |-> status, process |-> process]

Init ==
  /\ process = 1
  /\ strategies = {}
  /\ index = EmptyIndex
  /\ predictions = {}
  /\ seen = {}
  /\ evaluations = {}

\* A group of a view is distilled into a principle and a strategy, and the principle indexed.  Only
\* the identities of the group's records are asked for, not what may be seen of them.
Distil(idea, group) ==
  /\ Cardinality(strategies) < MaxStrategies
  /\ strategies' = strategies \cup {Strategy(idea, group, {}, "untested", {})}
  /\ index' = [index EXCEPT !.principles = @ \cup {Principle(idea.scope, group)}]
  /\ UNCHANGED <<process, predictions, seen, evaluations>>

\* add_source_records: whatever the caller hands over, in any order, up to the first hidden record.
IndexRecords(batch) ==
  /\ \E added \in SUBSET batch :
       /\ IF batch \subseteq Development THEN added = batch ELSE added \subseteq Development
       /\ index' = [index EXCEPT !.records = @ \cup added]
  /\ UNCHANGED <<process, strategies, predictions, seen, evaluations>>

IndexStrategy(s) ==
  /\ index' = [index EXCEPT !.strategies = @ \cup {s}]
  /\ UNCHANGED <<process, strategies, predictions, seen, evaluations>>

IndexMemory(m) ==
  /\ index' = [index EXCEPT !.memories = @ \cup {m}]
  /\ UNCHANGED <<process, strategies, predictions, seen, evaluations>>

\* freeze_prediction: the prediction names the strategy and its sources; the same twice is refused.
Freeze(s, environment) ==
  /\ Prediction(s, environment) \notin predictions
  /\ predictions' = predictions \cup {Prediction(s, environment)}
  /\ UNCHANGED <<process, strategies, index, seen, evaluations>>

\* The evaluator reads a hidden record; nothing keeps it from doing so before a prediction.
ReadHidden(r) ==
  /\ seen' = seen \cup {r}
  /\ UNCHANGED <<process, strategies, index, predictions, evaluations>>

Finalized(p) == \E e \in evaluations : e.prediction = p /\ e.process = process

\* Mutant: an evaluation may be finalised again with another outcome.
FinalizeAgain(p, r, status) ==
  /\ Cardinality(evaluations) < MaxEvaluations
  /\ evaluations' = evaluations \cup {Evaluation(p, r, status)}
  /\ UNCHANGED <<process, strategies, index, predictions, seen>>

\* finalize: a prediction this workflow froze, once.
Finalize(p, r, status) ==
  /\ Cardinality(evaluations) < MaxEvaluations
  /\ ~ Finalized(p)
  /\ evaluations' = evaluations \cup {Evaluation(p, r, status)}
  /\ UNCHANGED <<process, strategies, index, predictions, seen>>

\* reject_same_candidate_repair raises: for the very strategy judged, by a prediction this process
\* knows.  Only tests call it.
Rejects(s, e) == e.prediction \in predictions /\ e.prediction.strategy = s

\* A strategy is revised on the evidence of an evaluation: nothing that builds a strategy asks
\* the workflow, or looks at the evidence it is given.
Revise(s, e) ==
  /\ Cardinality(strategies) < MaxStrategies
  /\ strategies' = strategies \cup
       {Strategy(s.idea, s.sources, s.evidence \cup {e}, e.status, {s})}
  /\ UNCHANGED <<process, index, predictions, seen, evaluations>>

\* A new process has an empty index and an empty workflow.
Restart ==
  /\ process < MaxProcesses
  /\ process' = process + 1
  /\ index' = EmptyIndex
  /\ predictions' = {}
  /\ UNCHANGED <<strategies, seen, evaluations>>

Next ==
  \/ \E idea \in Ideas, view \in {Development, TransferEvaluator} :
       \E group \in Groups(view) : Distil(idea, group)
  \/ \E view \in {Development, TransferEvaluator, Records} : IndexRecords(view)
  \/ \E s \in strategies :
       \/ IndexStrategy(s)
       \/ \E environment \in Environments : Freeze(s, environment)
       \/ \E e \in evaluations : Revise(s, e)
  \/ \E m \in Memories : IndexMemory(m)
  \/ \E r \in TransferEvaluator : ReadHidden(r)
  \/ \E p \in predictions, r \in seen, status \in Statuses : Finalize(p, r, status)
  \/ Restart

Spec == Init /\ [][Next]_vars

-----------------------------------------------------------------------------
\* A prediction gets a second evaluation in another process only, which froze it again.
JudgedOnce ==
  \A e, f \in evaluations : e.prediction = f.prediction /\ e.process = f.process => e = f

Prohibited(h, query) == h.class = "strategy" /\ Conflicts(h.record, query) # {}

\* Where a memory it heeds prohibits it, a strategy takes the place of a strategy in no conflict at
\* the worst odds only: everything speaks for it, its trigger, its scope and support after transfer,
\* and nothing for the other but its scope.  The two then score the same, and digests decide.
ConflictsYield ==
  \A query \in Queries : \A cut \in Cuts(query) : \A h \in cut, g \in Hits(query) \ cut :
    Prohibited(h, query) /\ g.class = "strategy" /\ ~ Prohibited(g, query) =>
      /\ h.record.status = "supported" /\ query.trigger \in h.record.idea.triggers
      /\ g.record.status # "supported" /\ query.trigger \notin g.record.idea.triggers

\* A retrieval that shows a prohibited strategy shows every memory that speaks against it, and
\* every other that matches, however few hits it is limited to.
ProhibitionShown ==
  \A query \in Queries : \A cut \in Cuts(query) : \A h \in cut :
    Prohibited(h, query) =>
      \A m \in Consulted(query) : Matches(m, query) => Hit("negative-memory", m, 6) \in cut

\* "Same-candidate repair from that result is rejected" (docs/THREAT_MODEL.md:77): the workflow, when
\* it is asked, rejects each strategy with an evaluation of its own.  One that froze nothing rejects none.
OwnResultRejected == \A e \in evaluations : Rejects(e.prediction.strategy, e)
=============================================================================
