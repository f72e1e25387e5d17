---------------------------- MODULE FabricTraining ----------------------------
(***************************************************************************)
(* Sharded training of src/mnel/fabric_execution.py: a controller cuts the *)
(* records of a development view into shards, workers turn shards into     *)
(* partial statistics, and the controller aggregates the partials it got   *)
(* into a model.  Workers may be lost, asked again or asked twice, the     *)
(* controller may plan anew with another seed or shard count, and records  *)
(* keep arriving.  A statistic is a number of rows or pairs and a sum for  *)
(* each column, so the model keeps of it in how many of these sums each    *)
(* record went, and how often, and the order they were added in.           *)
(***************************************************************************)
EXTENDS Naturals, Sequences, FiniteSets

CONSTANTS
  Records,      \* study records
  VisibilityOf, \* the visibility of each
  TypeOf,       \* the record type of each
  Types,        \* record types, and "None" for all of them
  Columns,      \* the columns of the tabular snapshot of each; 0 if it is a pair of states
  Recipes,      \* feature extractor and training code
  Seeds,        \* partition seeds
  Rank,         \* by seed, where the seeded digest of a record sorts it
  MAX_SHARDS,   \* the largest number of shards, and of partials in one aggregation
  MaxPlans,     \* bound: plans made by the controller
  MaxModels     \* bound: models aggregated

Visibilities == {"development", "selection-observed", "transfer-hidden", "future-final"}

Families == {"transition-frequency", "nearest-centroid"}

ASSUME RecordsAssumption ==
  /\ IsFiniteSet(Records)
  /\ VisibilityOf \in [Records -> Visibilities]
  /\ TypeOf \in [Records -> Types]
ASSUME ColumnsAssumption == Columns \in [Records -> Nat]
ASSUME RankAssumption ==
  /\ Rank \in [Seeds -> [Records -> Nat]]
  /\ \A seed \in Seeds : \A r, q \in Records : Rank[seed][r] = Rank[seed][q] => r = q
ASSUME BoundsAssumption == MAX_SHARDS \in Nat \ {0} /\ MaxPlans \in Nat /\ MaxModels \in Nat

VARIABLES
  records,  \* the source records there are so far
  plans,    \* the calls of make_training_shards that returned
  partials, \* the partial artifacts workers returned
  models    \* the models aggregated so far

vars == <<records, plans, partials, models>>

-----------------------------------------------------------------------------
(* Views, shards and partials.                                             *)

\* StudyDataAccess.development(source).records()
Visible(source) == {r \in source : VisibilityOf[r] \in {"development", "selection-observed"}}

\* records(record_type), where record_type may be None.
OfType(view, type) == {r \in view : type \in {TypeOf[r], "None"}}

\* What both make_training_shards and the training of a shard require of their view.
DevelopmentOnly(view) == \A r \in view : VisibilityOf[r] = "development"

\* The dataset of a plan is the whole view it was made from, of which it trains one type.
Plan ==
  [ dataset : SUBSET Records, family : Families, recipe : Recipes, type : Types, seed : Seeds,
    count : 1 .. MAX_SHARDS ]

Source(plan) == OfType(plan.dataset, plan.type)

Position(r, source, seed) == Cardinality({q \in source : Rank[seed][q] < Rank[seed][r]})

\* TrainingShard number index of a plan: every count-th record in the order of the seed.
Shard(plan, index) ==
  [ plan |-> plan, index |-> index,
    records |-> {r \in Source(plan) : Position(r, Source(plan), plan.seed) % plan.count = index} ]

ShardsOf(plan) == {Shard(plan, index) : index \in 0 .. plan.count - 1}

Shards == UNION {ShardsOf(plan) : plan \in plans}

\* A family decodes pairs of states, or rows of one number of columns.
Decodes(family, selected) ==
  IF family = "transition-frequency"
    THEN \A r \in selected : Columns[r] = 0
    ELSE \A r, q \in selected : Columns[r] = Columns[q] /\ Columns[r] > 0

\* Mutant: a partial names the dataset of its worker's view.
PartialOfView(shard, family, selected) ==
  [ shard |-> shard, dataset |-> selected, recipe |-> shard.plan.recipe,
    index |-> shard.index, family |-> family, records |-> selected,
    columns |-> CHOOSE w \in {Columns[r] : r \in selected} : TRUE ]

\* PartialTrainingArtifact: the identities it copies from its shard, the family of the code that
\* made it, the records that went into its statistic, and how many columns that has.
Partial(shard, family, selected) ==
  [ shard |-> shard, dataset |-> shard.plan.dataset, recipe |-> shard.plan.recipe,
    index |-> shard.index, family |-> family, records |-> selected,
    columns |-> CHOOSE w \in {Columns[r] : r \in selected} : TRUE ]

-----------------------------------------------------------------------------
(* Aggregation.                                                            *)

\* Mutant: records are checked as a whole, not shard against shard.
AcceptedOverlapping(parts, family, recipe, dataset, ids) ==
  /\ Len(parts) \in 1 .. MAX_SHARDS
  /\ \A i \in 1 .. Len(parts) :
       parts[i].family = family /\ parts[i].recipe = recipe /\ parts[i].dataset = dataset
  /\ \A i, j \in 1 .. Len(parts) : i # j => parts[i].index # parts[j].index
  /\ UNION {parts[i].records : i \in 1 .. Len(parts)} = ids

\* _validate_partials: one family, dataset and recipe, no shard index twice, no record twice, and
\* together exactly the records the caller names.  Which plan a partial is of is not looked at.
Accepted(parts, family, recipe, dataset, ids) ==
  /\ Len(parts) \in 1 .. MAX_SHARDS
  /\ \A i \in 1 .. Len(parts) :
       parts[i].family = family /\ parts[i].recipe = recipe /\ parts[i].dataset = dataset
  /\ \A i, j \in 1 .. Len(parts) :
       i # j => parts[i].index # parts[j].index /\ parts[i].records \cap parts[j].records = {}
  /\ UNION {parts[i].records : i \in 1 .. Len(parts)} = ids

\* Sums are taken over the columns of the first partial; one that has fewer raises an
\* IndexError, what another has more is left out.
Summable(parts) == \A i \in 1 .. Len(parts) : parts[i].columns >= parts[1].columns

\* What is added up: of each partial the number of rows or pairs, summand 0, and the sums of
\* the first partial's columns.  A record takes part in those that its own partial has.
Summands(parts, r) ==
  { s \in (1 .. Len(parts)) \X (0 .. parts[1].columns) :
      r \in parts[s[1]].records /\ s[2] <= parts[s[1]].columns }

\* Shard indices from the least to the greatest.
InShardOrder(order) == \A i, j \in DOMAIN order : i < j => order[i] < order[j]

\* Counts of transitions are merged by shard index, sums of rows as the arguments come.
MergeOrder(parts, family) ==
  LET given == [i \in 1 .. Len(parts) |-> parts[i].index]
  IN  IF family = "nearest-centroid" THEN given
      ELSE CHOOSE order \in [1 .. Len(parts) -> {given[i] : i \in 1 .. Len(parts)}] : InShardOrder(order)

\* The model, with the sums each record is in and the order in which shards were added.
Model(parts, family, recipe, dataset, ids) ==
  [ family |-> family, recipe |-> recipe, dataset |-> dataset, records |-> ids,
    counted |-> [r \in Records |-> Cardinality(Summands(parts, r))],
    merged |-> MergeOrder(parts, family) ]

-----------------------------------------------------------------------------
Init ==
  /\ records \in SUBSET Records
  /\ plans = {}
  /\ partials = {}
  /\ models = {}

\* Another study record is made.
Arrive(r) ==
  /\ r \notin records
  /\ records' = records \cup {r}
  /\ UNCHANGED <<plans, partials, models>>

\* make_training_shards: of a development-only view, no more shards than records.
MakeShards(family, recipe, type, seed, count) ==
  LET view == Visible(records)
      plan == [ dataset |-> view, family |-> family, recipe |-> recipe, type |-> type,
                seed |-> seed, count |-> count ]
  IN  /\ Cardinality(plans) < MaxPlans
      /\ DevelopmentOnly(view)
      /\ Source(plan) # {}
      /\ count <= Cardinality(Source(plan))
      /\ \A shard \in ShardsOf(plan) : shard.records # {}
      /\ plans' = plans \cup {plan}
      /\ UNCHANGED <<records, partials, models>>

\* transition_training_partial and centroid_training_partial: a worker with a view of its own
\* trains a shard, of whichever family it is, if the view holds exactly the shard's records of
\* the type it is told, and its code can decode them.
Train(shard, family, source, type) ==
  LET selected == OfType(Visible(source), type)
  IN  /\ DevelopmentOnly(Visible(source))
      /\ selected = shard.records
      /\ Decodes(family, selected)
      /\ partials' = partials \cup {Partial(shard, family, selected)}
      /\ UNCHANGED <<records, plans, models>>

\* aggregate_transition_partials and aggregate_centroid_partials, with a calibration that fits,
\* of any partials that came in, in any order and any of them twice, for the records of any plan.
Aggregate(parts, family, plan) ==
  /\ Cardinality(models) < MaxModels
  /\ Accepted(parts, family, plan.recipe, plan.dataset, Source(plan))
  /\ family = "nearest-centroid" => Summable(parts)
  /\ models' = models \cup {Model(parts, family, plan.recipe, plan.dataset, Source(plan))}
  /\ UNCHANGED <<records, plans, partials>>

Next ==
  \/ \E r \in Records : Arrive(r)
  \/ \E family \in Families, recipe \in Recipes, type \in Types, seed \in Seeds,
        count \in 1 .. MAX_SHARDS : MakeShards(family, recipe, type, seed, count)
  \/ \E shard \in Shards, family \in Families, source \in SUBSET records, type \in Types :
       Train(shard, family, source, type)
  \/ \E length \in 1 .. MAX_SHARDS, family \in Families, plan \in plans :
       \E parts \in [1 .. length -> partials] : Aggregate(parts, family, plan)

Spec == Init /\ [][Next]_vars

-----------------------------------------------------------------------------
\* Plans, partials and models keep their shape; only development records are in them, and a
\* partial is one its shard describes.
TypeOK ==
  /\ records \subseteq Records
  /\ plans \subseteq Plan
  /\ \A plan \in plans : DevelopmentOnly(plan.dataset)
  /\ \A p \in partials :
       /\ p.shard \in Shards
       /\ p.family \in Families
       /\ p = Partial(p.shard, p.family, p.records)
       /\ p.records \subseteq p.dataset
  /\ \A m \in models :
       m.counted \in [Records -> Nat] /\ m.records \subseteq m.dataset /\ m.dataset \subseteq Records

\* What a single host counts of the records it trains on: each once in the number of rows
\* and once in the sum of each of its columns.
SingleHost(ids) == [r \in Records |-> IF r \in ids THEN 1 + Columns[r] ELSE 0]

\* "single_host_equivalent" (fabric_execution.py:1551-1556): whatever partials are aggregated, of
\* whichever plans, lost, repeated or in whatever order of the arguments, no record and no
\* column of one is left out or added twice, wherever a single host can train on the model's
\* records at all, that is, where they decode together.  (Where they do not, the sums may be
\* cut to the narrowest table: a single host refuses, and there is nothing to be equivalent to.)
SingleHostEquivalent ==
  \A m \in models : Decodes(m.family, m.records) => m.counted = SingleHost(m.records)

\* The statement of ARCHITECTURE.md:145-148, "the controller ... merges in deterministic shard
\* order", on which the rounding of floating point sums depends.
MergedInShardOrder == \A m \in models : InShardOrder(m.merged)

\* A shard that is trained again, by another worker with another view or with the other family's
\* code, gives the same partial or none: a retry cannot change the model.
RetriesAgree == \A p, q \in partials : p.shard = q.shard => p = q

\* The partials of one plan suffice: once every shard of it is trained by its own family, they are
\* accepted, also if records arrived in between and other plans left partials behind.
PlanSuffices ==
  \A plan \in plans :
    \A parts \in [1 .. plan.count -> partials] :
      (\A i \in 1 .. plan.count : parts[i].shard = Shard(plan, i - 1) /\ parts[i].family = plan.family)
        => Accepted(parts, plan.family, plan.recipe, plan.dataset, Source(plan))
=============================================================================
