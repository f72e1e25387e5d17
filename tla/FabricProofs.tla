------------------------------ MODULE FabricProofs ------------------------------
(***************************************************************************)
(* Proofs about distributed training and about the dispatch of workloads,  *)
(* the two halves of src/mnel/fabric_execution.py.                         *)
(*                                                                         *)
(* Training, for any records, widths, plans and workers: a partial's       *)
(* records are its shard's and its columns those of one of them, and the   *)
(* parts of an accepted aggregation are disjoint; so where the records     *)
(* decode together, each is in every sum of exactly one part.              *)
(*                                                                         *)
(* Dispatch, for any workloads, batches and execution records: the jobs    *)
(* still to run are the end of those asked for, and what has been          *)
(* collected counts the replicas of those before them; the cells of a      *)
(* matrix are told apart by their workloads; and the rounds that order a   *)
(* graph put each node once, and after what it depends on.                 *)
(***************************************************************************)
EXTENDS FabricTraining, FabricDispatch, FiniteSetTheorems, TLAPS

-----------------------------------------------------------------------------
(* Distributed training.                                                   *)

PlansTyped ==
  \A plan \in plans :
    /\ plan \in Plan
    /\ DevelopmentOnly(plan.dataset)
    /\ \A shard \in ShardsOf(plan) : shard.records # {} /\ shard.records \subseteq plan.dataset

\* A partial is made of the whole of its shard, by code that decodes it.
PartialsWhole ==
  \A p \in partials :
    /\ p.shard \in Shards
    /\ p.family \in Families
    /\ p = Partial(p.shard, p.family, p.shard.records)
    /\ Decodes(p.family, p.records)

ModelsExact ==
  \A m \in models :
    /\ m.records \subseteq m.dataset
    /\ m.dataset \subseteq Records
    /\ m.counted \in [Records -> Nat]
    /\ Decodes(m.family, m.records) => m.counted = SingleHost(m.records)

IInv ==
  /\ records \subseteq Records
  /\ PlansTyped
  /\ PartialsWhole
  /\ ModelsExact

-----------------------------------------------------------------------------
\* Nothing counts as nothing.
LEMMA CardinalityNone == Cardinality({}) = 0
  BY FS_EmptySet

\* A partial has the columns of one of its records.
LEMMA PartialColumns ==
  ASSUME IInv, NEW p \in partials
  PROVE  \E r \in Records \cap p.records : p.columns = Columns[r]
<1>1. p.shard \in Shards /\ p = Partial(p.shard, p.family, p.shard.records)
  BY DEF IInv, PartialsWhole
<1>2. p.records = p.shard.records
  BY <1>1 DEF Partial
<1>3. p.records # {} /\ p.records \subseteq Records
  BY <1>1, <1>2 DEF IInv, PlansTyped, Plan, Shards
<1>4. p.columns = CHOOSE w \in {Columns[r] : r \in p.records} : TRUE
  BY <1>1, <1>2 DEF Partial
<1>5. p.columns \in {Columns[r] : r \in p.records}
  BY <1>3, <1>4
<1> QED BY <1>3, <1>5

\* A record is in finitely many of the sums of an aggregation.
LEMMA SummandsCounted ==
  ASSUME IInv, NEW length \in Nat \ {0}, NEW parts \in [1 .. length -> partials], NEW r
  PROVE  Cardinality(Summands(parts, r)) \in Nat
<1>1. parts[1].columns \in Nat
  <2>1. parts[1] \in partials
    OBVIOUS
  <2> QED BY <2>1, PartialColumns, ColumnsAssumption
<1>2. IsFiniteSet(1 .. Len(parts)) /\ IsFiniteSet(0 .. parts[1].columns)
  BY <1>1, FS_Interval
<1>3. IsFiniteSet((1 .. Len(parts)) \X (0 .. parts[1].columns))
  BY <1>2, FS_Product
<1>4. Summands(parts, r) \subseteq (1 .. Len(parts)) \X (0 .. parts[1].columns)
  BY DEF Summands
<1> QED BY <1>3, <1>4, FS_Subset, FS_CardinalityType

\* Where the records of an accepted aggregation decode together, each is in all the sums of
\* exactly one part, and no other record is in any.
LEMMA CountedOnce ==
  ASSUME IInv, NEW length \in Nat \ {0}, NEW parts \in [1 .. length -> partials],
         NEW family \in Families, NEW recipe, NEW dataset, NEW ids, NEW r \in Records,
         Accepted(parts, family, recipe, dataset, ids), Decodes(family, ids)
  PROVE  Cardinality(Summands(parts, r)) = IF r \in ids THEN 1 + Columns[r] ELSE 0
<1>1. Len(parts) = length
  OBVIOUS
<1>2. CASE r \in ids
  <2> DEFINE W == Columns[r]
  <2>1. PICK i \in 1 .. length : r \in parts[i].records
    BY <1>1, <1>2 DEF Accepted
  <2>2. \A j \in 1 .. length : r \in parts[j].records => j = i
    BY <1>1, <2>1 DEF Accepted
  <2>3. \A q \in ids : Columns[q] = W
    BY <1>2 DEF Decodes, Families
  <2>4. \A j \in 1 .. length : parts[j].columns = W
    <3> TAKE j \in 1 .. length
    <3>1. parts[j].records \subseteq ids
      BY <1>1 DEF Accepted
    <3>2. parts[j] \in partials
      OBVIOUS
    <3> QED BY <2>3, <3>1, <3>2, PartialColumns
  <2>5. W \in Nat /\ 1 \in 1 .. length
    BY ColumnsAssumption
  <2> HIDE DEF W
  <2>6. Summands(parts, r) = {i} \X (0 .. W)
    BY <1>1, <2>1, <2>2, <2>4, <2>5 DEF Summands
  <2>7. /\ IsFiniteSet({i}) /\ Cardinality({i}) = 1
        /\ IsFiniteSet(0 .. W) /\ Cardinality(0 .. W) = W + 1
    <3>1. IsFiniteSet({i}) /\ Cardinality({i}) = 1
      BY FS_Singleton
    <3>2. 0 \in Int /\ W \in Int /\ ~ (0 > W) /\ W - 0 + 1 = W + 1
      BY <2>5
    <3>3. IsFiniteSet(0 .. W) /\ Cardinality(0 .. W) = W + 1
      BY <3>2, FS_Interval
    <3> QED BY <3>1, <3>3
  <2>8. Cardinality({i} \X (0 .. W)) = 1 * (W + 1)
    BY <2>7, FS_Product
  <2> QED BY <1>2, <2>5, <2>6, <2>8 DEF W
<1>3. CASE r \notin ids
  <2>1. Summands(parts, r) = {}
    BY <1>1, <1>3 DEF Accepted, Summands
  <2> QED BY <1>3, <2>1, CardinalityNone
<1> QED BY <1>2, <1>3

\* Which family made a partial follows from what is in its records.
LEMMA FamilyFollows ==
  ASSUME NEW f \in Families, NEW g \in Families, NEW selected, selected # {},
         Decodes(f, selected), Decodes(g, selected)
  PROVE  f = g
<1>1. PICK r : r \in selected
  OBVIOUS
<1> QED BY <1>1 DEF Decodes, Families

\* The source records of a plan are some of its dataset.
LEMMA SourceWithin == \A plan : Source(plan) \subseteq plan.dataset
  BY DEF Source, OfType

\* A shard of a plan stays one when plans are added.
LEMMA ShardsKept == ASSUME plans \subseteq plans' PROVE Shards \subseteq Shards'
  BY DEF Shards

-----------------------------------------------------------------------------
\* The invariant of training holds before anything was planned.
LEMMA InitIInv == Init => IInv
  BY DEF Init, IInv, PlansTyped, PartialsWhole, ModelsExact, Shards

\* Making shards adds a plan and keeps the rest (make_training_shards).
LEMMA MakeShardsIInv ==
  ASSUME IInv, NEW family \in Families, NEW recipe \in Recipes, NEW type \in Types,
         NEW seed \in Seeds, NEW count \in 1 .. MAX_SHARDS,
         MakeShards(family, recipe, type, seed, count)
  PROVE  IInv'
<1> DEFINE plan == [ dataset |-> Visible(records), family |-> family, recipe |-> recipe,
                     type |-> type, seed |-> seed, count |-> count ]
<1>1. /\ DevelopmentOnly(plan.dataset)
      /\ \A shard \in ShardsOf(plan) : shard.records # {}
      /\ plans' = plans \cup {plan}
      /\ UNCHANGED <<records, partials, models>>
  BY DEF MakeShards
<1>2. plan \in Plan
  BY DEF Plan, Visible, IInv
<1>3. \A shard \in ShardsOf(plan) : shard.records \subseteq plan.dataset
  <2> HIDE DEF plan
  <2> QED BY SourceWithin DEF ShardsOf, Shard
<1> HIDE DEF plan
<1>4. PlansTyped'
  BY <1>1, <1>2, <1>3 DEF IInv, PlansTyped
<1>5. PartialsWhole'
  BY <1>1, ShardsKept DEF IInv, PartialsWhole
<1>6. ModelsExact'
  BY <1>1 DEF IInv, ModelsExact
<1> QED BY <1>1, <1>4, <1>5, <1>6 DEF IInv

\* A partial that training adds is the whole of its shard.
LEMMA TrainIInv ==
  ASSUME IInv, NEW shard \in Shards, NEW family \in Families, NEW source, NEW type,
         Train(shard, family, source, type)
  PROVE  IInv'
<1> DEFINE p == Partial(shard, family, shard.records)
<1>1. /\ Decodes(family, shard.records)
      /\ partials' = partials \cup {p}
      /\ UNCHANGED <<records, plans, models>>
  BY DEF Train
<1>2. /\ p.shard = shard /\ p.family = family /\ p.records = shard.records
      /\ p = Partial(p.shard, p.family, p.shard.records)
  BY DEF Partial
<1>3. Shards' = Shards
  BY <1>1 DEF Shards
<1> HIDE DEF p
<1>4. PartialsWhole'
  BY <1>1, <1>2, <1>3 DEF IInv, PartialsWhole
<1>5. PlansTyped' /\ ModelsExact' /\ records' \subseteq Records
  BY <1>1 DEF IInv, PlansTyped, ModelsExact
<1> QED BY <1>4, <1>5 DEF IInv

\* A model that aggregation adds is the single host's where there is one.
LEMMA AggregateIInv ==
  ASSUME IInv, NEW length \in Nat \ {0}, NEW parts \in [1 .. length -> partials],
         NEW family \in Families, NEW plan \in plans, Aggregate(parts, family, plan)
  PROVE  IInv'
<1> DEFINE ids == Source(plan)
           m   == Model(parts, family, plan.recipe, plan.dataset, ids)
<1>1. /\ Accepted(parts, family, plan.recipe, plan.dataset, ids)
      /\ models' = models \cup {m}
      /\ UNCHANGED <<records, plans, partials>>
  BY DEF Aggregate
<1>2. /\ m.records = ids /\ m.dataset = plan.dataset /\ m.family = family
      /\ m.counted = [r \in Records |-> Cardinality(Summands(parts, r))]
  BY DEF Model
<1>3. plan.dataset \subseteq Records /\ ids \subseteq plan.dataset
  BY SourceWithin DEF IInv, PlansTyped, Plan
<1> HIDE DEF m, ids
<1>4. m.counted \in [Records -> Nat]
  BY <1>2, SummandsCounted
<1>5. Decodes(family, ids) => m.counted = SingleHost(ids)
  BY <1>1, <1>2, CountedOnce DEF SingleHost
<1>6. ModelsExact'
  BY <1>1, <1>2, <1>3, <1>4, <1>5 DEF IInv, ModelsExact
<1>7. PlansTyped' /\ PartialsWhole' /\ records' \subseteq Records
  BY <1>1 DEF IInv, PlansTyped, PartialsWhole, Shards
<1> QED BY <1>1, <1>6, <1>7 DEF IInv

\* Every step of training keeps the invariant.
LEMMA StepIInv == IInv /\ [Next]_vars => IInv'
<1> SUFFICES ASSUME IInv, [Next]_vars PROVE IInv'
  OBVIOUS
<1>1. ASSUME NEW r \in Records, Arrive(r) PROVE IInv'
  BY <1>1 DEF Arrive, IInv, PlansTyped, PartialsWhole, ModelsExact, Shards
<1>2. ASSUME NEW family \in Families, NEW recipe \in Recipes, NEW type \in Types,
             NEW seed \in Seeds, NEW count \in 1 .. MAX_SHARDS,
             MakeShards(family, recipe, type, seed, count)
      PROVE  IInv'
  BY <1>2, MakeShardsIInv
<1>3. ASSUME NEW shard \in Shards, NEW family \in Families, NEW source \in SUBSET records,
             NEW type \in Types, Train(shard, family, source, type)
      PROVE  IInv'
  BY <1>3, TrainIInv
<1>4. ASSUME NEW length \in 1 .. MAX_SHARDS, NEW family \in Families, NEW plan \in plans,
             NEW parts \in [1 .. length -> partials], Aggregate(parts, family, plan)
      PROVE  IInv'
  BY <1>4, BoundsAssumption, AggregateIInv
<1>5. CASE UNCHANGED vars
  BY <1>5 DEF vars, IInv, PlansTyped, PartialsWhole, ModelsExact, Shards
<1> QED BY <1>1, <1>2, <1>3, <1>4, <1>5 DEF Next

\* What holds of every plan, partial and model there ever is (fabric_execution.py:642-866).
THEOREM TrainingInvariant == Spec => []IInv
  BY InitIInv, StepIInv, PTL DEF Spec

-----------------------------------------------------------------------------
\* Plans, partials and models keep their shape and rest on development records only
\* (fabric_execution.py:450-558, 1267-1304).
THEOREM TrainingTypeCorrect == Spec => []TypeOK
<1>1. IInv => TypeOK
  <2> SUFFICES ASSUME IInv PROVE TypeOK
    OBVIOUS
  <2>1. records \subseteq Records /\ plans \subseteq Plan
    BY DEF IInv, PlansTyped
  <2>2. \A plan \in plans : DevelopmentOnly(plan.dataset)
    BY DEF IInv, PlansTyped
  <2>3. ASSUME NEW p \in partials
        PROVE  /\ p.shard \in Shards
               /\ p.family \in Families
               /\ p = Partial(p.shard, p.family, p.records)
               /\ p.records \subseteq p.dataset
    <3>1. /\ p.shard \in Shards /\ p.family \in Families
          /\ p = Partial(p.shard, p.family, p.shard.records)
      BY DEF IInv, PartialsWhole
    <3>2. p.records = p.shard.records /\ p.dataset = p.shard.plan.dataset
      BY <3>1 DEF Partial
    <3>3. PICK plan \in plans : p.shard \in ShardsOf(plan)
      BY <3>1 DEF Shards
    <3>4. p.shard.plan = plan
      BY <3>3 DEF ShardsOf, Shard
    <3>5. p.shard.records \subseteq plan.dataset
      BY <3>3 DEF IInv, PlansTyped
    <3> QED BY <3>1, <3>2, <3>4, <3>5
  <2>4. \A m \in models :
          m.counted \in [Records -> Nat] /\ m.records \subseteq m.dataset /\ m.dataset \subseteq Records
    BY DEF IInv, ModelsExact
  <2> QED BY <2>1, <2>2, <2>3, <2>4 DEF TypeOK
<1> QED BY <1>1, TrainingInvariant, PTL

\* The statistic of any aggregate, whichever plans and whatever order its parts are of, is the
\* single host's, row count and columns, where a single host can train on its records
\* (fabric_execution.py:750-812, 836-866, 1551-1556).
THEOREM EachRecordOnce == Spec => []SingleHostEquivalent
<1>1. IInv => SingleHostEquivalent
  BY DEF IInv, ModelsExact, SingleHostEquivalent
<1> QED BY <1>1, TrainingInvariant, PTL

\* Training a shard again changes nothing (fabric_execution.py:642-711).
THEOREM RetriesChangeNothing == Spec => []RetriesAgree
<1>1. IInv => RetriesAgree
  <2> SUFFICES ASSUME IInv, NEW p \in partials, NEW q \in partials, p.shard = q.shard
               PROVE  p = q
    BY DEF RetriesAgree
  <2>1. /\ p = Partial(p.shard, p.family, p.shard.records)
        /\ q = Partial(q.shard, q.family, q.shard.records)
        /\ p.family \in Families /\ q.family \in Families /\ p.shard \in Shards
        /\ Decodes(p.family, p.records) /\ Decodes(q.family, q.records)
    BY DEF IInv, PartialsWhole
  <2>2. p.records = p.shard.records /\ q.records = q.shard.records
    BY <2>1 DEF Partial
  <2>3. p.shard.records # {}
    BY <2>1 DEF IInv, PlansTyped, Shards
  <2>4. p.family = q.family
    BY <2>1, <2>2, <2>3, FamilyFollows
  <2> QED BY <2>1, <2>4
<1> QED BY <1>1, TrainingInvariant, PTL

-----------------------------------------------------------------------------
\* Every record of a plan has a place in the order of its seed, so exactly one shard has it.
LEMMA PositionInNat ==
  ASSUME NEW r, NEW source \in SUBSET Records, NEW seed PROVE Position(r, source, seed) \in Nat
<1> DEFINE before == {q \in source : Rank[seed][q] < Rank[seed][r]}
<1>1. before \subseteq Records
  OBVIOUS
<1>2. IsFiniteSet(before)
  BY <1>1, RecordsAssumption, FS_Subset
<1> QED BY <1>2, FS_CardinalityType DEF Position

\* A remainder is below its divisor.
LEMMA RemainderInRange == \A n \in Nat, k \in Nat \ {0} : n % k \in 0 .. k - 1
  OBVIOUS

\* The shards of a plan are disjoint and cover its source.
LEMMA ShardsPartition ==
  ASSUME NEW plan \in Plan
  PROVE  /\ \A i, j : i # j => Shard(plan, i).records \cap Shard(plan, j).records = {}
         /\ UNION {Shard(plan, i - 1).records : i \in 1 .. plan.count} = Source(plan)
<1> DEFINE place(r) == Position(r, Source(plan), plan.seed) % plan.count
<1>1. \A i : Shard(plan, i).records = {r \in Source(plan) : place(r) = i}
  BY DEF Shard
<1>2. plan.count \in Nat \ {0} /\ Source(plan) \subseteq Records
  BY BoundsAssumption, SourceWithin DEF Plan
<1>3. \A r : Position(r, Source(plan), plan.seed) \in Nat
  BY <1>2, PositionInNat
<1>4. \A r : place(r) \in 0 .. plan.count - 1
  BY <1>2, <1>3, RemainderInRange
<1> HIDE DEF place
<1>5. ASSUME NEW r \in Source(plan) PROVE \E i \in 1 .. plan.count : r \in Shard(plan, i - 1).records
  <2>1. place(r) + 1 \in 1 .. plan.count /\ (place(r) + 1) - 1 = place(r)
    BY <1>2, <1>4
  <2> QED BY <1>1, <2>1
<1> QED BY <1>1, <1>5

\* Once every shard of a plan is trained its partials are accepted, whatever else happened
\* (fabric_execution.py:836-866).
THEOREM PlansSuffice == Spec => []PlanSuffices
<1>1. IInv => PlanSuffices
  <2> SUFFICES ASSUME IInv, NEW plan \in plans, NEW parts \in [1 .. plan.count -> partials],
                      \A i \in 1 .. plan.count :
                        parts[i].shard = Shard(plan, i - 1) /\ parts[i].family = plan.family
               PROVE  Accepted(parts, plan.family, plan.recipe, plan.dataset, Source(plan))
    BY DEF PlanSuffices
  <2>1. plan \in Plan /\ plan.count \in 1 .. MAX_SHARDS
    BY DEF IInv, PlansTyped, Plan
  <2>2. Len(parts) = plan.count
    BY <2>1
  <2>3. ASSUME NEW i \in 1 .. plan.count
        PROVE  /\ parts[i].records = Shard(plan, i - 1).records
               /\ parts[i].index = i - 1
               /\ parts[i].recipe = plan.recipe
               /\ parts[i].dataset = plan.dataset
    <3>1. parts[i] = Partial(Shard(plan, i - 1), parts[i].family, Shard(plan, i - 1).records)
      BY DEF IInv, PartialsWhole
    <3>2. /\ parts[i].records = Shard(plan, i - 1).records
          /\ parts[i].index = Shard(plan, i - 1).index
          /\ parts[i].recipe = Shard(plan, i - 1).plan.recipe
          /\ parts[i].dataset = Shard(plan, i - 1).plan.dataset
      BY <3>1 DEF Partial
    <3>3. Shard(plan, i - 1).index = i - 1 /\ Shard(plan, i - 1).plan = plan
      BY DEF Shard
    <3> QED BY <3>2, <3>3
  <2>4. ASSUME NEW i \in 1 .. plan.count, NEW j \in 1 .. plan.count, i # j
        PROVE  parts[i].index # parts[j].index /\ parts[i].records \cap parts[j].records = {}
    <3>1. i - 1 # j - 1
      BY <2>4
    <3> QED BY <2>1, <2>3, <3>1, ShardsPartition
  <2>5. UNION {parts[i].records : i \in 1 .. plan.count} = Source(plan)
    BY <2>1, <2>3, ShardsPartition
  <2> QED BY <2>1, <2>2, <2>3, <2>4, <2>5 DEF Accepted
<1> QED BY <1>1, TrainingInvariant, PTL

-----------------------------------------------------------------------------
(* The dispatch of workloads.                                              *)

\* An observation that keeps what CompletedByArtifact says.
SoundObservations ==
  { o \in [ workload : Workloads, artifact : Artifacts,
            disposition : Dispositions, result : Artifacts \cup {None} ] :
      o.disposition = "completed" => o.result = o.workload.artifact /\ o.result = o.artifact }

\* The jobs of a workload among the first n.
Among(jobs, n, w) == {k \in 1 .. n : jobs[k].workload = w}

\* The observations of one workload.
AllOf(observations, w) == \A i \in 1 .. Len(observations) : observations[i].workload = w

Tallies == [Workloads -> [jobs : Nat, answers : Nat]]

\* The observations are the answers to the first n jobs, as they were counted; where the backend
\* runs providers itself, one for each replica of each job.
Covers(here, observations, count, jobs, n) ==
  /\ observations \in Seq(SoundObservations)
  /\ count \in Tallies
  /\ \A w \in Workloads :
       /\ count[w].jobs = Cardinality(Among(jobs, n, w))
       /\ Cardinality(Of(observations, w)) = count[w].answers
       /\ here => count[w].answers = w.replicas * count[w].jobs

BatchInv ==
  /\ batch \in Seq(Job) /\ asked \in Seq(Job)
  /\ Len(batch) <= Len(asked)
  /\ \A i \in 1 .. Len(batch) : batch[i] = asked[Len(asked) - Len(batch) + i]
  /\ Covers(fallback, collected, tally, asked, Len(asked) - Len(batch))
  /\ result.kind = "batch" =>
       /\ result.jobs \in Seq(Job)
       /\ Covers(fallback, result.observations, result.tally, result.jobs, Len(result.jobs))

\* What a guard let pass it still remembers; what is normalized belongs to the study of its binding.
FamilyInv ==
  /\ \A r \in accepted : r.id \in DOMAIN guard /\ guard[r.id] = r
  /\ \A e \in evidence : e.record.candidate = e.binding.study

-----------------------------------------------------------------------------
(* Counting.                                                               *)

\* Positions of a sequence are finitely many.
LEMMA OfFinite ==
  ASSUME NEW n \in Nat, NEW S \in SUBSET (1 .. n)
  PROVE  IsFiniteSet(S) /\ Cardinality(S) \in Nat
<1>1. IsFiniteSet(1 .. n)
  BY FS_Interval
<1> QED BY <1>1, FS_Subset, FS_CardinalityType

\* One more job of a workload counts for that workload and no other.
LEMMA OneMore ==
  ASSUME NEW jobs \in Seq(Job), NEW n \in Nat, n < Len(jobs), NEW w \in Workloads
  PROVE  /\ Cardinality(Among(jobs, n, w)) \in Nat
         /\ Cardinality(Among(jobs, n + 1, w))
              = IF jobs[n + 1].workload = w THEN Cardinality(Among(jobs, n, w)) + 1
                                            ELSE Cardinality(Among(jobs, n, w))
<1>1. Among(jobs, n, w) \in SUBSET (1 .. n)
  BY DEF Among
<1>2. IsFiniteSet(Among(jobs, n, w)) /\ Cardinality(Among(jobs, n, w)) \in Nat
  BY <1>1, OfFinite
<1>3. CASE jobs[n + 1].workload = w
  <2>1. Among(jobs, n + 1, w) = Among(jobs, n, w) \cup {n + 1}
    BY <1>3 DEF Among
  <2>2. n + 1 \notin Among(jobs, n, w)
    BY <1>1
  <2> QED BY <1>2, <1>3, <2>1, <2>2, FS_AddElement
<1>4. CASE jobs[n + 1].workload # w
  <2>1. Among(jobs, n + 1, w) = Among(jobs, n, w)
    BY <1>4 DEF Among
  <2> QED BY <1>2, <1>4, <2>1
<1> QED BY <1>3, <1>4

\* The observations of one job, added at the end, count for its workload and no other.
LEMMA Appended ==
  ASSUME NEW s \in Seq(SoundObservations), NEW t \in Seq(SoundObservations), NEW v,
         NEW w, AllOf(t, v)
  PROVE  /\ Cardinality(Of(s, w)) \in Nat
         /\ v = w => Cardinality(Of(s \o t, w)) = Cardinality(Of(s, w)) + Len(t)
         /\ v # w => Cardinality(Of(s \o t, w)) = Cardinality(Of(s, w))
<1>1. /\ s \o t \in Seq(SoundObservations) /\ Len(s \o t) = Len(s) + Len(t)
      /\ Len(s) \in Nat /\ Len(t) \in Nat
      /\ \A i \in 1 .. Len(s) : (s \o t)[i] = s[i]
      /\ \A i \in Len(s) + 1 .. Len(s) + Len(t) : (s \o t)[i] = t[i - Len(s)]
  OBVIOUS
<1>2. Of(s, w) \in SUBSET (1 .. Len(s))
  BY DEF Of
<1>3. IsFiniteSet(Of(s, w)) /\ Cardinality(Of(s, w)) \in Nat
  BY <1>1, <1>2, OfFinite
<1>4. \A i \in Len(s) + 1 .. Len(s) + Len(t) : (s \o t)[i].workload = v
  BY <1>1 DEF AllOf
<1>5. CASE v = w
  <2> DEFINE Added == Len(s) + 1 .. Len(s) + Len(t)
  <2>1. Of(s \o t, w) = Of(s, w) \cup Added
    <3>1. DOMAIN (s \o t) = 1 .. Len(s) + Len(t) /\ DOMAIN s = 1 .. Len(s)
      BY <1>1
    <3>2. 1 .. Len(s) + Len(t) = (1 .. Len(s)) \cup Added
      OBVIOUS
    <3> QED BY <1>1, <1>4, <1>5, <3>1, <3>2 DEF Of
  <2>2. IsFiniteSet(Added) /\ Cardinality(Added) = Len(t)
    <3>1. Len(s) + 1 \in Int /\ Len(s) + Len(t) \in Int
      BY <1>1
    <3>2. /\ IsFiniteSet(Added)
          /\ Cardinality(Added) = IF Len(s) + 1 > Len(s) + Len(t)
                                    THEN 0 ELSE Len(s) + Len(t) - (Len(s) + 1) + 1
      <4> DEFINE a == Len(s) + 1  b == Len(s) + Len(t)
      <4>1. a \in Int /\ b \in Int
        BY <3>1
      <4> HIDE DEF a, b
      <4>2. IsFiniteSet(a .. b) /\ Cardinality(a .. b) = IF a > b THEN 0 ELSE b - a + 1
        BY <4>1, FS_Interval
      <4> QED BY <4>2 DEF a, b
    <3> QED BY <1>1, <3>2
  <2>3. Of(s, w) \cap Added = {}
    BY <1>1, <1>2
  <2>4. Cardinality({}) = 0
    BY FS_EmptySet
  <2> HIDE DEF Added
  <2>5. Cardinality(Of(s, w) \cup Added)
          = Cardinality(Of(s, w)) + Cardinality(Added) - Cardinality(Of(s, w) \cap Added)
    BY <1>3, <2>2, FS_Union, Zenon
  <2>6. Cardinality(Of(s \o t, w)) = Cardinality(Of(s, w)) + Len(t)
    <3>1. Len(t) \in Nat
      BY <1>1
    <3>2. Cardinality(Of(s, w) \cup Added) = Cardinality(Of(s, w)) + Len(t)
      <4>1. Cardinality(Of(s, w) \cap Added) = 0
        BY <2>3, <2>4, Zenon
      <4> QED BY <1>3, <2>2, <2>5, <3>1, <4>1
    <3> QED BY <2>1, <3>2, Zenon
  <2> QED BY <1>1, <1>3, <1>5, <2>6
<1>6. CASE v # w
  <2>1. Of(s \o t, w) = Of(s, w)
    <3>1. DOMAIN (s \o t) = 1 .. Len(s) + Len(t) /\ DOMAIN s = 1 .. Len(s)
      BY <1>1
    <3>2. 1 .. Len(s) + Len(t) = (1 .. Len(s)) \cup (Len(s) + 1 .. Len(s) + Len(t))
      OBVIOUS
    <3> QED BY <1>1, <1>4, <1>6, <3>1, <3>2 DEF Of
  <2> QED BY <1>1, <1>3, <1>6, <2>1
<1> QED BY <1>5, <1>6

\* The observations of the next job, added and counted, cover one job more.
LEMMA CoversNext ==
  ASSUME NEW jobs \in Seq(Job), NEW n \in Nat, n < Len(jobs),
         NEW here, NEW s, NEW c, Covers(here, s, c, jobs, n),
         NEW v \in Workloads, v = jobs[n + 1].workload,
         NEW t \in Seq(SoundObservations), here => Len(t) = v.replicas,
         AllOf(t, v),
         NEW d, d = [c EXCEPT ![v] = [jobs |-> @.jobs + 1, answers |-> @.answers + Len(t)]]
  PROVE  Covers(here, s \o t, d, jobs, n + 1)
<1>0. s \in Seq(SoundObservations) /\ c \in Tallies /\ Len(t) \in Nat
  BY DEF Covers
<1>1. s \o t \in Seq(SoundObservations)
  BY <1>0
<1>2. /\ d \in Tallies
      /\ d[v].jobs = c[v].jobs + 1 /\ d[v].answers = c[v].answers + Len(t)
      /\ \A w \in Workloads \ {v} : d[w] = c[w]
  BY <1>0 DEF Tallies
<1>3. ASSUME NEW w \in Workloads
      PROVE  /\ d[w].jobs = Cardinality(Among(jobs, n + 1, w))
             /\ Cardinality(Of(s \o t, w)) = d[w].answers
             /\ here => d[w].answers = w.replicas * d[w].jobs
  <2>1. /\ Cardinality(Of(s, w)) \in Nat
        /\ v = w => Cardinality(Of(s \o t, w)) = Cardinality(Of(s, w)) + Len(t)
        /\ v # w => Cardinality(Of(s \o t, w)) = Cardinality(Of(s, w))
    BY <1>0, Appended, SMTT(30)
  <2>2. /\ Cardinality(Among(jobs, n, w)) \in Nat
        /\ Cardinality(Among(jobs, n + 1, w))
             = IF v = w THEN Cardinality(Among(jobs, n, w)) + 1
                        ELSE Cardinality(Among(jobs, n, w))
    BY OneMore
  <2>3. /\ c[w].jobs = Cardinality(Among(jobs, n, w))
        /\ Cardinality(Of(s, w)) = c[w].answers
        /\ here => c[w].answers = w.replicas * c[w].jobs
    BY DEF Covers
  <2>4. w.replicas \in Nat
    BY WorkloadsAssumption
  <2>5. \A r, k \in Nat : r * k + r = r * (k + 1)
    OBVIOUS
  <2>6. CASE v = w
    <3>1. d[w].jobs = c[w].jobs + 1 /\ d[w].answers = c[w].answers + Len(t)
      BY <1>2, <2>6
    <3>2. d[w].jobs = Cardinality(Among(jobs, n + 1, w))
      BY <2>2, <2>3, <2>6, <3>1
    <3>3. Cardinality(Of(s \o t, w)) = d[w].answers
      BY <2>1, <2>3, <2>6, <3>1
    <3>4. ASSUME here PROVE d[w].answers = w.replicas * d[w].jobs
      <4>1. Len(t) = w.replicas /\ c[w].answers = w.replicas * c[w].jobs /\ c[w].jobs \in Nat
        BY <2>2, <2>3, <2>6, <3>4
      <4> QED BY <2>4, <2>5, <3>1, <4>1
    <3> QED BY <3>2, <3>3, <3>4
  <2>7. CASE v # w
    <3>1. d[w] = c[w]
      BY <1>2, <2>7
    <3> QED BY <2>1, <2>2, <2>3, <2>7, <3>1
  <2> QED BY <2>6, <2>7
<1> QED BY <1>1, <1>2, <1>3, Zenon DEF Covers

\* Nothing observed covers no job.
LEMMA CoversNothing ==
  ASSUME NEW here, NEW jobs
  PROVE  Covers(here, <<>>, Nothing, jobs, 0)
<1>1. \A w \in Workloads : Of(<<>>, w) = {} /\ Among(jobs, 0, w) = {}
  BY DEF Of, Among
<1>2. \A w \in Workloads : w.replicas * 0 = 0
  BY WorkloadsAssumption
<1>3. Nothing \in Tallies /\ \A w \in Workloads : Nothing[w].jobs = 0 /\ Nothing[w].answers = 0
  BY DEF Nothing, Tallies
<1>4. <<>> \in Seq(SoundObservations)
  OBVIOUS
<1> QED BY <1>1, <1>2, <1>3, <1>4, FS_EmptySet DEF Covers

-----------------------------------------------------------------------------
(* Batches.                                                                *)

\* The jobs of a batch are those asked for, in an order of their own.
LEMMA OrdersAreJobs ==
  ASSUME NEW jobs \in SeqOf(Job, MaxJobs), NEW order \in Orders(jobs)
  PROVE  order \in Seq(Job)
<1>1. PICK m \in 0 .. MaxJobs : jobs \in [1 .. m -> Job]
  BY DEF SeqOf
<1>2. PICK place \in [DOMAIN jobs -> DOMAIN jobs] : order = [i \in DOMAIN jobs |-> jobs[place[i]]]
  BY DEF Orders
<1>3. order \in [1 .. m -> Job]
  BY <1>1, <1>2
<1>4. m \in Nat
  BY <1>1, DispatchBounds
<1> QED BY <1>3, <1>4

\* A batch that has just begun, or is gone, stands at its first job.
LEMMA Fresh ==
  ASSUME NEW order \in Seq(Job), batch' = order, asked' = order,
         collected' = <<>>, tally' = Nothing,
         result'.kind = "batch" =>
           /\ result'.jobs \in Seq(Job)
           /\ Covers(fallback', result'.observations, result'.tally, result'.jobs, Len(result'.jobs))
  PROVE  BatchInv'
<1>1. Len(order) \in Nat /\ Len(order) - Len(order) = 0
  OBVIOUS
<1>2. Covers(fallback', <<>>, Nothing, order, Len(order) - Len(order))
  BY <1>1, CoversNothing
<1>3. \A i \in 1 .. Len(order) : order[i] = order[Len(order) - Len(order) + i]
  BY <1>1
<1>4. Len(batch') <= Len(asked')
  BY <1>1
<1>5. \A i \in 1 .. Len(batch') : batch'[i] = asked'[Len(asked') - Len(batch') + i]
  BY <1>3
<1>6. Covers(fallback', collected', tally', asked', Len(asked') - Len(batch'))
  BY <1>2
<1> QED BY <1>4, <1>5, <1>6, Zenon DEF BatchInv

\* The next job of a batch, where it stands among the jobs asked for.
LEMMA NextJob ==
  ASSUME BatchInv, ~Idle
  PROVE  /\ Head(batch) \in Job
         /\ Len(asked) - Len(batch) \in Nat
         /\ Len(asked) - Len(batch) < Len(asked)
         /\ asked[Len(asked) - Len(batch) + 1] = Head(batch)
<1>1. batch \in Seq(Job) /\ batch # <<>> /\ asked \in Seq(Job) /\ Len(batch) <= Len(asked)
  BY DEF BatchInv, Idle
<1>2. Len(batch) \in Nat \ {0} /\ Len(asked) \in Nat /\ Head(batch) \in Job /\ Head(batch) = batch[1]
  BY <1>1
<1>3. batch[1] = asked[Len(asked) - Len(batch) + 1]
  BY <1>2 DEF BatchInv
<1> QED BY <1>1, <1>2, <1>3

\* Collecting the observations of the next job, and counting them, keeps the invariant.
LEMMA CollectKeeps ==
  ASSUME BatchInv, ~Idle, NEW t \in Seq(SoundObservations), NEW v, v = Head(batch).workload,
         fallback => Len(t) = v.replicas, AllOf(t, v), Collect(t, Counted(v, Len(t)))
  PROVE  BatchInv'
<1> DEFINE n == Len(asked) - Len(batch)
           d == Counted(v, Len(t))
<1>1. /\ Head(batch) \in Job /\ n \in Nat /\ n < Len(asked)
      /\ asked[n + 1] = Head(batch)
  BY NextJob
<1>2. asked \in Seq(Job) /\ Covers(fallback, collected, tally, asked, n)
  BY DEF BatchInv
<1>3. v = asked[n + 1].workload /\ v \in Workloads
  BY <1>1 DEF Job
<1>8. /\ d = [tally EXCEPT ![v] = [jobs |-> @.jobs + 1, answers |-> @.answers + Len(t)]]
      /\ Collect(t, d)
  BY DEF Counted
<1> HIDE DEF n, d
<1>4. Covers(fallback, collected \o t, d, asked, n + 1)
  BY <1>1, <1>2, <1>3, <1>8, CoversNext
<1>5. batch \in Seq(Job) /\ batch # <<>> /\ Len(batch) \in Nat /\ Len(asked) \in Nat
  BY <1>2 DEF BatchInv, Idle
<1>6. CASE Len(batch) > 1
  <2>1. /\ batch' = Tail(batch) /\ collected' = collected \o t /\ tally' = d
        /\ asked' = asked /\ result' = result /\ fallback' = fallback
    BY <1>6, <1>8 DEF Collect
  <2>2. /\ Tail(batch) \in Seq(Job) /\ Len(Tail(batch)) = Len(batch) - 1
        /\ \A i \in 1 .. Len(batch) - 1 : Tail(batch)[i] = batch[i + 1]
    BY <1>5
  <2>3. Len(asked') - Len(batch') = n + 1
    BY <1>5, <2>1, <2>2 DEF n
  <2>4. Covers(fallback', collected', tally', asked', Len(asked') - Len(batch'))
    BY <1>4, <2>1, <2>3
  <2>5. \A i \in 1 .. Len(batch') : batch'[i] = asked'[Len(asked') - Len(batch') + i]
    <3>1. \A i \in 1 .. Len(batch) : batch[i] = asked[Len(asked) - Len(batch) + i]
      BY DEF BatchInv
    <3> SUFFICES ASSUME NEW i \in 1 .. Len(batch) - 1
                 PROVE  batch'[i] = asked'[Len(asked') - Len(batch') + i]
      BY <2>1, <2>2
    <3>2. i + 1 \in 1 .. Len(batch)
      BY <1>5
    <3>3. batch'[i] = batch[i + 1] /\ batch[i + 1] = asked[Len(asked) - Len(batch) + (i + 1)]
      BY <2>1, <2>2, <3>1, <3>2
    <3>4. Len(asked') - Len(batch') + i = Len(asked) - Len(batch) + (i + 1)
      BY <1>5, <2>1, <2>2
    <3> QED BY <2>1, <3>3, <3>4
  <2>6. Len(batch') <= Len(asked')
    BY <1>5, <2>1, <2>2 DEF BatchInv
  <2>7. result'.kind = "batch" =>
          /\ result'.jobs \in Seq(Job)
          /\ Covers(fallback', result'.observations, result'.tally, result'.jobs, Len(result'.jobs))
    BY <2>1 DEF BatchInv
  <2> QED BY <1>2, <2>1, <2>2, <2>4, <2>5, <2>6, <2>7, Zenon DEF BatchInv
<1>7. CASE ~(Len(batch) > 1)
  <2>1. /\ batch' = <<>> /\ asked' = <<>> /\ collected' = <<>> /\ tally' = Nothing
        /\ fallback' = fallback
        /\ result' = [ kind |-> "batch", jobs |-> asked, tally |-> d,
                       observations |-> collected \o t ]
    BY <1>7, <1>8 DEF Collect
  <2>2. n + 1 = Len(asked)
    BY <1>5, <1>7 DEF n
  <2>3. /\ Covers(fallback', result'.observations, result'.tally, result'.jobs, Len(result'.jobs))
        /\ result'.jobs \in Seq(Job)
    BY <1>2, <1>4, <2>1, <2>2
  <2>4. <<>> \in Seq(Job)
    OBVIOUS
  <2> QED BY <2>1, <2>3, <2>4, Fresh
<1> QED BY <1>6, <1>7

-----------------------------------------------------------------------------
(* Steps.                                                                  *)

\* A job that is not refused comes from the artifact its workload names.
LEMMA JobFits ==
  ASSUME NEW job \in Job, ~Refused(job)
  PROVE  /\ job.workload \in Workloads /\ job.workload.replicas \in Nat
         /\ job.artifact \in Artifacts /\ job.artifact = job.workload.artifact
BY WorkloadsAssumption DEF Job, Refused

\* What the backend infers itself is a sound observation of its job.
LEMMA InferredSound ==
  ASSUME NEW job \in Job, ~Refused(job)
  PROVE  Inferred(job) \in SoundObservations /\ Inferred(job).workload = job.workload
BY JobFits DEF Inferred, Observation, SoundObservations, Dispositions, None

\* What it makes of an answer of the controller is one too.
LEMMA ReceivedSound ==
  ASSUME NEW job \in Job, ~Refused(job), NEW answer \in Answers
  PROVE  /\ Received(job, answer) \in SoundObservations
         /\ Received(job, answer).workload = job.workload
<1>1. CASE answer.kind = "result" /\ answer.by = job.workload.artifact
  <2>1. Received(job, answer) = Observation(job.workload, "completed", answer.by)
    BY <1>1, Zenon DEF Received
  <2> QED BY <1>1, <2>1, JobFits DEF Observation, SoundObservations, Dispositions
<1>2. CASE ~(answer.kind = "result" /\ answer.by = job.workload.artifact)
  <2>1. \/ Received(job, answer) = Observation(job.workload, "unavailable", None)
        \/ Received(job, answer) = Observation(job.workload, "invalid", None)
    BY <1>2, Zenon DEF Received
  <2> QED BY <2>1, JobFits DEF Observation, SoundObservations, Dispositions
<1> QED BY <1>1, <1>2

\* The invariant of a batch holds before anything was submitted.
LEMMA InitBatchInv == DispatchInit => BatchInv
<1> SUFFICES ASSUME DispatchInit PROVE BatchInv
  OBVIOUS
<1>1. <<>> \in Seq(Job) /\ Len(<<>>) = 0
  OBVIOUS
<1>2. Covers(fallback, <<>>, Nothing, <<>>, 0)
  BY CoversNothing
<1>3. batch = <<>> /\ asked = <<>> /\ collected = <<>> /\ tally = Nothing /\ result.kind # "batch"
  BY DEF DispatchInit, None
<1> QED BY <1>1, <1>2, <1>3 DEF BatchInv

\* Every step of dispatch keeps the invariant of a batch.
LEMMA StepBatchInv == BatchInv /\ [DispatchNext]_dispatchVars => BatchInv'
<1> SUFFICES ASSUME BatchInv, [DispatchNext]_dispatchVars PROVE BatchInv'
  OBVIOUS
<1> DEFINE Returned ==
      result'.kind = "batch" =>
        /\ result'.jobs \in Seq(Job)
        /\ Covers(fallback', result'.observations, result'.tally, result'.jobs, Len(result'.jobs))
<1>1. ASSUME UNCHANGED <<fallback, batch, asked, collected, tally>>, Returned PROVE BatchInv'
  BY <1>1 DEF BatchInv
<1>2. ASSUME UNCHANGED <<fallback, result>> PROVE Returned
  BY <1>2 DEF BatchInv
<1>3. ASSUME result'.kind # "batch" PROVE Returned
  BY <1>3
<1> HIDE DEF Returned
<1>4. CASE UNCHANGED dispatchVars
  BY <1>1, <1>2, <1>4 DEF dispatchVars
<1>5. ASSUME NEW nodes \in NodeLists, BuildGraph(nodes) PROVE BatchInv'
  BY <1>1, <1>3, <1>5 DEF BuildGraph
<1>6. ASSUME NEW ws \in WorkloadLists, NEW controls \in ControlLists,
             NEW n \in 0 .. MAX_REPETITIONS + 1, BuildMatrix(ws, controls, n)
      PROVE  BatchInv'
  BY <1>1, <1>3, <1>6 DEF BuildMatrix
<1>7. ASSUME NEW jobs \in SeqOf(Job, MaxJobs), Submit(jobs) PROVE BatchInv'
  <2>1. PICK order \in Orders(jobs) : batch' = order /\ asked' = order
    BY <1>7 DEF Submit
  <2>2. order \in Seq(Job)
    BY OrdersAreJobs
  <2>3. collected' = <<>> /\ tally' = Nothing /\ result'.kind # "batch"
    BY <1>7 DEF Submit, None
  <2> QED BY <2>1, <2>2, <2>3, Fresh
<1>8. ASSUME Raise PROVE BatchInv'
  <2>1. <<>> \in Seq(Job)
    OBVIOUS
  <2>2. /\ batch' = <<>> /\ asked' = <<>> /\ collected' = <<>> /\ tally' = Nothing
        /\ UNCHANGED <<fallback, result>>
    BY <1>8 DEF Raise
  <2> QED BY <1>2, <2>1, <2>2, Fresh DEF Returned
<1>9. ASSUME RunHere PROVE BatchInv'
  <2> DEFINE job == Head(batch)
             replicas == job.workload.replicas
             t == [worker \in 1 .. replicas |-> Inferred(job)]
  <2>1. ~Idle /\ ~Refused(job) /\ Collect(t, Counted(job.workload, replicas))
    BY <1>9 DEF RunHere
  <2>2. job \in Job
    BY <2>1, NextJob
  <2>3. replicas \in Nat
    BY <2>1, <2>2, JobFits
  <2>4. Inferred(job) \in SoundObservations /\ Inferred(job).workload = job.workload
    BY <2>1, <2>2, InferredSound
  <2>5. t \in Seq(SoundObservations) /\ Len(t) = replicas
    BY <2>3, <2>4
  <2>6. AllOf(t, job.workload)
    BY <2>4, <2>5 DEF AllOf
  <2> HIDE DEF t
  <2>7. Collect(t, Counted(job.workload, Len(t)))
    BY <2>1, <2>5
  <2> QED BY <2>1, <2>5, <2>6, <2>7, CollectKeeps
<1>10. ASSUME Dispatch PROVE BatchInv'
  <2> DEFINE job == Head(batch)
  <2>1. ~Idle /\ ~Refused(job) /\ ~fallback
    BY <1>10 DEF Dispatch
  <2>2. PICK answers \in SeqOf(Answers, MaxAnswers) :
          IF \E i \in DOMAIN answers : answers[i].kind = "unsealed"
            THEN Raise
            ELSE Collect([i \in DOMAIN answers |-> Received(job, answers[i])],
                         Counted(job.workload, Len(answers)))
    BY <1>10 DEF Dispatch
  <2>3. job \in Job
    BY <2>1, NextJob
  <2>4. PICK m \in 0 .. MaxAnswers : answers \in [1 .. m -> Answers]
    BY DEF SeqOf
  <2> DEFINE t == [i \in DOMAIN answers |-> Received(job, answers[i])]
  <2>5. /\ DOMAIN answers = 1 .. m /\ m \in Nat /\ Len(answers) = m
        /\ \A i \in 1 .. m : answers[i] \in Answers
    BY <2>4, DispatchBounds
  <2>6. \A i \in 1 .. m : /\ Received(job, answers[i]) \in SoundObservations
                          /\ Received(job, answers[i]).workload = job.workload
    BY <2>1, <2>3, <2>5, ReceivedSound
  <2>7. t \in Seq(SoundObservations) /\ Len(t) = Len(answers)
    BY <2>5, <2>6
  <2>8. AllOf(t, job.workload)
    BY <2>5, <2>6, <2>7 DEF AllOf
  <2>9. Raise \/ Collect(t, Counted(job.workload, Len(answers)))
    BY <2>2
  <2> HIDE DEF t
  <2>10. Raise \/ Collect(t, Counted(job.workload, Len(t)))
    BY <2>7, <2>9
  <2> QED BY <1>8, <2>1, <2>7, <2>8, <2>10, CollectKeeps
<1>11. ASSUME NEW record \in ExecutionRecords, Accept(record) PROVE BatchInv'
  BY <1>1, <1>2, <1>11 DEF Accept
<1>12. ASSUME NEW record \in ExecutionRecords, NEW binding \in Bindings, NEW observed,
              Normalize(record, binding, observed)
       PROVE  BatchInv'
  BY <1>1, <1>2, <1>12 DEF Normalize
<1> QED BY <1>4, <1>5, <1>6, <1>7, <1>8, <1>9, <1>10, <1>11, <1>12 DEF DispatchNext, Refuse

\* What a guard remembers it does not forget, and nothing else is let pass under its identity.
LEMMA StepFamilyInv == FamilyInv /\ [DispatchNext]_dispatchVars => FamilyInv'
<1> SUFFICES ASSUME FamilyInv, [DispatchNext]_dispatchVars PROVE FamilyInv'
  OBVIOUS
<1>1. ASSUME FamilyUnchanged PROVE FamilyInv'
  BY <1>1 DEF FamilyUnchanged, FamilyInv
<1>2. ASSUME NEW record \in ExecutionRecords, Accept(record) PROVE FamilyInv'
  <2>1. CASE Conflicts(record)
    <3>1. UNCHANGED <<guard, accepted, evidence>>
      BY <1>2, <2>1 DEF Accept, Remembered
    <3> QED BY <3>1 DEF FamilyInv
  <2>2. CASE ~Conflicts(record)
    <3>1. /\ guard' = [id \in DOMAIN guard \cup {record.id} |->
                         IF id = record.id THEN record ELSE guard[id]]
          /\ accepted' = accepted \cup {record}
          /\ evidence' = evidence
      BY <1>2, <2>2 DEF Accept, Remembered
    <3>2. record.id \in DOMAIN guard => guard[record.id] = record
      BY <2>2 DEF Conflicts
    <3>3. \A r \in accepted' : r.id \in DOMAIN guard' /\ guard'[r.id] = r
      BY <3>1, <3>2 DEF FamilyInv
    <3> QED BY <3>1, <3>3 DEF FamilyInv
  <2> QED BY <2>1, <2>2
<1>3. ASSUME NEW record \in ExecutionRecords, NEW binding \in Bindings, NEW observed,
             Normalize(record, binding, observed)
      PROVE  FamilyInv'
  <2>1. /\ evidence' = evidence \cup {[record |-> record, binding |-> binding]}
        /\ record.candidate = binding.study
        /\ UNCHANGED <<guard, accepted>>
    BY <1>3 DEF Normalize, Fits
  <2> QED BY <2>1 DEF FamilyInv
<1>4. CASE UNCHANGED dispatchVars
  BY <1>1, <1>4 DEF dispatchVars, FamilyUnchanged
<1> QED BY <1>1, <1>2, <1>3, <1>4
        DEF DispatchNext, BuildGraph, BuildMatrix, Submit, Refuse, Raise, RunHere, Dispatch, Collect

-----------------------------------------------------------------------------
(* Theorems.                                                               *)

\* A batch stands where its observations say, in every state.
THEOREM BatchInvariant == DispatchSpec => []BatchInv
<1>1. DispatchInit => BatchInv
  BY InitBatchInv
<1>2. BatchInv /\ [DispatchNext]_dispatchVars => BatchInv'
  BY StepBatchInv
<1> QED BY <1>1, <1>2, PTL DEF DispatchSpec

\* A guard keeps what it let pass, and evidence the study of its binding.
THEOREM FamilyInvariant == DispatchSpec => []FamilyInv
<1>1. DispatchInit => FamilyInv
  BY DEF DispatchInit, FamilyInv
<1>2. FamilyInv /\ [DispatchNext]_dispatchVars => FamilyInv'
  BY StepFamilyInv
<1> QED BY <1>1, <1>2, PTL DEF DispatchSpec

\* A batch execute_many returns has lost no job and no answer (BatchWhole), however many answers
\* the controller gives.
THEOREM BatchesReturnWhole == DispatchSpec => []BatchWhole
<1>1. BatchInv => BatchWhole
  <2> DEFINE Holds(w) ==
        LET jobs == Cardinality({k \in DOMAIN result.jobs : result.jobs[k].workload = w})
        IN  /\ result.tally[w].jobs = jobs
            /\ Cardinality(Of(result.observations, w)) = result.tally[w].answers
            /\ fallback => result.tally[w].answers = w.replicas * jobs
  <2> SUFFICES ASSUME BatchInv, result.kind = "batch", NEW i \in DOMAIN result.jobs
               PROVE  Holds(result.jobs[i].workload)
    BY DEF BatchWhole
  <2>1. /\ result.jobs \in Seq(Job)
        /\ Covers(fallback, result.observations, result.tally, result.jobs, Len(result.jobs))
    BY DEF BatchInv
  <2>2. DOMAIN result.jobs = 1 .. Len(result.jobs) /\ result.jobs[i].workload \in Workloads
    <3>1. DOMAIN result.jobs = 1 .. Len(result.jobs) /\ result.jobs[i] \in Job
      BY <2>1
    <3> QED BY <3>1 DEF Job
  <2> DEFINE w == result.jobs[i].workload
  <2>3. /\ result.tally[w].jobs = Cardinality(Among(result.jobs, Len(result.jobs), w))
        /\ Cardinality(Of(result.observations, w)) = result.tally[w].answers
        /\ fallback => result.tally[w].answers = w.replicas * result.tally[w].jobs
    BY <2>1, <2>2, Zenon DEF Covers
  <2>4. Among(result.jobs, Len(result.jobs), w) = {k \in DOMAIN result.jobs : result.jobs[k].workload = w}
    BY <2>2, Zenon DEF Among
  <2> QED BY <2>3, <2>4, Zenon
<1> QED BY <1>1, BatchInvariant, PTL

\* A completed observation of a batch holds what the artifact of its workload computed.
THEOREM CompletionIsByArtifact == DispatchSpec => []CompletedByArtifact
<1>1. BatchInv => CompletedByArtifact
  <2> SUFFICES ASSUME BatchInv, result.kind = "batch", NEW i \in DOMAIN result.observations
               PROVE  LET o == result.observations[i]
                      IN  o.disposition = "completed" =>
                            o.result = o.workload.artifact /\ o.result = o.artifact
    BY DEF CompletedByArtifact
  <2>1. result.observations \in Seq(SoundObservations)
    BY DEF BatchInv, Covers
  <2>2. result.observations[i] \in SoundObservations
    BY <2>1
  <2> QED BY <2>2 DEF SoundObservations
<1> QED BY <1>1, BatchInvariant, PTL

\* Records a guard let pass are evidence of one study under one identity.
THEOREM RecordsTellOneStudy == DispatchSpec => []OneStudyPerRecord
<1>1. FamilyInv => OneStudyPerRecord
  BY DEF FamilyInv, OneStudyPerRecord
<1> QED BY <1>1, FamilyInvariant, PTL

-----------------------------------------------------------------------------
(* The cells of a matrix.                                                  *)

\* The experiment of a cell's workload tells the control and the repetition of the cell.
CellTold(c) ==
  /\ c = [control |-> c.control, repetition |-> c.repetition, workload |-> c.workload]
  /\ c.workload.experiment = <<c.workload.experiment[1], c.control, c.repetition>>

MatrixInv == result.kind = "matrix" => \A c \in result.cells : CellTold(c)

\* A cell's workload tells control and repetition (DistributedStudyCell).
LEMMA CellIsTold ==
  ASSUME NEW w \in Workloads, NEW control, NEW repetition
  PROVE  CellTold(Cell(w, control, repetition))
<1> DEFINE told == Experiment(w, control, repetition)
           work == [w EXCEPT !.seed = @ + repetition, !.experiment = told]
           cell == Cell(w, control, repetition)
<1>1. cell = [control |-> control, repetition |-> repetition, workload |-> work]
  BY DEF Cell
<1>2. work.experiment = told
  BY WorkloadsAssumption
<1>3. told = <<w.experiment, control, repetition>>
  BY DEF Experiment
<1> HIDE DEF cell, work, told
<1>4. CellTold(cell)
  BY <1>1, <1>2, <1>3 DEF CellTold
<1> QED BY <1>4 DEF cell

\* Every matrix there is is made of such cells.
THEOREM MatrixInvariant == DispatchSpec => []MatrixInv
<1>1. DispatchInit => MatrixInv
  BY DEF DispatchInit, MatrixInv, None
<1>2. ASSUME MatrixInv, [DispatchNext]_dispatchVars PROVE MatrixInv'
  <2>1. ASSUME NEW ws \in WorkloadLists, NEW controls, NEW repetitions,
               BuildMatrix(ws, controls, repetitions)
        PROVE  MatrixInv'
    <3>1. PICK cells \in Matrices(ws, controls, repetitions) :
            result' = [kind |-> "matrix", cells |-> cells]
      BY <2>1 DEF BuildMatrix
    <3> DEFINE all == {Cell(w, control, repetition) :
                         w \in ToSet(ws), control \in ToSet(controls), repetition \in 0 .. repetitions - 1}
    <3>2. cells = all
      BY DEF Matrices
    <3>3. ToSet(ws) \subseteq Workloads
      BY WorkloadsAssumption
    <3>4. \A c \in all : CellTold(c)
      BY <3>3, CellIsTold
    <3> HIDE DEF all
    <3> QED BY <3>1, <3>2, <3>4 DEF MatrixInv
  <2>2. ASSUME result' = result \/ result'.kind \in {None, "graph", "batch"} PROVE MatrixInv'
    BY <1>2, <2>2 DEF MatrixInv, None
  <2>3. ASSUME NEW observations, NEW count, Collect(observations, count) PROVE MatrixInv'
    BY <2>2, <2>3 DEF Collect
  <2>4. CASE Raise
    BY <2>2, <2>4 DEF Raise
  <2>5. CASE Refuse \/ RunHere \/ Dispatch
    BY <2>3, <2>4, <2>5 DEF Refuse, RunHere, Dispatch
  <2>6. ASSUME NEW nodes, BuildGraph(nodes) PROVE MatrixInv'
    BY <2>2, <2>6 DEF BuildGraph
  <2>7. ASSUME NEW jobs, Submit(jobs) PROVE MatrixInv'
    BY <2>2, <2>7 DEF Submit
  <2>8. ASSUME NEW record, Accept(record) PROVE MatrixInv'
    BY <2>2, <2>8 DEF Accept
  <2>9. ASSUME NEW record, NEW binding, NEW observed, Normalize(record, binding, observed)
        PROVE  MatrixInv'
    BY <2>2, <2>9 DEF Normalize
  <2>10. CASE UNCHANGED dispatchVars
    BY <2>2, <2>10 DEF dispatchVars
  <2> HIDE DEF MatrixInv
  <2> QED BY <1>2, <2>1, <2>5, <2>6, <2>7, <2>8, <2>9, <2>10, Zenon DEF DispatchNext
<1> QED BY <1>1, <1>2, PTL DEF DispatchSpec

\* Two cells of a matrix have two workloads, though seeds meet and the check for duplicates looks
\* at the cells (make_study_matrix).
THEOREM CellsAreDistinct == DispatchSpec => []CellsToldApart
<1>1. MatrixInv => CellsToldApart
  <2> SUFFICES ASSUME MatrixInv, result.kind = "matrix", NEW c \in result.cells, NEW d \in result.cells,
                      c.workload = d.workload
               PROVE  c = d
    BY DEF CellsToldApart
  <2>1. CellTold(c) /\ CellTold(d)
    BY DEF MatrixInv
  <2>2. c.control = d.control /\ c.repetition = d.repetition
    BY <2>1 DEF CellTold
  <2> QED BY <2>1, <2>2 DEF CellTold
<1> QED BY <1>1, MatrixInvariant, PTL

-----------------------------------------------------------------------------
(* The order of a graph.                                                   *)

\* A set of numbers, each in its place.
LEMMA AscendingIs ==
  ASSUME NEW S \in SUBSET Nat, IsFiniteSet(S)
  PROVE  /\ Ascending(S) \in [1 .. Cardinality(S) -> S] /\ Cardinality(S) \in Nat
         /\ \A i, j \in 1 .. Cardinality(S) : Ascending(S)[i] = Ascending(S)[j] => i = j
         /\ \A x \in S : \E i \in 1 .. Cardinality(S) : Ascending(S)[i] = x
<1> DEFINE n == Cardinality(S)
           upto(x) == {y \in S : y <= x}
           place == [x \in S |-> Cardinality(upto(x))]
<1>1. n \in Nat
  BY FS_CardinalityType
<1>2. ASSUME NEW x \in S, NEW y \in S, x < y PROVE place[x] < place[y]
  <2>1. /\ upto(x) \in SUBSET upto(y) /\ upto(x) # upto(y)
        /\ upto(y) \in SUBSET S
    <3>1. y \in upto(y) /\ y \notin upto(x)
      BY <1>2
    <3>2. \A z \in S : z <= x => z <= y
      BY <1>2
    <3> QED BY <3>1, <3>2
  <2> HIDE DEF upto
  <2>2. IsFiniteSet(upto(y))
    BY <2>1, FS_Subset
  <2>3. /\ IsFiniteSet(upto(x)) /\ Cardinality(upto(x)) <= Cardinality(upto(y))
        /\ Cardinality(upto(y)) # Cardinality(upto(x))
    BY <2>1, <2>2, FS_Subset
  <2>4. Cardinality(upto(x)) \in Nat /\ Cardinality(upto(y)) \in Nat
    BY <2>2, <2>3, FS_CardinalityType
  <2> QED BY <2>3, <2>4
<1>3. place \in [S -> 1 .. n]
  <2> SUFFICES ASSUME NEW x \in S PROVE Cardinality(upto(x)) \in 1 .. n
    OBVIOUS
  <2>1. upto(x) \in SUBSET S /\ upto(x) # {}
    <3>1. x \in upto(x)
      OBVIOUS
    <3> QED BY <3>1
  <2> HIDE DEF upto
  <2>2. IsFiniteSet(upto(x)) /\ Cardinality(upto(x)) <= Cardinality(S)
    BY <2>1, FS_Subset
  <2>3. Cardinality(upto(x)) \in Nat /\ Cardinality(upto(x)) # 0
    BY <2>1, <2>2, FS_CardinalityType, FS_EmptySet
  <2> QED BY <1>1, <2>2, <2>3
<1> HIDE DEF place
<1>4. \A x, y \in S : place[x] = place[y] => x = y
  <2> SUFFICES ASSUME NEW x \in S, NEW y \in S, x # y PROVE place[x] # place[y]
    OBVIOUS
  <2>1. x \in Nat /\ y \in Nat /\ place[x] \in Nat /\ place[y] \in Nat
    BY <1>3
  <2>2. x < y \/ y < x
    BY <2>1
  <2> QED BY <1>2, <2>1, <2>2
<1>5. IsFiniteSet(1 .. n) /\ Cardinality(1 .. n) = n
  BY <1>1, FS_Interval
<1>6. \A i \in 1 .. n : \E x \in S : place[x] = i
  <2>1. place \in Injection(S, 1 .. n)
    BY <1>3, <1>4 DEF Injection, IsInjective
  <2>2. place \in Surjection(S, 1 .. n)
    BY <1>5, <2>1, FS_Injection
  <2> QED BY <2>2 DEF Surjection
<1> DEFINE Sorted(s) == \A i, j \in DOMAIN s : i < j => s[i] < s[j]
           t == [i \in 1 .. n |-> CHOOSE x \in S : place[x] = i]
<1>7. \A i \in 1 .. n : t[i] \in S /\ place[t[i]] = i
  BY <1>6
<1>8. t \in [1 .. n -> S] /\ Sorted(t)
  <2>1. t \in [1 .. n -> S] /\ DOMAIN t = 1 .. n
    BY <1>7
  <2> HIDE DEF t
  <2>2. ASSUME NEW i \in 1 .. n, NEW j \in 1 .. n, i < j PROVE t[i] < t[j]
    <3>1. t[i] \in Nat /\ t[j] \in Nat /\ t[i] \in S /\ t[j] \in S
      BY <1>7
    <3>2. t[i] = t[j] \/ t[j] < t[i] \/ t[i] < t[j]
      BY <3>1
    <3>3. ~ (t[j] < t[i])
      <4>1. t[j] < t[i] => j < i
        BY <1>2, <1>7, <3>1
      <4> QED BY <2>2, <4>1
    <3> QED BY <1>7, <2>2, <3>2, <3>3
  <2> QED BY <2>1, <2>2
<1> HIDE DEF t
<1> DEFINE a == Ascending(S)
<1>9. a \in [1 .. n -> S] /\ Sorted(a)
  BY <1>8 DEF Ascending
<1> HIDE DEF a, Sorted
<1>10. \A i, j \in 1 .. n : i < j => a[i] < a[j]
  BY <1>9 DEF Sorted
<1>11. \A i, j \in 1 .. n : a[i] = a[j] => i = j
  <2> SUFFICES ASSUME NEW i \in 1 .. n, NEW j \in 1 .. n, i # j PROVE a[i] # a[j]
    OBVIOUS
  <2>1. a[i] \in Nat /\ a[j] \in Nat
    BY <1>9
  <2>2. i < j \/ j < i
    BY <1>1
  <2> QED BY <1>10, <2>1, <2>2
<1>12. a \in Surjection(1 .. n, S)
  <2>1. a \in Injection(1 .. n, S)
    BY <1>9, <1>11 DEF Injection, IsInjective
  <2> QED BY <1>5, <2>1, FS_Injection
<1>13. \A x \in S : \E i \in 1 .. n : a[i] = x
  BY <1>12 DEF Surjection
<1> QED BY <1>1, <1>9, <1>11, <1>13 DEF a

\* One round of topological_order, with what the rounds after it make of the rest.
Round(rest, remaining) ==
  IF Ready(remaining) = {} THEN <<>>
  ELSE Ascending(Ready(remaining)) \o rest[remaining \ Ready(remaining)]

\* Sets of nodes are finite, and a set of them without an element is smaller.
LEMMA NodesFinite ==
  ASSUME NEW R \in SUBSET Nodes
  PROVE  /\ IsFiniteSet(R) /\ Cardinality(R) \in Nat
         /\ Ready(R) \in SUBSET R /\ Ready(R) \in SUBSET Nat /\ IsFiniteSet(Ready(R))
         /\ R \ Ready(R) \in SUBSET Nodes
         /\ Ready(R) # {} => Cardinality(R \ Ready(R)) < Cardinality(R)
<1>1. IsFiniteSet(R) /\ Cardinality(R) \in Nat
  BY NodesAssumption, FS_Subset, FS_CardinalityType
<1>2. Ready(R) \in SUBSET R
  BY DEF Ready
<1> DEFINE Q == R \ Ready(R)
<1>3. Q \in SUBSET R /\ Q \in SUBSET Nodes
  OBVIOUS
<1>4. IsFiniteSet(Q) /\ Cardinality(Q) <= Cardinality(R) /\ (Cardinality(R) = Cardinality(Q) => R = Q)
  BY <1>1, <1>3, FS_Subset
<1>5. Ready(R) # {} => R # Q
  BY <1>2
<1>6. IsFiniteSet(Ready(R)) /\ Ready(R) \in SUBSET Nat
  BY <1>1, <1>2, FS_Subset, NodesAssumption
<1>7. Cardinality(Q) \in Nat
  BY <1>4, FS_CardinalityType
<1>8. Ready(R) # {} => Cardinality(Q) < Cardinality(R)
  <2> HIDE DEF Q
  <2> QED BY <1>1, <1>4, <1>5, <1>7
<1> QED BY <1>1, <1>2, <1>3, <1>6, <1>8

\* A round leaves fewer nodes, so the rounds are a function of the nodes they begin with.
LEMMA LayersAreRounds ==
  ASSUME NEW R \in SUBSET Nodes
  PROVE  Layers[R] = Round(Layers, R)
<1> DEFINE Upto(n) == \E g : \A Q \in SUBSET Nodes : Cardinality(Q) <= n => g[Q] = Round(g, Q)
           T == {n \in Nat : ~ Upto(n)}
\* Another round for those that have one node more.
<1>1. ASSUME NEW n \in Nat, n = 0 \/ (n - 1 \in Nat /\ Upto(n - 1)) PROVE Upto(n)
  <2>1. PICK g : \A Q \in SUBSET Nodes : Cardinality(Q) < n => g[Q] = Round(g, Q)
    <3>1. \A Q \in SUBSET Nodes : Cardinality(Q) \in Nat
      BY NodesFinite
    <3>2. CASE n = 0
      BY <3>1, <3>2
    <3>3. CASE n - 1 \in Nat /\ Upto(n - 1)
      <4>1. PICK g : \A Q \in SUBSET Nodes : Cardinality(Q) <= n - 1 => g[Q] = Round(g, Q)
        BY <3>3
      <4>2. \A Q \in SUBSET Nodes : Cardinality(Q) < n => Cardinality(Q) <= n - 1
        BY <3>1
      <4> QED BY <4>1, <4>2
    <3> QED BY <1>1, <3>2, <3>3
  <2> DEFINE h == [Q \in SUBSET Nodes |-> Round(g, Q)]
  <2>2. ASSUME NEW Q \in SUBSET Nodes, Cardinality(Q) <= n PROVE h[Q] = Round(h, Q)
    <3>1. h[Q] = Round(g, Q)
      OBVIOUS
    <3>2. CASE Ready(Q) = {}
      BY <3>1, <3>2 DEF Round
    <3>3. CASE Ready(Q) # {}
      <4> DEFINE rest == Q \ Ready(Q)
      <4>1. rest \in SUBSET Nodes /\ Cardinality(rest) < n
        <5>1. rest \in SUBSET Nodes /\ Cardinality(rest) < Cardinality(Q) /\ Cardinality(Q) \in Nat
          BY <3>3, NodesFinite
        <5>2. Cardinality(rest) \in Nat
          BY <5>1, NodesFinite
        <5> HIDE DEF rest
        <5> QED BY <2>2, <5>1, <5>2
      <4>2. h[rest] = Round(g, rest) /\ g[rest] = Round(g, rest)
        BY <2>1, <4>1
      <4>3. h[rest] = g[rest]
        BY <4>2
      <4> HIDE DEF h
      <4> QED BY <3>1, <3>3, <4>3 DEF Round
    <3> QED BY <3>2, <3>3
  <2> HIDE DEF h
  <2> QED BY <2>2
<1>2. T = {}
  <2> SUFFICES ASSUME T # {} PROVE FALSE
    OBVIOUS
  <2>1. T \subseteq Nat
    OBVIOUS
  <2>2. PICK n \in T : \A m \in T : ~ (<<m, n>> \in OpToRel(<, Nat))
    <3> HIDE DEF T
    <3> QED BY <2>1, NatLessThanWellFounded, WFMin
  <2>3. n \in Nat /\ ~ Upto(n)
    OBVIOUS
  <2> HIDE DEF Upto
  <2>4. ~ (n = 0) /\ n - 1 \in Nat /\ ~ Upto(n - 1)
    BY <1>1, <2>3
  <2>5. n - 1 \in T /\ <<n - 1, n>> \in OpToRel(<, Nat)
    BY <2>3, <2>4 DEF OpToRel
  <2> QED BY <2>2, <2>5
<1>3. PICK g : \A Q \in SUBSET Nodes : g[Q] = Round(g, Q)
  <2>1. IsFiniteSet(Nodes) /\ Cardinality(Nodes) \in Nat
    BY NodesAssumption, FS_CardinalityType
  <2>2. \A Q \in SUBSET Nodes : Cardinality(Q) <= Cardinality(Nodes)
    BY <2>1, FS_Subset
  <2>3. Upto(Cardinality(Nodes))
    BY <1>2, <2>1
  <2> QED BY <2>2, <2>3
<1> DEFINE h == [Q \in SUBSET Nodes |-> g[Q]]
           Loop(l) == l = [Q \in SUBSET Nodes |-> Round(l, Q)]
<1>4. Loop(h)
  <2>1. ASSUME NEW Q \in SUBSET Nodes PROVE h[Q] = Round(h, Q)
    <3>1. Q \ Ready(Q) \in SUBSET Nodes
      OBVIOUS
    <3>2. h[Q] = g[Q] /\ h[Q \ Ready(Q)] = g[Q \ Ready(Q)]
      BY <3>1
    <3> HIDE DEF h
    <3> QED BY <1>3, <3>2 DEF Round
  <2>2. h = [Q \in SUBSET Nodes |-> h[Q]]
    OBVIOUS
  <2> HIDE DEF h
  <2> QED BY <2>1, <2>2
<1>5. Layers = CHOOSE l : Loop(l)
  BY DEF Layers, Round
<1>6. Loop(Layers)
  <2> HIDE DEF Loop, h
  <2> QED BY <1>4, <1>5
<1> QED BY <1>6

\* A sequence orders nodes R: some of them, each once, and after those of R it depends on.
Ordered(s, R) ==
  /\ s \in Seq(R)
  /\ \A i, j \in 1 .. Len(s) : s[i] = s[j] => i = j
  /\ \A i \in 1 .. Len(s) : \A n \in Dependencies[s[i]] \cap R : \E j \in 1 .. i - 1 : s[j] = n

\* Two parts of a sequence.
LEMMA TwoParts ==
  ASSUME NEW S, NEW a \in Seq(S), NEW b \in Seq(S)
  PROVE  /\ a \o b \in Seq(S) /\ Len(a \o b) = Len(a) + Len(b)
         /\ \A i \in 1 .. Len(a) : (a \o b)[i] = a[i]
         /\ \A i \in 1 .. Len(b) : (a \o b)[Len(a) + i] = b[i]
         /\ \A i \in 1 .. Len(a \o b) : i \in 1 .. Len(a) \/ i - Len(a) \in 1 .. Len(b)
  OBVIOUS

\* A round that is ordered, put before an order of the rest, is an order.
LEMMA RoundOrders ==
  ASSUME NEW R \in SUBSET Nodes, Ordered(Layers[R \ Ready(R)], R \ Ready(R))
  PROVE  Ordered(Layers[R], R)
<1>1. CASE Ready(R) = {}
  <2>1. Layers[R] = <<>>
    BY <1>1, LayersAreRounds DEF Round
  <2> QED BY <2>1 DEF Ordered
<1>2. CASE Ready(R) # {}
  <2> DEFINE Q == R \ Ready(R)
             a == Ascending(Ready(R))
             t == Layers[Q]
             s == Layers[R]
             k == Len(a)
  <2>1. s = a \o t
    BY <1>2, LayersAreRounds DEF Round
  <2>2. /\ a \in Seq(Ready(R)) /\ k \in Nat
        /\ \A i, j \in 1 .. k : a[i] = a[j] => i = j
        /\ \A x \in Ready(R) : \E i \in 1 .. k : a[i] = x
    <3>1. /\ a \in [1 .. Cardinality(Ready(R)) -> Ready(R)] /\ Cardinality(Ready(R)) \in Nat
          /\ \A i, j \in 1 .. Cardinality(Ready(R)) : a[i] = a[j] => i = j
          /\ \A x \in Ready(R) : \E i \in 1 .. Cardinality(Ready(R)) : a[i] = x
      BY NodesFinite, AscendingIs
    <3> HIDE DEF a
    <3>2. a \in Seq(Ready(R)) /\ Len(a) = Cardinality(Ready(R))
      BY <3>1
    <3> QED BY <3>1, <3>2
  <2>3. Ready(R) \subseteq R
    BY DEF Ready
  <2>4. /\ t \in Seq(Q) /\ Len(t) \in Nat
        /\ \A i, j \in 1 .. Len(t) : t[i] = t[j] => i = j
        /\ \A i \in 1 .. Len(t) : \A n \in Dependencies[t[i]] \cap Q : \E j \in 1 .. i - 1 : t[j] = n
    <3>1. Ordered(t, Q)
      OBVIOUS
    <3> HIDE DEF t, Q
    <3> QED BY <3>1 DEF Ordered
  <2> HIDE DEF a, t, s
  <2>5. a \in Seq(R) /\ t \in Seq(R)
    BY <2>2, <2>3, <2>4
  <2>6. /\ s \in Seq(R) /\ Len(s) = k + Len(t)
        /\ \A i \in 1 .. k : s[i] = a[i] /\ a[i] \in Ready(R)
        /\ \A i \in 1 .. Len(t) : s[k + i] = t[i] /\ t[i] \in Q
        /\ \A i \in 1 .. Len(s) : i \in 1 .. k \/ i - k \in 1 .. Len(t)
    <3>1. /\ \A i \in 1 .. k : a[i] \in Ready(R)
          /\ \A i \in 1 .. Len(t) : t[i] \in Q
      BY <2>2, <2>4
    <3> QED BY <2>1, <2>5, <3>1, TwoParts
  <2>7. \A i \in 1 .. Len(s) : i \notin 1 .. k => s[i] = t[i - k] /\ i - k \in 1 .. Len(t) /\ s[i] \in Q
    <3> SUFFICES ASSUME NEW i \in 1 .. Len(s), i \notin 1 .. k
                 PROVE  s[i] = t[i - k] /\ i - k \in 1 .. Len(t) /\ s[i] \in Q
      OBVIOUS
    <3>1. i - k \in 1 .. Len(t) /\ k + (i - k) = i
      BY <2>2, <2>6
    <3> QED BY <2>6, <3>1
  <2>8. ASSUME NEW i \in 1 .. Len(s), NEW j \in 1 .. Len(s), s[i] = s[j] PROVE i = j
    <3>1. CASE i \in 1 .. k /\ j \in 1 .. k
      BY <2>2, <2>6, <2>8, <3>1
    <3>2. CASE i \notin 1 .. k /\ j \notin 1 .. k
      <4>1. i - k = j - k
        BY <2>4, <2>7, <2>8, <3>2
      <4> QED BY <2>2, <4>1
    <3>3. CASE ~ (i \in 1 .. k <=> j \in 1 .. k)
      BY <2>6, <2>7, <2>8, <3>3
    <3> QED BY <3>1, <3>2, <3>3
  <2>9. ASSUME NEW i \in 1 .. Len(s), NEW n \in Dependencies[s[i]] \cap R
        PROVE  \E j \in 1 .. i - 1 : s[j] = n
    <3>1. CASE i \in 1 .. k
      <4>1. s[i] \in Ready(R)
        BY <2>6, <3>1
      <4>2. n \notin R
        BY <4>1 DEF Ready
      <4> QED BY <2>9, <4>2
    <3>2. CASE i \notin 1 .. k
      <4>1. s[i] = t[i - k] /\ i - k \in 1 .. Len(t)
        BY <2>7, <3>2
      <4>2. CASE n \in Ready(R)
        <5>1. PICK j \in 1 .. k : a[j] = n
          BY <2>2, <4>2
        <5>2. j \in 1 .. i - 1 /\ s[j] = n
          BY <2>2, <2>6, <3>2, <5>1
        <5> QED BY <5>2
      <4>3. CASE n \in Q
        <5>1. PICK j \in 1 .. (i - k) - 1 : t[j] = n
          BY <2>4, <2>9, <4>1, <4>3
        <5>2. k + j \in 1 .. i - 1 /\ j \in 1 .. Len(t)
          BY <2>2, <2>4, <4>1, <5>1
        <5>3. s[k + j] = n
          BY <2>6, <5>1, <5>2
        <5> QED BY <5>2, <5>3
      <4> QED BY <2>9, <4>2, <4>3
    <3> QED BY <3>1, <3>2
  <2> QED BY <2>6, <2>8, <2>9 DEF Ordered, s
<1> QED BY <1>1, <1>2

\* Whatever the nodes, what the rounds find is an order of some of them.
LEMMA LayersOrder ==
  ASSUME NEW R \in SUBSET Nodes
  PROVE  Ordered(Layers[R], R)
<1> DEFINE T == {Q \in SUBSET Nodes : ~ Ordered(Layers[Q], Q)}
           lt == StrictSubsetOrdering(Nodes)
<1>1. IsWellFoundedOn(lt, SUBSET Nodes)
  BY NodesAssumption, FS_StrictSubsetOrderingWellFounded, FS_FiniteSubsetsOfFinite
<1>2. SUFFICES ASSUME T # {} PROVE FALSE
  OBVIOUS
<1>3. PICK Q \in T : \A P \in T : ~ (<<P, Q>> \in lt)
  <2>1. T \subseteq SUBSET Nodes
    OBVIOUS
  <2> HIDE DEF T, lt
  <2> QED BY <1>1, <1>2, <2>1, WFMin
<1> DEFINE rest == Q \ Ready(Q)
<1>4. Q \in SUBSET Nodes /\ rest \in SUBSET Nodes /\ ~ Ordered(Layers[Q], Q)
  OBVIOUS
<1>5. CASE Ready(Q) = {}
  <2>1. Layers[Q] = <<>>
    BY <1>4, <1>5, LayersAreRounds DEF Round
  <2> QED BY <1>4, <2>1 DEF Ordered
<1>6. CASE Ready(Q) # {}
  <2>1. rest \subseteq Q /\ rest # Q
    BY <1>6 DEF Ready
  <2>2. <<rest, Q>> \in lt
    BY <1>4, <2>1 DEF StrictSubsetOrdering
  <2>3. Ordered(Layers[rest], rest)
    BY <1>3, <1>4, <2>2
  <2> HIDE DEF T, lt
  <2> QED BY <1>4, <2>3, RoundOrders
<1> QED BY <1>5, <1>6

\* A graph holds an order of its nodes, all of them and all they depend on.
GraphInv ==
  result.kind = "graph" =>
    \E R \in SUBSET Nodes : /\ result.nodes = R
                            /\ result.order = Layers[R] /\ ToSet(Layers[R]) = R
                            /\ \A n \in R : Dependencies[n] \subseteq R

\* The order of any graph that is not refused names each node once and after its dependencies,
\* for any nodes and dependencies (WorkloadGraph.topological_order).
THEOREM GraphsAreOrdered == DispatchSpec => []OrderSound
<1>1. DispatchInit => GraphInv
  BY DEF DispatchInit, GraphInv, None
<1>2. ASSUME GraphInv, [DispatchNext]_dispatchVars PROVE GraphInv'
  <2>1. ASSUME NEW nodes \in NodeLists, BuildGraph(nodes) PROVE GraphInv'
    <3>1. ToSet(nodes) \in SUBSET Nodes
      BY NodesAssumption DEF ToSet
    <3>2. /\ result' = [kind |-> "graph", nodes |-> ToSet(nodes), order |-> Layers[ToSet(nodes)]]
          /\ ToSet(Layers[ToSet(nodes)]) = ToSet(nodes)
          /\ \A n \in ToSet(nodes) : Dependencies[n] \subseteq ToSet(nodes)
      BY <2>1 DEF BuildGraph, Graphs
    <3> QED BY <3>1, <3>2 DEF GraphInv
  <2>2. ASSUME result' = result \/ result'.kind \in {None, "matrix", "batch"} PROVE GraphInv'
    BY <1>2, <2>2 DEF GraphInv, None
  <2>3. ASSUME NEW observations, NEW count, Collect(observations, count) PROVE GraphInv'
    BY <2>2, <2>3 DEF Collect
  <2>4. CASE Raise
    BY <2>2, <2>4 DEF Raise
  <2>5. CASE Refuse \/ RunHere \/ Dispatch
    BY <2>3, <2>4, <2>5 DEF Refuse, RunHere, Dispatch
  <2>6. ASSUME NEW ws, NEW controls, NEW repetitions, BuildMatrix(ws, controls, repetitions)
        PROVE  GraphInv'
    BY <2>2, <2>6 DEF BuildMatrix
  <2>7. ASSUME NEW jobs, Submit(jobs) PROVE GraphInv'
    BY <2>2, <2>7 DEF Submit
  <2>8. ASSUME NEW record, Accept(record) PROVE GraphInv'
    BY <2>2, <2>8 DEF Accept
  <2>9. ASSUME NEW record, NEW binding, NEW observed, Normalize(record, binding, observed)
        PROVE  GraphInv'
    BY <2>2, <2>9 DEF Normalize
  <2>10. CASE UNCHANGED dispatchVars
    BY <2>2, <2>10 DEF dispatchVars
  <2> HIDE DEF GraphInv
  <2> QED BY <1>2, <2>1, <2>5, <2>6, <2>7, <2>8, <2>9, <2>10, Zenon DEF DispatchNext
<1>3. GraphInv => OrderSound
  <2> SUFFICES ASSUME GraphInv, result.kind = "graph"
               PROVE  /\ IsInjective(result.order) /\ ToSet(result.order) = result.nodes
                      /\ \A i \in DOMAIN result.order :
                           \A n \in Dependencies[result.order[i]] : \E j \in 1 .. i - 1 : result.order[j] = n
    BY DEF OrderSound
  <2>1. PICK R \in SUBSET Nodes : /\ result.nodes = R
                                  /\ result.order = Layers[R] /\ ToSet(Layers[R]) = R
                                  /\ \A n \in R : Dependencies[n] \subseteq R
    BY DEF GraphInv
  <2> DEFINE s == Layers[R]
  <2>2. Ordered(s, R)
    BY LayersOrder
  <2> HIDE DEF s
  <2>3. /\ DOMAIN s = 1 .. Len(s)
        /\ \A i, j \in DOMAIN s : s[i] = s[j] => i = j
        /\ \A i \in DOMAIN s : s[i] \in R
        /\ \A i \in DOMAIN s : \A n \in Dependencies[s[i]] \cap R : \E j \in 1 .. i - 1 : s[j] = n
    BY <2>2 DEF Ordered
  <2>4. \A i \in DOMAIN s : \A n \in Dependencies[s[i]] : \E j \in 1 .. i - 1 : s[j] = n
    BY <2>1, <2>3
  <2>5. IsInjective(s)
    BY <2>3 DEF IsInjective
  <2> QED BY <2>1, <2>4, <2>5 DEF s
<1> QED BY <1>1, <1>2, <1>3, PTL DEF DispatchSpec
=============================================================================
