# A verification development of MNEL

Machine-Native Experimental Learning (MNEL) runs preregistered experiments, keeps what
happened in an append-only evidence ledger, asks diagnostic verifiers and learned
providers for observations that never decide anything by themselves, and distils
proposals from the evidence. This directory holds TLA+ models of its parts, the TLC
configurations that check them and proofs that TLAPS checks. Paths below are relative
to the repository.

## The system

| Part | State it keeps | Operations | Interacts with |
|---|---|---|---|
| Evidence ledger, `src/mnel/core.py:302-375` | one JSONL file | `append`, `verify`, `records` | every process that has the path; no lock |
| Experiment coordinator, `core.py:421-735` | `states`, in memory; the ledger | `run`, `transition`; governor and evaluator | the ledger, through every `append` of a run |
| Experiment lifecycle, `mncs/source/mnel/lifecycle.mncs` | none (a pure function) | `advance` | the reference for the coordinator's states |
| Provider host, `crates/mnel-provider-host/src/lib.rs` | catalogue, hosted providers, snapshots | `admit`, `register_snapshot`, `unload`, `invoke` | providers through the `LearnedProvider` trait |
| Forge runtime, `src/mnel/forge_lifecycle.py` | registry, health records, snapshot store | `register`, `register_declaration`, `set_state`, `quarantine`, `execute`, comparison, coverage, candidates | verifiers it calls, investigators that send requests, operators |
| Diagnostic snapshots, `src/mnel/snapshots.py` | content-addressed store | `register`, `get`, `view` | forge runtime, providers |
| Placement, `crates/mnel-provider-host/src/placement.rs`, `src/mnel/placement.py` | none | `decide_placement`, `fallback_after_oom` | the host's admission, the specialists |
| Distributed training, `src/mnel/fabric_execution.py` | shards, partials, observations | partition, train, aggregate, execute | Fabric workers, visibility views |
| Distributed dispatch, `fabric_execution.py` | a batch in progress | workload graph, study matrix, `execute_many`, `execute_provider` | Fabric's workers and controller |
| Distillation and transfer, `src/mnel/distillation.py` | study views, retrieval index, predictions, evaluations | development and evaluator views, grouping, retrieval, `freeze_prediction`, `finalize`, revision | ledger records |
| Provider study, `src/mnel/provider_study.py` | lifecycle states and history, routing, runs | admission, rollback, routing, `run_provider`, metrics and comparisons | snapshots, providers |
| Local investigator, `src/mnel/local_runtime.py`, `worktrees.py`, `investigator_harness.py` | git worktrees, transactions, quarantine queue | materialise, execute, clean up | git, a subprocess (`integrations.py`) |
| Native loader, `crates/mnel-provider-loader` | loaded libraries | verify, `dlopen`, `infer` through a result buffer | native artifacts |
| Specialists, `recurrent_specialist.py`, `one_step_specialist.py` | immutable models, contexts, retained observations | train, calibrate, infer, abstain, fall back to the teacher | snapshots, the family's generations |
| Providers, `recurrent_provider.py`, `learned_providers.py`, `reference_provider.py`, `crates/mnel-provider-classical` | weights | infer | snapshots |
| Family integration, `src/mnel/family_integration.py` | replay guard | accept and normalize external records | sibling projects, dispatch |

What is hard in it:

* **Concurrency without locks.** `append()` reads and verifies the file, then opens it
  again and writes. Nothing excludes a second process in between.
* **Failures between steps.** A run of the coordinator is a dozen appends with state
  changes between them; each append may raise. The raw write may be short; the process
  may die; the power may fail before the fsync.
* **Two tables that must agree.** Memory and ledger (coordinator), catalogue and
  providers (host), registry state and health (forge).
* **Who is to blame.** Quarantine counts errors; which of the many failure points of one
  call count, and against whom, decides which verifier or provider is taken out.
* **Retries.** A caller may call `run()` again with any plan after any failure.
* **Workers and arithmetic.** Partial results come in any order, twice or from another
  plan; memory budgets are computed at the limits of a u64, by two implementations.
* **Leftovers.** A worktree has a name that follows from the question, so a retry meets the
  one of the run before, and an operator who cleans up may remove another run's.
* **What is known when.** Hidden results must reach neither what is distilled nor the
  prediction they judge; a student must learn nothing its teacher was not verified on.
* **Processes that forget.** Predictions, lifecycle states and replay guards live in memory;
  strategies, evaluations and records outlive it.

What makes each part correct:

* **Ledger.** What `append()` returned stays, in order; damage is seen and never hidden.
* **Coordinator.** Memory and ledger tell the same story; an experiment is executed once;
  states move along the lifecycle; a principle rests on what its own run recorded.
* **Provider host.** The two maps name the same providers; quarantine starts at the
  threshold and cannot be left by calling; a reply accounts for what the call cost.
* **Forge runtime.** A verifier that errs is taken out whatever the order of executions
  and operators' acts; what nobody exercises is reported.
* **Snapshots.** An identity names one content for good.
* **Placement.** Both implementations decide alike; recovery ends; the reserve is kept.
* **Distributed training.** The aggregate is the model of a single host, whatever was lost,
  repeated or reordered; shards are merged in their order.
* **Distributed dispatch.** A graph runs in order; a batch that returns has lost no job and
  no answer; a result is named after the artifact that computed it.
* **Distillation and transfer.** A prediction is finalised once; what memory prohibits yields
  in retrieval and is never shown without that memory. That hidden results reach neither
  what is distilled, nor a prediction, nor a repair of what they judged, the documents say;
  the code leaves it to its callers.
* **Provider study.** A provider is admitted by each stage in turn, and never again after a
  quarantine; the measures of a study fit together and do not depend on reruns.
* **Local investigator.** A harness runs in the worktree of its own run; a retry waits for
  what the run before left; every call ends.
* **Native loader.** What is loaded is what was verified; a result is whole or refused.
* **Specialists.** A student learns from verified observations of one teacher and falls back
  to that very model; refinement never changes the class it started from.
* **Family integration.** A record a guard let pass is evidence of one study.

`PROJECT.json` lists the hazards at their lines, each with the properties that would notice.

## Modules

```
AppendOnlyLog <------- EvidenceLedger -------- MCEvidenceLedger, EvidenceLedgerProofs
ExperimentLifecycle <- ExperimentCoordinator - MCExperimentCoordinator, ExperimentCoordinatorProofs
                       ForgeRuntime ---------- MCForgeRuntime, ForgeRuntimeProofs
                       LocalInvestigator ----- MCLocalInvestigator, LocalInvestigatorProofs
ProviderLifecycle <--- ProviderStudy --------- MCProviderStudy, ProviderStudyProofs
                       ProviderHost ---------- MCProviderHost ---+ MCProviderCrate,
                       Placement ------------- MCPlacement ------+ ProviderHostProofs
                       FabricTraining -------- MCFabricTraining -+ MCFabric,
                       FabricDispatch -------- MCFabricDispatch -+ FabricProofs
                       TransferStudy --------- MCTransferStudy --+
RecurrentSpecialist == OneStepStudent -------- MCSpecialists ----+ DistillationProofs
```

An arrow is a refinement (`INSTANCE ... WITH`, or variables of the same name): the
detailed module implements the abstract one. The double line is the use of operators: the
student's teacher is the recurrent specialist. Each `MC` module defines the values a
`.cfg` gives to the constants; each `Proofs` module extends a component and TLAPS. The
operators whose comment begins with "Mutant" are not part of a specification: each is a
plausible wrong version of the definition after it, kept to show that a property would
notice. Three proof modules are about two components each, the halves of one crate or of one
file, or the two kinds of distillation; the names of their components differ for that reason
(`PlacementSpec`, `DispatchSpec`, `StudentSpec`). `MCProviderCrate` and `MCFabric` put two such
halves into one instance. The halves share no variable, so interleaving them would show nothing
new: each moves beside the other at rest, and the reachable states are those of the one and those
of the other.

### EvidenceLedger, an implementation of AppendOnlyLog

| Model | Code |
|---|---|
| `file`: lines, and whether the last one is terminated | what a reader of the path sees |
| `images` | what the storage may come back with after a power loss: what the last fsync left, and everything written since, whole, torn or absent |
| `pc`, `pending`, `outcome` of each writer | how far a process is inside `append()`, and how it ended |
| `acked` | history: what `append()` returned |
| `Verify` / `Refuse` | lines 329-342: the file is read and verified, the next record built from it, or refused |
| `Write`, `ShortWrite`, `WriteFails` | lines 343-346: the open, and the raw write of all, a part or nothing of the line |
| `Sync`, `SyncFails` | lines 346-348 |
| `Crash`, `PowerLoss`, `Edit` | the process or the machine stops; someone edits a payload in place |

A record body is a serial number and stands for its digest too, so equal digests mean
equal bodies. A line is readable or not; two records on one line, or a beginning of one,
are not. `Valid` is `verify()` clause by clause. The file exists from the start
(`initialize()`): whether the filesystem keeps a directory entry nobody synced is outside
the code. `Promise` maps the file to `AppendOnlyLog`: records appear at the end, an
acknowledged record and all before it stay, and only an unacknowledged tail may vanish.

### ExperimentCoordinator, an implementation of ExperimentLifecycle

`run()` is one action per append: the point it has reached is `at`, the records so far
`ledger`. `Log` is an append that stores its record or raises; `Move` is `transition()`,
which changes `states` first and appends after. `Call` covers lines 629-637: any request
of the set, in any state, so also one the governor refuses and a second one for the same
experiment. `Restart` is a new process: `states` empty, ledger kept. The ledger here is a
sequence, which is what `LedgerSingle` shows of a single writer; what several writers do
to it is the business of `EvidenceLedger`. A request carries what the plan, the
observation and the gates are checked for: visibility, identities, limits and counts. The
observation has an experiment identity of its own (`observed`), which nothing compares with
the plan's; the episode is recorded under that one (`Named`, `core.py:653`), and every other
record under the plan's. So the properties tell episodes by the run that recorded them, not
by the experiment they name.

`ExperimentLifecycle` translates `advance` of the MNCS source as a relation; the
coordinator's `state` is its variable. `FollowsLifecycle` says that every step of the
coordinator is a step of the lifecycle, a stutter or a restart, which forgets the states.

### ProviderHost

`catalog`, `providers` and `snapshots` are the host's three maps, and `reply` is what the
last `invoke()` returned. `Refuse` is a call that returns `Err` before the provider is
asked; `Succeed` and `Fail` are `normalize_success` and `normalize_error` with whatever
the provider answered: any number of bytes, any time, any flag, any error. A late result
that is also too long costs two failures, as in the code.

### ForgeRuntime

`states` and `attached` are the registry, `health` the health records, `snapshots` the
store, `witnesses` what `execute()` returned. `Execute` has one disjunct per way
`execute()` ends: `Decline` (a witness, health not told), `Misdirect` (an error that the
verifier takes although it never ran), `Run` (any answer of the verifier, in time or
late), `RunCrashes` (an exception that is not caught). `Settle` is the end of an observed
execution: `observe()`, then `set_state()` if health says quarantined. Operators may write
either table (`SetState`, `Quarantine`). `acts`, what operators did, and `ran` are history
variables. `ReportedKinds` and `ExercisedKinds` are what coverage and candidates say of the
snapshot types. `CoverageBuilt` is the check in `CoverageRecord.__post_init__`: without an
enabled verifier, but with a completed witness, `build_coverage` raises, and nothing is
reported.

The mutation operators register a derived snapshot, which is a `RegisterSnapshot` step.
An error message that contains the word "budget" makes a budget violation of an error;
`raises_budget` is that case. `ran` counts, since the operator's last act on a verifier,
the observed executions while its health was quarantined.

### Placement

The Rust and the Python implementation run side by side on the same policy, provider and
diagnostics. `Decide` is `decide_placement` of both, `OutOfMemory` is a model that does
not fit after all, followed by `fallback_after_oom` and `fallback_policy_after_oom` of
both, and a new decision on new diagnostics. `U64Max` stands for a limit that is not set;
the Rust sums saturate there and the Python sums do not. The one assumption about the
outside is that no accelerator reports 2^64 - 1 free bytes. Probing the accelerator
(`torch_runtime.py`) and loading a model are the environment: what they report is any
element of `Diagnostics`, at any decision.

### FabricTraining

`records` are the source records there are so far, and `Arrive` adds one at any time.
`MakeShards` is `make_training_shards`, with the seeded order of the records as `Rank`;
`Train` is a worker with a view of its own, which may be any subset of the records,
trained by the code of either family; `Aggregate` is both aggregation functions, given any
sequence of partials that were ever made. A statistic is a row count and a sum for each
column of the first partial (`Summands`): of each record the model keeps in how many of these
it was added up (`counted`), so that a column left out or a record added twice shows, and the
order in which the shards were added (`merged`), on which floating point depends. The
record type "None" asks for all types. The identities a partial copies from its shard are
its fields; the identity of the shard itself is kept too, because the code carries it, and
`Accepted` does not look at it, because the code does not. Calibration is one that fits.

### FabricDispatch

`BuildGraph` and `BuildMatrix` are the layout of a study: `Layers` is the topological
order, in rounds of nodes that identities sort (`Ascending`), and `Cell` the workload of a cell, with the seed and
the experiment of its repetition. `Submit` is the call of `execute_many`, which sorts jobs
by the digest of their workload (`DigestRank`); `Refuse`, `RunHere` and `Dispatch` run the next
job: refused before anything runs, by the backend itself (`fallback`), or by Fabric. What the
controller returns is any sequence of `Answers`, of whatever length: the code loops over it and
counts nothing (`fabric_execution.py:1030-1032`). An answer that no receipt can be built of
raises out of the loop and takes what was `collected` along (`Raise`). `tally` is history: how
many jobs of a workload ran, and how many answers they got. `Accept` and `Normalize` are `ReplayGuard`
and `normalize_fabric_execution` of the family integration: the code calls them from
different places, so no order of the two is assumed. A result is the artifact that computed
it; workers, controller and execution records are external.

### TransferStudy

The developer's view (`Development`) and the evaluator's (`TransferEvaluator`) are what may be
handed to the grouping, and those or all records to the index; `add_source_records` raises at
the first record that is hidden and keeps those before it. `Distil` builds principle and
strategy of a group of either view and indexes the principle: the code that groups and builds
asks for identities, not for visibility. `Revise` derives a strategy from another on the
evidence of an evaluation, whose outcome is hidden; no code that builds a strategy asks
`reject_same_candidate_repair`, so `Revise` has no such guard, and `Rejects` is what the
workflow answers when it is asked. `Freeze` and `Finalize` are `TransferWorkflow`, whose
predictions are those of one process; `Restart` loses them and the index, while strategies and
evaluations are records their holders keep. Two
predictions of equal content are one. `Hits` scores what `retrieve` finds, with the negative memory a strategy declares,
and `Cuts` is what may be left of it at the limit: hits of one score are sorted by class
(`Outranks`) and then by digest, that is, in any order. Scores are the code's, in halves.

### LocalInvestigator

One call of `run_local_investigator` per member of `Runs`, each at a point `pc` of its own:
`Start` packs the context or raises, `Identify` resolves the ref, `Check` is the test that
the path does not exist, `Add` is `git worktree add`, `GitFails` any way Git ends otherwise,
with a part of a tree left or none, then `WriteMetadata`, `MakeRequest`, `Launch`, and
`Answer` or `TimeOut`. `Die` is the death of the process at any point. `Cleanup` is an
operator with the handle of a run that returned: the handle is a path, so what is removed
is whatever stands there. `trees` are the worktrees by name, and `run[r].ran` is the tree
the harness was started in. The checks of a response (`integrations.py`) are `Defects`.

### ProviderStudy, an implementation of ProviderLifecycle

`ProviderLifecycle` is `ProviderLifecycleStore`: `_ALLOWED`, `register_candidate` and every
public transition, which is `Transition` to a state; `NewStore` is a store made anew.
`ProviderStudy` adds `Study`, one turn of it: `Selections` is `select_providers` with every
kind of policy (the random one takes any set of its size). It says what the loops of the code
compute: the first of those compatible in the order of a key (`FirstOf`), and for diversity the
set in which each provider is, exactly if there is room and it adds to those before it
(`Diverse`), which is what the greedy loop collects. And `ProviderRun` is `run_provider`
with whatever loading and inferring come to. The metrics and comparisons are operators on
`runs`. Architectures, objectives, costs and families are numbers, because the code sorts them. `StudyFollowsLifecycle` is the
refinement: routing and running leave the store alone.

### RecurrentSpecialist and OneStepStudent

`RecurrentSpecialist` is the integer arithmetic of training, calibration and inference,
with the code's constants: distances, centroids that round down, refinement that stops at
`ConvergenceDelta` or the budget, thresholds. `OneStepStudent` has the immutable records
that teachers, retained observations and students are, and one action per way to make one.
`Collect` retains an observation with its status; `TrainStudent` takes any set of them and
keeps only what the code keeps, or raises; a model is made only if its own checks let it be
(`Wellformed`, `StudentWellformed`); `Ask` is a student with any teacher and any
context to fall back to. The network of a student is the constant `Score`: what training
ends in is any of `Weights`.

## What the runs show

`EveryRunEnds` is the one liveness property. It assumes that a call that can take its next
step does (`WF_vars(Proceed(r))`): between packing and the result `run_local_investigator`
waits for two kinds of subprocess only, and both have a timeout (`integrations.py:65`, and
`_git` of `worktrees.py`). `Proceed` holds the timeout and the failure of Git; it holds
neither the answer of the harness, nor the death of the process, nor anything operators do.
What the assumption takes for granted is that a killed harness leaves no child that keeps its
pipes open. Everything else is a safety or an action property: the rest of the code has no
scheduler, no timer and no thread of its own, and whether another call is ever made is up
to the caller.

Every run turns the deadlock check off, because the number of records, calls, executions or
plans is bounded, or recovery ends, and a behaviour stops there.

| Run | Properties | Instance | Shows |
|---|---|---|---|
| `LedgerFaults` | `ValidLedgerHoldsAcknowledged`, `DamageBounded`, `AppendsNeverRepair` | 2 writers, 4 records, 2 faults, 1 edit | A ledger that verifies has lost nothing that was acknowledged, whatever raced, tore, died or was edited; behind the last good line there is at most one line per writer; appends never make a damaged ledger verify. |
| `LedgerSingle` | `ImplementsAppendOnlyLog` | 1 writer, 4 records, 4 faults, no torn lines | The ledger implements the append-only log. |
| `CoordinatorRetries` | `LedgerTellsState`, `ObservedOnce`, `PrinciplesRestOnEvidence`, `DisagreementIsFinal`, `FollowsLifecycle` | 2 experiments, observations that name either, 3 calls, 2 failed appends, 1 new process | Memory and ledger part only by the one transition whose append raised, and then for good; the runs of an experiment record one episode per process; a principle cites the episode and the evaluation of its own run, whatever experiment the episode names; states move as `lifecycle.mncs` says. |
| `ProviderCrate` | `QuarantineExact`, `RepliesAccountable`; `LanguagesAgree`, `RecoveryDescends`, `ReserveHonoured` | 2 providers, threshold 2, queries of up to 2 snapshots; every kind of policy, provider and accelerator, u64 up to 8 | Quarantine starts at the threshold; a `COMPLETED` reply is whole and in time and costs nothing, any other costs a failure. The two implementations of placement agree; recovery takes at most two steps, downwards; weights, workspace and reserve fit together. |
| `ForgeHealth` | `ThresholdHolds`, `OneExecutionPerAct`, `NoSilentGap` | 2 verifiers, every kind of request, threshold 2, 4 executions, 1 act each | Registry and health part only where an operator parted them; an operator's act buys a quarantined verifier one observed execution; where coverage can be built, a snapshot type of a verifier was exercised or is a candidate, but for the types after the first of a quarantined one. |
| `Fabric` | `SingleHostEquivalent`, `PlanSuffices`; `OrderSound`, `CellsToldApart`, `BatchWhole`, `CompletedByArtifact`, `OneStudyPerRecord` | 2 tables and 2 pairs of states, one of them selection-observed, 2 plans of up to 3 shards, 2 seeds, 1 model; 3 workloads, 5 nodes, batches of 2 jobs, up to 2 answers to each, 2 records normalized | Every aggregate of records a single host can train on has each of them once in every sum; the partials of a plan are accepted, whatever arrived in between. A graph runs in order; cells are told apart by their workloads; a batch has every job and every answer, or raised; a result is its artifact's; what a guard let pass belongs to one study. |
| `FabricMergeOrder` | `MergedInShardOrder`, violated | the same, 1 plan | Centroid sums are taken in the order of the argument. |
| `Transfer` | `JudgedOnce`, `ConflictsYield`, `ProhibitionShown` | 3 records, 2 ideas, 1 memory, 3 queries, 1 environment, 3 strategies, 2 evaluations, 2 processes | One process finalises a prediction once, whoever freezes it again. A prohibited strategy takes the place of a clean one at one tie only, of full trigger, scope and support against scope alone; it is never shown without the memories that match. |
| `TransferRepair` | `OwnResultRejected`, violated | the same | A workflow made anew rejects no repair. |
| `LocalRuns` | `HarnessInOwnTree`, `RetriesWait`, `EveryRunEnds` | 3 calls, 5 records, 2 commits, 2 cleanups | A harness runs in the whole worktree its run added, unless the operator removed that run's with another's handle; a retry waits for a cleanup; every call ends. |
| `Portfolio` | `HistoryTellsState`, `AdmissionsEarned`, `CountsFit`, `DiversityCovers`, `RerunsChangeNothing` | 5 providers, 2 cases, 5 policies, 3 runs; 1 provider with 2 artifacts and 4 transitions | Histories explain states; admission is earned; counts and comparisons fit together, each failure and disagreement on what both judged accounted to one or the other, and ignore reruns; diversity leaves nobody out before its limit. |
| `Specialists` | `TaughtByVerified`, `FallbackToOwnTeacher`, `RefinementKeepsClass`, `CalibrationHolds` | 2 teachers of 2 generations, 2 observations, 2 students | Nothing unverified teaches; the answer is the student's or that of the very model it learned from; refinement keeps the nearest class; a model knows what it was calibrated on. |

Type correctness is part of the proved invariants, so no run checks it.

### Where code and documents part

Two runs check a statement of the documents that the code does not keep; TLC finds each
violated, and `PROJECT.json` has them as findings.

* `MergedInShardOrder`. docs/ARCHITECTURE.md:145-146 says the controller merges in deterministic
  shard order. Transition counts are merged so; `aggregate_centroid_partials` adds up its
  argument as it comes (`fabric_execution.py:778-783`).
* `OwnResultRejected`. docs/THREAT_MODEL.md:77, docs/ARCHITECTURE.md:185-187 and
  docs/LEARNING_MODEL.md:77-78 say a strategy cannot be repaired from its own hidden result.
  `reject_same_candidate_repair` (`distillation.py:793-796`) knows the predictions of its own
  process only. Nor does any code but tests call it, and for a strategy derived from the one
  that was judged it never raises.

### Met while modelling, shown by no run

Other places where the code and its documents part, or where a reader should look. No run
checks them:

* The observation handed to `run()` may name another experiment than the plan: nobody compares
  the two (`core.py:629-634`), and the episode is recorded under the observation's (`core.py:653`).
  The attribution and the principle of the run then cite another experiment's episode. The model
  has such requests, and the properties of the coordinator are stated so that they hold of them.
* A quarantined verifier "creates a diagnostic coverage hole" (`forge_lifecycle.py:1354`) and
  becomes a candidate. When it was the last one enabled and a run had completed, `CoverageRecord`
  refuses to be built (`forge_lifecycle.py:1115-1117`), and there are no candidates at all.
* docs/THREAT_MODEL.md:76-77 says predictions are frozen before the evaluator can read the
  result. `transfer_evaluator` asks for no prediction, and the reference study itself digests the
  hidden records before it freezes one (`distillation.py:1709`).
* docs/THREAT_MODEL.md:75-76 says clustering operates on an eligible view.
  `reference_feature_groups` (`distillation.py:427`) takes whatever view it is given, and the
  sources of a strategy are identities nobody looks up. `Distil` has groups of either view.
* `execute_provider` never compares the number of answers with the replicas it asked for
  (`fabric_execution.py:1030-1032`): a job may come back with no observation at all, or with more
  than it has replicas. The model has both.
* Hits that tie are ordered by class and then by digest (`distillation.py:1131-1132`). A
  prohibited strategy with trigger, scope and support scores 1, as does a clean one with nothing
  but its scope, so a digest may decide for the prohibited one. `ConflictsYield` says that this is
  the only such tie.
* An evaluator identity mismatch raises after the move to OBSERVED and leaves the
  experiment there (`core.py:669-670`; README.md:332 "Any stage may terminate as rejected
  or UNKNOWN").
* A short raw write is acknowledged: `append()` does not look at the count `write`
  returns (`core.py:345`).
* A second `run()` of an experiment appends its hypothesis and its plan before the state is
  looked at (`core.py:638`; `core.py:127` "hypotheses must predate intervention results").
* Abstaining and being out of distribution count as failures towards quarantine
  (`lib.rs:435`; docs/LEARNED_PROVIDER_RUNTIME.md:136 names integrity, calibration and
  budget failures), and the provider is shown a zero feature-extractor identity
  (`lib.rs:363`; the same document, 96-103). The host reads no `operation_limit`.
* An unknown snapshot identity in a request is counted as an error of the verifier
  (`forge_lifecycle.py:757`, `:698` "repeated verifier execution errors").
* `compare_witnesses` (`forge_lifecycle.py:898-924`) never compares the verifiers' ids, so
  two witnesses of one verifier agree with each other. It is not modelled.
* Of a quarantined verifier that accepts several snapshot types only the first becomes a
  candidate (`forge_lifecycle.py:1355`; docs/ROADMAP.md:48-50).
* The reference fabric study's centroid model names a transition record as its training record
  (`fabric_execution.py:1402`).
* `run_reference_study` unlinks an earlier ledger before it starts (`core.py:743`).
* Two processes that append at once write two lines with one sequence number, and the ledger
  refuses appends from then on (`core.py:330`). After a power loss a line may be there without
  its newline: it verifies, and the next append joins it (`core.py:344`).
* A verifier that raises another type of exception is never counted, however often it does
  (`forge_lifecycle.py:818`; docs/THREAT_MODEL.md:66-68).
* With device AUTO and offload excluded, a model that runs out of memory is tried again with
  sequential offload (`placement.rs:320-328`, `placement.py:296`;
  docs/LEARNED_PROVIDER_RUNTIME.md:65-66).
* Shards of tables of different widths aggregate to a model whose width depends on the order of
  the partials, or raise an `IndexError` (`fabric_execution.py:779`), where a single host refuses.
  `SingleHostEquivalent` is about records a single host can train on.
* The name of a worktree ignores prompt, role and commit, so two different investigations of one
  question block each other. A request that `LocalHarnessRequest` refuses leaves its worktree
  behind, and a run that raised hands out nothing to remove it with. Output that is no UTF-8
  and a missing command leave `run_local_investigator` as exceptions (`integrations.py`;
  docs/INTEGRATIONS.md:18-20 says quarantined or UNKNOWN).
* A strategy that declares its negative memory ignores the memories it does not declare, and a
  new process knows none of the predictions of the one before.
* Routing and running never look at a provider's lifecycle state; a single-provider policy with a
  larger maximum selects several; costs are compared as strings; a run that completes and is
  flagged out of distribution counts under both; the reference study runs its providers before
  it admits them.
* A second `context_update` of one specialist context always raises, because the identity of the
  updated context is checked against content it no longer has. Training ignores the context
  shift that queries get. Only two types of exception make a student fall back.
* `execute_many` ignores the dependencies of the workload graph; a workload may ask for 64
  replicas and `execute_provider` accepts 8; a backend's own execution records name the workload
  as candidate, while `normalize_fabric_execution` wants the study, so none of them can be
  normalized; `normalize_fabric_execution` asks no `ReplayGuard`.

### Why the bounds are enough

*Ledger.* A race needs two writers; four records suffice for a good line, two that race
and one behind them; two faults for a torn line followed by a crash. *Coordinator.* A run
has eleven appends; two of them failing, a second call after the first, a third for the
other experiment, and a restart between any two steps cover every ordered pair of causes.
*Host.* The threshold is crossed from below; sizes 0 to 2 lie below, at and above each
limit; a query of two snapshots may name one that is missing. That a threshold of 0 counts
as 1, and what the counter does at its top, are left to the theorem. *Forge.* Four
executions are the threshold, one more after each operator's act and one to spare; two
verifiers suffice because a step writes the records of one. *Placement.* A u64 of 0 to 8
lets a sum of storage, workspace and reserve lie below, at and above every limit and
saturate; the arithmetic has no other constants. Recovery ends after two steps, so a
behaviour is short and the instance is wide: every combination of device, offload,
precision and capability that the code tells apart. *FabricTraining.* Two plans that
differ in seed, count or dataset are what can be confused with each other; four records
give a plan of three shards one shard of two records; each family and each type has two
records, and one record may be seen but not trained; a model is not read by any step, so one
is enough (`MaxModels`). *Dispatch.* Two jobs, so that one follows another that is
lost; workloads of two and of three replicas, of which two are accepted, with seeds that meet
after a repetition; none, one or two answers (`MaxAnswers`) are fewer than the replicas and as
many, and the theorem is about any number; five nodes whose identities sort against their dependencies, in every
selection, one of them with a dependency that is not there; one record identity under which two
studies are told. *Transfer.* The three records are one for the developer's view, one for the evaluator's and one
for neither; two evaluations are one prediction judged twice, or once in each process, and two
processes suffice, because a process is told from an earlier one only. The idea that declares
the memory has the trigger of the queries, the other only its scope; an evaluation and a
revision give the first the support with which it ties with the other: parent, revision and
stranger are three strategies. The limits are below, at and above the hits. *LocalRuns.* Three calls are two that race
and one that retries; two cleanups let a handle meet the tree of a later run. *Portfolio.* Of
three learned providers two share an architecture and two an objective, and two baselines
share an objective or nothing with them; three runs are two of one pair with different outcomes
and one to compare them with; four transitions reach transfer admission, and a second artifact
is what a repeated registration would smuggle in. *Specialists.* Two teachers are one and its
recalibration, or two generations; rows lie in classes, between two of them and outside the
envelope; two observations are a verified and another one.

## What is proved

TLAPS checks these for every value of the constants that meets the `ASSUME`s of the
module, without bounds on writers, experiments, providers, verifiers, records, jobs, nodes, runs
or transitions. (The bounds on calls and faults are constants too: the theorems hold for every one
of them.) Every safety and action property of every passing run is a theorem; `EveryRunEnds`, which
is about fairness, stays with TLC.

* `EvidenceLedgerProofs`. `Invariant`, from which `TypeCorrect` and
  `ValidLedgerIsComplete` (`ValidLedgerHoldsAcknowledged`) follow, and `DamageStays`
  (`AppendsNeverRepair`). The property alone is not inductive: a power loss may bring back
  any image of the storage, so the invariant says of every image what the property says of
  the file; an fsync acknowledges a line written earlier, so it says where that line is;
  and an edit must leave a digest that no body has, so every digest is that of a body
  already drawn. The core of the argument is about one write: text added at the end of a
  file either extends a valid ledger by the record it is or leaves it invalid (`PutValid`),
  and that keeps what every image promises (`StoreIInv`).
  `DamageIsBounded` (`DamageBounded`): a writer that verified before the damage may still add a
  line; the invariant says that the lines behind the last good one are no more than the writers
  that cannot any more (`Harmless`), and in no image more than all of them. `ImplementsLog` (`ImplementsAppendOnlyLog`): with one writer whose lines are
  not torn, each step maps to a step of `AppendOnlyLog` or to a stutter (`StepRefines`); the
  invariant says that every image is a beginning of the file which holds what was acknowledged.
* `ExperimentCoordinatorProofs`. `CoordinatorInvariant`, `CoordinatorTypeCorrect`,
  `ExperimentsObservedOnce`, `CoordinatorFollowsLifecycle`. That an experiment is observed
  once rests on where `run()` stands: an episode is written at one point, that point is
  reached only from DRAFT, and a state never returns to DRAFT within a process.
  `AgreementInvariant` says of each experiment that memory and ledger agree or are apart at a
  point `run()` cannot get past; `LedgerIsFaithful` (`LedgerTellsState`) and `ApartForGood`
  (`DisagreementIsFinal`) are read off it. `PrinciplesAreGrounded` (`PrinciplesRestOnEvidence`)
  rests on what lies behind the point a run has reached: `SomethingBehind` gives, for each
  point, the places in the ledger of what the run has recorded, in their order, and that the
  sources it holds are those places. One lemma per step carries that over one append.
* `ProviderHostProofs`, the host. `HostInvariant`, `HostTypeCorrect`, `MapsAgree`,
  `QuarantineAtThreshold`, `QuarantineIsHeld`. The invariant is the conjunction of the
  checked ones and a bound of the counter; it is inductive because one call adds at most
  two failures and is only accepted below the threshold. `RepliesAreAccountable`
  (`RepliesAccountable`) is an action property: a failure always shows in the provider's record,
  because the counter does not reach its top below the threshold (`FailureShows`).
* `ProviderHostProofs`, placement. `PlacementInvariant`, `PlacementTypeCorrect`,
  `ImplementationsAgree` (`LanguagesAgree`), `RecoveryIsBounded` (`RecoveryDescends`),
  `ReserveIsHonoured` (`ReserveHonoured`). The two policies in force differ only on the CPU,
  where neither reserve nor cap is read; the invariant says which policy follows from what was
  asked and what ran out. `SaturationIsHarmless` is the lemma about the arithmetic: a sum that
  saturates is above any budget, because no budget reaches 2^64 - 1.
* `ForgeRuntimeProofs`. `ForgeInvariant`, `ForgeTypeCorrect`, `QuarantineThreshold`
  (`ThresholdHolds`), `QuarantineBinds` (`OneExecutionPerAct`), `GapsAreReported`
  (`NoSilentGap`). The invariant gives each verifier a credit: after its threshold, errors are
  paid for by operators' acts, and an enabled verifier with quarantined health has an act that
  is not spent yet.
* `FabricProofs`, training. `TrainingInvariant`, `TrainingTypeCorrect`, `EachRecordOnce`
  (`SingleHostEquivalent`), `RetriesChangeNothing` (`RetriesAgree`), `PlansSuffice`
  (`PlanSuffices`), for any number of records, plans and shards. What carries the argument
  is that a partial is the whole of its shard (`RetriesChangeNothing` is read off it).
  `CountedOnce` turns pairwise disjoint partials with a given union into a count of one
  each, in the row count and in every column of the record where the records decode together
  (`PartialColumns`); `ShardsPartition` shows that the shards of a plan are disjoint and cover it.
* `FabricProofs`, dispatch. `BatchInvariant`, `FamilyInvariant`, `BatchesReturnWhole`
  (`BatchWhole`), `CompletionIsByArtifact` (`CompletedByArtifact`), `RecordsTellOneStudy`
  (`OneStudyPerRecord`), `MatrixInvariant`, `CellsAreDistinct` (`CellsToldApart`) and
  `GraphsAreOrdered` (`OrderSound`), for any workloads, replicas, batches and graphs. That a
  batch is whole is said of the end only; the invariant says where a batch stands: the jobs
  still to run are the end of those asked for, and the observations so far are as many as the
  answers to those before (`CoversNext` is the arithmetic of one more job). The order of a graph is
  computed by recursion: `LayersAreRounds` shows that the rounds are well defined, because each
  leaves fewer nodes, and `LayersOrder` that what they find is an order, by the smallest set of
  nodes for which it were not.
* `ProviderStudyProofs`, the lifecycle. `StoreInvariant`, `StudyFollowsLifecycle`,
  `HistoryIsComplete` (`HistoryTellsState`), `AdmissionIsEarned` (`AdmissionsEarned`), for any
  providers and any number of transitions. The history is only extended, and what makes the
  properties inductive is that the state of a provider is the one its latest record tells, and
  that a provider on its way to admission has been nowhere else (`StraightTo`). `StagesInOrder`
  is what the table of transitions leaves.
* `ProviderStudyProofs`, routing and measures. `RunsInvariant`, `DiversityIsCovered`
  (`DiversityCovers`), `RerunsAreIgnored` (`RerunsChangeNothing`), `CountsFitTogether`
  (`CountsFit`), for any bindings, cases, policies and outcomes. The runs that count have
  distinct keys (`KeptOnce`), and stay the same when no key is new (`KeptKept`); the counts fit
  because each is the size of a set and the sets are parts of one another. A pair two providers
  are compared on stands for one wrong run of each at most, an injection
  (`FailuresAreItsOwn`); of the pairs both judged, they disagree on those that only one of them
  fails, and on no other.
* `DistillationProofs`, the study. `StudyInvariant`, `OneJudgementPerProcess` (`JudgedOnce`),
  `ProhibitedYield` (`ConflictsYield`), `ProhibitionIsShown` (`ProhibitionShown`). That a
  prediction is judged once follows from what `finalize` looks at, the evaluations of its own
  process, and from an invariant that no evaluation is of a process to come; it
  says besides that the index holds no hidden source record, that evidence, predictions
  and evaluations are of what there is, and that a process rejects, when asked, each strategy it
  judged itself. It does not say that hidden outcomes stay out of what is built, because they do
  not. The two about retrieval follow from the scores: a conflict costs more than anything but
  full trigger, scope and support earns, and a memory that matches outranks even that.
* `DistillationProofs`, the specialists. `SpecialistInvariant`, `OnlyVerifiedTeaches`
  (`TaughtByVerified`), `OwnTeacherAnswers` (`FallbackToOwnTeacher`), `RefiningKeepsTheClass`
  (`RefinementKeepsClass`), `CalibratedIsKnown` (`CalibrationHolds`), for any vectors, rows,
  contexts and scores. A step of refinement moves every lane towards the centroid, so it comes
  nearer to that by the whole way it went, and to no other by more (`Distances4`, `RefineKeeps`):
  the class stays, with no less margin. The thresholds follow because a model reaches as far as
  the rows it was calibrated on (`ReachCovers`), and confidence grows with the margin.
* `LocalInvestigatorProofs`. `LocalInvariant`, `HarnessesInTheirTrees` (`HarnessInOwnTree`),
  `RetriesHaveToWait` (`RetriesWait`), for any runs, names, commits and cleanups. The invariant
  follows the tree of a run from `Add` to the launch: it stands whole under the name of its run
  or the operator removed it with another's handle, and while it stands no run of the same name
  adds one.

`TypeCorrect` and its like, `MapsAgree`, `QuarantineIsHeld` and `RetriesChangeNothing` state
properties no run checks any more, because the proofs cover them.

What the proofs assume of the constants: the writers are finitely many; identities told apart by
a rank have different ranks; nodes are finitely many numbers; a workload names its replicas,
experiment and seed; a policy lists candidates; rows and queries are vectors of the program's
four lanes from -1000 to 1000; a network scores a class from 0 to 1000. Each is an `ASSUME` of
the component's module, evaluated on every run.

Induction is over sets: a set of naturals has a least member and a set of finite sets a smallest
one (`WFMin` of the library), so a counterexample would have a least one. What stays with TLC:

* `EveryRunEnds`: liveness under fairness.
* That `Layers`, `Selections` and the integer arithmetic compute what Python computes; the proofs
  start from the definitions.

None of the modules has a `RECURSIVE` operator.

## Plan

What is left, most important first:

1. A composition of coordinator and ledger, in which the coordinator's appends are those
   of `EvidenceLedger`, with the refinement proved.
2. The morning report, the quarantine queue and `CandidateTransaction` of the local
   investigator.

## Not modelled

* **Native loader.** Raw memory, `dlopen` and a C ABI lie below what a state machine of this kind
  shows; the host above it is modelled.
* **Learned and reference providers, the student's network, metrics of calibration.**
  Floating-point arithmetic; what the rest of the code sees of them is a constant or a choice.
* **Formats.** Binary snapshots, canonical JSON and hashing: identities are model values, and equal
  content has equal identity.
* **The other MNCS sources** mirror Python rules as pure functions, and `src/tools` compares the
  two over generated corpora; the Python side is what is modelled. The tools and corpora themselves
  have no behaviour of their own.
* **`NetworkFabricBackend`**, `forge_provider.py` and the adapters to Commons and Ravel hand
  plain records to packages outside the repository, with the checks modelled elsewhere.
* **`compare_witnesses`**, a pure function of two witnesses.
* **Command line and fixtures.** They call what is modelled.
* **Limits on sizes** (`MAX_WORKLOADS`, `MAX_DEPENDENCIES`, 64 cells of a matrix, lengths of
  texts) where going over one is refused before anything else happens.

## Running

```
tlc -workers 2 -config LedgerFaults.cfg MCEvidenceLedger
tlapm EvidenceLedgerProofs.tla
```
