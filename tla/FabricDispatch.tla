---------------------------- MODULE FabricDispatch ----------------------------
(***************************************************************************)
(* Dispatching workloads, src/mnel/fabric_execution.py, and taking up what *)
(* comes back, src/mnel/family_integration.py.  A study lays its workloads *)
(* out in a graph and in a matrix of cells, hands jobs to a backend that   *)
(* asks for replicas of each workload, one job after the other, and        *)
(* normalizes execution records of Fabric, which may be replayed or        *)
(* conflict, into evidence of a study.  Workers, the Fabric controller and *)
(* the records it hands out are external.                                  *)
(***************************************************************************)
EXTENDS Naturals, Sequences, FiniteSets, SequencesExt

CONSTANTS
  Workloads,     \* DistributedWorkloads: records of name, artifact, replicas, experiment and seed
  DigestRank,    \* by workload, where its identity, a digest, sorts it
  Artifacts,     \* artifacts of providers
  Nodes,         \* identities of workload nodes; numbers, for they are sorted
  Dependencies,  \* the nodes each of them depends on
  NodeLists,     \* the sequences of nodes a graph is asked for
  WorkloadLists, \* the sequences of workloads a matrix is asked for
  ControlLists,  \* the sequences of controls a matrix is asked for
  MAX_REPETITIONS,
  MAX_REPLICAS,  \* what execute_provider accepts; a workload may ask for more
  ExecutionRecords, \* records of id, candidate and manifest
  Bindings,      \* FamilyIdentityBindings: records of study, record, manifest and artifact
  MaxJobs,       \* bound: jobs of one batch
  MaxAnswers,    \* bound: answers of the controller to one job
  MaxEvidence    \* bound: records normalized

ASSUME WorkloadsAssumption ==
  /\ \A w \in Workloads : /\ {"replicas", "experiment", "seed"} \subseteq DOMAIN w
                          /\ w.replicas \in Nat \ {0}
  /\ \A ws \in WorkloadLists : ToSet(ws) \subseteq Workloads
ASSUME DigestRankAssumption ==
  /\ DigestRank \in [Workloads -> Nat]
  /\ \A v, w \in Workloads : DigestRank[v] = DigestRank[w] => v = w
ASSUME NodesAssumption ==
  /\ IsFiniteSet(Nodes) /\ Nodes \subseteq Nat
  /\ NodeLists \subseteq Seq(Nodes)
ASSUME DispatchBounds ==
  /\ MAX_REPLICAS \in Nat /\ MAX_REPETITIONS \in Nat
  /\ MaxJobs \in Nat /\ MaxAnswers \in Nat /\ MaxEvidence \in Nat

None == "None"

VARIABLES
  fallback,  \* whether the Fabric package is missing, so the backend runs providers itself
  batch,     \* the jobs execute_many has still to run, in the order it runs them
  asked,     \* the jobs it was asked to run
  collected, \* the observations it has so far
  tally,     \* history: by workload, the jobs of the batch that ran and the answers they got
  result,    \* what the last call returned: a batch, a graph or a matrix
  guard,     \* the contents a ReplayGuard remembers
  accepted,  \* the records it let pass
  evidence   \* the records normalized, each with its binding

dispatchVars == <<fallback, batch, asked, collected, tally, result, guard, accepted, evidence>>

-----------------------------------------------------------------------------
(* The layout of a study.                                                  *)

\* Mutant: one ordered dependency is enough.
ReadyWithOne(remaining) ==
  {n \in remaining : Dependencies[n] = {} \/ Dependencies[n] \ remaining # {}}

\* topological_order: in layers, each of the nodes whose dependencies are all ordered.
Ready(remaining) == {n \in remaining : Dependencies[n] \cap remaining = {}}

Ascending(nodes) ==
  CHOOSE s \in [1 .. Cardinality(nodes) -> nodes] : \A i, j \in DOMAIN s : i < j => s[i] < s[j]

Layers[remaining \in SUBSET Nodes] ==
  IF Ready(remaining) = {}
    THEN <<>>
    ELSE Ascending(Ready(remaining)) \o Layers[remaining \ Ready(remaining)]

\* A graph is refused when it is empty, repeats a node, misses a dependency or has a cycle.
Graphs(nodes) ==
  {layers \in {Layers[ToSet(nodes)]} :
     /\ nodes # <<>>
     /\ IsInjective(nodes)
     /\ \A n \in ToSet(nodes) : Dependencies[n] \subseteq ToSet(nodes)
     /\ ToSet(layers) = ToSet(nodes)}

\* Mutant: the experiment of a cell does not tell its repetition, which the seed is to do.
ExperimentUnrepeated(w, control, repetition) == <<w.experiment, control>>

Experiment(w, control, repetition) == <<w.experiment, control, repetition>>

\* DistributedStudyCell: each repetition has a seed and an experiment of its own.
Cell(w, control, repetition) ==
  [ control |-> control, repetition |-> repetition,
    workload |-> [w EXCEPT !.seed = @ + repetition,
                           !.experiment = Experiment(w, control, repetition)] ]

\* A matrix is refused when it is empty or two of its cells have the same identity.
Matrices(ws, controls, repetitions) ==
  {cells \in { {Cell(w, control, repetition) :
                  w \in ToSet(ws), control \in ToSet(controls), repetition \in 0 .. repetitions - 1} } :
     /\ ws # <<>> /\ controls # <<>> /\ repetitions \in 1 .. MAX_REPETITIONS
     /\ Cardinality(cells) = Len(ws) * Len(controls) * repetitions}

-----------------------------------------------------------------------------
(* Jobs and observations.                                                  *)

\* A case is of a kind the provider decodes, or of another.
Cases == {"decoded", "foreign"}

Job == [workload : Workloads, artifact : Artifacts, case : Cases]

Dispositions == {"completed", "invalid", "unavailable"}

\* FabricExecutionObservation: what it says of the artifact is what the workload names; the
\* result is that of the artifact which computed it.  The worker it names is left out.
Observation(w, disposition, value) ==
  [ workload |-> w, artifact |-> w.artifact, disposition |-> disposition, result |-> value ]

\* Mutant: the provider is trusted to be the one the workload names.
RefusedLate(job) ==
  job.workload.replicas > MAX_REPLICAS \/ (~fallback /\ job.case = "foreign")

\* The job is refused outright: execute_many then raises whatever it has collected.
Refused(job) ==
  \/ job.artifact # job.workload.artifact
  \/ job.workload.replicas > MAX_REPLICAS
  \/ (~fallback /\ job.case = "foreign")

\* The fallback stamps a result with the artifact of the workload.
Inferred(job) ==
  IF job.case = "decoded"
    THEN Observation(job.workload, "completed", job.artifact)
    ELSE Observation(job.workload, "invalid", None)

\* What the controller may answer: a result of the artifact a worker staged, an unreadable one
\* being as one of another artifact; no result at all; or a record no receipt can be built of.
Answers == [kind : {"result"}, by : Artifacts] \cup [kind : {"refusal", "unsealed"}]

Received(job, answer) ==
  CASE answer.kind = "result" /\ answer.by = job.workload.artifact ->
         Observation(job.workload, "completed", answer.by)
    [] answer.kind = "refusal" -> Observation(job.workload, "unavailable", None)
    [] OTHER -> Observation(job.workload, "invalid", None)

\* The tally with one more job of a workload, and the answers to it.
Nothing == [w \in Workloads |-> [jobs |-> 0, answers |-> 0]]

Counted(w, count) == [tally EXCEPT ![w] = [jobs |-> @.jobs + 1, answers |-> @.answers + count]]

-----------------------------------------------------------------------------
DispatchInit ==
  /\ fallback \in BOOLEAN
  /\ batch = <<>> /\ asked = <<>> /\ collected = <<>> /\ tally = Nothing
  /\ result = [kind |-> None]
  /\ guard = [id \in {} |-> None]
  /\ accepted = {} /\ evidence = {}

Idle == batch = <<>>

FamilyUnchanged == UNCHANGED <<guard, accepted, evidence>>

\* WorkloadGraph(nodes), of nodes that did not fail for themselves.
BuildGraph(nodes) ==
  /\ Idle
  /\ \E layers \in Graphs(nodes) :
       result' = [kind |-> "graph", nodes |-> ToSet(nodes), order |-> layers]
  /\ UNCHANGED <<fallback, batch, asked, collected, tally>> /\ FamilyUnchanged

\* make_study_matrix
BuildMatrix(ws, controls, repetitions) ==
  /\ Idle
  /\ \E cells \in Matrices(ws, controls, repetitions) :
       result' = [kind |-> "matrix", cells |-> cells]
  /\ UNCHANGED <<fallback, batch, asked, collected, tally>> /\ FamilyUnchanged

\* The jobs by the identities of their workloads alone; those of one workload as they were given.
Orders(jobs) ==
  {[i \in DOMAIN jobs |-> jobs[place[i]]] :
     place \in {p \in [DOMAIN jobs -> DOMAIN jobs] :
                 \A i, j \in DOMAIN jobs : i < j =>
                   \/ DigestRank[jobs[p[i]].workload] < DigestRank[jobs[p[j]].workload]
                   \/ jobs[p[i]].workload = jobs[p[j]].workload /\ p[i] < p[j]}}

\* execute_many is called.
Submit(jobs) ==
  /\ Idle
  /\ \E order \in Orders(jobs) : batch' = order /\ asked' = order
  /\ collected' = <<>> /\ tally' = Nothing
  /\ result' = [kind |-> None]
  /\ UNCHANGED fallback /\ FamilyUnchanged

\* The next job has its observations; after the last one all of them are returned.
Collect(observations, counted) ==
  /\ UNCHANGED fallback /\ FamilyUnchanged
  /\ IF Len(batch) > 1
       THEN /\ batch' = Tail(batch)
            /\ collected' = collected \o observations
            /\ tally' = counted
            /\ UNCHANGED <<asked, result>>
       ELSE /\ result' = [ kind |-> "batch", jobs |-> asked, tally |-> counted,
                           observations |-> collected \o observations ]
            /\ batch' = <<>> /\ asked' = <<>> /\ collected' = <<>> /\ tally' = Nothing

\* Mutant: a job that raises is passed over.
RaiseNothing == Collect(<<>>, tally)

\* An exception leaves execute_many: what it collected is gone.
Raise ==
  /\ batch' = <<>> /\ asked' = <<>> /\ collected' = <<>> /\ tally' = Nothing
  /\ UNCHANGED <<fallback, result>> /\ FamilyUnchanged

Refuse == ~Idle /\ Refused(Head(batch)) /\ Raise

\* execute_provider without Fabric: a provider that fails costs the one observation.
RunHere ==
  /\ ~Idle /\ fallback /\ ~Refused(Head(batch))
  /\ LET job == Head(batch)
         replicas == job.workload.replicas
     IN  Collect([worker \in 1 .. replicas |-> Inferred(job)], Counted(job.workload, replicas))

\* execute_provider with Fabric: the controller is asked for replicas and answers as often as it
\* will, for nothing counts the answers.  A record that no receipt can be built of raises, and
\* takes the answers before it along.
Dispatch ==
  /\ ~Idle /\ ~fallback /\ ~Refused(Head(batch))
  /\ LET job == Head(batch)
     IN  \E answers \in SeqOf(Answers, MaxAnswers) :
           IF \E i \in DOMAIN answers : answers[i].kind = "unsealed"
             THEN Raise
             ELSE Collect([i \in DOMAIN answers |-> Received(job, answers[i])],
                          Counted(job.workload, Len(answers)))

-----------------------------------------------------------------------------
(* Execution records of Fabric.                                            *)

\* Mutant: the guard remembers a content before it compares it.
RememberedAlways(record) == TRUE

\* ReplayGuard.accept raises over another content under an identity it knows.
Conflicts(record) == record.id \in DOMAIN guard /\ guard[record.id] # record

Remembered(record) == ~Conflicts(record)

Accept(record) ==
  /\ Idle
  /\ guard' = IF Remembered(record)
                THEN [id \in DOMAIN guard \cup {record.id} |->
                        IF id = record.id THEN record ELSE guard[id]]
                ELSE guard
  /\ accepted' = IF Conflicts(record) THEN accepted ELSE accepted \cup {record}
  /\ UNCHANGED <<fallback, batch, asked, collected, tally, result, evidence>>

\* FamilyEvidenceAdapter.normalize_fabric_execution: record and manifest are compared only
\* when the binding names them, the candidate always, the observed artifact when it is given.
Fits(record, binding, observed) ==
  /\ binding.record \in {None, record.id}
  /\ binding.manifest \in {None, record.manifest}
  /\ record.candidate = binding.study
  /\ observed \in {None, binding.artifact}

\* It asks no guard: a record is normalized whether a guard let it pass or not.
Normalize(record, binding, observed) ==
  /\ Idle /\ Cardinality(evidence) < MaxEvidence
  /\ Fits(record, binding, observed)
  /\ evidence' = evidence \cup {[record |-> record, binding |-> binding]}
  /\ UNCHANGED <<fallback, batch, asked, collected, tally, result, guard, accepted>>

-----------------------------------------------------------------------------
DispatchNext ==
  \/ \E nodes \in NodeLists : BuildGraph(nodes)
  \/ \E ws \in WorkloadLists, controls \in ControlLists, n \in 0 .. MAX_REPETITIONS + 1 :
       BuildMatrix(ws, controls, n)
  \/ \E jobs \in SeqOf(Job, MaxJobs) \ {<<>>} : Submit(jobs)
  \/ Refuse
  \/ RunHere
  \/ Dispatch
  \/ \E record \in ExecutionRecords : Accept(record)
  \/ \E record \in ExecutionRecords, binding \in Bindings, observed \in Artifacts \cup {None} :
       Normalize(record, binding, observed)

DispatchSpec == DispatchInit /\ [][DispatchNext]_dispatchVars

-----------------------------------------------------------------------------
(* Properties.                                                             *)

\* The order of a graph names each of its nodes once, and each after everything it depends
\* on, although digests sort the nodes of a layer in an order that has nothing to do with it.
OrderSound ==
  result.kind = "graph" =>
    /\ IsInjective(result.order) /\ ToSet(result.order) = result.nodes
    /\ \A i \in DOMAIN result.order :
         \A n \in Dependencies[result.order[i]] : \E j \in 1 .. i - 1 : result.order[j] = n

\* The workloads of two cells of a matrix are two workloads, so an observation, which names
\* nothing but its workload, belongs to one cell: neither the controls nor a repetition whose
\* shifted seed meets that of another workload are taken for one another.  The check for
\* duplicates compares cells, which name control and repetition, and would not notice.
CellsToldApart ==
  result.kind = "matrix" =>
    \A c, d \in result.cells : c.workload = d.workload => c = d

Of(observations, w) == {i \in DOMAIN observations : observations[i].workload = w}

\* A batch that returns has lost nothing: each of its jobs ran, each answer to a job is an
\* observation of its workload, whatever failed at a worker, and there is no other.  Without
\* Fabric that is one for each replica of each job; with it, as many as the controller gave,
\* which nobody compares with the replicas asked for.  A batch that raises returns none.
BatchWhole ==
  result.kind = "batch" =>
    \A i \in DOMAIN result.jobs :
      LET w == result.jobs[i].workload
          jobs == Cardinality({k \in DOMAIN result.jobs : result.jobs[k].workload = w})
      IN  /\ result.tally[w].jobs = jobs
          /\ Cardinality(Of(result.observations, w)) = result.tally[w].answers
          /\ fallback => result.tally[w].answers = w.replicas * jobs

\* A completed observation holds a result the artifact of its workload computed, also where
\* the fallback stamps the result itself, and also when a worker still had another bundle.
CompletedByArtifact ==
  result.kind = "batch" =>
    \A i \in DOMAIN result.observations :
      LET o == result.observations[i]
      IN  o.disposition = "completed" => o.result = o.workload.artifact /\ o.result = o.artifact

\* Records a guard let pass are evidence of one study under one identity, however often they
\* are replayed and in whichever order their conflicting versions arrive.
OneStudyPerRecord ==
  \A e, f \in {n \in evidence : n.record \in accepted} :
    e.record.id = f.record.id => e.binding.study = f.binding.study
=============================================================================
