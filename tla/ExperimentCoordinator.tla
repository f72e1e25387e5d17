------------------------ MODULE ExperimentCoordinator ------------------------
(***************************************************************************)
(* ExperimentCoordinator.run() of src/mnel/core.py: one experiment is      *)
(* taken from a plan to a distilled proposal by a straight line of ledger  *)
(* appends, some of which move the experiment's state.  The states live in *)
(* memory, the records in the ledger; transition() sets the state before   *)
(* it appends, and any append may raise (EvidenceLedger says how), with    *)
(* its record stored or not.  An exception leaves run() where it stands.   *)
(* A caller may call again with any request; a new process starts with no  *)
(* states on the old ledger.                                               *)
(***************************************************************************)
EXTENDS Naturals, Sequences, FiniteSets

CONSTANTS
  Experiments,  \* experiment identities
  Requests,     \* the plans and observations callers hand to run()
  MaxCalls,     \* bound: calls of run()
  MaxFailures,  \* bound: appends that raise
  MaxRestarts   \* bound: processes started on an existing ledger

States == {"DRAFT", "PREREGISTERED", "RUNNING", "OBSERVED", "EVALUATED", "ATTRIBUTED",
           "DISTILLED_PROPOSAL", "REJECTED", "UNKNOWN"}

Visibilities == {"development", "selection_observed", "transfer_hidden", "future_final"}

\* What a hard gate meets in the observation: a metric that satisfies it, one that does
\* not, no such metric or operator, or values that cannot be compared.
GateKinds == {"satisfied", "violated", "unavailable", "incomparable"}

\* What run() reads of a plan and its observation.  Both name an experiment, and nothing
\* compares the two names.
Request ==
  [ experiment       : Experiments,   \* plan.experiment_id
    observed         : Experiments,   \* observation.experiment_id
    visibility       : Visibilities,
    own_governor     : BOOLEAN,   \* the plan names this coordinator's governor
    own_evaluator    : BOOLEAN,   \* the plan names this coordinator's evaluator
    max_candidates   : Nat,
    max_operations   : Nat,
    max_wall_seconds : Nat,
    operation_count  : Nat,
    wall_seconds     : Nat,
    hard_gates       : SUBSET GateKinds ]

ASSUME RequestsAssumption == Requests \subseteq Request
ASSUME BoundsAssumption == MaxCalls \in Nat /\ MaxFailures \in Nat /\ MaxRestarts \in Nat

VARIABLES
  state,     \* ExperimentCoordinator.states of the running process
  ledger,    \* the records in the ledger
  at,        \* the append run() makes next; "idle" between calls
  request,   \* the request run() works on; arbitrary between calls
  lineage,   \* positions of this run's episode and evaluation records
  calls,     \* calls of run() so far
  failures,  \* appends that raised so far
  restarts   \* processes started so far

vars == <<state, ledger, at, request, lineage, calls, failures, restarts>>

Points == {"idle", "hypothesis", "plan", "preregister", "begin", "episode", "budget",
           "evaluation", "evaluated", "attribution", "attributed", "principle", "distilled"}

-----------------------------------------------------------------------------
(* The governor and the evaluator, which are pure.                         *)

\* RecursionGovernor.validate_plan returns PASS.
ValidPlan(r) ==
  /\ r.visibility \notin {"transfer_hidden", "future_final"}
  /\ r.own_governor
  /\ r.max_candidates # 0

\* RecursionGovernor.check_budget returns PASS.
WithinBudget(r) ==
  /\ r.operation_count <= r.max_operations
  /\ r.wall_seconds <= r.max_wall_seconds

\* HardGateEvaluator.evaluate: one failed gate fails, else one unknown gate is unknown.
Evaluate(gates) ==
  IF "violated" \in gates THEN "FAIL"
  ELSE IF gates = {} \/ gates \cap {"unavailable", "incomparable"} # {} THEN "UNKNOWN"
  ELSE "PASS"

\* Mutant: an UNKNOWN verdict counts as support.
DispositionUnlessFail(verdict) == IF verdict = "FAIL" THEN "inconclusive" ELSE "supported"

Disposition(verdict) == IF verdict = "PASS" THEN "supported" ELSE "inconclusive"

-----------------------------------------------------------------------------
(* Appending.  The run and the process a record comes from are history.    *)

Kinds == {"causal-hypothesis", "experiment-plan", "experiment-state", "experience-episode",
          "evaluation-result", "causal-attribution", "learned-principle-proposal"}

\* A record's detail: a state, a verdict, a disposition, a maturity, or nothing.
Details == States \cup {"PASS", "FAIL", "UNKNOWN", "supported", "inconclusive", "provisional", ""}

Records ==
  [ kind : Kinds, experiment : Experiments, detail : Details, sources : SUBSET Nat,
    run : Nat, process : Nat ]

\* The episode is the observation as it came; every other record is the plan's.
Named(kind) == IF kind = "experience-episode" THEN request.observed ELSE request.experiment

Record(kind, detail, sources) ==
  [ kind       |-> kind,
    experiment |-> Named(kind),
    detail     |-> detail,
    sources    |-> sources,
    run        |-> calls,
    process    |-> restarts ]

Raise == at' = "idle"

\* EvidenceLedger.append: it returns with the record stored, or raises either way.
Log(kind, detail, sources, next) ==
  LET stored == Append(ledger, Record(kind, detail, sources))
  IN  \/ /\ ledger' = stored
         /\ at' = next
         /\ UNCHANGED failures
      \/ /\ failures < MaxFailures
         /\ failures' = failures + 1
         /\ ledger' \in {ledger, stored}
         /\ Raise

\* Mutant: the ledger first, memory only when the append returned.
MoveLedgerFirst(expected, new, next) ==
  IF state[request.experiment] # expected
  THEN Raise /\ UNCHANGED <<state, ledger, failures>>
  ELSE /\ Log("experiment-state", new, {}, next)
       /\ state' = IF failures' = failures THEN [state EXCEPT ![request.experiment] = new] ELSE state

\* transition(): an unexpected current state raises before anything changes; otherwise
\* memory moves first and the ledger follows, if it does.
Move(expected, new, next) ==
  IF state[request.experiment] # expected
  THEN Raise /\ UNCHANGED <<state, ledger, failures>>
  ELSE /\ state' = [state EXCEPT ![request.experiment] = new]
       /\ Log("experiment-state", new, {}, next)

-----------------------------------------------------------------------------
Init ==
  /\ state = [e \in Experiments |-> "DRAFT"]
  /\ ledger = <<>>
  /\ at = "idle"
  /\ request \in Requests
  /\ lineage = <<>>
  /\ calls = 0
  /\ failures = 0
  /\ restarts = 0

\* run() is called; a plan the governor rejects raises at once and leaves nothing.
Call ==
  /\ at = "idle"
  /\ calls < MaxCalls
  /\ calls' = calls + 1
  /\ request' \in Requests
  /\ at' = IF ValidPlan(request') THEN "hypothesis" ELSE "idle"
  /\ lineage' = <<>>
  /\ UNCHANGED <<state, ledger, failures, restarts>>

RecordHypothesis ==
  /\ at = "hypothesis"
  /\ Log("causal-hypothesis", "", {}, "plan")
  /\ UNCHANGED <<state, request, lineage, calls, restarts>>

RecordPlan ==
  /\ at = "plan"
  /\ Log("experiment-plan", "", {}, "preregister")
  /\ UNCHANGED <<state, request, lineage, calls, restarts>>

\* Mutant: an experiment whose preregistration raised may be preregistered again.
PreregisterAgain ==
  /\ at = "preregister"
  /\ Move(IF state[request.experiment] = "PREREGISTERED" THEN "PREREGISTERED" ELSE "DRAFT",
          "PREREGISTERED", "begin")
  /\ UNCHANGED <<request, lineage, calls, restarts>>

\* Mutant: a distilled experiment may be run again.
PreregisterFinished ==
  /\ at = "preregister"
  /\ Move(IF state[request.experiment] = "DISTILLED_PROPOSAL" THEN "DISTILLED_PROPOSAL" ELSE "DRAFT",
          "PREREGISTERED", "begin")
  /\ UNCHANGED <<request, lineage, calls, restarts>>

Preregister ==
  /\ at = "preregister"
  /\ Move("DRAFT", "PREREGISTERED", "begin")
  /\ UNCHANGED <<request, lineage, calls, restarts>>

BeginExecution ==
  /\ at = "begin"
  /\ Move("PREREGISTERED", "RUNNING", "episode")
  /\ UNCHANGED <<request, lineage, calls, restarts>>

\* The episode is recorded whether or not it kept to its budget.
RecordEpisode ==
  /\ at = "episode"
  /\ Log("experience-episode", "", {}, "budget")
  /\ lineage' = <<Len(ledger) + 1>>
  /\ UNCHANGED <<state, request, calls, restarts>>

\* Mutant: over budget ends UNKNOWN.
CheckBudgetUnknown ==
  /\ at = "budget"
  /\ IF WithinBudget(request)
     THEN Move("RUNNING", "OBSERVED", IF request.own_evaluator THEN "evaluation" ELSE "idle")
     ELSE Move("RUNNING", "UNKNOWN", "idle")
  /\ UNCHANGED <<request, lineage, calls, restarts>>

\* Over budget: REJECTED, and run() raises after that append too.  Within: OBSERVED, and
\* a plan that names another evaluator raises right after it.
CheckBudget ==
  /\ at = "budget"
  /\ IF WithinBudget(request)
     THEN Move("RUNNING", "OBSERVED", IF request.own_evaluator THEN "evaluation" ELSE "idle")
     ELSE Move("RUNNING", "REJECTED", "idle")
  /\ UNCHANGED <<request, lineage, calls, restarts>>

RecordEvaluation ==
  /\ at = "evaluation"
  /\ Log("evaluation-result", Evaluate(request.hard_gates), {}, "evaluated")
  /\ lineage' = Append(lineage, Len(ledger) + 1)
  /\ UNCHANGED <<state, request, calls, restarts>>

MarkEvaluated ==
  /\ at = "evaluated"
  /\ Move("OBSERVED", "EVALUATED", "attribution")
  /\ UNCHANGED <<request, lineage, calls, restarts>>

\* The attribution names the episode and the evaluation it rests on.
RecordAttribution ==
  /\ at = "attribution"
  /\ Log("causal-attribution", Disposition(Evaluate(request.hard_gates)),
         {lineage[1], lineage[2]}, "attributed")
  /\ UNCHANGED <<state, request, lineage, calls, restarts>>

MarkAttributed ==
  /\ at = "attributed"
  /\ Move("EVALUATED", "ATTRIBUTED", "principle")
  /\ UNCHANGED <<request, lineage, calls, restarts>>

\* The proposed principle inherits the attribution's sources; it is always provisional.
RecordPrinciple ==
  /\ at = "principle"
  /\ Log("learned-principle-proposal", "provisional", {lineage[1], lineage[2]}, "distilled")
  /\ UNCHANGED <<state, request, lineage, calls, restarts>>

MarkDistilled ==
  /\ at = "distilled"
  /\ Move("ATTRIBUTED", "DISTILLED_PROPOSAL", "idle")
  /\ UNCHANGED <<request, lineage, calls, restarts>>

\* The process ends, inside run() or not; a new one has a coordinator without states.
Restart ==
  /\ restarts < MaxRestarts
  /\ restarts' = restarts + 1
  /\ state' = [e \in Experiments |-> "DRAFT"]
  /\ Raise
  /\ UNCHANGED <<ledger, request, lineage, calls, failures>>

Run ==
  \/ RecordHypothesis \/ RecordPlan \/ Preregister \/ BeginExecution
  \/ RecordEpisode \/ CheckBudget \/ RecordEvaluation \/ MarkEvaluated
  \/ RecordAttribution \/ MarkAttributed \/ RecordPrinciple \/ MarkDistilled

Next == Call \/ Run \/ Restart

Spec == Init /\ [][Next]_vars

-----------------------------------------------------------------------------
\* Memory, ledger and the point run() has reached keep their shape.
TypeOK ==
  /\ state \in [Experiments -> States]
  /\ ledger \in Seq(Records)
  /\ at \in Points
  /\ request \in Requests
  /\ lineage \in Seq(Nat)
  /\ calls \in 0 .. MaxCalls
  /\ failures \in 0 .. MaxFailures
  /\ restarts \in 0 .. MaxRestarts

\* Positions of the records of a kind that this process wrote about an experiment.
Positions(e, kind) ==
  { i \in 1 .. Len(ledger) :
      ledger[i].kind = kind /\ ledger[i].experiment = e /\ ledger[i].process = restarts }

\* The state a reader of the ledger sees this process in, for an experiment.
Recorded(e) ==
  LET moves == Positions(e, "experiment-state")
  IN  IF moves = {} THEN "DRAFT"
      ELSE ledger[CHOOSE i \in moves : \A j \in moves : j <= i].detail

\* Memory and ledger agree on every experiment, or memory is the one transition ahead
\* whose append raised without storing its record.
LedgerTellsState ==
  \A e \in Experiments :
    \/ Recorded(e) = state[e]
    \/ /\ failures > 0
       /\ at = "idle" \/ request.experiment # e \/ at \in {"hypothesis", "plan", "preregister"}
       /\ <<Recorded(e), state[e]>> \in
            { <<"DRAFT", "PREREGISTERED">>, <<"PREREGISTERED", "RUNNING">>, <<"RUNNING", "OBSERVED">>,
              <<"RUNNING", "REJECTED">>, <<"OBSERVED", "EVALUATED">>, <<"EVALUATED", "ATTRIBUTED">>,
              <<"ATTRIBUTED", "DISTILLED_PROPOSAL">> }

\* Once memory and ledger disagree on an experiment, no later call moves either: only a
\* new process, which forgets the state, takes that experiment up again.
DisagreementIsFinal ==
  [][\A e \in Experiments :
       Recorded(e) # state[e] /\ restarts' = restarts
         => state'[e] = state[e] /\ Recorded(e)' = Recorded(e)]_vars

\* The runs of this process whose recorded plan names an experiment.
RunsOf(e) == { ledger[i].run : i \in Positions(e, "experiment-plan") }

\* The episodes these runs recorded, whatever experiment the observations name.
EpisodesOf(e) ==
  { i \in 1 .. Len(ledger) :
      /\ ledger[i].kind = "experience-episode" /\ ledger[i].process = restarts
      /\ ledger[i].run \in RunsOf(e) }

\* A process executes an experiment once: however often run() is called again, with
\* whatever plan and observation, after whatever failure, the runs whose plan names the
\* experiment record no second episode.  (Episodes that name it there may be more of:
\* an observation of it may have been handed to the run of another one.)
ObservedOnce == \A e \in Experiments : Cardinality(EpisodesOf(e)) <= 1

\* A record of a kind that the run of record p wrote, about the same experiment if the
\* kind is one that run() names after the plan.
OfRun(i, p, kind) ==
  /\ ledger[i].kind = kind
  /\ ledger[i].run = ledger[p].run
  /\ kind # "experience-episode" => ledger[i].experiment = ledger[p].experiment

\* What is distilled rests on the evidence of its own run: a principle's sources are the
\* episode that run recorded, of whatever experiment the observation was, and one later
\* evaluation of it; the run was planned and begun before the episode, kept its budget, and
\* its attribution claims support only for a PASS verdict.
PrinciplesRestOnEvidence ==
  \A p \in 1 .. Len(ledger) :
    ledger[p].kind = "learned-principle-proposal" =>
      \E episode, evaluation \in ledger[p].sources :
        /\ ledger[p].sources = {episode, evaluation}
        /\ OfRun(episode, p, "experience-episode") /\ OfRun(evaluation, p, "evaluation-result")
        /\ \E plan \in 1 .. episode : \E begun \in plan .. episode :
             /\ OfRun(plan, p, "experiment-plan")
             /\ OfRun(begun, p, "experiment-state") /\ ledger[begun].detail = "RUNNING"
        /\ \E kept \in episode .. evaluation :
             OfRun(kept, p, "experiment-state") /\ ledger[kept].detail = "OBSERVED"
        /\ \E attribution \in evaluation .. p :
             /\ OfRun(attribution, p, "causal-attribution")
             /\ ledger[attribution].sources = ledger[p].sources
             /\ ledger[attribution].detail = "supported" <=> ledger[evaluation].detail = "PASS"

-----------------------------------------------------------------------------
Lifecycle == INSTANCE ExperimentLifecycle

\* Every process follows the lifecycle of lifecycle.mncs, failed appends and repeated calls
\* included; only a new process, which starts with no states, is a step outside it.
FollowsLifecycle == Lifecycle!Init /\ [][Lifecycle!Next \/ Restart]_state
=============================================================================
