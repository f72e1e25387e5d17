----------------------------- MODULE ForgeRuntime -----------------------------
(***************************************************************************)
(* The diagnostic lifecycle of src/mnel/forge_lifecycle.py: verifiers are  *)
(* registered with a declaration, with or without an implementation; probe *)
(* requests name a verifier and snapshots of the store; an execution ends  *)
(* in a witness and, once the verifier was due, in a record of its health; *)
(* repeated errors quarantine it.  Registry state and health are two       *)
(* tables that an operator may also write; they meet only at the end of    *)
(* an observed execution.  From the witnesses follow coverage and the      *)
(* candidates for questions that were left out.                            *)
(***************************************************************************)
EXTENDS Naturals, Sequences, FiniteSets

CONSTANTS
  Verifiers,     \* verifier identifiers
  Snapshots,     \* snapshot identities that callers name
  Sound,         \* those whose snapshot passes its integrity check and decodes
  Kinds,         \* snapshot types, with their schema version
  KindOf,        \* the kind of each snapshot
  Parts,         \* the components of each snapshot; none unless it is composite
  Accepts,       \* the snapshot types each verifier declares, in order
  Required,      \* how the preconditions each verifier declares come out
  Requests,      \* the probe requests investigators make
  QuarantineAfterErrors,  \* quarantine_after_errors of VerifierHealthStore
  MaxExecutions, \* bound: executions
  MaxActs        \* bound: what operators do to a verifier after its registration

\* How one precondition comes out: met, not met, or of a kind nobody can evaluate.
Outcomes == {"satisfied", "failed", "unavailable"}

Request ==
  [ verifier      : Verifiers,
    snapshots     : Seq(Snapshots) \ {<<>>},
    witness_type  : {"declared", "other"},
    mutation      : {"none", "permitted", "forbidden"},  \* a mutation is named; its policy
    preconditions : SUBSET Outcomes ]

ASSUME SnapshotsAssumption ==
  /\ Sound \subseteq Snapshots
  /\ KindOf \in [Snapshots -> Kinds]
  /\ Parts \in [Snapshots -> SUBSET Snapshots]
ASSUME VerifiersAssumption ==
  /\ Accepts \in [Verifiers -> Seq(Kinds) \ {<<>>}]
  /\ Required \in [Verifiers -> SUBSET Outcomes]
ASSUME RequestsAssumption == Requests \subseteq Request
ASSUME LimitsAssumption ==
  QuarantineAfterErrors \in Nat \ {0} /\ MaxExecutions \in Nat /\ MaxActs \in Nat

VARIABLES
  snapshots,  \* the identities in the SnapshotStore
  states,     \* VerifierRegistry._states; "unknown" without a declaration
  attached,   \* verifiers with an implementation
  health,     \* VerifierHealthStore._records
  witnesses,  \* the witnesses handed out
  acts,       \* history: what operators did to each verifier since its registration
  ran,        \* history: the verifier's own runs while its health was quarantined, since the last of those acts
  executions  \* executions so far

vars == <<snapshots, states, attached, health, witnesses, acts, ran, executions>>

Statuses == {"completed", "ineligible", "not-applicable", "error", "budget-exceeded",
             "unavailable", "quarantined"}

Clean == [successful_executions |-> 0, execution_errors |-> 0, budget_violations |-> 0,
          malformed_outputs |-> 0, quarantined |-> FALSE]

Witness ==
  [verifier : Verifiers, snapshots : Seq(Snapshots), status : Statuses]

-----------------------------------------------------------------------------
(* Requests and answers.                                                   *)

Accepted(v) == {Accepts[v][i] : i \in 1 .. Len(Accepts[v])}

\* evaluate_preconditions: one that cannot be evaluated decides, then one that fails.
Report(outcomes) ==
  IF "unavailable" \in outcomes THEN "unavailable"
  ELSE IF outcomes \subseteq {"satisfied"} THEN "satisfied" ELSE "failed"

\* The checks of execute() before it touches a snapshot.
Declined(r) ==
  IF r.mutation = "forbidden" THEN "not-applicable"
  ELSE IF states[r.verifier] = "unknown" THEN "unavailable"
  ELSE IF states[r.verifier] = "quarantined" THEN "quarantined"
  ELSE IF states[r.verifier] = "disabled" THEN "unavailable"
  ELSE IF r.witness_type = "other" THEN "not-applicable"
  ELSE "none"

\* The verifier is shown one registered snapshot of a type it accepts.
Viewable(r) ==
  /\ r.snapshots[1] \in snapshots
  /\ Len(r.snapshots) = 1
  /\ KindOf[r.snapshots[1]] \in Accepted(r.verifier)

Preconditions(r) == Report(r.preconditions \cup Required[r.verifier])

\* What run() may do: return an output within its limits, one that is no object, one that
\* counts or weighs too much, one that claims authority; raise an error of the kinds
\* execute() catches, whose message may mention a budget; raise any other.
Answers == {"output", "not_object", "miscounted", "oversized", "authority",
            "raises", "raises_budget", "crashes"}

\* The status of a run that ends in a witness: an output in time is completed, and an error
\* whose message mentions a budget is a budget violation.
StatusOf(answer, late) ==
  CASE answer = "output" -> IF late THEN "budget-exceeded" ELSE "completed"
    [] answer \in {"miscounted", "oversized", "raises_budget"} -> "budget-exceeded"
    [] OTHER -> "error"

-----------------------------------------------------------------------------
(* Health.                                                                 *)

\* Mutant: quarantine at the error after the threshold.
ObservedLate(record, status) ==
  LET errors == record.execution_errors + 1
  IN  CASE status = "completed" -> [record EXCEPT !.successful_executions = @ + 1]
        [] status = "budget-exceeded" -> [record EXCEPT !.budget_violations = @ + 1]
        [] status = "error" -> [record EXCEPT !.execution_errors = errors,
                                              !.quarantined = @ \/ errors > QuarantineAfterErrors]

\* VerifierHealthStore.observe, for the statuses execute() reports to it.
Observed(record, status) ==
  LET errors == record.execution_errors + 1
  IN  CASE status = "completed" -> [record EXCEPT !.successful_executions = @ + 1]
        [] status = "budget-exceeded" -> [record EXCEPT !.budget_violations = @ + 1]
        [] status = "error" -> [record EXCEPT !.execution_errors = errors,
                                              !.quarantined = @ \/ errors >= QuarantineAfterErrors]

\* malformed_output(), which counts and never quarantines.
Marked(record, answer) ==
  IF answer \in {"not_object", "miscounted", "oversized"}
  THEN [record EXCEPT !.malformed_outputs = @ + 1] ELSE record

\* Mutant: health is looked at after errors only.
SettleErrorsOnly(v, record, status) ==
  /\ health' = [health EXCEPT ![v] = Observed(record, status)]
  /\ states' = IF status = "error" /\ health'[v].quarantined
               THEN [states EXCEPT ![v] = "quarantined"] ELSE states

\* The end of an observed execution: health first, then the registry follows it.
Settle(v, record, status) ==
  /\ health' = [health EXCEPT ![v] = Observed(record, status)]
  /\ states' = IF health'[v].quarantined THEN [states EXCEPT ![v] = "quarantined"] ELSE states

\* The verifier's own part in it, for the history.
Note(v) ==
  ran' = [ran EXCEPT ![v] = IF health[v].quarantined THEN ran[v] + 1 ELSE ran[v]]

Hand(r, status) ==
  witnesses' = witnesses \cup
    {[ verifier |-> r.verifier, snapshots |-> r.snapshots, status |-> status ]}

-----------------------------------------------------------------------------
Init ==
  /\ snapshots = {}
  /\ states = [v \in Verifiers |-> "unknown"]
  /\ attached = {}
  /\ health = [v \in Verifiers |-> Clean]
  /\ witnesses = {}
  /\ acts = [v \in Verifiers |-> 0]
  /\ ran = [v \in Verifiers |-> 0]
  /\ executions = 0

\* register(): once, with an implementation, enabled.
Register(v) ==
  /\ states[v] = "unknown"
  /\ states' = [states EXCEPT ![v] = "enabled"]
  /\ attached' = attached \cup {v}
  /\ UNCHANGED <<snapshots, health, witnesses, acts, ran, executions>>

\* register_declaration(): once, without an implementation, disabled.
RegisterDeclaration(v) ==
  /\ states[v] = "unknown"
  /\ states' = [states EXCEPT ![v] = "disabled"]
  /\ UNCHANGED <<snapshots, attached, health, witnesses, acts, ran, executions>>

Act(v) ==
  /\ acts[v] < MaxActs
  /\ acts' = [acts EXCEPT ![v] = @ + 1]
  /\ ran' = [ran EXCEPT ![v] = 0]

\* set_state() by an operator; health is not told.
SetState(v, new) ==
  /\ states[v] # "unknown"
  /\ states' = [states EXCEPT ![v] = new]
  /\ Act(v)
  /\ UNCHANGED <<snapshots, attached, health, witnesses, executions>>

\* VerifierHealthStore.quarantine() by an operator; the registry is not told.
Quarantine(v) ==
  /\ health' = [health EXCEPT ![v].quarantined = TRUE]
  /\ Act(v)
  /\ UNCHANGED <<snapshots, states, attached, witnesses, executions>>

\* SnapshotStore.register: of a sound snapshot whose components are registered.
RegisterSnapshot(s) ==
  /\ s \in Sound \ snapshots
  /\ Parts[s] \subseteq snapshots
  /\ snapshots' = snapshots \cup {s}
  /\ UNCHANGED <<states, attached, health, witnesses, acts, ran, executions>>

\* A witness without a run: declined, or its preconditions are not satisfied.  Health is
\* not told.
Decline(r) ==
  LET status == IF Declined(r) # "none" THEN Declined(r)
                ELSE IF Preconditions(r) = "failed" THEN "ineligible" ELSE "not-applicable"
  IN  /\ Declined(r) = "none" => Viewable(r) /\ Preconditions(r) # "satisfied"
      /\ Hand(r, status)
      /\ UNCHANGED <<snapshots, states, attached, health, acts, ran>>

\* The request names no snapshot the verifier can be shown, or the verifier has no
\* implementation: an error, and the verifier's health takes it.
Misdirect(r) ==
  /\ Declined(r) = "none"
  /\ ~ Viewable(r) \/ (Preconditions(r) = "satisfied" /\ r.verifier \notin attached)
  /\ Settle(r.verifier, health[r.verifier], "error")
  /\ Note(r.verifier)
  /\ Hand(r, "error")
  /\ UNCHANGED <<snapshots, attached, acts>>

\* The verifier is run.
Due(r) ==
  /\ Declined(r) = "none"
  /\ Viewable(r)
  /\ Preconditions(r) = "satisfied"
  /\ r.verifier \in attached

Run(r, answer, late) ==
  LET status == StatusOf(answer, late)
  IN  /\ Due(r)
      /\ answer # "crashes"
      /\ Settle(r.verifier, Marked(health[r.verifier], answer), status)
      /\ Note(r.verifier)
      /\ Hand(r, status)
      /\ UNCHANGED <<snapshots, attached, acts>>

\* An exception execute() does not catch: no witness and no observation.
RunCrashes(r) ==
  /\ Due(r)
  /\ UNCHANGED <<snapshots, states, attached, health, witnesses, acts, ran>>

Execute(r) ==
  /\ executions < MaxExecutions
  /\ executions' = executions + 1
  /\ \/ Decline(r)
     \/ Misdirect(r)
     \/ \E answer \in Answers, late \in BOOLEAN : Run(r, answer, late)
     \/ RunCrashes(r)

Next ==
  \/ \E v \in Verifiers :
       \/ Register(v)
       \/ RegisterDeclaration(v)
       \/ \E new \in {"enabled", "disabled", "quarantined"} : SetState(v, new)
       \/ Quarantine(v)
  \/ \E s \in Snapshots : RegisterSnapshot(s)
  \/ \E r \in Requests : Execute(r)

Spec == Init /\ [][Next]_vars

-----------------------------------------------------------------------------
(* What follows from the witnesses.                                        *)

Completed == {w \in witnesses : w.status = "completed"}

\* build_coverage: what completed witnesses saw, and what enabled verifiers would accept.
ExercisedKinds == UNION {{KindOf[w.snapshots[i]] : i \in 1 .. Len(w.snapshots)} : w \in Completed}
RegisteredKinds == UNION {Accepted(v) : v \in {u \in Verifiers : states[u] = "enabled"}}

\* CoverageRecord.__post_init__: without an enabled verifier nothing may have been exercised.
\* build_coverage raises then, and nobody can be asked for candidates.
CoverageBuilt == RegisteredKinds # {} \/ ExercisedKinds = {}

Unprobed == {s \in snapshots : \A w \in witnesses : \A i \in 1 .. Len(w.snapshots) : w.snapshots[i] # s}

\* Mutant: a quarantined verifier is not reported.
ReportedKindsOfEnabled ==
  {k \in (RegisteredKinds \ ExercisedKinds) \cup {KindOf[s] : s \in Unprobed} : CoverageBuilt}

\* The snapshot types discover_question_candidates targets when it is given the registry and the
\* coverage of now: uncovered ones, those of unprobed snapshots, and one of each quarantined
\* verifier; none when there is no coverage to give it.  Its limit on the number of candidates
\* is not reached here.
ReportedKinds ==
  {k \in (RegisteredKinds \ ExercisedKinds)
           \cup {KindOf[s] : s \in Unprobed}
           \cup {Accepts[v][1] : v \in {u \in Verifiers : states[u] = "quarantined"}} :
     CoverageBuilt}

-----------------------------------------------------------------------------
\* Registry, health, store and witnesses keep their shape: what is stored passed its
\* integrity check, and an implementation is attached to a registered verifier only.
TypeOK ==
  /\ snapshots \subseteq Sound
  /\ states \in [Verifiers -> {"unknown", "enabled", "disabled", "quarantined"}]
  /\ attached \subseteq {v \in Verifiers : states[v] # "unknown"}
  /\ \A v \in Verifiers :
       /\ health[v].execution_errors \in Nat /\ health[v].quarantined \in BOOLEAN
       /\ ran[v] \in Nat
  /\ witnesses \subseteq Witness
  /\ acts \in [Verifiers -> 0 .. MaxActs]
  /\ executions \in 0 .. MaxExecutions

\* Health and registry part only where an operator parted them: a verifier at the threshold
\* is quarantined in both, and every error beyond it cost an operator's act.
ThresholdHolds ==
  \A v \in Verifiers :
    /\ health[v].execution_errors >= QuarantineAfterErrors => health[v].quarantined
    /\ health[v].quarantined =>
         health[v].execution_errors >= QuarantineAfterErrors \/ acts[v] > 0
    /\ states[v] = "enabled" /\ health[v].quarantined => acts[v] > 0
    /\ health[v].execution_errors <= QuarantineAfterErrors + acts[v]

\* A verifier that is quarantined in its health, by its errors or by an operator, gets one
\* more observed execution for each act of an operator, whatever that execution ends in.
OneExecutionPerAct == \A v \in Verifiers : ran[v] <= 1

\* Where coverage can be built, no gap goes unnoticed but in one place: a snapshot type that a
\* verifier in service or in quarantine was registered for was seen by a completed run or is the
\* target of a candidate, except that only the first type of a quarantined verifier is (line 1355).
NoSilentGap ==
  CoverageBuilt =>
    \A v \in Verifiers : \A i \in 1 .. Len(Accepts[v]) :
      states[v] \in {"enabled", "quarantined"} =>
        \/ Accepts[v][i] \in ExercisedKinds \cup ReportedKinds
        \/ states[v] = "quarantined" /\ i > 1
=============================================================================
