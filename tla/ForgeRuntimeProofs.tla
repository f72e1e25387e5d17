-------------------------- MODULE ForgeRuntimeProofs --------------------------
(***************************************************************************)
(* Proofs about ForgeRuntime: what a quarantine of a verifier is worth     *)
(* when an operator may write either of the two tables at any time, and    *)
(* that a snapshot type nobody exercises is reported.                      *)
(***************************************************************************)
EXTENDS ForgeRuntime, TLAPS

Record == [ successful_executions : Nat, execution_errors : Nat, budget_violations : Nat,
            malformed_outputs : Nat, quarantined : BOOLEAN ]

Reported == {"completed", "budget-exceeded", "error"}

\* Each act of an operator is worth one error beyond the threshold, and an enabled
\* verifier with quarantined health still has that one to spend.
Credit(v) ==
  /\ health[v].execution_errors >= QuarantineAfterErrors => health[v].quarantined
  /\ health[v].quarantined => health[v].execution_errors >= QuarantineAfterErrors \/ acts[v] > 0
  /\ health[v].execution_errors <= QuarantineAfterErrors + acts[v]
  /\ ran[v] <= 1
  /\ states[v] = "unknown" => health[v].execution_errors = 0 /\ ran[v] = 0
  /\ states[v] = "enabled" /\ health[v].quarantined =>
       /\ acts[v] > 0
       /\ health[v].execution_errors < QuarantineAfterErrors + acts[v]
       /\ ran[v] = 0

\* The inductive invariant.
FInv ==
  /\ TypeOK
  /\ health \in [Verifiers -> Record]
  /\ ran \in [Verifiers -> Nat]
  /\ \A v \in Verifiers : Credit(v)

-----------------------------------------------------------------------------
\* What observe() does to a record, field by field.
LEMMA ObservedRecord ==
  ASSUME NEW record \in Record, NEW status \in Reported
  PROVE  /\ Observed(record, status) \in Record
         /\ Observed(record, status).execution_errors =
              IF status = "error" THEN record.execution_errors + 1 ELSE record.execution_errors
         /\ Observed(record, status).quarantined =
              (record.quarantined \/
                (status = "error" /\ record.execution_errors + 1 >= QuarantineAfterErrors))
<1>1. CASE status = "completed"
  BY <1>1 DEF Observed, Record
<1>2. CASE status = "budget-exceeded"
  BY <1>2 DEF Observed, Record
<1>3. CASE status = "error"
  <2> DEFINE errors == record.execution_errors + 1
             held == record.quarantined \/ errors >= QuarantineAfterErrors
  <2>1. Observed(record, status) =
          [record EXCEPT !.execution_errors = errors, !.quarantined = held]
    BY <1>3 DEF Observed
  <2>2. errors \in Nat /\ held \in BOOLEAN
    BY DEF Record
  <2> HIDE DEF errors, held
  <2>3. /\ Observed(record, status) \in Record
        /\ Observed(record, status).execution_errors = errors
        /\ Observed(record, status).quarantined = held
    BY <2>1, <2>2 DEF Record
  <2> QED
    BY <2>3, <1>3 DEF errors, held
<1> QED
  BY <1>1, <1>2, <1>3 DEF Reported

\* What malformed_output() leaves alone.
LEMMA MarkedRecord ==
  ASSUME NEW record \in Record, NEW answer
  PROVE  /\ Marked(record, answer) \in Record
         /\ Marked(record, answer).execution_errors = record.execution_errors
         /\ Marked(record, answer).quarantined = record.quarantined
BY DEF Marked, Record

\* A verifier that is due is enabled.
LEMMA DueIsEnabled ==
  ASSUME FInv, NEW r \in Requests, Declined(r) = "none"
  PROVE  r.verifier \in Verifiers /\ states[r.verifier] = "enabled"
<1>1. r.verifier \in Verifiers
  BY RequestsAssumption DEF Request
<1>2. states[r.verifier] \in {"unknown", "enabled", "disabled", "quarantined"}
  BY <1>1 DEF FInv, TypeOK
<1> QED
  BY <1>1, <1>2 DEF Declined

\* An observed execution of an enabled verifier spends its credit.
LEMMA SettleKeepsCredit ==
  ASSUME FInv, NEW v \in Verifiers, states[v] = "enabled",
         NEW record \in Record, NEW status \in Reported,
         record.execution_errors = health[v].execution_errors,
         record.quarantined = health[v].quarantined,
         Settle(v, record, status), Note(v), acts' = acts
  PROVE  /\ health' \in [Verifiers -> Record]
         /\ ran' \in [Verifiers -> Nat]
         /\ states' \in [Verifiers -> {"unknown", "enabled", "disabled", "quarantined"}]
         /\ \A u \in Verifiers : (states[u] = "unknown") = (states'[u] = "unknown")
         /\ \A u \in Verifiers : Credit(u)'
<1> DEFINE new == Observed(record, status)
<1>1. /\ new \in Record
      /\ new.execution_errors =
           IF status = "error" THEN record.execution_errors + 1 ELSE record.execution_errors
      /\ new.quarantined = (record.quarantined \/
           (status = "error" /\ record.execution_errors + 1 >= QuarantineAfterErrors))
  BY ObservedRecord
<1>2. health' = [health EXCEPT ![v] = new]
  BY DEF Settle
<1> HIDE DEF new
<1>3. health \in [Verifiers -> Record] /\ ran \in [Verifiers -> Nat]
      /\ states \in [Verifiers -> {"unknown", "enabled", "disabled", "quarantined"}]
      /\ acts \in [Verifiers -> 0 .. MaxActs]
  BY DEF FInv, TypeOK
<1>4. health' \in [Verifiers -> Record] /\ health'[v] = new
      /\ \A u \in Verifiers \ {v} : health'[u] = health[u]
  BY <1>1, <1>2, <1>3
<1>5. states' = IF new.quarantined THEN [states EXCEPT ![v] = "quarantined"] ELSE states
  BY <1>4 DEF Settle
<1> DEFINE own == IF health[v].quarantined THEN ran[v] + 1 ELSE ran[v]
<1>6. ran' = [ran EXCEPT ![v] = own]
  BY <1>3 DEF Note
<1>7. /\ own \in Nat
      /\ own = IF health[v].quarantined THEN ran[v] + 1 ELSE ran[v]
  BY <1>3
<1> HIDE DEF own
<1>8. ran' \in [Verifiers -> Nat] /\ ran'[v] = own
      /\ \A u \in Verifiers \ {v} : ran'[u] = ran[u]
  BY <1>3, <1>6, <1>7
<1>9. /\ states' \in [Verifiers -> {"unknown", "enabled", "disabled", "quarantined"}]
      /\ \A u \in Verifiers \ {v} : states'[u] = states[u]
      /\ states'[v] = IF new.quarantined THEN "quarantined" ELSE "enabled"
  BY <1>3, <1>5
<1>10. ASSUME NEW u \in Verifiers
       PROVE  Credit(u)'
  <2>1. CASE u # v
    BY <2>1, <1>4, <1>8, <1>9 DEF FInv, Credit
  <2>2. Credit(v)'
    <3>1. /\ health[v].execution_errors \in Nat /\ health[v].quarantined \in BOOLEAN
          /\ acts[v] \in Nat /\ ran[v] \in Nat /\ QuarantineAfterErrors \in Nat
      BY <1>3, LimitsAssumption DEF Record
    <3>2. Credit(v)
      BY DEF FInv
    <3>3. CASE health[v].quarantined
      <4>1. /\ health'[v].quarantined /\ states'[v] = "quarantined"
            /\ ran'[v] = ran[v] + 1
            /\ health'[v].execution_errors <= health[v].execution_errors + 1
        <5>1. new.quarantined
          BY <3>3, <1>1, Zenon
        <5>2. health'[v].quarantined /\ states'[v] = "quarantined"
          BY <5>1, <1>4, <1>9, Zenon
        <5>3. ran'[v] = ran[v] + 1
          BY <3>3, <1>7, <1>8
        <5>4. health'[v].execution_errors <= health[v].execution_errors + 1
          BY <3>1, <1>1, <1>4
        <5> QED
          BY <5>2, <5>3, <5>4
      <4>2. /\ acts[v] > 0 /\ ran[v] = 0
            /\ health[v].execution_errors < QuarantineAfterErrors + acts[v]
        BY <3>2, <3>3 DEF Credit
      <4>3. health'[v].execution_errors \in Nat
        BY <1>1, <1>4 DEF Record
      <4> QED
        BY <3>1, <4>1, <4>2, <4>3 DEF Credit
    <3>4. CASE ~ health[v].quarantined
      <4>1. health[v].execution_errors < QuarantineAfterErrors /\ ran'[v] <= 1
        BY <3>1, <3>2, <3>4, <1>7, <1>8 DEF Credit
      <4>2. /\ health'[v].execution_errors \in Nat
            /\ health'[v].execution_errors <= QuarantineAfterErrors
            /\ health'[v].quarantined = (health'[v].execution_errors >= QuarantineAfterErrors)
        BY <3>1, <3>4, <4>1, <1>1, <1>4 DEF Record
      <4>3. states'[v] = IF health'[v].quarantined THEN "quarantined" ELSE "enabled"
        BY <1>4, <1>9
      <4>4. ran'[v] = ran[v]
        BY <3>4, <1>7, <1>8
      <4> QED
        <5>1. /\ health'[v].quarantined => health'[v].execution_errors >= QuarantineAfterErrors
              /\ health'[v].execution_errors >= QuarantineAfterErrors => health'[v].quarantined
          BY <4>2, Zenon
        <5>2. /\ ~ (states'[v] = "enabled" /\ health'[v].quarantined)
              /\ states'[v] # "unknown"
          BY <4>3
        <5>3. health'[v].execution_errors <= QuarantineAfterErrors + acts'[v]
          BY <3>1, <4>2
        <5> QED
          BY <4>1, <5>1, <5>2, <5>3, Zenon DEF Credit
    <3> QED
      BY <3>3, <3>4
  <2> QED
    BY <2>1, <2>2
<1> QED
  BY <1>4, <1>8, <1>9, <1>10

-----------------------------------------------------------------------------
\* The witness of a request keeps the shape of the set.
LEMMA HandKeepsType ==
  ASSUME TypeOK, NEW r \in Requests, NEW status \in Statuses, Hand(r, status)
  PROVE  witnesses' \subseteq Witness
BY RequestsAssumption DEF TypeOK, Hand, Request, Witness

\* A run that ends in a witness reports one of the three statuses observe() is told of.
LEMMA StatusIsReported ==
  ASSUME NEW answer, NEW late \in BOOLEAN
  PROVE  StatusOf(answer, late) \in Reported
<1>1. CASE answer = "output"
  BY <1>1 DEF StatusOf, Reported
<1>2. CASE answer \in {"miscounted", "oversized", "raises_budget"}
  BY <1>2 DEF StatusOf, Reported
<1>3. CASE answer \notin {"output", "miscounted", "oversized", "raises_budget"}
  BY <1>3 DEF StatusOf, Reported
<1> QED
  BY <1>1, <1>2, <1>3

\* An act of an operator gives the verifier one credit.
LEMMA ActGivesCredit ==
  ASSUME FInv, NEW v \in Verifiers, Act(v)
  PROVE  /\ acts' \in [Verifiers -> 0 .. MaxActs]
         /\ ran' \in [Verifiers -> Nat]
         /\ acts'[v] = acts[v] + 1 /\ ran'[v] = 0
         /\ \A u \in Verifiers \ {v} : acts'[u] = acts[u] /\ ran'[u] = ran[u]
<1>1. acts \in [Verifiers -> 0 .. MaxActs] /\ ran \in [Verifiers -> Nat] /\ MaxActs \in Nat
  BY LimitsAssumption DEF FInv, TypeOK
<1>2. 0 \in Nat
  OBVIOUS
<1>3. acts[v] < MaxActs /\ acts' = [acts EXCEPT ![v] = acts[v] + 1] /\ ran' = [ran EXCEPT ![v] = 0]
  BY DEF Act
<1> QED
  BY <1>1, <1>2, <1>3

-----------------------------------------------------------------------------
\* An empty registry and health store satisfy the invariant.
LEMMA FInvInitially == Init => FInv
<1> SUFFICES ASSUME Init PROVE FInv
  OBVIOUS
<1>1. Clean \in Record /\ Clean.execution_errors = 0 /\ Clean.quarantined = FALSE
  BY DEF Clean, Record
<1>2. 0 \in Nat
  OBVIOUS
<1>3. /\ health = [v \in Verifiers |-> Clean] /\ ran = [v \in Verifiers |-> 0]
      /\ states = [v \in Verifiers |-> "unknown"] /\ acts = [v \in Verifiers |-> 0]
  BY DEF Init
<1>4. health \in [Verifiers -> Record] /\ ran \in [Verifiers -> Nat]
  BY <1>1, <1>2, <1>3
<1>5. TypeOK
  BY <1>1, <1>2, <1>3, <1>4, LimitsAssumption DEF Init, TypeOK, Record
<1>6. \A v \in Verifiers : Credit(v)
  BY <1>1, <1>2, <1>3, LimitsAssumption DEF Credit
<1> QED
  BY <1>4, <1>5, <1>6 DEF FInv

\* What every step of an execution keeps, once it keeps the tables.
LEMMA ExecuteKeepsInv ==
  ASSUME FInv, NEW r \in Requests, Execute(r)
  PROVE  FInv'
<1> DEFINE v == r.verifier
<1>1. v \in Verifiers
  BY RequestsAssumption DEF Request
<1>2. executions' \in 0 .. MaxExecutions
  BY LimitsAssumption DEF FInv, TypeOK, Execute
<1> SUFFICES /\ snapshots' = snapshots /\ attached' = attached /\ acts' = acts
             /\ witnesses' \subseteq Witness
             /\ health' \in [Verifiers -> Record]
             /\ ran' \in [Verifiers -> Nat]
             /\ states' \in [Verifiers -> {"unknown", "enabled", "disabled", "quarantined"}]
             /\ \A u \in Verifiers : (states[u] = "unknown") = (states'[u] = "unknown")
             /\ \A u \in Verifiers : Credit(u)'
  BY <1>2 DEF FInv, TypeOK, Record
<1>3. CASE Decline(r)
  <2>1. UNCHANGED <<snapshots, states, attached, health, acts, ran>>
    BY <1>3 DEF Decline
  <2>2. witnesses' \subseteq Witness
    <3> DEFINE status == IF Declined(r) # "none" THEN Declined(r)
                         ELSE IF Preconditions(r) = "failed" THEN "ineligible" ELSE "not-applicable"
    <3>1. Hand(r, status)
      BY <1>3 DEF Decline
    <3>2. status \in Statuses
      BY DEF Statuses, Declined
    <3> HIDE DEF status
    <3> QED
      BY <3>1, <3>2, HandKeepsType DEF FInv
  <2> QED
    BY <2>1, <2>2 DEF FInv, TypeOK, Credit
<1>4. CASE Misdirect(r)
  <2>1. states[v] = "enabled"
    BY <1>4, DueIsEnabled DEF Misdirect
  <2>2. "error" \in Reported /\ "error" \in Statuses
    BY DEF Reported, Statuses
  <2>3. /\ Settle(v, health[v], "error") /\ Note(v) /\ Hand(r, "error")
        /\ UNCHANGED <<snapshots, attached, acts>>
    BY <1>4 DEF Misdirect
  <2>4. health[v] \in Record
    BY <1>1 DEF FInv
  <2>5. witnesses' \subseteq Witness
    BY <2>2, <2>3, HandKeepsType DEF FInv
  <2> QED
    BY <1>1, <2>1, <2>2, <2>3, <2>4, <2>5, SettleKeepsCredit
<1>5. CASE \E answer \in Answers, late \in BOOLEAN : Run(r, answer, late)
  <2>1. PICK answer \in Answers, late \in BOOLEAN : Run(r, answer, late)
    BY <1>5
  <2> DEFINE status == StatusOf(answer, late)
             record == Marked(health[v], answer)
  <2>2. states[v] = "enabled"
    BY <2>1, DueIsEnabled DEF Run, Due
  <2>3. status \in Reported /\ status \in Statuses
    BY StatusIsReported DEF Reported, Statuses
  <2>4. /\ Settle(v, record, status) /\ Note(v) /\ Hand(r, status)
        /\ UNCHANGED <<snapshots, attached, acts>>
    BY <2>1 DEF Run
  <2>5. /\ record \in Record
        /\ record.execution_errors = health[v].execution_errors
        /\ record.quarantined = health[v].quarantined
    BY <1>1, MarkedRecord DEF FInv
  <2> HIDE DEF status, record
  <2>6. witnesses' \subseteq Witness
    BY <2>3, <2>4, HandKeepsType DEF FInv
  <2> QED
    BY <1>1, <2>2, <2>3, <2>4, <2>5, <2>6, SettleKeepsCredit
<1>6. CASE RunCrashes(r)
  <2>1. UNCHANGED <<snapshots, states, attached, health, witnesses, acts, ran>>
    BY <1>6 DEF RunCrashes
  <2> QED
    BY <2>1 DEF FInv, TypeOK, Credit
<1> QED
  BY <1>3, <1>4, <1>5, <1>6 DEF Execute

-----------------------------------------------------------------------------
\* Operators and callers keep the invariant too.
LEMMA AdministrationKeepsInv ==
  ASSUME FInv, NEW v \in Verifiers,
         \/ Register(v) \/ RegisterDeclaration(v)
         \/ \E new \in {"enabled", "disabled", "quarantined"} : SetState(v, new)
         \/ Quarantine(v)
  PROVE  FInv'
<1>1. /\ states \in [Verifiers -> {"unknown", "enabled", "disabled", "quarantined"}]
      /\ health \in [Verifiers -> Record] /\ ran \in [Verifiers -> Nat]
      /\ acts \in [Verifiers -> 0 .. MaxActs]
      /\ \A u \in Verifiers : Credit(u)
  BY DEF FInv, TypeOK
<1>2. /\ health[v].execution_errors \in Nat /\ health[v].quarantined \in BOOLEAN
      /\ acts[v] \in Nat /\ ran[v] \in Nat /\ QuarantineAfterErrors \in Nat \ {0}
  BY <1>1, LimitsAssumption DEF Record
<1>3. CASE Register(v)
  <2>1. /\ states[v] = "unknown" /\ states' = [states EXCEPT ![v] = "enabled"]
        /\ attached' = attached \cup {v}
        /\ UNCHANGED <<snapshots, health, witnesses, acts, ran, executions>>
    BY <1>3 DEF Register
  <2>2. TypeOK'
    BY <1>1, <2>1 DEF FInv, TypeOK
  <2>3. Credit(v)'
    BY <1>1, <1>2, <2>1 DEF Credit
  <2>4. \A u \in Verifiers \ {v} : Credit(u)'
    BY <1>1, <2>1 DEF Credit
  <2> QED
    BY <1>1, <2>1, <2>2, <2>3, <2>4 DEF FInv
<1>4. CASE RegisterDeclaration(v)
  <2>1. /\ states[v] = "unknown" /\ states' = [states EXCEPT ![v] = "disabled"]
        /\ UNCHANGED <<snapshots, attached, health, witnesses, acts, ran, executions>>
    BY <1>4 DEF RegisterDeclaration
  <2>2. TypeOK'
    BY <1>1, <2>1 DEF FInv, TypeOK
  <2>3. \A u \in Verifiers : Credit(u)'
    BY <1>1, <2>1 DEF Credit
  <2> QED
    BY <1>1, <2>1, <2>2, <2>3 DEF FInv
<1>5. ASSUME NEW new \in {"enabled", "disabled", "quarantined"}, SetState(v, new)
      PROVE  FInv'
  <2>1. /\ states[v] # "unknown" /\ states' = [states EXCEPT ![v] = new]
        /\ UNCHANGED <<snapshots, attached, health, witnesses, executions>>
        /\ Act(v)
    BY <1>5 DEF SetState
  <2>2. /\ acts' \in [Verifiers -> 0 .. MaxActs] /\ ran' \in [Verifiers -> Nat]
        /\ acts'[v] = acts[v] + 1 /\ ran'[v] = 0
        /\ \A u \in Verifiers \ {v} : acts'[u] = acts[u] /\ ran'[u] = ran[u]
    BY <2>1, ActGivesCredit
  <2>3. TypeOK'
    BY <1>1, <2>1, <2>2 DEF FInv, TypeOK
  <2>4. Credit(v)'
    BY <1>1, <1>2, <2>1, <2>2 DEF Credit
  <2>5. \A u \in Verifiers \ {v} : Credit(u)'
    BY <1>1, <2>1, <2>2 DEF Credit
  <2> QED
    BY <1>1, <2>1, <2>2, <2>3, <2>4, <2>5 DEF FInv
<1>6. CASE Quarantine(v)
  <2>1. /\ health' = [health EXCEPT ![v].quarantined = TRUE]
        /\ UNCHANGED <<snapshots, states, attached, witnesses, executions>>
        /\ Act(v)
    BY <1>6 DEF Quarantine
  <2>2. /\ acts' \in [Verifiers -> 0 .. MaxActs] /\ ran' \in [Verifiers -> Nat]
        /\ acts'[v] = acts[v] + 1 /\ ran'[v] = 0
        /\ \A u \in Verifiers \ {v} : acts'[u] = acts[u] /\ ran'[u] = ran[u]
    BY <2>1, ActGivesCredit
  <2>3. /\ health' \in [Verifiers -> Record]
        /\ health'[v].quarantined /\ health'[v].execution_errors = health[v].execution_errors
        /\ \A u \in Verifiers \ {v} : health'[u] = health[u]
    BY <1>1, <2>1 DEF Record
  <2>4. TypeOK'
    BY <1>1, <2>1, <2>2, <2>3 DEF FInv, TypeOK, Record
  <2>5. Credit(v)'
    BY <1>1, <1>2, <2>1, <2>2, <2>3 DEF Credit
  <2>6. \A u \in Verifiers \ {v} : Credit(u)'
    BY <1>1, <2>1, <2>2, <2>3 DEF Credit
  <2> QED
    BY <2>2, <2>3, <2>4, <2>5, <2>6 DEF FInv
<1> QED
  BY <1>3, <1>4, <1>5, <1>6

\* The invariant holds throughout, whatever is executed, registered, written or raised.
THEOREM ForgeInvariant == Spec => []FInv
<1>1. FInv /\ [Next]_vars => FInv'
  <2> SUFFICES ASSUME FInv, [Next]_vars PROVE FInv'
    OBVIOUS
  <2>1. ASSUME NEW s \in Snapshots, RegisterSnapshot(s) PROVE FInv'
    BY <2>1 DEF RegisterSnapshot, FInv, TypeOK, Credit
  <2>2. CASE UNCHANGED vars
    BY <2>2 DEF vars, FInv, TypeOK, Credit
  <2> QED
    BY <2>1, <2>2, AdministrationKeepsInv, ExecuteKeepsInv DEF Next
<1> QED
  BY <1>1, FInvInitially, PTL DEF Spec

\* Type correctness of the registry, the health records and the witnesses.
THEOREM ForgeTypeCorrect == Spec => []TypeOK
<1>1. FInv => TypeOK
  BY DEF FInv
<1> QED
  BY <1>1, ForgeInvariant, PTL

\* Registry and health part only by an operator's act, and every error beyond the
\* threshold cost one (ReferenceForgeRuntime.execute, VerifierHealthStore.observe).
THEOREM QuarantineThreshold == Spec => []ThresholdHolds
<1>1. FInv => ThresholdHolds
  BY DEF FInv, Credit, ThresholdHolds
<1> QED
  BY <1>1, ForgeInvariant, PTL

\* A verifier quarantined in its health gets at most one observed execution per act
\* (the is_quarantined check at the end of ReferenceForgeRuntime.execute).
THEOREM QuarantineBinds == Spec => []OneExecutionPerAct
<1>1. FInv => OneExecutionPerAct
  BY DEF FInv, Credit, OneExecutionPerAct
<1> QED
  BY <1>1, ForgeInvariant, PTL

\* Where build_coverage does not raise, no kind of snapshot a verifier was registered for goes both
\* unseen by a completed run and unreported, but those after the first of a quarantined verifier
\* (build_coverage and discover_question_candidates read the same registry).
THEOREM GapsAreReported == Spec => []NoSilentGap
<1>1. NoSilentGap
  <2> SUFFICES ASSUME CoverageBuilt, NEW v \in Verifiers, NEW i \in 1 .. Len(Accepts[v]),
                      states[v] \in {"enabled", "quarantined"}
               PROVE  \/ Accepts[v][i] \in ExercisedKinds \cup ReportedKinds
                      \/ states[v] = "quarantined" /\ i > 1
    BY DEF NoSilentGap
  <2>1. CASE states[v] = "enabled"
    <3>1. Accepts[v][i] \in RegisteredKinds
      BY <2>1 DEF RegisteredKinds, Accepted
    <3> QED BY <3>1 DEF ReportedKinds
  <2>2. CASE states[v] = "quarantined" /\ ~ (i > 1)
    <3>1. i = 1
      BY <2>2, VerifiersAssumption
    <3> QED BY <2>2, <3>1 DEF ReportedKinds
  <2> QED BY <2>1, <2>2
<1> QED BY <1>1, PTL
=============================================================================
