----------------------------- MODULE ProviderStudy -----------------------------
(***************************************************************************)
(* The provider portfolio study of src/mnel/provider_study.py: a routing   *)
(* policy selects providers for a case, those selected are run, and the    *)
(* runs are measured and compared.  Neither routing nor running looks at   *)
(* the lifecycle, which goes on beside them.                               *)
(***************************************************************************)
EXTENDS ProviderLifecycle, FiniteSets, SequencesExt

CONSTANTS
  Bindings,  \* provider identity -> kind, architecture, objective, cost, family and views
  Cases,     \* case identity -> view, label ("none" if unknown), whether out of distribution
             \* and whether the reference supports usefulness
  Policies,  \* kind, candidates (a sequence of identities) and max_providers
  Outcomes,  \* what loading and inferring come to
  MaxRuns    \* bound: runs of the study

Label == {"negative", "positive"}
Failure == {"malformed-input", "runtime-error"}

\* An observation, or the error raised by loading, by the first inference or by a warm one.
Outcome ==
  [raised : {"none"}, label : Label, abstained : BOOLEAN, ood : BOOLEAN]
    \cup [raised : Failure, label : {"none"}, abstained : {FALSE}, ood : {FALSE}]

ASSUME BindingsAssumption ==
  /\ DOMAIN Bindings \subseteq Nat
  /\ \A p \in DOMAIN Bindings :
       Bindings[p] \in [ kind : {"learned-provider", "baseline"}, architecture : Nat,
                         objective : Nat, cost : Nat, family : Nat, views : SUBSET STRING ]
ASSUME CasesAssumption ==
  \A c \in DOMAIN Cases :
    Cases[c] \in [view : STRING, label : Label \cup {"none"}, ood : BOOLEAN, supports : BOOLEAN]
ASSUME PoliciesAssumption ==
  \A policy \in Policies :
    /\ policy.kind \in {"random", "heuristic", "single-provider", "diversity"}
    /\ policy.candidates \in Seq(Nat) \ {<< >>} /\ IsInjective(policy.candidates)
    /\ policy.max \in 1 .. 16
ASSUME OutcomesAssumption == Outcomes \subseteq Outcome
ASSUME RunsAssumption == MaxRuns \in Nat

VARIABLES
  selection,  \* the last RoutingSelection, none at first
  runs        \* the ProviderRuns, in the order they were made

vars == <<lifecycleVars, selection, runs>>

-----------------------------------------------------------------------------
(* Routing.                                                                *)

\* The candidates that can be asked about the case.
Compatible(policy, case) ==
  {p \in ToSet(policy.candidates) \cap DOMAIN Bindings : case.view \in Bindings[p].views}

\* Orders of providers.  Keys compare lexicographically, and costs as the strings they are:
\* "high" before "low" before "medium".
Less(k, l) == \E i \in DOMAIN k : k[i] < l[i] /\ \A j \in 1 .. i - 1 : k[j] = l[j]

BaselineLast(p) == IF Bindings[p].kind = "baseline" THEN 1 ELSE 0

Listed(candidates, p, q) ==
  \E i, j \in DOMAIN candidates : i < j /\ candidates[i] = p /\ candidates[j] = q

Cheaper(p, q) ==
  Less(<<Bindings[p].cost, BaselineLast(p), Bindings[p].family, p>>,
       <<Bindings[q].cost, BaselineLast(q), Bindings[q].family, q>>)

\* Mutant: the baselines take their turn among the learned providers.
MixedFirst(p, q) ==
  Less(<<Bindings[p].architecture, p>>, <<Bindings[q].architecture, q>>)

LearnedFirst(p, q) ==
  Less(<<BaselineLast(p), Bindings[p].architecture, p>>,
       <<BaselineLast(q), Bindings[q].architecture, q>>)

\* The members of a set in an order, and the first of them.
Arranged(ids, Before(_, _)) ==
  {s \in [1 .. Cardinality(ids) -> ids] :
     ToSet(s) = ids /\ \A i, j \in DOMAIN s : i < j => Before(s[i], s[j])}

FirstOf(ids, max, Before(_, _)) == {p \in ids : Cardinality({q \in ids : Before(q, p)}) < max}

\* What p adds to those chosen: an architecture or an objective.
Novel(p, chosen) ==
  \/ \A q \in chosen : Bindings[q].architecture # Bindings[p].architecture
  \/ \A q \in chosen : Bindings[q].objective # Bindings[p].objective

\* Taken in order, a provider is chosen if there is room and it adds to those chosen before it.
Diverse(ids, max) ==
  {chosen \in SUBSET ids :
     \A p \in ids :
       LET before == {q \in chosen : LearnedFirst(q, p)}
       IN  p \in chosen <=> Cardinality(before) < max /\ Novel(p, before)}

\* select_providers: what it may select; the seeded shuffle is any.
Selections(policy, case) ==
  LET ids    == Compatible(policy, case)
      number == IF Cardinality(ids) < policy.max THEN Cardinality(ids) ELSE policy.max
      Before(p, q) == Listed(policy.candidates, p, q)
  IN  CASE policy.kind = "single-provider" -> Arranged(FirstOf(ids, policy.max, Before), Before)
        [] policy.kind = "random"    ->
             UNION {Arranged(chosen, LAMBDA p, q : p < q) : chosen \in kSubset(number, ids)}
        [] policy.kind = "heuristic" -> Arranged(FirstOf(ids, policy.max, Cheaper), Cheaper)
        [] policy.kind = "diversity" ->
             UNION {Arranged(chosen, LearnedFirst) : chosen \in Diverse(ids, policy.max)}

-----------------------------------------------------------------------------
(* Running.                                                                *)

\* run_provider: a failure at any stage makes the run one, even after a first observation; an
\* observation that is out of distribution and does not abstain is complete.
ProviderRun(p, c, o) ==
  LET status == CASE o.raised # "none" -> o.raised
                  [] ~ o.abstained /\ o.raised = "none" -> "completed"
                  [] o.abstained -> IF o.ood THEN "out-of-distribution" ELSE "abstained"
      judged == Cases[c].supports /\ Cases[c].label # "none" /\ status = "completed"
  IN  [ provider |-> p, case |-> c, status |-> status,
        label |-> IF status = "completed" THEN o.label ELSE "none",
        abstained |-> o.abstained, ood |-> o.ood,
        useful |-> IF judged THEN IF o.label = Cases[c].label THEN "yes" ELSE "no" ELSE "none" ]

\* One turn of the study: a policy routes a case, and those selected are run one after the other.
Study(policy, c) ==
  \E selected \in Selections(policy, Cases[c]) :
    /\ Len(runs) + Len(selected) <= MaxRuns
    /\ selection' = [policy |-> policy, case |-> c, selected |-> selected]
    /\ \E outcomes \in [DOMAIN selected -> Outcomes] :
         runs' = runs \o [i \in DOMAIN selected |-> ProviderRun(selected[i], c, outcomes[i])]
    /\ UNCHANGED lifecycleVars

Manage == StoreNext /\ UNCHANGED <<selection, runs>>

Init ==
  /\ EmptyStore
  /\ selection = << >>
  /\ runs = << >>

Next ==
  \/ \E policy \in Policies, c \in DOMAIN Cases : Study(policy, c)
  \/ Manage

Spec == Init /\ [][Next]_vars

-----------------------------------------------------------------------------
(* Measuring and comparing.                                                *)

SameKey(r, s) == r.provider = s.provider /\ r.case = s.case

\* Mutant: a later run of a provider on a case replaces the first.
KeptLast == {runs[i] : i \in {i \in DOMAIN runs : \A j \in i + 1 .. Len(runs) : ~ SameKey(runs[j], runs[i])}}

\* setdefault: of the runs of a provider on a case the first counts.
Kept == {runs[i] : i \in {i \in DOMAIN runs : \A j \in 1 .. i - 1 : ~ SameKey(runs[j], runs[i])}}

\* Mutant: a run that did not complete is judged as well.
LabeledAll(r) == Cases[r.case].label # "none"

\* _binary_error is defined.
Labeled(r) == r.status = "completed" /\ r.label # "none" /\ Cases[r.case].label # "none"
Wrong(r) == Labeled(r) /\ r.label # Cases[r.case].label

\* quality_metrics
Quality(p) ==
  LET mine == {r \in Kept : r.provider = p}
      Count(Test(_)) == Cardinality({r \in mine : Test(r)})
      Status(s) == Cardinality({r \in mine : r.status = s})
      expected == {r \in mine : Cases[r.case].ood}
  IN  [ total |-> Cardinality(mine),
        completed |-> Status("completed"), abstentions |-> Status("abstained"),
        malformed |-> Status("malformed-input"), errors |-> Status("runtime-error"),
        ood |-> Count(LAMBDA r : r.ood),
        correct_ood |-> Count(LAMBDA r : r.ood /\ r \in expected),
        false_ood |-> Count(LAMBDA r : r.ood /\ r \notin expected),
        unexpected |-> Count(LAMBDA r : r.status = "completed" /\ r \in expected),
        labeled |-> Count(Labeled),
        correct |-> Count(LAMBDA r : Labeled(r) /\ ~ Wrong(r)),
        useful |-> Count(LAMBDA r : r.useful = "yes") ]

\* compare_provider_runs, for two providers: over the cases both have run.  Of the pairs of errors
\* it hands _phi, the number and how many each of the two accounts for.
Comparison(a, b) ==
  LET pairs == {pair \in Kept \X Kept :
                  pair[1].provider = a /\ pair[2].provider = b /\ pair[1].case = pair[2].case}
      Count(Test(_, _)) == Cardinality({pair \in pairs : Test(pair[1], pair[2])})
      Same(r, s) == r.status = s.status /\ r.label = s.label
      Judged(r, s) == Labeled(r) /\ Labeled(s)
  IN  [ compared |-> Cardinality(pairs),
        agreements |-> Count(Same),
        disagreements |-> Count(LAMBDA r, s : ~ Same(r, s)),
        joint_failures |-> Count(LAMBDA r, s : Judged(r, s) /\ Wrong(r) /\ Wrong(s)),
        any_failures |-> Count(LAMBDA r, s : Judged(r, s) /\ (Wrong(r) \/ Wrong(s))),
        judged |-> Count(Judged),
        failures_a |-> Count(LAMBDA r, s : Judged(r, s) /\ Wrong(r)),
        failures_b |-> Count(LAMBDA r, s : Judged(r, s) /\ Wrong(s)),
        abstention_overlap |-> Count(LAMBDA r, s : r.abstained /\ s.abstained),
        ood_overlap |-> Count(LAMBDA r, s : r.ood /\ s.ood) ]

Measured == {r.provider : r \in Kept}

-----------------------------------------------------------------------------
\* Running what was already run, as policies that select alike make the study do, changes no
\* metric and no comparison, whatever comes of it.
RerunsChangeNothing ==
  [][ {<<r.provider, r.case>> : r \in Kept}' = {<<r.provider, r.case>> : r \in Kept} =>
        /\ \A p \in Measured : Quality(p)' = Quality(p)
        /\ \A a, b \in Measured : a < b => Comparison(a, b)' = Comparison(a, b) ]_runs

\* The counts of a provider fit together: every run counts by its status, but those out of
\* distribution by the flag, so that one that is flagged and complete counts twice; no more are
\* useful than correct.  And they fit its comparisons: neither provider fails on more of the cases
\* compared than it got wrong, a failure of both is one of each, and on the cases both judged they
\* disagree just where one of them fails alone: two that fail on none of them agree on each, so
\* that they disagree at most where they are not both judged.
CountsFit ==
  /\ \A p \in Measured : LET q == Quality(p) IN
       /\ q.completed + q.abstentions + q.malformed + q.errors <= q.total
       /\ q.total <= q.completed + q.abstentions + q.malformed + q.errors + q.ood
       /\ q.correct_ood + q.false_ood = q.ood
       /\ q.useful <= q.correct /\ q.correct <= q.labeled /\ q.labeled <= q.completed
  /\ \A a, b \in Measured : a < b => LET k == Comparison(a, b) IN
       /\ k.agreements + k.disagreements = k.compared
       /\ k.joint_failures <= k.any_failures
       /\ k.failures_a <= Quality(a).labeled - Quality(a).correct
       /\ k.failures_b <= Quality(b).labeled - Quality(b).correct
       /\ k.any_failures + k.joint_failures = k.failures_a + k.failures_b
       /\ k.any_failures - k.joint_failures <= k.disagreements
       /\ k.disagreements <= k.any_failures - k.joint_failures + k.compared - k.judged

\* A diversity policy selects someone whenever anyone is compatible, leaves an architecture or an
\* objective of those compatible out only at its limit, and lets no baseline in before the learned
\* providers have nothing to add.
DiversityCovers ==
  selection # << >> /\ selection.policy.kind = "diversity" =>
    LET chosen     == ToSet(selection.selected)
        compatible == Compatible(selection.policy, Cases[selection.case])
        learned    == {p \in compatible : Bindings[p].kind = "learned-provider"}
        Kin(p, by, trait) == \E q \in by : Bindings[q][trait] = Bindings[p][trait]
        Covered(p, by) == Kin(p, by, "architecture") /\ Kin(p, by, "objective")
    IN  /\ chosen \subseteq compatible
        /\ compatible # {} => chosen # {}
        /\ Len(selection.selected) < selection.policy.max => \A p \in compatible : Covered(p, chosen)
        /\ chosen \subseteq learned \/ \A p \in learned : Covered(p, chosen \cap learned)
=============================================================================
