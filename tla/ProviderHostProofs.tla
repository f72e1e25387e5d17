-------------------------- MODULE ProviderHostProofs --------------------------
(***************************************************************************)
(* The crate mnel-provider-host.  For any providers, manifests, limits and *)
(* answers: the host's two maps agree, quarantine starts exactly at the    *)
(* threshold, and only unload() ends it.  For any policies, capabilities   *)
(* and diagnostics: the two implementations of placement agree, recovery   *)
(* descends and the reserve is kept.                                       *)
(***************************************************************************)
EXTENDS ProviderHost, Placement, SequenceTheorems, TLAPS

\* A provider's record is consistent with its failure count.
Exact(hosted) == hosted.state = "Quarantined" <=> hosted.failures >= max_failures

HInv == TypeOK /\ CatalogMatchesProviders /\ QuarantineExact

\* The threshold is positive and fits a u32 (ProviderHost::new).
LEMMA Limits == max_failures \in Nat \ {0} /\ max_failures <= U32Max /\ U32Max \in Nat
BY LimitsAssumption DEF max_failures

\* Counting a failure keeps a record consistent and adds at most one.
LEMMA RecordFailureExact ==
  ASSUME NEW hosted \in Hosted, NEW reason \in ProviderErrors, Exact(hosted)
  PROVE  /\ RecordFailure(hosted, reason) \in Hosted
         /\ Exact(RecordFailure(hosted, reason))
         /\ RecordFailure(hosted, reason).failures <= hosted.failures + 1
<1> DEFINE failures == IF hosted.failures = U32Max THEN U32Max ELSE hosted.failures + 1
<1>1. hosted.failures \in 0 .. U32Max
  BY DEF Hosted
<1>2. failures \in 0 .. U32Max /\ failures <= hosted.failures + 1 /\ hosted.failures <= failures
  BY <1>1, Limits
<1> HIDE DEF failures
<1>3. CASE failures >= max_failures
  <2>1. RecordFailure(hosted, reason) =
          [state |-> "Quarantined", failures |-> failures, reason |-> reason]
    BY <1>3 DEF RecordFailure, failures
  <2> QED
    BY <2>1, <1>2, <1>3 DEF Hosted, Exact
<1>4. CASE ~ (failures >= max_failures)
  <2>1. RecordFailure(hosted, reason) = [hosted EXCEPT !.failures = failures]
    BY <1>4 DEF RecordFailure, failures
  <2>2. hosted.state = "Active"
    BY <1>1, <1>2, <1>4, Limits DEF Hosted, Exact
  <2> QED
    BY <2>1, <2>2, <1>2, <1>4 DEF Hosted, Exact
<1> QED
  BY <1>3, <1>4

\* A provider just admitted is below the threshold.
LEMMA FreshExact == Fresh \in Hosted /\ Exact(Fresh) /\ Fresh.failures <= max_failures + 1
BY Limits DEF Fresh, Hosted, Exact

\* Replacing one provider's record by a consistent one keeps the invariant.
LEMMA RecordReplaced ==
  ASSUME HInv, NEW p \in DOMAIN providers, NEW hosted \in Hosted,
         Exact(hosted), hosted.failures <= max_failures + 1,
         providers' = [providers EXCEPT ![p] = hosted],
         UNCHANGED <<catalog, snapshots>>,
         reply'.result \in Refusals \cup Statuses
  PROVE  HInv'
<1>1. DOMAIN providers' = DOMAIN providers
  OBVIOUS
<1>2. \A q \in DOMAIN providers : providers'[q] = IF q = p THEN hosted ELSE providers[q]
  OBVIOUS
<1>3. TypeOK'
  BY <1>1, <1>2 DEF HInv, TypeOK
<1>4. CatalogMatchesProviders'
  BY <1>1 DEF HInv, CatalogMatchesProviders
<1>5. QuarantineExact'
  BY <1>1, <1>2, Limits DEF HInv, QuarantineExact, Exact, max_failures
<1> QED
  BY <1>3, <1>4, <1>5 DEF HInv

\* Whoever is asked is active, so below the threshold.
LEMMA AskedIsActive ==
  ASSUME HInv, NEW p, NEW ids, NEW budget, Refusal(p, ids, budget) = "none"
  PROVE  /\ p \in DOMAIN providers
         /\ providers[p] \in Hosted
         /\ providers[p].state = "Active"
         /\ Exact(providers[p])
         /\ providers[p].failures < max_failures
<1>1. p \in DOMAIN providers /\ providers[p].state = "Active"
  BY DEF Refusal
<1>2. providers[p] \in Hosted
  BY <1>1 DEF HInv, TypeOK
<1>3. Exact(providers[p])
  BY <1>1 DEF HInv, QuarantineExact, Exact
<1>4. providers[p].failures \in Nat
  BY <1>2 DEF Hosted
<1> QED
  BY <1>1, <1>2, <1>3, <1>4, Limits DEF Exact

-----------------------------------------------------------------------------
\* A new host satisfies the invariant.
LEMMA InitHInv == Init => HInv
BY DEF Init, HInv, TypeOK, CatalogMatchesProviders, QuarantineExact, NoReply

\* admit() preserves the invariant.
LEMMA AdmitHInv ==
  ASSUME HInv, NEW p \in Providers, NEW m \in Manifests, Admit(p, m)
  PROVE  HInv'
<1>1. /\ catalog' = Insert(catalog, p, m)
      /\ providers' = Insert(providers, p, Fresh)
      /\ ~ m.accelerator /\ ValidManifest(m)
      /\ UNCHANGED <<snapshots, reply>>
  BY DEF Admit
<1>2. /\ DOMAIN catalog' = DOMAIN catalog \cup {p}
      /\ \A q \in DOMAIN catalog' : catalog'[q] = IF q = p THEN m ELSE catalog[q]
      /\ DOMAIN providers' = DOMAIN providers \cup {p}
      /\ \A q \in DOMAIN providers' : providers'[q] = IF q = p THEN Fresh ELSE providers[q]
  BY <1>1 DEF Insert
<1>3. TypeOK'
  BY <1>1, <1>2, FreshExact DEF HInv, TypeOK
<1>4. CatalogMatchesProviders'
  BY <1>1, <1>2 DEF HInv, CatalogMatchesProviders
<1>5. QuarantineExact'
  BY <1>1, <1>2, FreshExact DEF HInv, QuarantineExact, Exact
<1> QED
  BY <1>3, <1>4, <1>5 DEF HInv

\* unload() preserves the invariant.
LEMMA UnloadHInv ==
  ASSUME HInv, NEW p \in Providers, Unload(p)
  PROVE  HInv'
<1>1. /\ catalog' = Remove(catalog, p)
      /\ providers' = Remove(providers, p)
      /\ UNCHANGED <<snapshots, reply>>
  BY DEF Unload
<1>2. /\ DOMAIN catalog' = DOMAIN catalog \ {p}
      /\ \A q \in DOMAIN catalog' : catalog'[q] = catalog[q]
      /\ DOMAIN providers' = DOMAIN providers \ {p}
      /\ \A q \in DOMAIN providers' : providers'[q] = providers[q]
  BY <1>1 DEF Remove
<1>3. TypeOK'
  BY <1>1, <1>2 DEF HInv, TypeOK
<1>4. CatalogMatchesProviders'
  BY <1>1, <1>2 DEF HInv, CatalogMatchesProviders
<1>5. QuarantineExact'
  BY <1>1, <1>2 DEF HInv, QuarantineExact
<1> QED
  BY <1>3, <1>4, <1>5 DEF HInv

\* register_snapshot() preserves the invariant.
LEMMA RegisterHInv ==
  ASSUME HInv, NEW s \in Snapshots, NEW x \in Extractors, NEW size \in Sizes,
         RegisterSnapshot(s, x, size)
  PROVE  HInv'
<1>1. /\ snapshots' = Insert(snapshots, s, [extractor |-> x, size |-> size])
      /\ UNCHANGED <<catalog, providers, reply>>
  BY DEF RegisterSnapshot
<1>2. /\ DOMAIN snapshots' = DOMAIN snapshots \cup {s}
      /\ \A t \in DOMAIN snapshots' :
           snapshots'[t] = IF t = s THEN [extractor |-> x, size |-> size] ELSE snapshots[t]
  BY <1>1 DEF Insert
<1>3. TypeOK'
  BY <1>1, <1>2 DEF HInv, TypeOK
<1>4. CatalogMatchesProviders' /\ QuarantineExact'
  BY <1>1 DEF HInv, CatalogMatchesProviders, QuarantineExact
<1> QED
  BY <1>3, <1>4 DEF HInv

\* A call invoke() refuses preserves the invariant.
LEMMA RefuseHInv ==
  ASSUME HInv, NEW p \in Providers, NEW ids, NEW budget, Refuse(p, ids, budget)
  PROVE  HInv'
<1>1. /\ reply' = [NoReply EXCEPT !.provider = p, !.result = Refusal(p, ids, budget)]
      /\ Refusal(p, ids, budget) # "none"
      /\ UNCHANGED <<catalog, providers, snapshots>>
  BY DEF Refuse
<1>2. Refusal(p, ids, budget) \in Refusals
  BY <1>1 DEF Refusal, Refusals
<1>3. reply'.result \in Refusals
  BY <1>1, <1>2 DEF NoReply
<1> QED
  BY <1>1, <1>3 DEF HInv, TypeOK, CatalogMatchesProviders, QuarantineExact

\* A call whose provider answers preserves the invariant.
LEMMA SucceedHInv ==
  ASSUME HInv, NEW p \in Providers, NEW ids, NEW budget, NEW bytes, NEW ood, NEW elapsed,
         Succeed(p, ids, budget, bytes, ood, elapsed)
  PROVE  HInv'
<1> DEFINE limit == Least(max_output_bytes, budget.memory_bytes)
           late  == elapsed > budget.wall_time_ns
           long  == bytes > limit
           timed == IF late THEN RecordFailure(providers[p], "BudgetExceeded") ELSE providers[p]
           sized == IF long THEN RecordFailure(timed, "BudgetExceeded") ELSE timed
<1>1. /\ Refusal(p, ids, budget) = "none"
      /\ providers' = [providers EXCEPT ![p] = sized]
      /\ reply'.result \in {"BUDGET_EXCEEDED", "COMPLETED"}
      /\ UNCHANGED <<catalog, snapshots>>
  BY DEF Succeed, Reply
<1>2. /\ p \in DOMAIN providers /\ providers[p] \in Hosted /\ Exact(providers[p])
      /\ providers[p].failures < max_failures
  BY <1>1, AskedIsActive
<1>3. "BudgetExceeded" \in ProviderErrors
  BY DEF ProviderErrors
<1> HIDE DEF limit, late, long
<1>4. timed \in Hosted /\ Exact(timed) /\ timed.failures <= providers[p].failures + 1
  <2>1. providers[p].failures \in Nat
    BY <1>2 DEF Hosted
  <2> QED
    BY <2>1, <1>2, <1>3, RecordFailureExact
<1> HIDE DEF timed
<1>5. sized \in Hosted /\ Exact(sized) /\ sized.failures <= timed.failures + 1
  <2>1. timed.failures \in Nat
    BY <1>4 DEF Hosted
  <2> QED
    BY <2>1, <1>3, <1>4, RecordFailureExact
<1> HIDE DEF sized
<1>6. sized.failures <= max_failures + 1
  <2>1. providers[p].failures \in Nat /\ timed.failures \in Nat /\ sized.failures \in Nat
    BY <1>2, <1>4, <1>5 DEF Hosted
  <2> QED
    BY <2>1, <1>2, <1>4, <1>5, Limits
<1>7. reply'.result \in Refusals \cup Statuses
  BY <1>1 DEF Statuses
<1> QED
  BY <1>1, <1>2, <1>5, <1>6, <1>7, RecordReplaced

\* A call whose provider returns an error preserves the invariant.
LEMMA FailHInv ==
  ASSUME HInv, NEW p \in Providers, NEW ids, NEW budget, NEW error \in Errors,
         Fail(p, ids, budget, error)
  PROVE  HInv'
<1> DEFINE failed == RecordFailure(providers[p], error)
<1>1. /\ Refusal(p, ids, budget) = "none"
      /\ providers' = [providers EXCEPT ![p] = failed]
      /\ reply'.result = ErrorStatus(error)
      /\ UNCHANGED <<catalog, snapshots>>
  BY DEF Fail, Reply
<1>2. /\ p \in DOMAIN providers /\ providers[p] \in Hosted /\ Exact(providers[p])
      /\ providers[p].failures < max_failures
  BY <1>1, AskedIsActive
<1>3. error \in ProviderErrors
  BY AnswersAssumption
<1>4. failed \in Hosted /\ Exact(failed) /\ failed.failures <= providers[p].failures + 1
  BY <1>2, <1>3, RecordFailureExact
<1> HIDE DEF failed
<1>5. failed.failures <= max_failures + 1
  <2>1. providers[p].failures \in Nat /\ failed.failures \in Nat
    BY <1>2, <1>4 DEF Hosted
  <2> QED
    BY <2>1, <1>2, <1>4, Limits
<1>6. ErrorStatus(error) \in Statuses
  BY <1>3 DEF ErrorStatus, Statuses, ProviderErrors
<1> QED
  BY <1>1, <1>2, <1>4, <1>5, <1>6, RecordReplaced

\* Every step preserves the invariant.
LEMMA NextHInv == HInv /\ [Next]_vars => HInv'
<1> SUFFICES ASSUME HInv, [Next]_vars PROVE HInv'
  OBVIOUS
<1>1. CASE UNCHANGED vars
  BY <1>1 DEF vars, HInv, TypeOK, CatalogMatchesProviders, QuarantineExact
<1>2. CASE Next
  BY <1>2, AdmitHInv, UnloadHInv, RegisterHInv, RefuseHInv, SucceedHInv, FailHInv DEF Next
<1> QED
  BY <1>1, <1>2

\* The invariant of the host holds in every reachable state (ProviderHost::admit, unload,
\* register_snapshot and invoke).
THEOREM HostInvariant == Spec => []HInv
BY InitHInv, NextHInv, PTL DEF Spec

\* The host's maps and counters keep their shape; no failure count leaves a u32.
THEOREM HostTypeCorrect == Spec => []TypeOK
<1>1. HInv => TypeOK
  BY DEF HInv
<1> QED
  BY <1>1, HostInvariant, PTL

\* The catalogue and the hosted providers never part (ProviderHost::admit, unload).
THEOREM MapsAgree == Spec => []CatalogMatchesProviders
<1>1. HInv => CatalogMatchesProviders
  BY DEF HInv
<1> QED
  BY <1>1, HostInvariant, PTL

\* Quarantine starts at the max_failures-th failure, for every threshold a u32 holds, and
\* the count overshoots it by at most one (ProviderHost::record_failure).
THEOREM QuarantineAtThreshold == Spec => []QuarantineExact
<1>1. HInv => QuarantineExact
  BY DEF HInv
<1> QED
  BY <1>1, HostInvariant, PTL

\* A quarantined provider is left alone until it is unloaded (ProviderHost::invoke, admit).
THEOREM QuarantineIsHeld == Spec => QuarantineHolds
<1> DEFINE Held(p) ==
      providers[p].state = "Quarantined" =>
        /\ Unload(p) \/ (p \in DOMAIN providers' /\ providers'[p] = providers[p])
        /\ reply' # reply /\ reply'.provider = p => reply'.result = "ProviderQuarantined"
<1>1. HInv /\ [Next]_vars => [\A p \in DOMAIN providers : Held(p)]_vars
  <2> SUFFICES ASSUME HInv, Next, NEW p \in DOMAIN providers, providers[p].state = "Quarantined"
               PROVE  /\ Unload(p) \/ (p \in DOMAIN providers' /\ providers'[p] = providers[p])
                      /\ reply' # reply /\ reply'.provider = p => reply'.result = "ProviderQuarantined"
    OBVIOUS
  <2> PICK q \in Providers :
        \/ \E m \in Manifests : Admit(q, m)
        \/ Unload(q)
        \/ \E s \in Snapshots, x \in Extractors, size \in Sizes : RegisterSnapshot(s, x, size)
        \/ \E ids \in Queries, budget \in Budgets :
             \/ Refuse(q, ids, budget)
             \/ \E bytes, elapsed \in Sizes, ood \in BOOLEAN : Succeed(q, ids, budget, bytes, ood, elapsed)
             \/ \E error \in Errors : Fail(q, ids, budget, error)
    BY DEF Next
  <2>1. CASE \E m \in Manifests : Admit(q, m)
    <3>1. q # p /\ providers' = Insert(providers, q, Fresh) /\ reply' = reply
      BY <2>1 DEF Admit, HInv, CatalogMatchesProviders
    <3> QED
      BY <3>1 DEF Insert
  <2>2. CASE Unload(q)
    <3>1. providers' = Remove(providers, q) /\ reply' = reply
      BY <2>2 DEF Unload
    <3> QED
      BY <2>2, <3>1 DEF Remove
  <2>3. CASE \E s \in Snapshots, x \in Extractors, size \in Sizes : RegisterSnapshot(s, x, size)
    BY <2>3 DEF RegisterSnapshot
  <2>4. CASE \E ids \in Queries, budget \in Budgets : Refuse(q, ids, budget)
    <3>1. PICK ids \in Queries, budget \in Budgets : Refuse(q, ids, budget)
      BY <2>4
    <3>2. /\ providers' = providers
          /\ reply'.provider = q /\ reply'.result = Refusal(q, ids, budget)
      BY <3>1 DEF Refuse, NoReply
    <3>3. p = q => Refusal(q, ids, budget) = "ProviderQuarantined"
      BY DEF Refusal
    <3> QED
      BY <3>2, <3>3
  <2>5. ASSUME NEW ids, NEW budget, NEW hosted, Refusal(q, ids, budget) = "none",
               providers' = [providers EXCEPT ![q] = hosted], reply'.provider = q
        PROVE  /\ p \in DOMAIN providers' /\ providers'[p] = providers[p]
               /\ reply'.provider # p
    <3>1. q # p
      BY <2>5, AskedIsActive
    <3> QED
      BY <2>5, <3>1
  <2>6. CASE \E ids \in Queries, budget \in Budgets, bytes, elapsed \in Sizes, ood \in BOOLEAN :
               Succeed(q, ids, budget, bytes, ood, elapsed)
    <3>1. PICK ids \in Queries, budget \in Budgets, bytes, elapsed \in Sizes, ood \in BOOLEAN :
                 Succeed(q, ids, budget, bytes, ood, elapsed)
      BY <2>6
    <3>2. PICK hosted : /\ Refusal(q, ids, budget) = "none"
                        /\ providers' = [providers EXCEPT ![q] = hosted]
      BY <3>1, Zenon DEF Succeed
    <3>3. reply'.provider = q
      BY <3>1 DEF Succeed, Reply
    <3> QED
      BY <2>5, <3>2, <3>3
  <2>7. CASE \E ids \in Queries, budget \in Budgets, error \in Errors : Fail(q, ids, budget, error)
    <3>1. PICK ids \in Queries, budget \in Budgets, error \in Errors : Fail(q, ids, budget, error)
      BY <2>7
    <3>2. PICK hosted : /\ Refusal(q, ids, budget) = "none"
                        /\ providers' = [providers EXCEPT ![q] = hosted]
      BY <3>1, Zenon DEF Fail
    <3>3. reply'.provider = q
      BY <3>1 DEF Fail, Reply
    <3> QED
      BY <2>5, <3>2, <3>3
  <2> QED
    BY <2>1, <2>2, <2>3, <2>4, <2>6, <2>7
<1> QED
  BY <1>1, HostInvariant, PTL DEF Spec, QuarantineHolds

-----------------------------------------------------------------------------
(* Placement.                                                              *)

Accelerated == {"full-cuda", "sequential-cpu-offload"}

(***************************************************************************)
(* Where the retries stand.  The policy in force is the operator's, the    *)
(* operator's with sequential offload, or one for the CPU; the modes that  *)
(* ran out of memory say which, and only AUTO gets beyond the first.       *)
(***************************************************************************)

Untried(l) == exhausted[l] = <<>> /\ policy[l] = asked

Kept(l) ==
  /\ policy[l].model_storage = asked.model_storage
  /\ policy[l].host_memory_budget = asked.host_memory_budget
  /\ policy[l].workspace = asked.workspace

Recovering(l) ==
  asked.execution_device = "auto" /\ Admissible(asked, capabilities) /\ Kept(l)

Offloading(l) ==
  /\ exhausted[l] = <<"full-cuda">> /\ capabilities.sequential
  /\ Recovering(l)
  /\ policy[l].execution_device = "auto" /\ policy[l].offload = "sequential-cpu"
  /\ policy[l].precision = asked.precision
  /\ policy[l].gpu_reserve = asked.gpu_reserve /\ policy[l].max_vram = asked.max_vram

OnTheCpu(l) ==
  /\ \/ exhausted[l] = <<"full-cuda">> /\ ~ capabilities.sequential
     \/ exhausted[l] = <<"sequential-cpu-offload">>
     \/ exhausted[l] = <<"full-cuda", "sequential-cpu-offload">>
  /\ Recovering(l)
  /\ policy[l].execution_device = "cpu" /\ policy[l].offload = "none"
  /\ policy[l].precision = "float32" /\ policy[l].max_vram # 0

Stopped(l) ==
  /\ asked.execution_device = "cuda"
  /\ exhausted[l] \in {<<"full-cuda">>, <<"sequential-cpu-offload">>}
  /\ placed[l].mode \in Accelerated

Standing(l) ==
  IF phase = "stopped" THEN Stopped(l) ELSE Untried(l) \/ Offloading(l) \/ OnTheCpu(l)

Reasoned(l) ==
  phase = "decided" => placed[l] = Decided(l, policy[l], diagnostics, capabilities)

\* Before the first decision nothing is placed.
Waiting(l) == phase = "decide" /\ exhausted[l] = <<>> => placed[l] = Error

PlacementInv ==
  /\ PlacementTypeOK /\ diagnostics.free_vram < U64Max
  /\ LanguagesAgree
  /\ \A l \in Implementations : Standing(l) /\ Reasoned(l) /\ Waiting(l)

-----------------------------------------------------------------------------
(* The decision.                                                           *)

\* Appending a mode to none, and the second mode to the first.
LEMMA Appending ==
  /\ \A a : Append(<<>>, a) = <<a>>
  /\ Append(<<"full-cuda">>, "sequential-cpu-offload") = <<"full-cuda", "sequential-cpu-offload">>
PROOF
  <1>1. \A a : Append(<<>>, a) = <<a>>
    OBVIOUS
  <1> DEFINE one == <<"full-cuda">>
             two == <<"full-cuda", "sequential-cpu-offload">>
             both == Append(one, "sequential-cpu-offload")
  <1>2. /\ one \in Seq(Modes) /\ two \in Seq(Modes) /\ "sequential-cpu-offload" \in Modes
        /\ Len(one) = 1 /\ one[1] = "full-cuda"
        /\ Len(two) = 2 /\ two[1] = "full-cuda" /\ two[2] = "sequential-cpu-offload"
    BY DEF Modes
  <1>3. /\ both \in Seq(Modes) /\ Len(both) = 2
        /\ both[1] = "full-cuda" /\ both[2] = "sequential-cpu-offload"
    <2> HIDE DEF one
    <2> QED BY <1>2, AppendProperties
  <1>4. both = two
    <2> HIDE DEF one, two, both
    <2> QED BY <1>2, <1>3, SeqEqual
  <1> QED BY <1>1, <1>4

\* A decision is one of the four modes or an error, with a precision.
LEMMA DecisionType ==
  ASSUME NEW l \in Implementations, NEW p \in Policy, NEW d \in Diagnostic, NEW c \in Capability
  PROVE  Decided(l, p, d, c) \in [mode : Modes \cup {"error"}, precision : Precisions \cup {"none"}]
PROOF
  <1>1. CudaPrecision(p, d, c) \in Precisions \cup {"none"}
    BY DEF CudaPrecision, Precisions, Policy, Diagnostic, Capability
  <1>2. CpuPrecision(p) \in Precisions
    BY DEF CpuPrecision, Precisions, Policy
  <1>3. DecideCuda(l, p, d, c) \in [mode : Modes \cup {"error"}, precision : Precisions \cup {"none"}]
    <2> HIDE DEF CudaPrecision
    <2> QED BY <1>1 DEF DecideCuda, Decision, Error, OnCpu, Modes, Precisions
  <1> QED BY <1>2, <1>3 DEF Decided, DecideCpu, DecideUnusable, Decision, Error, OnCpu, Modes, Precisions

\* What fits a budget below the largest u64 fits it in both languages or in neither.
LEMMA SaturationIsHarmless ==
  ASSUME NEW p \in Policy, NEW d \in Diagnostic, d.free_vram < U64Max, NEW precision
  PROVE  /\ GpuBudget(p, d) \in Nat
         /\ PrecisionBytes(p, precision) \in Nat
         /\ \A l \in Implementations :
              Required(l, p, precision) <= GpuBudget(p, d)
                <=> PrecisionBytes(p, precision) + p.workspace <= GpuBudget(p, d)
PROOF
  <1>1. /\ p.model_storage \in Nat /\ p.workspace \in Nat /\ p.gpu_reserve \in Nat
        /\ p.max_vram \in Nat /\ d.free_vram \in Nat /\ U64Max \in Nat
    BY U64Assumption DEF Policy, Diagnostic, Bytes
  <1>2. PrecisionBytes(p, precision) \in Nat
    BY <1>1 DEF PrecisionBytes
  <1>3. GpuBudget(p, d) \in Nat /\ GpuBudget(p, d) < U64Max
    BY <1>1 DEF GpuBudget, Smaller
  <1>4. ASSUME NEW l \in Implementations
        PROVE  Required(l, p, precision) <= GpuBudget(p, d)
                 <=> PrecisionBytes(p, precision) + p.workspace <= GpuBudget(p, d)
    <2> HIDE DEF PrecisionBytes, GpuBudget
    <2> QED BY <1>1, <1>2, <1>3 DEF Required, Smaller
  <1> QED BY <1>2, <1>3, <1>4

\* The two languages decide alike on one policy, and on two policies for the CPU that ask
\* for the same.
LEMMA DecideAlike ==
  ASSUME NEW p \in Policy, NEW q \in Policy, NEW d \in Diagnostic, d.free_vram < U64Max,
         NEW c \in Capability, NEW k \in Implementations, NEW l \in Implementations,
         p.execution_device = q.execution_device, p.offload = q.offload,
         p.precision = q.precision, p.model_storage = q.model_storage,
         p.host_memory_budget = q.host_memory_budget, p.workspace = q.workspace,
         \/ p.gpu_reserve = q.gpu_reserve /\ p.max_vram = q.max_vram
         \/ p.execution_device = "cpu" /\ p.max_vram # 0 /\ q.max_vram # 0
  PROVE  Decided(k, p, d, c) = Decided(l, q, d, c)
PROOF
  <1>1. Admissible(p, c) <=> Admissible(q, c)
    BY DEF Admissible
  <1>2. DecideCpu(p, c) = DecideCpu(q, c) /\ DecideUnusable(p) = DecideUnusable(q)
    BY DEF DecideCpu, CpuPrecision, DecideUnusable
  <1>3. CASE p.execution_device = "cpu"
    BY <1>1, <1>2, <1>3 DEF Decided
  <1>4. CASE p.execution_device # "cpu"
    <2>1. CudaPrecision(p, d, c) = CudaPrecision(q, d, c)
      BY DEF CudaPrecision
    <2>2. GpuBudget(p, d) = GpuBudget(q, d)
      BY <1>4 DEF GpuBudget
    <2>3. \A precision : PrecisionBytes(p, precision) = PrecisionBytes(q, precision)
      BY DEF PrecisionBytes
    <2>4. \A precision : Required(k, p, precision) <= GpuBudget(p, d)
                           <=> Required(l, q, precision) <= GpuBudget(q, d)
      BY <2>2, <2>3, SaturationIsHarmless
    <2>5. DecideCuda(k, p, d, c) = DecideCuda(l, q, d, c)
      <3> HIDE DEF CudaPrecision, GpuBudget, Required
      <3> QED BY <2>1, <2>4 DEF DecideCuda
    <2> QED BY <1>1, <1>2, <1>4, <2>5 DEF Decided
  <1> QED BY <1>3, <1>4

\* A policy for the CPU places nothing on the accelerator, one with sequential offload no
\* whole model, and what is placed there was admissible and not asked onto the CPU.
LEMMA DecisionModes ==
  ASSUME NEW l \in Implementations, NEW p \in Policy, NEW d \in Diagnostic, NEW c \in Capability
  PROVE  LET mode == Decided(l, p, d, c).mode
         IN  /\ mode \in Accelerated => Admissible(p, c) /\ p.execution_device # "cpu"
             /\ mode = "sequential-cpu-offload" => c.sequential
             /\ p.offload = "sequential-cpu" /\ p.execution_device # "cpu" =>
                  mode \in {"sequential-cpu-offload", "error"}
             /\ p.execution_device = "cpu" => mode \in {"cpu", "error"}
             /\ p.execution_device = "cuda" => mode \in Accelerated \cup {"error"}
PROOF
  <1>1. DecideCpu(p, c).mode \in {"cpu", "error"}
    BY DEF DecideCpu, Decision, Error
  <1>2. /\ DecideUnusable(p).mode \in {"cpu", "error"}
        /\ p.offload = "sequential-cpu" \/ p.execution_device = "cuda" =>
             DecideUnusable(p).mode = "error"
    BY DEF DecideUnusable, Decision, Error, OnCpu
  <1>3. /\ DecideCuda(l, p, d, c).mode = "sequential-cpu-offload" => c.sequential
        /\ p.offload = "sequential-cpu" =>
             DecideCuda(l, p, d, c).mode \in {"sequential-cpu-offload", "error"}
        /\ p.execution_device = "cuda" => DecideCuda(l, p, d, c).mode \in Accelerated \cup {"error"}
    BY DEF DecideCuda, Decision, Error, OnCpu, Accelerated, Policy, Devices
  <1>4. Error.mode = "error"
    BY DEF Error, Decision
  <1> QED BY <1>1, <1>2, <1>3, <1>4 DEF Decided, Accelerated

\* A whole model on the accelerator fits the budget.
LEMMA FullFits ==
  ASSUME NEW l \in Implementations, NEW p \in Policy, NEW d \in Diagnostic, d.free_vram < U64Max,
         NEW c \in Capability, Decided(l, p, d, c).mode = "full-cuda"
  PROVE  PrecisionBytes(p, Decided(l, p, d, c).precision) + p.workspace <= GpuBudget(p, d)
PROOF
  <1>1. Decided(l, p, d, c) = DecideCuda(l, p, d, c)
    BY DEF Decided, DecideCpu, DecideUnusable, Decision, Error, OnCpu
  <1>2. /\ DecideCuda(l, p, d, c).precision = CudaPrecision(p, d, c)
        /\ Required(l, p, CudaPrecision(p, d, c)) <= GpuBudget(p, d)
    <2> HIDE DEF CudaPrecision, Required, GpuBudget
    <2> QED BY <1>1 DEF DecideCuda, Decision, Error, OnCpu
  <1> QED BY <1>1, <1>2, SaturationIsHarmless

-----------------------------------------------------------------------------
(* The invariant.                                                          *)

\* The fallback is a policy: it changes where the model goes and never what it needs.
LEMMA FallbackPolicy ==
  ASSUME NEW l \in Implementations, NEW p \in Policy, NEW mode \in Accelerated, NEW c \in Capability
  PROVE  LET q == Fallback(l, p, mode, c)
         IN  /\ q \in Policy
             /\ q.model_storage = p.model_storage
             /\ q.host_memory_budget = p.host_memory_budget
             /\ q.workspace = p.workspace
             /\ mode = "full-cuda" /\ c.sequential =>
                  /\ q.execution_device = p.execution_device /\ q.offload = "sequential-cpu"
                  /\ q.precision = p.precision
                  /\ q.gpu_reserve = p.gpu_reserve /\ q.max_vram = p.max_vram
             /\ ~ (mode = "full-cuda" /\ c.sequential) =>
                  /\ q.execution_device = "cpu" /\ q.offload = "none"
                  /\ q.precision = "float32" /\ (p.max_vram # 0 => q.max_vram # 0)
PROOF
  <1>1. U64Max \in Bytes \ {0} /\ DefaultReserve \in Bytes
    BY U64Assumption DEF Bytes
  <1> QED BY <1>1 DEF Fallback, Policy, Devices, Offloads, Precisions, Accelerated

\* The invariant of placement holds of what was asked for.
LEMMA InitIInv == PlacementInit => PlacementInv
PROOF
  <1> SUFFICES ASSUME PlacementInit PROVE PlacementInv
    OBVIOUS
  <1>1. asked \in Policy /\ capabilities \in Capability
    BY InputsAssumption DEF PlacementInit
  <1>2. diagnostics \in Diagnostic /\ diagnostics.free_vram < U64Max
    BY U64Assumption DEF PlacementInit, Unprobed, Diagnostic, Bytes
  <1>3. "rust" \in Implementations /\ "python" \in Implementations
    BY DEF Implementations
  <1>4. placed \in [Implementations -> [mode : Modes \cup {"error"}, precision : Precisions \cup {"none"}]]
    BY DEF PlacementInit, Error, Decision
  <1>5. exhausted \in [Implementations -> Seq(Modes \cup {"error"})]
    BY DEF PlacementInit
  <1>6. PlacementTypeOK
    BY <1>1, <1>2, <1>4, <1>5 DEF PlacementInit, PlacementTypeOK
  <1>7. LanguagesAgree
    BY <1>3 DEF PlacementInit, LanguagesAgree
  <1>8. \A l \in Implementations : Standing(l) /\ Reasoned(l) /\ Waiting(l)
    BY DEF PlacementInit, Standing, Untried, Reasoned, Waiting
  <1> QED BY <1>2, <1>6, <1>7, <1>8 DEF PlacementInv

\* A decision keeps the invariant; that both languages decide alike is the point.
LEMMA DecideIInv == PlacementInv /\ Decide => PlacementInv'
PROOF
  <1> SUFFICES ASSUME PlacementInv, Decide PROVE PlacementInv'
    OBVIOUS
  <1>1. diagnostics' \in Diagnostic /\ diagnostics'.free_vram < U64Max
    BY InputsAssumption, MemoryAssumption DEF Decide
  <1>2. /\ asked \in Policy /\ capabilities \in Capability
        /\ \A l \in Implementations : policy[l] \in Policy
    BY DEF PlacementInv, PlacementTypeOK
  <1>3. \A l \in Implementations : placed'[l] = Decided(l, policy[l], diagnostics', capabilities)
    BY DEF Decide
  <1>4. PlacementTypeOK'
    BY <1>1, <1>2, DecisionType DEF Decide, PlacementInv, PlacementTypeOK
  <1>5. \A l \in Implementations : Untried(l) \/ Offloading(l) \/ OnTheCpu(l)
    BY DEF PlacementInv, Standing, Decide
  <1>6. LanguagesAgree'
    <2>1. "rust" \in Implementations /\ "python" \in Implementations /\ exhausted["rust"] = exhausted["python"]
      BY DEF Implementations, PlacementInv, LanguagesAgree
    <2> DEFINE p == policy["rust"]
               q == policy["python"]
    <2>2. /\ p.execution_device = q.execution_device /\ p.offload = q.offload
          /\ p.precision = q.precision /\ p.model_storage = q.model_storage
          /\ p.host_memory_budget = q.host_memory_budget /\ p.workspace = q.workspace
          /\ \/ p.gpu_reserve = q.gpu_reserve /\ p.max_vram = q.max_vram
             \/ p.execution_device = "cpu" /\ p.max_vram # 0 /\ q.max_vram # 0
      <3>1. /\ <<"full-cuda">> # <<>> /\ <<"sequential-cpu-offload">> # <<>>
            /\ <<"full-cuda", "sequential-cpu-offload">> # <<>>
            /\ <<"full-cuda">> # <<"sequential-cpu-offload">>
            /\ <<"full-cuda">> # <<"full-cuda", "sequential-cpu-offload">>
        OBVIOUS
      <3>2. \/ Untried("rust") /\ Untried("python")
            \/ Offloading("rust") /\ Offloading("python")
            \/ OnTheCpu("rust") /\ OnTheCpu("python")
        BY <1>5, <2>1, <3>1 DEF Untried, Offloading, OnTheCpu
      <3> QED BY <3>2 DEF Untried, Offloading, OnTheCpu, Recovering, Kept
    <2>3. p \in Policy /\ q \in Policy
      BY <1>2, <2>1
    <2>4. Decided("rust", p, diagnostics', capabilities) = Decided("python", q, diagnostics', capabilities)
      <3> HIDE DEF p, q
      <3> QED BY <1>1, <1>2, <2>1, <2>2, <2>3, DecideAlike
    <2> QED BY <1>3, <2>1, <2>4 DEF LanguagesAgree, Decide
  <1>7. ASSUME NEW l \in Implementations PROVE (Standing(l) /\ Reasoned(l) /\ Waiting(l))'
    <2>1. Standing(l)'
      BY <1>5 DEF Decide, Standing, Untried, Offloading, OnTheCpu, Recovering, Kept, Admissible
    <2>2. Reasoned(l)' /\ Waiting(l)'
      BY <1>3 DEF Decide, Reasoned, Waiting
    <2> QED BY <2>1, <2>2
  <1> QED BY <1>1, <1>4, <1>6, <1>7 DEF PlacementInv

\* Running out of memory keeps it: both languages lose the same mode, and where they go from
\* there depends on the operator's device and on that mode.
LEMMA OutOfMemoryIInv == PlacementInv /\ OutOfMemory => PlacementInv'
PROOF
  <1> SUFFICES ASSUME PlacementInv, OutOfMemory PROVE PlacementInv'
    OBVIOUS
  <1>1. "rust" \in Implementations /\ "python" \in Implementations /\ Implementations = {"rust", "python"}
    BY DEF Implementations
  <1>2. PICK m \in Accelerated : \A l \in Implementations : placed[l].mode = m
    BY <1>1 DEF OutOfMemory, PlacementInv, LanguagesAgree, Accelerated
  <1>3. /\ asked \in Policy /\ capabilities \in Capability /\ diagnostics \in Diagnostic
        /\ \A l \in Implementations : policy[l] \in Policy
    BY DEF PlacementInv, PlacementTypeOK
  <1>4. \A l \in Implementations :
          exhausted[l] \in Seq(Modes \cup {"error"}) /\ exhausted'[l] = Append(exhausted[l], m)
    BY <1>2 DEF PlacementInv, PlacementTypeOK, OutOfMemory
  <1>5. ASSUME NEW l \in Implementations
        PROVE  /\ Decided(l, policy[l], diagnostics, capabilities).mode = m
               /\ Untried(l) \/ Offloading(l)
               /\ Admissible(policy[l], capabilities)
               /\ policy[l].execution_device # "cpu"
               /\ m = "sequential-cpu-offload" => capabilities.sequential
    <2>1. Decided(l, policy[l], diagnostics, capabilities).mode = m
      BY <1>2 DEF PlacementInv, Reasoned, OutOfMemory
    <2>2. Untried(l) \/ Offloading(l) \/ OnTheCpu(l)
      BY DEF PlacementInv, Standing, OutOfMemory
    <2>3. /\ Admissible(policy[l], capabilities)
          /\ policy[l].execution_device # "cpu"
          /\ m = "sequential-cpu-offload" => capabilities.sequential
      <3> HIDE DEF Decided, Admissible
      <3> QED BY <1>3, <2>1, DecisionModes
    <2> QED BY <2>1, <2>2, <2>3 DEF OnTheCpu
  <1>6. \A l \in Implementations : Recovers(policy[l], placed[l].mode) <=> asked.execution_device = "auto"
    BY <1>2, <1>5 DEF Recovers, Accelerated, Untried, Offloading, Recovering
  <1>7. CASE asked.execution_device = "auto"
    <2>1. /\ phase' = "decide"
          /\ \A l \in Implementations : policy'[l] = Fallback(l, policy[l], m, capabilities)
      BY <1>2, <1>6, <1>7 DEF OutOfMemory
    <2>2. \A l \in Implementations : policy'[l] \in Policy
      BY <1>2, <1>3, <2>1, FallbackPolicy
    <2>3. PlacementTypeOK'
      <3>1. policy' \in [Implementations -> Policy]
        BY <1>6, <1>7, <2>2 DEF OutOfMemory
      <3>2. exhausted' \in [Implementations -> Seq(Modes \cup {"error"})]
        BY <1>2, <1>4 DEF OutOfMemory, Accelerated, Modes
      <3> QED BY <2>1, <3>1, <3>2 DEF PlacementTypeOK, PlacementInv, OutOfMemory
    <2>4. ASSUME NEW l \in Implementations PROVE Standing(l)'
      <3> DEFINE p == policy[l]
                 q == Fallback(l, p, m, capabilities)
      <3>0. p \in Policy
        BY <1>3
      <3>1. /\ q.model_storage = p.model_storage
            /\ q.host_memory_budget = p.host_memory_budget
            /\ q.workspace = p.workspace
            /\ m = "full-cuda" /\ capabilities.sequential =>
                 /\ q.execution_device = p.execution_device /\ q.offload = "sequential-cpu"
                 /\ q.precision = p.precision
                 /\ q.gpu_reserve = p.gpu_reserve /\ q.max_vram = p.max_vram
            /\ ~ (m = "full-cuda" /\ capabilities.sequential) =>
                 /\ q.execution_device = "cpu" /\ q.offload = "none"
                 /\ q.precision = "float32" /\ (p.max_vram # 0 => q.max_vram # 0)
        <4> HIDE DEF p
        <4> QED BY <1>2, <1>3, <3>0, FallbackPolicy
      <3>2. p.max_vram # 0
        BY <1>5 DEF Admissible
      <3>3. exhausted'[l] = Append(exhausted[l], m) /\ policy'[l] = q
        BY <1>4, <2>1
      <3>4. CASE Untried(l)
        <4>1. p = asked /\ exhausted'[l] = <<m>> /\ Admissible(asked, capabilities)
          BY <1>5, <3>3, <3>4, Appending DEF Untried
        <4>2. (Recovering(l))'
          <5> HIDE DEF q
          <5> QED BY <1>7, <3>1, <3>3, <4>1 DEF Recovering, Kept, Admissible, OutOfMemory
        <4>3. CASE m = "full-cuda" /\ capabilities.sequential
          <5> HIDE DEF q
          <5>1. Offloading(l)'
            BY <1>7, <3>1, <3>3, <4>1, <4>2, <4>3 DEF Offloading, OutOfMemory
          <5> QED BY <2>1, <5>1 DEF Standing
        <4>4. CASE ~ (m = "full-cuda" /\ capabilities.sequential)
          <5> HIDE DEF q
          <5>1. OnTheCpu(l)'
            BY <1>2, <3>1, <3>2, <3>3, <4>1, <4>2, <4>4 DEF OnTheCpu, OutOfMemory, Accelerated
          <5> QED BY <2>1, <5>1 DEF Standing
        <4> QED BY <4>3, <4>4
      <3>5. CASE Offloading(l)
        <4>1. m = "sequential-cpu-offload"
          <5>1. p.offload = "sequential-cpu" /\ p.execution_device # "cpu"
            BY <3>5 DEF Offloading
          <5>2. Decided(l, p, diagnostics, capabilities).mode \in {"sequential-cpu-offload", "error"}
            <6> HIDE DEF p, Decided
            <6> QED BY <1>3, <3>0, <5>1, DecisionModes
          <5> QED BY <1>2, <1>5, <5>2 DEF Accelerated
        <4>2. exhausted'[l] = <<"full-cuda", "sequential-cpu-offload">>
          BY <3>3, <3>5, <4>1, Appending DEF Offloading
        <4>3. (Recovering(l))'
          <5> HIDE DEF q
          <5> QED BY <3>1, <3>3, <3>5 DEF Offloading, Recovering, Kept, Admissible, OutOfMemory
        <4>4. OnTheCpu(l)'
          <5> HIDE DEF q
          <5> QED BY <3>1, <3>2, <3>3, <4>1, <4>2, <4>3 DEF OnTheCpu
        <4> QED BY <2>1, <4>4 DEF Standing
      <3> QED BY <1>5, <3>4, <3>5
    <2>5. LanguagesAgree'
      BY <1>1, <1>4 DEF LanguagesAgree, PlacementInv, OutOfMemory
    <2>6. ASSUME NEW l \in Implementations PROVE (Reasoned(l) /\ Waiting(l))'
      <3>1. exhausted'[l] # <<>>
        BY <1>2, <1>4, AppendProperties DEF Accelerated, Modes
      <3> QED BY <2>1, <3>1 DEF Reasoned, Waiting
    <2> QED BY <2>3, <2>4, <2>5, <2>6 DEF PlacementInv, OutOfMemory
  <1>8. CASE asked.execution_device # "auto"
    <2>1. phase' = "stopped" /\ policy' = policy
      BY <1>1, <1>6, <1>8 DEF OutOfMemory
    <2>2. ASSUME NEW l \in Implementations
          PROVE  exhausted'[l] = <<m>> /\ policy[l] = asked
      BY <1>4, <1>5, <1>8, Appending DEF Untried, Offloading, Recovering
    <2>3. asked.execution_device = "cuda"
      BY <1>1, <1>3, <1>5, <1>8, <2>2 DEF Policy, Devices
    <2>4. PlacementTypeOK'
      <3>1. exhausted' \in [Implementations -> Seq(Modes \cup {"error"})]
        BY <1>2, <1>4 DEF OutOfMemory, Accelerated, Modes
      <3> QED BY <2>1, <3>1 DEF PlacementTypeOK, PlacementInv, OutOfMemory
    <2>5. LanguagesAgree'
      BY <1>1, <1>4 DEF LanguagesAgree, PlacementInv, OutOfMemory
    <2>6. ASSUME NEW l \in Implementations PROVE (Standing(l) /\ Reasoned(l) /\ Waiting(l))'
      BY <1>2, <2>1, <2>2, <2>3
      DEF Standing, Stopped, Reasoned, Waiting, Accelerated, OutOfMemory
    <2> QED BY <2>4, <2>5, <2>6 DEF PlacementInv, OutOfMemory
  <1> QED BY <1>7, <1>8

\* Every reachable state has the invariant.
THEOREM PlacementInvariant == PlacementSpec => []PlacementInv
PROOF
  <1>1. PlacementInv /\ [PlacementNext]_placementVars => PlacementInv'
    <2> SUFFICES ASSUME PlacementInv, [PlacementNext]_placementVars PROVE PlacementInv'
      OBVIOUS
    <2>1. CASE Decide
      BY <2>1, DecideIInv
    <2>2. CASE OutOfMemory
      BY <2>2, OutOfMemoryIInv
    <2>3. CASE UNCHANGED placementVars
      BY <2>3 DEF placementVars, PlacementInv, PlacementTypeOK, LanguagesAgree, Standing, Untried, Offloading, OnTheCpu,
        Recovering, Kept, Stopped, Reasoned, Waiting
    <2> QED BY <2>1, <2>2, <2>3 DEF PlacementNext
  <1> QED BY <1>1, InitIInv, PTL DEF PlacementSpec

\* Decisions and policies keep their shape.
THEOREM PlacementTypeCorrect == PlacementSpec => []PlacementTypeOK
PROOF
  <1>1. PlacementInv => PlacementTypeOK
    BY DEF PlacementInv
  <1> QED BY <1>1, PlacementInvariant, PTL

\* The Rust and the Python implementation decide alike, after any number of failures and
\* whatever the accelerator reports.
THEOREM ImplementationsAgree == PlacementSpec => []LanguagesAgree
PROOF
  <1>1. PlacementInv => LanguagesAgree
    BY DEF PlacementInv
  <1> QED BY <1>1, PlacementInvariant, PTL

\* Recovery ends after two failures and never returns to a mode that ran out of memory.
THEOREM RecoveryIsBounded == PlacementSpec => []RecoveryDescends
PROOF
  <1>1. PlacementInv => RecoveryDescends
    <2> SUFFICES ASSUME PlacementInv, NEW l \in Implementations
                 PROVE  /\ exhausted[l] \in {<<>>, <<"full-cuda">>, <<"sequential-cpu-offload">>,
                                             <<"full-cuda", "sequential-cpu-offload">>}
                        /\ phase = "decided" /\ exhausted[l] # <<>> =>
                             /\ placed[l].mode # exhausted[l][Len(exhausted[l])]
                             /\ placed[l].mode # "full-cuda"
      BY DEF RecoveryDescends
    <2>1. exhausted[l] \in {<<>>, <<"full-cuda">>, <<"sequential-cpu-offload">>,
                            <<"full-cuda", "sequential-cpu-offload">>}
      BY DEF PlacementInv, Standing, Untried, Offloading, OnTheCpu, Stopped
    <2>2. ASSUME phase = "decided", exhausted[l] # <<>>
          PROVE  /\ placed[l].mode # exhausted[l][Len(exhausted[l])]
                 /\ placed[l].mode # "full-cuda"
      <3>1. /\ placed[l] = Decided(l, policy[l], diagnostics, capabilities)
            /\ policy[l] \in Policy /\ diagnostics \in Diagnostic /\ capabilities \in Capability
        BY <2>2 DEF PlacementInv, Reasoned, PlacementTypeOK
      <3>2. /\ policy[l].offload = "sequential-cpu" /\ policy[l].execution_device # "cpu" =>
                 placed[l].mode \in {"sequential-cpu-offload", "error"}
            /\ policy[l].execution_device = "cpu" => placed[l].mode \in {"cpu", "error"}
        <4> HIDE DEF Decided
        <4> QED BY <3>1, DecisionModes
      <3>3. CASE Offloading(l)
        BY <3>2, <3>3 DEF Offloading
      <3>4. CASE OnTheCpu(l)
        <4>1. CASE exhausted[l] = <<"full-cuda">> \/ exhausted[l] = <<"sequential-cpu-offload">>
          <5>1. Len(exhausted[l]) = 1 /\ exhausted[l][1] \in Accelerated
            BY <4>1 DEF Accelerated
          <5> QED BY <3>2, <3>4, <5>1 DEF OnTheCpu, Accelerated
        <4>2. CASE exhausted[l] = <<"full-cuda", "sequential-cpu-offload">>
          <5>1. Len(exhausted[l]) = 2 /\ exhausted[l][2] \in Accelerated
            BY <4>2 DEF Accelerated
          <5> QED BY <3>2, <3>4, <5>1 DEF OnTheCpu, Accelerated
        <4> QED BY <3>4, <4>1, <4>2 DEF OnTheCpu
      <3> QED BY <2>2, <3>3, <3>4 DEF PlacementInv, Standing, Untried
    <2> QED BY <2>1, <2>2
  <1> QED BY <1>1, PlacementInvariant, PTL

\* A whole model goes to the accelerator only beside the operator's reserve and under the
\* operator's cap, at the first decision and at every retry.
THEOREM ReserveIsHonoured == PlacementSpec => []ReserveHonoured
PROOF
  <1>1. PlacementInv => ReserveHonoured
    <2> SUFFICES ASSUME PlacementInv, NEW l \in Implementations, phase = "decided", placed[l].mode = "full-cuda",
                        PrecisionBytes(asked, placed[l].precision) + asked.workspace > 0
                 PROVE  LET needed == PrecisionBytes(asked, placed[l].precision) + asked.workspace
                        IN  /\ needed + asked.gpu_reserve <= diagnostics.free_vram
                            /\ needed + asked.gpu_reserve <= asked.max_vram
      BY DEF ReserveHonoured
    <2>1. /\ placed[l] = Decided(l, policy[l], diagnostics, capabilities)
          /\ policy[l] \in Policy /\ diagnostics \in Diagnostic /\ capabilities \in Capability
          /\ asked \in Policy /\ diagnostics.free_vram < U64Max
      BY DEF PlacementInv, Reasoned, PlacementTypeOK
    <2>2. policy[l] = asked
      <3>1. /\ policy[l].offload = "sequential-cpu" /\ policy[l].execution_device # "cpu" =>
                 placed[l].mode \in {"sequential-cpu-offload", "error"}
            /\ policy[l].execution_device = "cpu" => placed[l].mode \in {"cpu", "error"}
        <4> HIDE DEF Decided
        <4> QED BY <2>1, DecisionModes
      <3> QED BY <3>1 DEF PlacementInv, Standing, Untried, Offloading, OnTheCpu
    <2> DEFINE needed == PrecisionBytes(asked, placed[l].precision) + asked.workspace
    <2>3. needed <= GpuBudget(asked, diagnostics)
      <3> HIDE DEF Decided, PrecisionBytes, GpuBudget
      <3> QED BY <2>1, <2>2, FullFits
    <2>4. needed \in Nat /\ asked.gpu_reserve \in Nat /\ asked.max_vram \in Nat
          /\ diagnostics.free_vram \in Nat
      BY <2>1, U64Assumption DEF PrecisionBytes, Policy, Diagnostic, Bytes
    <2>5. needed > 0
      OBVIOUS
    <2>6. needed + asked.gpu_reserve <= diagnostics.free_vram
          /\ needed + asked.gpu_reserve <= asked.max_vram
      <3> HIDE DEF needed
      <3> QED BY <2>3, <2>4, <2>5 DEF GpuBudget, Smaller
    <2> QED BY <2>6
  <1> QED BY <1>1, PlacementInvariant, PTL

-----------------------------------------------------------------------------
(* Replies.                                                                *)

\* Counting a failure of an active provider always changes its record: the count is below u32.
LEMMA FailureShows ==
  ASSUME NEW hosted \in Hosted, NEW reason \in ProviderErrors, Exact(hosted)
  PROVE  /\ hosted.failures < U32Max =>
              RecordFailure(hosted, reason).failures = hosted.failures + 1
         /\ RecordFailure(hosted, reason).failures >= hosted.failures
<1>1. hosted.failures \in 0 .. U32Max /\ U32Max \in Nat
  BY Limits DEF Hosted
<1> DEFINE failures == IF hosted.failures = U32Max THEN U32Max ELSE hosted.failures + 1
<1>2. RecordFailure(hosted, reason) =
        IF failures >= max_failures
        THEN [state |-> "Quarantined", failures |-> failures, reason |-> reason]
        ELSE [hosted EXCEPT !.failures = failures]
  BY DEF RecordFailure
<1>3. RecordFailure(hosted, reason).failures = failures
  BY <1>2 DEF Hosted
<1> QED BY <1>1, <1>3

\* What invoke() hands out when its provider is asked (normalize_success, normalize_error).
Accounted(p) ==
  /\ reply'.bytes <= max_output_bytes /\ reply'.bytes <= reply'.memory
  /\ reply'.state = providers'[p].state
  /\ reply'.result = "COMPLETED" <=> providers'[p] = providers[p]
  /\ reply'.result = "COMPLETED" => reply'.elapsed <= reply'.wall /\ "TRUNCATED" \notin reply'.flags

\* What normalize_success replies is accounted for.
LEMMA SucceedAccounted ==
  ASSUME HInv, NEW p \in Providers, NEW ids, NEW budget \in Budgets, NEW bytes \in Sizes, NEW ood,
         NEW elapsed \in Sizes, Succeed(p, ids, budget, bytes, ood, elapsed)
  PROVE  Accounted(p) /\ reply'.provider = p
<1> DEFINE limit == Least(max_output_bytes, budget.memory_bytes)
           late  == elapsed > budget.wall_time_ns
           long  == bytes > limit
           timed == IF late THEN RecordFailure(providers[p], "BudgetExceeded") ELSE providers[p]
           sized == IF long THEN RecordFailure(timed, "BudgetExceeded") ELSE timed
           flags == (IF long THEN {"TRUNCATED"} ELSE {}) \cup (IF ood THEN {"OOD"} ELSE {})
<1>1. /\ Refusal(p, ids, budget) = "none"
      /\ providers' = [providers EXCEPT ![p] = sized]
      /\ reply' = Reply(p, IF late \/ long THEN "BUDGET_EXCEEDED" ELSE "COMPLETED", flags,
                        Least(bytes, limit), sized.state, elapsed, budget)
  BY DEF Succeed
<1>2. /\ p \in DOMAIN providers /\ providers[p] \in Hosted /\ Exact(providers[p])
      /\ providers[p].failures < max_failures
  BY <1>1, AskedIsActive
<1>3. "BudgetExceeded" \in ProviderErrors
  BY DEF ProviderErrors
<1>4. budget.memory_bytes \in Nat /\ budget.wall_time_ns \in Nat /\ bytes \in Nat /\ elapsed \in Nat
      /\ max_output_bytes \in Nat
  BY AnswersAssumption, LimitsAssumption DEF Budget, max_output_bytes
<1>5. /\ Least(bytes, limit) <= max_output_bytes /\ Least(bytes, limit) <= budget.memory_bytes
      /\ (late => ~ (elapsed <= budget.wall_time_ns)) /\ (~ late => elapsed <= budget.wall_time_ns)
      /\ (~ long => "TRUNCATED" \notin flags)
  <2>1. limit \in Nat /\ limit <= max_output_bytes /\ limit <= budget.memory_bytes
    BY <1>4 DEF Least
  <2>2. Least(bytes, limit) <= limit /\ Least(bytes, limit) \in Nat
    BY <1>4, <2>1 DEF Least
  <2>3. Least(bytes, limit) <= max_output_bytes /\ Least(bytes, limit) <= budget.memory_bytes
    <3> HIDE DEF limit
    <3> QED BY <1>4, <2>1, <2>2
  <2> QED BY <1>4, <2>3
<1> HIDE DEF limit, late, long, flags
\* Either failure raises the count, which is below u32 as the provider was active.
<1>6. /\ timed \in Hosted /\ Exact(timed)
      /\ late => timed.failures > providers[p].failures
      /\ ~ late => timed = providers[p]
  <2>1. providers[p].failures \in Nat /\ providers[p].failures < U32Max
    BY <1>2, Limits DEF Hosted
  <2>2. CASE late
    <3>1. timed = RecordFailure(providers[p], "BudgetExceeded")
      BY <2>2
    <3>2. timed.failures = providers[p].failures + 1
      BY <1>2, <1>3, <2>1, <3>1, FailureShows
    <3> HIDE DEF timed
    <3> QED BY <1>2, <1>3, <2>1, <2>2, <3>1, <3>2, RecordFailureExact
  <2> QED BY <1>2, <2>2
<1> HIDE DEF timed
<1>7. /\ long => sized.failures >= timed.failures /\ sized \in Hosted
      /\ ~ long => sized = timed
  BY <1>3, <1>6, FailureShows, RecordFailureExact
<1>8. sized # providers[p] <=> late \/ long
  <2>1. providers[p].failures \in Nat /\ timed.failures \in Nat /\ providers[p].failures < U32Max
    BY <1>2, <1>6, Limits DEF Hosted
  <2>2. CASE late /\ long
    <3>1. sized.failures >= timed.failures /\ sized.failures \in Nat
      BY <1>7, <2>2 DEF Hosted
    <3> HIDE DEF sized
    <3> QED BY <1>6, <2>1, <2>2, <3>1
  <2>3. CASE late /\ ~ long
    BY <1>6, <1>7, <2>1, <2>3
  <2>4. CASE ~ late /\ long
    <3>1. sized = RecordFailure(timed, "BudgetExceeded")
      BY <2>4
    <3>2. sized.failures = timed.failures + 1
      BY <1>3, <1>6, <2>1, <2>4, <3>1, FailureShows
    <3> HIDE DEF sized
    <3> QED BY <1>6, <2>1, <2>4, <3>2
  <2>5. CASE ~ late /\ ~ long
    BY <1>6, <1>7, <2>5
  <2> QED BY <2>2, <2>3, <2>4, <2>5
<1> HIDE DEF sized
<1>9. providers'[p] = sized
  BY <1>1, <1>2
<1>10. /\ reply'.provider = p
       /\ reply'.result = IF late \/ long THEN "BUDGET_EXCEEDED" ELSE "COMPLETED"
       /\ reply'.bytes = Least(bytes, limit) /\ reply'.memory = budget.memory_bytes
       /\ reply'.state = sized.state /\ reply'.elapsed = elapsed
       /\ reply'.wall = budget.wall_time_ns /\ reply'.flags = flags
  BY <1>1 DEF Reply
<1> QED BY <1>5, <1>8, <1>9, <1>10 DEF Accounted

\* What normalize_error replies is accounted for.
LEMMA FailAccounted ==
  ASSUME HInv, NEW p \in Providers, NEW ids, NEW budget \in Budgets, NEW error \in Errors,
         Fail(p, ids, budget, error)
  PROVE  Accounted(p) /\ reply'.provider = p
<1> DEFINE failed == RecordFailure(providers[p], error)
           flags  == IF error = "OutOfDistribution" THEN {"OOD"} ELSE {}
<1>1. /\ Refusal(p, ids, budget) = "none"
      /\ providers' = [providers EXCEPT ![p] = failed]
      /\ reply' = Reply(p, ErrorStatus(error), flags, 0, failed.state, 0, budget)
  BY DEF Fail
<1>2. /\ p \in DOMAIN providers /\ providers[p] \in Hosted /\ Exact(providers[p])
      /\ providers[p].failures < max_failures
  BY <1>1, AskedIsActive
<1>3. error \in ProviderErrors /\ ErrorStatus(error) # "COMPLETED"
  BY AnswersAssumption DEF ErrorStatus
<1>4. budget.memory_bytes \in Nat /\ max_output_bytes \in Nat
  BY AnswersAssumption, LimitsAssumption DEF Budget, max_output_bytes
<1>5. providers[p].failures \in Nat /\ providers[p].failures < U32Max
  BY <1>2, Limits DEF Hosted
<1>6. failed.failures = providers[p].failures + 1
  BY <1>2, <1>3, <1>5, FailureShows
<1> HIDE DEF failed, flags
<1>7. providers'[p] = failed /\ failed # providers[p]
  BY <1>1, <1>2, <1>5, <1>6
<1>8. /\ reply'.provider = p /\ reply'.result = ErrorStatus(error)
      /\ reply'.bytes = 0 /\ reply'.memory = budget.memory_bytes /\ reply'.state = failed.state
  BY <1>1 DEF Reply
<1> QED BY <1>3, <1>4, <1>7, <1>8 DEF Accounted

\* What a caller of invoke() may rely on, for any limits, payloads and times: an answer is
\* COMPLETED exactly when it cost its provider no failure, then in time and whole, and no answer
\* is longer than the limits (ProviderHost::normalize_success, normalize_error).
THEOREM RepliesAreAccountable == Spec => RepliesAccountable
<1>1. HInv /\ [Next]_vars =>
        [\A p \in DOMAIN providers :
           reply' # reply /\ reply'.provider = p /\ reply'.result \in Statuses => Accounted(p)]_vars
  <2> SUFFICES ASSUME HInv, Next, NEW p \in DOMAIN providers,
                      reply' # reply, reply'.provider = p, reply'.result \in Statuses
               PROVE  Accounted(p)
    OBVIOUS
  <2> PICK q \in Providers :
        \/ \E m \in Manifests : Admit(q, m)
        \/ Unload(q)
        \/ \E s \in Snapshots, x \in Extractors, size \in Sizes : RegisterSnapshot(s, x, size)
        \/ \E ids \in Queries, budget \in Budgets :
             \/ Refuse(q, ids, budget)
             \/ \E bytes, elapsed \in Sizes, ood \in BOOLEAN : Succeed(q, ids, budget, bytes, ood, elapsed)
             \/ \E error \in Errors : Fail(q, ids, budget, error)
    BY DEF Next
  <2>1. ASSUME NEW ids, NEW budget, Refuse(q, ids, budget) PROVE FALSE
    <3>1. reply'.result = Refusal(q, ids, budget) /\ Refusal(q, ids, budget) # "none"
      BY <2>1 DEF Refuse, NoReply
    <3> QED BY <3>1 DEF Refusal, Statuses
  <2>2. ASSUME NEW ids, NEW budget \in Budgets, NEW bytes \in Sizes, NEW elapsed \in Sizes, NEW ood,
               Succeed(q, ids, budget, bytes, ood, elapsed)
        PROVE  Accounted(p)
    BY <2>2, SucceedAccounted
  <2>3. ASSUME NEW ids, NEW budget \in Budgets, NEW error \in Errors, Fail(q, ids, budget, error)
        PROVE  Accounted(p)
    BY <2>3, FailAccounted
  <2>4. ~ (\E m \in Manifests : Admit(q, m)) /\ ~ Unload(q)
    BY DEF Admit, Unload
  <2>5. ~ \E s \in Snapshots, x \in Extractors, size \in Sizes : RegisterSnapshot(s, x, size)
    BY DEF RegisterSnapshot
  <2> QED BY <2>1, <2>2, <2>3, <2>4, <2>5
<1> QED BY <1>1, HostInvariant, PTL DEF Spec, RepliesAccountable, Accounted
=============================================================================
