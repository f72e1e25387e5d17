----------------------------- MODULE ProviderHost -----------------------------
(***************************************************************************)
(* The in-process host of learned providers (crates/mnel-provider-host):   *)
(* admission under the manifest policy, a cache of snapshots, invocation   *)
(* with the result normalised against time and size limits, and            *)
(* quarantine after repeated failures.  Every method takes the host by     *)
(* exclusive reference, so a method is one step; what varies is what the   *)
(* provider answers and how long it takes.                                 *)
(***************************************************************************)
EXTENDS Naturals, Sequences

CONSTANTS
  Providers,      \* provider identifiers
  Manifests,      \* the manifests offered for admission
  Snapshots,      \* snapshot identities
  Extractors,     \* feature-extractor identities
  Queries,        \* the snapshot identities a caller may name in one invocation
  MaxFailures,    \* the max_failures argument of ProviderHost::new
  MaxOutputBytes, \* the max_output_bytes argument of ProviderHost::new
  U32Max,         \* the largest failure count a u32 holds
  Errors,         \* bound: the errors providers report
  Budgets,        \* bound: the budgets of invocations
  Sizes           \* bound: payload sizes and times

Languages == {"Rust", "Cpp", "Wasm", "Python"}

Tiers == {"NativeTrusted", "WasmQuarantined", "ExternalExperimental"}

\* well_formed: identity, ABI version, persistent host and placement budgets pass.
\* accelerator: the placement asks for CUDA or for sequential offload.
Manifest ==
  [ language : Languages, tier : Tiers, exception : {"none", "incomplete", "complete"},
    well_formed : BOOLEAN, accelerator : BOOLEAN ]

ProviderErrors == {"InvalidBudget", "MissingSnapshots", "EmptySnapshot", "NonFiniteResult",
                   "Abstained", "OutOfDistribution", "BudgetExceeded", "RuntimeFailure"}

ASSUME ManifestsAssumption == Manifests \subseteq Manifest
ASSUME QueriesAssumption == Queries \subseteq Seq(Snapshots)
Budget == [wall_time_ns : Nat, operation_limit : Nat, memory_bytes : Nat]

ASSUME AnswersAssumption == Errors \subseteq ProviderErrors /\ Budgets \subseteq Budget
ASSUME LimitsAssumption ==
  /\ MaxFailures \in Nat /\ MaxOutputBytes \in Nat /\ U32Max \in Nat \ {0}
  /\ MaxFailures <= U32Max
  /\ Sizes \subseteq Nat

VARIABLES
  catalog,    \* ProviderCatalog.manifests, a partial function of Providers
  providers,  \* ProviderHost.providers, a partial function of Providers
  snapshots,  \* SnapshotCache.entries, a partial function of Snapshots
  reply       \* what the last invoke() returned

vars == <<catalog, providers, snapshots, reply>>

\* ProviderHost::new raises both limits to at least one.
max_failures == IF MaxFailures = 0 THEN 1 ELSE MaxFailures
max_output_bytes == IF MaxOutputBytes = 0 THEN 1 ELSE MaxOutputBytes


Insert(map, key, value) == [k \in DOMAIN map \cup {key} |-> IF k = key THEN value ELSE map[k]]
Remove(map, key) == [k \in DOMAIN map \ {key} |-> map[k]]

-----------------------------------------------------------------------------
(* Admission policy.                                                       *)

\* ProviderManifest::validate: native code is Rust or carries a complete exception, only
\* Wasm is in the Wasm tier, and nobody else carries an exception.
ValidManifest(m) ==
  /\ m.well_formed
  /\ m.tier = "NativeTrusted" => m.language = "Rust" \/ m.exception = "complete"
  /\ m.tier = "WasmQuarantined" => m.language = "Wasm"
  /\ m.exception # "none" => m.tier = "NativeTrusted" /\ m.language # "Rust"

Fresh == [state |-> "Active", failures |-> 0, reason |-> "none"]

-----------------------------------------------------------------------------
(* Failures.                                                               *)

\* Mutant: quarantine from the failure after max_failures.
RecordFailureLate(hosted, reason) ==
  LET failures == IF hosted.failures = U32Max THEN U32Max ELSE hosted.failures + 1
  IN  IF failures > max_failures
      THEN [state |-> "Quarantined", failures |-> failures, reason |-> reason]
      ELSE [hosted EXCEPT !.failures = failures]

\* record_failure: count, saturating, and quarantine from max_failures on.
RecordFailure(hosted, reason) ==
  LET failures == IF hosted.failures = U32Max THEN U32Max ELSE hosted.failures + 1
  IN  IF failures >= max_failures
      THEN [state |-> "Quarantined", failures |-> failures, reason |-> reason]
      ELSE [hosted EXCEPT !.failures = failures]

\* normalize_error: the status of a failed inference.
ErrorStatus(error) ==
  CASE error = "Abstained"                          -> "ABSTAINED"
    [] error \in {"InvalidBudget", "EmptySnapshot"} -> "INVALID_INPUT"
    [] error = "BudgetExceeded"                     -> "BUDGET_EXCEEDED"
    [] error = "OutOfDistribution"                  -> "OUT_OF_DISTRIBUTION"
    [] OTHER                                        -> "RUNTIME_ERROR"

Refusals == {"UnknownProvider", "ProviderQuarantined", "MissingSnapshot", "InvalidInvocation"}

Statuses == {"COMPLETED", "ABSTAINED", "INVALID_INPUT", "BUDGET_EXCEEDED",
             "OUT_OF_DISTRIBUTION", "RUNTIME_ERROR"}

\* What invoke() returned: its result, the flags and bytes of it, and, for reference, the
\* provider, the time a success took, and its limits.
Reply(p, result, flags, bytes, state, elapsed, budget) ==
  [ provider |-> p, result |-> result, flags |-> flags, bytes |-> bytes, state |-> state,
    elapsed |-> elapsed, wall |-> budget.wall_time_ns, memory |-> budget.memory_bytes ]

NoReply == [provider |-> "none", result |-> "none", flags |-> {}, bytes |-> 0, state |-> "none",
            elapsed |-> 0, wall |-> 0, memory |-> 0]

Least(a, b) == IF a < b THEN a ELSE b

-----------------------------------------------------------------------------
Init ==
  /\ catalog = <<>>
  /\ providers = <<>>
  /\ snapshots = <<>>
  /\ reply = NoReply

\* admit(): no accelerator backend exists; then the catalogue's policy; then the provider
\* is hosted afresh.  A refused manifest changes nothing.
Admit(p, m) ==
  /\ ~ m.accelerator
  /\ ValidManifest(m)
  /\ p \notin DOMAIN catalog
  /\ catalog' = Insert(catalog, p, m)
  /\ providers' = Insert(providers, p, Fresh)
  /\ UNCHANGED <<snapshots, reply>>

\* Mutant: the manifest stays in the catalogue.
UnloadProviderOnly(p) ==
  /\ p \in DOMAIN providers
  /\ providers' = Remove(providers, p)
  /\ UNCHANGED <<catalog, snapshots, reply>>

\* unload(): the provider and its manifest are gone, and so is its failure count.
Unload(p) ==
  /\ p \in DOMAIN providers
  /\ providers' = Remove(providers, p)
  /\ catalog' = Remove(catalog, p)
  /\ UNCHANGED <<snapshots, reply>>

\* register_snapshot(): the first payload registered under an identity is kept.
RegisterSnapshot(s, extractor, size) ==
  /\ s \notin DOMAIN snapshots
  /\ snapshots' = Insert(snapshots, s, [extractor |-> extractor, size |-> size])
  /\ UNCHANGED <<catalog, providers, reply>>

\* Why invoke() refuses before the provider is asked, in the order of its checks.
Refusal(p, ids, budget) ==
  IF p \notin DOMAIN providers THEN "UnknownProvider"
  ELSE IF providers[p].state # "Active" THEN "ProviderQuarantined"
  ELSE IF \E i \in 1 .. Len(ids) : ids[i] \notin DOMAIN snapshots THEN "MissingSnapshot"
  ELSE IF \/ budget.wall_time_ns = 0 \/ budget.operation_limit = 0 \/ budget.memory_bytes = 0
          \/ ids = <<>>
          \/ \E i \in 1 .. Len(ids) : snapshots[ids[i]].size = 0 THEN "InvalidInvocation"
  ELSE "none"

Refuse(p, ids, budget) ==
  /\ Refusal(p, ids, budget) # "none"
  /\ reply' = [NoReply EXCEPT !.provider = p, !.result = Refusal(p, ids, budget)]
  /\ UNCHANGED <<catalog, providers, snapshots>>

\* Mutant: a truncated payload counts as a success.
SucceedTruncated(p, ids, budget, bytes, ood, elapsed) ==
  LET limit  == Least(max_output_bytes, budget.memory_bytes)
      late   == elapsed > budget.wall_time_ns
      timed  == IF late THEN RecordFailure(providers[p], "BudgetExceeded") ELSE providers[p]
  IN  /\ Refusal(p, ids, budget) = "none"
      /\ providers' = [providers EXCEPT ![p] = timed]
      /\ reply' = Reply(p, IF late THEN "BUDGET_EXCEEDED" ELSE "COMPLETED",
                        (IF bytes > limit THEN {"TRUNCATED"} ELSE {}) \cup (IF ood THEN {"OOD"} ELSE {}),
                        Least(bytes, limit), timed.state, elapsed, budget)
      /\ UNCHANGED <<catalog, snapshots>>

\* normalize_success: too late and too long each count as a failure, and too long is cut.
Succeed(p, ids, budget, bytes, ood, elapsed) ==
  LET limit  == Least(max_output_bytes, budget.memory_bytes)
      late   == elapsed > budget.wall_time_ns
      long   == bytes > limit
      timed  == IF late THEN RecordFailure(providers[p], "BudgetExceeded") ELSE providers[p]
      sized  == IF long THEN RecordFailure(timed, "BudgetExceeded") ELSE timed
  IN  /\ Refusal(p, ids, budget) = "none"
      /\ providers' = [providers EXCEPT ![p] = sized]
      /\ reply' = Reply(p, IF late \/ long THEN "BUDGET_EXCEEDED" ELSE "COMPLETED",
                        (IF long THEN {"TRUNCATED"} ELSE {}) \cup (IF ood THEN {"OOD"} ELSE {}),
                        Least(bytes, limit), sized.state, elapsed, budget)
      /\ UNCHANGED <<catalog, snapshots>>

\* normalize_error: whatever the error, an abstention included, it counts as a failure.
Fail(p, ids, budget, error) ==
  LET failed == RecordFailure(providers[p], error)
  IN  /\ Refusal(p, ids, budget) = "none"
      /\ providers' = [providers EXCEPT ![p] = failed]
      /\ reply' = Reply(p, ErrorStatus(error), IF error = "OutOfDistribution" THEN {"OOD"} ELSE {},
                        0, failed.state, 0, budget)
      /\ UNCHANGED <<catalog, snapshots>>

Next ==
  \E p \in Providers :
    \/ \E m \in Manifests : Admit(p, m)
    \/ Unload(p)
    \/ \E s \in Snapshots, x \in Extractors, size \in Sizes : RegisterSnapshot(s, x, size)
    \/ \E ids \in Queries, budget \in Budgets :
         \/ Refuse(p, ids, budget)
         \/ \E bytes, elapsed \in Sizes, ood \in BOOLEAN : Succeed(p, ids, budget, bytes, ood, elapsed)
         \/ \E error \in Errors : Fail(p, ids, budget, error)

Spec == Init /\ [][Next]_vars

-----------------------------------------------------------------------------
Hosted == [ state : {"Active", "Quarantined"}, failures : 0 .. U32Max,
            reason : ProviderErrors \cup {"none"} ]

\* The host's maps and its last reply keep their shape; no failure count leaves a u32.
TypeOK ==
  /\ DOMAIN catalog \subseteq Providers /\ \A p \in DOMAIN catalog : catalog[p] \in Manifests
  /\ DOMAIN providers \subseteq Providers /\ \A p \in DOMAIN providers : providers[p] \in Hosted
  /\ DOMAIN snapshots \subseteq Snapshots
  /\ \A s \in DOMAIN snapshots : snapshots[s] \in [extractor : Extractors, size : Sizes]
  /\ reply.result \in Refusals \cup Statuses \cup {"none"}

\* The two maps of the host name the same providers, whatever was admitted, refused or
\* unloaded, and each hosted provider passes the policy and runs on the CPU.
CatalogMatchesProviders ==
  /\ DOMAIN catalog = DOMAIN providers
  /\ \A p \in DOMAIN catalog : ValidManifest(catalog[p]) /\ ~ catalog[p].accelerator

\* A provider is in quarantine exactly from its max_failures-th failure on; one call can
\* overshoot the threshold by one, and the count never wraps.
QuarantineExact ==
  \A p \in DOMAIN providers :
    /\ providers[p].state = "Quarantined" <=> providers[p].failures >= max_failures
    /\ providers[p].failures <= max_failures + 1

\* Quarantine ends with unload() only: until then nobody asks the provider anything, no
\* admission replaces it, and its record does not change.
QuarantineHolds ==
  [][\A p \in DOMAIN providers :
       providers[p].state = "Quarantined" =>
         /\ Unload(p) \/ (p \in DOMAIN providers' /\ providers'[p] = providers[p])
         /\ reply' # reply /\ reply'.provider = p => reply'.result = "ProviderQuarantined"]_vars

\* A COMPLETED answer came in time and whole; an answer that did not cost its provider a
\* failure is COMPLETED; and what is handed out is never longer than the limits.
RepliesAccountable ==
  [][\A p \in DOMAIN providers :
       reply' # reply /\ reply'.provider = p /\ reply'.result \in Statuses =>
         /\ reply'.bytes <= max_output_bytes /\ reply'.bytes <= reply'.memory
         /\ reply'.state = providers'[p].state
         /\ reply'.result = "COMPLETED" <=> providers'[p] = providers[p]
         /\ reply'.result = "COMPLETED" => reply'.elapsed <= reply'.wall /\ "TRUNCATED" \notin reply'.flags]_vars
=============================================================================
