------------------------------- MODULE Placement -------------------------------
(***************************************************************************)
(* The accelerator placement policy, which the repository implements       *)
(* twice: crates/mnel-provider-host/src/placement.rs and                   *)
(* src/mnel/placement.py.  A caller decides a placement from fresh         *)
(* diagnostics, loads the model, and when that runs out of memory asks for *)
(* a fallback policy and decides again.  Both implementations run side by  *)
(* side here on the same diagnostics.                                      *)
(***************************************************************************)
EXTENDS Naturals, Sequences

CONSTANTS
  Policies,     \* the policies operators ask for
  Capabilities, \* what providers declare
  Diagnostics,  \* what the accelerator may report, at any decision
  DefaultReserve, \* DEFAULT_GPU_RESERVE_MIB, in bytes
  U64Max        \* the largest u64; as a limit it stands for None

Devices == {"auto", "cpu", "cuda"}
Offloads == {"auto", "none", "sequential-cpu"}
Precisions == {"float32", "float16", "bfloat16"}
Modes == {"cpu", "full-cuda", "sequential-cpu-offload"}
Implementations == {"rust", "python"}

Bytes == 0 .. U64Max

Policy ==
  [ execution_device : Devices, offload : Offloads, precision : Precisions \cup {"auto"},
    gpu_reserve : Bytes, max_vram : Bytes, model_storage : Bytes, workspace : Bytes,
    host_memory_budget : Bytes ]

Capability ==
  [sequential : BOOLEAN, cpu_precisions : SUBSET Precisions, cuda_precisions : SUBSET Precisions]

\* usable: an accelerator is available and its execution probe succeeded.  probed: the 16-bit
\* precisions whose probe succeeded.  free_vram is 0 when it is not known.
Diagnostic == [usable : BOOLEAN, free_vram : Bytes, probed : SUBSET {"float16", "bfloat16"}]

\* The defaults of AcceleratorDiagnostics.
Unprobed == [usable |-> FALSE, free_vram |-> 0, probed |-> {}]

ASSUME U64Assumption == U64Max \in Nat \ {0} /\ DefaultReserve \in Bytes
ASSUME InputsAssumption ==
  /\ Policies \subseteq Policy
  /\ Capabilities \subseteq Capability
  /\ Diagnostics \subseteq Diagnostic
\* No accelerator has 2^64 - 1 bytes of memory.
ASSUME MemoryAssumption == \A d \in Diagnostics : d.free_vram < U64Max

VARIABLES
  asked,        \* the operator's policy
  capabilities, \* what the provider declares
  diagnostics,  \* those of the last decision
  policy,       \* the policy in force, in each language
  placed,       \* the last decision, in each language
  exhausted,    \* history: the modes that ran out of memory, in each language
  phase         \* "decide", "decided", or "stopped" when there is no fallback

placementVars == <<asked, capabilities, diagnostics, policy, placed, exhausted, phase>>

Decision(mode, precision) == [mode |-> mode, precision |-> precision]
Error == Decision("error", "none")
OnCpu == Decision("cpu", "float32")

-----------------------------------------------------------------------------
(* The decision.                                                           *)

\* PlacementPolicy.validate, PlacementCapabilities.validate and the host memory budget.
Admissible(p, c) ==
  /\ ~ (p.execution_device = "cpu" /\ p.offload = "sequential-cpu")
  /\ c.cpu_precisions # {} /\ c.cuda_precisions # {}
  /\ p.max_vram # 0 /\ p.host_memory_budget # 0
  /\ p.model_storage <= p.host_memory_budget

Smaller(a, b) == IF a < b THEN a ELSE b

\* Mutant: the cap applies to what is left after the reserve.
GpuBudgetCapLast(p, d) ==
  Smaller(p.max_vram, IF d.free_vram < p.gpu_reserve THEN 0 ELSE d.free_vram - p.gpu_reserve)

\* effective_gpu_budget_bytes: what is free, at most the cap, less the reserve.
GpuBudget(p, d) ==
  LET capped == Smaller(d.free_vram, p.max_vram)
  IN  IF capped < p.gpu_reserve THEN 0 ELSE capped - p.gpu_reserve

PrecisionBytes(p, precision) ==
  IF precision \in {"float16", "bfloat16"} THEN (p.model_storage + 1) \div 2 ELSE p.model_storage

\* Mutant: the u64 wraps around.
RequiredWrapping(language, p, precision) ==
  LET sum == PrecisionBytes(p, precision) + p.workspace
  IN  IF language = "rust" THEN sum % (U64Max + 1) ELSE sum

\* Rust adds within u64 and saturates; Python's integers have no limit.
Required(language, p, precision) ==
  LET sum == PrecisionBytes(p, precision) + p.workspace
  IN  IF language = "rust" THEN Smaller(sum, U64Max) ELSE sum

\* The precision AUTO picks on CUDA: bfloat16 and float16 if declared and probed.
AutoPrecision(d, c) ==
  IF "bfloat16" \in c.cuda_precisions \cap d.probed THEN "bfloat16"
  ELSE IF "float16" \in c.cuda_precisions \cap d.probed THEN "float16"
  ELSE "float32"

CudaPrecision(p, d, c) ==
  LET precision == IF p.precision = "auto" THEN AutoPrecision(d, c) ELSE p.precision
  IN  IF precision \in c.cuda_precisions \cap (d.probed \cup {"float32"}) THEN precision ELSE "none"

CpuPrecision(p) == IF p.precision = "auto" THEN "float32" ELSE p.precision

DecideCpu(p, c) ==
  IF CpuPrecision(p) \in c.cpu_precisions THEN Decision("cpu", CpuPrecision(p)) ELSE Error

DecideUnusable(p) ==
  IF p.execution_device = "cuda" \/ p.offload = "sequential-cpu" THEN Error ELSE OnCpu

DecideCuda(language, p, d, c) ==
  LET precision == CudaPrecision(p, d, c)
      sequential == Decision("sequential-cpu-offload", precision)
  IN  IF precision = "none" THEN Error
      ELSE IF p.offload = "sequential-cpu" THEN (IF c.sequential THEN sequential ELSE Error)
      ELSE IF Required(language, p, precision) <= GpuBudget(p, d)
           THEN Decision("full-cuda", precision)
      ELSE IF p.offload = "auto" /\ c.sequential THEN sequential
      ELSE IF p.execution_device = "auto" THEN OnCpu ELSE Error

\* decide_placement, in the order of its checks.
Decided(language, p, d, c) ==
  IF ~ Admissible(p, c) THEN Error
  ELSE IF p.execution_device = "cpu" THEN DecideCpu(p, c)
  ELSE IF ~ d.usable THEN DecideUnusable(p)
  ELSE DecideCuda(language, p, d, c)

-----------------------------------------------------------------------------
(* The fallback.                                                           *)

Recovers(p, mode) ==
  p.execution_device = "auto" /\ mode \in {"full-cuda", "sequential-cpu-offload"}

\* Mutant: the retry leaves the offload to AUTO.
FallbackAuto(language, p, mode, c) ==
  IF mode = "full-cuda" /\ c.sequential THEN [p EXCEPT !.offload = "auto"]
  ELSE [p EXCEPT !.execution_device = "cpu", !.offload = "none", !.precision = "float32"]

\* fallback_after_oom and fallback_policy_after_oom: sequential offload after full CUDA where
\* it is supported, the CPU otherwise, where Python goes back to the default reserve and no cap.
Fallback(language, p, mode, c) ==
  LET cpu == [p EXCEPT !.execution_device = "cpu", !.offload = "none", !.precision = "float32"]
  IN  IF mode = "full-cuda" /\ c.sequential THEN [p EXCEPT !.offload = "sequential-cpu"]
      ELSE IF language = "rust" THEN cpu
      ELSE [cpu EXCEPT !.gpu_reserve = DefaultReserve, !.max_vram = U64Max]

-----------------------------------------------------------------------------
PlacementInit ==
  /\ asked \in Policies
  /\ capabilities \in Capabilities
  /\ diagnostics = Unprobed
  /\ policy = [l \in Implementations |-> asked]
  /\ placed = [l \in Implementations |-> Error]
  /\ exhausted = [l \in Implementations |-> <<>>]
  /\ phase = "decide"

Decide ==
  /\ phase = "decide"
  /\ diagnostics' \in Diagnostics
  /\ placed' = [l \in Implementations |-> Decided(l, policy[l], diagnostics', capabilities)]
  /\ phase' = "decided"
  /\ UNCHANGED <<asked, capabilities, policy, exhausted>>

\* The model was placed on the accelerator and its memory runs out, in loading or later.
OutOfMemory ==
  /\ phase = "decided"
  /\ \E l \in Implementations : placed[l].mode \in {"full-cuda", "sequential-cpu-offload"}
  /\ exhausted' = [l \in Implementations |-> Append(exhausted[l], placed[l].mode)]
  /\ IF \A l \in Implementations : Recovers(policy[l], placed[l].mode)
     THEN /\ policy' = [l \in Implementations |->
                          Fallback(l, policy[l], placed[l].mode, capabilities)]
          /\ phase' = "decide"
     ELSE /\ phase' = "stopped"
          /\ UNCHANGED policy
  /\ UNCHANGED <<asked, capabilities, diagnostics, placed>>

PlacementNext == Decide \/ OutOfMemory

PlacementSpec == PlacementInit /\ [][PlacementNext]_placementVars

-----------------------------------------------------------------------------
\* Policies in force, decisions and phases keep their shape.
PlacementTypeOK ==
  /\ asked \in Policy /\ capabilities \in Capability /\ diagnostics \in Diagnostic
  /\ policy \in [Implementations -> Policy]
  /\ placed \in [Implementations -> [mode : Modes \cup {"error"}, precision : Precisions \cup {"none"}]]
  /\ exhausted \in [Implementations -> Seq(Modes \cup {"error"})]
  /\ phase \in {"decide", "decided", "stopped"}

\* "The Rust host mirrors the policy" (docs/LEARNED_PROVIDER_RUNTIME.md:57-58): decision by
\* decision and fallback by fallback, the two implementations agree, although their
\* arithmetic and the policies they retry with differ.
LanguagesAgree == placed["rust"] = placed["python"] /\ exhausted["rust"] = exhausted["python"]

\* Recovery is bounded and goes one way: no mode that ran out of memory is decided again,
\* however the diagnostics change, and nothing comes back from sequential offload to full CUDA.
RecoveryDescends ==
  \A l \in Implementations :
    /\ exhausted[l] \in {<<>>, <<"full-cuda">>, <<"sequential-cpu-offload">>,
                         <<"full-cuda", "sequential-cpu-offload">>}
    /\ phase = "decided" /\ exhausted[l] # <<>> =>
         /\ placed[l].mode # exhausted[l][Len(exhausted[l])]
         /\ placed[l].mode # "full-cuda"

\* A model is placed on the accelerator as a whole only where its weights, its workspace and
\* the reserve the operator asked for fit together, under the operator's cap; a policy that
\* estimates no byte at all fits anything.
ReserveHonoured ==
  \A l \in Implementations : phase = "decided" /\ placed[l].mode = "full-cuda" =>
    LET needed == PrecisionBytes(asked, placed[l].precision) + asked.workspace
    IN  needed > 0 => /\ needed + asked.gpu_reserve <= diagnostics.free_vram
                      /\ needed + asked.gpu_reserve <= asked.max_vram
=============================================================================
