------------------------------ MODULE MCPlacement ------------------------------
(* Instances of Placement for TLC. *)
EXTENDS Placement

\* Every device and offload; sizes such that the model fits as it is, in 16 bits or not at
\* all, and that model and workspace together exceed a u64.
SomePolicies ==
  [ execution_device : Devices, offload : Offloads, precision : {"auto", "float16"},
    gpu_reserve : {0, 2}, max_vram : {4, U64Max}, model_storage : {3, 6}, workspace : {1, 4},
    host_memory_budget : {U64Max} ]
  \cup
  [ execution_device : {"auto", "cuda"}, offload : {"auto"}, precision : {"auto", "float32"},
    gpu_reserve : {2}, max_vram : {0, 4}, model_storage : {0, 3}, workspace : {0, 1},
    host_memory_budget : {0, 2, U64Max} ]

\* Nothing declared, one precision, all.
SomeCapabilities ==
  [ sequential : BOOLEAN, cpu_precisions : {{"float32"}, {"float16"}},
    cuda_precisions : {{"float32"}, {"bfloat16"}, Precisions} ]
  \cup
  [ sequential : BOOLEAN, cpu_precisions : {{}, {"float32"}}, cuda_precisions : {{}} ]

SomeDiagnostics ==
  [usable : {TRUE}, free_vram : {0, 5, 7}, probed : {{}, {"float16"}, {"float16", "bfloat16"}}]
  \cup {Unprobed}
=============================================================================
