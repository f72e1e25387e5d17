---------------------------- MODULE MCTransferStudy ----------------------------
(* Instances of TransferStudy for TLC. *)
EXTENDS TransferStudy

\* Record 1 is the developer's, 2 is hidden, 3 is final; the last two look alike.
TheirVisibility ==
  [r \in 1 .. 3 |-> CASE r = 1 -> "development" [] r = 2 -> "transfer-hidden" [] r = 3 -> "future-final"]
TheirFeatures == [r \in 1 .. 3 |-> IF r > 1 THEN "training" ELSE "routing"]

\* A strategy that declares the memory, and one that declares another.
TwoIdeas ==
  { [triggers |-> {"transition"}, scope |-> {"routing"}, declared |-> {"m1"}],
    [triggers |-> {"other"}, scope |-> {"routing"}, declared |-> {"m0"}] }

OneMemory == { [id |-> "m1", contexts |-> {"provider"}] }

Ask(context, limit, negative) ==
  [trigger |-> "transition", context |-> context, limit |-> limit, negative |-> negative]

SomeQueries ==
  { Ask({"routing", "provider"}, 1, TRUE), Ask({"routing", "provider"}, 3, TRUE),
    Ask({"routing", "provider"}, 2, FALSE) }
=============================================================================
