---------------------------- MODULE MCProviderStudy ----------------------------
(* Instances of ProviderStudy for TLC. *)
EXTENDS ProviderStudy

Bind(kind, architecture, objective, views) ==
  [ kind |-> kind, architecture |-> architecture, objective |-> objective, cost |-> objective,
    family |-> architecture, views |-> views ]

\* Three learned providers, two of one architecture and two of one objective, and two baselines.
FiveBindings ==
  << Bind("learned-provider", 2, 1, {"transition"}),
     Bind("learned-provider", 2, 2, {"transition", "tabular"}),
     Bind("learned-provider", 3, 2, {"tabular"}),
     Bind("baseline", 1, 3, {"transition", "tabular"}),
     Bind("baseline", 4, 1, {"tabular"}) >>

Case(view, label, ood, supports) == [view |-> view, label |-> label, ood |-> ood, supports |-> supports]

TwoCases ==
  [ c \in {"known", "strange"} |->
      IF c = "known" THEN Case("transition", "positive", FALSE, TRUE) ELSE Case("tabular", "negative", TRUE, FALSE) ]

Route(kind, candidates, max) == [kind |-> kind, candidates |-> candidates, max |-> max]

SomePolicies ==
  { Route("single-provider", <<1>>, 1), Route("random", <<1, 2>>, 1),
    Route("heuristic", <<2, 1>>, 1) }
  \cup {Route("diversity", <<5, 4, 3, 2, 1>>, max) : max \in {2, 4}}

Observe(label, abstained, ood) ==
  [raised |-> "none", label |-> label, abstained |-> abstained, ood |-> ood]

SomeOutcomes ==
  { Observe("negative", FALSE, FALSE), Observe("positive", FALSE, FALSE),
    Observe("positive", FALSE, TRUE), Observe("negative", TRUE, TRUE),
    [raised |-> "runtime-error", label |-> "none", abstained |-> FALSE, ood |-> FALSE] }
=============================================================================
