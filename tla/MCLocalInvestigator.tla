------------------------- MODULE MCLocalInvestigator -------------------------
(* Instances of LocalInvestigator for TLC. *)
EXTENDS LocalInvestigator

CONSTANTS r1, r2, r3

\* Record 3 is hidden; records 1 and 2 do not fit together.
TheirVisibility == [i \in 1 .. 5 |-> IF i = 3 THEN "transfer-hidden" ELSE "development"]
TheirSizes == [i \in 1 .. 5 |-> IF i = 2 THEN 9 ELSE 1]

Ask(question, offered) == [question |-> question, offered |-> offered, valid |-> TRUE]

\* One question in one context, of which the limit cuts a record; calls that each check refuses.
SomeCalls ==
  {Ask("q", {1, 4, 5}), Ask("q", {1, 2}), Ask("q", {1, 3}), [Ask("q", {1, 4}) EXCEPT !.valid = FALSE]}

SomeEndings == {{}, {"authority"}, {"undecodable"}}
=============================================================================
