--------------------------- MODULE ProviderLifecycle ---------------------------
(***************************************************************************)
(* ProviderLifecycleStore of src/mnel/provider_study.py: the lifecycle of  *)
(* the providers of a study, each transition a record that names the       *)
(* evidence for it.  The store lives in memory; a new one starts empty.    *)
(***************************************************************************)
EXTENDS Integers, Sequences

CONSTANTS
  Managed,        \* identities of the providers put under the lifecycle
  Artifacts,      \* identities of artifacts
  Evidence,       \* what callers cite as evidence, blank or not
  Blank,          \* the citations that are blank
  MaxTransitions  \* bound: transitions a store has seen

VARIABLES
  states,     \* _states: the state of each provider the store knows
  artifacts,  \* _artifacts: its artifact
  history     \* _history: the records of the transitions

lifecycleVars == <<states, artifacts, history>>

State == { "candidate", "development-admitted", "transfer-pending", "transfer-admitted",
           "quarantined", "retired", "rolled-back" }

\* Mutant: a quarantined provider may be released to transfer.
AllowedWithRelease ==
  [ from \in State |->
      CASE from = "candidate"            -> {"development-admitted", "quarantined"}
        [] from = "development-admitted" -> {"transfer-pending", "quarantined", "retired"}
        [] from = "transfer-pending"     -> {"transfer-admitted", "quarantined"}
        [] from = "transfer-admitted"    -> {"quarantined", "retired", "rolled-back"}
        [] from = "quarantined"          -> {"transfer-pending", "retired", "rolled-back"}
        [] OTHER                         -> {} ]

\* _ALLOWED
Allowed ==
  [ from \in State |->
      CASE from = "candidate"            -> {"development-admitted", "quarantined"}
        [] from = "development-admitted" -> {"transfer-pending", "quarantined", "retired"}
        [] from = "transfer-pending"     -> {"transfer-admitted", "quarantined"}
        [] from = "transfer-admitted"    -> {"quarantined", "retired", "rolled-back"}
        [] from = "quarantined"          -> {"retired", "rolled-back"}
        [] OTHER                         -> {} ]

\* ProviderLifecycleRecord; a candidate comes from no state.
LifecycleRecord(id, artifact, from, to, evidence) ==
  [id |-> id, artifact |-> artifact, from |-> from, to |-> to, evidence |-> evidence]

\* The function f with x mapped to y.
With(f, x, y) == [z \in DOMAIN f \cup {x} |-> IF z = x THEN y ELSE f[z]]

\* _transition, past its check of the state: citations that are blank do not count, and without
\* others nothing is written.
Write(id, artifact, from, to, cited) ==
  /\ Len(history) < MaxTransitions
  /\ cited \ Blank # {}
  /\ states' = With(states, id, to)
  /\ artifacts' = With(artifacts, id, artifact)
  /\ history' = Append(history, LifecycleRecord(id, artifact, from, to, cited \ Blank))

\* Mutant: a provider may be registered again, say with a new artifact.
RegisterCandidateAgain(id, artifact, cited) == Write(id, artifact, "none", "candidate", {cited})

RegisterCandidate(id, artifact, cited) ==
  /\ id \notin DOMAIN states
  /\ Write(id, artifact, "none", "candidate", {cited})

Transition(id, to, cited) ==
  /\ id \in DOMAIN states
  /\ to \in Allowed[states[id]]
  /\ Write(id, artifacts[id], states[id], to, cited)

EmptyStore ==
  /\ states = << >>
  /\ artifacts = << >>
  /\ history = << >>

\* Another store is made: it knows nothing of this one.
NewStore ==
  /\ history # << >>
  /\ states' = << >>
  /\ artifacts' = << >>
  /\ history' = << >>

StoreNext ==
  \/ \E id \in Managed, artifact \in Artifacts, cited \in Evidence :
       RegisterCandidate(id, artifact, cited)
  \/ \E id \in Managed, to \in State, cited \in SUBSET Evidence : Transition(id, to, cited)
  \/ NewStore

LifecycleSpec == EmptyStore /\ [][StoreNext]_lifecycleVars

-----------------------------------------------------------------------------
\* The history says of every provider the store knows which artifact it is, by one artifact
\* throughout, and what state it is in, by an unbroken chain of evidenced records from candidate on.
HistoryTellsState ==
  /\ \A i \in DOMAIN history :
       LET h == history[i] IN
       /\ h.id \in DOMAIN states /\ h.artifact = artifacts[h.id]
       /\ h.evidence # {} /\ h.evidence \cap Blank = {}
       /\ \/ h.to = states[h.id]
          \/ \E j \in i + 1 .. Len(history) : history[j].id = h.id
       /\ \/ /\ h.from = "none" /\ h.to = "candidate"
             /\ \A j \in 1 .. i - 1 : history[j].id # h.id
          \/ \E j \in 1 .. i - 1 : history[j].id = h.id /\ history[j].to = h.from
  /\ \A id \in DOMAIN states : \E i \in DOMAIN history : history[i].id = id

\* A provider admitted after transfer was admitted to development and waited for its transfer
\* before, and what was quarantined, retired or rolled back is never admitted again, whatever
\* is asked of the store and however often.
AdmissionsEarned ==
  \A i \in DOMAIN history : history[i].to = "transfer-admitted" =>
    /\ \E j \in 1 .. i - 1 : \E k \in 1 .. j - 1 :
         /\ history[j].id = history[i].id /\ history[j].to = "transfer-pending"
         /\ history[k].id = history[i].id /\ history[k].to = "development-admitted"
    /\ \A j \in 1 .. i - 1 : history[j].id = history[i].id =>
         history[j].to \in {"candidate", "development-admitted", "transfer-pending"}
=============================================================================
