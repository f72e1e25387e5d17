-------------------------- MODULE ProviderStudyProofs --------------------------
(***************************************************************************)
(* Proofs about a study, for any providers, cases, policies and outcomes.  *)
(* Its lifecycle store, alone and beside it: the history is only ever      *)
(* extended, by a record that follows from the latest one of its provider; *)
(* what carries the argument is that the store's state is the latest       *)
(* record's.  Its routing: a diversity policy covers those compatible.     *)
(* Its metrics: the runs that count have distinct keys, are the same after *)
(* a rerun, and their counts fit together.                                 *)
(***************************************************************************)
EXTENDS ProviderStudy, FiniteSetTheorems, TLAPS

LifecycleRecords ==
  [ id : Managed, artifact : Artifacts, from : State \cup {"none"}, to : State,
    evidence : SUBSET Evidence ]

\* What the store holds is of its types.
Typed ==
  /\ DOMAIN artifacts = DOMAIN states
  /\ DOMAIN states \subseteq Managed
  /\ \A id \in DOMAIN states : states[id] \in State /\ artifacts[id] \in Artifacts
  /\ history \in Seq(LifecycleRecords)

\* The latest record of every provider the store knows tells its state.
LatestTellsState ==
  \A id \in DOMAIN states :
    \E i \in DOMAIN history :
      /\ history[i].id = id /\ history[i].to = states[id]
      /\ \A j \in i + 1 .. Len(history) : history[j].id # id

Pending == {"candidate", "development-admitted", "transfer-pending"}

\* A provider that is still on its way to admission has come straight, by each stage.
StraightTo(id) ==
  /\ states[id] \in Pending =>
       \A j \in DOMAIN history : history[j].id = id => history[j].to \in Pending
  /\ states[id] = "development-admitted" =>
       \E k \in DOMAIN history : history[k].id = id /\ history[k].to = "development-admitted"
  /\ states[id] = "transfer-pending" =>
       \E j \in DOMAIN history : \E k \in 1 .. j - 1 :
         /\ history[j].id = id /\ history[j].to = "transfer-pending"
         /\ history[k].id = id /\ history[k].to = "development-admitted"

LInv ==
  /\ Typed
  /\ HistoryTellsState
  /\ LatestTellsState
  /\ \A id \in DOMAIN states : StraightTo(id)
  /\ AdmissionsEarned

-----------------------------------------------------------------------------
\* What _ALLOWED leaves: each stage on the way to admission is entered from the one before only.
LEMMA StagesInOrder ==
  ASSUME NEW from \in State, NEW to \in Allowed[from]
  PROVE  /\ to \in State /\ to # "candidate"
         /\ to = "development-admitted" => from = "candidate"
         /\ to = "transfer-pending" => from = "development-admitted"
         /\ to = "transfer-admitted" => from = "transfer-pending"
<1>1. CASE from = "candidate"
  <2>1. Allowed[from] = {"development-admitted", "quarantined"}
    BY <1>1 DEF Allowed, State
  <2> QED BY <1>1, <2>1 DEF State
<1>2. CASE from = "development-admitted"
  <2>1. Allowed[from] = {"transfer-pending", "quarantined", "retired"}
    BY <1>2 DEF Allowed, State
  <2> QED BY <1>2, <2>1 DEF State
<1>3. CASE from = "transfer-pending"
  <2>1. Allowed[from] = {"transfer-admitted", "quarantined"}
    BY <1>3 DEF Allowed, State
  <2> QED BY <1>3, <2>1 DEF State
<1>4. CASE from = "transfer-admitted"
  <2>1. Allowed[from] = {"quarantined", "retired", "rolled-back"}
    BY <1>4 DEF Allowed, State
  <2> QED BY <1>4, <2>1 DEF State
<1>5. CASE from = "quarantined"
  <2>1. Allowed[from] = {"retired", "rolled-back"}
    BY <1>5 DEF Allowed, State
  <2> QED BY <1>5, <2>1 DEF State
<1>6. CASE from \in {"retired", "rolled-back"}
  <2>1. Allowed[from] = {}
    BY <1>6 DEF Allowed, State
  <2> QED BY <2>1
<1> QED BY <1>1, <1>2, <1>3, <1>4, <1>5, <1>6 DEF State

\* What a step writes: the record, and nothing else of the history.
LEMMA Extended ==
  ASSUME Typed, NEW r \in LifecycleRecords, history' = Append(history, r)
  PROVE  /\ history' \in Seq(LifecycleRecords)
         /\ Len(history') = Len(history) + 1
         /\ Len(history) \in Nat
         /\ DOMAIN history = 1 .. Len(history)
         /\ DOMAIN history' = 1 .. Len(history) + 1
         /\ \A i \in 1 .. Len(history) : history'[i] = history[i]
         /\ history'[Len(history) + 1] = r
  BY DEF Typed

\* A write that continues the story of a provider: from its latest state, or from nothing.
LEMMA WriteKeeps ==
  ASSUME LInv, NEW id \in Managed, NEW artifact \in Artifacts, NEW from \in State \cup {"none"},
         NEW to \in State, NEW cited \in SUBSET Evidence,
         Write(id, artifact, from, to, cited),
         \/ id \notin DOMAIN states /\ from = "none" /\ to = "candidate"
         \/ /\ id \in DOMAIN states /\ from = states[id] /\ artifact = artifacts[id]
            /\ to \in Allowed[from]
  PROVE  LInv'
<1> DEFINE r == LifecycleRecord(id, artifact, from, to, cited \ Blank)
           n == Len(history)
<1>1. /\ r \in LifecycleRecords
      /\ r.id = id /\ r.artifact = artifact /\ r.from = from /\ r.to = to
      /\ r.evidence = cited \ Blank /\ r.evidence # {}
  BY DEF Write, LifecycleRecord, LifecycleRecords
<1>2. history' = Append(history, r)
  BY DEF Write
<1> HIDE DEF r
<1>3. /\ history' \in Seq(LifecycleRecords)
      /\ Len(history') = n + 1 /\ n \in Nat
      /\ DOMAIN history = 1 .. n /\ DOMAIN history' = 1 .. n + 1
      /\ \A i \in 1 .. n : history'[i] = history[i]
      /\ history'[n + 1] = r
  BY <1>1, <1>2, Extended DEF LInv
<1> HIDE DEF n
<1>4. /\ states' = With(states, id, to) /\ artifacts' = With(artifacts, id, artifact)
  BY DEF Write
<1>5. /\ DOMAIN artifacts = DOMAIN states
      /\ DOMAIN states' = DOMAIN states \cup {id} /\ DOMAIN artifacts' = DOMAIN states \cup {id}
      /\ states'[id] = to /\ artifacts'[id] = artifact
      /\ \A x \in DOMAIN states : x # id => states'[x] = states[x] /\ artifacts'[x] = artifacts[x]
  <2>1. DOMAIN artifacts = DOMAIN states
    BY DEF LInv, Typed
  <2>2. /\ DOMAIN states' = DOMAIN states \cup {id}
        /\ states'[id] = to
        /\ \A x \in DOMAIN states : x # id => states'[x] = states[x]
    BY <1>4 DEF With
  <2>3. /\ DOMAIN artifacts' = DOMAIN artifacts \cup {id}
        /\ artifacts'[id] = artifact
        /\ \A x \in DOMAIN artifacts : x # id => artifacts'[x] = artifacts[x]
    BY <1>4 DEF With
  <2> QED BY <2>1, <2>2, <2>3
<1>6. Typed'
  BY <1>3, <1>5 DEF LInv, Typed
\* No record of the old history is of a provider the store does not know.
<1>7. \A i \in 1 .. n : history[i].id \in DOMAIN states
  BY <1>3 DEF LInv, HistoryTellsState
<1>8. LatestTellsState'
  <2> SUFFICES ASSUME NEW x \in DOMAIN states'
               PROVE  \E i \in 1 .. n + 1 :
                        /\ history'[i].id = x /\ history'[i].to = states'[x]
                        /\ \A j \in i + 1 .. n + 1 : history'[j].id # x
    BY <1>3 DEF LatestTellsState
  <2>1. CASE x = id
    <3>1. history'[n + 1].id = x /\ history'[n + 1].to = states'[x]
      BY <2>1, <1>1, <1>3, <1>5
    <3>2. n + 1 \in 1 .. n + 1 /\ \A j \in (n + 1) + 1 .. n + 1 : FALSE
      BY <1>3
    <3> QED BY <3>1, <3>2
  <2>2. CASE x # id
    <3>1. x \in DOMAIN states
      BY <2>2, <1>5
    <3>2. PICK i \in 1 .. n : /\ history[i].id = x /\ history[i].to = states[x]
                             /\ \A j \in i + 1 .. n : history[j].id # x
      BY <3>1, <1>3 DEF LInv, LatestTellsState, n
    <3>3. i \in 1 .. n + 1 /\ history'[i].id = x /\ history'[i].to = states'[x]
      BY <3>1, <3>2, <2>2, <1>3, <1>5
    <3>4. ASSUME NEW j \in i + 1 .. n + 1 PROVE history'[j].id # x
      BY <3>2, <2>2, <1>1, <1>3
    <3> QED BY <3>3, <3>4
  <2> QED BY <2>1, <2>2
<1>9. HistoryTellsState'
  <2>1. ASSUME NEW x \in DOMAIN states' PROVE \E i \in DOMAIN history' : history'[i].id = x
    BY <1>8, <2>1 DEF LatestTellsState
  <2>2. ASSUME NEW i \in 1 .. n + 1
        PROVE  LET h == history'[i] IN
               /\ h.id \in DOMAIN states' /\ h.artifact = artifacts'[h.id]
               /\ h.evidence # {} /\ h.evidence \cap Blank = {}
               /\ \/ h.to = states'[h.id]
                  \/ \E j \in i + 1 .. n + 1 : history'[j].id = h.id
               /\ \/ /\ h.from = "none" /\ h.to = "candidate"
                     /\ \A j \in 1 .. i - 1 : history'[j].id # h.id
                  \/ \E j \in 1 .. i - 1 : history'[j].id = h.id /\ history'[j].to = h.from
    <3>1. CASE i \in 1 .. n
      <4> DEFINE h == history[i]
      <4>1. history'[i] = h
        BY <3>1, <1>3
      <4>2. /\ h.id \in DOMAIN states /\ h.artifact = artifacts[h.id]
            /\ h.evidence # {} /\ h.evidence \cap Blank = {}
            /\ \/ h.to = states[h.id]
               \/ \E j \in i + 1 .. n : history[j].id = h.id
            /\ \/ /\ h.from = "none" /\ h.to = "candidate"
                  /\ \A j \in 1 .. i - 1 : history[j].id # h.id
               \/ \E j \in 1 .. i - 1 : history[j].id = h.id /\ history[j].to = h.from
        BY <3>1, <1>3 DEF LInv, HistoryTellsState, n
      <4> HIDE DEF h
      <4>3. h.id \in DOMAIN states' /\ h.artifact = artifacts'[h.id]
        BY <4>2, <1>5
      <4>4. \/ h.to = states'[h.id]
            \/ \E j \in i + 1 .. n + 1 : history'[j].id = h.id
        <5>1. CASE h.id = id
          <6>1. n + 1 \in i + 1 .. n + 1
            BY <3>1, <1>3
          <6> QED BY <5>1, <6>1, <1>1, <1>3
        <5>2. CASE h.id # id /\ h.to = states[h.id]
          BY <5>2, <4>2, <1>5
        <5>3. CASE \E j \in i + 1 .. n : history[j].id = h.id
          <6>1. PICK j \in i + 1 .. n : history[j].id = h.id
            BY <5>3
          <6>2. j \in i + 1 .. n + 1 /\ j \in 1 .. n
            BY <6>1, <3>1, <1>3
          <6> QED BY <6>1, <6>2, <1>3
        <5> QED BY <4>2, <5>1, <5>2, <5>3
      <4>5. \A j \in 1 .. i - 1 : history'[j] = history[j]
        BY <3>1, <1>3
      <4> QED BY <4>1, <4>2, <4>3, <4>4, <4>5
    <3>2. CASE i = n + 1
      <4>1. history'[i] = r /\ i - 1 = n
        BY <3>2, <1>3
      <4>2. \A j \in 1 .. n : history'[j] = history[j]
        BY <1>3
      <4>3. CASE id \notin DOMAIN states /\ from = "none" /\ to = "candidate"
        BY <4>1, <4>2, <4>3, <1>1, <1>5, <1>7
      <4>4. CASE id \in DOMAIN states /\ from = states[id] /\ artifact = artifacts[id]
        <5>1. PICK j \in 1 .. n : history[j].id = id /\ history[j].to = states[id]
          BY <4>4, <1>3 DEF LInv, LatestTellsState
        <5> QED BY <5>1, <4>1, <4>2, <4>4, <1>1, <1>5
      <4> QED BY <4>3, <4>4
    <3> QED BY <3>1, <3>2, <1>3
  <2> QED BY <2>1, <2>2, <1>3 DEF HistoryTellsState
\* A stage on the way to admission is entered from the one before; from none there is no history.
<1>10. /\ to \in Pending /\ id \in DOMAIN states => from \in Pending /\ from = states[id]
       /\ to = "transfer-pending" => id \in DOMAIN states /\ states[id] = "development-admitted"
       /\ to = "transfer-admitted" => id \in DOMAIN states /\ states[id] = "transfer-pending"
  <2>1. CASE id \notin DOMAIN states /\ from = "none" /\ to = "candidate"
    BY <2>1
  <2>2. CASE id \in DOMAIN states /\ from = states[id] /\ to \in Allowed[from]
    <3>1. from \in State
      BY <2>2 DEF LInv, Typed
    <3>2. /\ to # "candidate"
          /\ to = "development-admitted" => from = "candidate"
          /\ to = "transfer-pending" => from = "development-admitted"
          /\ to = "transfer-admitted" => from = "transfer-pending"
      BY <2>2, <3>1, StagesInOrder
    <3> QED BY <2>2, <3>2 DEF Pending
  <2> QED BY <2>1, <2>2
<1>11. ASSUME NEW x \in DOMAIN states' PROVE StraightTo(x)'
  <2>1. CASE x # id
    <3>1. x \in DOMAIN states /\ states'[x] = states[x]
      BY <2>1, <1>5
    <3>2. \A j \in 1 .. n + 1 : history'[j].id = x => j \in 1 .. n
      BY <2>1, <1>1, <1>3
    <3>3. StraightTo(x)
      BY <3>1 DEF LInv
    <3>4. states'[x] \in Pending =>
            \A j \in 1 .. n + 1 : history'[j].id = x => history'[j].to \in Pending
      BY <3>1, <3>2, <3>3, <1>3 DEF StraightTo
    <3>5. states'[x] = "development-admitted" =>
            \E k \in 1 .. n + 1 : history'[k].id = x /\ history'[k].to = "development-admitted"
      <4> SUFFICES ASSUME states[x] = "development-admitted"
                   PROVE  \E k \in 1 .. n + 1 :
                            history'[k].id = x /\ history'[k].to = "development-admitted"
        BY <3>1
      <4>1. PICK k \in 1 .. n : history[k].id = x /\ history[k].to = "development-admitted"
        BY <3>3, <1>3 DEF StraightTo
      <4>2. k \in 1 .. n + 1 /\ history'[k] = history[k]
        BY <4>1, <1>3
      <4> QED BY <4>1, <4>2
    <3>6. states'[x] = "transfer-pending" =>
            \E j \in 1 .. n + 1 : \E k \in 1 .. j - 1 :
              /\ history'[j].id = x /\ history'[j].to = "transfer-pending"
              /\ history'[k].id = x /\ history'[k].to = "development-admitted"
      <4> SUFFICES ASSUME states[x] = "transfer-pending"
                   PROVE  \E j \in 1 .. n + 1 : \E k \in 1 .. j - 1 :
                            /\ history'[j].id = x /\ history'[j].to = "transfer-pending"
                            /\ history'[k].id = x /\ history'[k].to = "development-admitted"
        BY <3>1
      <4>1. PICK j \in 1 .. n : \E k \in 1 .. j - 1 :
              /\ history[j].id = x /\ history[j].to = "transfer-pending"
              /\ history[k].id = x /\ history[k].to = "development-admitted"
        BY <3>3, <1>3 DEF StraightTo
      <4>2. j \in 1 .. n + 1 /\ \A k \in 1 .. j - 1 : k \in 1 .. n
        BY <1>3
      <4>3. history'[j] = history[j] /\ \A k \in 1 .. j - 1 : history'[k] = history[k]
        BY <4>2, <1>3
      <4> QED BY <4>1, <4>2, <4>3
    <3> QED BY <3>4, <3>5, <3>6, <1>3 DEF StraightTo
  <2>2. CASE x = id
    <3>1. history'[n + 1].id = x /\ history'[n + 1].to = to /\ states'[x] = to
      BY <2>2, <1>1, <1>3, <1>5
    <3>2. to \in Pending => \A j \in 1 .. n + 1 : history'[j].id = x => history'[j].to \in Pending
      <4> SUFFICES ASSUME to \in Pending, NEW j \in 1 .. n, history'[j].id = x
                   PROVE  history'[j].to \in Pending
        BY <3>1, <1>3
      <4>1. history[j].id = id /\ history'[j] = history[j]
        BY <2>2, <1>3
      <4>2. id \in DOMAIN states
        BY <4>1, <1>7
      <4>3. StraightTo(id) /\ states[id] \in Pending
        BY <4>2, <1>10 DEF LInv
      <4> QED BY <4>1, <4>3, <1>3 DEF StraightTo
    <3>3. n + 1 \in 1 .. n + 1
      BY <1>3
    <3>4. to = "transfer-pending" =>
            \E k \in 1 .. n : history'[k].id = x /\ history'[k].to = "development-admitted"
      <4> SUFFICES ASSUME to = "transfer-pending"
                   PROVE  \E k \in 1 .. n :
                            history'[k].id = x /\ history'[k].to = "development-admitted"
        OBVIOUS
      <4>1. StraightTo(id) /\ states[id] = "development-admitted"
        BY <1>10 DEF LInv
      <4>2. PICK k \in 1 .. n : history[k].id = id /\ history[k].to = "development-admitted"
        BY <4>1, <1>3 DEF StraightTo
      <4>3. history'[k] = history[k]
        BY <1>3
      <4> QED BY <4>2, <4>3, <2>2
    <3>5. (n + 1) - 1 = n
      BY <1>3
    <3> QED BY <3>1, <3>2, <3>3, <3>4, <3>5, <1>3 DEF StraightTo
  <2> QED BY <2>1, <2>2
<1>12. AdmissionsEarned'
  <2> SUFFICES ASSUME NEW i \in 1 .. n + 1, history'[i].to = "transfer-admitted"
               PROVE  /\ \E j \in 1 .. i - 1 : \E k \in 1 .. j - 1 :
                           /\ history'[j].id = history'[i].id /\ history'[j].to = "transfer-pending"
                           /\ history'[k].id = history'[i].id
                           /\ history'[k].to = "development-admitted"
                      /\ \A j \in 1 .. i - 1 :
                           history'[j].id = history'[i].id => history'[j].to \in Pending
    BY <1>3 DEF AdmissionsEarned, Pending
  <2>1. CASE i \in 1 .. n
    <3>1. history'[i] = history[i] /\ \A j \in 1 .. i - 1 : j \in 1 .. n /\ history'[j] = history[j]
      BY <2>1, <1>3
    <3>2. /\ \E j \in 1 .. i - 1 : \E k \in 1 .. j - 1 :
               /\ history[j].id = history[i].id /\ history[j].to = "transfer-pending"
               /\ history[k].id = history[i].id /\ history[k].to = "development-admitted"
          /\ \A j \in 1 .. i - 1 : history[j].id = history[i].id => history[j].to \in Pending
      BY <2>1, <3>1, <1>3 DEF LInv, AdmissionsEarned, Pending
    <3>3. PICK j \in 1 .. i - 1 : \E k \in 1 .. j - 1 :
               /\ history[j].id = history[i].id /\ history[j].to = "transfer-pending"
               /\ history[k].id = history[i].id /\ history[k].to = "development-admitted"
      BY <3>2
    <3>4. \A k \in 1 .. j - 1 : k \in 1 .. i - 1
      BY <2>1, <1>3
    <3> QED BY <3>1, <3>2, <3>3, <3>4
  <2>2. CASE i = n + 1
    <3>1. history'[i].id = id /\ to = "transfer-admitted" /\ i - 1 = n
      BY <2>2, <1>1, <1>3
    <3>2. StraightTo(id) /\ states[id] = "transfer-pending"
      BY <3>1, <1>10 DEF LInv
    <3>3. PICK j \in 1 .. n : \E k \in 1 .. j - 1 :
            /\ history[j].id = id /\ history[j].to = "transfer-pending"
            /\ history[k].id = id /\ history[k].to = "development-admitted"
      BY <3>2, <1>3 DEF StraightTo
    <3>4. \A k \in 1 .. j - 1 : k \in 1 .. n
      BY <1>3
    <3>5. \A l \in 1 .. n : history'[l] = history[l]
      BY <1>3
    <3>6. \A l \in 1 .. n : history[l].id = id => history[l].to \in Pending
      BY <3>2, <1>3 DEF StraightTo, Pending
    <3> QED BY <3>1, <3>3, <3>4, <3>5, <3>6
  <2> QED BY <2>1, <2>2, <1>3
<1> QED BY <1>6, <1>8, <1>9, <1>11, <1>12 DEF LInv

\* The invariant of the store holds of an empty one.
LEMMA InitLInv == EmptyStore => LInv
  BY DEF EmptyStore, LInv, Typed, HistoryTellsState, LatestTellsState, AdmissionsEarned

\* Registration starts a story, a transition continues one, and a new store knows none.
LEMMA StepLInv == LInv /\ [StoreNext]_lifecycleVars => LInv'
<1> SUFFICES ASSUME LInv, [StoreNext]_lifecycleVars PROVE LInv'
  OBVIOUS
<1>1. ASSUME NEW id \in Managed, NEW artifact \in Artifacts, NEW cited \in Evidence,
             RegisterCandidate(id, artifact, cited)
      PROVE  LInv'
  <2>1. {cited} \in SUBSET Evidence /\ "candidate" \in State
    BY DEF State
  <2> QED BY <1>1, <2>1, WriteKeeps DEF RegisterCandidate
<1>2. ASSUME NEW id \in Managed, NEW to \in State, NEW cited \in SUBSET Evidence,
             Transition(id, to, cited)
      PROVE  LInv'
  <2>1. states[id] \in State /\ artifacts[id] \in Artifacts
    BY <1>2 DEF Transition, LInv, Typed
  <2> QED BY <1>2, <2>1, WriteKeeps DEF Transition
<1>3. CASE NewStore
  BY <1>3 DEF NewStore, LInv, Typed, HistoryTellsState, LatestTellsState, AdmissionsEarned
<1>4. CASE UNCHANGED lifecycleVars
  <2>1. states' = states /\ artifacts' = artifacts /\ history' = history
    BY <1>4 DEF lifecycleVars
  <2>2. Typed'
    BY <2>1 DEF LInv, Typed
  <2>3. HistoryTellsState' /\ AdmissionsEarned'
    BY <2>1 DEF LInv, HistoryTellsState, AdmissionsEarned
  <2>4. LatestTellsState'
    BY <2>1 DEF LInv, LatestTellsState
  <2>5. \A id \in DOMAIN states' : StraightTo(id)'
    BY <2>1 DEF LInv, StraightTo
  <2> QED BY <2>2, <2>3, <2>4, <2>5 DEF LInv
<1> QED BY <1>1, <1>2, <1>3, <1>4 DEF StoreNext

\* The inductive invariant of the store: its state of a provider is the latest record's, and a
\* provider on its way to admission has come straight.
THEOREM StoreInvariant == LifecycleSpec => []LInv
  BY InitLInv, StepLInv, PTL DEF LifecycleSpec

\* Whatever a study routes and runs, its store goes through the lifecycle and nothing else.
THEOREM StudyFollowsLifecycle == Spec => LifecycleSpec
<1>1. Init => EmptyStore
  BY DEF Init
<1>2. [Next]_vars => [StoreNext]_lifecycleVars
  <2>1. CASE \E policy \in Policies, c \in DOMAIN Cases : Study(policy, c)
    BY <2>1 DEF Study
  <2>2. CASE Manage
    BY <2>2 DEF Manage
  <2>3. CASE UNCHANGED vars
    BY <2>3 DEF vars
  <2> QED BY <2>1, <2>2, <2>3 DEF Next
<1> QED BY <1>1, <1>2, PTL DEF Spec, LifecycleSpec

\* For any providers and any sequence of calls the history accounts for what the store says of
\* every provider: one artifact throughout, and an unbroken chain of evidenced records.
THEOREM HistoryIsComplete == Spec => []HistoryTellsState
<1>1. LInv => HistoryTellsState
  BY DEF LInv
<1> QED BY <1>1, StoreInvariant, StudyFollowsLifecycle, PTL

\* No sequence of calls, however long, admits a provider after transfer that did not pass each
\* stage in order, or that was quarantined, retired or rolled back before.
THEOREM AdmissionIsEarned == Spec => []AdmissionsEarned
<1>1. LInv => AdmissionsEarned
  BY DEF LInv
<1> QED BY <1>1, StoreInvariant, StudyFollowsLifecycle, PTL

-----------------------------------------------------------------------------
(* Routing and running.                                                    *)

RunStatus == {"completed", "abstained", "out-of-distribution", "malformed-input", "runtime-error"}

Runs ==
  [ provider : DOMAIN Bindings, case : DOMAIN Cases, status : RunStatus,
    label : Label \cup {"none"}, abstained : BOOLEAN, ood : BOOLEAN,
    useful : {"yes", "no", "none"} ]

\* A run whose status is by the flag carries the flag; a useful one was judged and right.
Consistent(r) ==
  /\ r.status = "out-of-distribution" => r.ood
  /\ r.useful = "yes" => Labeled(r) /\ ~ Wrong(r)

\* The runs are what providers made of known cases; the last selection is one of its policy.
RunsInv ==
  /\ runs \in Seq(Runs)
  /\ \A i \in 1 .. Len(runs) : Consistent(runs[i])
  /\ selection # << >> =>
       /\ selection.policy \in Policies /\ selection.case \in DOMAIN Cases
       /\ selection.selected \in Selections(selection.policy, Cases[selection.case])

\* Those a policy may ask are finitely many providers of the study.
LEMMA CompatibleFinite ==
  ASSUME NEW policy \in Policies, NEW case
  PROVE  /\ IsFiniteSet(Compatible(policy, case))
         /\ Compatible(policy, case) \subseteq DOMAIN Bindings
<1> DEFINE candidates == policy.candidates
<1>1. candidates \in Seq(Nat)
  BY PoliciesAssumption
<1>2. IsFiniteSet(1 .. Len(candidates))
  BY <1>1, FS_Interval
<1> DEFINE f == [i \in 1 .. Len(candidates) |-> candidates[i]]
<1>3. f \in Surjection(1 .. Len(candidates), ToSet(candidates))
  <2>1. DOMAIN candidates = 1 .. Len(candidates)
    BY <1>1
  <2>2. f \in [1 .. Len(candidates) -> ToSet(candidates)]
    BY <2>1 DEF ToSet
  <2>3. \A t \in ToSet(candidates) : \E i \in 1 .. Len(candidates) : f[i] = t
    BY <2>1 DEF ToSet
  <2> QED BY <2>2, <2>3 DEF Surjection
<1> HIDE DEF f, candidates
<1>4. IsFiniteSet(ToSet(candidates))
  BY <1>2, <1>3, FS_Surjection
<1>5. Compatible(policy, case) \subseteq ToSet(candidates) /\ Compatible(policy, case) \subseteq DOMAIN Bindings
  BY DEF Compatible, candidates
<1> QED BY <1>4, <1>5, FS_Subset

\* A selection is a sequence of compatible providers, whatever the policy.
LEMMA SelectionTyped ==
  ASSUME NEW policy \in Policies, NEW case, NEW selected \in Selections(policy, case)
  PROVE  selected \in Seq(DOMAIN Bindings)
<1> DEFINE ids == Compatible(policy, case)
<1>1. IsFiniteSet(ids) /\ ids \subseteq DOMAIN Bindings
  BY CompatibleFinite
<1>2. ASSUME NEW chosen \in SUBSET ids, selected \in [1 .. Cardinality(chosen) -> chosen]
      PROVE  selected \in Seq(DOMAIN Bindings)
  <2>1. Cardinality(chosen) \in Nat
    BY <1>1, FS_Subset, FS_CardinalityType
  <2>2. selected \in [1 .. Cardinality(chosen) -> DOMAIN Bindings]
    BY <1>1, <1>2
  <2> QED BY <2>1, <2>2
<1> HIDE DEF ids
<1>3. \E chosen \in SUBSET ids : selected \in [1 .. Cardinality(chosen) -> chosen]
  <2>1. policy.kind \in {"random", "heuristic", "single-provider", "diversity"}
    BY PoliciesAssumption
  <2>2. CASE policy.kind = "single-provider"
    BY <2>2 DEF Selections, Arranged, FirstOf, ids
  <2>3. CASE policy.kind = "random"
    BY <2>3 DEF Selections, Arranged, kSubset, ids
  <2>4. CASE policy.kind = "heuristic"
    BY <2>4 DEF Selections, Arranged, FirstOf, ids
  <2>5. CASE policy.kind = "diversity"
    BY <2>5 DEF Selections, Arranged, Diverse, ids
  <2> QED BY <2>1, <2>2, <2>3, <2>4, <2>5
<1> QED BY <1>2, <1>3

\* A run of a provider on a case is well formed, whatever loading and inferring come to.
LEMMA ProviderRunTyped ==
  ASSUME NEW p \in DOMAIN Bindings, NEW c \in DOMAIN Cases, NEW o \in Outcomes
  PROVE  ProviderRun(p, c, o) \in Runs /\ Consistent(ProviderRun(p, c, o))
<1> DEFINE status == CASE o.raised # "none" -> o.raised
                       [] ~ o.abstained /\ o.raised = "none" -> "completed"
                       [] o.abstained -> IF o.ood THEN "out-of-distribution" ELSE "abstained"
           judged == Cases[c].supports /\ Cases[c].label # "none" /\ status = "completed"
           label  == IF status = "completed" THEN o.label ELSE "none"
           useful == IF judged THEN IF o.label = Cases[c].label THEN "yes" ELSE "no" ELSE "none"
           r      == ProviderRun(p, c, o)
<1>1. /\ o \in Outcome
      /\ o.abstained \in BOOLEAN /\ o.ood \in BOOLEAN
      /\ o.raised = "none" \/ o.raised \in Failure
      /\ o.raised = "none" => o.label \in Label
      /\ o.raised # "none" => ~ o.abstained /\ ~ o.ood
  <2>1. o \in Outcome
    BY OutcomesAssumption
  <2>2. CASE o \in [raised : {"none"}, label : Label, abstained : BOOLEAN, ood : BOOLEAN]
    BY <2>1, <2>2
  <2>3. CASE o \in [raised : Failure, label : {"none"}, abstained : {FALSE}, ood : {FALSE}]
    BY <2>1, <2>3 DEF Failure
  <2> QED BY <2>1, <2>2, <2>3 DEF Outcome
<1>2. /\ status \in RunStatus
      /\ status = "completed" => o.raised = "none"
      /\ status = "out-of-distribution" => o.ood
  <2>1. CASE o.raised # "none"
    <3>1. ~ (~ o.abstained /\ o.raised = "none") /\ ~ o.abstained
      BY <1>1, <2>1
    <3>2. status = o.raised
      BY <2>1, <3>1
    <3> QED BY <1>1, <2>1, <3>2 DEF RunStatus, Failure
  <2>2. CASE o.raised = "none" /\ ~ o.abstained
    BY <2>2 DEF RunStatus
  <2>3. CASE o.raised = "none" /\ o.abstained
    <3>1. status = IF o.ood THEN "out-of-distribution" ELSE "abstained"
      BY <2>3
    <3> QED BY <2>3, <3>1 DEF RunStatus
  <2> QED BY <2>1, <2>2, <2>3
<1>3. r = [ provider |-> p, case |-> c, status |-> status, label |-> label,
            abstained |-> o.abstained, ood |-> o.ood, useful |-> useful ]
  BY DEF ProviderRun
<1> HIDE DEF status, r
<1>4. label \in Label \cup {"none"} /\ useful \in {"yes", "no", "none"}
  BY <1>1, <1>2
<1>5. useful = "yes" =>
        status = "completed" /\ label = Cases[c].label /\ label # "none" /\ Cases[c].label # "none"
  BY <1>1, <1>2 DEF Label
<1> HIDE DEF label, useful
<1>6. r \in Runs
  BY <1>1, <1>2, <1>3, <1>4 DEF Runs
<1>7. Consistent(r)
  BY <1>2, <1>3, <1>5 DEF Consistent, Labeled, Wrong
<1> QED BY <1>6, <1>7 DEF r

\* A turn of a study adds runs after the ones made.
LEMMA StudyAppends ==
  ASSUME RunsInv, NEW policy \in Policies, NEW c \in DOMAIN Cases, Study(policy, c)
  PROVE  /\ selection'.policy = policy /\ selection'.case = c
         /\ selection'.selected \in Selections(policy, Cases[c])
         /\ \E made \in Seq(Runs) :
              runs' = runs \o made /\ \A i \in 1 .. Len(made) : Consistent(made[i])
<1>1. PICK selected \in Selections(policy, Cases[c]) :
        /\ selection' = [policy |-> policy, case |-> c, selected |-> selected]
        /\ \E outcomes \in [DOMAIN selected -> Outcomes] :
             runs' = runs \o [i \in DOMAIN selected |-> ProviderRun(selected[i], c, outcomes[i])]
  BY DEF Study
<1>2. PICK outcomes \in [DOMAIN selected -> Outcomes] :
        runs' = runs \o [i \in DOMAIN selected |-> ProviderRun(selected[i], c, outcomes[i])]
  BY <1>1
<1> DEFINE made == [i \in DOMAIN selected |-> ProviderRun(selected[i], c, outcomes[i])]
<1>3. selected \in Seq(DOMAIN Bindings)
  BY SelectionTyped
<1>4. \A i \in DOMAIN selected : made[i] \in Runs /\ Consistent(made[i])
  BY <1>3, ProviderRunTyped
<1>5. DOMAIN made = 1 .. Len(selected) /\ Len(selected) \in Nat /\ DOMAIN selected = 1 .. Len(selected)
  BY <1>3
<1>6. made \in [1 .. Len(selected) -> Runs]
  BY <1>4, <1>5
<1>7. made \in Seq(Runs) /\ Len(made) = Len(selected)
  BY <1>5, <1>6
<1> HIDE DEF made
<1> QED BY <1>1, <1>2, <1>4, <1>5, <1>7 DEF made

\* What follows one sequence in another.
LEMMA Concatenated ==
  ASSUME NEW s \in Seq(Runs), NEW t \in Seq(Runs)
  PROVE  /\ s \o t \in Seq(Runs) /\ Len(s \o t) = Len(s) + Len(t)
         /\ \A i \in 1 .. Len(s) : (s \o t)[i] = s[i]
         /\ \A i \in Len(s) + 1 .. Len(s) + Len(t) :
              i - Len(s) \in 1 .. Len(t) /\ (s \o t)[i] = t[i - Len(s)]
OBVIOUS

\* Every step keeps the invariant of the runs.
LEMMA StepRunsInv == RunsInv /\ [Next]_vars => RunsInv'
<1> SUFFICES ASSUME RunsInv, [Next]_vars PROVE RunsInv'
  OBVIOUS
<1>1. ASSUME NEW policy \in Policies, NEW c \in DOMAIN Cases, Study(policy, c)
      PROVE  RunsInv'
  <2>1. PICK made \in Seq(Runs) :
          runs' = runs \o made /\ \A i \in 1 .. Len(made) : Consistent(made[i])
    BY <1>1, StudyAppends
  <2>2. runs \in Seq(Runs) /\ Len(runs) \in Nat /\ Len(made) \in Nat
    BY DEF RunsInv
  <2>3. runs' \in Seq(Runs) /\ Len(runs') = Len(runs) + Len(made)
    BY <2>1, <2>2, Concatenated
  <2>4. ASSUME NEW i \in 1 .. Len(runs') PROVE Consistent(runs'[i])
    <3>1. CASE i \in 1 .. Len(runs)
      BY <2>1, <2>2, <3>1, Concatenated DEF RunsInv
    <3>2. CASE i \in Len(runs) + 1 .. Len(runs) + Len(made)
      BY <2>1, <2>2, <3>2, Concatenated
    <3> QED BY <2>2, <2>3, <3>1, <3>2
  <2>5. /\ selection'.policy \in Policies /\ selection'.case \in DOMAIN Cases
        /\ selection'.selected \in Selections(selection'.policy, Cases[selection'.case])
    BY <1>1, StudyAppends
  <2>6. \A r : Consistent(r)' <=> Consistent(r)
    BY DEF Consistent, Labeled, Wrong
  <2> QED BY <2>3, <2>4, <2>5, <2>6 DEF RunsInv
<1>2. CASE UNCHANGED <<selection, runs>>
  BY <1>2 DEF RunsInv, Consistent, Labeled, Wrong
<1> QED BY <1>1, <1>2 DEF Next, Manage, vars

\* What a study has run is well formed, and its last selection is one of the policy's.
THEOREM RunsInvariant == Spec => []RunsInv
<1>1. Init => RunsInv
  BY DEF Init, RunsInv
<1> QED BY <1>1, StepRunsInv, PTL DEF Spec

-----------------------------------------------------------------------------
(* Diversity.                                                              *)

\* No two providers stand in one place, and no baseline comes before a learned provider.
LEMMA LearnedComeFirst ==
  ASSUME NEW p \in DOMAIN Bindings, NEW q \in DOMAIN Bindings,
         Bindings[p].kind = "learned-provider", Bindings[q].kind = "baseline"
  PROVE  LearnedFirst(p, q) /\ ~ LearnedFirst(q, p)
<1>1. BaselineLast(p) = 0 /\ BaselineLast(q) = 1
  BY DEF BaselineLast
<1> DEFINE k == <<BaselineLast(p), Bindings[p].architecture, p>>
           l == <<BaselineLast(q), Bindings[q].architecture, q>>
<1>2. k[1] = 0 /\ l[1] = 1 /\ DOMAIN k = 1 .. 3 /\ DOMAIN l = 1 .. 3
  BY <1>1
<1> HIDE DEF k, l
<1>3. Less(k, l)
  <2>1. 1 \in DOMAIN k /\ k[1] < l[1] /\ \A j \in 1 .. 1 - 1 : k[j] = l[j]
    BY <1>2
  <2> QED BY <2>1 DEF Less
<1>4. ~ Less(l, k)
  <2> SUFFICES ASSUME NEW i \in 1 .. 3, l[i] < k[i], \A j \in 1 .. i - 1 : l[j] = k[j]
               PROVE  FALSE
    BY <1>2 DEF Less
  <2>1. i = 1 \/ 1 \in 1 .. i - 1
    OBVIOUS
  <2> QED BY <1>2, <2>1
<1> QED BY <1>3, <1>4 DEF LearnedFirst, k, l

\* The order is transitive where it is needed: what comes before a learned provider comes
\* before every baseline.
LEMMA BeforeLearned ==
  ASSUME NEW p \in DOMAIN Bindings, NEW q \in DOMAIN Bindings,
         Bindings[p].kind = "learned-provider", LearnedFirst(q, p)
  PROVE  Bindings[q].kind = "learned-provider"
<1>1. Bindings[q].kind \in {"learned-provider", "baseline"}
  BY BindingsAssumption
<1> QED BY <1>1, LearnedComeFirst

\* An arrangement of a finite set has its members and its length.
LEMMA ArrangedWhole ==
  ASSUME NEW ids, IsFiniteSet(ids), NEW s, ToSet(s) = ids, s \in [1 .. Cardinality(ids) -> ids]
  PROVE  Len(s) = Cardinality(ids)
<1>1. Cardinality(ids) \in Nat
  BY FS_CardinalityType
<1> QED BY <1>1

\* A diversity policy selects all it may, in whatever order it takes them up.
THEOREM DiversityIsCovered == Spec => []DiversityCovers
<1>1. RunsInv => DiversityCovers
  <2> SUFFICES ASSUME RunsInv, selection # << >>, selection.policy.kind = "diversity"
               PROVE  LET chosen     == ToSet(selection.selected)
                          compatible == Compatible(selection.policy, Cases[selection.case])
                          learned    == {p \in compatible : Bindings[p].kind = "learned-provider"}
                          Kin(p, by, trait) == \E q \in by : Bindings[q][trait] = Bindings[p][trait]
                          Covered(p, by) == Kin(p, by, "architecture") /\ Kin(p, by, "objective")
                      IN  /\ chosen \subseteq compatible
                          /\ compatible # {} => chosen # {}
                          /\ Len(selection.selected) < selection.policy.max =>
                               \A p \in compatible : Covered(p, chosen)
                          /\ chosen \subseteq learned
                               \/ \A p \in learned : Covered(p, chosen \cap learned)
    BY DEF DiversityCovers
  <2> DEFINE max        == selection.policy.max
             chosen     == ToSet(selection.selected)
             compatible == Compatible(selection.policy, Cases[selection.case])
             learned    == {p \in compatible : Bindings[p].kind = "learned-provider"}
             Covered(p, by) == /\ \E q \in by : Bindings[q].architecture = Bindings[p].architecture
                               /\ \E q \in by : Bindings[q].objective = Bindings[p].objective
             Before(p)  == {q \in chosen : LearnedFirst(q, p)}
  <2>1. /\ selection.policy \in Policies
        /\ selection.selected \in Selections(selection.policy, Cases[selection.case])
    BY DEF RunsInv
  <2>2. max \in Nat /\ max > 0 /\ IsFiniteSet(compatible) /\ compatible \subseteq DOMAIN Bindings
    <3>1. max \in 1 .. 16
      BY <2>1, PoliciesAssumption
    <3>2. IsFiniteSet(compatible) /\ compatible \subseteq DOMAIN Bindings
      BY <2>1, CompatibleFinite
    <3> QED BY <3>1, <3>2
  <2>3. /\ chosen \subseteq compatible
        /\ selection.selected \in [1 .. Cardinality(chosen) -> chosen]
        /\ \A p \in compatible : p \in chosen <=> Cardinality(Before(p)) < max /\ Novel(p, Before(p))
    <3>1. PICK c \in Diverse(compatible, max) : selection.selected \in Arranged(c, LearnedFirst)
      BY <2>1 DEF Selections
    <3>2. chosen = c /\ selection.selected \in [1 .. Cardinality(c) -> c]
      BY <3>1 DEF Arranged
    <3>3. /\ c \subseteq compatible
          /\ \A p \in compatible :
               p \in c <=> /\ Cardinality({q \in c : LearnedFirst(q, p)}) < max
                           /\ Novel(p, {q \in c : LearnedFirst(q, p)})
      BY <3>1 DEF Diverse
    <3> QED BY <3>2, <3>3
  <2> HIDE DEF max, chosen, compatible
  <2>4. IsFiniteSet(chosen) /\ Cardinality(chosen) \in Nat
    BY <2>2, <2>3, FS_Subset, FS_CardinalityType
  <2>5. \A p : IsFiniteSet(Before(p)) /\ Cardinality(Before(p)) <= Cardinality(chosen)
               /\ Cardinality(Before(p)) \in Nat
    <3> SUFFICES ASSUME NEW p
                 PROVE  IsFiniteSet(Before(p)) /\ Cardinality(Before(p)) <= Cardinality(chosen)
                        /\ Cardinality(Before(p)) \in Nat
      OBVIOUS
    <3>1. Before(p) \in SUBSET chosen
      OBVIOUS
    <3> QED BY <2>4, <3>1, FS_Subset, FS_CardinalityType
  \* Whoever is not chosen though there is room adds nothing to those before.
  <2>6. ASSUME NEW p \in compatible, Cardinality(Before(p)) < max
        PROVE  p \in chosen \/ Covered(p, Before(p))
    BY <2>3, <2>6 DEF Novel
  <2>7. compatible # {} => chosen # {}
    <3> SUFFICES ASSUME NEW p \in compatible, chosen = {} PROVE FALSE
      OBVIOUS
    <3>1. Before(p) = {}
      OBVIOUS
    <3>2. Cardinality(Before(p)) < max
      <4>1. Cardinality({}) = 0
        BY FS_EmptySet
      <4>2. 0 < max
        BY <2>2
      <4> HIDE DEF Before
      <4>3. Cardinality(Before(p)) = 0
        BY <3>1, <4>1, Zenon
      <4> QED BY <4>2, <4>3
    <3> QED BY <2>6, <3>1, <3>2
  <2>8. ASSUME Len(selection.selected) < max, NEW p \in compatible
        PROVE  Covered(p, chosen)
    <3>1. Len(selection.selected) = Cardinality(chosen)
      BY <2>3, <2>4
    <3>2. Cardinality(Before(p)) < max
      <4> HIDE DEF Before
      <4>1. Cardinality(Before(p)) <= Cardinality(chosen) /\ Cardinality(Before(p)) \in Nat
        BY <2>5
      <4>2. Cardinality(chosen) < max
        BY <2>8, <3>1
      <4> QED BY <2>2, <2>4, <4>1, <4>2
    <3> QED BY <2>6, <3>2
  \* A baseline chosen had room after every learned provider.
  <2>9. ASSUME NEW b \in chosen, b \notin learned, NEW p \in learned
        PROVE  Covered(p, chosen \cap learned)
    <3>1. Bindings[b].kind = "baseline" /\ Bindings[p].kind = "learned-provider"
      BY <2>2, <2>3, <2>9, BindingsAssumption
    <3>2. \A q \in Before(p) : q \in learned /\ q \in Before(b)
      <4> SUFFICES ASSUME NEW q \in chosen, LearnedFirst(q, p)
                   PROVE  q \in learned /\ LearnedFirst(q, b)
        OBVIOUS
      <4>1. Bindings[q].kind = "learned-provider" /\ q \in compatible
        BY <2>2, <2>3, <3>1, BeforeLearned
      <4> QED BY <2>2, <2>3, <3>1, <4>1, LearnedComeFirst
    <3>3. Cardinality(Before(p)) < max
      <4>1. Cardinality(Before(b)) < max
        BY <2>3
      <4>2. Before(p) \in SUBSET Before(b)
        BY <3>2
      <4>3. Cardinality(Before(p)) <= Cardinality(Before(b))
        <5> HIDE DEF Before
        <5> QED BY <2>5, <4>2, FS_Subset
      <4> HIDE DEF Before
      <4>4. Cardinality(Before(p)) \in Nat /\ Cardinality(Before(b)) \in Nat
        BY <2>5
      <4>5. max \in Nat
        BY <2>2
      <4> HIDE DEF max
      <4> QED BY <4>1, <4>3, <4>4, <4>5
    <3>4. CASE p \in chosen
      BY <3>4
    <3>5. CASE Covered(p, Before(p))
      <4>1. Before(p) \subseteq chosen \cap learned
        BY <3>2
      <4> QED BY <3>5, <4>1
    <3> QED BY <2>6, <3>3, <3>4, <3>5
  <2> QED BY <2>3, <2>7, <2>8, <2>9 DEF chosen, compatible, max
<1> QED BY <1>1, RunsInvariant, PTL

-----------------------------------------------------------------------------
(* Measuring.                                                              *)

\* Of the runs of a provider on a case one is kept.
LEMMA KeptOnce ==
  ASSUME RunsInv, NEW r \in Kept, NEW s \in Kept, SameKey(r, s)
  PROVE  r = s
<1>1. DOMAIN runs = 1 .. Len(runs) /\ Len(runs) \in Nat
  BY DEF RunsInv
<1>2. PICK i \in DOMAIN runs : r = runs[i] /\ \A j \in 1 .. i - 1 : ~ SameKey(runs[j], runs[i])
  BY DEF Kept
<1>3. PICK k \in DOMAIN runs : s = runs[k] /\ \A j \in 1 .. k - 1 : ~ SameKey(runs[j], runs[k])
  BY DEF Kept
<1>4. SameKey(runs[i], runs[k]) /\ SameKey(runs[k], runs[i])
  BY <1>2, <1>3 DEF SameKey
<1>5. ~ (i \in 1 .. k - 1) /\ ~ (k \in 1 .. i - 1)
  BY <1>2, <1>3, <1>4
<1>6. i = k
  BY <1>1, <1>5
<1> QED BY <1>2, <1>3, <1>6

\* Those kept are finitely many runs that were made.
LEMMA KeptRuns ==
  ASSUME RunsInv
  PROVE  /\ IsFiniteSet(Kept) /\ Kept \subseteq Runs
         /\ \A r \in Kept : Consistent(r)
<1>1. DOMAIN runs = 1 .. Len(runs) /\ Len(runs) \in Nat /\ runs \in Seq(Runs)
  BY DEF RunsInv
<1> DEFINE all == {runs[i] : i \in 1 .. Len(runs)}
<1>2. runs \in Surjection(1 .. Len(runs), all)
  <2>1. runs \in [1 .. Len(runs) -> all]
    BY <1>1
  <2> QED BY <2>1 DEF Surjection
<1>3. IsFiniteSet(all)
  <2> HIDE DEF all
  <2>1. IsFiniteSet(1 .. Len(runs))
    BY <1>1, FS_Interval
  <2> QED BY <1>2, <2>1, FS_Surjection
<1>4. Kept \subseteq all
  BY <1>1 DEF Kept
<1>5. IsFiniteSet(Kept)
  <2> HIDE DEF all
  <2> QED BY <1>3, <1>4, FS_Subset
<1>6. \A r \in all : r \in Runs /\ Consistent(r)
  BY <1>1 DEF RunsInv
<1> QED BY <1>4, <1>5, <1>6

\* A kept run stays kept, and a run of a pair that was run before never is.
LEMMA KeptKept ==
  ASSUME RunsInv, NEW made \in Seq(Runs), runs' = runs \o made,
         {<<r.provider, r.case>> : r \in Kept}' = {<<r.provider, r.case>> : r \in Kept}
  PROVE  Kept' = Kept
<1>1. /\ DOMAIN runs = 1 .. Len(runs) /\ Len(runs) \in Nat /\ runs \in Seq(Runs)
      /\ Len(made) \in Nat
  BY DEF RunsInv
<1>2. /\ DOMAIN runs' = 1 .. Len(runs) + Len(made)
      /\ \A i \in 1 .. Len(runs) : runs'[i] = runs[i]
  BY <1>1, Concatenated
<1>3. ASSUME NEW r \in Kept PROVE r \in Kept'
  <2>1. PICK i \in 1 .. Len(runs) : r = runs[i] /\ \A j \in 1 .. i - 1 : ~ SameKey(runs[j], runs[i])
    BY <1>1 DEF Kept
  <2>2. i \in DOMAIN runs' /\ runs'[i] = r /\ \A j \in 1 .. i - 1 : runs'[j] = runs[j]
    BY <1>1, <1>2, <2>1
  <2>3. \A j \in 1 .. i - 1 : ~ SameKey(runs'[j], runs'[i])
    BY <2>1, <2>2
  <2> QED BY <2>2, <2>3 DEF Kept, SameKey
<1>4. ASSUME NEW r \in Kept' PROVE r \in Kept
  <2>1. PICK i \in 1 .. Len(runs) + Len(made) :
          r = runs'[i] /\ \A j \in 1 .. i - 1 : ~ SameKey(runs'[j], runs'[i])
    BY <1>2, <1>4 DEF Kept, SameKey
  <2>2. CASE i \in 1 .. Len(runs)
    <3>1. runs'[i] = runs[i] /\ \A j \in 1 .. i - 1 : runs'[j] = runs[j]
      BY <1>1, <1>2, <2>2
    <3>2. \A j \in 1 .. i - 1 : ~ SameKey(runs[j], runs[i])
      BY <2>1, <3>1
    <3> QED BY <1>1, <2>1, <2>2, <3>1, <3>2 DEF Kept
  <2>3. CASE i \notin 1 .. Len(runs)
    <3>1. <<r.provider, r.case>> \in {<<q.provider, q.case>> : q \in Kept}
      <4>1. <<r.provider, r.case>> \in {<<q.provider, q.case>> : q \in Kept}'
        BY <1>4
      <4> QED BY <4>1
    <3>2. PICK s \in Kept : s.provider = r.provider /\ s.case = r.case
      BY <3>1
    <3>3. PICK k \in 1 .. Len(runs) : s = runs[k]
      BY <1>1, <3>2 DEF Kept
    <3>4. k \in 1 .. i - 1 /\ runs'[k] = s
      BY <1>1, <1>2, <2>3, <3>3
    <3> QED BY <2>1, <3>2, <3>4 DEF SameKey
  <2> QED BY <2>2, <2>3
<1> QED BY <1>3, <1>4

\* Metrics and comparisons look at nothing but the runs kept (setdefault in quality_metrics and
\* compare_provider_runs), so that running again what was run changes none of them.
THEOREM RerunsAreIgnored == Spec => RerunsChangeNothing
<1>1. ASSUME RunsInv, [Next]_vars,
             {<<r.provider, r.case>> : r \in Kept}' = {<<r.provider, r.case>> : r \in Kept}
      PROVE  Kept' = Kept
  <2>1. ASSUME NEW policy \in Policies, NEW c \in DOMAIN Cases, Study(policy, c)
        PROVE  Kept' = Kept
    <3>1. PICK made \in Seq(Runs) : runs' = runs \o made
      BY <1>1, <2>1, StudyAppends
    <3> QED BY <1>1, <3>1, KeptKept
  <2>2. CASE runs' = runs
    BY <2>2 DEF Kept, SameKey
  <2> QED BY <1>1, <2>1, <2>2 DEF Next, Manage, vars
<1>2. ASSUME Kept' = Kept, NEW p PROVE Quality(p)' = Quality(p)
  BY <1>2 DEF Quality, Labeled, Wrong
<1>3. ASSUME Kept' = Kept, NEW a, NEW b PROVE Comparison(a, b)' = Comparison(a, b)
  BY <1>3 DEF Comparison, Labeled, Wrong
<1>4. RunsInv /\ [Next]_vars =>
        [ {<<r.provider, r.case>> : r \in Kept}' = {<<r.provider, r.case>> : r \in Kept} =>
            /\ \A p \in Measured : Quality(p)' = Quality(p)
            /\ \A a, b \in Measured : a < b => Comparison(a, b)' = Comparison(a, b) ]_runs
  BY <1>1, <1>2, <1>3
<1> QED BY <1>4, RunsInvariant, PTL DEF Spec, RerunsChangeNothing

-----------------------------------------------------------------------------
(* Counting.                                                               *)

\* Two finite sets that share nothing, one inside another, one beside another.
LEMMA CountApart ==
  ASSUME NEW S, IsFiniteSet(S), NEW T, IsFiniteSet(T), \A x \in S : x \notin T
  PROVE  /\ IsFiniteSet(S \cup T)
         /\ Cardinality(S \cup T) = Cardinality(S) + Cardinality(T)
         /\ Cardinality(S) \in Nat /\ Cardinality(T) \in Nat
<1>1. S \cap T = {}
  OBVIOUS
<1>2. Cardinality(S \cap T) = 0
  BY <1>1, FS_EmptySet
<1>3. Cardinality(S \cup T) = Cardinality(S) + Cardinality(T) - Cardinality(S \cap T)
  BY FS_Union
<1>4. IsFiniteSet(S \cup T) /\ Cardinality(S) \in Nat /\ Cardinality(T) \in Nat
  BY FS_Union, FS_CardinalityType
<1> QED BY <1>2, <1>3, <1>4

\* A part of a finite set is finite and counts no more.
LEMMA CountWithin ==
  ASSUME NEW S, IsFiniteSet(S), NEW T, \A x \in T : x \in S
  PROVE  /\ IsFiniteSet(T) /\ Cardinality(T) \in Nat /\ Cardinality(S) \in Nat
         /\ Cardinality(T) <= Cardinality(S)
<1>1. T \in SUBSET S
  OBVIOUS
<1> QED BY <1>1, FS_Subset, FS_CardinalityType

\* Two finite sets together count no more than their sum.
LEMMA CountJoined ==
  ASSUME NEW S, IsFiniteSet(S), NEW T, IsFiniteSet(T)
  PROVE  /\ IsFiniteSet(S \cup T)
         /\ Cardinality(S \cup T) <= Cardinality(S) + Cardinality(T)
         /\ Cardinality(S) \in Nat /\ Cardinality(T) \in Nat /\ Cardinality(S \cup T) \in Nat
<1>1. /\ IsFiniteSet(S \cup T)
      /\ Cardinality(S \cup T) = Cardinality(S) + Cardinality(T) - Cardinality(S \cap T)
  BY FS_Union
<1>2. IsFiniteSet(S \cap T)
  BY FS_Intersection
<1>3. /\ Cardinality(S) \in Nat /\ Cardinality(T) \in Nat
      /\ Cardinality(S \cup T) \in Nat /\ Cardinality(S \cap T) \in Nat
  BY <1>1, <1>2, FS_CardinalityType
<1> QED BY <1>1, <1>3

\* The runs of a provider, by status, by flag and by what they are worth.
Mine(p) == {r \in Kept : r.provider = p}
OfStatus(p, status) == {r \in Mine(p) : r.status = status}
Flagged(p) == {r \in Mine(p) : r.ood}
FlaggedRight(p) == {r \in Mine(p) : r.ood /\ Cases[r.case].ood}
FlaggedWrong(p) == {r \in Mine(p) : r.ood /\ ~ Cases[r.case].ood}
JudgedRuns(p) == {r \in Mine(p) : Labeled(r)}
RightRuns(p) == {r \in Mine(p) : Labeled(r) /\ ~ Wrong(r)}
WrongRuns(p) == {r \in Mine(p) : Labeled(r) /\ Wrong(r)}
UsefulRuns(p) == {r \in Mine(p) : r.useful = "yes"}

\* What quality_metrics counts.
LEMMA QualityCounts ==
  ASSUME NEW p
  PROVE  /\ Quality(p).total = Cardinality(Mine(p))
         /\ Quality(p).completed = Cardinality(OfStatus(p, "completed"))
         /\ Quality(p).abstentions = Cardinality(OfStatus(p, "abstained"))
         /\ Quality(p).malformed = Cardinality(OfStatus(p, "malformed-input"))
         /\ Quality(p).errors = Cardinality(OfStatus(p, "runtime-error"))
         /\ Quality(p).ood = Cardinality(Flagged(p))
         /\ Quality(p).correct_ood = Cardinality(FlaggedRight(p))
         /\ Quality(p).false_ood = Cardinality(FlaggedWrong(p))
         /\ Quality(p).labeled = Cardinality(JudgedRuns(p))
         /\ Quality(p).correct = Cardinality(RightRuns(p))
         /\ Quality(p).useful = Cardinality(UsefulRuns(p))
<1> DEFINE expected == {r \in Mine(p) : Cases[r.case].ood}
<1>1. FlaggedRight(p) = {r \in Mine(p) : r.ood /\ r \in expected}
  BY DEF FlaggedRight
<1>2. FlaggedWrong(p) = {r \in Mine(p) : r.ood /\ r \notin expected}
  BY DEF FlaggedWrong
<1>3. /\ Quality(p).total = Cardinality(Mine(p))
      /\ Quality(p).completed = Cardinality(OfStatus(p, "completed"))
      /\ Quality(p).abstentions = Cardinality(OfStatus(p, "abstained"))
      /\ Quality(p).malformed = Cardinality(OfStatus(p, "malformed-input"))
      /\ Quality(p).errors = Cardinality(OfStatus(p, "runtime-error"))
      /\ Quality(p).ood = Cardinality(Flagged(p))
  BY DEF Quality, Mine, OfStatus, Flagged
<1>4. /\ Quality(p).correct_ood = Cardinality({r \in Mine(p) : r.ood /\ r \in expected})
      /\ Quality(p).false_ood = Cardinality({r \in Mine(p) : r.ood /\ r \notin expected})
  BY DEF Quality, Mine
<1>5. /\ Quality(p).labeled = Cardinality(JudgedRuns(p))
      /\ Quality(p).correct = Cardinality(RightRuns(p))
      /\ Quality(p).useful = Cardinality(UsefulRuns(p))
  BY DEF Quality, Mine, JudgedRuns, RightRuns, UsefulRuns
<1> QED BY <1>1, <1>2, <1>3, <1>4, <1>5

\* The counts of one provider fit together.
LEMMA CountsOfOne ==
  ASSUME RunsInv, NEW p
  PROVE  LET q == Quality(p) IN
         /\ q.completed + q.abstentions + q.malformed + q.errors <= q.total
         /\ q.total <= q.completed + q.abstentions + q.malformed + q.errors + q.ood
         /\ q.correct_ood + q.false_ood = q.ood
         /\ q.useful <= q.correct /\ q.correct <= q.labeled /\ q.labeled <= q.completed
<1> DEFINE M == Mine(p)
           C == OfStatus(p, "completed")
           A == OfStatus(p, "abstained")
           X == OfStatus(p, "malformed-input")
           E == OfStatus(p, "runtime-error")
           O == Flagged(p)
<1>1. /\ IsFiniteSet(M) /\ Cardinality(M) \in Nat
      /\ \A r \in M : r.status \in RunStatus /\ Consistent(r)
  <2>1. IsFiniteSet(Kept) /\ \A r \in M : r \in Kept
    BY KeptRuns DEF Mine
  <2>2. \A r \in M : r \in Runs /\ Consistent(r)
    BY <2>1, KeptRuns
  <2>3. \A r \in Runs : r.status \in RunStatus
    BY DEF Runs
  <2> HIDE DEF M
  <2> QED BY <2>1, <2>2, <2>3, CountWithin
<1>2. /\ \A r : r \in C <=> r \in M /\ r.status = "completed"
      /\ \A r : r \in A <=> r \in M /\ r.status = "abstained"
      /\ \A r : r \in X <=> r \in M /\ r.status = "malformed-input"
      /\ \A r : r \in E <=> r \in M /\ r.status = "runtime-error"
      /\ \A r : r \in O <=> r \in M /\ r.ood
  BY DEF OfStatus, Flagged
<1> HIDE DEF M, C, A, X, E, O
<1>3. IsFiniteSet(C) /\ IsFiniteSet(A) /\ IsFiniteSet(X) /\ IsFiniteSet(E) /\ IsFiniteSet(O)
  BY <1>1, <1>2, CountWithin
<1>4. /\ IsFiniteSet(C \cup A) /\ Cardinality(C \cup A) = Cardinality(C) + Cardinality(A)
      /\ Cardinality(C) \in Nat /\ Cardinality(A) \in Nat
  BY <1>2, <1>3, CountApart
<1>5. /\ IsFiniteSet((C \cup A) \cup X)
      /\ Cardinality((C \cup A) \cup X) = Cardinality(C \cup A) + Cardinality(X)
      /\ Cardinality(X) \in Nat
  <2>1. \A r \in C \cup A : r \notin X
    BY <1>2
  <2> QED BY <1>3, <1>4, <2>1, CountApart
<1>6. /\ IsFiniteSet(((C \cup A) \cup X) \cup E)
      /\ Cardinality(((C \cup A) \cup X) \cup E) = Cardinality((C \cup A) \cup X) + Cardinality(E)
      /\ Cardinality(E) \in Nat
  <2>1. \A r \in (C \cup A) \cup X : r \notin E
    BY <1>2
  <2> QED BY <1>3, <1>5, <2>1, CountApart
<1>7. Cardinality(((C \cup A) \cup X) \cup E) <= Cardinality(M)
  <2>1. \A r \in ((C \cup A) \cup X) \cup E : r \in M
    BY <1>2
  <2> QED BY <1>1, <2>1, CountWithin
<1>8. /\ Cardinality(M) <= Cardinality(((C \cup A) \cup X) \cup E) + Cardinality(O)
      /\ Cardinality(O) \in Nat
  <2> DEFINE S == ((C \cup A) \cup X) \cup E
  <2>1. \A r \in M : r \in S \cup O
    BY <1>1, <1>2 DEF RunStatus, Consistent
  <2>2. IsFiniteSet(S)
    BY <1>6
  <2> HIDE DEF S
  <2>3. /\ IsFiniteSet(S \cup O) /\ Cardinality(S \cup O) <= Cardinality(S) + Cardinality(O)
        /\ Cardinality(S) \in Nat /\ Cardinality(O) \in Nat /\ Cardinality(S \cup O) \in Nat
    BY <1>3, <2>2, CountJoined
  <2>4. Cardinality(M) <= Cardinality(S \cup O)
    BY <2>1, <2>3, CountWithin
  <2>5. Cardinality(M) <= Cardinality(S) + Cardinality(O)
    BY <1>1, <2>3, <2>4
  <2> QED BY <2>3, <2>5 DEF S
<1>9. Cardinality(FlaggedRight(p)) + Cardinality(FlaggedWrong(p)) = Cardinality(O)
  <2>1. /\ \A r : r \in FlaggedRight(p) <=> r \in O /\ Cases[r.case].ood
        /\ \A r : r \in FlaggedWrong(p) <=> r \in O /\ ~ Cases[r.case].ood
    BY DEF FlaggedRight, FlaggedWrong, Flagged, O
  <2>2. FlaggedRight(p) \cup FlaggedWrong(p) = O
    BY <2>1
  <2>3. IsFiniteSet(FlaggedRight(p)) /\ IsFiniteSet(FlaggedWrong(p))
    BY <1>3, <2>1, CountWithin
  <2>4. Cardinality(FlaggedRight(p) \cup FlaggedWrong(p))
          = Cardinality(FlaggedRight(p)) + Cardinality(FlaggedWrong(p))
    BY <2>1, <2>3, CountApart
  <2> QED BY <2>2, <2>4
<1>10. /\ Cardinality(UsefulRuns(p)) <= Cardinality(RightRuns(p))
       /\ Cardinality(RightRuns(p)) <= Cardinality(JudgedRuns(p))
       /\ Cardinality(JudgedRuns(p)) <= Cardinality(C)
  <2>1. \A r \in JudgedRuns(p) : r \in C
    BY <1>2 DEF JudgedRuns, Labeled, M
  <2>2. \A r \in RightRuns(p) : r \in JudgedRuns(p)
    BY DEF RightRuns, JudgedRuns
  <2>3. \A r \in UsefulRuns(p) : r \in RightRuns(p)
    BY <1>1 DEF UsefulRuns, RightRuns, Consistent, M
  <2>4. IsFiniteSet(JudgedRuns(p)) /\ Cardinality(JudgedRuns(p)) <= Cardinality(C)
    BY <1>3, <2>1, CountWithin
  <2>5. IsFiniteSet(RightRuns(p)) /\ Cardinality(RightRuns(p)) <= Cardinality(JudgedRuns(p))
    BY <2>2, <2>4, CountWithin
  <2> QED BY <2>3, <2>4, <2>5, CountWithin
<1>11. /\ Quality(p).total = Cardinality(M)
       /\ Quality(p).completed = Cardinality(C) /\ Quality(p).abstentions = Cardinality(A)
       /\ Quality(p).malformed = Cardinality(X) /\ Quality(p).errors = Cardinality(E)
       /\ Quality(p).ood = Cardinality(O)
       /\ Quality(p).correct_ood = Cardinality(FlaggedRight(p))
       /\ Quality(p).false_ood = Cardinality(FlaggedWrong(p))
       /\ Quality(p).labeled = Cardinality(JudgedRuns(p))
       /\ Quality(p).correct = Cardinality(RightRuns(p))
       /\ Quality(p).useful = Cardinality(UsefulRuns(p))
  BY QualityCounts DEF M, C, A, X, E, O
<1>12. Cardinality(((C \cup A) \cup X) \cup E)
         = Cardinality(C) + Cardinality(A) + Cardinality(X) + Cardinality(E)
  BY <1>4, <1>5, <1>6
<1> QED BY <1>7, <1>8, <1>9, <1>10, <1>11, <1>12

\* The cases two providers have both run, as the pairs of their kept runs.
Pairs(a, b) ==
  {pair \in Kept \X Kept : pair[1].provider = a /\ pair[2].provider = b /\ pair[1].case = pair[2].case}

Alike(pair) == pair[1].status = pair[2].status /\ pair[1].label = pair[2].label
BothJudged(pair) == Labeled(pair[1]) /\ Labeled(pair[2])

Agreements(a, b) == {pair \in Pairs(a, b) : Alike(pair)}
Disagreements(a, b) == {pair \in Pairs(a, b) : ~ Alike(pair)}
FirstFails(a, b) == {pair \in Pairs(a, b) : BothJudged(pair) /\ Wrong(pair[1])}
SecondFails(a, b) == {pair \in Pairs(a, b) : BothJudged(pair) /\ Wrong(pair[2])}
JudgedPairs(a, b) == {pair \in Pairs(a, b) : BothJudged(pair)}
Unjudged(a, b) == {pair \in Pairs(a, b) : ~ BothJudged(pair)}

\* What compare_provider_runs counts.
LEMMA ComparisonCounts ==
  ASSUME NEW a, NEW b
  PROVE  /\ Comparison(a, b).compared = Cardinality(Pairs(a, b))
         /\ Comparison(a, b).agreements = Cardinality(Agreements(a, b))
         /\ Comparison(a, b).disagreements = Cardinality(Disagreements(a, b))
         /\ Comparison(a, b).joint_failures = Cardinality(FirstFails(a, b) \cap SecondFails(a, b))
         /\ Comparison(a, b).any_failures = Cardinality(FirstFails(a, b) \cup SecondFails(a, b))
         /\ Comparison(a, b).judged = Cardinality(JudgedPairs(a, b))
         /\ Comparison(a, b).failures_a = Cardinality(FirstFails(a, b))
         /\ Comparison(a, b).failures_b = Cardinality(SecondFails(a, b))
<1>1. /\ Comparison(a, b).compared = Cardinality(Pairs(a, b))
      /\ Comparison(a, b).agreements = Cardinality(Agreements(a, b))
      /\ Comparison(a, b).disagreements = Cardinality(Disagreements(a, b))
  BY DEF Comparison, Pairs, Agreements, Disagreements, Alike
<1> DEFINE joint == {pair \in Pairs(a, b) : BothJudged(pair) /\ Wrong(pair[1]) /\ Wrong(pair[2])}
           any   == {pair \in Pairs(a, b) : BothJudged(pair) /\ (Wrong(pair[1]) \/ Wrong(pair[2]))}
<1>2. /\ Comparison(a, b).joint_failures = Cardinality(joint)
      /\ Comparison(a, b).any_failures = Cardinality(any)
  BY DEF Comparison, Pairs, BothJudged
<1>3. joint = FirstFails(a, b) \cap SecondFails(a, b)
  BY DEF FirstFails, SecondFails
<1>4. any = FirstFails(a, b) \cup SecondFails(a, b)
  BY DEF FirstFails, SecondFails
<1>5. /\ Comparison(a, b).judged = Cardinality(JudgedPairs(a, b))
      /\ Comparison(a, b).failures_a = Cardinality(FirstFails(a, b))
      /\ Comparison(a, b).failures_b = Cardinality(SecondFails(a, b))
  BY DEF Comparison, Pairs, BothJudged, JudgedPairs, FirstFails, SecondFails
<1> QED BY <1>1, <1>2, <1>3, <1>4, <1>5

\* No more pairs fail by a provider than it has wrong runs: its run tells the pair.
LEMMA FailuresAreItsOwn ==
  ASSUME RunsInv, NEW a, NEW b
  PROVE  /\ Cardinality(FirstFails(a, b)) <= Cardinality(WrongRuns(a))
         /\ Cardinality(SecondFails(a, b)) <= Cardinality(WrongRuns(b))
         /\ IsFiniteSet(FirstFails(a, b)) /\ IsFiniteSet(SecondFails(a, b))
         /\ IsFiniteSet(WrongRuns(a)) /\ IsFiniteSet(WrongRuns(b))
<1>1. IsFiniteSet(Kept)
  BY KeptRuns
<1>2. IsFiniteSet(WrongRuns(a)) /\ IsFiniteSet(WrongRuns(b))
  <2>1. \A p : \A r \in WrongRuns(p) : r \in Kept
    BY DEF WrongRuns, Mine
  <2> QED BY <1>1, <2>1, CountWithin
<1>3. ASSUME NEW x \in Pairs(a, b), NEW y \in Pairs(a, b), x[1] = y[1] \/ x[2] = y[2]
      PROVE  x = y
  <2>1. /\ x = <<x[1], x[2]>> /\ y = <<y[1], y[2]>>
        /\ x[1] \in Kept /\ x[2] \in Kept /\ y[1] \in Kept /\ y[2] \in Kept
        /\ x[1].provider = a /\ x[2].provider = b /\ y[1].provider = a /\ y[2].provider = b
        /\ x[1].case = x[2].case /\ y[1].case = y[2].case
    BY DEF Pairs
  <2>2. SameKey(x[1], y[1]) /\ SameKey(x[2], y[2])
    BY <1>3, <2>1 DEF SameKey
  <2>3. x[1] = y[1] /\ x[2] = y[2]
    BY <2>1, <2>2, KeptOnce
  <2> QED BY <2>1, <2>3
<1>4. /\ \A x \in FirstFails(a, b) : x \in Pairs(a, b) /\ x[1] \in WrongRuns(a)
      /\ \A x \in SecondFails(a, b) : x \in Pairs(a, b) /\ x[2] \in WrongRuns(b)
  BY DEF FirstFails, SecondFails, Pairs, WrongRuns, Mine, BothJudged
<1> DEFINE f == [x \in FirstFails(a, b) |-> x[1]]
           g == [x \in SecondFails(a, b) |-> x[2]]
<1>5. f \in Injection(FirstFails(a, b), WrongRuns(a))
  <2>1. f \in [FirstFails(a, b) -> WrongRuns(a)]
    BY <1>4
  <2>2. \A x, y \in FirstFails(a, b) : f[x] = f[y] => x = y
    BY <1>3, <1>4
  <2> HIDE DEF f
  <2> QED BY <2>1, <2>2 DEF Injection, IsInjective
<1>6. g \in Injection(SecondFails(a, b), WrongRuns(b))
  <2>1. g \in [SecondFails(a, b) -> WrongRuns(b)]
    BY <1>4
  <2>2. \A x, y \in SecondFails(a, b) : g[x] = g[y] => x = y
    BY <1>3, <1>4
  <2> HIDE DEF g
  <2> QED BY <2>1, <2>2 DEF Injection, IsInjective
<1> HIDE DEF f, g
<1>7. IsFiniteSet(FirstFails(a, b)) /\ Cardinality(FirstFails(a, b)) <= Cardinality(WrongRuns(a))
  BY <1>2, <1>5, FS_Injection
<1>8. IsFiniteSet(SecondFails(a, b)) /\ Cardinality(SecondFails(a, b)) <= Cardinality(WrongRuns(b))
  BY <1>2, <1>6, FS_Injection
<1> QED BY <1>2, <1>7, <1>8

\* Its wrong runs are those judged that are not right.
LEMMA WrongIsTheRest ==
  ASSUME RunsInv, NEW p
  PROVE  /\ Quality(p).labeled - Quality(p).correct = Cardinality(WrongRuns(p))
         /\ Quality(p).labeled \in Nat /\ Quality(p).correct \in Nat
<1>1. /\ \A r \in RightRuns(p) : r \in Kept /\ r \notin WrongRuns(p)
      /\ \A r \in WrongRuns(p) : r \in Kept
      /\ RightRuns(p) \cup WrongRuns(p) = JudgedRuns(p)
  BY DEF RightRuns, WrongRuns, JudgedRuns, Mine
<1>2. IsFiniteSet(Kept)
  BY KeptRuns
<1>3. IsFiniteSet(RightRuns(p)) /\ IsFiniteSet(WrongRuns(p))
  BY <1>1, <1>2, CountWithin
<1>4. /\ Cardinality(RightRuns(p) \cup WrongRuns(p))
           = Cardinality(RightRuns(p)) + Cardinality(WrongRuns(p))
      /\ Cardinality(RightRuns(p)) \in Nat /\ Cardinality(WrongRuns(p)) \in Nat
  BY <1>1, <1>3, CountApart
<1>5. Quality(p).labeled = Cardinality(JudgedRuns(p)) /\ Quality(p).correct = Cardinality(RightRuns(p))
  BY QualityCounts
<1>6. Cardinality(JudgedRuns(p)) = Cardinality(RightRuns(p)) + Cardinality(WrongRuns(p))
  BY <1>1, <1>4, Zenon
<1>7. Quality(p).labeled = Cardinality(RightRuns(p)) + Cardinality(WrongRuns(p))
  BY <1>5, <1>6, Zenon
<1> QED
  <2> HIDE DEF RightRuns, WrongRuns
  <2> QED BY <1>4, <1>5, <1>7

\* The counts of two providers fit their comparison.
LEMMA CountsOfTwo ==
  ASSUME RunsInv, NEW a, NEW b
  PROVE  LET k == Comparison(a, b) IN
         /\ k.agreements + k.disagreements = k.compared
         /\ k.joint_failures <= k.any_failures
         /\ k.failures_a <= Quality(a).labeled - Quality(a).correct
         /\ k.failures_b <= Quality(b).labeled - Quality(b).correct
         /\ k.any_failures + k.joint_failures = k.failures_a + k.failures_b
         /\ k.any_failures - k.joint_failures <= k.disagreements
         /\ k.disagreements <= k.any_failures - k.joint_failures + k.compared - k.judged
<1> DEFINE F == FirstFails(a, b)
           S == SecondFails(a, b)
           D == Disagreements(a, b)
           J == JudgedPairs(a, b)
           U == Unjudged(a, b)
           Alone == (F \cup S) \ (F \cap S)
<1>1. IsFiniteSet(Pairs(a, b))
  <2>1. IsFiniteSet(Kept \X Kept)
    BY KeptRuns, FS_Product
  <2>2. \A x \in Pairs(a, b) : x \in Kept \X Kept
    BY DEF Pairs
  <2> QED BY <2>1, <2>2, CountWithin
<1>2. Cardinality(Agreements(a, b)) + Cardinality(D) = Cardinality(Pairs(a, b))
  <2>1. /\ \A x \in Agreements(a, b) : x \in Pairs(a, b) /\ x \notin D
        /\ \A x \in D : x \in Pairs(a, b)
        /\ Agreements(a, b) \cup D = Pairs(a, b)
    BY DEF Agreements, Disagreements
  <2>2. IsFiniteSet(Agreements(a, b)) /\ IsFiniteSet(D)
    BY <1>1, <2>1, CountWithin
  <2> HIDE DEF D
  <2> QED BY <2>1, <2>2, CountApart
<1>3. /\ IsFiniteSet(F) /\ IsFiniteSet(S) /\ IsFiniteSet(D) /\ IsFiniteSet(F \cap S)
      /\ Cardinality(F) \in Nat /\ Cardinality(S) \in Nat /\ Cardinality(D) \in Nat
      /\ Cardinality(F \cap S) \in Nat
      /\ Cardinality(F \cup S) = Cardinality(F) + Cardinality(S) - Cardinality(F \cap S)
      /\ Cardinality(F \cup S) \in Nat
      /\ Cardinality(F \cap S) <= Cardinality(F \cup S)
  <2>1. \A x \in D : x \in Pairs(a, b)
    BY DEF Disagreements
  <2>2. IsFiniteSet(F) /\ IsFiniteSet(S) /\ IsFiniteSet(D)
    BY <1>1, <2>1, FailuresAreItsOwn, CountWithin
  <2> HIDE DEF F, S, D
  <2>3. /\ IsFiniteSet(F \cup S)
        /\ Cardinality(F \cup S) = Cardinality(F) + Cardinality(S) - Cardinality(F \cap S)
    BY <2>2, FS_Union
  <2>4. \A x \in F \cap S : x \in F \cup S
    OBVIOUS
  <2>5. /\ IsFiniteSet(F \cap S) /\ Cardinality(F \cap S) <= Cardinality(F \cup S)
    BY <2>3, <2>4, CountWithin
  <2> QED BY <2>2, <2>3, <2>5, FS_CardinalityType
\* A pair that one of the two fails has two labels.
<1>4. Cardinality(F \cup S) <= Cardinality(F \cap S) + Cardinality(D)
  <2>1. \A x \in F \cup S : x \in (F \cap S) \cup D
    <3> SUFFICES ASSUME NEW x \in Pairs(a, b), BothJudged(x), Wrong(x[1]) \/ Wrong(x[2])
                 PROVE  (Wrong(x[1]) /\ Wrong(x[2])) \/ ~ Alike(x)
      BY DEF FirstFails, SecondFails, Disagreements
    <3>1. x[1].case = x[2].case
      BY DEF Pairs
    <3> QED BY <3>1 DEF BothJudged, Wrong, Alike
  <2> HIDE DEF F, S, D
  <2>2. /\ IsFiniteSet((F \cap S) \cup D)
        /\ Cardinality((F \cap S) \cup D) <= Cardinality(F \cap S) + Cardinality(D)
        /\ Cardinality((F \cap S) \cup D) \in Nat
    BY <1>3, CountJoined
  <2>3. Cardinality(F \cup S) <= Cardinality((F \cap S) \cup D)
    BY <2>1, <2>2, CountWithin
  <2> QED BY <1>3, <2>2, <2>3
\* Two that are judged alike of one case and have two labels: one of them is wrong, one right.
<1>8. \A x \in D : x \in Alone \cup U
  <2> SUFFICES ASSUME NEW x \in Pairs(a, b), BothJudged(x), ~ Alike(x)
               PROVE  \/ Wrong(x[1]) /\ ~ Wrong(x[2])
                      \/ Wrong(x[2]) /\ ~ Wrong(x[1])
    BY DEF FirstFails, SecondFails, Disagreements, Unjudged
  <2>1. x[1] \in Runs /\ x[2] \in Runs /\ x[1].case = x[2].case
    BY KeptRuns DEF Pairs
  <2>2. Cases[x[1].case].label \in Label /\ x[1].label \in Label /\ x[2].label \in Label
    BY <2>1, CasesAssumption DEF BothJudged, Labeled, Runs
  <2>3. x[1].status = x[2].status /\ x[1].label # x[2].label
    BY DEF BothJudged, Labeled, Alike
  <2> QED BY <2>1, <2>2, <2>3 DEF Wrong, BothJudged, Label
<1>9. /\ Cardinality(Alone) + Cardinality(F \cap S) = Cardinality(F \cup S)
      /\ IsFiniteSet(Alone) /\ Cardinality(Alone) \in Nat
  <2>1. IsFiniteSet(F \cup S) /\ \A x \in Alone : x \in F \cup S
    BY <1>3, FS_Union
  <2>2. IsFiniteSet(Alone)
    BY <2>1, CountWithin
  <2>3. Alone \cup (F \cap S) = F \cup S /\ \A x \in Alone : x \notin F \cap S
    OBVIOUS
  <2> HIDE DEF Alone
  <2>4. /\ Cardinality(Alone \cup (F \cap S)) = Cardinality(Alone) + Cardinality(F \cap S)
        /\ Cardinality(Alone) \in Nat
    BY <1>3, <2>2, <2>3, CountApart
  <2> QED BY <2>2, <2>3, <2>4
<1>10. /\ Cardinality(J) + Cardinality(U) = Cardinality(Pairs(a, b))
       /\ IsFiniteSet(U) /\ Cardinality(J) \in Nat /\ Cardinality(U) \in Nat
  <2>1. /\ \A x \in J : x \in Pairs(a, b) /\ x \notin U
        /\ \A x \in U : x \in Pairs(a, b)
        /\ J \cup U = Pairs(a, b)
    BY DEF JudgedPairs, Unjudged
  <2>2. IsFiniteSet(J) /\ IsFiniteSet(U)
    BY <1>1, <2>1, CountWithin
  <2> HIDE DEF J, U
  <2> QED BY <2>1, <2>2, CountApart
<1>11. Cardinality(D) <= Cardinality(Alone) + Cardinality(U)
  <2> HIDE DEF Alone, U, D
  <2>1. /\ IsFiniteSet(Alone \cup U)
        /\ Cardinality(Alone \cup U) <= Cardinality(Alone) + Cardinality(U)
        /\ Cardinality(Alone \cup U) \in Nat
    BY <1>9, <1>10, CountJoined
  <2>2. Cardinality(D) <= Cardinality(Alone \cup U)
    BY <1>8, <2>1, CountWithin
  <2> QED BY <1>3, <1>9, <1>10, <2>1, <2>2
<1>5. /\ Cardinality(F) <= Quality(a).labeled - Quality(a).correct
      /\ Cardinality(S) <= Quality(b).labeled - Quality(b).correct
  BY FailuresAreItsOwn, WrongIsTheRest
<1>6. /\ Quality(a).labeled \in Nat /\ Quality(a).correct \in Nat
      /\ Quality(b).labeled \in Nat /\ Quality(b).correct \in Nat
  BY WrongIsTheRest
<1>7. /\ Comparison(a, b).compared = Cardinality(Pairs(a, b))
      /\ Comparison(a, b).agreements = Cardinality(Agreements(a, b))
      /\ Comparison(a, b).disagreements = Cardinality(D)
      /\ Comparison(a, b).joint_failures = Cardinality(F \cap S)
      /\ Comparison(a, b).any_failures = Cardinality(F \cup S)
      /\ Comparison(a, b).judged = Cardinality(J)
      /\ Comparison(a, b).failures_a = Cardinality(F)
      /\ Comparison(a, b).failures_b = Cardinality(S)
  BY ComparisonCounts
<1> HIDE DEF F, S, D, J, U, Alone
<1>12. /\ Cardinality(F \cup S) + Cardinality(F \cap S) = Cardinality(F) + Cardinality(S)
       /\ Cardinality(F \cup S) - Cardinality(F \cap S) <= Cardinality(D)
       /\ Cardinality(D) <= Cardinality(F \cup S) - Cardinality(F \cap S)
                              + Cardinality(Pairs(a, b)) - Cardinality(J)
  BY <1>3, <1>4, <1>9, <1>10, <1>11
<1> QED BY <1>2, <1>3, <1>5, <1>6, <1>7, <1>12

\* The counts of every provider and of every two fit together, for any runs of any study
\* (quality_metrics, compare_provider_runs).
THEOREM CountsFitTogether == Spec => []CountsFit
<1>1. RunsInv => CountsFit
  BY CountsOfOne, CountsOfTwo DEF CountsFit
<1> QED BY <1>1, RunsInvariant, PTL
=============================================================================
