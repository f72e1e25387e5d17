--------------------- MODULE ExperimentCoordinatorProofs ---------------------
(***************************************************************************)
(* For any experiments, requests and bounds: a process that is never       *)
(* restarted follows the lifecycle, and the runs it plans for an           *)
(* experiment record one episode at most, whatever is called again after   *)
(* whatever failure and whatever the observations name; memory             *)
(* and ledger part by one transition at most, and for good; and behind a   *)
(* principle stand the episode and the evaluation of its own run.          *)
(***************************************************************************)
EXTENDS ExperimentCoordinator, FiniteSetTheorems, WellFoundedInduction, TLAPS

Episode == "experience-episode"

\* States an experiment may be in before anything of it is observed.
Early == {"DRAFT", "PREREGISTERED"}

\* Where run() stands tells the state it has reached and the sources it holds.
StateAtPoint ==
  /\ at = "begin" => state[request.experiment] = "PREREGISTERED"
  /\ at = "episode" => state[request.experiment] = "RUNNING"
  /\ at \in {"budget", "evaluation"} => Len(lineage) = 1
  /\ at \in {"evaluated", "attribution", "attributed", "principle"} => Len(lineage) = 2

\* No record claims a process that has not started.
ProcessesPast == \A i \in 1 .. Len(ledger) : ledger[i].process <= restarts

Planned == "experiment-plan"

\* Where run() stands until its episode is recorded.
Unrecorded == {"hypothesis", "plan", "preregister", "begin", "episode"}

\* No record claims a run that has not been called; the plan of the run that goes on names
\* its experiment, and its episode comes after the plan.
RunInHand ==
  \A i \in 1 .. Len(ledger) :
    /\ ledger[i].run <= calls
    /\ at # "idle" /\ ledger[i].run = calls =>
         /\ ledger[i].kind = Planned => ledger[i].experiment = request.experiment
         /\ ledger[i].kind = Episode => at \notin Unrecorded

\* Nothing is observed before the experiment has begun, nor when run() is about to.
Unobserved ==
  \A e \in Experiments :
    state[e] \in Early \/ (at = "episode" /\ request.experiment = e) => EpisodesOf(e) = {}

\* ObservedOnce without counting.
SingleEpisode ==
  \A e \in Experiments : \A i, j \in EpisodesOf(e) : i = j

OInv == TypeOK /\ StateAtPoint /\ ProcessesPast /\ RunInHand /\ Unobserved /\ SingleEpisode

\* The ledger is as before or has one more record.
Grows(record) == ledger' \in {ledger, Append(ledger, record)}

-----------------------------------------------------------------------------
\* What run() holds of its sources: none, one position, two positions.
LEMMA LineageTyped ==
  /\ <<>> \in Seq(Nat)
  /\ \A n \in Nat : <<n>> \in Seq(Nat) /\ Len(<<n>>) = 1
  /\ \A l \in Seq(Nat) : Len(l) = 2 => l[1] \in Nat /\ l[2] \in Nat
  /\ \A l \in Seq(Nat) : \A n \in Nat : Append(l, n) \in Seq(Nat) /\ Len(Append(l, n)) = Len(l) + 1
OBVIOUS

\* The request run() works on names an experiment.
LEMMA RequestTyped ==
  TypeOK => request.experiment \in Experiments /\ request.observed \in Experiments
BY RequestsAssumption DEF TypeOK, Request

\* append() leaves the ledger alone or adds the one record it was given.
LEMMA LogAppends ==
  ASSUME TypeOK,
         NEW kind \in Kinds, NEW detail \in Details, NEW sources \in SUBSET Nat, NEW next \in Points,
         Log(kind, detail, sources, next)
  PROVE  /\ \E record \in Records :
              /\ Grows(record)
              /\ record.kind = kind
              /\ kind # Episode => record.experiment = request.experiment
              /\ record.process = restarts
              /\ record.run = calls
         /\ at' \in {next, "idle"}
         /\ at' \in Points
         /\ failures' \in 0 .. MaxFailures
<1> DEFINE record == Record(kind, detail, sources)
<1>1. calls \in Nat /\ restarts \in Nat /\ failures \in 0 .. MaxFailures /\ MaxFailures \in Nat
  BY BoundsAssumption DEF TypeOK
<1>2. /\ record \in Records
      /\ record.kind = kind /\ record.process = restarts /\ record.run = calls
      /\ kind # Episode => record.experiment = request.experiment
  BY <1>1, RequestTyped DEF Record, Records, Named, Episode
<1>3. Grows(record)
  BY DEF Log, Grows
<1>4. at' \in {next, "idle"} /\ at' \in Points
  BY DEF Log, Raise, Points
<1>5. failures' \in 0 .. MaxFailures
  BY <1>1 DEF Log
<1> QED
  BY <1>2, <1>3, <1>4, <1>5

\* What a grown ledger holds.
LEMMA GrownLedger ==
  ASSUME TypeOK, NEW record \in Records, ledger' = Append(ledger, record)
  PROVE  /\ ledger' \in Seq(Records)
         /\ Len(ledger) \in Nat
         /\ Len(ledger') = Len(ledger) + 1
         /\ \A i \in 1 .. Len(ledger) : ledger'[i] = ledger[i]
         /\ ledger'[Len(ledger) + 1] = record
BY DEF TypeOK

\* An episode of the runs that planned e, record by record.
Shows(i, j, e) ==
  /\ i \in 1 .. Len(ledger) /\ ledger[i].kind = Episode /\ ledger[i].process = restarts
  /\ j \in 1 .. Len(ledger) /\ ledger[j].kind = Planned /\ ledger[j].process = restarts
  /\ ledger[j].experiment = e /\ ledger[j].run = ledger[i].run

\* The episodes of an experiment are the ones that such a pair shows, now and next.
LEMMA EpisodesShown ==
  ASSUME NEW e
  PROVE  /\ \A i : i \in EpisodesOf(e) <=> \E j : Shows(i, j, e)
         /\ \A i : i \in EpisodesOf(e)' <=> \E j : Shows(i, j, e)'
<1>1. \A i : i \in EpisodesOf(e) => \E j \in Positions(e, Planned) : Shows(i, j, e)
  BY DEF EpisodesOf, RunsOf, Planned, Shows, Positions, Episode
<1>2. \A i, j : Shows(i, j, e) => i \in EpisodesOf(e)
  BY DEF EpisodesOf, RunsOf, Planned, Shows, Positions, Episode
<1>3. \A i : i \in EpisodesOf(e)' => \E j \in Positions(e, Planned)' : Shows(i, j, e)'
  BY DEF EpisodesOf, RunsOf, Planned, Shows, Positions, Episode
<1>4. \A i, j : Shows(i, j, e)' => i \in EpisodesOf(e)'
  BY DEF EpisodesOf, RunsOf, Planned, Shows, Positions, Episode
<1> QED BY <1>1, <1>2, <1>3, <1>4

\* Another kind of record changes no set of episodes: a plan's run has none yet.
LEMMA EpisodesKept ==
  ASSUME TypeOK, RunInHand, NEW record \in Records, Grows(record), UNCHANGED restarts,
         record.kind # Episode, record.run = calls,
         record.kind = Planned => at \in Unrecorded, NEW e \in Experiments
  PROVE  EpisodesOf(e)' = EpisodesOf(e)
<1>1. ASSUME NEW i, NEW j PROVE Shows(i, j, e)' <=> Shows(i, j, e)
  <2>1. CASE ledger' = ledger
    BY <2>1 DEF Shows
  <2>2. CASE ledger' = Append(ledger, record)
    <3>1. Shows(i, j, e) => Shows(i, j, e)'
      BY <2>2, GrownLedger DEF Shows
    <3>2. ASSUME Shows(i, j, e)' PROVE Shows(i, j, e)
      <4>1. i \in 1 .. Len(ledger)
        BY <2>2, <3>2, GrownLedger DEF Shows
      <4>2. CASE j \in 1 .. Len(ledger)
        BY <2>2, <3>2, <4>1, <4>2, GrownLedger DEF Shows
      <4>3. CASE j = Len(ledger) + 1
        <5>1. record.kind = Planned /\ ledger[i].kind = Episode /\ ledger[i].run = calls
          BY <2>2, <3>2, <4>1, <4>3, GrownLedger DEF Shows
        <5>2. at \in Unrecorded /\ at # "idle"
          BY <5>1 DEF Unrecorded
        <5> QED BY <4>1, <5>1, <5>2 DEF RunInHand
      <4> QED BY <2>2, <3>2, <4>2, <4>3, GrownLedger DEF Shows
    <3> QED BY <3>1, <3>2
  <2> QED BY <2>1, <2>2 DEF Grows
<1>2. \A i : i \in EpisodesOf(e)' <=> \E j : Shows(i, j, e)'
  BY EpisodesShown
<1>3. \A i : i \in EpisodesOf(e)' <=> i \in EpisodesOf(e)
  BY <1>1, <1>2, EpisodesShown
<1> QED BY <1>3

\* The run in hand records an episode of its plan's experiment, the only one of its process
\* if there was none, and of no other.
LEMMA EpisodeAdded ==
  ASSUME TypeOK, RunInHand, NEW record \in Records, Grows(record), UNCHANGED restarts,
         record.kind = Episode, record.run = calls, at = "episode",
         NEW e \in Experiments, e = request.experiment, EpisodesOf(e) = {}
  PROVE  /\ \A d \in Experiments \ {e} : EpisodesOf(d)' = EpisodesOf(d)
         /\ \A i, j \in EpisodesOf(e)' : i = j
<1>1. CASE ledger' = ledger
  <2>1. \A d : EpisodesOf(d)' = EpisodesOf(d)
    BY <1>1 DEF EpisodesOf, RunsOf, Positions
  <2> QED BY <2>1
<1>2. CASE ledger' = Append(ledger, record)
  <2>1. ASSUME NEW i, NEW j, NEW d, Shows(i, j, d)'
        PROVE  j \in 1 .. Len(ledger) /\ (i = Len(ledger) + 1 \/ Shows(i, j, d))
    <3>1. j \in 1 .. Len(ledger)
      <4>1. j # Len(ledger) + 1
        BY <1>2, <2>1, GrownLedger DEF Shows, Episode, Planned
      <4> QED BY <1>2, <2>1, <4>1, GrownLedger DEF Shows
    <3>2. CASE i \in 1 .. Len(ledger)
      BY <1>2, <2>1, <3>1, <3>2, GrownLedger DEF Shows
    <3> QED BY <1>2, <2>1, <3>1, <3>2, GrownLedger DEF Shows
  <2>2. ASSUME NEW i, NEW j, NEW d, Shows(i, j, d)', i = Len(ledger) + 1 PROVE d = e
    <3>1. j \in 1 .. Len(ledger)
      BY <2>1, <2>2
    <3>2. ledger[j].kind = Planned /\ ledger[j].experiment = d /\ ledger[j].run = calls
      BY <1>2, <2>2, <3>1, GrownLedger DEF Shows
    <3> QED BY <3>1, <3>2 DEF RunInHand
  <2>3. ASSUME NEW d \in Experiments \ {e} PROVE EpisodesOf(d)' = EpisodesOf(d)
    <3>1. \A i, j : Shows(i, j, d)' => Shows(i, j, d)
      BY <2>1, <2>2, <2>3
    <3>2. \A i, j : Shows(i, j, d) => Shows(i, j, d)'
      BY <1>2, GrownLedger DEF Shows
    <3>3. \A i : i \in EpisodesOf(d)' <=> \E j : Shows(i, j, d)'
      BY EpisodesShown
    <3>4. \A i : i \in EpisodesOf(d)' <=> i \in EpisodesOf(d)
      BY <3>1, <3>2, <3>3, EpisodesShown
    <3> QED BY <3>4
  <2>4. ASSUME NEW i \in EpisodesOf(e)' PROVE i = Len(ledger) + 1
    <3>1. PICK j : Shows(i, j, e)'
      BY <2>4, EpisodesShown
    <3>2. ~ Shows(i, j, e)
      BY EpisodesShown
    <3> QED BY <2>1, <3>1, <3>2
  <2> QED BY <2>3, <2>4
<1> QED
  BY <1>1, <1>2 DEF Grows

\* The parts of the invariant that any growth by a record of this process keeps.
LEMMA GrowthTyped ==
  ASSUME TypeOK, ProcessesPast, NEW record \in Records, Grows(record), record.process = restarts,
         state' \in [Experiments -> States], at' \in Points, lineage' \in Seq(Nat),
         failures' \in 0 .. MaxFailures, UNCHANGED <<request, calls, restarts>>
  PROVE  TypeOK' /\ ProcessesPast'
<1>1. CASE ledger' = ledger
  BY <1>1 DEF TypeOK, ProcessesPast
<1>2. CASE ledger' = Append(ledger, record)
  <2>1. TypeOK'
    BY <1>2, GrownLedger DEF TypeOK
  <2>2. restarts \in Nat
    BY DEF TypeOK
  <2> QED
    BY <1>2, <2>1, <2>2, GrownLedger DEF ProcessesPast
<1> QED
  BY <1>1, <1>2 DEF Grows

\* What the run in hand has recorded stays its own, and its episode comes after the others.
LEMMA RunInHandKept ==
  ASSUME TypeOK, RunInHand, NEW record \in Records, Grows(record), record.run = calls,
         at # "idle", UNCHANGED <<request, calls>>,
         record.kind = Planned => record.experiment = request.experiment,
         at \notin Unrecorded \/ record.kind = Episode => at' \notin Unrecorded
  PROVE  RunInHand'
<1>1. ASSUME NEW i \in 1 .. Len(ledger)
      PROVE  /\ ledger[i].run <= calls'
             /\ at' # "idle" /\ ledger[i].run = calls' =>
                  /\ ledger[i].kind = Planned => ledger[i].experiment = request'.experiment
                  /\ ledger[i].kind = Episode => at' \notin Unrecorded
  BY DEF RunInHand
<1>2. CASE ledger' = ledger
  BY <1>1, <1>2 DEF RunInHand
<1>3. CASE ledger' = Append(ledger, record)
  <2>1. calls \in Nat
    BY BoundsAssumption DEF TypeOK
  <2>2. ASSUME NEW i \in 1 .. Len(ledger')
        PROVE  (i \in 1 .. Len(ledger) /\ ledger'[i] = ledger[i]) \/ ledger'[i] = record
    BY <1>3, GrownLedger
  <2> QED BY <1>1, <2>1, <2>2 DEF RunInHand
<1> QED BY <1>2, <1>3 DEF Grows

-----------------------------------------------------------------------------
\* A new coordinator on an empty ledger satisfies the invariant.
LEMMA InitOInv == Init => OInv
<1> SUFFICES ASSUME Init PROVE OInv
  OBVIOUS
<1>1. TypeOK
  BY BoundsAssumption DEF Init, TypeOK, States, Points
<1>2. \A e \in Experiments : EpisodesOf(e) = {}
  BY DEF Init, EpisodesOf
<1>3. ProcessesPast /\ StateAtPoint /\ RunInHand
  BY DEF Init, ProcessesPast, StateAtPoint, RunInHand
<1> QED
  BY <1>1, <1>2, <1>3 DEF OInv, Unobserved, SingleEpisode

\* Every append but the episode's: nothing is observed by it.
LEMMA QuietOInv ==
  ASSUME OInv, NEW record \in Records, Grows(record),
         record.process = restarts, record.kind # Episode, record.run = calls,
         record.kind = Planned => at \in Unrecorded /\ record.experiment = request.experiment,
         at # "idle", at \notin Unrecorded => at' \notin Unrecorded,
         state' \in [Experiments -> States], at' \in Points, lineage' \in Seq(Nat),
         failures' \in 0 .. MaxFailures, UNCHANGED <<request, calls, restarts>>,
         \A e \in Experiments : state'[e] \in Early => state[e] \in Early,
         at' = "episode" => state[request.experiment] \in Early,
         StateAtPoint'
  PROVE  OInv'
<1>1. TypeOK' /\ ProcessesPast'
  BY GrowthTyped DEF OInv
<1>2. \A e \in Experiments : EpisodesOf(e)' = EpisodesOf(e)
  BY EpisodesKept DEF OInv
<1>3. Unobserved'
  BY <1>2 DEF OInv, Unobserved
<1>4. SingleEpisode'
  BY <1>2 DEF OInv, SingleEpisode
<1>5. RunInHand'
  BY RunInHandKept DEF OInv
<1> QED
  BY <1>1, <1>3, <1>4, <1>5 DEF OInv

\* A step of run() that only records something other than an episode.
LEMMA LogOInv ==
  ASSUME OInv,
         NEW kind \in Kinds \ {Episode}, NEW detail \in Details, NEW sources \in SUBSET Nat,
         NEW next \in Points \ {"begin", "episode"},
         Log(kind, detail, sources, next),
         at # "idle", at \notin Unrecorded => next \notin Unrecorded, kind = Planned => at \in Unrecorded,
         lineage' \in Seq(Nat), UNCHANGED <<state, request, calls, restarts>>,
         next \in {"budget", "evaluation"} => Len(lineage') = 1,
         next \in {"evaluated", "attribution", "attributed", "principle"} => Len(lineage') = 2
  PROVE  OInv'
<1>1. PICK record \in Records :
        /\ Grows(record) /\ record.kind = kind /\ record.process = restarts /\ record.run = calls
        /\ record.experiment = request.experiment
  BY LogAppends DEF OInv
<1>2. at' \in {next, "idle"} /\ at' \in Points /\ failures' \in 0 .. MaxFailures
  BY LogAppends DEF OInv
<1>3. StateAtPoint' /\ at' # "episode" /\ (at \notin Unrecorded => at' \notin Unrecorded)
  BY <1>2 DEF StateAtPoint, Unrecorded
<1>4. state' \in [Experiments -> States]
  BY DEF OInv, TypeOK
<1> QED
  BY <1>1, <1>2, <1>3, <1>4, QuietOInv

\* The one append that records an episode.
LEMMA EpisodeOInv == OInv /\ RecordEpisode => OInv'
<1> SUFFICES ASSUME OInv, RecordEpisode PROVE OInv'
  OBVIOUS
<1> DEFINE e == request.experiment
<1>1. /\ at = "episode"
      /\ Log(Episode, "", {}, "budget")
      /\ lineage' = <<Len(ledger) + 1>>
      /\ UNCHANGED <<state, request, calls, restarts>>
  BY DEF RecordEpisode, Episode
<1>2. Episode \in Kinds /\ "" \in Details /\ {} \in SUBSET Nat /\ "budget" \in Points /\ TypeOK
  BY DEF Episode, Kinds, Details, Points, OInv
<1>3. PICK record \in Records :
        Grows(record) /\ record.kind = Episode /\ record.run = calls /\ record.process = restarts
  BY <1>1, <1>2, LogAppends
<1>4. at' \in {"budget", "idle"} /\ at' \in Points /\ failures' \in 0 .. MaxFailures
  BY <1>1, <1>2, LogAppends
<1>5. e \in Experiments /\ state[e] = "RUNNING" /\ EpisodesOf(e) = {}
  BY <1>1, RequestTyped DEF OInv, StateAtPoint, Unobserved
<1>6. lineage' \in Seq(Nat) /\ Len(lineage') = 1
  <2>1. Len(ledger) + 1 \in Nat
    BY DEF OInv, TypeOK
  <2> QED
    BY <1>1, <2>1, LineageTyped
<1>7. TypeOK' /\ ProcessesPast'
  BY <1>1, <1>3, <1>4, <1>6, GrowthTyped DEF OInv, TypeOK
<1>8. StateAtPoint' /\ RunInHand'
  <2>1. StateAtPoint' /\ at' \notin Unrecorded /\ Episode # Planned
    BY <1>4, <1>6 DEF StateAtPoint, Unrecorded, Episode, Planned
  <2> QED BY <1>1, <1>2, <1>3, <2>1, RunInHandKept DEF OInv
<1>9. /\ \A d \in Experiments \ {e} : EpisodesOf(d)' = EpisodesOf(d)
      /\ \A d \in Experiments : d = e => \A i, j \in EpisodesOf(d)' : i = j
  BY <1>1, <1>2, <1>3, <1>5, EpisodeAdded DEF OInv
<1>10. Unobserved'
  <2> SUFFICES ASSUME NEW d \in Experiments, state[d] \in Early
               PROVE  EpisodesOf(d)' = {}
    BY <1>1, <1>4 DEF Unobserved
  <2>1. state[e] \notin Early
    BY <1>5 DEF Early
  <2>2. EpisodesOf(d)' = EpisodesOf(d)
    BY <2>1, <1>9
  <2>3. EpisodesOf(d) = {}
    BY DEF OInv, Unobserved
  <2> QED
    BY <2>2, <2>3
<1>11. SingleEpisode'
  <2> SUFFICES ASSUME NEW d \in Experiments
               PROVE  \A i, j \in EpisodesOf(d)' : i = j
    BY DEF SingleEpisode
  <2>1. CASE d = e
    BY <2>1, <1>9
  <2>2. CASE d # e
    <3>1. EpisodesOf(d)' = EpisodesOf(d)
      BY <2>2, <1>9
    <3>2. \A i, j \in EpisodesOf(d) : i = j
      BY DEF OInv, SingleEpisode
    <3> QED
      BY <3>1, <3>2
  <2> QED
    BY <2>1, <2>2
<1> QED
  BY <1>7, <1>8, <1>10, <1>11 DEF OInv

\* A step of run() that moves the experiment on.
LEMMA MoveOInv ==
  ASSUME OInv, NEW expected \in States, NEW new \in States, NEW next \in Points,
         Move(expected, new, next),
         UNCHANGED <<request, lineage, calls, restarts>>,
         new \in Early => expected \in Early,
         next = "begin" => new = "PREREGISTERED",
         next = "episode" => new = "RUNNING" /\ expected \in Early,
         at # "idle", at \notin Unrecorded => next \notin Unrecorded,
         next \in {"budget", "evaluation"} => Len(lineage) = 1,
         next \in {"evaluated", "attribution", "attributed", "principle"} => Len(lineage) = 2
  PROVE  OInv'
<1> DEFINE e == request.experiment
<1>t. /\ e \in Experiments /\ state \in [Experiments -> States] /\ lineage \in Seq(Nat)
      /\ TypeOK
  BY RequestTyped DEF OInv, TypeOK
<1>1. CASE state[e] # expected
  <2>1. at' = "idle" /\ UNCHANGED <<state, ledger, failures>>
    BY <1>1 DEF Move, Raise
  <2> QED
    BY <2>1 DEF OInv, TypeOK, Points, ProcessesPast, RunInHand, StateAtPoint, Unobserved, SingleEpisode,
                EpisodesOf, RunsOf, Positions
<1>2. CASE state[e] = expected
  <2>1. state' = [state EXCEPT ![e] = new] /\ Log("experiment-state", new, {}, next)
    BY <1>2 DEF Move
  <2>2. /\ "experiment-state" \in Kinds /\ new \in Details /\ {} \in SUBSET Nat
        /\ "experiment-state" # Episode /\ "experiment-state" # Planned
    BY DEF Kinds, Details, Episode, Planned
  <2>3. PICK record \in Records :
          /\ Grows(record) /\ record.kind = "experiment-state" /\ record.process = restarts
          /\ record.run = calls
    BY <1>t, <2>1, <2>2, LogAppends
  <2>4. at' \in {next, "idle"} /\ at' \in Points /\ failures' \in 0 .. MaxFailures
    BY <1>t, <2>1, <2>2, LogAppends
  <2>5. /\ state' \in [Experiments -> States]
        /\ state'[e] = new
        /\ \A d \in Experiments : state'[d] \in Early => state[d] \in Early
    BY <2>1, <1>2, <1>t
  <2>6. StateAtPoint'
    BY <2>4, <2>5 DEF StateAtPoint
  <2>7. (at' = "episode" => state[e] \in Early) /\ (at \notin Unrecorded => at' \notin Unrecorded)
    BY <2>4, <1>2 DEF Unrecorded
  <2> QED
    BY <2>2, <2>3, <2>4, <2>5, <2>6, <2>7, <1>t, QuietOInv
<1> QED
  BY <1>1, <1>2

\* A call of run() preserves the invariant, whatever plan it is given.
LEMMA CallOInv == OInv /\ Call => OInv'
<1> SUFFICES ASSUME OInv, Call PROVE OInv'
  OBVIOUS
<1>1. /\ at' \in {"hypothesis", "idle"}
      /\ calls < MaxCalls /\ calls' = calls + 1
      /\ request' \in Requests
      /\ lineage' = <<>>
      /\ UNCHANGED <<state, ledger, failures, restarts>>
  BY DEF Call
<1>2. TypeOK'
  BY <1>1, LineageTyped, BoundsAssumption DEF OInv, TypeOK, Points
<1>3. StateAtPoint' /\ ProcessesPast' /\ RunInHand'
  <2>1. StateAtPoint' /\ ProcessesPast'
    BY <1>1 DEF OInv, StateAtPoint, ProcessesPast
  <2>2. calls \in Nat /\ ledger \in Seq(Records)
    BY BoundsAssumption DEF OInv, TypeOK
  <2>3. \A i \in 1 .. Len(ledger) : ledger[i].run \in Nat
    <3>1. \A i \in 1 .. Len(ledger) : ledger[i] \in Records
      BY <2>2
    <3> QED BY <3>1 DEF Records
  <2>4. \A i \in 1 .. Len(ledger) : ledger[i].run <= calls' /\ ledger[i].run # calls'
    BY <1>1, <2>2, <2>3 DEF OInv, RunInHand
  <2> QED BY <1>1, <2>1, <2>4 DEF RunInHand
<1>4. \A e \in Experiments : EpisodesOf(e)' = EpisodesOf(e)
  BY <1>1 DEF EpisodesOf, RunsOf, Positions
<1>5. Unobserved'
  BY <1>1, <1>4 DEF OInv, Unobserved
<1>6. SingleEpisode'
  BY <1>4 DEF OInv, SingleEpisode
<1> QED
  BY <1>2, <1>3, <1>5, <1>6 DEF OInv

\* A new process has no record yet.
LEMMA RestartOInv == OInv /\ Restart => OInv'
<1> SUFFICES ASSUME OInv, Restart PROVE OInv'
  OBVIOUS
<1>1. /\ restarts < MaxRestarts /\ restarts' = restarts + 1
      /\ state' = [e \in Experiments |-> "DRAFT"]
      /\ at' = "idle"
      /\ UNCHANGED <<ledger, request, lineage, calls, failures>>
  BY DEF Restart, Raise
<1>2. restarts \in Nat /\ ledger \in Seq(Records)
  BY DEF OInv, TypeOK
<1>3. TypeOK'
  BY <1>1, BoundsAssumption DEF OInv, TypeOK, Points, States
<1>4. \A i \in 1 .. Len(ledger) : ledger[i].process \in Nat
  <2>1. \A i \in 1 .. Len(ledger) : ledger[i] \in Records
    BY <1>2
  <2> QED
    BY <2>1 DEF Records
<1>5. StateAtPoint' /\ ProcessesPast' /\ RunInHand'
  BY <1>1, <1>2, <1>4 DEF OInv, StateAtPoint, ProcessesPast, RunInHand
<1>6. \A i \in 1 .. Len(ledger) : ledger[i].process # restarts'
  BY <1>1, <1>2, <1>4 DEF OInv, ProcessesPast
<1>7. \A e \in Experiments : EpisodesOf(e)' = {}
  BY <1>1, <1>6 DEF EpisodesOf
<1>8. Unobserved' /\ SingleEpisode'
  BY <1>7 DEF Unobserved, SingleEpisode
<1> QED
  BY <1>3, <1>5, <1>8 DEF OInv

\* The sources run() hands to a record are positions in the ledger.
LEMMA SourcesTyped ==
  ASSUME OInv, at \in {"attribution", "principle"}
  PROVE  {lineage[1], lineage[2]} \in SUBSET Nat
<1>1. Len(lineage) = 2 /\ lineage \in Seq(Nat)
  BY DEF OInv, StateAtPoint, TypeOK
<1>2. lineage[1] \in Nat /\ lineage[2] \in Nat
  BY <1>1, LineageTyped
<1> QED
  BY <1>2

\* Every step of run(), the ones whose append raises included, preserves the invariant.
LEMMA RunOInv == OInv /\ Run => OInv'
<1> SUFFICES ASSUME OInv, Run PROVE OInv'
  OBVIOUS
<1>k. /\ {"causal-hypothesis", "experiment-plan", "evaluation-result", "causal-attribution",
          "learned-principle-proposal"} \subseteq Kinds \ {Episode}
      /\ {"", "provisional"} \subseteq Details
      /\ {} \in SUBSET Nat
  BY DEF Kinds, Episode, Details
<1>d. /\ Evaluate(request.hard_gates) \in Details
      /\ Disposition(Evaluate(request.hard_gates)) \in Details
  BY DEF Evaluate, Disposition, Details
<1>u. /\ Unrecorded = {"hypothesis", "plan", "preregister", "begin", "episode"}
      /\ Planned = "experiment-plan"
  BY DEF Unrecorded, Planned
<1>p. Points \ {"begin", "episode"} =
        {"idle", "hypothesis", "plan", "preregister", "budget", "evaluation", "evaluated",
         "attribution", "attributed", "principle", "distilled"}
  BY DEF Points
<1>l. lineage \in Seq(Nat) /\ Len(ledger) + 1 \in Nat
  BY DEF OInv, TypeOK
<1>1. CASE RecordHypothesis
  BY <1>1, <1>k, <1>p, <1>l, <1>u, LogOInv DEF RecordHypothesis
<1>2. CASE RecordPlan
  BY <1>2, <1>k, <1>p, <1>l, <1>u, LogOInv DEF RecordPlan
<1>3. CASE Preregister
  BY <1>3, <1>u, MoveOInv DEF Preregister, States, Points, Early
<1>4. CASE BeginExecution
  BY <1>4, <1>u, MoveOInv DEF BeginExecution, States, Points, Early
<1>5. CASE RecordEpisode
  BY <1>5, EpisodeOInv
<1>6. CASE CheckBudget
  <2> DEFINE next == IF request.own_evaluator THEN "evaluation" ELSE "idle"
  <2>1. next \in {"evaluation", "idle"} /\ Len(lineage) = 1 /\ at = "budget"
    BY <1>6 DEF CheckBudget, OInv, StateAtPoint
  <2>2. \/ Move("RUNNING", "OBSERVED", next) \/ Move("RUNNING", "REJECTED", "idle")
    BY <1>6 DEF CheckBudget
  <2>3. UNCHANGED <<request, lineage, calls, restarts>>
    BY <1>6 DEF CheckBudget
  <2> HIDE DEF next
  <2> QED
    BY <2>1, <2>2, <2>3, <1>u, MoveOInv DEF States, Points, Early
<1>7. CASE RecordEvaluation
  <2>1. Len(lineage) = 1
    BY <1>7 DEF RecordEvaluation, OInv, StateAtPoint
  <2>2. lineage' \in Seq(Nat) /\ Len(lineage') = 2
    <3>1. lineage' = Append(lineage, Len(ledger) + 1)
      BY <1>7 DEF RecordEvaluation
    <3>2. lineage' \in Seq(Nat) /\ Len(lineage') = Len(lineage) + 1
      BY <3>1, <1>l, LineageTyped
    <3> QED
      BY <3>2, <2>1
  <2> QED
    BY <1>7, <2>2, <1>k, <1>d, <1>p, <1>u, LogOInv DEF RecordEvaluation
<1>8. CASE MarkEvaluated
  <2>1. Len(lineage) = 2
    BY <1>8 DEF MarkEvaluated, OInv, StateAtPoint
  <2> QED
    BY <1>8, <2>1, <1>u, MoveOInv DEF MarkEvaluated, States, Points, Early
<1>9. CASE RecordAttribution
  <2>1. Len(lineage) = 2 /\ {lineage[1], lineage[2]} \in SUBSET Nat
    BY <1>9, SourcesTyped DEF RecordAttribution, OInv, StateAtPoint
  <2> QED
    BY <1>9, <2>1, <1>k, <1>d, <1>p, <1>l, <1>u, LogOInv DEF RecordAttribution
<1>10. CASE MarkAttributed
  <2>1. Len(lineage) = 2
    BY <1>10 DEF MarkAttributed, OInv, StateAtPoint
  <2> QED
    BY <1>10, <2>1, <1>u, MoveOInv DEF MarkAttributed, States, Points, Early
<1>11. CASE RecordPrinciple
  <2>1. {lineage[1], lineage[2]} \in SUBSET Nat
    BY <1>11, SourcesTyped DEF RecordPrinciple
  <2> QED
    BY <1>11, <2>1, <1>k, <1>p, <1>l, <1>u, LogOInv DEF RecordPrinciple
<1>12. CASE MarkDistilled
  BY <1>12, <1>u, MoveOInv DEF MarkDistilled, States, Points, Early
<1> QED
  BY <1>1, <1>2, <1>3, <1>4, <1>5, <1>6, <1>7, <1>8, <1>9, <1>10, <1>11, <1>12 DEF Run

\* The strengthened invariant of the coordinator holds in every reachable state
\* (ExperimentCoordinator.run and transition, over any number of processes one after another).
THEOREM CoordinatorInvariant == Spec => []OInv
<1>1. OInv /\ [Next]_vars => OInv'
  <2> SUFFICES ASSUME OInv, [Next]_vars PROVE OInv'
    OBVIOUS
  <2>1. CASE UNCHANGED vars
    BY <2>1 DEF vars, OInv, TypeOK, StateAtPoint, ProcessesPast, RunInHand, Unobserved, SingleEpisode,
                EpisodesOf, RunsOf, Positions
  <2> QED
    BY <2>1, CallOInv, RunOInv, RestartOInv DEF Next
<1> QED
  BY <1>1, InitOInv, PTL DEF Spec

\* The coordinator's memory, its ledger and the point run() has reached keep their shape
\* (ExperimentCoordinator.run).
THEOREM CoordinatorTypeCorrect == Spec => []TypeOK
<1>1. OInv => TypeOK
  BY DEF OInv
<1> QED
  BY <1>1, CoordinatorInvariant, PTL

\* The runs of a process whose plans name an experiment record at most one episode, however
\* often run() is called again, with whatever plans and observations, and whichever appends
\* raise (ExperimentCoordinator.run).
THEOREM ExperimentsObservedOnce == Spec => []ObservedOnce
<1>1. OInv => ObservedOnce
  <2> SUFFICES ASSUME OInv, NEW e \in Experiments
               PROVE  Cardinality(EpisodesOf(e)) <= 1
    BY DEF ObservedOnce
  <2>1. \A i, j \in EpisodesOf(e) : i = j
    BY DEF OInv, SingleEpisode
  <2>2. CASE EpisodesOf(e) = {}
    BY <2>2, FS_EmptySet
  <2>3. CASE EpisodesOf(e) # {}
    <3>1. PICK i \in EpisodesOf(e) : TRUE
      BY <2>3
    <3>2. EpisodesOf(e) = {i}
      BY <2>1, <3>1
    <3> QED
      BY <3>2, FS_Singleton
  <2> QED
    BY <2>2, <2>3
<1> QED
  BY <1>1, CoordinatorInvariant, PTL

\* Every process takes every experiment through the lifecycle of
\* mncs/source/mnel/lifecycle.mncs and never off it, whichever appends raise.
THEOREM CoordinatorFollowsLifecycle == Spec => FollowsLifecycle
<1>1. Init => Lifecycle!Init
  BY DEF Init, Lifecycle!Init
<1>2. TypeOK /\ [Next]_vars => [Lifecycle!Next \/ Restart]_state
  <2> SUFFICES ASSUME TypeOK, [Next]_vars PROVE [Lifecycle!Next \/ Restart]_state
    OBVIOUS
  <2> DEFINE e == request.experiment
  <2>1. e \in Experiments /\ state \in [Experiments -> States]
    BY RequestTyped DEF TypeOK
  <2>2. ASSUME NEW old \in States, NEW event \in Lifecycle!Events, NEW new \in States,
               <<old, event, new>> \in Lifecycle!Advances, NEW next, Move(old, new, next)
        PROVE  [Lifecycle!Next]_state
    <3>1. CASE state[e] = old
      <4>1. state' = [state EXCEPT ![e] = new]
        BY <3>1, <2>2 DEF Move
      <4>2. Lifecycle!Advance(e, event)
        BY <3>1, <4>1, <2>2 DEF Lifecycle!Advance, Lifecycle!States, States
      <4> QED
        BY <4>2, <2>1 DEF Lifecycle!Next
    <3>2. CASE state[e] # old
      BY <3>2, <2>2 DEF Move
    <3> QED
      BY <3>1, <3>2
  <2>3. /\ <<"DRAFT", "PREREGISTER", "PREREGISTERED">> \in Lifecycle!Advances
        /\ <<"PREREGISTERED", "BEGIN_EXECUTION", "RUNNING">> \in Lifecycle!Advances
        /\ <<"RUNNING", "BUDGET_WITHIN_LIMITS", "OBSERVED">> \in Lifecycle!Advances
        /\ <<"RUNNING", "BUDGET_EXCEEDED", "REJECTED">> \in Lifecycle!Advances
        /\ <<"OBSERVED", "EVALUATOR_VERDICT", "EVALUATED">> \in Lifecycle!Advances
        /\ <<"EVALUATED", "RECORD_ATTRIBUTION", "ATTRIBUTED">> \in Lifecycle!Advances
        /\ <<"ATTRIBUTED", "PROPOSE_DISTILLATION", "DISTILLED_PROPOSAL">> \in Lifecycle!Advances
    BY DEF Lifecycle!Advances
  <2>4. CASE Preregister \/ BeginExecution
    BY <2>2, <2>3, <2>4 DEF Preregister, BeginExecution, States, Lifecycle!Events
  <2>5. CASE CheckBudget
    BY <2>2, <2>3, <2>5 DEF CheckBudget, States, Lifecycle!Events
  <2>6. CASE MarkEvaluated \/ MarkAttributed \/ MarkDistilled
    BY <2>2, <2>3, <2>6 DEF MarkEvaluated, MarkAttributed, MarkDistilled, States, Lifecycle!Events
  <2>7. CASE RecordHypothesis \/ RecordPlan \/ RecordEpisode \/ RecordEvaluation
             \/ RecordAttribution \/ RecordPrinciple \/ Call
    BY <2>7 DEF RecordHypothesis, RecordPlan, RecordEpisode, RecordEvaluation, RecordAttribution,
                RecordPrinciple, Call
  <2>8. CASE Restart
    BY <2>8
  <2>9. CASE UNCHANGED vars
    BY <2>9 DEF vars
  <2> QED
    BY <2>4, <2>5, <2>6, <2>7, <2>8, <2>9 DEF Next, Run
<1> QED
  BY <1>1, <1>2, CoordinatorTypeCorrect, PTL DEF Spec, FollowsLifecycle

-----------------------------------------------------------------------------
(* Memory and ledger.                                                      *)

Moved == "experiment-state"

\* The transitions by which memory may be ahead of the ledger.
Ahead ==
  { <<"DRAFT", "PREREGISTERED">>, <<"PREREGISTERED", "RUNNING">>, <<"RUNNING", "OBSERVED">>,
    <<"RUNNING", "REJECTED">>, <<"OBSERVED", "EVALUATED">>, <<"EVALUATED", "ATTRIBUTED">>,
    <<"ATTRIBUTED", "DISTILLED_PROPOSAL">> }

\* A disagreement about e, and run() cannot get past the preregistration of e.
Apart(e) ==
  /\ failures > 0
  /\ at = "idle" \/ request.experiment # e \/ at \in {"hypothesis", "plan", "preregister"}
  /\ <<Recorded(e), state[e]>> \in Ahead

Agrees(e) == Recorded(e) = state[e] \/ Apart(e)

\* Positions in the ledger have a last one.
LEMMA LastPosition ==
  ASSUME NEW n \in Nat, NEW S \in SUBSET (1 .. n), S # {}
  PROVE  \E i \in S : \A j \in S : j <= i
<1> DEFINE T == {n - i : i \in S}
<1>1. T \in SUBSET Nat /\ T # {}
  <2>1. \A i \in S : i \in Nat /\ n - i \in Nat
    OBVIOUS
  <2> QED BY <2>1
<1>2. PICK y \in T : \A z \in T : ~ (<<z, y>> \in OpToRel(<, Nat))
  BY <1>1, NatLessThanWellFounded, WFMin
<1>3. PICK i \in S : y = n - i
  OBVIOUS
<1>4. ASSUME NEW j \in S PROVE j <= i
  <2>1. n - j \in T /\ i \in Nat /\ j \in Nat /\ n - j \in Nat /\ n - i \in Nat
    BY <1>1
  <2>2. ~ (n - j < n - i)
    BY <1>2, <1>3, <2>1 DEF OpToRel
  <2> QED BY <2>1, <2>2
<1> QED BY <1>4

\* The last move of an experiment stays the last as long as nothing moves it.
LEMMA RecordedKept ==
  ASSUME TypeOK, NEW record \in Records, Grows(record), UNCHANGED restarts,
         NEW e, record.kind # Moved \/ record.experiment # e
  PROVE  Recorded(e)' = Recorded(e)
<1> DEFINE moves == Positions(e, Moved)
           last  == CHOOSE i \in moves : \A j \in moves : j <= i
<1>1. moves' = moves
  <2>1. CASE ledger' = ledger
    BY <2>1 DEF Positions
  <2>2. CASE ledger' = Append(ledger, record)
    BY <2>2, GrownLedger DEF Positions
  <2> QED BY <2>1, <2>2 DEF Grows
<1>2. moves # {} => last \in 1 .. Len(ledger)
  <2>1. moves \in SUBSET (1 .. Len(ledger)) /\ Len(ledger) \in Nat
    BY DEF Positions, TypeOK
  <2> HIDE DEF moves
  <2> QED BY <2>1, LastPosition
<1>3. moves # {} => ledger'[last] = ledger[last]
  BY <1>2, GrownLedger DEF Grows
<1>4. /\ Recorded(e) = IF moves = {} THEN "DRAFT" ELSE ledger[last].detail
      /\ Recorded(e)' = IF moves' = {} THEN "DRAFT"
                        ELSE ledger'[CHOOSE i \in moves' : \A j \in moves' : j <= i].detail
  BY DEF Recorded, Moved
<1> HIDE DEF moves
<1> QED BY <1>1, <1>3, <1>4

\* A stored move is the last one.
LEMMA RecordedMoved ==
  ASSUME TypeOK, NEW record \in Records, ledger' = Append(ledger, record), UNCHANGED restarts,
         record.kind = Moved, record.process = restarts
  PROVE  Recorded(record.experiment)' = record.detail
<1> DEFINE e == record.experiment
           moves == Positions(e, Moved)'
           last  == CHOOSE i \in moves : \A j \in moves : j <= i
           n     == Len(ledger) + 1
<1>1. n \in Nat /\ n \in moves /\ \A i \in moves : i \in Nat /\ i <= n
  BY GrownLedger DEF Positions
<1>2. last = n
  <2> HIDE DEF moves, n
  <2>1. \E i \in moves : \A j \in moves : j <= i
    BY <1>1
  <2>2. last \in moves /\ \A j \in moves : j <= last
    BY <2>1
  <2> HIDE DEF last
  <2>3. last <= n /\ n <= last /\ last \in Nat
    BY <1>1, <2>2
  <2> QED BY <1>1, <2>3
<1>3. Recorded(e)' = IF moves = {} THEN "DRAFT" ELSE ledger'[last].detail
  BY DEF Recorded, Moved
<1> HIDE DEF moves, last, e
<1>4. Recorded(e)' = ledger'[n].detail
  BY <1>1, <1>2, <1>3
<1> QED BY <1>4, GrownLedger DEF e

\* What was apart before a step is where it was after it.
Steady(e) == Recorded(e) # state[e] => state'[e] = state[e] /\ Recorded(e)' = Recorded(e)

AgreeInv == OInv /\ \A e \in Experiments : Agrees(e)

\* Apart is apart still, if run() does not get on with the experiment.
LEMMA ApartKept ==
  ASSUME NEW e, Agrees(e), Recorded(e)' = Recorded(e), state'[e] = state[e],
         failures > 0 => failures' > 0,
         \/ at' = "idle" \/ request'.experiment # e
         \/ at' \in {"hypothesis", "plan", "preregister"}
         \/ ~ Apart(e)
  PROVE  Agrees(e)' /\ Steady(e)
BY DEF Agrees, Apart, Steady

\* Recording something that is no move changes nothing between memory and ledger.
LEMMA LogAgrees ==
  ASSUME AgreeInv, NEW kind \in Kinds \ {Moved}, NEW detail \in Details, NEW sources \in SUBSET Nat,
         NEW next \in Points, Log(kind, detail, sources, next), UNCHANGED <<state, request, restarts>>,
         at \notin {"idle", "preregister"},
         at \in {"hypothesis", "plan"} => next \in {"plan", "preregister"},
         NEW e \in Experiments
  PROVE  Agrees(e)' /\ Steady(e)
<1>1. PICK record \in Records : Grows(record) /\ record.kind = kind
  BY LogAppends DEF AgreeInv, OInv
<1>2. at' \in {next, "idle"}
  BY LogAppends DEF AgreeInv, OInv
<1>3. Recorded(e)' = Recorded(e)
  BY <1>1, RecordedKept DEF AgreeInv, OInv
<1>4. failures > 0 => failures' > 0
  BY DEF Log, AgreeInv, OInv, TypeOK
<1>5. \/ at' = "idle" \/ request'.experiment # e
      \/ at' \in {"hypothesis", "plan", "preregister"}
      \/ ~ Apart(e)
  BY <1>2 DEF Apart
<1>6. Agrees(e) /\ state'[e] = state[e]
  BY DEF AgreeInv
<1> QED BY <1>3, <1>4, <1>5, <1>6, ApartKept

\* A transition moves memory and ledger, or memory alone and then raises.
LEMMA MoveAgrees ==
  ASSUME AgreeInv, NEW expected \in States, NEW new \in States, NEW next \in Points,
         <<expected, new>> \in Ahead, Move(expected, new, next), UNCHANGED <<request, restarts>>,
         at \notin {"idle", "hypothesis", "plan"}, at = "preregister" => expected = "DRAFT",
         NEW e \in Experiments
  PROVE  Agrees(e)' /\ Steady(e)
<1> DEFINE x == request.experiment
<1>t. /\ x \in Experiments /\ state \in [Experiments -> States] /\ failures \in Nat /\ TypeOK
      /\ Agrees(x) /\ Agrees(e)
  <2>1. TypeOK
    BY DEF AgreeInv, OInv
  <2>2. failures \in Nat
    BY <2>1, BoundsAssumption DEF TypeOK
  <2> QED BY <2>1, <2>2, RequestTyped DEF AgreeInv, TypeOK
<1>1. CASE state[x] # expected
  <2>1. at' = "idle" /\ UNCHANGED <<state, ledger, failures>>
    BY <1>1 DEF Move, Raise
  <2>2. Recorded(e)' = Recorded(e)
    BY <2>1 DEF Recorded, Positions
  <2> QED BY <1>t, <2>1, <2>2, ApartKept
<1>2. CASE state[x] = expected
  <2>1. state' = [state EXCEPT ![x] = new] /\ Log(Moved, new, {}, next)
    BY <1>2 DEF Move, Moved
  <2> DEFINE record == Record(Moved, new, {})
  <2>2. /\ record \in Records /\ record.kind = Moved /\ record.experiment = x
        /\ record.process = restarts /\ record.detail = new
    <3>0. Named(Moved) = x
      BY DEF Named, Moved
    <3>1. calls \in Nat /\ restarts \in Nat /\ Moved \in Kinds /\ new \in Details
      <4>1. calls \in Nat /\ restarts \in Nat
        BY <1>t, BoundsAssumption DEF TypeOK
      <4>2. Moved \in Kinds /\ new \in Details
        BY DEF Kinds, Details, Moved
      <4> QED BY <4>1, <4>2
    <3> QED BY <1>t, <3>0, <3>1 DEF Record, Records
  <2>3. \/ ledger' = Append(ledger, record) /\ failures' = failures
        \/ at' = "idle" /\ failures' = failures + 1 /\ ledger' \in {ledger, Append(ledger, record)}
    BY <2>1 DEF Log, Raise
  <2> HIDE DEF record
  <2>4. Grows(record) /\ (failures > 0 => failures' > 0)
    BY <1>t, <2>3 DEF Grows
  <2>5. CASE e # x
    <3>1. Recorded(e)' = Recorded(e)
      BY <1>t, <2>2, <2>4, <2>5, RecordedKept
    <3>2. state'[e] = state[e] /\ request'.experiment # e
      BY <1>t, <2>1, <2>5
    <3> QED BY <1>t, <2>4, <3>1, <3>2, ApartKept
  <2>6. CASE e = x
    <3>1. Recorded(x) = expected
      <4>1. ~ Apart(x)
        <5>1. <<Recorded(x), "DRAFT">> \notin Ahead
          BY DEF Ahead
        <5> QED BY <1>2, <5>1 DEF Apart
      <4> QED BY <1>t, <1>2, <4>1 DEF Agrees
    <3>2. state'[x] = new
      BY <1>t, <2>1
    <3>3. CASE ledger' = Append(ledger, record)
      <4>1. Recorded(x)' = new
        BY <1>t, <2>2, <3>3, RecordedMoved
      <4> QED BY <1>2, <2>6, <3>1, <3>2, <4>1 DEF Agrees, Steady
    <3>4. CASE at' = "idle" /\ failures' = failures + 1 /\ ledger' = ledger
      <4>1. Recorded(x)' = expected
        BY <3>1, <3>4 DEF Recorded, Positions
      <4>2. Apart(x)'
        BY <1>t, <3>2, <3>4, <4>1 DEF Apart
      <4> QED BY <1>2, <2>6, <3>1, <4>2 DEF Agrees, Steady
    <3> QED BY <2>3, <3>3, <3>4
  <2> QED BY <2>5, <2>6
<1> QED BY <1>1, <1>2

\* Whatever is done, memory and ledger agree or stay apart; a new process starts with neither.
LEMMA StepAgrees ==
  ASSUME AgreeInv, [Next]_vars, NEW e \in Experiments
  PROVE  Agrees(e)' /\ (restarts' = restarts => Steady(e))
<1>k. /\ {"causal-hypothesis", "experiment-plan", "evaluation-result", "causal-attribution",
          "learned-principle-proposal", "experience-episode"} \subseteq Kinds \ {Moved}
      /\ {"", "provisional"} \subseteq Details
      /\ {} \in SUBSET Nat
  BY DEF Kinds, Moved, Details
<1>d. /\ Evaluate(request.hard_gates) \in Details
      /\ Disposition(Evaluate(request.hard_gates)) \in Details
  BY DEF Evaluate, Disposition, Details
<1>o. OInv
  BY DEF AgreeInv
<1>1. CASE RecordHypothesis
  BY <1>1, <1>k, LogAgrees DEF RecordHypothesis, Points
<1>2. CASE RecordPlan
  BY <1>2, <1>k, LogAgrees DEF RecordPlan, Points
<1>3. CASE Preregister
  BY <1>3, MoveAgrees DEF Preregister, States, Points, Ahead
<1>4. CASE BeginExecution
  BY <1>4, MoveAgrees DEF BeginExecution, States, Points, Ahead
<1>5. CASE RecordEpisode
  BY <1>5, <1>k, LogAgrees DEF RecordEpisode, Points
<1>6. CASE CheckBudget
  <2> DEFINE next == IF request.own_evaluator THEN "evaluation" ELSE "idle"
  <2>1. next \in Points /\ "idle" \in Points /\ at = "budget"
    BY <1>6 DEF CheckBudget, Points
  <2>2. \/ Move("RUNNING", "OBSERVED", next) \/ Move("RUNNING", "REJECTED", "idle")
    BY <1>6 DEF CheckBudget
  <2>3. UNCHANGED <<request, lineage, calls, restarts>>
    BY <1>6 DEF CheckBudget
  <2> HIDE DEF next
  <2> QED BY <2>1, <2>2, <2>3, MoveAgrees DEF States, Ahead
<1>7. CASE RecordEvaluation
  BY <1>7, <1>k, <1>d, LogAgrees DEF RecordEvaluation, Points
<1>8. CASE MarkEvaluated
  BY <1>8, MoveAgrees DEF MarkEvaluated, States, Points, Ahead
<1>9. CASE RecordAttribution
  BY <1>9, <1>o, <1>k, <1>d, SourcesTyped, LogAgrees DEF RecordAttribution, Points
<1>10. CASE MarkAttributed
  BY <1>10, MoveAgrees DEF MarkAttributed, States, Points, Ahead
<1>11. CASE RecordPrinciple
  BY <1>11, <1>o, <1>k, SourcesTyped, LogAgrees DEF RecordPrinciple, Points
<1>12. CASE MarkDistilled
  BY <1>12, MoveAgrees DEF MarkDistilled, States, Points, Ahead
<1>13. CASE Call
  <2>1. at' \in {"hypothesis", "idle"} /\ UNCHANGED <<state, ledger, failures, restarts>>
    BY <1>13 DEF Call
  <2>2. Recorded(e)' = Recorded(e) /\ Agrees(e)
    BY <2>1 DEF Recorded, Positions, AgreeInv
  <2> QED BY <2>1, <2>2, ApartKept
<1>14. CASE Restart
  <2>1. /\ restarts' = restarts + 1 /\ state' = [x \in Experiments |-> "DRAFT"] /\ ledger' = ledger
    BY <1>14 DEF Restart
  <2>2. restarts \in Nat /\ ledger \in Seq(Records)
    BY <1>o DEF OInv, TypeOK
  <2>3. \A i \in 1 .. Len(ledger) : ledger[i].process \in Nat
    <3>1. \A i \in 1 .. Len(ledger) : ledger[i] \in Records
      BY <2>2
    <3> QED BY <3>1 DEF Records
  <2>4. \A i \in 1 .. Len(ledger) : ledger[i].process # restarts'
    BY <1>o, <2>1, <2>2, <2>3 DEF OInv, ProcessesPast
  <2>5. Positions(e, Moved)' = {}
    BY <2>1, <2>4 DEF Positions
  <2>6. Recorded(e)' = "DRAFT"
    BY <2>5 DEF Recorded, Moved
  <2> QED BY <2>1, <2>2, <2>6 DEF Agrees
<1>15. CASE UNCHANGED vars
  <2>1. UNCHANGED <<state, ledger, at, request, failures, restarts>>
    BY <1>15 DEF vars
  <2>2. Recorded(e)' = Recorded(e) /\ Agrees(e)
    BY <2>1 DEF Recorded, Positions, AgreeInv
  <2> QED BY <2>1, <2>2 DEF Agrees, Apart, Steady
<1> QED
  BY <1>1, <1>2, <1>3, <1>4, <1>5, <1>6, <1>7, <1>8, <1>9, <1>10, <1>11, <1>12, <1>13, <1>14, <1>15
     DEF Next, Run

\* Memory and ledger agree on every experiment, or memory is one move ahead of an append that
\* raised, in every reachable state (ExperimentCoordinator.transition).
THEOREM AgreementInvariant == Spec => [](\A e \in Experiments : Agrees(e))
<1>1. Init => \A e \in Experiments : Agrees(e)
  <2> SUFFICES ASSUME Init, NEW e \in Experiments PROVE Recorded(e) = state[e]
    BY DEF Agrees
  <2>1. Positions(e, Moved) = {}
    BY DEF Init, Positions
  <2> QED BY <2>1 DEF Init, Recorded, Moved
<1>2. OInv /\ (\A e \in Experiments : Agrees(e)) /\ [Next]_vars => (\A e \in Experiments : Agrees(e))'
  BY StepAgrees DEF AgreeInv
<1> QED BY <1>1, <1>2, CoordinatorInvariant, PTL DEF Spec

\* A reader of the ledger sees the state of the process, or the one before the append that raised
\* (ExperimentCoordinator.transition sets the state before it appends).
THEOREM LedgerIsFaithful == Spec => []LedgerTellsState
<1>1. (\A e \in Experiments : Agrees(e)) => LedgerTellsState
  BY DEF Agrees, Apart, Ahead, LedgerTellsState
<1> QED BY <1>1, AgreementInvariant, PTL

\* Once memory and ledger are apart on an experiment, nothing but a new process moves either
\* (the guard of ExperimentCoordinator.transition).
THEOREM ApartForGood == Spec => DisagreementIsFinal
<1>1. AgreeInv /\ [Next]_vars =>
        [\A e \in Experiments : Recorded(e) # state[e] /\ restarts' = restarts
           => state'[e] = state[e] /\ Recorded(e)' = Recorded(e)]_vars
  BY StepAgrees DEF Steady
<1>2. OInv /\ (\A e \in Experiments : Agrees(e)) => AgreeInv
  BY DEF AgreeInv
<1> QED BY <1>1, <1>2, CoordinatorInvariant, AgreementInvariant, PTL DEF Spec, DisagreementIsFinal

-----------------------------------------------------------------------------
(* What a run has behind it.                                               *)

\* The run that goes on wrote a record of a kind at a position, about its experiment unless
\* the record is the observation it was given.
Wrote(i, kind) ==
  /\ i \in 1 .. Len(ledger)
  /\ ledger[i].kind = kind /\ ledger[i].run = calls
  /\ kind # Episode => ledger[i].experiment = request.experiment

\* Where run() is when the evaluation, the attribution and so on are behind it.
AfterAttribution == {"attributed", "principle"}
AfterEvaluation == AfterAttribution \cup {"evaluated", "attribution"}
AfterBudget == AfterEvaluation \cup {"evaluation"}
AfterEpisode == AfterBudget \cup {"budget"}
AfterBegin == AfterEpisode \cup {"episode"}
AfterPlan == AfterBegin \cup {"preregister", "begin"}

\* What these records are, and that they come one after the other.
ThePlan(plan) == Wrote(plan, "experiment-plan")
TheBegin(plan, begun) == Wrote(begun, Moved) /\ ledger[begun].detail = "RUNNING" /\ plan <= begun
TheEpisode(begun, episode) == Wrote(episode, Episode) /\ begun <= episode
TheKept(episode, kept) == Wrote(kept, Moved) /\ ledger[kept].detail = "OBSERVED" /\ episode <= kept
TheEvaluation(kept, evaluation) ==
  /\ Wrote(evaluation, "evaluation-result") /\ kept <= evaluation
  /\ ledger[evaluation].detail = Evaluate(request.hard_gates)
TheAttribution(episode, evaluation, attribution) ==
  /\ Wrote(attribution, "causal-attribution") /\ evaluation <= attribution
  /\ ledger[attribution].sources = {episode, evaluation}
  /\ ledger[attribution].detail = Disposition(Evaluate(request.hard_gates))

Behind(plan, begun, episode, kept, evaluation, attribution) ==
  /\ at \in AfterPlan => ThePlan(plan)
  /\ at \in AfterBegin => TheBegin(plan, begun)
  /\ at \in AfterEpisode => TheEpisode(begun, episode) /\ lineage[1] = episode
  /\ at \in AfterBudget => TheKept(episode, kept)
  /\ at \in AfterEvaluation => TheEvaluation(kept, evaluation) /\ lineage[2] = evaluation
  /\ at \in AfterAttribution => TheAttribution(episode, evaluation, attribution)

\* What a principle at p rests on.
RestsOn(p, plan, begun, episode, kept, evaluation, attribution) ==
  /\ ledger[p].sources = {episode, evaluation}
  /\ OfRun(plan, p, "experiment-plan")
  /\ OfRun(begun, p, Moved) /\ ledger[begun].detail = "RUNNING" /\ plan <= begun
  /\ OfRun(episode, p, Episode) /\ begun <= episode
  /\ OfRun(kept, p, Moved) /\ ledger[kept].detail = "OBSERVED" /\ episode <= kept
  /\ OfRun(evaluation, p, "evaluation-result") /\ kept <= evaluation
  /\ OfRun(attribution, p, "causal-attribution") /\ evaluation <= attribution
  /\ ledger[attribution].sources = {episode, evaluation}
  /\ ledger[attribution].detail = "supported" <=> ledger[evaluation].detail = "PASS"

Rests(p) ==
  \E plan, begun, episode, kept, evaluation, attribution \in 1 .. p :
    RestsOn(p, plan, begun, episode, kept, evaluation, attribution)

SomethingBehind ==
  \E plan, begun, episode, kept, evaluation, attribution \in 0 .. Len(ledger) :
    Behind(plan, begun, episode, kept, evaluation, attribution)

OldPrinciples ==
  \A p \in 1 .. Len(ledger) : ledger[p].kind = "learned-principle-proposal" => Rests(p)

\* The ledger only grows.
Prefix ==
  /\ Len(ledger) \in Nat /\ Len(ledger') \in Nat /\ Len(ledger) <= Len(ledger')
  /\ \A i \in 1 .. Len(ledger) : ledger'[i] = ledger[i]

\* An append leaves the records before it where they are.
LEMMA GrowsPrefix ==
  ASSUME TypeOK, NEW record \in Records, Grows(record)
  PROVE  Prefix
<1>1. CASE ledger' = ledger
  BY <1>1 DEF TypeOK, Prefix
<1>2. CASE ledger' = Append(ledger, record)
  BY <1>2, GrownLedger DEF Prefix
<1> QED BY <1>1, <1>2 DEF Grows

\* What a run has behind it stays behind it.
LEMMA StagesKept ==
  ASSUME Prefix, UNCHANGED <<calls, request>>,
         NEW plan, NEW begun, NEW episode, NEW kept, NEW evaluation, NEW attribution
  PROVE  /\ ThePlan(plan) => ThePlan(plan)'
         /\ TheBegin(plan, begun) => TheBegin(plan, begun)'
         /\ TheEpisode(begun, episode) => TheEpisode(begun, episode)'
         /\ TheKept(episode, kept) => TheKept(episode, kept)'
         /\ TheEvaluation(kept, evaluation) => TheEvaluation(kept, evaluation)'
         /\ TheAttribution(episode, evaluation, attribution)
              => TheAttribution(episode, evaluation, attribution)'
<1>1. \A i, kind : Wrote(i, kind) => Wrote(i, kind)' /\ ledger'[i] = ledger[i]
  BY DEF Wrote, Prefix
<1> QED
  BY <1>1 DEF ThePlan, TheBegin, TheEpisode, TheKept, TheEvaluation, TheAttribution

\* Principles that rest on evidence do so for good.
LEMMA RestsKept ==
  ASSUME Prefix, NEW p \in 1 .. Len(ledger), Rests(p)
  PROVE  Rests(p)'
<1>1. PICK plan \in 1 .. p, begun \in 1 .. p, episode \in 1 .. p, kept \in 1 .. p,
           evaluation \in 1 .. p, attribution \in 1 .. p :
        RestsOn(p, plan, begun, episode, kept, evaluation, attribution)
  BY DEF Rests
<1>2. \A i \in 1 .. p : ledger'[i] = ledger[i]
  BY DEF Prefix
<1>3. p \in 1 .. p
  OBVIOUS
<1>4. \A kind : \A i \in 1 .. p : OfRun(i, p, kind) => OfRun(i, p, kind)'
  BY <1>2, <1>3 DEF OfRun
<1>5. RestsOn(p, plan, begun, episode, kept, evaluation, attribution)'
  BY <1>1, <1>2, <1>3, <1>4 DEF RestsOn
<1> QED BY <1>5 DEF Rests

\* Only an append of a principle can add one.
LEMMA PrinciplesKept ==
  ASSUME TypeOK, OldPrinciples, NEW record \in Records, Grows(record),
         record.kind # "learned-principle-proposal"
  PROVE  OldPrinciples'
<1>1. Prefix
  BY GrowsPrefix
<1>2. ASSUME NEW p \in 1 .. Len(ledger'), ledger'[p].kind = "learned-principle-proposal"
      PROVE  Rests(p)'
  <2>1. p \in 1 .. Len(ledger)
    BY <1>2, GrownLedger DEF Grows
  <2>2. Rests(p)
    BY <1>1, <1>2, <2>1 DEF OldPrinciples, Prefix
  <2> QED BY <1>1, <2>1, <2>2, RestsKept
<1> QED BY <1>2 DEF OldPrinciples

\* Between calls, and until the plan is recorded, nothing need be behind.
LEMMA NothingBehind ==
  ASSUME Len(ledger') \in Nat, at' \notin AfterPlan
  PROVE  SomethingBehind'
<1>1. 0 \in 0 .. Len(ledger')
  OBVIOUS
<1>2. Behind(0, 0, 0, 0, 0, 0)'
  BY DEF Behind, AfterPlan, AfterBegin, AfterEpisode, AfterBudget, AfterEvaluation, AfterAttribution
<1> QED BY <1>1, <1>2 DEF SomethingBehind

\* append() raised, or its record is the last one and tells what it was given.
LEMMA Logged ==
  ASSUME TypeOK, NEW kind \in Kinds, NEW detail \in Details, NEW sources \in SUBSET Nat, NEW next,
         Log(kind, detail, sources, next), UNCHANGED <<calls, request, restarts>>
  PROVE  /\ Prefix
         /\ kind # "learned-principle-proposal" /\ OldPrinciples => OldPrinciples'
         /\ \/ at' = "idle"
            \/ /\ at' = next
               /\ \E n \in 0 .. Len(ledger') :
                    /\ n = Len(ledger) + 1
                    /\ Wrote(n, kind)' /\ ledger'[n].detail = detail /\ ledger'[n].sources = sources
<1> DEFINE record == Record(kind, detail, sources)
<1>1. calls \in Nat /\ restarts \in Nat
  BY BoundsAssumption DEF TypeOK
<1>2. /\ record \in Records /\ record.kind = kind
      /\ kind # Episode => record.experiment = request.experiment
      /\ record.run = calls /\ record.detail = detail /\ record.sources = sources
  BY <1>1, RequestTyped DEF Record, Records, Named, Episode
<1>3. \/ at' = "idle" /\ ledger' \in {ledger, Append(ledger, record)}
      \/ at' = next /\ ledger' = Append(ledger, record)
  BY DEF Log, Raise
<1> HIDE DEF record
<1>4. Grows(record)
  BY <1>3 DEF Grows
<1>5. Prefix
  BY <1>2, <1>4, GrowsPrefix
<1>6. kind # "learned-principle-proposal" /\ OldPrinciples => OldPrinciples'
  BY <1>2, <1>4, PrinciplesKept
<1>7. CASE at' = next /\ ledger' = Append(ledger, record)
  <2>1. /\ Len(ledger) \in Nat /\ Len(ledger') = Len(ledger) + 1
        /\ ledger'[Len(ledger) + 1] = record
    BY <1>2, <1>7, GrownLedger
  <2>2. PICK n \in 0 .. Len(ledger') : n = Len(ledger) + 1
    BY <2>1
  <2>3. Wrote(n, kind)'
    BY <1>2, <2>1, <2>2 DEF Wrote
  <2>4. ledger'[n].detail = detail /\ ledger'[n].sources = sources
    BY <1>2, <2>1, <2>2
  <2> QED BY <1>5, <1>6, <1>7, <2>2, <2>3, <2>4
<1> QED BY <1>3, <1>5, <1>6, <1>7

\* The invariant with what is behind the run and what the principles rest on.
BehindInv == OInv /\ SomethingBehind /\ OldPrinciples

\* The positions of what is behind the run.
LEMMA WhatIsBehind ==
  ASSUME BehindInv, Prefix
  PROVE  \E plan, begun, episode, kept, evaluation, attribution \in 0 .. Len(ledger') :
           /\ Behind(plan, begun, episode, kept, evaluation, attribution)
           /\ plan \in 0 .. Len(ledger) /\ begun \in 0 .. Len(ledger) /\ episode \in 0 .. Len(ledger)
           /\ kept \in 0 .. Len(ledger) /\ evaluation \in 0 .. Len(ledger)
           /\ attribution \in 0 .. Len(ledger)
<1>1. PICK plan \in 0 .. Len(ledger), begun \in 0 .. Len(ledger), episode \in 0 .. Len(ledger),
           kept \in 0 .. Len(ledger), evaluation \in 0 .. Len(ledger),
           attribution \in 0 .. Len(ledger) :
        Behind(plan, begun, episode, kept, evaluation, attribution)
  BY DEF BehindInv, SomethingBehind
<1>2. 0 .. Len(ledger) \subseteq 0 .. Len(ledger')
  BY DEF Prefix
<1>3. /\ plan \in 0 .. Len(ledger') /\ begun \in 0 .. Len(ledger') /\ episode \in 0 .. Len(ledger')
      /\ kept \in 0 .. Len(ledger') /\ evaluation \in 0 .. Len(ledger')
      /\ attribution \in 0 .. Len(ledger')
  BY <1>2
<1> QED BY <1>1, <1>3

\* A step that only moves run() on, by a record of no new kind of evidence.
LEMMA SameBehind ==
  ASSUME BehindInv, Prefix, UNCHANGED <<calls, request, lineage>>, OldPrinciples',
         \/ at = "preregister" /\ at' \in {"begin", "idle"}
         \/ at = "evaluated" /\ at' \in {"attribution", "idle"}
         \/ at = "attributed" /\ at' \in {"principle", "idle"}
         \/ at = "principle" /\ at' \in {"distilled", "idle"}
         \/ at' = "idle"
  PROVE  SomethingBehind'
<1>1. CASE at' \notin AfterPlan
  BY <1>1, NothingBehind DEF Prefix
<1>2. CASE at' \in AfterPlan
  <2>1. PICK plan \in 0 .. Len(ledger'), begun \in 0 .. Len(ledger'), episode \in 0 .. Len(ledger'),
             kept \in 0 .. Len(ledger'), evaluation \in 0 .. Len(ledger'),
             attribution \in 0 .. Len(ledger') :
          Behind(plan, begun, episode, kept, evaluation, attribution)
    BY WhatIsBehind
  <2>2. /\ at' \in AfterPlan => at \in AfterPlan
        /\ at' \in AfterBegin => at \in AfterBegin
        /\ at' \in AfterEpisode => at \in AfterEpisode
        /\ at' \in AfterBudget => at \in AfterBudget
        /\ at' \in AfterEvaluation => at \in AfterEvaluation
        /\ at' \in AfterAttribution => at \in AfterAttribution
    BY DEF AfterPlan, AfterBegin, AfterEpisode, AfterBudget, AfterEvaluation, AfterAttribution
  <2>3. Behind(plan, begun, episode, kept, evaluation, attribution)'
    BY <2>1, <2>2, StagesKept DEF Behind
  <2> QED BY <2>3 DEF SomethingBehind
<1> QED BY <1>1, <1>2

\* A transition raised, or its record is the last one and tells the new state.
LEMMA MoveLogged ==
  ASSUME BehindInv, NEW expected, NEW new \in States, NEW next,
         Move(expected, new, next), UNCHANGED <<calls, request, restarts>>
  PROVE  /\ Prefix
         /\ OldPrinciples'
         /\ \/ at' = "idle"
            \/ /\ at' = next
               /\ \E n \in 0 .. Len(ledger') :
                    n = Len(ledger) + 1 /\ Wrote(n, Moved)' /\ ledger'[n].detail = new
<1>t. TypeOK /\ OldPrinciples
  BY DEF BehindInv, OInv
<1>1. CASE at' = "idle" /\ ledger' = ledger
  <2>1. Prefix
    BY <1>t, <1>1 DEF TypeOK, Prefix
  <2>2. \A p \in 1 .. Len(ledger) : Rests(p) => Rests(p)'
    BY <2>1, RestsKept
  <2>3. OldPrinciples'
    BY <1>t, <1>1, <2>2 DEF OldPrinciples
  <2> QED BY <1>1, <2>1, <2>3
<1>2. CASE Log(Moved, new, {}, next)
  <2>1. Moved \in Kinds /\ new \in Details /\ {} \in SUBSET Nat /\ Moved # "learned-principle-proposal"
    BY DEF Moved, Kinds, Details
  <2> QED BY <1>t, <1>2, <2>1, Logged
<1> QED BY <1>1, <1>2 DEF Move, Raise, Moved

\* Each step of run() that goes on has its own record behind it, after the ones before.
LEMMA HypothesisBehind == BehindInv /\ RecordHypothesis => SomethingBehind' /\ OldPrinciples'
<1> SUFFICES ASSUME BehindInv, RecordHypothesis PROVE SomethingBehind' /\ OldPrinciples'
  OBVIOUS
<1>1. /\ Log("causal-hypothesis", "", {}, "plan") /\ UNCHANGED <<request, calls, restarts>>
      /\ "causal-hypothesis" \in Kinds /\ "" \in Details /\ {} \in SUBSET Nat
      /\ TypeOK /\ OldPrinciples
  BY DEF RecordHypothesis, Kinds, Details, BehindInv, OInv
<1>2. Prefix /\ OldPrinciples' /\ at' \in {"plan", "idle"}
  BY <1>1, Logged
<1>3. at' \notin AfterPlan
  BY <1>2 DEF AfterPlan, AfterBegin, AfterEpisode, AfterBudget, AfterEvaluation, AfterAttribution
<1> QED BY <1>2, <1>3, NothingBehind DEF Prefix

\* The plan comes after its hypothesis (line 638).
LEMMA PlanBehind == BehindInv /\ RecordPlan => SomethingBehind' /\ OldPrinciples'
<1> SUFFICES ASSUME BehindInv, RecordPlan PROVE SomethingBehind' /\ OldPrinciples'
  OBVIOUS
<1>1. /\ Log("experiment-plan", "", {}, "preregister") /\ UNCHANGED <<request, calls, restarts>>
      /\ "experiment-plan" \in Kinds /\ "" \in Details /\ {} \in SUBSET Nat
      /\ TypeOK /\ OldPrinciples
  BY DEF RecordPlan, Kinds, Details, BehindInv, OInv
<1>2. /\ Prefix /\ OldPrinciples'
      /\ \/ at' = "idle"
         \/ at' = "preregister" /\ \E n \in 0 .. Len(ledger') : Wrote(n, "experiment-plan")'
  BY <1>1, Logged
<1>3. CASE at' = "idle"
  BY <1>2, <1>3, NothingBehind
     DEF Prefix, AfterPlan, AfterBegin, AfterEpisode, AfterBudget, AfterEvaluation, AfterAttribution
<1>4. CASE at' = "preregister" /\ \E n \in 0 .. Len(ledger') : Wrote(n, "experiment-plan")'
  <2>1. PICK n \in 0 .. Len(ledger') : Wrote(n, "experiment-plan")'
    BY <1>4
  <2>2. Behind(n, 0, 0, 0, 0, 0)'
    BY <1>4, <2>1 DEF Behind, ThePlan, AfterPlan, AfterBegin, AfterEpisode, AfterBudget,
                      AfterEvaluation, AfterAttribution
  <2>3. 0 \in 0 .. Len(ledger')
    BY <1>2 DEF Prefix
  <2> QED BY <1>2, <2>2, <2>3 DEF SomethingBehind
<1> QED BY <1>2, <1>3, <1>4

\* Beginning to execute logs a transition and nothing that is cited.
LEMMA BeginBehind == BehindInv /\ BeginExecution => SomethingBehind' /\ OldPrinciples'
<1> SUFFICES ASSUME BehindInv, BeginExecution PROVE SomethingBehind' /\ OldPrinciples'
  OBVIOUS
<1>1. /\ at = "begin" /\ Move("PREREGISTERED", "RUNNING", "episode")
      /\ UNCHANGED <<request, calls, restarts, lineage>> /\ "RUNNING" \in States
  BY DEF BeginExecution, States
<1>2. /\ Prefix /\ OldPrinciples'
      /\ \/ at' = "idle"
         \/ /\ at' = "episode"
            /\ \E n \in 0 .. Len(ledger') :
                 n = Len(ledger) + 1 /\ Wrote(n, Moved)' /\ ledger'[n].detail = "RUNNING"
  BY <1>1, MoveLogged
<1>3. CASE at' = "idle"
  BY <1>2, <1>3, NothingBehind
     DEF Prefix, AfterPlan, AfterBegin, AfterEpisode, AfterBudget, AfterEvaluation, AfterAttribution
<1>4. CASE at' = "episode" /\ ~ (at' = "idle")
  <2>1. PICK n \in 0 .. Len(ledger') :
          n = Len(ledger) + 1 /\ Wrote(n, Moved)' /\ ledger'[n].detail = "RUNNING"
    BY <1>2, <1>4
  <2>2. PICK plan \in 0 .. Len(ledger'), begun \in 0 .. Len(ledger'), episode \in 0 .. Len(ledger'),
             kept \in 0 .. Len(ledger'), evaluation \in 0 .. Len(ledger'),
             attribution \in 0 .. Len(ledger') :
          Behind(plan, begun, episode, kept, evaluation, attribution) /\ plan \in 0 .. Len(ledger)
    BY <1>2, WhatIsBehind
  <2>3. ThePlan(plan) /\ plan <= n
    BY <1>1, <1>2, <2>1, <2>2
       DEF Behind, Prefix, AfterPlan, AfterBegin
  <2>4. ThePlan(plan)' /\ TheBegin(plan, n)'
    BY <1>1, <1>2, <2>1, <2>3, StagesKept DEF TheBegin
  <2>5. Behind(plan, n, episode, kept, evaluation, attribution)'
    BY <1>4, <2>4 DEF Behind, AfterEpisode, AfterBudget, AfterEvaluation, AfterAttribution
  <2> QED BY <1>2, <2>5 DEF SomethingBehind
<1> QED BY <1>2, <1>3, <1>4

\* A position appended to a run's sources leaves the earlier ones where they are.
LEMMA SecondSource ==
  ASSUME NEW l \in Seq(Nat), NEW n \in Nat
  PROVE  /\ \A i \in 1 .. Len(l) : Append(l, n)[i] = l[i]
         /\ Append(l, n)[Len(l) + 1] = n
OBVIOUS

\* The episode comes after its plan, and the run holds it as a source.
LEMMA EpisodeBehind == BehindInv /\ RecordEpisode => SomethingBehind' /\ OldPrinciples'
<1> SUFFICES ASSUME BehindInv, RecordEpisode PROVE SomethingBehind' /\ OldPrinciples'
  OBVIOUS
<1>1. /\ at = "episode" /\ Log(Episode, "", {}, "budget")
      /\ UNCHANGED <<request, calls, restarts>> /\ lineage' = <<Len(ledger) + 1>>
      /\ Episode \in Kinds /\ "" \in Details /\ {} \in SUBSET Nat
      /\ Episode # "learned-principle-proposal" /\ TypeOK /\ OldPrinciples
  BY DEF RecordEpisode, Kinds, Details, BehindInv, OInv, Episode
<1>2. /\ Prefix /\ OldPrinciples'
      /\ \/ at' = "idle"
         \/ at' = "budget" /\ \E n \in 0 .. Len(ledger') : n = Len(ledger) + 1 /\ Wrote(n, Episode)'
  BY <1>1, Logged
<1>3. CASE at' = "idle"
  BY <1>2, <1>3, NothingBehind
     DEF Prefix, AfterPlan, AfterBegin, AfterEpisode, AfterBudget, AfterEvaluation, AfterAttribution
<1>4. CASE at' = "budget" /\ ~ (at' = "idle")
  <2>1. PICK n \in 0 .. Len(ledger') : n = Len(ledger) + 1 /\ Wrote(n, Episode)'
    BY <1>2, <1>4
  <2>2. PICK plan \in 0 .. Len(ledger'), begun \in 0 .. Len(ledger'), episode \in 0 .. Len(ledger'),
             kept \in 0 .. Len(ledger'), evaluation \in 0 .. Len(ledger'),
             attribution \in 0 .. Len(ledger') :
          Behind(plan, begun, episode, kept, evaluation, attribution) /\ begun \in 0 .. Len(ledger)
    BY <1>2, WhatIsBehind
  <2>3. ThePlan(plan) /\ TheBegin(plan, begun) /\ begun <= n
    <3>1. at \in AfterPlan /\ at \in AfterBegin
      BY <1>1 DEF AfterPlan, AfterBegin
    <3>2. begun <= n
      BY <1>2, <2>1, <2>2 DEF Prefix
    <3> QED BY <2>2, <3>1, <3>2 DEF Behind
  <2>4. ThePlan(plan)' /\ TheBegin(plan, begun)' /\ TheEpisode(begun, n)'
    BY <1>1, <1>2, <2>1, <2>3, StagesKept DEF TheEpisode
  <2>5. lineage'[1] = n
    BY <1>1, <2>1
  <2>6. Behind(plan, begun, n, kept, evaluation, attribution)'
    BY <1>4, <2>4, <2>5 DEF Behind, AfterBudget, AfterEvaluation, AfterAttribution
  <2> QED BY <1>2, <2>6 DEF SomethingBehind
<1> QED BY <1>2, <1>3, <1>4

\* The check of the budget logs a transition at most.
LEMMA BudgetBehind == BehindInv /\ CheckBudget => SomethingBehind' /\ OldPrinciples'
<1> SUFFICES ASSUME BehindInv, CheckBudget PROVE SomethingBehind' /\ OldPrinciples'
  OBVIOUS
<1>1. /\ at = "budget" /\ UNCHANGED <<request, calls, restarts, lineage>>
      /\ "OBSERVED" \in States /\ "REJECTED" \in States
      /\ \/ Move("RUNNING", "OBSERVED", "evaluation")
         \/ Move("RUNNING", "OBSERVED", "idle")
         \/ Move("RUNNING", "REJECTED", "idle")
  BY DEF CheckBudget, States
<1>2. /\ Prefix /\ OldPrinciples'
      /\ \/ at' = "idle"
         \/ /\ at' = "evaluation"
            /\ \E n \in 0 .. Len(ledger') :
                 n = Len(ledger) + 1 /\ Wrote(n, Moved)' /\ ledger'[n].detail = "OBSERVED"
  <2>1. CASE Move("RUNNING", "OBSERVED", "evaluation")
    BY <1>1, <2>1, MoveLogged
  <2>2. CASE Move("RUNNING", "OBSERVED", "idle")
    BY <1>1, <2>2, MoveLogged
  <2>3. CASE Move("RUNNING", "REJECTED", "idle")
    BY <1>1, <2>3, MoveLogged
  <2> QED BY <1>1, <2>1, <2>2, <2>3
<1>3. CASE at' = "idle"
  BY <1>2, <1>3, NothingBehind
     DEF Prefix, AfterPlan, AfterBegin, AfterEpisode, AfterBudget, AfterEvaluation, AfterAttribution
<1>4. CASE at' = "evaluation" /\ ~ (at' = "idle")
  <2>1. PICK n \in 0 .. Len(ledger') :
          n = Len(ledger) + 1 /\ Wrote(n, Moved)' /\ ledger'[n].detail = "OBSERVED"
    BY <1>2, <1>4
  <2>2. PICK plan \in 0 .. Len(ledger'), begun \in 0 .. Len(ledger'), episode \in 0 .. Len(ledger'),
             kept \in 0 .. Len(ledger'), evaluation \in 0 .. Len(ledger'),
             attribution \in 0 .. Len(ledger') :
          Behind(plan, begun, episode, kept, evaluation, attribution) /\ episode \in 0 .. Len(ledger)
    BY <1>2, WhatIsBehind
  <2>3. /\ ThePlan(plan) /\ TheBegin(plan, begun) /\ TheEpisode(begun, episode)
        /\ lineage[1] = episode /\ episode <= n
    BY <1>1, <1>2, <2>1, <2>2 DEF Behind, Prefix, AfterPlan, AfterBegin, AfterEpisode
  <2>4. ThePlan(plan)' /\ TheBegin(plan, begun)' /\ TheEpisode(begun, episode)' /\ TheKept(episode, n)'
    BY <1>1, <1>2, <2>1, <2>3, StagesKept DEF TheKept
  <2>5. lineage'[1] = episode
    BY <1>1, <2>3
  <2>6. Behind(plan, begun, episode, n, evaluation, attribution)'
    BY <1>4, <2>4, <2>5 DEF Behind, AfterEvaluation, AfterAttribution
  <2> QED BY <1>2, <2>6 DEF SomethingBehind
<1> QED BY <1>2, <1>3, <1>4

\* The evaluation comes after the episode, and the run holds both as sources.
LEMMA EvaluationBehind == BehindInv /\ RecordEvaluation => SomethingBehind' /\ OldPrinciples'
<1> SUFFICES ASSUME BehindInv, RecordEvaluation PROVE SomethingBehind' /\ OldPrinciples'
  OBVIOUS
<1> DEFINE verdict == Evaluate(request.hard_gates)
<1>1. /\ at = "evaluation" /\ Log("evaluation-result", verdict, {}, "evaluated")
      /\ UNCHANGED <<request, calls, restarts>> /\ lineage' = Append(lineage, Len(ledger) + 1)
      /\ "evaluation-result" \in Kinds /\ {} \in SUBSET Nat /\ TypeOK /\ OldPrinciples
  BY DEF RecordEvaluation, Kinds, BehindInv, OInv
<1>2. verdict \in Details /\ verdict' = verdict
  BY <1>1 DEF Evaluate, Details
<1>3. Len(lineage) = 1 /\ lineage \in Seq(Nat) /\ Len(ledger) + 1 \in Nat
  BY <1>1 DEF BehindInv, OInv, StateAtPoint, TypeOK
<1>4. /\ Prefix /\ OldPrinciples'
      /\ \/ at' = "idle"
         \/ /\ at' = "evaluated"
            /\ \E n \in 0 .. Len(ledger') :
                 n = Len(ledger) + 1 /\ Wrote(n, "evaluation-result")' /\ ledger'[n].detail = verdict
  <2> HIDE DEF verdict
  <2> QED BY <1>1, <1>2, Logged
<1>5. CASE at' = "idle"
  BY <1>4, <1>5, NothingBehind
     DEF Prefix, AfterPlan, AfterBegin, AfterEpisode, AfterBudget, AfterEvaluation, AfterAttribution
<1>6. CASE at' = "evaluated" /\ ~ (at' = "idle")
  <2>1. PICK n \in 0 .. Len(ledger') :
          n = Len(ledger) + 1 /\ Wrote(n, "evaluation-result")' /\ ledger'[n].detail = verdict
    BY <1>4, <1>6
  <2>2. PICK plan \in 0 .. Len(ledger'), begun \in 0 .. Len(ledger'), episode \in 0 .. Len(ledger'),
             kept \in 0 .. Len(ledger'), evaluation \in 0 .. Len(ledger'),
             attribution \in 0 .. Len(ledger') :
          Behind(plan, begun, episode, kept, evaluation, attribution) /\ kept \in 0 .. Len(ledger)
    BY <1>4, WhatIsBehind
  <2>3. /\ ThePlan(plan) /\ TheBegin(plan, begun) /\ TheEpisode(begun, episode) /\ TheKept(episode, kept)
        /\ lineage[1] = episode /\ kept <= n
    BY <1>1, <1>4, <2>1, <2>2 DEF Behind, Prefix, AfterPlan, AfterBegin, AfterEpisode, AfterBudget
  <2>4. /\ ThePlan(plan)' /\ TheBegin(plan, begun)' /\ TheEpisode(begun, episode)'
        /\ TheKept(episode, kept)'
    BY <1>1, <1>4, <2>3, StagesKept
  <2>5. TheEvaluation(kept, n)'
    BY <1>2, <2>1, <2>3 DEF TheEvaluation
  <2>6. lineage'[1] = episode /\ lineage'[2] = n
    <3>1. /\ \A i \in 1 .. Len(lineage) : Append(lineage, n)[i] = lineage[i]
          /\ Append(lineage, n)[Len(lineage) + 1] = n
      BY <1>3, <2>1, SecondSource
    <3>2. 1 \in 1 .. Len(lineage) /\ Len(lineage) + 1 = 2 /\ lineage' = Append(lineage, n)
      BY <1>1, <1>3, <2>1
    <3> QED BY <2>3, <3>1, <3>2
  <2>7. Behind(plan, begun, episode, kept, n, attribution)'
    BY <1>6, <2>4, <2>5, <2>6 DEF Behind, AfterAttribution
  <2> QED BY <1>4, <2>7 DEF SomethingBehind
<1> QED BY <1>4, <1>5, <1>6

\* The attribution comes after the evaluation.
LEMMA AttributionBehind == BehindInv /\ RecordAttribution => SomethingBehind' /\ OldPrinciples'
<1> SUFFICES ASSUME BehindInv, RecordAttribution PROVE SomethingBehind' /\ OldPrinciples'
  OBVIOUS
<1> DEFINE claim == Disposition(Evaluate(request.hard_gates))
<1> DEFINE sources == {lineage[1], lineage[2]}
<1>1. /\ at = "attribution" /\ Log("causal-attribution", claim, sources, "attributed")
      /\ UNCHANGED <<request, calls, restarts, lineage>>
      /\ "causal-attribution" \in Kinds /\ TypeOK /\ OldPrinciples /\ OInv
  BY DEF RecordAttribution, Kinds, BehindInv, OInv
<1>2. claim \in Details /\ claim' = claim
  BY <1>1 DEF Disposition, Evaluate, Details
<1>3. sources \in SUBSET Nat
  BY <1>1, SourcesTyped
<1>4. /\ Prefix /\ OldPrinciples'
      /\ \/ at' = "idle"
         \/ /\ at' = "attributed"
            /\ \E n \in 0 .. Len(ledger') :
                 /\ n = Len(ledger) + 1 /\ Wrote(n, "causal-attribution")'
                 /\ ledger'[n].detail = claim /\ ledger'[n].sources = sources
  <2> HIDE DEF claim, sources
  <2> QED BY <1>1, <1>2, <1>3, Logged
<1>5. CASE at' = "idle"
  BY <1>4, <1>5, NothingBehind
     DEF Prefix, AfterPlan, AfterBegin, AfterEpisode, AfterBudget, AfterEvaluation, AfterAttribution
<1>6. CASE at' = "attributed" /\ ~ (at' = "idle")
  <2>1. PICK n \in 0 .. Len(ledger') :
          /\ n = Len(ledger) + 1 /\ Wrote(n, "causal-attribution")'
          /\ ledger'[n].detail = claim /\ ledger'[n].sources = sources
    BY <1>4, <1>6
  <2>2. PICK plan \in 0 .. Len(ledger'), begun \in 0 .. Len(ledger'), episode \in 0 .. Len(ledger'),
             kept \in 0 .. Len(ledger'), evaluation \in 0 .. Len(ledger'),
             attribution \in 0 .. Len(ledger') :
          /\ Behind(plan, begun, episode, kept, evaluation, attribution)
          /\ evaluation \in 0 .. Len(ledger)
    BY <1>4, WhatIsBehind
  <2>3. /\ ThePlan(plan) /\ TheBegin(plan, begun) /\ TheEpisode(begun, episode) /\ TheKept(episode, kept)
        /\ TheEvaluation(kept, evaluation)
        /\ lineage[1] = episode /\ lineage[2] = evaluation /\ evaluation <= n
    BY <1>1, <1>4, <2>1, <2>2
       DEF Behind, Prefix, AfterPlan, AfterBegin, AfterEpisode, AfterBudget, AfterEvaluation
  <2>4. /\ ThePlan(plan)' /\ TheBegin(plan, begun)' /\ TheEpisode(begun, episode)'
        /\ TheKept(episode, kept)' /\ TheEvaluation(kept, evaluation)'
    BY <1>1, <1>4, <2>3, StagesKept
  <2>5. TheAttribution(episode, evaluation, n)'
    BY <1>2, <2>1, <2>3 DEF TheAttribution
  <2>6. lineage'[1] = episode /\ lineage'[2] = evaluation
    BY <1>1, <2>3
  <2>7. Behind(plan, begun, episode, kept, evaluation, n)'
    BY <2>4, <2>5, <2>6 DEF Behind
  <2> QED BY <1>4, <2>7 DEF SomethingBehind
<1> QED BY <1>4, <1>5, <1>6

\* A proposed principle, its append raising or not, rests on what is behind the run.
LEMMA PrincipleBehind == BehindInv /\ RecordPrinciple => SomethingBehind' /\ OldPrinciples'
<1> SUFFICES ASSUME BehindInv, RecordPrinciple PROVE SomethingBehind' /\ OldPrinciples'
  OBVIOUS
<1> DEFINE kind == "learned-principle-proposal"
<1> DEFINE sources == {lineage[1], lineage[2]}
<1> DEFINE record == Record(kind, "provisional", sources)
<1>1. /\ at = "principle" /\ Log(kind, "provisional", sources, "distilled")
      /\ UNCHANGED <<request, calls, restarts, lineage>>
      /\ kind \in Kinds /\ "provisional" \in Details /\ TypeOK /\ OldPrinciples /\ OInv
  BY DEF RecordPrinciple, Kinds, Details, BehindInv, OInv
<1>2. calls \in Nat /\ restarts \in Nat /\ sources \in SUBSET Nat
  <2>1. calls \in Nat /\ restarts \in Nat
    BY <1>1, BoundsAssumption DEF TypeOK
  <2>2. sources \in SUBSET Nat
    BY <1>1, SourcesTyped
  <2> QED BY <2>1, <2>2
<1>3. /\ record \in Records /\ record.kind = kind /\ record.experiment = request.experiment
      /\ record.run = calls /\ record.sources = sources
  BY <1>1, <1>2, RequestTyped DEF Record, Records, Named
<1>4. ledger' \in {ledger, Append(ledger, record)} /\ at' \in {"distilled", "idle"}
  BY <1>1 DEF Log, Raise
<1> HIDE DEF record
<1>5. Prefix
  BY <1>1, <1>3, <1>4, GrowsPrefix DEF Grows
<1>6. SomethingBehind'
  <2>1. at' \notin AfterPlan
    BY <1>4 DEF AfterPlan, AfterBegin, AfterEpisode, AfterBudget, AfterEvaluation, AfterAttribution
  <2> QED BY <1>5, <2>1, NothingBehind DEF Prefix
<1>7. \A p \in 1 .. Len(ledger) : ledger'[p].kind = kind => Rests(p)'
  <2>1. \A p \in 1 .. Len(ledger) : ledger[p].kind = kind => Rests(p)
    BY <1>1 DEF OldPrinciples
  <2>2. \A p \in 1 .. Len(ledger) : Rests(p) => Rests(p)'
    BY <1>5, RestsKept
  <2> QED BY <1>5, <2>1, <2>2 DEF Prefix
<1>8. ASSUME NEW n \in 1 .. Len(ledger'), n = Len(ledger) + 1, ledger' = Append(ledger, record)
      PROVE  Rests(n)'
  <2>1. ledger'[n] = record
    BY <1>1, <1>3, <1>8, GrownLedger
  <2>2. PICK plan \in 0 .. Len(ledger'), begun \in 0 .. Len(ledger'), episode \in 0 .. Len(ledger'),
             kept \in 0 .. Len(ledger'), evaluation \in 0 .. Len(ledger'),
             attribution \in 0 .. Len(ledger') :
          Behind(plan, begun, episode, kept, evaluation, attribution)
    BY <1>5, WhatIsBehind
  <2>3. /\ at \in AfterPlan /\ at \in AfterBegin /\ at \in AfterEpisode /\ at \in AfterBudget
        /\ at \in AfterEvaluation /\ at \in AfterAttribution
    BY <1>1 DEF AfterPlan, AfterBegin, AfterEpisode, AfterBudget, AfterEvaluation, AfterAttribution
  <2>4. /\ ThePlan(plan) /\ TheBegin(plan, begun) /\ TheEpisode(begun, episode) /\ TheKept(episode, kept)
        /\ TheEvaluation(kept, evaluation) /\ TheAttribution(episode, evaluation, attribution)
        /\ lineage[1] = episode /\ lineage[2] = evaluation
    BY <2>2, <2>3 DEF Behind
  <2>5. \A i, k : Wrote(i, k) => i \in 1 .. n /\ ledger'[i] = ledger[i] /\ OfRun(i, n, k)'
    BY <1>3, <1>5, <1>8, <2>1 DEF Wrote, OfRun, Prefix, Episode
  <2>6. ledger'[n].sources = {episode, evaluation}
    BY <1>3, <2>1, <2>4
  <2>7. /\ plan \in 1 .. n /\ OfRun(plan, n, "experiment-plan")'
        /\ begun \in 1 .. n /\ OfRun(begun, n, Moved)' /\ ledger'[begun].detail = "RUNNING"
        /\ plan <= begun
        /\ episode \in 1 .. n /\ OfRun(episode, n, Episode)' /\ begun <= episode
    BY <2>4, <2>5 DEF ThePlan, TheBegin, TheEpisode
  <2>8. /\ kept \in 1 .. n /\ OfRun(kept, n, Moved)' /\ ledger'[kept].detail = "OBSERVED"
        /\ episode <= kept
        /\ evaluation \in 1 .. n /\ OfRun(evaluation, n, "evaluation-result")' /\ kept <= evaluation
        /\ ledger'[evaluation].detail = Evaluate(request.hard_gates)
    BY <2>4, <2>5 DEF TheKept, TheEvaluation
  <2>9. /\ attribution \in 1 .. n /\ OfRun(attribution, n, "causal-attribution")'
        /\ evaluation <= attribution
        /\ ledger'[attribution].sources = {episode, evaluation}
        /\ ledger'[attribution].detail = Disposition(Evaluate(request.hard_gates))
    BY <2>4, <2>5 DEF TheAttribution
  <2>10. ledger'[attribution].detail = "supported" <=> ledger'[evaluation].detail = "PASS"
    BY <2>8, <2>9 DEF Disposition
  <2>11. RestsOn(n, plan, begun, episode, kept, evaluation, attribution)'
    BY <2>6, <2>7, <2>8, <2>9, <2>10 DEF RestsOn
  <2> QED BY <2>7, <2>8, <2>9, <2>11 DEF Rests
<1>9. ASSUME NEW p \in 1 .. Len(ledger'), ledger'[p].kind = kind
      PROVE  Rests(p)'
  <2>1. p \in 1 .. Len(ledger) \/ (p = Len(ledger) + 1 /\ ledger' = Append(ledger, record))
    BY <1>1, <1>3, <1>4, GrownLedger
  <2> QED BY <1>7, <1>8, <1>9, <2>1
<1> QED BY <1>6, <1>9 DEF OldPrinciples

\* A transition whose record is no evidence of its own.
LEMMA MarkBehind ==
  BehindInv /\ (Preregister \/ MarkEvaluated \/ MarkAttributed \/ MarkDistilled)
    => SomethingBehind' /\ OldPrinciples'
<1> SUFFICES ASSUME BehindInv, Preregister \/ MarkEvaluated \/ MarkAttributed \/ MarkDistilled
             PROVE  SomethingBehind' /\ OldPrinciples'
  OBVIOUS
<1>1. CASE Preregister
  <2>1. /\ at = "preregister" /\ Move("DRAFT", "PREREGISTERED", "begin") /\ "PREREGISTERED" \in States
        /\ UNCHANGED <<request, calls, restarts, lineage>>
    BY <1>1 DEF Preregister, States
  <2>2. Prefix /\ OldPrinciples' /\ at' \in {"begin", "idle"}
    BY <2>1, MoveLogged
  <2> QED BY <2>1, <2>2, SameBehind
<1>2. CASE MarkEvaluated
  <2>1. /\ at = "evaluated" /\ Move("OBSERVED", "EVALUATED", "attribution") /\ "EVALUATED" \in States
        /\ UNCHANGED <<request, calls, restarts, lineage>>
    BY <1>2 DEF MarkEvaluated, States
  <2>2. Prefix /\ OldPrinciples' /\ at' \in {"attribution", "idle"}
    BY <2>1, MoveLogged
  <2> QED BY <2>1, <2>2, SameBehind
<1>3. CASE MarkAttributed
  <2>1. /\ at = "attributed" /\ Move("EVALUATED", "ATTRIBUTED", "principle") /\ "ATTRIBUTED" \in States
        /\ UNCHANGED <<request, calls, restarts, lineage>>
    BY <1>3 DEF MarkAttributed, States
  <2>2. Prefix /\ OldPrinciples' /\ at' \in {"principle", "idle"}
    BY <2>1, MoveLogged
  <2> QED BY <2>1, <2>2, SameBehind
<1>4. CASE MarkDistilled
  <2>1. /\ Move("ATTRIBUTED", "DISTILLED_PROPOSAL", "idle") /\ "DISTILLED_PROPOSAL" \in States
        /\ UNCHANGED <<request, calls, restarts, lineage>>
    BY <1>4 DEF MarkDistilled, States
  <2>2. Prefix /\ OldPrinciples' /\ at' = "idle"
    BY <2>1, MoveLogged
  <2> QED BY <2>1, <2>2, SameBehind
<1> QED BY <1>1, <1>2, <1>3, <1>4

\* A call or a new process has nothing behind it and leaves the ledger alone.
LEMMA OutsideBehind == BehindInv /\ (Call \/ Restart) => SomethingBehind' /\ OldPrinciples'
<1> SUFFICES ASSUME BehindInv, Call \/ Restart PROVE SomethingBehind' /\ OldPrinciples'
  OBVIOUS
<1>1. at' \in {"hypothesis", "idle"} /\ ledger' = ledger
  BY DEF Call, Restart, Raise
<1>2. Prefix
  BY <1>1 DEF Prefix, BehindInv, OInv, TypeOK
<1>3. at' \notin AfterPlan
  BY <1>1 DEF AfterPlan, AfterBegin, AfterEpisode, AfterBudget, AfterEvaluation, AfterAttribution
<1>4. SomethingBehind'
  BY <1>2, <1>3, NothingBehind DEF Prefix
<1>5. \A p \in 1 .. Len(ledger) : Rests(p) => Rests(p)'
  BY <1>2, RestsKept
<1>6. OldPrinciples'
  BY <1>1, <1>5 DEF OldPrinciples, BehindInv
<1> QED BY <1>4, <1>6

\* Every step keeps what lies behind the point run() has reached, and the principles.
LEMMA StepBehind == BehindInv /\ [Next]_vars => SomethingBehind' /\ OldPrinciples'
<1> SUFFICES ASSUME BehindInv, [Next]_vars PROVE SomethingBehind' /\ OldPrinciples'
  OBVIOUS
<1>1. CASE UNCHANGED vars
  <2>1. UNCHANGED <<ledger, at, request, lineage, calls>>
    BY <1>1 DEF vars
  <2>2. Prefix /\ UNCHANGED <<calls, request>>
    BY <2>1 DEF Prefix, BehindInv, OInv, TypeOK
  <2>3. \A p \in 1 .. Len(ledger) : Rests(p) => Rests(p)'
    BY <2>2, RestsKept
  <2>4. OldPrinciples'
    BY <2>1, <2>3 DEF OldPrinciples, BehindInv
  <2>5. PICK plan \in 0 .. Len(ledger'), begun \in 0 .. Len(ledger'), episode \in 0 .. Len(ledger'),
             kept \in 0 .. Len(ledger'), evaluation \in 0 .. Len(ledger'),
             attribution \in 0 .. Len(ledger') :
          Behind(plan, begun, episode, kept, evaluation, attribution)
    BY <2>2, WhatIsBehind
  <2>6. Behind(plan, begun, episode, kept, evaluation, attribution)'
    BY <2>1, <2>2, <2>5, StagesKept DEF Behind
  <2> QED BY <2>4, <2>6 DEF SomethingBehind
<1>2. CASE Next
  BY <1>2, HypothesisBehind, PlanBehind, BeginBehind, EpisodeBehind, BudgetBehind, EvaluationBehind,
     AttributionBehind, PrincipleBehind, MarkBehind, OutsideBehind DEF Next, Run
<1> QED BY <1>1, <1>2

\* A principle that rests on records of its run does so in the order run() wrote them.
LEMMA RestsGrounded == TypeOK /\ OldPrinciples => PrinciplesRestOnEvidence
<1> SUFFICES ASSUME TypeOK, OldPrinciples, NEW p \in 1 .. Len(ledger),
                    ledger[p].kind = "learned-principle-proposal"
             PROVE  \E episode, evaluation \in ledger[p].sources :
                      /\ ledger[p].sources = {episode, evaluation}
                      /\ OfRun(episode, p, "experience-episode")
                      /\ OfRun(evaluation, p, "evaluation-result")
                      /\ \E plan \in 1 .. episode : \E begun \in plan .. episode :
                           /\ OfRun(plan, p, "experiment-plan")
                           /\ OfRun(begun, p, "experiment-state") /\ ledger[begun].detail = "RUNNING"
                      /\ \E kept \in episode .. evaluation :
                           OfRun(kept, p, "experiment-state") /\ ledger[kept].detail = "OBSERVED"
                      /\ \E attribution \in evaluation .. p :
                           /\ OfRun(attribution, p, "causal-attribution")
                           /\ ledger[attribution].sources = ledger[p].sources
                           /\ ledger[attribution].detail = "supported"
                                <=> ledger[evaluation].detail = "PASS"
  BY DEF PrinciplesRestOnEvidence
<1>1. PICK plan \in 1 .. p, begun \in 1 .. p, episode \in 1 .. p, kept \in 1 .. p,
           evaluation \in 1 .. p, attribution \in 1 .. p :
        RestsOn(p, plan, begun, episode, kept, evaluation, attribution)
  BY DEF OldPrinciples, Rests
<1>2. /\ plan \in 1 .. episode /\ begun \in plan .. episode /\ kept \in episode .. evaluation
      /\ attribution \in evaluation .. p
      /\ episode \in ledger[p].sources /\ evaluation \in ledger[p].sources
  BY <1>1 DEF RestsOn
<1>3. \E x \in 1 .. episode : \E y \in x .. episode :
        /\ OfRun(x, p, "experiment-plan")
        /\ OfRun(y, p, "experiment-state") /\ ledger[y].detail = "RUNNING"
  BY <1>1, <1>2 DEF RestsOn, Moved
<1>4. \E x \in episode .. evaluation :
        OfRun(x, p, "experiment-state") /\ ledger[x].detail = "OBSERVED"
  BY <1>1, <1>2 DEF RestsOn, Moved
<1>5. \E x \in evaluation .. p :
        /\ OfRun(x, p, "causal-attribution")
        /\ ledger[x].sources = ledger[p].sources
        /\ ledger[x].detail = "supported" <=> ledger[evaluation].detail = "PASS"
  BY <1>1, <1>2 DEF RestsOn
<1>6. /\ ledger[p].sources = {episode, evaluation}
      /\ OfRun(episode, p, "experience-episode") /\ OfRun(evaluation, p, "evaluation-result")
  BY <1>1 DEF RestsOn, Episode
<1> QED BY <1>2, <1>3, <1>4, <1>5, <1>6

\* What is distilled rests on the episode, of whatever experiment the observation names, and
\* the evaluation that its own run recorded, in order
\* after a plan and a begun execution, and on an attribution that claims no more than the verdict,
\* however appends fail and calls are repeated (ExperimentCoordinator.run).
THEOREM PrinciplesAreGrounded == Spec => []PrinciplesRestOnEvidence
<1>1. Init => SomethingBehind /\ OldPrinciples
  <2> SUFFICES ASSUME Init PROVE SomethingBehind /\ OldPrinciples
    OBVIOUS
  <2>1. Len(ledger) = 0 /\ at = "idle"
    BY DEF Init
  <2>2. Behind(0, 0, 0, 0, 0, 0)
    BY <2>1 DEF Behind, AfterPlan, AfterBegin, AfterEpisode, AfterBudget, AfterEvaluation,
                AfterAttribution
  <2>3. SomethingBehind
    BY <2>1, <2>2 DEF SomethingBehind
  <2>4. OldPrinciples
    BY <2>1 DEF OldPrinciples
  <2> QED BY <2>3, <2>4
<1>2. OInv /\ SomethingBehind /\ OldPrinciples /\ [Next]_vars => SomethingBehind' /\ OldPrinciples'
  BY StepBehind DEF BehindInv
<1>3. OInv /\ OldPrinciples => PrinciplesRestOnEvidence
  BY RestsGrounded DEF OInv
<1> QED BY <1>1, <1>2, <1>3, CoordinatorInvariant, PTL DEF Spec
=============================================================================
