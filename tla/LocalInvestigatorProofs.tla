------------------------ MODULE LocalInvestigatorProofs ------------------------
(***************************************************************************)
(* Proofs about local investigations, for any calls, records and endings.  *)
(* The worktree of a run that has not started its harness yet stays the    *)
(* one it added, unless an operator removes it with the handle of another  *)
(* run; and as long as nothing of a run was removed, its worktree keeps    *)
(* others with the same question from adding theirs.                       *)
(***************************************************************************)
EXTENDS LocalInvestigator, TLAPS

RunShaped(r) == DOMAIN run[r] = {"pc", "call", "context", "commit", "ran", "status"}

\* The run has added its worktree and not started its harness.
Waiting(r) == run[r].pc \in {"added", "described", "requested"}

\* It has not started a harness.
Fresh(r) ==
  run[r].pc \in {"idle", "packed", "identified", "adding", "added", "described", "requested"}
    => run[r].ran = {}

\* What a run will start its harness in is the tree it added.
OwnTree(r) == Waiting(r) => Evicted(r) \/ (Occupied(r) /\ trees[Name(r)] = Tree(r, TRUE))

\* What was started in its own tree, or evicted.
RanInOwn(r) ==
  \A tree \in run[r].ran :
    (tree.by = r /\ tree.whole /\ tree.commit = run[r].commit) \/ Evicted(r)

Removed(r) == \E m \in removals : m.by = r

\* Once it has added its tree, that tree holds the name until it is removed.
HoldsName(r) ==
  Waiting(r) \/ run[r].ran # {} => Removed(r) \/ (Occupied(r) /\ trees[Name(r)].by = r)

RunInv(r) == RunShaped(r) /\ Fresh(r) /\ OwnTree(r) /\ RanInOwn(r) /\ HoldsName(r)

LocalInv == DOMAIN run = Runs /\ \A r \in Runs : RunInv(r)

-----------------------------------------------------------------------------
(* What a step leaves alone.                                               *)

\* The tree under the name of a run, if there is one, stays.
TreeStays(r) == Occupied(r) => Name(r) \in DOMAIN trees' /\ trees'[Name(r)] = trees[Name(r)]

\* A run that does not move keeps what holds of it as long as its tree stays.
LEMMA OthersKeep ==
  ASSUME NEW q \in Runs, RunInv(q), run'[q] = run[q], removals \subseteq removals', TreeStays(q)
  PROVE  RunInv(q)'
<1>1. RunShaped(q)' /\ Fresh(q)'
  BY DEF RunInv, RunShaped, Fresh
<1>2. /\ Name(q)' = Name(q) /\ Tree(q, TRUE)' = Tree(q, TRUE)
  BY DEF Name, Question, Tree
<1>3. (Evicted(q) => Evicted(q)') /\ (Removed(q) => Removed(q)')
  BY DEF Evicted, Removed
<1>4. Occupied(q) => Occupied(q)' /\ (trees[Name(q)])' = trees[Name(q)]
  BY <1>2 DEF Occupied, TreeStays
<1>5. OwnTree(q)'
  BY <1>2, <1>3, <1>4 DEF RunInv, OwnTree, Waiting
<1>6. RanInOwn(q)'
  BY <1>3 DEF RunInv, RanInOwn
<1>7. HoldsName(q)'
  BY <1>2, <1>3, <1>4 DEF RunInv, HoldsName, Waiting
<1> QED BY <1>1, <1>5, <1>6, <1>7 DEF RunInv

\* So does the run that moves, if it only goes on within what holds before or after its launch.
LEMMA MovesKeep ==
  ASSUME NEW r \in Runs, RunInv(r), RunShaped(r)', removals \subseteq removals', TreeStays(r),
         run'[r].call = run[r].call, run'[r].context = run[r].context,
         run'[r].commit = run[r].commit, run'[r].ran = run[r].ran, Fresh(r)',
         Waiting(r)' => Waiting(r)
  PROVE  RunInv(r)'
<1>2. /\ Name(r)' = Name(r) /\ Tree(r, TRUE)' = Tree(r, TRUE)
  BY DEF Name, Question, Tree
<1>3. (Evicted(r) => Evicted(r)') /\ (Removed(r) => Removed(r)')
  BY DEF Evicted, Removed
<1>4. Occupied(r) => Occupied(r)' /\ (trees[Name(r)])' = trees[Name(r)]
  BY <1>2 DEF Occupied, TreeStays
<1>5. OwnTree(r)'
  BY <1>2, <1>3, <1>4 DEF RunInv, OwnTree
<1>6. RanInOwn(r)'
  BY <1>3 DEF RunInv, RanInOwn
<1>7. HoldsName(r)'
  BY <1>2, <1>3, <1>4 DEF RunInv, HoldsName
<1> QED BY <1>5, <1>6, <1>7 DEF RunInv

\* What a step of one run does to the others.
LEMMA OneMoves ==
  ASSUME LocalInv, NEW r \in Runs, NEW new, run' = [run EXCEPT ![r] = new],
         removals \subseteq removals', RunInv(r)',
         \A q \in Runs \ {r} : TreeStays(q)
  PROVE  LocalInv'
<1>1. DOMAIN run' = Runs /\ \A q \in Runs \ {r} : run'[q] = run[q]
  BY DEF LocalInv
<1>2. \A q \in Runs \ {r} : RunInv(q)'
  BY <1>1, OthersKeep DEF LocalInv
<1> QED BY <1>1, <1>2 DEF LocalInv

\* An exception leaves a run that started no harness with nothing to its name.
LEMMA RaiseKeeps ==
  ASSUME LocalInv, NEW r \in Runs, Raise(r), removals' = removals,
         \A q \in Runs : TreeStays(q)
  PROVE  LocalInv'
<1> DEFINE new == IF run[r].ran = {} THEN [Idle EXCEPT !.pc = "raised"]
                  ELSE [run[r] EXCEPT !.pc = "raised", !.status = "none"]
<1>1. run' = [run EXCEPT ![r] = new] /\ DOMAIN run = Runs /\ RunInv(r) /\ RunShaped(r)
  BY DEF Raise, LocalInv, RunInv
<1> HIDE DEF new
<1>2. run'[r] = new
  BY <1>1
<1>3. CASE run[r].ran = {}
  <2>1. /\ DOMAIN new = {"pc", "call", "context", "commit", "ran", "status"}
        /\ new.pc = "raised" /\ new.call = Idle.call /\ new.context = {}
        /\ new.commit = 0 /\ new.ran = {}
    BY <1>3 DEF new, Idle
  <2>2. RunShaped(r)' /\ (run[r].ran = {})' /\ (~ Waiting(r))'
    BY <1>2, <2>1 DEF RunShaped, Waiting
  <2>3. RunInv(r)'
    BY <2>2 DEF RunInv, Fresh, OwnTree, RanInOwn, HoldsName
  <2> QED BY <1>1, <2>3, OneMoves
<1>4. CASE run[r].ran # {}
  <2>1. /\ DOMAIN new = {"pc", "call", "context", "commit", "ran", "status"}
        /\ new.pc = "raised" /\ new.call = run[r].call /\ new.context = run[r].context
        /\ new.commit = run[r].commit /\ new.ran = run[r].ran
    BY <1>1, <1>4 DEF new, RunShaped
  <2>2. RunShaped(r)' /\ Fresh(r)' /\ ~ Waiting(r)'
    BY <1>2, <2>1 DEF RunShaped, Waiting, Fresh
  <2>3. RunInv(r)'
    BY <1>1, <1>2, <2>1, <2>2, MovesKeep
  <2> QED BY <1>1, <2>3, OneMoves
<1> QED BY <1>3, <1>4

\* Going on from one place to another.
LEMMA GotoKeeps ==
  ASSUME LocalInv, NEW r \in Runs, NEW pc, Goto(r, pc), removals' = removals, trees' = trees,
         run[r].ran = {}, pc \in {"added", "described", "requested"} => Waiting(r)
  PROVE  LocalInv'
<1>1. run' = [run EXCEPT ![r] = [run[r] EXCEPT !.pc = pc]] /\ DOMAIN run = Runs /\ RunInv(r)
  BY DEF Goto, LocalInv
<1>2. /\ DOMAIN run'[r] = {"pc", "call", "context", "commit", "ran", "status"}
      /\ run'[r].pc = pc /\ run'[r].call = run[r].call /\ run'[r].context = run[r].context
      /\ run'[r].commit = run[r].commit /\ run'[r].ran = run[r].ran
  BY <1>1 DEF RunInv, RunShaped
<1>3. \A q \in Runs : TreeStays(q)
  BY DEF TreeStays, Occupied
<1>4. RunShaped(r)' /\ Fresh(r)' /\ (Waiting(r)' => Waiting(r))
  BY <1>2 DEF RunShaped, Waiting, Fresh
<1>5. RunInv(r)'
  BY <1>1, <1>2, <1>3, <1>4, MovesKeep
<1> QED BY <1>1, <1>3, <1>5, OneMoves

-----------------------------------------------------------------------------
(* The steps.                                                              *)

\* A tree is added only where there is none.
LEMMA AddingStays ==
  ASSUME NEW r \in Runs, ~ Occupied(r), NEW tree, trees' = With(Name(r), tree)
  PROVE  /\ \A q \in Runs : TreeStays(q)
         /\ Name(r) \in DOMAIN trees' /\ trees'[Name(r)] = tree
BY DEF TreeStays, Occupied, With

\* Packing the context keeps the invariant.
LEMMA LocalStart ==
  ASSUME LocalInv, NEW r \in Runs, NEW call, Start(r, call)
  PROVE  LocalInv'
<1> DEFINE packed == Eligible(call.offered) /\ Bytes(Packed(call.offered)) <= MaxBytes
           new == IF packed THEN [Idle EXCEPT !.pc = "packed", !.call = call, !.context = Packed(call.offered)]
                            ELSE [Idle EXCEPT !.pc = "raised"]
<1>1. run' = [run EXCEPT ![r] = new] /\ DOMAIN run = Runs /\ removals' = removals /\ trees' = trees
  BY DEF Start, LocalInv
<1> HIDE DEF packed
<1>2. /\ new.ran = {} /\ new.pc \in {"packed", "raised"}
      /\ DOMAIN new = {"pc", "call", "context", "commit", "ran", "status"}
  BY DEF Idle
<1> HIDE DEF new
<1>3. run'[r] = new
  BY <1>1
<1>4. RunInv(r)'
  BY <1>2, <1>3 DEF RunInv, RunShaped, Fresh, OwnTree, RanInOwn, HoldsName, Waiting
<1>5. \A q \in Runs : TreeStays(q)
  BY <1>1 DEF TreeStays, Occupied
<1> QED BY <1>1, <1>4, <1>5, OneMoves

\* Resolving the ref keeps it.
LEMMA LocalIdentify ==
  ASSUME LocalInv, NEW r \in Runs, Identify(r)
  PROVE  LocalInv'
<1> DEFINE new == [run[r] EXCEPT !.pc = "identified", !.commit = head]
<1>1. /\ run' = [run EXCEPT ![r] = new] /\ DOMAIN run = Runs /\ removals' = removals
      /\ trees' = trees /\ RunInv(r) /\ run[r].pc = "packed"
  BY DEF Identify, LocalInv
<1>2. /\ DOMAIN new = {"pc", "call", "context", "commit", "ran", "status"}
      /\ new.pc = "identified" /\ new.call = run[r].call /\ new.context = run[r].context
      /\ new.commit = head /\ new.ran = {}
  BY <1>1 DEF RunInv, RunShaped, Fresh
<1> HIDE DEF new
<1>3. run'[r] = new
  BY <1>1
<1>4. RunInv(r)'
  BY <1>2, <1>3 DEF RunInv, RunShaped, Fresh, OwnTree, RanInOwn, HoldsName, Waiting
<1>5. \A q \in Runs : TreeStays(q)
  BY <1>1 DEF TreeStays, Occupied
<1> QED BY <1>1, <1>4, <1>5, OneMoves

\* So does the test that the path does not exist, whatever it finds.
LEMMA LocalCheck ==
  ASSUME LocalInv, NEW r \in Runs, Check(r)
  PROVE  LocalInv'
<1>1. run[r].ran = {} /\ removals' = removals /\ trees' = trees
  BY DEF Check, LocalInv, RunInv, Fresh
<1>2. \A q \in Runs : TreeStays(q)
  BY <1>1 DEF TreeStays, Occupied
<1>3. Raise(r) \/ Goto(r, "adding")
  BY DEF Check
<1> QED BY <1>1, <1>2, <1>3, RaiseKeeps, GotoKeeps

\* git worktree add keeps it: the path was free, or Git refuses.
LEMMA LocalAdd ==
  ASSUME LocalInv, NEW r \in Runs, Add(r)
  PROVE  LocalInv'
<1>1. removals' = removals /\ run[r].pc = "adding" /\ run[r].ran = {} /\ RunShaped(r) /\ DOMAIN run = Runs
  BY DEF Add, LocalInv, RunInv, Fresh
<1>2. CASE Occupied(r)
  <2>1. Raise(r) /\ trees' = trees
    BY <1>2 DEF Add
  <2>2. \A q \in Runs : TreeStays(q)
    BY <2>1 DEF TreeStays, Occupied
  <2> QED BY <1>1, <2>1, <2>2, RaiseKeeps
<1>3. CASE ~ Occupied(r)
  <2> DEFINE new == [run[r] EXCEPT !.pc = "added"]
  <2>1. trees' = With(Name(r), Tree(r, TRUE)) /\ run' = [run EXCEPT ![r] = new]
    BY <1>3 DEF Add, Goto
  <2>2. /\ \A q \in Runs : TreeStays(q)
        /\ Name(r) \in DOMAIN trees' /\ trees'[Name(r)] = Tree(r, TRUE)
    BY <1>3, <2>1, AddingStays
  <2>3. /\ DOMAIN new = {"pc", "call", "context", "commit", "ran", "status"}
        /\ new.pc = "added" /\ new.call = run[r].call /\ new.context = run[r].context
        /\ new.commit = run[r].commit /\ new.ran = {}
    BY <1>1 DEF RunShaped
  <2> HIDE DEF new
  <2>4. run'[r] = new
    BY <1>1, <2>1
  <2>5. Name(r)' = Name(r) /\ Tree(r, TRUE)' = Tree(r, TRUE)
    BY <2>3, <2>4 DEF Name, Question, Tree
  <2>6. Occupied(r)' /\ (trees[Name(r)])' = Tree(r, TRUE)
    BY <2>2, <2>5 DEF Occupied
  <2>7. OwnTree(r)' /\ HoldsName(r)'
    BY <2>5, <2>6 DEF OwnTree, HoldsName, Tree
  <2>8. RunShaped(r)' /\ Fresh(r)' /\ RanInOwn(r)'
    BY <2>3, <2>4 DEF RunShaped, Fresh, RanInOwn
  <2>9. RunInv(r)'
    BY <2>7, <2>8 DEF RunInv
  <2> QED BY <1>1, <2>1, <2>2, <2>9, OneMoves
<1> QED BY <1>2, <1>3

\* So does any other end of Git, with a part of a tree left or none.
LEMMA LocalGitFails ==
  ASSUME LocalInv, NEW r \in Runs, GitFails(r)
  PROVE  LocalInv'
<1>1. Raise(r) /\ removals' = removals
  BY DEF GitFails
<1>2. \/ trees' = trees
      \/ ~ Occupied(r) /\ \E whole \in BOOLEAN : trees' = With(Name(r), Tree(r, whole))
  BY DEF GitFails
<1>3. \A q \in Runs : TreeStays(q)
  <2>1. CASE trees' = trees
    BY <2>1 DEF TreeStays, Occupied
  <2>2. CASE ~ Occupied(r) /\ \E whole \in BOOLEAN : trees' = With(Name(r), Tree(r, whole))
    BY <2>2, AddingStays
  <2> QED BY <1>2, <2>1, <2>2
<1> QED BY <1>1, <1>3, RaiseKeeps

\* Writing the metadata and making the request keep it.
LEMMA LocalDescribe ==
  ASSUME LocalInv, NEW r \in Runs, WriteMetadata(r) \/ MakeRequest(r)
  PROVE  LocalInv'
<1>1. /\ run[r].ran = {} /\ Waiting(r) /\ removals' = removals /\ trees' = trees
  BY DEF WriteMetadata, MakeRequest, LocalInv, RunInv, Fresh, Waiting
<1>2. \A q \in Runs : TreeStays(q)
  BY <1>1 DEF TreeStays, Occupied
<1>3. Raise(r) \/ Goto(r, "described") \/ Goto(r, "requested")
  BY DEF WriteMetadata, MakeRequest
<1> QED BY <1>1, <1>2, <1>3, RaiseKeeps, GotoKeeps

\* A run launches in its own tree or was evicted; from now on it has that name behind it.
LEMMA LocalLaunch ==
  ASSUME LocalInv, NEW r \in Runs, Launch(r)
  PROVE  LocalInv'
<1>1. /\ removals' = removals /\ trees' = trees /\ RunInv(r) /\ RunShaped(r) /\ DOMAIN run = Runs
      /\ run[r].pc = "requested"
  BY DEF Launch, LocalInv, RunInv
<1>2. \A q \in Runs : TreeStays(q)
  BY <1>1 DEF TreeStays, Occupied
<1>3. CASE ~ Occupied(r)
  BY <1>1, <1>2, <1>3, RaiseKeeps DEF Launch
<1>4. CASE Occupied(r)
  <2> DEFINE new == [run[r] EXCEPT !.pc = "executing", !.ran = {trees[Name(r)]}]
  <2>1. run' = [run EXCEPT ![r] = new]
    BY <1>4 DEF Launch
  <2>2. /\ DOMAIN new = {"pc", "call", "context", "commit", "ran", "status"}
        /\ new.pc = "executing" /\ new.call = run[r].call /\ new.context = run[r].context
        /\ new.commit = run[r].commit /\ new.ran = {trees[Name(r)]}
    BY <1>1 DEF RunShaped
  <2> HIDE DEF new
  <2>3. run'[r] = new
    BY <1>1, <2>1
  <2>4. RunShaped(r)' /\ Fresh(r)' /\ OwnTree(r)'
    BY <2>2, <2>3 DEF RunShaped, Fresh, OwnTree, Waiting
  <2>5. Waiting(r)
    BY <1>1 DEF Waiting
  <2>6. Name(r)' = Name(r) /\ (Evicted(r) => Evicted(r)') /\ (Removed(r) => Removed(r)')
    BY <1>1, <2>2, <2>3 DEF Name, Question, Evicted, Removed
  <2>7. RanInOwn(r)'
    <3>1. trees[Name(r)] = Tree(r, TRUE) \/ Evicted(r)
      BY <1>1, <2>5 DEF RunInv, OwnTree
    <3>2. run'[r].ran = {trees[Name(r)]} /\ run'[r].commit = run[r].commit
      BY <2>2, <2>3
    <3> QED BY <2>6, <3>1, <3>2 DEF RanInOwn, Tree
  <2>8. HoldsName(r)'
    BY <1>1, <2>5, <2>6 DEF RunInv, HoldsName, Occupied
  <2>9. RunInv(r)'
    BY <2>4, <2>7, <2>8 DEF RunInv
  <2> QED BY <1>1, <1>2, <2>1, <2>9, OneMoves
<1> QED BY <1>3, <1>4

\* A run that returns keeps it, unless it removes something.
LEMMA LocalReturn ==
  ASSUME LocalInv, NEW r \in Runs, NEW status, Return(r, status), trees' = trees, removals' = removals
  PROVE  LocalInv'
<1> DEFINE new == [run[r] EXCEPT !.pc = "returned", !.status = status]
<1>1. /\ run' = [run EXCEPT ![r] = new] /\ RunInv(r) /\ RunShaped(r) /\ DOMAIN run = Runs
  BY DEF Return, LocalInv, RunInv
<1>2. /\ DOMAIN new = {"pc", "call", "context", "commit", "ran", "status"}
      /\ new.pc = "returned" /\ new.call = run[r].call /\ new.context = run[r].context
      /\ new.commit = run[r].commit /\ new.ran = run[r].ran
  BY <1>1 DEF RunShaped
<1> HIDE DEF new
<1>3. run'[r] = new
  BY <1>1
<1>4. \A q \in Runs : TreeStays(q)
  BY DEF TreeStays, Occupied
<1>5. RunShaped(r)' /\ Fresh(r)' /\ ~ Waiting(r)'
  BY <1>2, <1>3 DEF RunShaped, Fresh, Waiting
<1>6. RunInv(r)'
  BY <1>1, <1>2, <1>3, <1>4, <1>5, MovesKeep
<1> QED BY <1>1, <1>4, <1>6, OneMoves

\* An answer, a timeout and the death of the process keep it.
LEMMA LocalEnds ==
  ASSUME LocalInv, NEW r \in Runs, (\E defects : Answer(r, defects)) \/ TimeOut(r) \/ Die(r)
  PROVE  LocalInv'
<1>1. trees' = trees /\ removals' = removals
  BY DEF Answer, TimeOut, Die
<1>2. Raise(r) \/ \E status : Return(r, status)
  BY DEF Answer, TimeOut, Die
<1>3. \A q \in Runs : TreeStays(q)
  BY <1>1 DEF TreeStays, Occupied
<1> QED BY <1>1, <1>2, <1>3, RaiseKeeps, LocalReturn

\* The operator removes whatever tree has the name: the run that added it was evicted, or is the
\* one that handed out the handle.
LEMMA LocalCleanup ==
  ASSUME LocalInv, NEW r \in Runs, Cleanup(r)
  PROVE  LocalInv'
<1> DEFINE name == Name(r)
           removal == [by |-> trees[name].by, handle |-> r]
<1>1. /\ run' = run /\ removals' = removals \cup {removal} /\ run[r].pc = "returned"
  BY DEF Cleanup
<1>2. \A n \in DOMAIN trees \ {name} : n \in DOMAIN trees' /\ trees'[n] = trees[n]
  BY DEF Cleanup
<1>3. removal.by = trees[name].by /\ removal.handle = r
  OBVIOUS
<1> HIDE DEF name, removal
<1>4. ASSUME NEW q \in Runs PROVE RunInv(q)'
  <2>1. RunInv(q) /\ run'[q] = run[q] /\ removals \subseteq removals'
    BY <1>1 DEF LocalInv
  <2>2. CASE Name(q) # name
    <3>1. TreeStays(q)
      BY <1>2, <2>2 DEF TreeStays, Occupied
    <3> QED BY <2>1, <3>1, OthersKeep
  <2>3. CASE Name(q) = name
    <3>1. (Evicted(q) => Evicted(q)') /\ (Removed(q) => Removed(q)')
      BY <2>1 DEF Evicted, Removed
    <3>2. trees[Name(q)].by = q => Removed(q)' /\ (q # r => Evicted(q)')
      BY <1>1, <1>3, <2>3 DEF Evicted, Removed
    <3>3. OwnTree(q)'
      <4>1. Waiting(q) => q # r
        BY <1>1 DEF Waiting
      <4>2. Waiting(q) => Evicted(q) \/ trees[Name(q)].by = q
        BY <2>1 DEF RunInv, OwnTree, Tree
      <4> QED BY <2>1, <3>1, <3>2, <4>1, <4>2 DEF OwnTree, Waiting
    <3>4. RanInOwn(q)'
      BY <2>1, <3>1 DEF RunInv, RanInOwn
    <3>5. HoldsName(q)'
      BY <2>1, <3>1, <3>2 DEF RunInv, HoldsName, Waiting
    <3>6. RunShaped(q)' /\ Fresh(q)'
      BY <2>1 DEF RunInv, RunShaped, Fresh
    <3> QED BY <3>3, <3>4, <3>5, <3>6 DEF RunInv
  <2> QED BY <2>2, <2>3
<1> QED BY <1>1, <1>4 DEF LocalInv

\* What holds of every run, whatever the others, Git, the harnesses and the operator do.
THEOREM LocalInvariant == Spec => []LocalInv
<1>1. Init => LocalInv
  <2> SUFFICES ASSUME Init, NEW r \in Runs PROVE DOMAIN run = Runs /\ RunInv(r)
    BY DEF LocalInv, Init
  <2>1. run[r] = Idle /\ DOMAIN run = Runs
    BY DEF Init
  <2> QED BY <2>1 DEF Idle, RunInv, RunShaped, Fresh, OwnTree, RanInOwn, HoldsName, Waiting
<1>2. ASSUME LocalInv, [Next]_vars PROVE LocalInv'
  <2>1. CASE Commit
    <3>1. run' = run /\ trees' = trees /\ removals' = removals
      BY <2>1 DEF Commit
    <3>2. \A q \in Runs : RunInv(q)'
      BY <1>2, <3>1, OthersKeep DEF LocalInv, TreeStays, Occupied
    <3> QED BY <1>2, <3>1, <3>2 DEF LocalInv
  <2>2. CASE UNCHANGED vars
    <3>1. run' = run /\ trees' = trees /\ removals' = removals
      BY <2>2 DEF vars
    <3>2. \A q \in Runs : RunInv(q)'
      BY <1>2, <3>1, OthersKeep DEF LocalInv, TreeStays, Occupied
    <3> QED BY <1>2, <3>1, <3>2 DEF LocalInv
  <2>3. ASSUME NEW r \in Runs, Proceed(r) PROVE LocalInv'
    BY <1>2, <2>3, LocalIdentify, LocalCheck, LocalAdd, LocalGitFails, LocalDescribe, LocalLaunch,
       LocalEnds DEF Proceed
  <2>4. ASSUME NEW r \in Runs,
               (\E call \in Calls : Start(r, call)) \/ (\E defects \in Endings : Answer(r, defects))
               \/ Die(r) \/ Cleanup(r)
        PROVE  LocalInv'
    BY <1>2, <2>4, LocalStart, LocalEnds, LocalCleanup
  <2> QED BY <1>2, <2>1, <2>2, <2>3, <2>4 DEF Next
<1> QED BY <1>1, <1>2, PTL DEF Spec

\* A harness runs in the worktree its own run added, whole and at the commit it identified, unless
\* the operator used the handle of another run (materialize, execute, cleanup).
THEOREM HarnessesInTheirTrees == Spec => []HarnessInOwnTree
<1>1. LocalInv => HarnessInOwnTree
  BY DEF LocalInv, RunInv, RanInOwn, HarnessInOwnTree
<1> QED BY <1>1, LocalInvariant, PTL

\* Two runs with one question both start a harness only if the worktree of one of them was removed
\* (candidate_name, materialize).
THEOREM RetriesHaveToWait == Spec => []RetriesWait
<1>1. LocalInv => RetriesWait
  <2> SUFFICES ASSUME LocalInv, NEW r \in Runs, NEW q \in Runs, r # q,
                      run[r].ran # {}, run[q].ran # {}, Question(r) = Question(q)
               PROVE  \E m \in removals : m.by \in {r, q}
    BY DEF RetriesWait
  <2>1. HoldsName(r) /\ HoldsName(q)
    BY DEF LocalInv, RunInv
  <2>2. Name(r) = Name(q)
    BY DEF Name
  <2>3. Removed(r) \/ Removed(q)
    BY <2>1, <2>2 DEF HoldsName
  <2> QED BY <2>3 DEF Removed
<1> QED BY <1>1, LocalInvariant, PTL
=============================================================================
