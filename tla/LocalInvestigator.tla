--------------------------- MODULE LocalInvestigator ---------------------------
(***************************************************************************)
(* Local investigations (src/mnel/local_runtime.py): a call packs the      *)
(* records it is given into a context, resolves a Git ref, adds a detached *)
(* worktree whose path follows from the question and the context, runs a   *)
(* harness process in it and returns what came of it.  Calls run           *)
(* concurrently, in processes that may die; Git and the harness are        *)
(* external processes, bounded by timeouts; an operator removes worktrees  *)
(* through the runs that returned.                                         *)
(***************************************************************************)
EXTENDS Naturals, FiniteSets, FiniteSetsExt

CONSTANTS
  Runs,         \* the calls of run_local_investigator
  Records,      \* identities of the records there are, by which they sort
  VisibilityOf, \* the visibility of each
  SizeOf,       \* its encoded size
  Calls,        \* the arguments a call may have
  Endings,      \* the ways a harness ends by itself
  MaxRecords,   \* the max_records argument
  MaxBytes,     \* the max_context_bytes argument
  MaxCommits,   \* bound: commits the base ref points to, one after the other
  MaxCleanups   \* bound: cleanups by the operator

\* What a call is about (task and parent), the records it offers, and whether its role, prompt
\* and tools pass the checks of LocalHarnessRequest.
Call == [question : STRING, offered : SUBSET Records, valid : BOOLEAN]

\* What may be wrong with the output of a harness; "undecodable" is no UTF-8 at all.
Defects == {"undecodable", "oversized", "exit code", "no object", "authority", "other request",
            "rejected", "ill-formed"}

ASSUME RecordsAssumption ==
  /\ IsFiniteSet(Records) /\ Records \subseteq Nat
  /\ VisibilityOf \in
       [Records -> {"development", "selection-observed", "transfer-hidden", "future-final"}]
  /\ SizeOf \in [Records -> Nat]
ASSUME CallsAssumption == Calls \subseteq Call /\ Endings \subseteq SUBSET Defects
ASSUME BoundsAssumption ==
  /\ MaxRecords \in Nat \ {0} /\ MaxBytes \in Nat \ {0}
  /\ MaxCommits \in Nat /\ MaxCleanups \in Nat

VARIABLES
  head,     \* the commit the base ref points to
  run,      \* where each call stands, and what it knows
  trees,    \* the worktrees below the workspace root, by name
  removals  \* the removals the operator asked for

vars == <<head, run, trees, removals>>

-----------------------------------------------------------------------------
(* Contexts and names.                                                     *)

\* pack_eligible_context refuses every call that offers a hidden record, selected or not.
Eligible(offered) == \A i \in offered : VisibilityOf[i] \notin {"transfer-hidden", "future-final"}

\* It selects the first max_records in the order of their identities.
Packed(offered) == {i \in offered : Cardinality({j \in offered : j < i}) < MaxRecords}

Bytes(ids) == MapThenSumSet(LAMBDA i : SizeOf[i], ids)

Question(r) == <<run[r].call.question, run[r].context>>

\* Mutant: the name follows from the commit too.
NameWithCommit(r) == <<Question(r), run[r].commit>>

\* candidate_name: a digest of task, parent and context; not of the prompt, nor of the commit.
Name(r) == <<Question(r)>>

Idle == [pc |-> "idle", call |-> CHOOSE c \in Calls : TRUE, context |-> {}, commit |-> 0,
         ran |-> {}, status |-> "none"]

\* A worktree: the run that added it, the commit it holds, and whether it is all there.
Tree(r, whole) == [by |-> r, commit |-> run[r].commit, whole |-> whole]

Occupied(r) == Name(r) \in DOMAIN trees

With(name, tree) == [n \in DOMAIN trees \cup {name} |-> IF n = name THEN tree ELSE trees[n]]

Goto(r, pc) == run' = [run EXCEPT ![r].pc = pc]

\* An exception, or the end of the process: what the call held in memory is gone.
Raise(r) ==
  run' = [run EXCEPT ![r] = IF run[r].ran = {} THEN [Idle EXCEPT !.pc = "raised"]
                            ELSE [@ EXCEPT !.pc = "raised", !.status = "none"]]

-----------------------------------------------------------------------------
Init ==
  /\ head = 1
  /\ run = [r \in Runs |-> Idle]
  /\ trees = <<>>
  /\ removals = {}

\* The context is packed first; a call with a hidden record or too large a context raises.
Start(r, call) ==
  /\ run[r].pc = "idle"
  /\ LET context == Packed(call.offered)
         packed  == Eligible(call.offered) /\ Bytes(context) <= MaxBytes
     IN  run' = [run EXCEPT ![r] =
                   IF packed THEN [Idle EXCEPT !.pc = "packed", !.call = call, !.context = context]
                             ELSE [Idle EXCEPT !.pc = "raised"]]
  /\ UNCHANGED <<head, trees, removals>>

\* identify(): the ref is resolved to the commit it points to now.
Identify(r) ==
  /\ run[r].pc = "packed"
  /\ run' = [run EXCEPT ![r].pc = "identified", ![r].commit = head]
  /\ UNCHANGED <<head, trees, removals>>

\* materialize() looks whether the path exists; it is another command that adds it.
Check(r) ==
  /\ run[r].pc = "identified"
  /\ IF Occupied(r) THEN Raise(r) ELSE Goto(r, "adding")
  /\ UNCHANGED <<head, trees, removals>>

\* Mutant: worktree add --force, into whatever is there.
AddForced(r) ==
  /\ run[r].pc = "adding"
  /\ trees' = IF Occupied(r) THEN trees ELSE With(Name(r), Tree(r, TRUE))
  /\ Goto(r, "added")
  /\ UNCHANGED <<head, removals>>

\* git worktree add: adds the tree, or refuses a path that exists by now.
Add(r) ==
  /\ run[r].pc = "adding"
  /\ IF Occupied(r)
       THEN Raise(r) /\ UNCHANGED trees
       ELSE trees' = With(Name(r), Tree(r, TRUE)) /\ Goto(r, "added")
  /\ UNCHANGED <<head, removals>>

\* Any Git command fails or runs into its timeout; a killed worktree add leaves what it did.
GitFails(r) ==
  /\ run[r].pc \in {"packed", "identified", "adding"}
  /\ Raise(r)
  /\ \/ UNCHANGED trees
     \/ /\ run[r].pc = "adding" /\ ~ Occupied(r)
        /\ \E whole \in BOOLEAN : trees' = With(Name(r), Tree(r, whole))
  /\ UNCHANGED <<head, removals>>

\* write_metadata(): into the directory of that name, if there is one.
WriteMetadata(r) ==
  /\ run[r].pc = "added"
  /\ IF Occupied(r) THEN Goto(r, "described") ELSE Raise(r)
  /\ UNCHANGED <<head, trees, removals>>

\* LocalHarnessRequest is made when the tree is there: a call it refuses leaves the tree behind.
MakeRequest(r) ==
  /\ run[r].pc = "described"
  /\ IF run[r].call.valid /\ run[r].context # {} THEN Goto(r, "requested") ELSE Raise(r)
  /\ UNCHANGED <<head, trees, removals>>

\* The adapter starts the harness in the directory of that name, if there is one.
Launch(r) ==
  /\ run[r].pc = "requested"
  /\ IF Occupied(r) THEN run' = [run EXCEPT ![r].pc = "executing", ![r].ran = {trees[Name(r)]}]
                    ELSE Raise(r)
  /\ UNCHANGED <<head, trees, removals>>

Return(r, status) == run' = [run EXCEPT ![r].pc = "returned", ![r].status = status]

\* execute() quarantines what it cannot use; only what it cannot decode escapes as an exception.
Answer(r, defects) ==
  /\ run[r].pc = "executing"
  /\ IF "undecodable" \in defects THEN Raise(r)
     ELSE Return(r, IF defects = {} THEN "completed" ELSE "quarantined")
  /\ UNCHANGED <<head, trees, removals>>

\* Mutant: no timeout is handed to the process.
NoTimeOut(r) == FALSE /\ Return(r, "unknown") /\ UNCHANGED <<head, trees, removals>>

\* The timeout of the request kills the harness: the observation is unknown.
TimeOut(r) ==
  /\ run[r].pc = "executing"
  /\ Return(r, "unknown")
  /\ UNCHANGED <<head, trees, removals>>

\* The process of a run dies, or its write fails: what it had on disk stays.
Die(r) ==
  /\ run[r].pc \notin {"idle", "raised"}
  /\ Raise(r)
  /\ UNCHANGED <<head, trees, removals>>

\* cleanup(preserve=False) removes what has that path now, by whichever run; Git may be killed
\* half way.  Only a run that returned has handed out a worktree to clean up.
Cleanup(r) ==
  /\ run[r].pc = "returned"
  /\ Occupied(r)
  /\ Cardinality(removals) < MaxCleanups
  /\ removals' = removals \cup {[by |-> trees[Name(r)].by, handle |-> r]}
  /\ \/ trees' = [n \in DOMAIN trees \ {Name(r)} |-> trees[n]]
     \/ trees' = [trees EXCEPT ![Name(r)].whole = FALSE]
  /\ UNCHANGED <<head, run>>

\* The repository moves on.
Commit ==
  /\ head < MaxCommits
  /\ head' = head + 1
  /\ UNCHANGED <<run, trees, removals>>

\* What a process does without waiting for anything that has no timeout.
Proceed(r) ==
  \/ Identify(r) \/ Check(r) \/ Add(r) \/ GitFails(r) \/ WriteMetadata(r) \/ MakeRequest(r)
  \/ Launch(r) \/ TimeOut(r)

Next ==
  \/ Commit
  \/ \E r \in Runs :
       \/ \E call \in Calls : Start(r, call)
       \/ Proceed(r)
       \/ \E defects \in Endings : Answer(r, defects)
       \/ Die(r) \/ Cleanup(r)

Spec == Init /\ [][Next]_vars /\ \A r \in Runs : WF_vars(Proceed(r))

-----------------------------------------------------------------------------
\* A handle names a path, so the operator can remove the tree of a later run with it.
Evicted(r) == \E m \in removals : m.by = r /\ m.handle # r

\* A harness runs in the worktree its own run added, whole and at the commit that run identified,
\* whatever other runs with the same question do between the check of the path, the addition and
\* the launch; unless the operator evicted the run with the handle of another.
HarnessInOwnTree ==
  \A r \in Runs : \A tree \in run[r].ran :
    \/ tree.by = r /\ tree.whole /\ tree.commit = run[r].commit
    \/ Evicted(r)

\* No harness is asked the same question in the same context twice unless the operator removed a
\* worktree in between, though the prompt or the commit be another: a retry has to wait.
RetriesWait ==
  \A r, q \in Runs :
    r # q /\ run[r].ran # {} /\ run[q].ran # {} /\ Question(r) = Question(q)
      => \E m \in removals : m.by \in {r, q}

\* Every call ends, in a result or an exception, though its harness or a Git command never does.
EveryRunEnds ==
  \A r \in Runs : run[r].pc = "packed" ~> run[r].pc \in {"returned", "raised"}
=============================================================================
