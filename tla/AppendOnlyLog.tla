---------------------------- MODULE AppendOnlyLog ----------------------------
(***************************************************************************)
(* What the evidence ledger of src/mnel/core.py promises its callers:      *)
(* records are appended at the end of one totally ordered log, a record    *)
(* that append() returned is durable, and the only records a crash may     *)
(* take away are the ones at the end that append() had not returned yet.   *)
(***************************************************************************)
EXTENDS Naturals, Sequences

CONSTANT Record

VARIABLES
  log,   \* the records a reader of the ledger sees, oldest first
  kept   \* how many of them are acknowledged, hence durable

vars == <<log, kept>>

Init ==
  /\ log = <<>>
  /\ kept = 0

\* A new record appears at the end; nothing before it moves.
Extend ==
  /\ \E r \in Record : log' = Append(log, r)
  /\ UNCHANGED kept

\* An append returns: its record, and with it every earlier one, is durable.
Acknowledge ==
  /\ kept' \in (kept + 1) .. Len(log)
  /\ UNCHANGED log

\* The machine stops: a tail nobody was told about may be gone.
LoseTail ==
  /\ \E n \in kept .. Len(log) : log' = SubSeq(log, 1, n)
  /\ UNCHANGED kept

Next == Extend \/ Acknowledge \/ LoseTail

Spec == Init /\ [][Next]_vars
=============================================================================
