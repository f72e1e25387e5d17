---------------------------- MODULE EvidenceLedger ----------------------------
(***************************************************************************)
(* EvidenceLedger of src/mnel/core.py: a JSONL file in which each line     *)
(* carries its position, the digest of the line before it and its own      *)
(* digest.  append() reads and verifies the whole file, builds the next    *)
(* line from what it read, and only then opens the file again, writes the  *)
(* line and calls fsync.  There is no lock: another process may run        *)
(* between any two of those steps, the process may die between them, the   *)
(* raw write may store less than it was given (its return value is not     *)
(* looked at), and a power loss keeps whatever the storage already held.   *)
(*                                                                         *)
(* A body is a serial number drawn when append() builds it: its digest is  *)
(* the same number, so equal bodies have equal digests and different       *)
(* bodies different ones.                                                  *)
(***************************************************************************)
EXTENDS Integers, Sequences, FiniteSets

CONSTANTS
  Writers,     \* processes that hold an EvidenceLedger on the same path
  ShortParts,  \* how much of a line a short write() may store
  TornParts,   \* how much of an unsynced line a power loss may leave
  MaxRecords,  \* bound: appends that get as far as building a body
  MaxFaults,   \* bound: short or failed writes, failed fsyncs, crashes
  MaxEdits     \* bound: in-place edits by someone who is not the program

\* A line lacks its newline, or breaks off inside the JSON text.
CutParts == {"no_newline", "part"}

ASSUME WritersAssumption == IsFiniteSet(Writers)
ASSUME PartsAssumption == ShortParts \subseteq CutParts /\ TornParts \subseteq CutParts
ASSUME BoundsAssumption == MaxRecords \in Nat /\ MaxFaults \in Nat /\ MaxEdits \in Nat

VARIABLES
  file,     \* what a reader of the path sees: its lines, and if the last one is terminated
  images,   \* what the storage may hold if the power fails now
  pc,       \* how far each writer is inside append()
  pending,  \* the line each writer built and has yet to acknowledge
  outcome,  \* how each writer's last append() ended
  acked,    \* history: the lines append() returned, in that order
  serial,   \* the last body built
  faults,   \* faults so far
  edits     \* in-place edits so far

vars == <<file, images, pc, pending, outcome, acked, serial, faults, edits>>

GENESIS == 0

Line == [readable : BOOLEAN, sequence : Nat, previous : Nat, body : Nat, digest : Nat]

File == [lines : Seq(Line), terminated : BOOLEAN]

\* A line that json.loads refuses: the beginning of a record, or two records on one line.
Unreadable == [readable |-> FALSE, sequence |-> 0, previous |-> 0, body |-> 0, digest |-> 0]

EmptyFile == [lines |-> <<>>, terminated |-> TRUE]

-----------------------------------------------------------------------------
(* verify() and the parts of append() that compute.                        *)

PreviousDigest(lines, i) == IF i = 1 THEN GENESIS ELSE lines[i - 1].digest

\* Mutant: verify() trusts the digest a line claims.
ValidTrustingDigests(lines) ==
  \A i \in 1 .. Len(lines) :
    /\ lines[i].readable
    /\ lines[i].sequence = i
    /\ lines[i].previous = PreviousDigest(lines, i)

\* verify(): every line parses, counts up from 1, names the digest before it and its own.
Valid(lines) ==
  \A i \in 1 .. Len(lines) :
    /\ lines[i].readable
    /\ lines[i].sequence = i
    /\ lines[i].previous = PreviousDigest(lines, i)
    /\ lines[i].digest = lines[i].body

\* The envelope append() builds from the count and the head that verify() reported.
NextLine(lines, body) ==
  [ readable |-> TRUE,
    sequence |-> Len(lines) + 1,
    previous |-> PreviousDigest(lines, Len(lines) + 1),
    body     |-> body,
    digest   |-> body ]

\* Mutant: an unterminated last line is overwritten.
PutOverTornLine(f, line, part) ==
  [ lines      |-> Append(IF f.terminated THEN f.lines ELSE SubSeq(f.lines, 1, Len(f.lines) - 1),
                          IF part = "part" THEN Unreadable ELSE line),
    terminated |-> part = "all" ]

\* The file after some of a line's bytes went to its end: a line of its own when the
\* last line is terminated, otherwise glued to that line, which no longer parses.
Put(f, line, part) ==
  IF f.terminated
  THEN [ lines      |-> Append(f.lines, IF part = "part" THEN Unreadable ELSE line),
         terminated |-> part = "all" ]
  ELSE [ lines      |-> [f.lines EXCEPT ![Len(f.lines)] = Unreadable],
         terminated |-> part = "all" ]

-----------------------------------------------------------------------------
Init ==
  /\ file = EmptyFile
  /\ images = {EmptyFile}
  /\ pc = [w \in Writers |-> "idle"]
  /\ pending = [w \in Writers |-> Unreadable]
  /\ outcome = [w \in Writers |-> "none"]
  /\ acked = <<>>
  /\ serial = 0
  /\ faults = 0
  /\ edits = 0

Fault == faults < MaxFaults /\ faults' = faults + 1

\* append() is over, one way or another.
Finish(w, how) ==
  /\ pc' = [pc EXCEPT ![w] = "idle"]
  /\ outcome' = [outcome EXCEPT ![w] = how]

\* Mutant: append() does not look at what verify() said.
VerifyUnchecked(w) ==
  /\ pc[w] = "idle"
  /\ serial < MaxRecords
  /\ serial' = serial + 1
  /\ pending' = [pending EXCEPT ![w] = NextLine(file.lines, serial + 1)]
  /\ pc' = [pc EXCEPT ![w] = "verified"]
  /\ UNCHANGED <<file, images, outcome, acked, faults, edits>>

\* append() verifies the file it reads and builds the next envelope from it.
Verify(w) ==
  /\ pc[w] = "idle"
  /\ serial < MaxRecords
  /\ Valid(file.lines)
  /\ serial' = serial + 1
  /\ pending' = [pending EXCEPT ![w] = NextLine(file.lines, serial + 1)]
  /\ pc' = [pc EXCEPT ![w] = "verified"]
  /\ UNCHANGED <<file, images, outcome, acked, faults, edits>>

\* append() raises LedgerIntegrityError and leaves the file alone.
Refuse(w) ==
  /\ pc[w] = "idle"
  /\ ~ Valid(file.lines)
  /\ Finish(w, "refused")
  /\ UNCHANGED <<file, images, pending, acked, serial, faults, edits>>

\* The line reaches the end of the file as it is now, whatever verify() had read.
Store(w, part) ==
  /\ pc[w] = "verified"
  /\ file' = Put(file, pending[w], part)
  /\ images' = images \cup {Put(file, pending[w], torn) : torn \in TornParts} \cup {file'}
  /\ pc' = [pc EXCEPT ![w] = "written"]
  /\ UNCHANGED <<pending, outcome, acked, serial, edits>>

Write(w) == Store(w, "all") /\ UNCHANGED faults

\* A raw write() may return after storing a part of the line; append() goes on.
ShortWrite(w) == (\E part \in ShortParts : Store(w, part)) /\ Fault

\* open() or write() raises before anything is stored.
WriteFails(w) ==
  /\ pc[w] = "verified"
  /\ Fault
  /\ Finish(w, "failed")
  /\ UNCHANGED <<file, images, pending, acked, serial, edits>>

\* Mutant: flush() without fsync().
SyncFlushOnly(w) ==
  /\ pc[w] = "written"
  /\ acked' = Append(acked, pending[w])
  /\ Finish(w, "appended")
  /\ UNCHANGED <<file, images, pending, serial, faults, edits>>

\* fsync makes the file durable, other writers' lines included, and append() returns.
Sync(w) ==
  /\ pc[w] = "written"
  /\ images' = {file}
  /\ acked' = Append(acked, pending[w])
  /\ Finish(w, "appended")
  /\ UNCHANGED <<file, pending, serial, faults, edits>>

\* fsync raises: the caller sees a failed append whose line is in the file.
SyncFails(w) ==
  /\ pc[w] = "written"
  /\ Fault
  /\ Finish(w, "failed")
  /\ UNCHANGED <<file, images, pending, acked, serial, edits>>

\* The process dies inside append(); a later one starts over on the same file.
Crash(w) ==
  /\ pc[w] # "idle"
  /\ Fault
  /\ Finish(w, "none")
  /\ UNCHANGED <<file, images, pending, acked, serial, edits>>

\* The machine stops: every process is gone and the file is what the storage held.
PowerLoss ==
  /\ Fault
  /\ \E f \in images : file' = f /\ images' = {f}
  /\ pc' = [w \in Writers |-> "idle"]
  /\ outcome' = [w \in Writers |-> "none"]
  /\ UNCHANGED <<pending, acked, serial, edits>>

\* Someone rewrites the file with one record's payload changed.
Edit ==
  /\ edits < MaxEdits
  /\ edits' = edits + 1
  /\ serial' = serial + 1
  /\ \E i \in 1 .. Len(file.lines) :
       /\ file.lines[i].readable
       /\ file' = [file EXCEPT !.lines[i].body = serial + 1]
  /\ images' = images \cup {file'}
  /\ UNCHANGED <<pc, pending, outcome, acked, faults>>

Step(w) ==
  \/ Verify(w) \/ Refuse(w)
  \/ Write(w) \/ ShortWrite(w) \/ WriteFails(w)
  \/ Sync(w) \/ SyncFails(w)
  \/ Crash(w)

Next == (\E w \in Writers : Step(w)) \/ PowerLoss \/ Edit

Spec == Init /\ [][Next]_vars

-----------------------------------------------------------------------------
\* The file, its images on storage and the writers keep their shape (EvidenceLedger.append).
TypeOK ==
  /\ file \in File
  /\ images \subseteq File
  /\ file \in images
  /\ pc \in [Writers -> {"idle", "verified", "written"}]
  /\ pending \in [Writers -> Line]
  /\ outcome \in [Writers -> {"none", "appended", "refused", "failed"}]
  /\ acked \in Seq(Line)
  /\ serial \in Nat
  /\ faults \in Nat
  /\ edits \in Nat

InPlace(lines, line) ==
  /\ line.sequence \in 1 .. Len(lines)
  /\ lines[line.sequence] = line

\* A ledger that verify() accepts has lost nothing: every line append() ever returned is
\* in it, unchanged and at the position it was returned with, whatever raced, tore, died
\* or was edited in between.
ValidLedgerHoldsAcknowledged ==
  Valid(file.lines) => \A k \in 1 .. Len(acked) : InPlace(file.lines, acked[k])

\* Damage does not spread: append() refuses an invalid ledger, so the lines after the
\* last good one are at most one per process that was inside append() when it broke,
\* unless someone edited a line further up.
DamageBounded ==
  LET good == {n \in 1 .. Len(file.lines) : Valid(SubSeq(file.lines, 1, n))}
  IN  edits = 0 => Len(file.lines) - Cardinality(good) <= Cardinality(Writers)

\* No sequence of appends makes a damaged ledger verify again: only a power loss that
\* takes the damaged lines away does.
AppendsNeverRepair ==
  [][~ Valid(file.lines) /\ Valid(file.lines)' => PowerLoss]_vars

-----------------------------------------------------------------------------
\* A single writer whose lines are stored whole or not at all implements the abstract
\* log: the log is the bodies in the file, and an acknowledgement vouches for every
\* record up to its own, the ones of failed fsyncs included.
Promise == INSTANCE AppendOnlyLog WITH
  Record <- 1 .. MaxRecords,
  log    <- [i \in 1 .. Len(file.lines) |-> file.lines[i].body],
  kept   <- IF acked = <<>> THEN 0 ELSE acked[Len(acked)].sequence

\* Every step of the single-writer ledger is a step of the append-only log: crashes,
\* failed writes, failed fsyncs and power losses take away unacknowledged tails only.
ImplementsAppendOnlyLog == Promise!Spec
=============================================================================
