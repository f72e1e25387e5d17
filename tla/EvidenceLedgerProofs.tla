------------------------ MODULE EvidenceLedgerProofs ------------------------
(***************************************************************************)
(* What holds of the evidence ledger for any number of writers, any faults *)
(* and any bounds: a ledger that verify() accepts holds every acknowledged *)
(* line in place, only a power loss can make a damaged one verify, damage  *)
(* is bounded by the writers that raced, and a single reliable writer      *)
(* implements the append-only log.                                         *)
(***************************************************************************)
EXTENDS EvidenceLedger, FiniteSetTheorems, TLAPS

\* Every content the storage may come back with keeps the promise, not only the file.
ImagesHoldAcknowledged ==
  \A f \in images : Valid(f.lines) => \A k \in 1 .. Len(acked) : InPlace(f.lines, acked[k])

\* What fsync is about to acknowledge is in place unless the file is damaged already.
WrittenInPlace ==
  \A w \in Writers :
    pc[w] = "written" /\ Valid(file.lines) => InPlace(file.lines, pending[w])

\* Only a line can lack a newline.
UnterminatedHasLine == \A f \in images : ~ f.terminated => f.lines # <<>>

\* A digest is that of a body already built, so an edited body never matches one.
DigestsDrawn ==
  /\ \A f \in images : \A i \in 1 .. Len(f.lines) : f.lines[i].digest <= serial
  /\ \A w \in Writers : pending[w].digest <= serial

IInv ==
  /\ TypeOK
  /\ ImagesHoldAcknowledged
  /\ WrittenInPlace
  /\ UnterminatedHasLine
  /\ DigestsDrawn

-----------------------------------------------------------------------------
\* A record in a file is a line.
LEMMA PlaceholdersTyped ==
  /\ Unreadable \in Line
  /\ EmptyFile \in File
  /\ ~ Unreadable.readable
  /\ Unreadable.digest = 0
BY DEF Unreadable, EmptyFile, Line, File

\* append() builds a well-formed envelope.
LEMMA NextLineTyped ==
  ASSUME NEW lines \in Seq(Line), NEW body \in Nat
  PROVE  /\ NextLine(lines, body) \in Line
         /\ NextLine(lines, body).digest = body
<1>1. PreviousDigest(lines, Len(lines) + 1) \in Nat
  <2>1. CASE lines = <<>>
    BY <2>1 DEF PreviousDigest, GENESIS
  <2>2. CASE lines # <<>>
    <3>1. Len(lines) \in 1 .. Len(lines) /\ lines[Len(lines)] \in Line
      BY <2>2
    <3>2. lines[Len(lines)].digest \in Nat
      BY <3>1 DEF Line
    <3> QED
      BY <3>1, <3>2 DEF PreviousDigest
  <2> QED
    BY <2>1, <2>2
<1> QED
  BY <1>1 DEF NextLine, Line

\* Storing bytes of a line at the end of a file leaves a file, whose lines are the old
\* ones, the new one or unreadable ones, and which has a line.
LEMMA PutTyped ==
  ASSUME NEW f \in File, NEW line \in Line, NEW part \in {"all", "no_newline", "part"},
         ~ f.terminated => f.lines # <<>>
  PROVE  /\ Put(f, line, part) \in File
         /\ Put(f, line, part).lines # <<>>
         /\ \A i \in 1 .. Len(Put(f, line, part).lines) :
              LET l == Put(f, line, part).lines[i]
              IN  \/ l = line
                  \/ l = Unreadable
                  \/ i \in 1 .. Len(f.lines) /\ l = f.lines[i]
<1>1. CASE f.terminated
  BY <1>1, PlaceholdersTyped DEF Put, File
<1>2. CASE ~ f.terminated
  BY <1>2, PlaceholdersTyped DEF Put, File
<1> QED
  BY <1>1, <1>2

\* If the file verifies after a write, the line went in whole, as a line of its own, at
\* the position it names, and the file verified before.
LEMMA PutValid ==
  ASSUME NEW f \in File, NEW line \in Line, NEW part \in {"all", "no_newline", "part"},
         ~ f.terminated => f.lines # <<>>,
         Valid(Put(f, line, part).lines)
  PROVE  /\ Valid(f.lines)
         /\ Put(f, line, part).lines = Append(f.lines, line)
         /\ line.sequence = Len(f.lines) + 1
<1> DEFINE after == Put(f, line, part).lines
<1>1. f.terminated
  <2> SUFFICES ASSUME ~ f.terminated PROVE FALSE
    OBVIOUS
  <2>1. /\ Len(f.lines) \in 1 .. Len(after)
        /\ after[Len(f.lines)] = Unreadable
    BY DEF Put, File
  <2> QED
    BY <2>1, PlaceholdersTyped DEF Valid
<1>2. after = Append(f.lines, IF part = "part" THEN Unreadable ELSE line)
  BY <1>1 DEF Put
<1>3. part # "part"
  BY <1>2, PlaceholdersTyped DEF Valid, File
<1>4. after = Append(f.lines, line)
  BY <1>2, <1>3
<1>5. \A i \in 1 .. Len(f.lines) : after[i] = f.lines[i] /\ i \in 1 .. Len(after)
  BY <1>4 DEF File
<1>6. Valid(f.lines)
  BY <1>5, Valid(after) DEF Valid, PreviousDigest, File
<1>7. line.sequence = Len(f.lines) + 1
  BY <1>4, Valid(after) DEF Valid, File
<1> QED
  BY <1>4, <1>6, <1>7

\* A line in place stays in place when the file grows.
LEMMA InPlaceAppend ==
  ASSUME NEW lines \in Seq(Line), NEW old \in Line, NEW line \in Line, InPlace(lines, old)
  PROVE  InPlace(Append(lines, line), old)
BY DEF InPlace

\* An in-place edit of a payload is seen by verify().
LEMMA EditInvalid ==
  ASSUME NEW f \in File, NEW i \in 1 .. Len(f.lines), NEW n \in Nat, f.lines[i].digest < n
  PROVE  /\ [f EXCEPT !.lines[i].body = n] \in File
         /\ ~ Valid([f EXCEPT !.lines[i].body = n].lines)
         /\ [f EXCEPT !.lines[i].body = n].terminated = f.terminated
         /\ Len([f EXCEPT !.lines[i].body = n].lines) = Len(f.lines)
         /\ \A j \in 1 .. Len(f.lines) :
              [f EXCEPT !.lines[i].body = n].lines[j].digest = f.lines[j].digest
<1> DEFINE g == [f EXCEPT !.lines[i].body = n]
           edited == [f.lines[i] EXCEPT !.body = n]
<1>1. f.lines[i] \in Line /\ f.lines \in Seq(Line)
  BY DEF File
<1>2. /\ edited \in Line
      /\ edited.body = n
      /\ edited.digest = f.lines[i].digest
  BY <1>1 DEF Line
<1>3. /\ g.lines = [f.lines EXCEPT ![i] = edited]
      /\ g.terminated = f.terminated
      /\ g = [lines |-> g.lines, terminated |-> g.terminated]
  BY DEF File
<1> HIDE DEF g, edited
<1>4. g.lines \in Seq(Line) /\ Len(g.lines) = Len(f.lines)
  BY <1>1, <1>2, <1>3
<1>5. \A j \in 1 .. Len(f.lines) : g.lines[j] = IF j = i THEN edited ELSE f.lines[j]
  BY <1>1, <1>3
<1>6. g \in File
  BY <1>3, <1>4 DEF File
<1>7. ~ Valid(g.lines)
  <2>1. edited.digest # edited.body
    <3>1. f.lines[i].digest \in Nat
      BY <1>1 DEF Line
    <3>2. f.lines[i].digest # n
      BY <3>1
    <3> QED
      BY <1>2, <3>2
  <2>2. i \in 1 .. Len(g.lines) /\ g.lines[i] = edited
    BY <1>4, <1>5
  <2> QED
    BY <2>1, <2>2 DEF Valid
<1>8. \A j \in 1 .. Len(f.lines) : g.lines[j].digest = f.lines[j].digest
  BY <1>2, <1>5
<1> QED
  BY <1>3, <1>4, <1>6, <1>7, <1>8 DEF g

-----------------------------------------------------------------------------
\* The fresh file of initialize() satisfies the invariant.
LEMMA InitIInv == Init => IInv
<1> SUFFICES ASSUME Init PROVE IInv
  OBVIOUS
<1>1. TypeOK
  BY PlaceholdersTyped DEF Init, TypeOK
<1>2. ImagesHoldAcknowledged /\ WrittenInPlace
  BY DEF Init, ImagesHoldAcknowledged, WrittenInPlace
<1>3. UnterminatedHasLine /\ DigestsDrawn
  BY PlaceholdersTyped DEF Init, UnterminatedHasLine, DigestsDrawn, EmptyFile
<1> QED
  BY <1>1, <1>2, <1>3 DEF IInv

\* The parts a writer may store are those of Put.
LEMMA StoreParts ==
  ASSUME NEW w \in Writers, NEW part \in {"all"} \cup ShortParts
  PROVE  /\ part \in {"all", "no_newline", "part"}
         /\ \A torn \in TornParts : torn \in {"all", "no_newline", "part"}
BY PartsAssumption DEF CutParts

\* The heart of the argument: whatever went to the file, and whatever the storage makes
\* of it, a ledger that verifies afterwards verified before and has the new line in place.
LEMMA StoreIInv ==
  ASSUME NEW w \in Writers, NEW part \in {"all"} \cup ShortParts,
         IInv, Store(w, part), faults' \in Nat
  PROVE  IInv'
<1> DEFINE Stored == {"all", "no_newline", "part"}
<1>p. part \in Stored /\ \A torn \in TornParts : torn \in Stored
  BY StoreParts
<1>t. /\ file \in File /\ file \in images /\ images \subseteq File
      /\ pending[w] \in Line /\ pending \in [Writers -> Line]
      /\ ~ file.terminated => file.lines # <<>>
      /\ serial \in Nat
  BY DEF IInv, TypeOK, UnterminatedHasLine
<1>s. /\ pc[w] = "verified"
      /\ file' = Put(file, pending[w], part)
      /\ images' = images \cup {Put(file, pending[w], torn) : torn \in TornParts} \cup {file'}
      /\ pc' = [pc EXCEPT ![w] = "written"]
      /\ UNCHANGED <<pending, outcome, acked, serial, edits>>
  BY DEF Store
<1>i. \A f \in images' : f \in images \/ \E cut \in Stored : f = Put(file, pending[w], cut)
  BY <1>p, <1>s
<1>f. file' \in images'
  BY <1>s
<1> HIDE DEF Stored
<1>n. \A cut \in Stored : Put(file, pending[w], cut) \in File
  BY <1>t, PutTyped DEF Stored
<1>1. TypeOK'
  <2>1. images' \subseteq File
    BY <1>i, <1>n, <1>t
  <2>2. file' \in File
    BY <2>1, <1>f
  <2>3. pc' \in [Writers -> {"idle", "verified", "written"}]
    BY <1>s DEF IInv, TypeOK
  <2> QED
    BY <1>s, <1>f, <2>1, <2>2, <2>3 DEF IInv, TypeOK
<1>2. ImagesHoldAcknowledged'
  <2> SUFFICES ASSUME NEW f \in images', Valid(f.lines), NEW k \in 1 .. Len(acked)
               PROVE  InPlace(f.lines, acked[k])
    BY <1>s DEF ImagesHoldAcknowledged
  <2>1. CASE f \in images
    BY <2>1 DEF IInv, ImagesHoldAcknowledged
  <2>2. CASE \E cut \in Stored : f = Put(file, pending[w], cut)
    <3> PICK cut \in Stored : f = Put(file, pending[w], cut)
      BY <2>2
    <3>1. Valid(file.lines) /\ f.lines = Append(file.lines, pending[w])
      BY <1>t, PutValid DEF Stored
    <3>2. InPlace(file.lines, acked[k])
      BY <3>1, <1>t DEF IInv, ImagesHoldAcknowledged
    <3>3. acked[k] \in Line /\ file.lines \in Seq(Line)
      BY <1>t DEF IInv, TypeOK, File
    <3> QED
      BY <3>1, <3>2, <3>3, <1>t, InPlaceAppend
  <2> QED
    BY <2>1, <2>2, <1>i
<1>3. WrittenInPlace'
  <2> SUFFICES ASSUME NEW v \in Writers, pc'[v] = "written", Valid(file'.lines)
               PROVE  InPlace(file'.lines, pending[v])
    BY <1>s DEF WrittenInPlace
  <2>1. /\ Valid(file.lines)
        /\ file'.lines = Append(file.lines, pending[w])
        /\ pending[w].sequence = Len(file.lines) + 1
    BY <1>p, <1>s, <1>t, PutValid DEF Stored
  <2>2. file.lines \in Seq(Line) /\ pending[v] \in Line
    BY <1>t DEF File
  <2>3. CASE v = w
    BY <2>1, <2>2, <2>3 DEF InPlace
  <2>4. CASE v # w
    <3>1. pc[v] = "written"
      BY <2>4, <1>s DEF IInv, TypeOK
    <3>2. InPlace(file.lines, pending[v])
      BY <3>1, <2>1 DEF IInv, WrittenInPlace
    <3> QED
      BY <3>2, <2>1, <2>2, <1>t, InPlaceAppend
  <2> QED
    BY <2>3, <2>4
<1>4. UnterminatedHasLine'
  <2> SUFFICES ASSUME NEW f \in images' PROVE ~ f.terminated => f.lines # <<>>
    BY DEF UnterminatedHasLine
  <2>1. \A cut \in Stored : Put(file, pending[w], cut).lines # <<>>
    BY <1>t, PutTyped DEF Stored
  <2> QED
    BY <2>1, <1>i DEF IInv, UnterminatedHasLine
<1>5. DigestsDrawn'
  <2> SUFFICES ASSUME NEW f \in images', NEW i \in 1 .. Len(f.lines)
               PROVE  f.lines[i].digest <= serial
    BY <1>s DEF IInv, DigestsDrawn
  <2>1. CASE f \in images
    BY <2>1 DEF IInv, DigestsDrawn
  <2>2. CASE \E cut \in Stored : f = Put(file, pending[w], cut)
    <3> PICK cut \in Stored : f = Put(file, pending[w], cut)
      BY <2>2
    <3>1. \/ f.lines[i] = pending[w]
          \/ f.lines[i] = Unreadable
          \/ i \in 1 .. Len(file.lines) /\ f.lines[i] = file.lines[i]
      BY <1>t, PutTyped DEF Stored
    <3>2. pending[w].digest <= serial /\ Unreadable.digest <= serial
      BY <1>t, PlaceholdersTyped DEF IInv, DigestsDrawn
    <3> QED
      BY <3>1, <3>2, <1>t DEF IInv, DigestsDrawn
  <2> QED
    BY <2>1, <2>2, <1>i
<1> QED
  BY <1>1, <1>2, <1>3, <1>4, <1>5 DEF IInv

\* The steps that leave the file and its images alone.
LEMMA QuietIInv ==
  ASSUME IInv, UNCHANGED <<file, images, acked>>,
         TypeOK',
         serial <= serial',
         \A w \in Writers : pending'[w].digest <= serial',
         \A w \in Writers : pc'[w] = "written" => pc[w] = "written" /\ pending'[w] = pending[w]
  PROVE  IInv'
<1>1. ImagesHoldAcknowledged' /\ UnterminatedHasLine'
  BY DEF IInv, ImagesHoldAcknowledged, UnterminatedHasLine
<1>2. WrittenInPlace'
  BY DEF IInv, WrittenInPlace
<1>3. DigestsDrawn'
  <2>1. serial \in Nat /\ serial' \in Nat
    BY DEF IInv, TypeOK
  <2>2. \A f \in images : \A i \in 1 .. Len(f.lines) : f.lines[i].digest \in Nat
    <3>1. \A f \in images : f.lines \in Seq(Line)
      BY DEF IInv, TypeOK, File
    <3>2. \A f \in images : \A i \in 1 .. Len(f.lines) : f.lines[i] \in Line
      BY <3>1
    <3> QED
      BY <3>2 DEF Line
  <2> QED
    BY <2>1, <2>2 DEF IInv, DigestsDrawn
<1> QED
  BY <1>1, <1>2, <1>3 DEF IInv

\* Every step of append(), and a writer that dies in it, preserves the invariant.
LEMMA StepIInv ==
  ASSUME NEW w \in Writers, IInv, Step(w)
  PROVE  IInv'
<1> USE DEF Fault, Finish
<1>t. TypeOK /\ DigestsDrawn /\ serial \in Nat /\ pending \in [Writers -> Line]
  BY DEF IInv, TypeOK
<1>d. \A v \in Writers : pending[v].digest \in Nat /\ pending[v].digest <= serial
  BY <1>t DEF Line, DigestsDrawn
<1>1. CASE Verify(w)
  <2> DEFINE next == NextLine(file.lines, serial + 1)
  <2>1. /\ serial' = serial + 1
        /\ pending' = [pending EXCEPT ![w] = next]
        /\ pc' = [pc EXCEPT ![w] = "verified"]
        /\ UNCHANGED <<file, images, outcome, acked, faults, edits>>
    BY <1>1 DEF Verify
  <2>2. next \in Line /\ next.digest = serial + 1
    BY <1>t, NextLineTyped DEF TypeOK, File
  <2> HIDE DEF next
  <2>3. TypeOK'
    BY <2>1, <2>2 DEF IInv, TypeOK
  <2>4. \A v \in Writers : pending'[v].digest <= serial'
    BY <2>1, <2>2, <1>t, <1>d
  <2>5. \A v \in Writers : pc'[v] = "written" => pc[v] = "written" /\ pending'[v] = pending[v]
    BY <2>1, <1>t DEF TypeOK
  <2> QED
    BY <2>1, <2>3, <2>4, <2>5, <1>t, QuietIInv
<1>2. CASE Refuse(w) \/ WriteFails(w) \/ SyncFails(w) \/ Crash(w)
  <2>1. /\ pc' = [pc EXCEPT ![w] = "idle"]
        /\ UNCHANGED <<file, images, pending, acked, serial, edits>>
    BY <1>2 DEF Refuse, WriteFails, SyncFails, Crash
  <2>2. outcome' \in [Writers -> {"none", "appended", "refused", "failed"}] /\ faults' \in Nat
    BY <1>2 DEF Refuse, WriteFails, SyncFails, Crash, IInv, TypeOK
  <2>3. TypeOK'
    BY <2>1, <2>2 DEF IInv, TypeOK
  <2>4. \A v \in Writers : pc'[v] = "written" => pc[v] = "written" /\ pending'[v] = pending[v]
    BY <2>1 DEF IInv, TypeOK
  <2> QED
    BY <2>1, <2>3, <2>4, <1>d, <1>t, QuietIInv
<1>3. CASE Write(w)
  BY <1>3, StoreIInv DEF Write, IInv, TypeOK
<1>4. CASE ShortWrite(w)
  <2>1. PICK part \in ShortParts : Store(w, part)
    BY <1>4 DEF ShortWrite
  <2>2. faults' \in Nat
    BY <1>4 DEF ShortWrite, IInv, TypeOK
  <2> QED
    BY <2>1, <2>2, StoreIInv
<1>5. CASE Sync(w)
  <2>1. /\ pc[w] = "written"
        /\ images' = {file}
        /\ acked' = Append(acked, pending[w])
        /\ pc' = [pc EXCEPT ![w] = "idle"]
        /\ outcome' = [outcome EXCEPT ![w] = "appended"]
        /\ UNCHANGED <<file, pending, serial, faults, edits>>
    BY <1>5 DEF Sync
  <2>2. pending[w] \in Line /\ acked \in Seq(Line) /\ file \in images
    BY <1>t DEF TypeOK
  <2>3. TypeOK'
    BY <2>1, <2>2 DEF IInv, TypeOK
  <2>4. ImagesHoldAcknowledged'
    <3> SUFFICES ASSUME Valid(file.lines), NEW k \in 1 .. Len(acked')
                 PROVE  InPlace(file.lines, acked'[k])
      BY <2>1 DEF ImagesHoldAcknowledged
    <3>1. CASE k = Len(acked) + 1
      BY <3>1, <2>1, <2>2 DEF IInv, WrittenInPlace
    <3>2. CASE k # Len(acked) + 1
      <4>1. k \in 1 .. Len(acked) /\ acked'[k] = acked[k]
        BY <3>2, <2>1, <2>2
      <4> QED
        BY <4>1, <2>2 DEF IInv, ImagesHoldAcknowledged
    <3> QED
      BY <3>1, <3>2
  <2>5. WrittenInPlace'
    BY <2>1 DEF IInv, TypeOK, WrittenInPlace
  <2>6. UnterminatedHasLine' /\ DigestsDrawn'
    BY <2>1, <2>2 DEF IInv, UnterminatedHasLine, DigestsDrawn
  <2> QED
    BY <2>3, <2>4, <2>5, <2>6 DEF IInv
<1> QED
  BY <1>1, <1>2, <1>3, <1>4, <1>5 DEF Step

\* A power loss leaves an image of the storage, and every image held the acknowledged lines.
LEMMA PowerLossIInv == IInv /\ PowerLoss => IInv'
<1> SUFFICES ASSUME IInv, PowerLoss PROVE IInv'
  OBVIOUS
<1>1. PICK f \in images : file' = f /\ images' = {f}
  BY DEF PowerLoss
<1>2. /\ pc' = [w \in Writers |-> "idle"]
      /\ outcome' = [w \in Writers |-> "none"]
      /\ UNCHANGED <<pending, acked, serial, edits>>
      /\ faults' = faults + 1
  BY DEF PowerLoss, Fault
<1>3. TypeOK'
  BY <1>1, <1>2 DEF IInv, TypeOK
<1>4. ImagesHoldAcknowledged' /\ WrittenInPlace'
  BY <1>1, <1>2 DEF IInv, ImagesHoldAcknowledged, WrittenInPlace
<1>5. UnterminatedHasLine' /\ DigestsDrawn'
  BY <1>1, <1>2 DEF IInv, UnterminatedHasLine, DigestsDrawn
<1> QED
  BY <1>3, <1>4, <1>5 DEF IInv

\* An in-place edit preserves the invariant and leaves a file verify() rejects.
LEMMA EditIInv == IInv /\ Edit => IInv' /\ ~ Valid(file'.lines)
<1> SUFFICES ASSUME IInv, Edit PROVE IInv' /\ ~ Valid(file'.lines)
  OBVIOUS
<1>t. /\ file \in File /\ file \in images /\ images \subseteq File
      /\ serial \in Nat /\ edits \in Nat
      /\ pending \in [Writers -> Line]
  BY DEF IInv, TypeOK
<1>s. /\ serial' = serial + 1
      /\ edits' = edits + 1
      /\ images' = images \cup {file'}
      /\ UNCHANGED <<pc, pending, outcome, acked, faults>>
  BY DEF Edit
<1>1. PICK i \in 1 .. Len(file.lines) : file' = [file EXCEPT !.lines[i].body = serial + 1]
  BY DEF Edit
<1>d. \A f \in images : \A j \in 1 .. Len(f.lines) :
        f.lines[j].digest \in Nat /\ f.lines[j].digest <= serial
  <2>1. \A f \in images : \A j \in 1 .. Len(f.lines) : f.lines[j] \in Line
    BY <1>t DEF File
  <2> QED
    BY <2>1 DEF IInv, DigestsDrawn, Line
<1>p. \A v \in Writers : pending[v].digest \in Nat /\ pending[v].digest <= serial
  BY <1>t DEF IInv, DigestsDrawn, Line
<1>2. file.lines[i].digest < serial + 1
  BY <1>d, <1>t
<1>3. /\ file' \in File
      /\ ~ Valid(file'.lines)
      /\ file'.terminated = file.terminated
      /\ Len(file'.lines) = Len(file.lines)
      /\ \A j \in 1 .. Len(file.lines) : file'.lines[j].digest = file.lines[j].digest
  <2> DEFINE n == serial + 1
  <2>1. n \in Nat /\ file.lines[i].digest < n /\ file' = [file EXCEPT !.lines[i].body = n]
    BY <1>1, <1>2, <1>t
  <2> HIDE DEF n
  <2> QED
    BY <2>1, <1>t, EditInvalid, Zenon
<1>4. TypeOK'
  BY <1>3, <1>s, <1>t DEF IInv, TypeOK
<1>5. ImagesHoldAcknowledged' /\ WrittenInPlace'
  BY <1>3, <1>s DEF IInv, ImagesHoldAcknowledged, WrittenInPlace
<1>6. UnterminatedHasLine'
  BY <1>3, <1>s, <1>t DEF IInv, UnterminatedHasLine, File
<1>7. DigestsDrawn'
  BY <1>3, <1>s, <1>d, <1>p, <1>t DEF DigestsDrawn
<1> QED
  BY <1>3, <1>4, <1>5, <1>6, <1>7 DEF IInv

\* Every step preserves the invariant.
LEMMA NextIInv == IInv /\ [Next]_vars => IInv'
<1> SUFFICES ASSUME IInv, [Next]_vars PROVE IInv'
  OBVIOUS
<1>1. CASE \E w \in Writers : Step(w)
  BY <1>1, StepIInv
<1>2. CASE PowerLoss
  BY <1>2, PowerLossIInv
<1>3. CASE Edit
  BY <1>3, EditIInv
<1>4. CASE UNCHANGED vars
  BY <1>4 DEF vars, IInv, TypeOK, ImagesHoldAcknowledged, WrittenInPlace,
              UnterminatedHasLine, DigestsDrawn
<1> QED
  BY <1>1, <1>2, <1>3, <1>4 DEF Next

\* The strengthened invariant of the ledger holds in every reachable state.
THEOREM Invariant == Spec => []IInv
<1> QED
  BY InitIInv, NextIInv, PTL DEF Spec

\* The state of the ledger and of its writers keeps its shape (EvidenceLedger.append).
THEOREM TypeCorrect == Spec => []TypeOK
<1>1. IInv => TypeOK
  BY DEF IInv
<1> QED
  BY <1>1, Invariant, PTL

\* A ledger that verify() accepts holds every line append() ever returned, unchanged and
\* in the position it was returned with: for any number of processes, interleaved in any
\* way, with short writes, crashes, power losses and in-place edits.
THEOREM ValidLedgerIsComplete == Spec => []ValidLedgerHoldsAcknowledged
<1>1. IInv => ValidLedgerHoldsAcknowledged
  BY DEF IInv, TypeOK, ImagesHoldAcknowledged, ValidLedgerHoldsAcknowledged
<1> QED
  BY <1>1, Invariant, PTL

\* No append, however it races or fails, and no payload edit turns a ledger that verify()
\* rejects into one it accepts.
THEOREM DamageStays == Spec => AppendsNeverRepair
<1>1. IInv /\ [Next]_vars => [~ Valid(file.lines) /\ Valid(file.lines)' => PowerLoss]_vars
  <2> SUFFICES ASSUME IInv, Next, ~ Valid(file.lines), Valid(file'.lines)
               PROVE  PowerLoss
    OBVIOUS
  <2>1. ASSUME NEW w \in Writers, NEW part \in {"all"} \cup ShortParts, Store(w, part)
        PROVE  FALSE
    <3>1. /\ file \in File /\ pending[w] \in Line
          /\ ~ file.terminated => file.lines # <<>>
      BY DEF IInv, TypeOK, UnterminatedHasLine
    <3>2. file' = Put(file, pending[w], part)
      BY <2>1 DEF Store
    <3> QED
      BY <3>1, <3>2, StoreParts, PutValid
  <2>2. ~ \E w \in Writers : Write(w) \/ ShortWrite(w)
    BY <2>1 DEF Write, ShortWrite
  <2>3. ASSUME NEW w \in Writers, Step(w)
        PROVE  FALSE
    <3>1. UNCHANGED file
      BY <2>2, <2>3 DEF Step, Verify, Refuse, WriteFails, Sync, SyncFails, Crash
    <3> QED
      BY <3>1
  <2>4. ~ Edit
    BY EditIInv
  <2> QED
    BY <2>3, <2>4 DEF Next
<1> QED
  BY <1>1, Invariant, PTL DEF Spec, AppendsNeverRepair

-----------------------------------------------------------------------------
(* How far damage spreads.                                                 *)

\* The first n lines verify.
ValidUpTo(lines, n) ==
  \A i \in 1 .. n :
    /\ lines[i].readable
    /\ lines[i].sequence = i
    /\ lines[i].previous = PreviousDigest(lines, i)
    /\ lines[i].digest = lines[i].body

\* All lines but the last few verify.
DamagedBy(lines, few) == \E n \in 0 .. Len(lines) : ValidUpTo(lines, n) /\ Len(lines) - n <= few

\* The writers that cannot add to the damage, because they have to verify first.
Harmless == {w \in Writers : pc[w] # "verified"}

\* Every damaged line was stored by a writer of its own, which has to verify before it can
\* store another one; the storage may come back with the damage of all of them.
DamageInv ==
  edits = 0 =>
    /\ DamagedBy(file.lines, Cardinality(Harmless))
    /\ \A f \in images : DamagedBy(f.lines, Cardinality(Writers))

SameUpTo(lines, after, n) == \A i \in 1 .. n : after[i] = lines[i]

\* What verifies up to a line verifies as a file of its own when it is cut there or before.
LEMMA ValidPrefix ==
  ASSUME NEW lines \in Seq(Line), NEW n \in 0 .. Len(lines), ValidUpTo(lines, n), NEW m \in 1 .. n
  PROVE  Valid(SubSeq(lines, 1, m))
<1>1. /\ Len(SubSeq(lines, 1, m)) = m
      /\ \A i \in 1 .. m : SubSeq(lines, 1, m)[i] = lines[i] /\ i \in 1 .. n
  OBVIOUS
<1>2. \A i \in 1 .. m : i # 1 => i - 1 \in 1 .. m
  OBVIOUS
<1> QED BY <1>1, <1>2 DEF Valid, ValidUpTo, PreviousDigest

\* A file that starts with the same lines verifies as far as they do.
LEMMA SamePrefix ==
  ASSUME NEW lines, NEW after, NEW n \in Nat, NEW m \in 0 .. n,
         SameUpTo(lines, after, m), ValidUpTo(lines, n)
  PROVE  ValidUpTo(after, m)
<1>1. \A i \in 1 .. m : i \in 1 .. n /\ (i # 1 => i - 1 \in 1 .. m)
  OBVIOUS
<1> QED BY <1>1 DEF ValidUpTo, SameUpTo, PreviousDigest

\* A file that verifies has no damage at all.
LEMMA ValidIsUndamaged ==
  ASSUME NEW lines \in Seq(Line), Valid(lines), NEW few \in Nat
  PROVE  DamagedBy(lines, few)
<1>1. Len(lines) \in 0 .. Len(lines) /\ Len(lines) - Len(lines) <= few
  OBVIOUS
<1> QED BY <1>1 DEF Valid, ValidUpTo, DamagedBy

\* A bound on the damage may be raised.
LEMMA DamageWeakens ==
  ASSUME NEW lines \in Seq(Line), NEW few \in Nat, NEW more \in Nat, few <= more, DamagedBy(lines, few)
  PROVE  DamagedBy(lines, more)
BY DEF DamagedBy

\* Whatever a write stores damages one line at most: its own, or the one it is glued to.
LEMMA PutDamages ==
  ASSUME NEW f \in File, NEW line \in Line, NEW part \in {"all", "no_newline", "part"},
         ~ f.terminated => f.lines # <<>>,
         NEW few \in Nat, DamagedBy(f.lines, few)
  PROVE  DamagedBy(Put(f, line, part).lines, few + 1)
<1> DEFINE after == Put(f, line, part).lines
<1>1. PICK n \in 0 .. Len(f.lines) : ValidUpTo(f.lines, n) /\ Len(f.lines) - n <= few
  BY DEF DamagedBy
<1>2. f.lines \in Seq(Line) /\ Len(f.lines) \in Nat
  BY DEF File
<1>3. CASE f.terminated
  <2>1. /\ Len(after) = Len(f.lines) + 1
        /\ SameUpTo(f.lines, after, n)
    BY <1>2, <1>3 DEF Put, SameUpTo
  <2>2. n \in 0 .. Len(after) /\ Len(after) - n <= few + 1
    BY <1>1, <1>2, <2>1
  <2>3. ValidUpTo(after, n)
    <3>1. n \in Nat /\ n \in 0 .. n
      BY <1>2
    <3> HIDE DEF after
    <3> QED BY <1>1, <2>1, <3>1, SamePrefix
  <2> QED BY <2>2, <2>3 DEF DamagedBy
<1>4. CASE ~ f.terminated
  <2>1. f.lines # <<>> /\ Len(f.lines) # 0
    BY <1>2, <1>4
  <2>2. /\ Len(after) = Len(f.lines)
        /\ \A m \in 0 .. Len(f.lines) - 1 : SameUpTo(f.lines, after, m)
    BY <1>2, <1>4 DEF Put, SameUpTo
  <2>3. CASE n = Len(f.lines)
    <3>1. n - 1 \in 0 .. Len(after) /\ Len(after) - (n - 1) <= few + 1
      BY <1>2, <2>1, <2>2, <2>3
    <3>2. ValidUpTo(after, n - 1)
      <4> DEFINE m == n - 1
      <4>1. n \in Nat /\ m \in 0 .. n /\ m \in 0 .. Len(f.lines) - 1
        BY <1>2, <2>1, <2>3
      <4> HIDE DEF after, m
      <4>2. ValidUpTo(after, m)
        BY <1>1, <2>2, <4>1, SamePrefix
      <4> QED BY <4>2 DEF m
    <3> QED BY <3>1, <3>2 DEF DamagedBy
  <2>4. CASE n # Len(f.lines)
    <3>1. n \in 0 .. Len(after) /\ Len(after) - n <= few + 1
      BY <1>1, <1>2, <2>2
    <3>2. ValidUpTo(after, n)
      <4>1. n \in Nat /\ n \in 0 .. n /\ n \in 0 .. Len(f.lines) - 1
        BY <1>2, <2>4
      <4> HIDE DEF after
      <4> QED BY <1>1, <2>2, <4>1, SamePrefix
    <3> QED BY <3>1, <3>2 DEF DamagedBy
  <2> QED BY <2>3, <2>4
<1> QED BY <1>3, <1>4

-----------------------------------------------------------------------------
\* Writers are finitely many, and so are the harmless ones.
LEMMA HarmlessCounted ==
  /\ Cardinality(Harmless) \in Nat /\ Cardinality(Writers) \in Nat
  /\ Cardinality(Harmless) <= Cardinality(Writers)
<1>1. Harmless \in SUBSET Writers
  BY DEF Harmless
<1> QED BY <1>1, WritersAssumption, FS_Subset, FS_CardinalityType

\* A write damages a line and makes its writer harmless.
LEMMA StoreDamageInv ==
  ASSUME NEW w \in Writers, NEW part \in {"all"} \cup ShortParts,
         IInv, DamageInv, Store(w, part)
  PROVE  DamageInv'
<1> SUFFICES ASSUME edits' = 0
             PROVE  /\ DamagedBy(file'.lines, Cardinality(Harmless'))
                    /\ \A f \in images' : DamagedBy(f.lines, Cardinality(Writers))
  BY DEF DamageInv
<1> DEFINE Stored == {"all", "no_newline", "part"}
           few == Cardinality(Harmless)
<1>s. /\ pc[w] = "verified"
      /\ file' = Put(file, pending[w], part)
      /\ images' = images \cup {Put(file, pending[w], torn) : torn \in TornParts} \cup {file'}
      /\ pc' = [pc EXCEPT ![w] = "written"]
      /\ edits = 0
  BY DEF Store
<1>t. /\ file \in File /\ images \subseteq File /\ pending[w] \in Line
      /\ ~ file.terminated => file.lines # <<>>
      /\ pc \in [Writers -> {"idle", "verified", "written"}]
  BY DEF IInv, TypeOK, UnterminatedHasLine
<1>1. Harmless' = Harmless \cup {w} /\ w \notin Harmless
  BY <1>s, <1>t DEF Harmless
<1>2. IsFiniteSet(Harmless) /\ Harmless \in SUBSET Writers /\ Harmless' \in SUBSET Writers
  BY WritersAssumption, FS_Subset DEF Harmless
<1>3. /\ few \in Nat /\ Cardinality(Harmless') = few + 1
      /\ few + 1 <= Cardinality(Writers) /\ Cardinality(Writers) \in Nat
  BY <1>1, <1>2, WritersAssumption, FS_AddElement, FS_Subset, FS_CardinalityType
<1>4. \A cut \in Stored : DamagedBy(Put(file, pending[w], cut).lines, few + 1)
  BY <1>s, <1>t, <1>3, PutDamages DEF DamageInv
<1>5. part \in Stored /\ \A torn \in TornParts : torn \in Stored
  BY StoreParts
<1>6. \A cut \in Stored : DamagedBy(Put(file, pending[w], cut).lines, Cardinality(Writers))
  <2>1. \A cut \in Stored : Put(file, pending[w], cut).lines \in Seq(Line)
    BY <1>t, PutTyped DEF File
  <2> HIDE DEF few
  <2> QED BY <1>3, <1>4, <2>1, DamageWeakens
<1> HIDE DEF Stored, few
<1> QED BY <1>s, <1>3, <1>4, <1>5, <1>6 DEF DamageInv

\* Every step keeps the damage within the number of writers that cannot add to it.
LEMMA StepDamageInv == IInv /\ DamageInv /\ [Next]_vars => DamageInv'
<1> SUFFICES ASSUME IInv, DamageInv, [Next]_vars PROVE DamageInv'
  OBVIOUS
<1>t. /\ file \in File /\ file \in images /\ images \subseteq File
      /\ file.lines \in Seq(Line)
      /\ pc \in [Writers -> {"idle", "verified", "written"}]
      /\ edits \in Nat
  BY DEF IInv, TypeOK, File
\* Writers that stop or return become harmless, whoever they are.
<1>1. ASSUME NEW w \in Writers, pc' = [pc EXCEPT ![w] = "idle"],
             file' = file, images' \subseteq images, edits' = edits
      PROVE  DamageInv'
  <2>1. Harmless \in SUBSET Harmless' /\ Harmless' \in SUBSET Writers
    BY <1>1, <1>t DEF Harmless
  <2>2. /\ Cardinality(Harmless) \in Nat /\ Cardinality(Harmless') \in Nat
        /\ Cardinality(Harmless) <= Cardinality(Harmless')
    BY <2>1, WritersAssumption, FS_Subset, FS_CardinalityType
  <2>3. edits = 0 => DamagedBy(file.lines, Cardinality(Harmless'))
    BY <1>t, <2>2, DamageWeakens DEF DamageInv
  <2> QED BY <1>1, <2>3 DEF DamageInv
<1>2. ASSUME NEW w \in Writers, Step(w) PROVE DamageInv'
  <2>1. CASE Verify(w)
    <3>1. Valid(file.lines) /\ UNCHANGED <<file, images, edits>>
      BY <2>1 DEF Verify
    <3>2. Harmless' \in SUBSET Writers
      BY DEF Harmless
    <3>3. Cardinality(Harmless') \in Nat
      BY <3>2, WritersAssumption, FS_Subset, FS_CardinalityType
    <3>4. DamagedBy(file.lines, Cardinality(Harmless'))
      BY <1>t, <3>1, <3>3, ValidIsUndamaged
    <3> QED BY <3>1, <3>4 DEF DamageInv
  <2>2. CASE Refuse(w) \/ WriteFails(w) \/ SyncFails(w) \/ Crash(w) \/ Sync(w)
    <3>1. pc' = [pc EXCEPT ![w] = "idle"] /\ UNCHANGED <<file, edits>> /\ images' \subseteq images
      BY <1>t, <2>2 DEF Refuse, WriteFails, SyncFails, Crash, Sync, Finish
    <3> QED BY <1>1, <3>1
  <2>3. CASE Write(w) \/ ShortWrite(w)
    <3>1. PICK part \in {"all"} \cup ShortParts : Store(w, part)
      BY <2>3 DEF Write, ShortWrite
    <3> QED BY <3>1, StoreDamageInv
  <2> QED BY <1>2, <2>1, <2>2, <2>3 DEF Step
<1>3. CASE PowerLoss
  <2>1. PICK f \in images : file' = f /\ images' = {f}
    BY <1>3 DEF PowerLoss
  <2>2. pc' = [w \in Writers |-> "idle"] /\ edits' = edits
    BY <1>3 DEF PowerLoss
  <2>3. Harmless' = Writers
    BY <2>2 DEF Harmless
  <2> QED BY <2>1, <2>2, <2>3 DEF DamageInv
<1>4. CASE Edit
  BY <1>4, <1>t DEF Edit, DamageInv
<1>5. CASE UNCHANGED vars
  BY <1>5 DEF vars, DamageInv, Harmless
<1> QED BY <1>2, <1>3, <1>4, <1>5 DEF Next

\* Damage does not spread: without edits, the lines that do not verify are no more than the
\* writers that can have been inside append() when the file broke.
THEOREM DamageIsBounded == Spec => []DamageBounded
<1>1. Init => DamageInv
  <2> SUFFICES ASSUME Init PROVE DamageInv
    OBVIOUS
  <2>1. file = EmptyFile /\ images = {EmptyFile} /\ <<>> \in Seq(Line) /\ Valid(<<>>)
    BY DEF Init, Valid
  <2>2. DamagedBy(<<>>, Cardinality(Harmless)) /\ DamagedBy(<<>>, Cardinality(Writers))
    BY <2>1, HarmlessCounted, ValidIsUndamaged
  <2> QED BY <2>1, <2>2 DEF DamageInv, EmptyFile
<1>2. IInv /\ DamageInv => DamageBounded
  <2> DEFINE lines == file.lines
             good == {n \in 1 .. Len(lines) : Valid(SubSeq(lines, 1, n))}
  <2> SUFFICES ASSUME IInv, DamageInv, edits = 0
               PROVE  Len(lines) - Cardinality(good) <= Cardinality(Writers)
    BY DEF DamageBounded
  <2>1. lines \in Seq(Line) /\ file \in images
    BY DEF IInv, TypeOK, File
  <2> HIDE DEF lines
  <2>2. PICK n \in 0 .. Len(lines) : ValidUpTo(lines, n) /\ Len(lines) - n <= Cardinality(Writers)
    BY <2>1 DEF DamageInv, DamagedBy, lines
  <2>3. 1 .. n \in SUBSET good
    BY <2>1, <2>2, ValidPrefix
  <2>4. IsFiniteSet(1 .. Len(lines)) /\ good \in SUBSET (1 .. Len(lines))
    BY <2>1, FS_Interval
  <2>5. IsFiniteSet(good) /\ Cardinality(good) \in Nat
    BY <2>4, FS_Subset, FS_CardinalityType
  <2>6. Cardinality(1 .. n) <= Cardinality(good) /\ Cardinality(1 .. n) = n
    <3>1. n \in Int /\ 1 \in Int /\ n \in Nat
      BY <2>1, <2>2
    <3>2. Cardinality(1 .. n) = n
      BY <3>1, FS_Interval
    <3> HIDE DEF good
    <3> QED BY <2>3, <2>5, <3>2, FS_Subset
  <2> HIDE DEF good
  <2> QED BY <2>1, <2>2, <2>5, <2>6, HarmlessCounted
<1>3. IInv /\ DamageInv /\ [Next]_vars => DamageInv'
  BY StepDamageInv
<1> QED BY <1>1, <1>2, <1>3, Invariant, PTL DEF Spec

-----------------------------------------------------------------------------
(* One reliable writer implements the append-only log.                     *)

\* One process, whose lines are stored whole or not at all, and nobody edits the file.
OneReliableWriter ==
  /\ \E w : Writers = {w}
  /\ ShortParts = {} /\ TornParts = {}
  /\ MaxEdits = 0

\* How many records the last acknowledgement vouches for.
Kept == IF acked = <<>> THEN 0 ELSE acked[Len(acked)].sequence

\* What the log of a file is.
LogOf(lines) == [i \in 1 .. Len(lines) |-> lines[i].body]

\* The file verifies and holds bodies that were built.
FileIsLog ==
  /\ file.terminated
  /\ Valid(file.lines)
  /\ \A i \in 1 .. Len(file.lines) : file.lines[i].body \in 1 .. serial
  /\ Kept <= Len(file.lines)

\* The storage holds the file, or what is left of it without some unacknowledged lines.
IsTail(f) == f.terminated /\ \E n \in Kept .. Len(file.lines) : f.lines = SubSeq(file.lines, 1, n)

ImagesAreTails == \A f \in images : IsTail(f)

\* What the writer is about to store comes next in the file; what it stored is the last line.
PendingFits ==
  \A w \in Writers :
    /\ pc[w] = "verified" => \E b \in 1 .. serial : pending[w] = NextLine(file.lines, b)
    /\ pc[w] = "written" => Kept < Len(file.lines) /\ pending[w] = file.lines[Len(file.lines)]

LogInv == FileIsLog /\ ImagesAreTails /\ PendingFits /\ serial <= MaxRecords

\* What append() builds from a ledger that verifies makes a ledger that verifies.
LEMMA NextLineValid ==
  ASSUME NEW lines \in Seq(Line), Valid(lines), NEW b \in Nat
  PROVE  Valid(Append(lines, NextLine(lines, b)))
<1> DEFINE after == Append(lines, NextLine(lines, b))
           n == Len(lines)
<1>1. n \in Nat /\ Len(after) = n + 1
  OBVIOUS
<1>2. \A i \in 1 .. n : after[i] = lines[i]
  OBVIOUS
<1>3. after[n + 1] = NextLine(lines, b)
  OBVIOUS
<1>4. \A i \in 1 .. n + 1 : PreviousDigest(after, i) = PreviousDigest(lines, i)
  BY <1>1, <1>2 DEF PreviousDigest
<1> SUFFICES ASSUME NEW i \in 1 .. n + 1
             PROVE  /\ after[i].readable
                    /\ after[i].sequence = i
                    /\ after[i].previous = PreviousDigest(after, i)
                    /\ after[i].digest = after[i].body
  BY <1>1 DEF Valid
<1>5. CASE i \in 1 .. n
  BY <1>2, <1>4, <1>5 DEF Valid
<1>6. CASE i = n + 1
  <2>1. /\ NextLine(lines, b).readable
        /\ NextLine(lines, b).sequence = n + 1
        /\ NextLine(lines, b).previous = PreviousDigest(lines, n + 1)
        /\ NextLine(lines, b).digest = NextLine(lines, b).body
    BY DEF NextLine
  <2>2. PreviousDigest(after, n + 1) = PreviousDigest(lines, n + 1)
    BY <1>1, <1>4
  <2> HIDE DEF after, n
  <2> QED BY <1>3, <1>6, <2>1, <2>2
<1> QED BY <1>1, <1>5, <1>6

\* The log of a longer file is the longer log, that of a shorter one the shorter.
LEMMA LogOfParts ==
  ASSUME NEW lines \in Seq(Line)
  PROVE  /\ \A line \in Line : LogOf(Append(lines, line)) = Append(LogOf(lines), line.body)
         /\ \A n \in 0 .. Len(lines) : LogOf(SubSeq(lines, 1, n)) = SubSeq(LogOf(lines), 1, n)
<1>1. \A i \in 1 .. Len(lines) : lines[i].body \in Nat
  <2>1. \A i \in 1 .. Len(lines) : lines[i] \in Line
    OBVIOUS
  <2> QED BY <2>1 DEF Line
<1>2. LogOf(lines) \in Seq(Nat) /\ Len(LogOf(lines)) = Len(lines)
  <2>1. Len(lines) \in Nat
    OBVIOUS
  <2>2. LogOf(lines) \in [1 .. Len(lines) -> Nat]
    BY <1>1 DEF LogOf
  <2> QED BY <2>1, <2>2 DEF LogOf
<1>3. ASSUME NEW line \in Line PROVE LogOf(Append(lines, line)) = Append(LogOf(lines), line.body)
  <2>1. line.body \in Nat /\ Append(lines, line) \in Seq(Line) /\ Len(Append(lines, line)) = Len(lines) + 1
    BY DEF Line
  <2>2. Append(LogOf(lines), line.body)
          = [i \in 1 .. Len(lines) + 1 |-> IF i = Len(lines) + 1 THEN line.body ELSE lines[i].body]
    BY <1>2, <2>1 DEF LogOf
  <2> DEFINE after == Append(lines, line)
  <2>3. /\ Len(after) = Len(lines) + 1
        /\ \A i \in 1 .. Len(lines) + 1 :
             after[i].body = IF i = Len(lines) + 1 THEN line.body ELSE lines[i].body
    OBVIOUS
  <2> HIDE DEF after
  <2>4. LogOf(after) = [i \in 1 .. Len(lines) + 1 |-> IF i = Len(lines) + 1 THEN line.body ELSE lines[i].body]
    BY <2>3 DEF LogOf
  <2> QED BY <2>2, <2>4 DEF after
<1>4. ASSUME NEW n \in 0 .. Len(lines) PROVE LogOf(SubSeq(lines, 1, n)) = SubSeq(LogOf(lines), 1, n)
  <2>1. Len(SubSeq(lines, 1, n)) = n /\ \A i \in 1 .. n : SubSeq(lines, 1, n)[i] = lines[i]
    OBVIOUS
  <2>2. SubSeq(LogOf(lines), 1, n) = [i \in 1 .. n |-> lines[i].body]
    BY <1>2 DEF LogOf
  <2> DEFINE cut == SubSeq(lines, 1, n)
  <2> HIDE DEF cut
  <2>3. LogOf(cut) = [i \in 1 .. n |-> lines[i].body]
    BY <2>1 DEF LogOf, cut
  <2> QED BY <2>2, <2>3 DEF cut
<1> QED BY <1>3, <1>4

\* An acknowledgement vouches for a number of records.
LEMMA KeptTyped == TypeOK => Kept \in Nat
<1> SUFFICES ASSUME TypeOK PROVE Kept \in Nat
  OBVIOUS
<1>1. acked # <<>> => acked[Len(acked)] \in Line
  BY DEF TypeOK
<1> QED BY <1>1 DEF Kept, Line

\* The invariant holds at the start.
LEMMA InitLogInv == Init => LogInv
<1> SUFFICES ASSUME Init PROVE LogInv
  OBVIOUS
<1>1. /\ file.lines = <<>> /\ file.terminated /\ images = {file} /\ Kept = 0
      /\ Len(file.lines) = 0 /\ serial = 0
  BY DEF Init, EmptyFile, Kept
<1>2. SubSeq(file.lines, 1, 0) = file.lines
  BY <1>1
<1>3. FileIsLog
  BY <1>1 DEF FileIsLog, Valid
<1>4. 0 \in Kept .. Len(file.lines)
  BY <1>1
<1>5. ImagesAreTails
  BY <1>1, <1>2, <1>4 DEF ImagesAreTails, IsTail
<1>6. PendingFits
  BY DEF Init, PendingFits
<1> QED
  BY <1>1, <1>3, <1>5, <1>6, BoundsAssumption DEF LogInv

\* A line stored whole extends the file by the record that comes next.
LEMMA WriteLogInv ==
  ASSUME NEW w, Writers = {w}, IInv, LogInv, Write(w), TornParts = {}
  PROVE  /\ LogInv'
         /\ \E line \in Line : line.body \in 1 .. MaxRecords /\ file'.lines = Append(file.lines, line)
         /\ UNCHANGED acked
<1>s. /\ pc[w] = "verified"
      /\ file' = Put(file, pending[w], "all")
      /\ images' = images \cup {Put(file, pending[w], torn) : torn \in TornParts} \cup {file'}
      /\ pc' = [pc EXCEPT ![w] = "written"]
      /\ UNCHANGED <<pending, acked, serial>>
  BY DEF Write, Store
<1>t. /\ file \in File /\ images \subseteq File /\ pending[w] \in Line
      /\ file.lines \in Seq(Line) /\ Len(file.lines) \in Nat
      /\ pc \in [Writers -> {"idle", "verified", "written"}]
      /\ serial \in Nat /\ MaxRecords \in Nat
  BY BoundsAssumption DEF IInv, TypeOK, File
<1>1. PICK b \in 1 .. serial : pending[w] = NextLine(file.lines, b)
  BY <1>s DEF LogInv, PendingFits
<1>2. /\ file'.lines = Append(file.lines, pending[w]) /\ file'.terminated
      /\ Len(file'.lines) = Len(file.lines) + 1
      /\ file'.lines[Len(file.lines) + 1] = pending[w]
      /\ \A i \in 1 .. Len(file.lines) : file'.lines[i] = file.lines[i]
  <2>1. file' = [lines |-> Append(file.lines, pending[w]), terminated |-> TRUE]
    <3>1. file.terminated
      BY DEF LogInv, FileIsLog
    <3> QED BY <1>s, <3>1, Zenon DEF Put
  <2>2. file'.lines = Append(file.lines, pending[w]) /\ file'.terminated
    BY <2>1
  <2> QED BY <1>t, <2>2
<1>3. pending[w].body = b /\ b \in Nat
  BY <1>1, <1>t DEF NextLine
<1>4. Valid(file'.lines)
  BY <1>1, <1>2, <1>3, <1>t, NextLineValid DEF LogInv, FileIsLog
<1>5. Kept' = Kept /\ Kept \in Nat /\ Kept <= Len(file.lines)
  BY <1>s, KeptTyped DEF Kept, IInv, LogInv, FileIsLog
<1>6. FileIsLog'
  <2>1. Kept' <= Len(file'.lines)
    BY <1>2, <1>5, <1>t
  <2>2. \A i \in 1 .. Len(file.lines) + 1 : file'.lines[i].body \in 1 .. serial
    BY <1>1, <1>2, <1>3, <1>t DEF LogInv, FileIsLog
  <2> QED BY <1>2, <1>4, <1>s, <2>1, <2>2 DEF FileIsLog
<1>7. images' = images \cup {file'}
  BY <1>s
<1>8. ImagesAreTails'
  <2> SUFFICES ASSUME NEW f \in images \cup {file'}
               PROVE  f.terminated /\ \E n \in Kept .. Len(file.lines) + 1 : f.lines = SubSeq(file'.lines, 1, n)
    BY <1>2, <1>5, <1>7 DEF ImagesAreTails, IsTail
  <2>1. CASE f \in images
    <3>1. PICK n \in Kept .. Len(file.lines) : f.lines = SubSeq(file.lines, 1, n)
      BY <2>1 DEF LogInv, ImagesAreTails, IsTail
    <3>2. SubSeq(file'.lines, 1, n) = SubSeq(file.lines, 1, n)
      BY <1>2, <1>5, <1>t
    <3>3. n \in Kept .. Len(file.lines) + 1 /\ f.terminated
      BY <1>5, <1>t, <2>1 DEF LogInv, ImagesAreTails, IsTail
    <3> QED BY <3>1, <3>2, <3>3
  <2>2. CASE f = file'
    <3>1. SubSeq(file'.lines, 1, Len(file.lines) + 1) = file'.lines
      BY <1>2, <1>t
    <3>2. Len(file.lines) + 1 \in Kept .. Len(file.lines) + 1
      BY <1>5, <1>t
    <3> QED BY <1>2, <2>2, <3>1, <3>2
  <2> QED BY <2>1, <2>2
<1>9. PendingFits'
  <2>1. \A v \in Writers : v = w
    OBVIOUS
  <2>2. pc'[w] = "written"
    BY <1>s, <1>t
  <2>3. Kept' < Len(file'.lines) /\ pending'[w] = file'.lines[Len(file'.lines)]
    BY <1>2, <1>5, <1>s, <1>t
  <2> QED BY <2>1, <2>2, <2>3 DEF PendingFits
<1> QED
  BY <1>1, <1>2, <1>3, <1>6, <1>8, <1>9, <1>s, <1>t DEF LogInv

\* A step that leaves the file and the acknowledgements alone and whose writer ends up
\* outside append(), or about to store what comes next, is invisible to the log.
LEMMA QuietLogInv ==
  ASSUME NEW w, Writers = {w}, IInv, LogInv,
         UNCHANGED <<file, images, acked>>,
         serial' \in Nat, serial <= serial', serial' <= MaxRecords,
         pc'[w] # "written",
         pc'[w] = "verified" => pending'[w] = NextLine(file.lines, serial') /\ serial' # 0
  PROVE  LogInv'
<1>1. Kept' = Kept /\ serial \in Nat
  BY DEF Kept, IInv, TypeOK
<1>2. FileIsLog'
  BY <1>1 DEF LogInv, FileIsLog
<1>3. ImagesAreTails'
  BY <1>1 DEF LogInv, ImagesAreTails, IsTail
<1>4. \A v \in Writers : v = w
  OBVIOUS
<1>5. serial' # 0 => serial' \in 1 .. serial'
  OBVIOUS
<1>6. PendingFits'
  BY <1>4, <1>5 DEF PendingFits
<1> QED BY <1>2, <1>3, <1>6 DEF LogInv

\* fsync leaves one image, the file, and acknowledges its last line.
LEMMA SyncLogInv ==
  ASSUME NEW w, Writers = {w}, IInv, LogInv, Sync(w)
  PROVE  /\ LogInv'
         /\ UNCHANGED file
         /\ Kept \in Nat /\ Kept < Len(file.lines) /\ Kept' = Len(file.lines)
<1>s. /\ pc[w] = "written" /\ images' = {file}
      /\ acked' = Append(acked, pending[w])
      /\ pc' = [pc EXCEPT ![w] = "idle"]
      /\ UNCHANGED <<file, pending, serial>>
  BY DEF Sync, Finish
<1>t. /\ file.lines \in Seq(Line) /\ Len(file.lines) \in Nat
      /\ acked \in Seq(Line) /\ pending[w] \in Line
      /\ pc \in [Writers -> {"idle", "verified", "written"}]
  BY DEF IInv, TypeOK, File
<1>1. Kept \in Nat /\ Kept < Len(file.lines) /\ pending[w] = file.lines[Len(file.lines)]
  BY <1>s, KeptTyped DEF LogInv, PendingFits, IInv
<1>2. pending[w].sequence = Len(file.lines)
  <2>1. Len(file.lines) \in 1 .. Len(file.lines)
    BY <1>1, <1>t
  <2> QED BY <1>1, <2>1 DEF LogInv, FileIsLog, Valid
<1>3. Kept' = pending[w].sequence
  <2>1. acked' # <<>> /\ acked'[Len(acked')] = pending[w]
    BY <1>s, <1>t
  <2> QED BY <2>1 DEF Kept
<1>4. FileIsLog'
  BY <1>2, <1>3, <1>s, <1>t DEF LogInv, FileIsLog
<1>5. ImagesAreTails'
  <2>1. SubSeq(file.lines, 1, Len(file.lines)) = file.lines /\ Len(file.lines) \in Kept' .. Len(file.lines)
    BY <1>2, <1>3, <1>t
  <2>2. file.terminated
    BY DEF LogInv, FileIsLog
  <2> QED BY <1>s, <2>1, <2>2 DEF ImagesAreTails, IsTail
<1>6. PendingFits'
  <2>1. \A v \in Writers : v = w
    OBVIOUS
  <2>2. pc'[w] = "idle"
    BY <1>s, <1>t
  <2> QED BY <2>1, <2>2 DEF PendingFits
<1> QED BY <1>1, <1>2, <1>3, <1>4, <1>5, <1>6, <1>s DEF LogInv

\* A power loss takes away lines nobody was told about.
LEMMA PowerLossLogInv ==
  ASSUME IInv, LogInv, PowerLoss
  PROVE  /\ LogInv'
         /\ Kept' = Kept
         /\ \E n \in Kept .. Len(file.lines) : file'.lines = SubSeq(file.lines, 1, n)
<1>1. PICK f \in images : file' = f /\ images' = {f}
  BY DEF PowerLoss
<1>s. /\ pc' = [w \in Writers |-> "idle"]
      /\ UNCHANGED <<pending, acked, serial, edits>>
  BY DEF PowerLoss
<1>t. /\ file.lines \in Seq(Line) /\ Len(file.lines) \in Nat
      /\ f \in File
  BY DEF IInv, TypeOK, File
<1>2. Kept' = Kept /\ Kept \in Nat
  BY <1>s, KeptTyped DEF Kept, IInv
<1>3. PICK n \in Kept .. Len(file.lines) : f.lines = SubSeq(file.lines, 1, n)
  BY DEF LogInv, ImagesAreTails, IsTail
<1>4. f.terminated
  BY DEF LogInv, ImagesAreTails, IsTail
<1>5. /\ n \in Nat /\ n <= Len(file.lines) /\ Len(f.lines) = n
      /\ \A i \in 1 .. n : f.lines[i] = file.lines[i]
  BY <1>2, <1>3, <1>t
<1>6. FileIsLog'
  <2>1. \A i \in 1 .. n : i \in 1 .. Len(file.lines) /\ (i # 1 => i - 1 \in 1 .. n)
    BY <1>5, <1>t
  <2>2. \A i \in 1 .. n : PreviousDigest(f.lines, i) = PreviousDigest(file.lines, i)
    BY <1>5, <2>1 DEF PreviousDigest
  <2>3. Valid(f.lines)
    BY <1>5, <2>1, <2>2 DEF LogInv, FileIsLog, Valid
  <2>4. Kept <= Len(f.lines)
    BY <1>2, <1>3, <1>5
  <2>5. \A i \in 1 .. Len(f.lines) : f.lines[i].body \in 1 .. serial
    BY <1>5, <2>1 DEF LogInv, FileIsLog
  <2> QED BY <1>1, <1>2, <1>4, <1>s, <2>3, <2>4, <2>5 DEF FileIsLog
<1>7. ImagesAreTails'
  <2>1. f.lines = SubSeq(f.lines, 1, n) /\ n \in Kept .. n
    BY <1>2, <1>3, <1>5, <1>t DEF File
  <2> QED BY <1>1, <1>2, <1>4, <1>5, <2>1 DEF ImagesAreTails, IsTail
<1>8. PendingFits'
  BY <1>s DEF PendingFits
<1> QED BY <1>1, <1>2, <1>3, <1>6, <1>7, <1>8, <1>s DEF LogInv

\* Every step of the one reliable writer is a step of the append-only log or none.
LEMMA StepRefines ==
  ASSUME OneReliableWriter, IInv, LogInv, [Next]_vars
  PROVE  LogInv' /\ [Promise!Next]_Promise!vars
<1> DEFINE log == LogOf(file.lines)
<1>m. /\ Promise!vars = <<log, Kept>>
      /\ Promise!vars' = <<log', Kept'>>
  BY DEF Promise!vars, LogOf, Kept
<1>n. /\ Promise!Extend <=> (\E r \in 1 .. MaxRecords : log' = Append(log, r)) /\ Kept' = Kept
      /\ Promise!Acknowledge <=> Kept' \in (Kept + 1) .. Len(log) /\ log' = log
      /\ Promise!LoseTail <=> (\E n \in Kept .. Len(log) : log' = SubSeq(log, 1, n)) /\ Kept' = Kept
  BY DEF Promise!Extend, Promise!Acknowledge, Promise!LoseTail, LogOf, Kept
<1>w. PICK w : Writers = {w}
  BY DEF OneReliableWriter
<1>t. /\ file.lines \in Seq(Line) /\ Len(file.lines) \in Nat
      /\ pc \in [Writers -> {"idle", "verified", "written"}]
      /\ serial \in Nat /\ MaxRecords \in Nat /\ edits \in Nat
  BY BoundsAssumption DEF IInv, TypeOK, File
<1>l. Len(log) = Len(file.lines)
  BY <1>t DEF LogOf
<1> HIDE DEF log
<1>q. ASSUME LogInv', UNCHANGED <<file, acked>>
      PROVE  LogInv' /\ [Promise!Next]_Promise!vars
  <2>1. log' = log /\ Kept' = Kept
    BY <1>q DEF log, Kept
  <2> QED BY <1>q, <1>m, <2>1
<1>1. CASE Verify(w)
  <2>1. /\ pc' = [pc EXCEPT ![w] = "verified"]
        /\ pending' = [pending EXCEPT ![w] = NextLine(file.lines, serial + 1)]
        /\ serial' = serial + 1 /\ serial < MaxRecords
        /\ UNCHANGED <<file, images, acked>>
    BY <1>1 DEF Verify
  <2>2. pending \in [Writers -> Line] /\ w \in Writers
    BY <1>w DEF IInv, TypeOK
  <2>3. /\ pc'[w] # "written" /\ pending'[w] = NextLine(file.lines, serial')
        /\ serial' \in Nat /\ serial <= serial' /\ serial' <= MaxRecords /\ serial' # 0
    BY <1>t, <2>1, <2>2
  <2>4. LogInv'
    BY <1>w, <2>1, <2>3, QuietLogInv
  <2> QED BY <1>q, <2>1, <2>4
<1>2. CASE Refuse(w) \/ WriteFails(w) \/ SyncFails(w) \/ Crash(w)
  <2>1. /\ pc' = [pc EXCEPT ![w] = "idle"]
        /\ UNCHANGED <<file, images, pending, acked, serial>>
    BY <1>2 DEF Refuse, WriteFails, SyncFails, Crash, Finish
  <2>2. pc'[w] = "idle" /\ serial' \in Nat /\ serial <= serial' /\ serial' <= MaxRecords
    BY <1>t, <1>w, <2>1 DEF LogInv
  <2>3. LogInv'
    BY <1>w, <2>1, <2>2, QuietLogInv
  <2> QED BY <1>q, <2>1, <2>3
<1>3. CASE Write(w)
  <2>1. PICK line \in Line : line.body \in 1 .. MaxRecords /\ file'.lines = Append(file.lines, line)
    BY <1>3, <1>w, WriteLogInv DEF OneReliableWriter
  <2>2. log' = Append(log, line.body)
    BY <1>t, <2>1, LogOfParts DEF log
  <2>3. LogInv' /\ acked' = acked
    BY <1>3, <1>w, WriteLogInv DEF OneReliableWriter
  <2>4. Kept' = Kept
    BY <2>3 DEF Kept
  <2> QED BY <1>n, <2>1, <2>2, <2>3, <2>4 DEF Promise!Next
<1>4. CASE Sync(w)
  <2>1. LogInv' /\ UNCHANGED file /\ Kept \in Nat /\ Kept < Len(file.lines) /\ Kept' = Len(file.lines)
    BY <1>4, <1>w, SyncLogInv
  <2>2. log' = log /\ Kept' \in (Kept + 1) .. Len(log)
    BY <1>l, <1>t, <2>1 DEF log
  <2> QED BY <1>n, <2>1, <2>2 DEF Promise!Next
<1>5. CASE PowerLoss
  <2>1. PICK n \in Kept .. Len(file.lines) : file'.lines = SubSeq(file.lines, 1, n)
    BY <1>5, PowerLossLogInv
  <2>2. LogInv' /\ Kept' = Kept /\ Kept \in Nat
    BY <1>5, PowerLossLogInv, KeptTyped DEF IInv
  <2>3. log' = SubSeq(log, 1, n)
    BY <1>t, <2>1, <2>2, LogOfParts DEF log
  <2> QED BY <1>l, <1>n, <2>1, <2>2, <2>3 DEF Promise!Next
<1>6. ~ ShortWrite(w) /\ ~ Edit
  BY <1>t DEF OneReliableWriter, ShortWrite, Edit
<1>7. CASE UNCHANGED vars
  <2>1. LogInv'
    BY <1>7 DEF vars, LogInv, FileIsLog, ImagesAreTails, IsTail, PendingFits, Kept
  <2> QED BY <1>7, <1>q, <2>1 DEF vars
<1> QED BY <1>1, <1>2, <1>3, <1>4, <1>5, <1>6, <1>7, <1>w DEF Next, Step

\* A single writer whose lines are stored whole or not at all, whatever crashes, failed
\* writes, failed fsyncs and power losses it meets, implements the append-only log.
THEOREM ImplementsLog ==
  ASSUME OneReliableWriter
  PROVE  Spec => ImplementsAppendOnlyLog
<1>1. Init => Promise!Init
  <2> SUFFICES ASSUME Init PROVE Promise!Init
    OBVIOUS
  <2>1. file.lines = <<>> /\ Len(file.lines) = 0 /\ Kept = 0
    BY DEF Init, EmptyFile, Kept
  <2>2. LogOf(file.lines) = <<>>
    BY <2>1 DEF LogOf
  <2> QED BY <2>1, <2>2 DEF Promise!Init, LogOf, Kept
<1>2. IInv /\ LogInv /\ [Next]_vars => LogInv' /\ [Promise!Next]_Promise!vars
  BY StepRefines, OneReliableWriter
<1> QED
  BY <1>1, <1>2, InitLogInv, Invariant, PTL DEF Spec, ImplementsAppendOnlyLog, Promise!Spec
=============================================================================
