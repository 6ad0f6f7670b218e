-------------------------- MODULE OtaDownloadProofs -------------------------
(***************************************************************************)
(* OtaDownload implements TrialBoot, for any manifests, images, keys,      *)
(* floors, sizes and any number of faults.  The inductive invariant says   *)
(* where every unit the verifier was fed is: in the slot up to offset, and *)
(* from there in the writer's buffer; so the slot that is marked holds     *)
(* what was hashed.                                                        *)
(***************************************************************************)
EXTENDS OtaDownload, TLAPS

RowType(r) == r.image \in Images /\ r.manifest \in Headers \cup {NoHeader}

Stocked ==
  /\ \A id \in DOMAIN rows : RowType(rows[id])
  /\ writing # None => RowType(writing)

Typed ==
  /\ Stocked
  /\ active \in Slots /\ dfu \in Slots
  /\ boot \in {"boot", "swap", "revert"}
  /\ header \in Headers \cup {NoHeader}
  /\ body \in Seq(Units) /\ hashed \in Seq(Units) /\ buf \in Seq(Units)
  /\ offset \in Nat

Reading == phase = "reading" => body \in Images

(* What the manifest in use has passed. *)
Vetted ==
  phase = "streaming" =>
    header \in Genuine /\ header.body.security >= Floor[Build]

(* Where what was hashed has gone. *)
Written ==
  phase = "streaming" =>
    /\ Len(hashed) = offset + Len(buf)
    /\ Len(buf) < WriteSize
    /\ Len(hashed) <= ActiveSize
    /\ \A i \in 1 .. offset : dfu[i] = hashed[i]
    /\ \A i \in 1 .. Len(buf) : buf[i] = hashed[offset + i]

Signed(slot) == \E m \in Genuine : IsImage(m, slot)

Standing ==
  /\ phase # "idle" => boot = "boot"
  /\ phase = "marked" => Approved(active, dfu)
  /\ boot = "swap" => Signed(active) /\ Works(dfu)
  /\ boot # "swap" => Works(active)

IInv == Typed /\ Reading /\ Vetted /\ Written /\ Standing

USE DownloadAssumption

LEMMA FactoryWorks == Fresh(Factory) \in Slots /\ Blank \in Slots
                      /\ Works(Fresh(Factory))
<1>1. Factory \in Seq(Units) /\ Len(Factory) > 0 /\ Len(Factory) <= ActiveSize
  OBVIOUS
<1>2. Erased \in Units
  BY DEF Units
<1>3. Fresh(Factory) \in Slots /\ Blank \in Slots
  BY <1>1, <1>2 DEF Fresh, Blank, Slots
<1>4. Holds(Fresh(Factory), Factory)
  BY <1>1 DEF Holds, Fresh
<1>5. Fresh(Factory)[1] = Factory[1]
  BY <1>1 DEF Fresh
<1> QED
  BY <1>3, <1>4, <1>5 DEF Works

LEMMA InitIInv == Init => IInv
BY FactoryWorks DEF Init, IInv, Typed, Stocked, Reading, Vetted, Written, Standing

(* A block goes to its place and leaves the rest alone. *)
LEMMA FlashedSlot ==
  ASSUME dfu \in Slots, offset \in Nat,
         NEW block, DOMAIN block = 1 .. WriteSize,
         \A i \in DOMAIN block : block[i] \in Units
  PROVE  /\ Flashed(block) \in Slots
         /\ \A i \in 1 .. offset : i <= ActiveSize =>
              Flashed(block)[i] = dfu[i]
         /\ \A i \in 1 .. WriteSize : offset + i <= ActiveSize =>
              Flashed(block)[offset + i] = block[i]
<1>1. ActiveSize \in Nat /\ WriteSize \in Nat
  OBVIOUS
<1>2. Flashed(block) \in Slots
  BY <1>1 DEF Flashed, Slots
<1>3. ASSUME NEW i \in 1 .. offset, i <= ActiveSize
      PROVE  Flashed(block)[i] = dfu[i]
  BY <1>1, <1>3 DEF Flashed
<1>4. ASSUME NEW i \in 1 .. WriteSize, offset + i <= ActiveSize
      PROVE  Flashed(block)[offset + i] = block[i]
  <2>1. offset + i \in 1 .. ActiveSize /\ (offset + i) - offset = i
    BY <1>1, <1>4
  <2> QED
    BY <2>1, <1>4 DEF Flashed
<1> QED
  BY <1>2, <1>3, <1>4

-----------------------------------------------------------------------------
(* What the steps do to the invariant *)

LEMMA OperateStep == IInv /\ Operate => IInv' /\ UNCHANGED flash
<1> SUFFICES ASSUME IInv, Operate PROVE IInv' /\ UNCHANGED flash
  OBVIOUS
<1>1. Stocked' /\ UNCHANGED device
  <2>1. ASSUME NEW x \in Images, NEW m \in Headers \cup {NoHeader},
               UploadBegin(x, m)
        PROVE  Stocked' /\ UNCHANGED device
    BY <2>1 DEF IInv, Typed, Stocked, UploadBegin, RowType
  <2>2. CASE UploadEnd
    BY <2>2 DEF IInv, Typed, Stocked, UploadEnd, RowType
  <2>3. CASE UploadLost
    BY <2>3 DEF IInv, Typed, Stocked, UploadLost, RowType
  <2>4. ASSUME NEW id \in 1 .. MaxUploads, Delete(id)
        PROVE  Stocked' /\ UNCHANGED device
    BY <2>4 DEF IInv, Typed, Stocked, Delete, RowType
  <2>5. ASSUME NEW b, NEW u, SetTarget(b, u)
        PROVE  Stocked' /\ UNCHANGED device
    BY <2>5 DEF IInv, Typed, Stocked, SetTarget, RowType
  <2>6. CASE RemoveTarget
    BY <2>6 DEF IInv, Typed, Stocked, RemoveTarget, RowType
  <2> QED
    BY <2>1, <2>2, <2>3, <2>4, <2>5, <2>6 DEF Operate, Offer
<1>2. UNCHANGED <<active, dfu, boot, phase, header, body, hashed, buf, offset,
                  want>>
  BY <1>1 DEF device, flash, client
<1> QED
  BY <1>1, <1>2 DEF IInv, Typed, Reading, Vetted, Written, Standing, Build,
     Signed, Works, Approved, flash

(* Every way back to "idle" that leaves the flash alone. *)
LEMMA GiveUpStep ==
  IInv /\ GiveUp /\ UNCHANGED <<rows, writing>> => IInv' /\ UNCHANGED flash
BY DEF IInv, Typed, Stocked, Reading, Vetted, Written, Standing, GiveUp, Clear, flash,
   Signed, Works, Approved

LEMMA CheckStep == IInv /\ Check => IInv' /\ UNCHANGED flash
BY DEF IInv, Typed, Stocked, Reading, Vetted, Written, Standing, Check, Running, flash,
   server, Signed, Works, Approved

LEMMA RequestStep == IInv /\ Request => IInv' /\ UNCHANGED flash
<1> SUFFICES ASSUME IInv, Request PROVE IInv' /\ UNCHANGED flash
  OBVIOUS
<1>1. UNCHANGED <<rows, writing>>
  BY DEF Request, server
<1>2. CASE GiveUp
  BY <1>1, <1>2, GiveUpStep
<1>3. CASE ~GiveUp
  <2>1. /\ phase = "asked" /\ phase' = "reading"
        /\ header' \in Headers \cup {NoHeader} /\ body' \in Images
        /\ UNCHANGED <<active, dfu, boot, hashed, buf, offset>>
    BY <1>3 DEF Request, IInv, Typed, Stocked, RowType, flash
  <2>2. body' \in Seq(Units)
    BY <2>1
  <2> QED
    BY <1>1, <2>1, <2>2 DEF IInv, Typed, Stocked, Reading, Vetted, Written, Standing,
       flash, Signed, Works, Approved
<1> QED
  BY <1>2, <1>3

LEMMA FoundTyped ==
  ASSUME NEW x \in Images, NEW y \in Found(x)
  PROVE  y \in Seq(Units)
<1>1. x \in Seq(Units)
  OBVIOUS
<1>2. \A n \in 0 .. Len(x) - 1 : SubSeq(x, 1, n) \in Seq(Units)
  BY <1>1
<1> QED
  BY <1>1, <1>2 DEF Found

LEMMA AnswerStep == IInv /\ Answer => IInv' /\ UNCHANGED flash
<1> SUFFICES ASSUME IInv, Answer PROVE IInv' /\ UNCHANGED flash
  OBVIOUS
<1>1. UNCHANGED <<rows, writing>>
  BY DEF Answer, server
<1>2. CASE GiveUp
  BY <1>1, <1>2, GiveUpStep
<1>3. CASE ~GiveUp
  <2>1. /\ phase = "reading" /\ phase' = "streaming"
        /\ HeaderAccepted(header) /\ body' \in Found(body)
        /\ hashed' = << >> /\ buf' = << >> /\ offset' = 0
        /\ UNCHANGED <<active, dfu, boot, header>>
    BY <1>3 DEF Answer, flash
  <2>2. body' \in Seq(Units)
    BY <2>1, FoundTyped DEF IInv, Reading
  <2>3. header \in Genuine /\ header.body.security >= Floor[Build]
    BY <2>1 DEF HeaderAccepted, Parses, PolicyAccepts, Genuine, IInv, Typed
  <2>4. Typed' /\ Reading' /\ Vetted' /\ Standing'
    BY <1>1, <2>1, <2>2, <2>3 DEF IInv, Typed, Stocked, Reading, Vetted, Standing,
       Build, Signed, Works, Approved
  <2>5. Written'
    BY <2>1 DEF Written
  <2> QED
    BY <2>1, <2>4, <2>5 DEF IInv, flash
<1> QED
  BY <1>2, <1>3

(* Write keeps account of every unit. *)
LEMMA WriteFacts ==
  ASSUME Typed, Written, phase = "streaming", NEW unit \in Units,
         hashed' = Append(hashed, unit), Len(hashed') <= ActiveSize,
         Write(unit)
  PROVE  /\ dfu' \in Slots /\ offset' \in Nat /\ buf' \in Seq(Units)
         /\ Len(hashed') = offset' + Len(buf') /\ Len(buf') < WriteSize
         /\ \A i \in 1 .. offset' : dfu'[i] = hashed'[i]
         /\ \A i \in 1 .. Len(buf') : buf'[i] = hashed'[offset' + i]
<1> DEFINE filled == Append(buf, unit)
<1>1. /\ filled \in Seq(Units) /\ Len(filled) = Len(buf) + 1
      /\ hashed' \in Seq(Units) /\ Len(hashed') = Len(hashed) + 1
      /\ offset \in Nat /\ Len(buf) \in Nat /\ WriteSize \in Nat
      /\ Len(hashed) \in Nat /\ ActiveSize \in Nat
  BY DEF Typed
<1>2. \A i \in 1 .. Len(hashed) : hashed'[i] = hashed[i]
  BY DEF Typed
<1>a. /\ \A i \in 1 .. Len(buf) : filled[i] = buf[i]
      /\ filled[Len(buf) + 1] = unit
  BY DEF Typed
<1>b. hashed'[Len(hashed) + 1] = unit
  BY DEF Typed
<1>c. \A i \in DOMAIN filled : filled[i] \in Units
  BY <1>1
<1>d. Write(unit) => IF Len(filled) = WriteSize
                     THEN /\ dfu' = Flashed(filled) /\ buf' = << >>
                          /\ offset' = offset + WriteSize
                     ELSE buf' = filled /\ dfu' = dfu /\ offset' = offset
  BY DEF Write
<1> HIDE DEF filled
<1>3. \A i \in 1 .. Len(filled) : filled[i] = hashed'[offset + i]
  <2> TAKE i \in 1 .. Len(filled)
  <2>1. CASE i <= Len(buf)
    <3>1. i \in 1 .. Len(buf) /\ offset + i \in 1 .. Len(hashed)
      BY <1>1, <2>1 DEF Written
    <3>2. filled[i] = buf[i] /\ buf[i] = hashed[offset + i]
      BY <1>a, <3>1 DEF Written
    <3> QED
      BY <3>1, <3>2, <1>2
  <2>2. CASE i = Len(buf) + 1
    <3>1. offset + i = Len(hashed) + 1
      BY <1>1, <2>2 DEF Written
    <3> QED
      BY <3>1, <2>2, <1>a, <1>b
  <2>3. i <= Len(buf) \/ i = Len(buf) + 1
    BY <1>1
  <2> QED
    BY <2>1, <2>2, <2>3
<1>4. CASE Len(filled) = WriteSize
  <2>1. dfu' = Flashed(filled) /\ offset' = offset + WriteSize /\ buf' = << >>
    BY <1>4, <1>d
  <2>2. DOMAIN filled = 1 .. WriteSize
        /\ (\A i \in DOMAIN filled : filled[i] \in Units)
    BY <1>1, <1>4, <1>c
  <2>a. dfu \in Slots
    BY DEF Typed
  <2>3. /\ Flashed(filled) \in Slots
        /\ \A i \in 1 .. offset : i <= ActiveSize =>
             Flashed(filled)[i] = dfu[i]
        /\ \A i \in 1 .. WriteSize : offset + i <= ActiveSize =>
             Flashed(filled)[offset + i] = filled[i]
    BY <1>1, <2>2, <2>a, FlashedSlot
  <2>4. Len(hashed') = offset'
    <3>1. Len(hashed) = offset + Len(buf)
      BY DEF Written
    <3>2. offset' = offset + WriteSize
      BY <2>1
    <3>3. Len(hashed') = Len(hashed) + 1
      BY <1>1
    <3>4. WriteSize = Len(buf) + 1
      BY <1>1, <1>4
    <3> QED
      BY <1>1, <3>1, <3>2, <3>3, <3>4
  <2>5. \A i \in 1 .. offset' : dfu'[i] = hashed'[i]
    <3> TAKE i \in 1 .. offset'
    <3>1. CASE i <= offset
      BY <1>1, <1>2, <2>1, <2>3, <2>4, <3>1 DEF Typed, Written
    <3>2. CASE i > offset
      <4>1. i - offset \in 1 .. WriteSize /\ offset + (i - offset) = i
        BY <2>1, <3>2 DEF Typed
      <4>2. i <= ActiveSize
        BY <2>4
      <4> QED
        BY <1>3, <1>4, <2>1, <2>3, <4>1, <4>2
    <3>3. offset' = offset + WriteSize
      BY <2>1
    <3>4. i <= offset \/ i > offset
      BY <1>1, <3>3
    <3> QED
      BY <3>1, <3>2, <3>4
  <2> QED
    BY <2>1, <2>3, <2>4, <2>5 DEF Typed
<1>5. CASE Len(filled) # WriteSize
  <2>1. buf' = filled /\ dfu' = dfu /\ offset' = offset
    BY <1>5, <1>d
  <2>2. \A i \in 1 .. offset' : dfu'[i] = hashed'[i]
    BY <1>1, <1>2, <2>1 DEF Written
  <2>3. \A i \in 1 .. Len(buf') : buf'[i] = hashed'[offset' + i]
    BY <1>3, <2>1
  <2>4. dfu' \in Slots /\ offset' \in Nat
    BY <2>1 DEF Typed
  <2>5. buf' \in Seq(Units) /\ Len(buf') = Len(buf) + 1
    BY <1>1, <2>1
  <2>6. /\ Len(hashed) = offset + Len(buf) /\ Len(hashed') = Len(hashed) + 1
        /\ Len(buf) < WriteSize
    BY <1>1 DEF Written
  <2>7. Len(buf') < WriteSize
    BY <1>1, <1>5, <2>1, <2>5, <2>6
  <2>8. Len(hashed') = offset' + Len(buf')
    BY <1>1, <2>1, <2>5, <2>6
  <2> QED
    BY <2>2, <2>3, <2>4, <2>5, <2>7, <2>8
<1> QED
  BY <1>4, <1>5

LEMMA ReceiveStep ==
  IInv /\ Receive => IInv' /\ active' = active /\ boot' = boot
<1> SUFFICES ASSUME IInv, Receive
             PROVE  IInv' /\ active' = active /\ boot' = boot
  OBVIOUS
<1>1. UNCHANGED <<rows, writing>>
  BY DEF Receive, server
<1>2. CASE GiveUp
  BY <1>1, <1>2, GiveUpStep DEF flash
<1>3. CASE ~GiveUp
  <2>1. /\ phase = "streaming" /\ phase' = "streaming" /\ body # << >>
        /\ hashed' = Append(hashed, Head(body)) /\ body' = Tail(body)
        /\ Len(hashed') <= ActiveSize /\ Write(Head(body))
        /\ UNCHANGED <<active, boot, header>>
    BY <1>3 DEF Receive
  <2>2. /\ Head(body) \in Units /\ body' \in Seq(Units)
        /\ hashed' \in Seq(Units)
    BY <2>1 DEF IInv, Typed
  <2>3. /\ dfu' \in Slots /\ offset' \in Nat /\ buf' \in Seq(Units)
        /\ Len(hashed') = offset' + Len(buf') /\ Len(buf') < WriteSize
        /\ \A i \in 1 .. offset' : dfu'[i] = hashed'[i]
        /\ \A i \in 1 .. Len(buf') : buf'[i] = hashed'[offset' + i]
    BY <2>1, <2>2, WriteFacts DEF IInv
  <2>4. Typed' /\ Reading' /\ Vetted'
    BY <1>1, <2>1, <2>2, <2>3 DEF IInv, Typed, Stocked, Reading, Vetted, Build
  <2>5. Written'
    BY <2>1, <2>3 DEF Written
  <2>6. Standing'
    BY <2>1 DEF IInv, Standing, Works, Signed
  <2> QED
    BY <2>1, <2>4, <2>5, <2>6 DEF IInv
<1> QED
  BY <1>2, <1>3

(* What is marked is what was hashed. *)
LEMMA FinishedSlot ==
  ASSUME IInv, phase = "streaming", Matches(header.body, hashed),
         dfu' = IF buf = << >> THEN dfu ELSE Flashed(Padded)
  PROVE  dfu' \in Slots /\ IsImage(header, dfu')
<1> DEFINE padded == Padded
<1>1. /\ hashed \in Seq(Units) /\ buf \in Seq(Units) /\ offset \in Nat
      /\ dfu \in Slots /\ WriteSize \in Nat /\ ActiveSize \in Nat
      /\ Len(buf) \in Nat /\ Len(hashed) \in Nat
  BY DEF IInv, Typed
<1>2. /\ Len(hashed) = offset + Len(buf) /\ Len(buf) < WriteSize
      /\ Len(hashed) <= ActiveSize
      /\ \A i \in 1 .. offset : dfu[i] = hashed[i]
      /\ \A i \in 1 .. Len(buf) : buf[i] = hashed[offset + i]
  BY DEF IInv, Written
<1>3. dfu' \in Slots /\ \A i \in 1 .. Len(hashed) : dfu'[i] = hashed[i]
  <2>1. CASE buf = << >>
    BY <1>1, <1>2, <2>1
  <2>2. CASE buf # << >>
    <3>1. /\ DOMAIN padded = 1 .. WriteSize
          /\ \A i \in 1 .. Len(buf) : padded[i] = buf[i]
          /\ \A i \in DOMAIN padded : padded[i] \in Units
      BY <1>1, <1>2 DEF Padded, Units
    <3> HIDE DEF padded
    <3>2. /\ Flashed(padded) \in Slots
          /\ \A i \in 1 .. offset : i <= ActiveSize =>
               Flashed(padded)[i] = dfu[i]
          /\ \A i \in 1 .. WriteSize : offset + i <= ActiveSize =>
               Flashed(padded)[offset + i] = padded[i]
      BY <1>1, <3>1, FlashedSlot
    <3>3. dfu' = Flashed(padded)
      BY <2>2 DEF padded
    <3>4. ASSUME NEW i \in 1 .. Len(hashed) PROVE dfu'[i] = hashed[i]
      <4>1. CASE i <= offset
        <5>1. i \in 1 .. offset /\ i <= ActiveSize
          BY <1>1, <1>2, <4>1
        <5> QED
          BY <1>2, <3>2, <3>3, <5>1
      <4>2. CASE i > offset
        <5>1. /\ i - offset \in 1 .. Len(buf) /\ offset + (i - offset) = i
              /\ i - offset \in 1 .. WriteSize /\ i <= ActiveSize
          BY <1>1, <1>2, <4>2
        <5> QED
          BY <1>2, <3>1, <3>2, <3>3, <5>1
      <4> QED
        BY <1>1, <4>1, <4>2
    <3> QED
      BY <3>2, <3>3, <3>4
  <2> QED
    BY <2>1, <2>2
<1>4. header.body.sha = hashed /\ header.body.size = Len(hashed)
  BY DEF Matches
<1> QED
  BY <1>1, <1>2, <1>3, <1>4 DEF IsImage, Holds

LEMMA FinishStep ==
  IInv /\ Finish => IInv' /\ active' = active /\ boot' = boot
<1> SUFFICES ASSUME IInv, Finish
             PROVE  IInv' /\ active' = active /\ boot' = boot
  OBVIOUS
<1>1. UNCHANGED <<rows, writing>>
  BY DEF Finish, server
<1>2. CASE GiveUp
  BY <1>1, <1>2, GiveUpStep DEF flash
<1>3. CASE ~GiveUp
  <2>1. /\ phase = "streaming" /\ phase' = "marked"
        /\ Matches(header.body, hashed)
        /\ dfu' = IF buf = << >> THEN dfu ELSE Flashed(Padded)
        /\ UNCHANGED <<active, boot, header, body, hashed, buf, offset>>
    BY <1>3 DEF Finish, client
  <2>2. dfu' \in Slots /\ IsImage(header, dfu')
    BY <2>1, FinishedSlot
  <2>3. Approved(active, dfu')
    BY <2>1, <2>2 DEF Approved, IInv, Vetted, Build
  <2>4. Typed' /\ Reading' /\ Vetted' /\ Written'
    BY <1>1, <2>1, <2>2 DEF IInv, Typed, Stocked, Reading, Vetted, Written
  <2>5. Standing'
    BY <2>1, <2>3 DEF IInv, Standing, Works, Signed, Approved
  <2> QED
    BY <2>1, <2>4, <2>5 DEF IInv
<1> QED
  BY <1>2, <1>3

LEMMA FaultStep == IInv /\ (Abort \/ Cut \/ Garble) => IInv' /\ UNCHANGED flash
<1> SUFFICES ASSUME IInv, Abort \/ Cut \/ Garble PROVE IInv' /\ UNCHANGED flash
  OBVIOUS
<1>1. UNCHANGED <<rows, writing>>
  BY DEF Abort, Cut, Garble, server
<1>2. CASE Abort
  BY <1>1, <1>2, GiveUpStep DEF Abort
<1>3. CASE Cut \/ Garble
  <2>1. /\ phase = "streaming" /\ body' \in Seq(Units)
        /\ UNCHANGED <<active, dfu, boot, phase, header, hashed, buf, offset>>
    <3>1. Noise \in Units
      BY DEF Units
    <3>2. <<Noise>> \o Tail(body) \in Seq(Units) \/ body = << >>
      BY <3>1 DEF IInv, Typed
    <3>3. << >> \in Seq(Units)
      OBVIOUS
    <3>4. CASE Cut
      BY <3>3, <3>4 DEF Cut, flash
    <3>5. CASE Garble
      BY <3>2, <3>5 DEF Garble, flash
    <3> QED
      BY <1>3, <3>4, <3>5
  <2>2. Typed' /\ Reading' /\ Vetted' /\ Written' /\ Standing'
    BY <1>1, <2>1 DEF IInv, Typed, Stocked, Reading, Vetted, Written, Standing,
       Build, Works, Signed, Approved
  <2> QED
    BY <2>1, <2>2 DEF IInv, flash
<1> QED
  BY <1>2, <1>3

LEMMA RestartStep ==
  IInv /\ Restart => IInv' /\ (UNCHANGED flash \/ Trial!Install \/ Trial!Restore)
<1> SUFFICES ASSUME IInv, Restart
             PROVE  IInv' /\ (UNCHANGED flash \/ Trial!Install \/ Trial!Restore)
  OBVIOUS
<1>1. UNCHANGED <<rows, writing>> /\ phase' = "idle" /\ Clear
  BY DEF Restart, server
<1>2. Stocked' /\ Reading' /\ Vetted' /\ Written'
  BY <1>1 DEF IInv, Typed, Stocked, Reading, Vetted, Written
<1>3. CASE phase = "marked"
  <2>1. /\ boot = "boot" /\ boot' = "swap" /\ active' = dfu /\ dfu' = active
        /\ Approved(active, dfu) /\ Works(active)
    BY <1>3 DEF Restart, IInv, Standing
  <2>2. Signed(dfu)
    BY <2>1 DEF Approved, Signed
  <2>3. Trial!Install
    BY <2>1 DEF Trial!Install, Trial!Exchange
  <2> QED
    BY <1>1, <1>2, <2>1, <2>2, <2>3 DEF IInv, Typed, Standing, Clear, Works,
       Signed
<1>4. CASE phase # "marked" /\ boot = "swap"
  <2>1. /\ boot' = "revert" /\ active' = dfu /\ dfu' = active /\ Works(dfu)
    BY <1>4 DEF Restart, IInv, Standing
  <2>2. Trial!Restore
    BY <1>4, <2>1 DEF Trial!Restore, Trial!Exchange
  <2> QED
    BY <1>1, <1>2, <2>1, <2>2 DEF IInv, Typed, Standing, Clear, Works
<1>5. CASE phase # "marked" /\ boot # "swap"
  <2>1. UNCHANGED flash
    BY <1>5 DEF Restart
  <2> QED
    BY <1>1, <1>2, <1>5, <2>1 DEF IInv, Typed, Standing, Clear, flash, Works
<1> QED
  BY <1>3, <1>4, <1>5

LEMMA ReportStep == IInv /\ Report => IInv' /\ (Trial!Keep \/ Trial!Resume)
<1> SUFFICES ASSUME IInv, Report PROVE IInv' /\ (Trial!Keep \/ Trial!Resume)
  OBVIOUS
<1>1. /\ phase = "idle" /\ Build \notin Duds /\ boot # "boot" /\ boot' = "boot"
      /\ UNCHANGED <<rows, writing, active, dfu, phase, header, body, hashed,
                     buf, offset>>
  BY DEF Report, Running, client
<1>2. Works(active)
  BY <1>1 DEF IInv, Standing, Works, Signed, Build
<1>3. boot \in {"swap", "revert"}
  BY <1>1 DEF IInv, Typed
<1> QED
  BY <1>1, <1>2, <1>3 DEF IInv, Typed, Stocked, Reading, Vetted, Written,
     Standing, Works, Trial!Keep, Trial!Resume

(* Every step keeps the invariant, and is one of TrialBoot or a stutter. *)
LEMMA NextStep == IInv /\ [Next]_vars => IInv' /\ [Trial!Next]_(Trial!vars)
<1> SUFFICES ASSUME IInv, [Next]_vars
             PROVE  IInv' /\ [Trial!Next]_(Trial!vars)
  OBVIOUS
<1>1. CASE Operate
  BY <1>1, OperateStep DEF flash, Trial!vars
<1>2. CASE Check \/ Request \/ Answer
  BY <1>2, CheckStep, RequestStep, AnswerStep DEF flash, Trial!vars
<1>3. CASE Receive \/ Finish
  <2>1. IInv' /\ active' = active /\ boot' = boot
    BY <1>3, ReceiveStep, FinishStep
  <2>2. phase = "streaming"
    BY <1>3 DEF Receive, Finish
  <2>3. boot = "boot" /\ dfu' \in Slots
    BY <2>1, <2>2 DEF IInv, Standing, Typed
  <2> QED
    BY <2>1, <2>3 DEF Trial!Next, Trial!Prepare
<1>4. CASE Reset \/ PowerLoss
  BY <1>4, RestartStep DEF Reset, PowerLoss, flash, Trial!vars, Trial!Next
<1>5. CASE Report
  BY <1>5, ReportStep DEF Trial!Next
<1>6. CASE Abort \/ Cut \/ Garble
  BY <1>6, FaultStep DEF flash, Trial!vars
<1>7. CASE UNCHANGED vars
  BY <1>7 DEF vars, server, device, flash, client, IInv, Typed, Stocked,
     Reading, Vetted, Written, Standing, Build, Works, Signed, Approved,
     Trial!vars
<1> QED
  BY <1>1, <1>2, <1>3, <1>4, <1>5, <1>6, <1>7 DEF Next, Device

LEMMA InitTrial == Init => Trial!Init
BY FactoryWorks DEF Init, Trial!Init

(* A device moves only to whole images that a trusted key signed and its   *)
(* floor allows, and keeps what it falls back to until the trial is over,  *)
(* whatever is uploaded, offered, cut short or changed on the way          *)
(* (ferrite-sdk/src/ota.rs:9-12).                                          *)
THEOREM TrialKeptCorrect == Spec => TrialKept
<1>1. Spec => []IInv
  BY InitIInv, NextStep, PTL DEF Spec
<1> QED
  BY <1>1, InitTrial, NextStep, PTL DEF Spec, TrialKept, Trial!Spec

(* What runs works, or a reset brings back what does                       *)
(* (examples/embassy-stm32h563/src/ota.rs:10-12).                          *)
THEOREM RecoverableCorrect == Spec => []Recoverable
<1>1. IInv => Recoverable
  BY DEF IInv, Standing, Recoverable, Trial!Recoverable
<1> QED
  BY <1>1, InitIInv, NextStep, PTL DEF Spec
=============================================================================
