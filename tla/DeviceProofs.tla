---------------------------- MODULE DeviceProofs ----------------------------
(***************************************************************************)
(* Proofs about what a device tells of itself: firmware is told the truth  *)
(* of its uploads (Sessions), for any number of values, regions and        *)
(* faults, a Linux device of its last reboot (BootCause), for any images,  *)
(* boots, saves and failures, a reader of the trace ring gets the frames   *)
(* that were logged (DefmtSink), for any sizes, bytes and interleavings,   *)
(* and the server the records that were sent (Wire), for any records.      *)
(*                                                                         *)
(* The ring's invariant (RingInv) relates its bytes to the frames written: *)
(* they lie one behind the other up to the end of the used part (Chained), *)
(* byte for byte (Holding).  So the scan for a sentinel always finds one,  *)
(* the last byte of a frame at the latest (EndsAreCuts), and when no other *)
(* byte looks like it, nothing else (CutsAreEnds): then each cut it counts *)
(* is a frame, and else at least each frame is a cut (LossesAre).  Reading *)
(* is a recursion over places; that it has a solution is shown from the    *)
(* last place down (FramesOfIs), as is what it gives (ReadsAll).           *)
(*                                                                         *)
(* The logger's (StagingInv) says what an undisturbed call has staged: its *)
(* pieces so far, as far as they fit.                                      *)
(*                                                                         *)
(* The wire's (WireInv) says that what was sent gives what is due: what    *)
(* each encoder makes is read field by field (RecordsRead), metrics        *)
(* however they are cut into payloads (PackedRead), a body chunk by chunk  *)
(* as far as it arrived (BodyDecoded); what compression makes can be       *)
(* undone, whatever the bytes (CompressUndone).  Every codec is a          *)
(* recursion: first that it has a solution (Unrolls), then what it gives.  *)
(***************************************************************************)
EXTENDS Sessions, BootCause, DefmtSink, Wire, FiniteSetTheorems,
        SequenceTheorems, TLAPS

-----------------------------------------------------------------------------
(* Sessions *)

(* A chunk of the sequence carries the value.                              *)
Carries(s, x) == \E i \in 1 .. Len(s) : x \in s[i]

(* While a session sends, what was held when it began is with the link or  *)
(* in a chunk still to be sent; only Embassy's firmware runs meanwhile.    *)
Sending ==
  session.at = "sending" =>
    /\ \A x \in IdsOf(session.asked) : x \in host \/ Carries(session.chunks, x)
    /\ front # "embassy" => held = session.asked
    /\ \A x \in due : x \in host \/ x \in IdsOf(session.asked)

(* What was asked for is with the link, or still held for the session that *)
(* is to come.                                                             *)
Asked ==
  /\ session.at # "sending" => \A x \in due : x \in host \/ x \in IdsOf(held)
  /\ session.at = "over" => due \subseteq host
  /\ session.at = "none" => due \subseteq host \/ pending

(* Only C functions answer, when no session runs; they request none.       *)
Answered ==
  /\ front = "c" => due = {}
  /\ reply # Never => front = "c" /\ session.at = "none"
  /\ front # "embassy" => session.at \in {"none", "sending"}

SessionInv == SessionTypeOK /\ Sending /\ Asked /\ Answered /\ CodesTell

LEMMA CarriesLeft ==
  ASSUME NEW s \in Seq(SUBSET Ids), NEW t \in Seq(SUBSET Ids), NEW x,
         Carries(s, x)
  PROVE  Carries(s \o t, x)
BY DEF Carries

LEMMA CarriesRight ==
  ASSUME NEW s \in Seq(SUBSET Ids), NEW t \in Seq(SUBSET Ids), NEW x,
         Carries(t, x)
  PROVE  Carries(s \o t, x)
<1>1. PICK i \in 1 .. Len(t) : x \in t[i]
  BY DEF Carries
<1>2. /\ Len(s) + i \in 1 .. Len(s \o t)
      /\ (s \o t)[Len(s) + i] = t[i]
  OBVIOUS
<1> QED
  BY <1>1, <1>2 DEF Carries

LEMMA CarriesOne ==
  ASSUME NEW c \in SUBSET Ids, NEW x \in c
  PROVE  Carries(<<c>>, x)
BY DEF Carries

(* The chunks of a session carry all that is held.                         *)
LEMMA ChunksCarry ==
  ASSUME SessionTypeOK
  PROVE  /\ SessionChunks \in Seq(SUBSET Ids)
         /\ \A x \in IdsOf(held) : Carries(SessionChunks, x)
<1> DEFINE R == IF held.reason = Never THEN <<>> ELSE << {held.reason.id} >>
           F == IF held.fault = Never THEN <<>> ELSE << {held.fault} >>
           M == IF held.metrics = {} THEN <<>> ELSE << held.metrics >>
           E == << {} >>
<1>1. /\ held.reason # Never => held.reason.id \in Ids
      /\ held.fault # Never => held.fault \in Ids
      /\ held.metrics \subseteq Ids
  BY DEF SessionTypeOK, Held
<1>2. /\ R \in Seq(SUBSET Ids) /\ F \in Seq(SUBSET Ids)
      /\ M \in Seq(SUBSET Ids) /\ E \in Seq(SUBSET Ids)
  <2>1. R \in Seq(SUBSET Ids)
    <3>1. CASE held.reason = Never
      BY <3>1
    <3>2. CASE held.reason # Never
      BY <3>2, <1>1
    <3> QED BY <3>1, <3>2
  <2>2. F \in Seq(SUBSET Ids)
    <3>1. CASE held.fault = Never
      BY <3>1
    <3>2. CASE held.fault # Never
      BY <3>2, <1>1
    <3> QED BY <3>1, <3>2
  <2>3. M \in Seq(SUBSET Ids)
    <3>1. CASE held.metrics = {}
      BY <3>1
    <3>2. CASE held.metrics # {}
      <4>1. PICK m \in SUBSET Ids : m = held.metrics
        BY <1>1
      <4>2. << m >> \in Seq(SUBSET Ids)
        OBVIOUS
      <4> QED BY <3>2, <4>1, <4>2
    <3> QED BY <3>1, <3>2
  <2>4. E \in Seq(SUBSET Ids)
    OBVIOUS
  <2> QED BY <2>1, <2>2, <2>3, <2>4
<1>3. SessionChunks = E \o R \o F \o M \o E
  BY DEF SessionChunks
<1>4. \A x \in IdsOf(held) : Carries(R, x) \/ Carries(F, x) \/ Carries(M, x)
  BY <1>1, CarriesOne DEF IdsOf
<1> HIDE DEF R, F, M, E
<1>5. /\ E \o R \in Seq(SUBSET Ids)
      /\ E \o R \o F \in Seq(SUBSET Ids)
      /\ E \o R \o F \o M \in Seq(SUBSET Ids)
      /\ E \o R \o F \o M \o E \in Seq(SUBSET Ids)
  BY <1>2
<1>6. ASSUME NEW x, Carries(R, x) \/ Carries(F, x) \/ Carries(M, x)
      PROVE  Carries(E \o R \o F \o M \o E, x)
  <2>1. Carries(R, x) => Carries(E \o R, x)
    BY <1>2, CarriesRight
  <2>2. Carries(E \o R, x) \/ Carries(F, x) => Carries(E \o R \o F, x)
    BY <1>2, <1>5, CarriesLeft, CarriesRight
  <2>3. Carries(E \o R \o F, x) \/ Carries(M, x) => Carries(E \o R \o F \o M, x)
    BY <1>2, <1>5, CarriesLeft, CarriesRight
  <2>4. Carries(E \o R \o F \o M, x) => Carries(E \o R \o F \o M \o E, x)
    BY <1>2, <1>5, CarriesLeft
  <2> QED
    BY <1>6, <2>1, <2>2, <2>3, <2>4
<1> QED
  BY <1>3, <1>4, <1>5, <1>6

LEMMA SessionInvInit == SessionInit => SessionInv
<1> SUFFICES ASSUME SessionInit PROVE SessionInv
  OBVIOUS
<1>1. SessionTypeOK
  <2>1. Empty \in Held
    BY DEF Empty, Held
  <2>2. NoSession \in [at : {"none", "woken", "sending", "over"},
                      chunks : Seq(SUBSET Ids), asked : Held]
    BY <2>1 DEF NoSession
  <2>3. sdk \in [up : BOOLEAN, regions : 0 .. RegionLimit]
    BY SessionsAssumption DEF SessionInit
  <2> QED
    BY <2>1, <2>2, <2>3 DEF SessionInit, SessionTypeOK
<1>2. Sending /\ Asked /\ Answered /\ CodesTell
  BY DEF SessionInit, Sending, Asked, Answered, CodesTell, NoSession
<1> QED
  BY <1>1, <1>2 DEF SessionInv

LEMMA EmptyIs ==
  /\ Empty \in Held /\ IdsOf(Empty) = {}
  /\ NoSession \in [at : {"none", "woken", "sending", "over"},
                    chunks : Seq(SUBSET Ids), asked : Held]
<1>1. Empty \in Held /\ IdsOf(Empty) = {}
  BY DEF Empty, Held, IdsOf
<1> QED
  BY <1>1 DEF NoSession

(* A value is recorded: what is held stays in Held. *)
LEMMA NoteTyped ==
  ASSUME SessionTypeOK, CanNote
  PROVE  /\ noted + 1 \in Ids
         /\ [held EXCEPT !.metrics = @ \cup {noted + 1}] \in Held
         /\ \A byte : [held EXCEPT !.reason = [id |-> noted + 1, code |-> ReasonOf(byte)]]
                      \in Held
         /\ [reason |-> [id |-> noted + 1, code |-> 4], fault |-> noted + 1, metrics |-> {}]
              \in Held
<1>1. noted + 1 \in Ids
  BY SessionsAssumption DEF SessionTypeOK, CanNote, Ids
<1>2. \A byte : ReasonOf(byte) \in 0 .. 12
  BY DEF ReasonOf
<1> QED
  BY <1>1, <1>2 DEF SessionTypeOK, Held

(* A C function that returns at once, and may have recorded a value.       *)
Returns(made, code, found) ==
  /\ CCalls /\ Answers(made, code, found) /\ (made = "upload" => code # "Ok")
  /\ sdk' \in [up : BOOLEAN, regions : 0 .. RegionLimit]
  /\ \/ UNCHANGED <<held, noted>>
     \/ code = "Ok" /\ noted' = noted + 1 /\ held' \in Held

LEMMA ReturnsStep ==
  ASSUME SessionInv, NEW made, NEW code, NEW found, Returns(made, code, found)
  PROVE  SessionInv'
<1>1. /\ front = "c" /\ session = NoSession /\ session.at = "none"
      /\ UNCHANGED <<front, session, pending, crashes, host, due>>
      /\ held' \in Held /\ noted' \in Nat
      /\ reply' = Returned(made, code, held, found, FALSE)
      /\ (made = "upload" => code # "Ok")
      /\ held' # held => code = "Ok"
  BY DEF SessionInv, SessionTypeOK, Returns, CCalls, Quiet, Answers, NoSession
<1>2. SessionTypeOK'
  BY <1>1 DEF SessionInv, SessionTypeOK, Returns
<1>3. Sending'
  BY <1>1 DEF Sending
<1>4. Asked'
  BY <1>1 DEF Asked, SessionInv, Answered
<1>5. Answered'
  BY <1>1 DEF Answered, SessionInv
<1>6. CodesTell'
  BY <1>1 DEF CodesTell, Returned
<1> QED
  BY <1>2, <1>3, <1>4, <1>5, <1>6 DEF SessionInv

LEMMA UpTyped ==
  ASSUME NEW regions \in 0 .. RegionLimit + 1, Up(regions)
  PROVE  sdk' \in [up : BOOLEAN, regions : 0 .. RegionLimit]
<1>1. (IF regions > RegionLimit THEN RegionLimit ELSE regions) \in 0 .. RegionLimit
  BY SessionsAssumption
<1> QED
  BY <1>1 DEF Up

LEMMA CCallStep ==
  ASSUME SessionInv,
         \/ \E null \in BOOLEAN, regions \in 0 .. RegionLimit + 1 :
              ferrite_sdk_init(null, regions)
         \/ \E byte \in ResetCodes : ferrite_record_reboot_reason(byte)
         \/ ferrite_last_reboot_reason
         \/ ferrite_last_fault
         \/ \E key \in {"null", "long", "good"} : ferrite_metric(key)
         \/ \E transport \in {"null", "without send_chunk"} : ferrite_upload(transport)
  PROVE  SessionInv'
<1>1. SessionTypeOK
  BY DEF SessionInv
<1>2. ASSUME NEW null \in BOOLEAN, NEW regions \in 0 .. RegionLimit + 1,
             ferrite_sdk_init(null, regions)
      PROVE  SessionInv'
  <2>1. Up(regions) => sdk' \in [up : BOOLEAN, regions : 0 .. RegionLimit]
    BY UpTyped
  <2>2. \E code : Returns("init", code, Never)
    BY <1>1, <1>2, <2>1 DEF ferrite_sdk_init, Returns, SessionTypeOK
  <2> QED BY <2>2, ReturnsStep
<1>3. ASSUME NEW byte \in ResetCodes, ferrite_record_reboot_reason(byte)
      PROVE  SessionInv'
  <2>1. \E code : Returns("reason", code, Never)
    BY <1>1, <1>3, NoteTyped
       DEF ferrite_record_reboot_reason, Returns, SessionTypeOK, Note
  <2> QED BY <2>1, ReturnsStep
<1>4. ASSUME ferrite_last_reboot_reason
      PROVE  SessionInv'
  <2>1. \E found : Returns("last reason", "Ok", found)
    BY <1>1, <1>4 DEF ferrite_last_reboot_reason, Returns, SessionTypeOK
  <2> QED BY <2>1, ReturnsStep
<1>5. ASSUME ferrite_last_fault
      PROVE  SessionInv'
  <2>1. \E found : Returns("last fault", "Ok", found)
    BY <1>1, <1>5 DEF ferrite_last_fault, Returns, SessionTypeOK
  <2> QED BY <2>1, ReturnsStep
<1>6. ASSUME NEW key, ferrite_metric(key)
      PROVE  SessionInv'
  <2>1. \E code : Returns("metric", code, Never)
    BY <1>1, <1>6, NoteTyped DEF ferrite_metric, Returns, SessionTypeOK, Note
  <2> QED BY <2>1, ReturnsStep
<1>7. ASSUME NEW transport \in {"null", "without send_chunk"},
             ferrite_upload(transport)
      PROVE  SessionInv'
  <2>1. Returns("upload", "NullPtr", Never)
    BY <1>1, <1>7 DEF ferrite_upload, Returns, SessionTypeOK
  <2> QED BY <2>1, ReturnsStep
<1> QED
  BY <1>2, <1>3, <1>4, <1>5, <1>6, <1>7

(* A session ends, or does not begin: what the caller is told and what is  *)
(* left of the request agree with what is held.                            *)
LEMMA EndsStep ==
  ASSUME SessionInv, NEW result, NEW before, NEW refused,
         Ends(result, before, refused),
         UNCHANGED <<front, sdk, noted, crashes, host>>, held' \in Held,
         \A x \in due' : x \in host \/ (Retried(result) /\ x \in IdsOf(held')),
         front = "c" /\ result # "Ok" => held' = before,
         front = "c" /\ result = "Ok" =>
           ~refused /\ held' = Empty /\ IdsOf(before) \subseteq host
  PROVE  SessionInv'
<1>1. /\ session' \in [at : {"none", "woken", "sending", "over"},
                       chunks : Seq(SUBSET Ids), asked : Held]
      /\ session'.at = IF front = "embassy" THEN "over" ELSE "none"
  BY EmptyIs DEF Ends, NoSession
<1>2. due' \subseteq due /\ pending' \in BOOLEAN
  BY DEF Ends, Retried, SessionInv, SessionTypeOK
<1>3. SessionTypeOK'
  BY <1>1, <1>2 DEF SessionInv, SessionTypeOK
<1>4. Sending'
  BY <1>1 DEF Sending
<1>5. Retried(result) => pending' /\ front = "rtic"
  BY DEF Ends, Retried
<1>6. Asked'
  BY <1>1, <1>5 DEF Asked
<1>7. (reply' # Never => front = "c") /\ (front = "c" => due' = {})
  BY <1>2 DEF SessionInv, Answered, Ends
<1>8. Answered'
  BY <1>1, <1>7 DEF Answered
<1>9. CodesTell'
  <2>1. CASE front = "c"
    <3>1. reply' = Returned("upload", Code(result), before, Never, refused)
      BY <2>1 DEF Ends
    <3>2. Code(result) = "Ok" <=> result = "Ok"
      BY DEF Code
    <3> QED
      BY <2>1, <3>1, <3>2 DEF CodesTell, Returned
  <2>2. CASE front # "c"
    BY <2>2, <1>7 DEF CodesTell
  <2> QED BY <2>1, <2>2
<1> QED
  BY <1>3, <1>4, <1>6, <1>8, <1>9 DEF SessionInv

(* A session begins, or is refused; only one that is woken or asked for.   *)
LEMMA StartsStep ==
  ASSUME SessionInv, Starts, session.at \in {"none", "woken"},
         session.at = "woken" => front = "embassy"
  PROVE  SessionInv'
<1>1. UNCHANGED <<front, sdk, held, noted, crashes, host>>
  BY DEF Starts
<1>2. ASSUME NEW result, result # "Ok", Ends(result, held, FALSE)
      PROVE  SessionInv'
  <2>1. \A x \in due' : x \in host \/ (Retried(result) /\ x \in IdsOf(held'))
    BY <1>1, <1>2 DEF Ends, SessionInv, Asked
  <2>2. held' \in Held
    BY <1>1 DEF SessionInv, SessionTypeOK
  <2> QED
    BY <1>1, <1>2, <2>1, <2>2, EndsStep
<1>3. ASSUME Begins, reply' = Never, UNCHANGED <<pending, due>>
      PROVE  SessionInv'
  <2>1. /\ SessionChunks \in Seq(SUBSET Ids) /\ held \in Held
        /\ \A x \in IdsOf(held) : Carries(SessionChunks, x)
    BY ChunksCarry DEF SessionInv, SessionTypeOK
  <2>2. /\ session' \in [at : {"none", "woken", "sending", "over"},
                         chunks : Seq(SUBSET Ids), asked : Held]
        /\ session'.at = "sending" /\ session'.asked = held
        /\ session'.chunks = SessionChunks
    BY <1>3, <2>1 DEF Begins
  <2>3. SessionTypeOK'
    BY <1>1, <1>3, <2>2 DEF SessionInv, SessionTypeOK
  <2>4. Sending'
    BY <1>1, <1>3, <2>1, <2>2 DEF SessionInv, Sending, Asked
  <2>5. Asked' /\ Answered' /\ CodesTell'
    BY <1>1, <1>3, <2>2 DEF SessionInv, Asked, Answered, CodesTell
  <2> QED
    BY <2>3, <2>4, <2>5 DEF SessionInv
<1> QED
  BY <1>2, <1>3 DEF Starts

(* While a session sends. *)
LEMMA SendingStep ==
  ASSUME SessionInv, SendChunk \/ RefuseChunk \/ FinishSession
  PROVE  SessionInv'
<1>1. /\ session.at = "sending" /\ UNCHANGED <<front, sdk, noted, crashes>>
      /\ held \in Held /\ session.asked \in Held /\ session.chunks \in Seq(SUBSET Ids)
      /\ host \subseteq Ids
      /\ \A x \in IdsOf(session.asked) : x \in host \/ Carries(session.chunks, x)
      /\ front # "embassy" => held = session.asked
      /\ \A x \in due : x \in host \/ x \in IdsOf(session.asked)
      /\ reply = Never
  BY DEF SessionInv, SessionTypeOK, Sending, Answered, SendChunk, RefuseChunk,
         FinishSession
<1>2. CASE SendChunk
  <2>1. PICK c \in Seq(SUBSET Ids) : c = session.chunks
    BY <1>1
  <2>2. /\ c # <<>> /\ host' = host \cup Head(c)
        /\ session' = [session EXCEPT !.chunks = Tail(c)]
        /\ UNCHANGED <<held, pending, reply, due>>
    BY <1>2, <2>1 DEF SendChunk
  <2>3. Head(c) \subseteq Ids /\ Tail(c) \in Seq(SUBSET Ids)
    BY <2>2
  <2>4. /\ session' \in [at : {"none", "woken", "sending", "over"},
                         chunks : Seq(SUBSET Ids), asked : Held]
        /\ session'.at = "sending" /\ session'.asked = session.asked
        /\ session'.chunks = Tail(c)
    BY <1>1, <2>2, <2>3 DEF SessionInv, SessionTypeOK
  <2>5. \A x : Carries(c, x) => x \in Head(c) \/ Carries(Tail(c), x)
    <3>1. ASSUME NEW x, NEW i \in 1 .. Len(c), x \in c[i], i # 1
          PROVE  i - 1 \in 1 .. Len(Tail(c)) /\ x \in Tail(c)[i - 1]
      BY <2>2, <3>1
    <3>2. Head(c) = c[1]
      OBVIOUS
    <3> QED
      BY <3>1, <3>2 DEF Carries
  <2>6. SessionTypeOK'
    BY <1>1, <2>2, <2>3, <2>4 DEF SessionInv, SessionTypeOK
  <2>7. Sending'
    BY <1>1, <2>1, <2>2, <2>4, <2>5 DEF Sending
  <2>8. Asked' /\ Answered' /\ CodesTell'
    BY <1>1, <2>2, <2>4 DEF SessionInv, Asked, Answered, CodesTell
  <2> QED
    BY <2>6, <2>7, <2>8 DEF SessionInv
<1>3. CASE RefuseChunk
  <2>1. PICK result \in {"Refused", "Encoding"} : Ends(result, session.asked, TRUE)
    BY <1>3 DEF RefuseChunk
  <2>2. due' = {} /\ UNCHANGED <<held, host>>
    BY <1>3, <2>1 DEF RefuseChunk, Ends, Retried
  <2> QED
    BY <1>1, <2>1, <2>2, EndsStep
<1>4. CASE FinishSession
  <2>1. PICK result \in {"Ok", "Refused"} :
           Ends(result, session.asked, FALSE) /\ (front = "c" => result = "Ok")
    BY <1>4 DEF FinishSession
  <2>2. held' = Empty /\ UNCHANGED host
    BY <1>4 DEF FinishSession
  <2>3. \A x : ~Carries(session.chunks, x)
    BY <1>4 DEF FinishSession, Carries
  <2>4. \A x \in due' : x \in host
    <3>1. due' = due \/ due' = {}
      BY <2>1 DEF Ends
    <3>2. \A x \in due : x \in host
      BY <1>1, <2>3
    <3> QED BY <3>1, <3>2
  <2>5. /\ held' \in Held /\ IdsOf(session.asked) \subseteq host
        /\ front = "c" => held' = Empty
    BY <1>1, <2>2, <2>3, EmptyIs
  <2> QED
    <3>1. PICK before : before = session.asked
      OBVIOUS
    <3> QED
      BY <1>1, <2>1, <2>2, <2>4, <2>5, <3>1, EndsStep
<1> QED
  BY <1>2, <1>3, <1>4

(* Firmware in Rust, its requests, and a fault. *)
LEMMA RustStep ==
  ASSUME SessionInv,
         \/ InitRust \/ RecordRust \/ request_upload
         \/ trigger_upload_now \/ Wake \/ DrainTriggers
         \/ HardFaults
  PROVE  SessionInv'
<1>1. SessionTypeOK
  BY DEF SessionInv
<1>2. CASE InitRust
  <2>1. sdk' \in [up : BOOLEAN, regions : 0 .. RegionLimit]
    BY <1>2, UpTyped DEF InitRust
  <2>2. UNCHANGED <<front, held, session, pending, reply, noted, crashes, host, due>>
    BY <1>2 DEF InitRust
  <2>3. SessionTypeOK'
    BY <2>1, <2>2 DEF SessionInv, SessionTypeOK
  <2> QED
    BY <2>2, <2>3 DEF SessionInv, Sending, Asked, Answered, CodesTell
<1>3. CASE RecordRust
  <2>1. /\ held' = [held EXCEPT !.metrics = @ \cup {noted + 1}] /\ held' \in Held
        /\ noted' = noted + 1 /\ noted' \in Nat
        /\ UNCHANGED <<front, sdk, session, pending, reply, crashes, host, due>>
        /\ front # "c" /\ (front = "rtic" => session.at = "none")
    BY <1>1, <1>3, NoteTyped
       DEF RecordRust, Note, Quiet, NoSession, SessionTypeOK
  <2>2. \A x \in IdsOf(held) : x \in IdsOf(held')
    BY <1>1, <2>1 DEF IdsOf, SessionTypeOK, Held
  <2>3. SessionTypeOK'
    BY <2>1 DEF SessionInv, SessionTypeOK
  <2>4. Sending'
    BY <2>1, <1>1 DEF SessionInv, Sending, SessionTypeOK
  <2>5. Asked' /\ Answered' /\ CodesTell'
    BY <2>1, <2>2 DEF SessionInv, Asked, Answered, CodesTell
  <2> QED
    BY <2>3, <2>4, <2>5 DEF SessionInv
<1>4. CASE request_upload \/ trigger_upload_now
  <2>1. /\ pending' = TRUE /\ front # "c"
        /\ UNCHANGED <<front, sdk, held, session, reply, noted, crashes, host>>
        /\ \/ due' = due \cup IdsOf(held) /\ session.at \in {"none", "woken"}
           \/ due' = due /\ session.at \notin {"none", "woken"}
    BY <1>4 DEF request_upload, trigger_upload_now, Quiet, NoSession
  <2>2. IdsOf(held) \subseteq Ids
    BY <1>1 DEF IdsOf, SessionTypeOK, Held
  <2>3. SessionTypeOK'
    BY <2>1, <2>2 DEF SessionInv, SessionTypeOK
  <2>4. Sending'
    BY <2>1 DEF SessionInv, Sending
  <2>5. Asked' /\ Answered' /\ CodesTell'
    BY <2>1 DEF SessionInv, Asked, Answered, CodesTell
  <2> QED
    BY <2>3, <2>4, <2>5 DEF SessionInv
<1>5. CASE Wake \/ DrainTriggers
  <2>1. /\ UNCHANGED <<front, sdk, held, reply, noted, crashes, host, due>>
        /\ session' \in [at : {"none", "woken", "sending", "over"},
                         chunks : Seq(SUBSET Ids), asked : Held]
        /\ pending' \in BOOLEAN
    BY <1>1, <1>5, EmptyIs DEF Wake, DrainTriggers, SessionTypeOK, NoSession
  <2>2. \/ session'.at = "woken" /\ session.at = "none" /\ front = "embassy"
        \/ session'.at = "none" /\ session.at = "over"
    <3>1. CASE Wake
      BY <3>1 DEF Wake, Quiet, NoSession
    <3>2. CASE DrainTriggers
      BY <3>2 DEF DrainTriggers, NoSession
    <3> QED BY <1>5, <3>1, <3>2
  <2>3. SessionTypeOK'
    BY <2>1 DEF SessionInv, SessionTypeOK
  <2>4. Sending' /\ Asked' /\ Answered'
    BY <2>1, <2>2 DEF SessionInv, Sending, Asked, Answered
  <2>5. CodesTell'
    BY <2>1 DEF SessionInv, CodesTell
  <2> QED
    BY <2>3, <2>4, <2>5 DEF SessionInv
<1>6. CASE HardFaults
  <2>1. /\ held' \in Held /\ noted' \in Nat /\ crashes' \in Nat
        /\ sdk' \in [up : BOOLEAN, regions : 0 .. RegionLimit]
        /\ UNCHANGED <<front, host>>
        /\ session' = NoSession /\ pending' = FALSE /\ reply' = Never /\ due' = {}
    BY <1>1, <1>6, NoteTyped, SessionsAssumption DEF HardFaults, Note, SessionTypeOK
  <2>2. session'.at = "none"
    BY <2>1 DEF NoSession
  <2>3. SessionTypeOK'
    BY <2>1, EmptyIs DEF SessionInv, SessionTypeOK
  <2> QED
    BY <2>1, <2>2, <2>3 DEF SessionInv, Sending, Asked, Answered, CodesTell
<1> QED
  BY <1>2, <1>3, <1>4, <1>5, <1>6

LEMMA SessionInvStep == SessionInv /\ [SessionNext]_sessionVars => SessionInv'
<1> SUFFICES ASSUME SessionInv, [SessionNext]_sessionVars PROVE SessionInv'
  OBVIOUS
<1>1. ASSUME NEW transport \in {"null", "without send_chunk", "good"},
             ferrite_upload(transport)
      PROVE  SessionInv'
  <2>1. CASE transport = "good"
    BY <1>1, <2>1, StartsStep DEF ferrite_upload, CCalls, Quiet, NoSession
  <2>2. CASE transport # "good"
    BY <1>1, <2>2, CCallStep
  <2> QED BY <2>1, <2>2
<1>2. CASE CCall
  BY <1>1, <1>2, CCallStep DEF CCall
<1>3. CASE poll
  BY <1>3, StartsStep DEF poll, Quiet, NoSession
<1>4. CASE UploadWoken
  BY <1>4, StartsStep DEF UploadWoken, SessionInv, Answered
<1>5. CASE UNCHANGED sessionVars
  <2>1. SessionTypeOK'
    BY <1>5 DEF sessionVars, SessionInv, SessionTypeOK
  <2> QED
    BY <1>5, <2>1 DEF sessionVars, SessionInv, Sending, Asked, Answered, CodesTell
<1> QED
  BY <1>2, <1>3, <1>4, <1>5, SendingStep, RustStep DEF SessionNext

LEMMA AskedServed == SessionInv => CallersServed
BY DEF SessionInv, SessionTypeOK, Asked, CallersServed, RequestsServed

(* Firmware is told the truth of its uploads by the code a C function      *)
(* returns, and what it requests takes place, whichever of the three       *)
(* integrations it uses (ferrite-ffi/src/lib.rs, ferrite-rtic/src/lib.rs,  *)
(* ferrite-embassy/src/upload_task.rs).                                    *)
THEOREM CallersServedCorrect == SessionSpec => []CallersServed
<1>1. SessionSpec => []SessionInv
  BY SessionInvInit, SessionInvStep, PTL DEF SessionSpec
<1> QED
  BY <1>1, AskedServed, PTL

-----------------------------------------------------------------------------
(* BootCause *)

(* The agent has run in this boot. *)
RanHere == bootFile # NoBoot /\ bootFile.id = kernel.id

(* A record of a panic is no later than the boot that follows it. *)
Clocked ==
  /\ kernel.up <= date
  /\ \A t \in dumps : t + kernel.up <= date
  /\ bootFile # NoBoot => bootFile.id <= kernel.id /\ bootFile.at <= date
  /\ told # NoBoot => told.id <= kernel.id

(* What boot.json says of the boot it is of, while that one lasts: it was  *)
(* saved after every record of a panic, and while the agent runs without a *)
(* pause it is less than SaveEvery behind.                                 *)
Watched ==
  /\ daemon.on => RanHere
  /\ RanHere =>
       /\ bootFile.image = kernel.image /\ bootFile.up <= kernel.up
       /\ \A t \in dumps : t < bootFile.at
       /\ ~daemon.on /\ ~kernel.stopping => ~kernel.steady
  /\ daemon.on /\ kernel.steady =>
       bootFile.up = daemon.savedUp /\ kernel.up - daemon.savedUp < SaveEvery

(* And what it says, with the other traces, once that boot is over and the *)
(* agent has not run since.                                                *)
Left ==
  bootFile # NoBoot /\ bootFile.id # kernel.id /\ last.ran =>
    /\ bootFile.image = last.image
    /\ bootFile.clean = last.seen
    /\ kernel.watchdog = (last.cause = "watchdog")
    /\ (\E t \in dumps : t >= bootFile.at) <=> last.cause = "panic"
    /\ bootFile.up <= last.up
    /\ last.steady => last.up - bootFile.up < SaveEvery

BootInv == BootTypeOK /\ Clocked /\ Watched /\ Left /\ RebootTold

LEMMA BootInvInit == BootInit => BootInv
<1> SUFFICES ASSUME BootInit PROVE BootInv
  OBVIOUS
<1>1. BootTypeOK
  <2>1. kernel \in Kernel
    <3>1. 1 \in 1 .. MaxBootings /\ 0 \in 0 .. MaxDate
      BY BootCauseAssumption
    <3> QED
      BY <3>1 DEF BootInit, Kernel
  <2>2. daemon \in [on : BOOLEAN, savedUp : 0 .. MaxDate] /\ date \in 0 .. MaxDate
        /\ failed \in 0 .. MaxFailed
    BY BootCauseAssumption DEF BootInit
  <2> QED
    BY <2>1, <2>2 DEF BootInit, BootTypeOK
<1>2. Clocked /\ Watched /\ Left /\ RebootTold
  BY DEF BootInit, Clocked, Watched, Left, RanHere, RebootTold, ReasonTold, UptimeTold,
         ToldOfLast
<1> QED
  BY <1>1, <1>2 DEF BootInv

LEMMA BootTypes ==
  ASSUME BootTypeOK
  PROVE  /\ date \in Nat /\ date <= MaxDate
         /\ kernel.id \in 1 .. MaxBootings /\ kernel.image \in Images
         /\ kernel.up \in 0 .. MaxDate /\ kernel.watchdog \in BOOLEAN
         /\ kernel.stopping \in BOOLEAN /\ kernel.steady \in BOOLEAN
         /\ bootFile # NoBoot =>
              /\ bootFile \in BootFile
              /\ bootFile.id \in 1 .. MaxBootings /\ bootFile.image \in Images
              /\ bootFile.up \in 0 .. MaxDate /\ bootFile.at \in 0 .. MaxDate
              /\ bootFile.clean \in BOOLEAN
         /\ daemon.on \in BOOLEAN /\ daemon.savedUp \in 0 .. MaxDate
         /\ MaxDate \in Nat /\ MaxBootings \in Nat /\ SaveEvery \in Nat \ {0}
         /\ MaxFailed \in Nat
BY BootCauseAssumption DEF BootTypeOK, Kernel, BootFile

(* What the agent saves of a boot. *)
LEMMA SavedTyped ==
  ASSUME BootTypeOK, NEW f \in BootFile
  PROVE  /\ Saved(f) \in BootFile
         /\ Saved(f).id = f.id /\ Saved(f).image = f.image /\ Saved(f).up = f.up
         /\ Saved(f).at = date /\ Saved(f).clean = f.clean
BY BootTypes DEF Saved, BootFile

LEMMA FreshTyped ==
  ASSUME BootTypeOK
  PROVE  Fresh \in BootFile
BY BootTypes DEF Fresh, BootFile

LEMMA ShutTyped ==
  ASSUME BootTypeOK, NEW f \in BootFile, NEW stopping \in BOOLEAN
  PROVE  /\ Shut(f, stopping) \in BootFile
         /\ Shut(f, stopping).id = f.id /\ Shut(f, stopping).image = f.image
         /\ Shut(f, stopping).up = kernel.up /\ Shut(f, stopping).at = date
         /\ Shut(f, stopping).clean = stopping
<1>1. PICK g \in BootFile : g = [f EXCEPT !.up = kernel.up, !.clean = stopping]
  BY BootTypes DEF BootFile
<1>2. g.id = f.id /\ g.image = f.image /\ g.up = kernel.up /\ g.clean = stopping
  BY <1>1 DEF BootFile
<1> QED
  BY <1>1, <1>2, SavedTyped DEF Shut

(* The agent starts. *)
LEMMA StartStep ==
  ASSUME BootInv, Start
  PROVE  BootInv'
<1>0. BootTypeOK
  BY DEF BootInv
<1>1. /\ ~daemon.on /\ ~kernel.stopping /\ kernel.up > 0
      /\ daemon' = [on |-> TRUE, savedUp |-> kernel.up]
      /\ UNCHANGED <<date, kernel, dumps, failed, last>>
  BY DEF Start
<1>2. \A t \in dumps : t < date /\ t \in Nat
  BY <1>0, <1>1, BootTypes DEF BootInv, Clocked, BootTypeOK
<1>3. ASSUME NEW f \in BootFile, bootFile' = f, f.id = kernel.id, f.image = kernel.image,
             f.up <= kernel.up, f.at = date,
             kernel.steady => f.up = kernel.up,
             told' # NoBoot => told'.id <= kernel.id
      PROVE  Clocked' /\ Watched' /\ Left'
  <2>1. bootFile' # NoBoot
    BY <1>3, BootCauseAssumption
  <2>2. daemon'.on = TRUE /\ daemon'.savedUp = kernel.up
    BY <1>1
  <2>3. Clocked'
    BY <1>0, <1>1, <1>3, BootTypes DEF BootInv, Clocked
  <2>4. kernel.up - kernel.up < SaveEvery
    BY <1>0, BootTypes
  <2>5. Watched'
    BY <1>1, <1>2, <1>3, <2>1, <2>2, <2>4 DEF Watched, RanHere
  <2>6. Left'
    BY <1>1, <1>3 DEF Left
  <2> QED BY <2>3, <2>5, <2>6
<1>4. ASSUME bootFile' \in BootFile, UNCHANGED told
      PROVE  BootTypeOK' /\ RebootTold'
  <2>1. daemon' \in [on : BOOLEAN, savedUp : 0 .. MaxDate]
    BY <1>0, <1>1, BootTypes
  <2>2. BootTypeOK'
    BY <1>0, <1>1, <1>4, <2>1 DEF BootTypeOK
  <2>3. RebootTold'
    BY <1>1, <1>4
       DEF BootInv, RebootTold, ReasonTold, UptimeTold, ToldOfLast
  <2> QED BY <2>2, <2>3
<1>5. CASE StartAgain
  <2>1. /\ bootFile # NoBoot /\ bootFile.id = kernel.id /\ UNCHANGED told
        /\ bootFile' = Saved([bootFile EXCEPT !.image = kernel.image, !.clean = FALSE])
    BY <1>5 DEF StartAgain
  <2>2. PICK g \in BootFile :
          g = [bootFile EXCEPT !.image = kernel.image, !.clean = FALSE]
    BY <1>0, <2>1, BootTypes DEF BootFile
  <2>3. g.id = kernel.id /\ g.image = kernel.image /\ g.up = bootFile.up
    BY <1>0, <2>1, <2>2, BootTypes DEF BootFile
  <2>4. PICK f \in BootFile : f = Saved(g)
    BY <1>0, SavedTyped
  <2>5. f.id = g.id /\ f.image = g.image /\ f.up = g.up /\ f.at = date /\ bootFile' = f
    BY <1>0, <2>1, <2>2, <2>4, SavedTyped
  <2>6. bootFile.up <= kernel.up /\ ~kernel.steady
    BY <1>1, <2>1 DEF BootInv, Watched, RanHere
  <2>7. told # NoBoot => told.id <= kernel.id
    BY DEF BootInv, Clocked
  <2>8. Clocked' /\ Watched' /\ Left'
    BY <1>3, <2>1, <2>3, <2>5, <2>6, <2>7
  <2> QED
    BY <1>4, <2>1, <2>5, <2>8 DEF BootInv
<1>6. ASSUME NEW f \in BootFile, f = Saved(Fresh), bootFile' = f,
             told' # NoBoot => told'.id <= kernel.id
      PROVE  Clocked' /\ Watched' /\ Left'
  <2>1. PICK g \in BootFile : g = Fresh
    BY <1>0, FreshTyped
  <2>2. g.id = kernel.id /\ g.image = kernel.image /\ g.up = kernel.up
    BY <2>1 DEF Fresh
  <2>3. f.id = g.id /\ f.image = g.image /\ f.up = g.up /\ f.at = date
    BY <1>0, <1>6, <2>1, SavedTyped
  <2>4. kernel.up <= kernel.up
    BY <1>0, BootTypes
  <2> QED
    BY <1>3, <1>6, <2>2, <2>3, <2>4
<1>7. PICK f \in BootFile : f = Saved(Fresh)
  BY <1>0, FreshTyped, SavedTyped
<1>8. CASE StartFirst
  <2>1. bootFile' = f /\ UNCHANGED told
    BY <1>7, <1>8 DEF StartFirst
  <2>2. told # NoBoot => told.id <= kernel.id
    BY DEF BootInv, Clocked
  <2> QED
    BY <1>4, <1>6, <1>7, <2>1, <2>2 DEF BootInv
<1>9. CASE StartAfterReboot
  <2>1. PICK reason : reason = Classify(bootFile.at, kernel.watchdog,
                                        bootFile.image # kernel.image, bootFile.clean)
    OBVIOUS
  <2>2. /\ bootFile # NoBoot /\ bootFile.id # kernel.id /\ bootFile' = f
        /\ told' = [id |-> kernel.id, up |-> bootFile.up, reason |-> reason]
    BY <1>7, <1>9, <2>1 DEF StartAfterReboot
  <2>3. told'.id = kernel.id /\ told'.up = bootFile.up /\ told'.reason = reason
    BY <2>2
  <2>4. Clocked' /\ Watched' /\ Left'
    BY <1>0, <1>6, <1>7, <2>2, <2>3, BootTypes
  <2>5. BootTypeOK'
    <3>1. reason \in Reasons
      BY <2>1 DEF Classify, Reasons
    <3>2. told' \in [id : 1 .. MaxBootings, reason : Reasons, up : 0 .. MaxDate]
      BY <1>0, <2>2, <3>1, BootTypes
    <3>3. daemon' \in [on : BOOLEAN, savedUp : 0 .. MaxDate]
      BY <1>0, <1>1, BootTypes
    <3> QED
      BY <1>0, <1>1, <2>2, <3>2, <3>3 DEF BootTypeOK
  <2>6. ReasonTold'
    <3>1. SUFFICES ASSUME last.ran
                   PROVE  reason =
                            IF last.cause = "panic" THEN "HardFault"
                            ELSE IF last.cause = "watchdog" THEN "WatchdogTimeout"
                            ELSE IF last.image # kernel.image THEN "FirmwareUpdate"
                            ELSE IF last.seen THEN "SoftwareReset"
                            ELSE "Unknown"
      BY <1>1, <2>3 DEF ReasonTold, ToldOfLast
    <3>2. /\ bootFile.image = last.image
          /\ bootFile.clean = last.seen
          /\ kernel.watchdog = (last.cause = "watchdog")
          /\ (\E t \in dumps : t >= bootFile.at) <=> last.cause = "panic"
      BY <2>2, <3>1 DEF BootInv, Left
    <3> QED
      BY <2>1, <3>2 DEF Classify
  <2>7. UptimeTold'
    BY <1>1, <2>2, <2>3 DEF UptimeTold, ToldOfLast, BootInv, Left
  <2> QED
    BY <2>4, <2>5, <2>6, <2>7 DEF BootInv, RebootTold
<1> QED
  BY <1>5, <1>8, <1>9 DEF Start

(* While the same system runs, what was told of the last boot stays.       *)
LEMMA ToldStays ==
  ASSUME BootInv, UNCHANGED <<told, last>>, kernel'.id = kernel.id,
         kernel'.image = kernel.image
  PROVE  RebootTold'
BY DEF BootInv, RebootTold, ReasonTold, UptimeTold, ToldOfLast

(* The agent is killed, or stopped, alone or with the system. *)
LEMMA StopStep ==
  ASSUME BootInv, Kill \/ StopService \/ BeginShutdown
  PROVE  BootInv'
<1>0. BootTypeOK
  BY DEF BootInv
<1>1. /\ daemon' = [daemon EXCEPT !.on = FALSE]
      /\ UNCHANGED <<date, dumps, told, failed, last>>
      /\ \/ bootFile' = bootFile
         \/ daemon.on /\ \E stopping \in BOOLEAN : bootFile' = Shut(bootFile, stopping)
      /\ \/ kernel' = [kernel EXCEPT !.steady = FALSE]
         \/ kernel' = [kernel EXCEPT !.stopping = TRUE]
  BY DEF Kill, StopService, BeginShutdown, Paused
<1>2. /\ daemon' \in [on : BOOLEAN, savedUp : 0 .. MaxDate] /\ ~daemon'.on
      /\ kernel' \in Kernel /\ kernel'.id = kernel.id /\ kernel'.image = kernel.image
      /\ kernel'.up = kernel.up /\ kernel'.watchdog = kernel.watchdog
      /\ kernel'.stopping \/ ~kernel'.steady
  BY <1>0, <1>1 DEF BootTypeOK, Kernel
<1>3. ASSUME daemon.on PROVE RanHere
  BY <1>3 DEF BootInv, Watched
<1>4. \/ bootFile' = bootFile
      \/ /\ RanHere /\ bootFile' \in BootFile /\ bootFile'.id = bootFile.id
         /\ bootFile'.image = bootFile.image /\ bootFile'.up = kernel.up
         /\ bootFile'.at = date
  <2>1. ASSUME NEW stopping \in BOOLEAN, daemon.on, bootFile' = Shut(bootFile, stopping)
        PROVE  /\ RanHere /\ bootFile' \in BootFile /\ bootFile'.id = bootFile.id
               /\ bootFile'.image = bootFile.image /\ bootFile'.up = kernel.up
               /\ bootFile'.at = date
    <3>1. bootFile \in BootFile /\ RanHere
      BY <1>0, <1>3, <2>1, BootTypes DEF RanHere
    <3>2. PICK f \in BootFile : f = bootFile
      BY <3>1
    <3>3. PICK g \in BootFile : g = Shut(f, stopping)
      BY <1>0, ShutTyped
    <3>4. /\ g.id = f.id /\ g.image = f.image /\ g.up = kernel.up /\ g.at = date
      BY <1>0, <3>3, ShutTyped
    <3> QED
      BY <2>1, <3>1, <3>2, <3>3, <3>4
  <2> QED
    BY <1>1, <2>1
<1>5. BootTypeOK'
  BY <1>0, <1>1, <1>2, <1>4 DEF BootTypeOK
<1>6. Clocked'
  BY <1>0, <1>1, <1>2, <1>4, BootTypes DEF BootInv, Clocked, RanHere
<1>7. \A t \in dumps : t \in Nat /\ (RanHere => t < date)
  BY <1>0, BootTypes DEF BootInv, Clocked, Watched, RanHere, BootTypeOK
<1>8. Watched'
  <2>1. kernel.up <= kernel.up
    BY <1>0, BootTypes
  <2> QED
    BY <1>1, <1>2, <1>4, <1>7, <2>1 DEF BootInv, Watched, RanHere
<1>9. Left'
  BY <1>1, <1>2, <1>4 DEF BootInv, Left, RanHere
<1>10. RebootTold'
  BY <1>1, <1>2, ToldStays
<1> QED
  BY <1>5, <1>6, <1>8, <1>9, <1>10 DEF BootInv

(* Time passes, and the uptime is saved, is not due, or is not reached.    *)
LEMMA TimeStep ==
  ASSUME BootInv, PassTime \/ FailTick
  PROVE  BootInv'
<1>0. BootTypeOK
  BY DEF BootInv
<1>1. /\ date < MaxDate /\ date' = date + 1
      /\ UNCHANGED <<dumps, told, last>> /\ failed' \in 0 .. MaxFailed
  BY <1>0, BootTypes DEF PassTime, FailTick, BootTypeOK
<1>2. /\ kernel.up + 1 \in 0 .. MaxDate /\ date' \in 0 .. MaxDate
  BY <1>0, <1>1, BootTypes DEF BootInv, Clocked
<1>3. /\ kernel' \in Kernel /\ kernel'.id = kernel.id /\ kernel'.image = kernel.image
      /\ kernel'.up = kernel.up + 1 /\ kernel'.watchdog = kernel.watchdog
      /\ kernel'.stopping = kernel.stopping
      /\ \/ kernel'.steady = kernel.steady /\ PassTime
         \/ kernel'.steady = FALSE /\ FailTick
  <2>1. CASE PassTime
    BY <1>0, <1>2, <2>1 DEF BootTypeOK, PassTime, Kernel
  <2>2. CASE FailTick
    <3>1. Paused \in Kernel /\ Paused.up = kernel.up /\ Paused.steady = FALSE
          /\ Paused.id = kernel.id /\ Paused.image = kernel.image
          /\ Paused.watchdog = kernel.watchdog /\ Paused.stopping = kernel.stopping
      BY <1>0 DEF BootTypeOK, Kernel, Paused
    <3> QED
      BY <1>2, <2>2, <3>1 DEF FailTick, Kernel
  <2> QED BY <2>1, <2>2
<1>4. \/ /\ UNCHANGED <<bootFile, daemon>>
         /\ PassTime => ~(daemon.on /\ SaveDue(kernel.up + 1))
      \/ /\ PassTime /\ daemon.on
         /\ bootFile' = [bootFile EXCEPT !.up = kernel.up + 1, !.at = date + 1]
         /\ daemon' = [daemon EXCEPT !.savedUp = kernel.up + 1]
  BY DEF PassTime, FailTick
<1>5. Clocked' /\ Left' /\ Watched' /\ BootTypeOK'
  <2>1. CASE UNCHANGED <<bootFile, daemon>> /\ (PassTime => ~(daemon.on /\ SaveDue(kernel.up + 1)))
    <3>1. Clocked'
      BY <1>0, <1>1, <1>3, <2>1, BootTypes DEF BootInv, Clocked, BootTypeOK
    <3>2. Left'
      BY <1>1, <1>3, <2>1 DEF BootInv, Left
    <3>3. daemon.on /\ PassTime => kernel.up + 1 - daemon.savedUp < SaveEvery
      BY <1>0, <2>1, BootTypes DEF SaveDue
    <3>4. Watched'
      BY <1>0, <1>1, <1>3, <2>1, <3>3, BootTypes DEF BootInv, Watched, RanHere
    <3>5. BootTypeOK'
      BY <1>0, <1>1, <1>2, <1>3, <2>1 DEF BootTypeOK
    <3> QED BY <3>1, <3>2, <3>4, <3>5
  <2>2. CASE /\ PassTime /\ daemon.on
             /\ bootFile' = [bootFile EXCEPT !.up = kernel.up + 1, !.at = date + 1]
             /\ daemon' = [daemon EXCEPT !.savedUp = kernel.up + 1]
    <3>1. RanHere /\ bootFile \in BootFile
      BY <1>0, <2>2, BootTypes DEF BootInv, Watched, RanHere
    <3>2. /\ bootFile' \in BootFile /\ bootFile'.id = kernel.id
          /\ bootFile'.image = bootFile.image
          /\ bootFile'.up = kernel.up + 1 /\ bootFile'.at = date + 1
      BY <1>1, <1>2, <2>2, <3>1 DEF BootFile, RanHere
    <3>3. /\ daemon' \in [on : BOOLEAN, savedUp : 0 .. MaxDate]
          /\ daemon'.on /\ daemon'.savedUp = kernel.up + 1
      BY <1>0, <1>2, <2>2 DEF BootTypeOK
    <3>4. Clocked'
      BY <1>0, <1>1, <1>3, <3>2, BootTypes DEF BootInv, Clocked, BootTypeOK
    <3>5. Left'
      BY <1>3, <3>2 DEF Left
    <3>6. \A t \in dumps : t < date + 1
      BY <1>0, <3>1, BootTypes DEF BootInv, Watched, Clocked, RanHere, BootTypeOK
    <3>7. kernel.up + 1 <= kernel.up + 1 /\ (kernel.up + 1) - (kernel.up + 1) < SaveEvery
      BY <1>0, BootTypes
    <3>8. bootFile' # NoBoot /\ bootFile.image = kernel.image
      BY <3>1, <3>2, BootCauseAssumption DEF BootInv, Watched
    <3>9. Watched'
      BY <1>1, <1>3, <3>2, <3>3, <3>6, <3>7, <3>8 DEF Watched, RanHere
    <3>10. BootTypeOK'
      BY <1>0, <1>1, <1>2, <1>3, <3>2, <3>3 DEF BootTypeOK
    <3> QED BY <3>4, <3>5, <3>9, <3>10
  <2> QED
    BY <1>4, <2>1, <2>2
<1>6. RebootTold'
  BY <1>1, <1>3, ToldStays
<1> QED
  BY <1>5, <1>6 DEF BootInv

(* The system goes down: boot.json and the traces tell how. *)
LEMMA GoDownStep ==
  ASSUME BootInv, NEW cause \in Causes, GoDown(cause)
  PROVE  BootInv'
<1>0. BootTypeOK
  BY DEF BootInv
<1>1. /\ kernel.id < MaxBootings /\ date < MaxDate /\ date' = date + 1
      /\ daemon' = [daemon EXCEPT !.on = FALSE]
      /\ UNCHANGED <<bootFile, told, failed>>
  BY DEF GoDown
<1>2. PICK image \in Images :
        kernel' = [id |-> kernel.id + 1, image |-> image, up |-> 0,
                   watchdog |-> cause = "watchdog", stopping |-> FALSE, steady |-> TRUE]
  BY DEF GoDown
<1>3. /\ kernel'.id = kernel.id + 1 /\ kernel'.up = 0
      /\ kernel'.watchdog = (cause = "watchdog")
  BY <1>2
<1>4. kernel' \in Kernel /\ date' \in 0 .. MaxDate
  BY <1>0, <1>1, <1>2, BootTypes DEF Kernel
<1>5. daemon' \in [on : BOOLEAN, savedUp : 0 .. MaxDate] /\ ~daemon'.on
  BY <1>0, <1>1 DEF BootTypeOK
<1>6. /\ last'.cause = cause /\ last'.image = kernel.image /\ last'.up = kernel.up
      /\ last'.seen = (RanHere /\ bootFile.clean)
      /\ last'.ran = RanHere
      /\ last'.steady = (kernel.steady /\ daemon.on)
  BY DEF GoDown, RanHere
<1>7. last' \in [cause : Causes, image : Images, up : 0 .. MaxDate, seen : BOOLEAN,
                ran : BOOLEAN, steady : BOOLEAN]
  <2>1. /\ (RanHere /\ bootFile.clean) \in BOOLEAN /\ RanHere \in BOOLEAN
        /\ (kernel.steady /\ daemon.on) \in BOOLEAN
    BY DEF RanHere
  <2> QED
    BY <1>0, <2>1, BootTypes DEF GoDown, RanHere
<1>8. /\ dumps' \subseteq 0 .. MaxDate
      /\ \A t \in dumps' : t \in Nat /\ t <= date + 1
      /\ cause = "panic" => \E t \in dumps' : t >= date
      /\ cause # "panic" => dumps' = dumps
  <2>1. \/ cause # "panic" /\ dumps' = dumps
        \/ cause = "panic" /\ \E t \in {date, date + 1} : dumps' = dumps \cup {t}
    BY DEF GoDown
  <2>2. \A t \in dumps : t \in 0 .. MaxDate /\ t <= date
    BY <1>0, BootTypes DEF BootInv, Clocked, BootTypeOK
  <2>3. CASE cause # "panic" /\ dumps' = dumps
    BY <1>0, <1>1, <2>2, <2>3, BootTypes
  <2>4. ASSUME cause = "panic", NEW t \in {date, date + 1}, dumps' = dumps \cup {t}
        PROVE  /\ dumps' \subseteq 0 .. MaxDate
               /\ \A u \in dumps' : u \in Nat /\ u <= date + 1
               /\ \E u \in dumps' : u >= date
    <3>1. t \in 0 .. MaxDate /\ t <= date + 1 /\ t >= date
      BY <1>0, <1>1, <2>4, BootTypes
    <3> QED
      BY <1>0, <2>2, <2>4, <3>1, BootTypes
  <2> QED
    BY <2>1, <2>3, <2>4
<1>9. BootTypeOK'
  BY <1>0, <1>1, <1>4, <1>5, <1>7, <1>8 DEF BootTypeOK
<1>10. Clocked'
  <2>1. \A t \in dumps' : t + kernel'.up <= date'
    BY <1>0, <1>1, <1>3, <1>8, BootTypes
  <2>2. kernel'.up <= date'
    BY <1>0, <1>1, <1>3, BootTypes
  <2>3. bootFile # NoBoot => bootFile.id <= kernel'.id /\ bootFile.at <= date'
    BY <1>0, <1>1, <1>3, BootTypes DEF BootInv, Clocked
  <2>4. told # NoBoot => told.id <= kernel'.id
    BY <1>0, <1>1, <1>3, BootTypes DEF BootInv, Clocked, BootTypeOK
  <2> QED
    BY <1>1, <2>1, <2>2, <2>3, <2>4 DEF Clocked
<1>11. ~RanHere'
  BY <1>0, <1>1, <1>3, BootTypes DEF BootInv, Clocked, RanHere
<1>12. Watched'
  BY <1>5, <1>11 DEF Watched
<1>13. Left'
  <2>1. SUFFICES ASSUME RanHere
                 PROVE  /\ bootFile.image = last'.image
                        /\ bootFile.clean = last'.seen
                        /\ kernel'.watchdog = (last'.cause = "watchdog")
                        /\ (\E t \in dumps' : t >= bootFile.at) <=> last'.cause = "panic"
                        /\ bootFile.up <= last'.up
                        /\ last'.steady => last'.up - bootFile.up < SaveEvery
    BY <1>1, <1>6 DEF Left
  <2>2. bootFile.image = last'.image /\ bootFile.up <= last'.up
    BY <1>6, <2>1 DEF BootInv, Watched
  <2>3. bootFile.clean = last'.seen
    BY <1>0, <1>6, <2>1, BootTypes DEF RanHere
  <2>4. kernel'.watchdog = (last'.cause = "watchdog")
    BY <1>3, <1>6
  <2>5. (\E t \in dumps' : t >= bootFile.at) <=> last'.cause = "panic"
    <3>1. bootFile.at \in Nat /\ bootFile.at <= date
      BY <1>0, <2>1, BootTypes DEF BootInv, Clocked, RanHere
    <3>2. \A t \in dumps : t \in Nat /\ t < bootFile.at
      BY <1>0, <2>1, BootTypes DEF BootInv, Watched, BootTypeOK
    <3> QED
      BY <1>0, <1>6, <1>8, <3>1, <3>2, BootTypes
  <2>6. last'.steady => last'.up - bootFile.up < SaveEvery
    BY <1>6 DEF BootInv, Watched
  <2> QED
    BY <2>2, <2>3, <2>4, <2>5, <2>6
<1>14. RebootTold'
  <2>1. ~ToldOfLast'
    BY <1>0, <1>1, <1>3, BootTypes DEF BootInv, Clocked, ToldOfLast
  <2> QED
    BY <2>1 DEF RebootTold, ReasonTold, UptimeTold
<1> QED
  BY <1>9, <1>10, <1>12, <1>13, <1>14 DEF BootInv

LEMMA BootInvStep == BootInv /\ [BootNext]_bootVars => BootInv'
<1>1. CASE UNCHANGED bootVars
  BY <1>1 DEF bootVars, BootInv, BootTypeOK, Clocked, Watched, Left, RanHere, RebootTold,
              ReasonTold, UptimeTold, ToldOfLast
<1> QED
  BY <1>1, StartStep, StopStep, TimeStep, GoDownStep DEF BootNext

(* What a report says of a device's last boot is true of it: its cause,    *)
(* however long the record of an earlier panic stays, and its uptime, less *)
(* than SaveEvery short if the agent ran to the end                        *)
(* (ferrite-agent/src/boot.rs).                                            *)
THEOREM RebootToldCorrect == BootSpec => []RebootTold
<1>1. BootSpec => []BootInv
  BY BootInvInit, BootInvStep, PTL DEF BootSpec
<1>2. BootInv => RebootTold
  BY DEF BootInv
<1> QED
  BY <1>1, <1>2, PTL

-----------------------------------------------------------------------------
(* DefmtSink: the ring *)

(* Types of the ring and of its history.                                   *)
RingTyped ==
  /\ ring \in [buf : [0 .. N - 1 -> Byte], write : 0 .. N - 1,
               read : 0 .. N - 1, used : 0 .. N, lost : Nat]
  /\ kept \in Seq([frame : Frame, at : Int])
  /\ gone \in Nat /\ plain \in BOOLEAN

(* Where a frame ends, counted from the read position.                     *)
End(k) == k.at + Size(k.frame)

(* The frames follow each other and end where the used part ends; only the *)
(* first one may begin before the read position.                           *)
Chained ==
  /\ ring.write = (ring.read + ring.used) % N
  /\ kept = <<>> => ring.used = 0
  /\ kept # <<>> => kept[1].at <= 0 /\ End(kept[Len(kept)]) = ring.used
  /\ \A i \in DOMAIN kept : End(kept[i]) \in 1 .. ring.used
  /\ \A i, j \in DOMAIN kept : i < j => End(kept[i]) <= kept[j].at
  /\ \A i \in DOMAIN kept : i > 1 => kept[i].at = End(kept[i - 1])

(* The bytes of each frame, but for those that were cut, are in its place. *)
Holding ==
  \A i \in DOMAIN kept : \A k \in 1 .. Size(kept[i].frame) :
    kept[i].at + k > 0 =>
      At(ring, kept[i].at + k - 1) = Bytes(kept[i].frame)[k]

(* Losses, and that nothing is cut without a stray sentinel.               *)
Counted ==
  /\ gone <= ring.lost
  /\ plain => /\ gone = ring.lost
              /\ \A i \in DOMAIN kept : kept[i].at >= 0 /\ Plain(kept[i].frame)

RingInv == RingTyped /\ Chained /\ Holding /\ Counted

(* A nonempty set of natural numbers has a least element.                  *)
LEMMA LeastOfNat ==
  ASSUME NEW S \in SUBSET Nat, S # {}
  PROVE  \E m \in S : \A n \in S : m <= n
<1> DEFINE R == OpToRel(<, Nat)
<1>1. IsWellFoundedOn(R, Nat)
  BY NatLessThanWellFounded
<1>2. PICK m \in S : \A n \in S : ~ (<<n, m>> \in R)
  <2> HIDE DEF R
  <2> QED BY <1>1, WFMin
<1>3. \A n \in S : ~ (n < m)
  BY <1>2 DEF OpToRel
<1> QED
  BY <1>3

(* What is good at a place when it is good at all later ones is good       *)
(* everywhere.                                                             *)
LEMMA DownTo ==
  ASSUME NEW top \in Nat, NEW Good,
         \A i \in 1 .. top : (\A j \in i + 1 .. top : j \in Good) => i \in Good
  PROVE  \A i \in 1 .. top : i \in Good
<1> DEFINE Bad == {m \in Nat : m < top /\ top - m \notin Good}
<1>1. SUFFICES ASSUME Bad # {} PROVE FALSE
  <2>1. SUFFICES ASSUME NEW i \in 1 .. top, Bad = {} PROVE i \in Good
    BY <1>1
  <2>2. top - i \in Nat /\ top - i < top /\ top - (top - i) = i
    OBVIOUS
  <2> QED
    BY <2>1, <2>2
<1>2. PICK m \in Bad : \A n \in Bad : m <= n
  BY <1>1, LeastOfNat
<1>3. \A j \in top - m + 1 .. top : j \in Good
  <2>1. SUFFICES ASSUME NEW j \in top - m + 1 .. top, j \notin Good PROVE FALSE
    OBVIOUS
  <2>2. top - j \in Nat /\ top - j < m /\ top - (top - j) = j
    OBVIOUS
  <2> QED
    BY <2>1, <2>2, <1>2
<1> QED
  BY <1>2, <1>3

-----------------------------------------------------------------------------

(* Length and elements of a concatenation.                                 *)
LEMMA JoinIs ==
  ASSUME NEW S, NEW s \in Seq(S), NEW t \in Seq(S)
  PROVE  /\ s \o t \in Seq(S)
         /\ Len(s) \in Nat /\ Len(t) \in Nat
         /\ Len(s \o t) = Len(s) + Len(t)
         /\ \A i \in 1 .. Len(s) : (s \o t)[i] = s[i]
         /\ \A i \in 1 .. Len(t) : (s \o t)[Len(s) + i] = t[i]
         /\ \A i \in Len(s) + 1 .. Len(s) + Len(t) :
              (s \o t)[i] = t[i - Len(s)] /\ i - Len(s) \in 1 .. Len(t)
<1>1. /\ s \o t \in Seq(S)
      /\ Len(s \o t) = Len(s) + Len(t)
      /\ \A i \in 1 .. Len(s) + Len(t) :
           (s \o t)[i] = IF i <= Len(s) THEN s[i] ELSE t[i - Len(s)]
  BY ConcatProperties
<1>2. Len(s) \in Nat /\ Len(t) \in Nat
  OBVIOUS
<1>3. \A i \in 1 .. Len(s) : (s \o t)[i] = s[i]
  BY <1>1, <1>2
<1>4. \A i \in Len(s) + 1 .. Len(s) + Len(t) :
        (s \o t)[i] = t[i - Len(s)] /\ i - Len(s) \in 1 .. Len(t)
  BY <1>1, <1>2
<1>5. ASSUME NEW i \in 1 .. Len(t) PROVE (s \o t)[Len(s) + i] = t[i]
  <2>1. /\ Len(s) + i \in Len(s) + 1 .. Len(s) + Len(t)
        /\ Len(s) + i - Len(s) = i
    BY <1>2
  <2> QED
    BY <1>4, <2>1
<1> QED
  BY <1>1, <1>2, <1>3, <1>4, <1>5

(* Length and elements of a subsequence.                                   *)
LEMMA PieceIs ==
  ASSUME NEW S, NEW s \in Seq(S), NEW a \in 1 .. Len(s) + 1,
         NEW b \in a - 1 .. Len(s)
  PROVE  /\ SubSeq(s, a, b) \in Seq(S)
         /\ Len(SubSeq(s, a, b)) = b - a + 1
         /\ \A i \in 1 .. b - a + 1 : SubSeq(s, a, b)[i] = s[a + i - 1]
<1>1. Len(s) \in Nat
  OBVIOUS
<1>2. /\ Len(SubSeq(s, a, b)) = b - a + 1
      /\ \A i \in 1 .. b - a + 1 : SubSeq(s, a, b)[i] = s[a + i - 1]
  BY <1>1
<1>3. \A i \in a .. b : s[i] \in S
  BY <1>1, ElementOfSeq
<1>4. SubSeq(s, a, b) \in Seq(S)
  BY <1>1, <1>3, SubSeqProperties
<1> QED
  BY <1>2, <1>4


(* % N below 2 N.                                                          *)
LEMMA ModIs ==
  ASSUME NEW a \in 0 .. 2 * N - 1
  PROVE  a % N = IF a < N THEN a ELSE a - N
<1>1. N \in Nat \ {0}
  BY RingAssumption
<1>2. CASE a < N
  BY <1>1, <1>2
<1>3. CASE a >= N
  BY <1>1, <1>3
<1> QED BY <1>1, <1>2, <1>3

(* The bytes of a frame: where its level, ticks, length and last byte are. *)
LEMMA BytesIn ==
  ASSUME NEW f \in Frame, NEW S, Byte \subseteq S, Len(f.payload) \in S
  PROVE  /\ Bytes(f) \in Seq(S)
         /\ Size(f) = Header + Len(f.payload) + 1
         /\ Bytes(f)[1] = f.level
         /\ \A t \in 1 .. TickBytes : Bytes(f)[1 + t] = f.ticks[t]
         /\ Bytes(f)[Header] = Len(f.payload)
         /\ Bytes(f)[Size(f)] = Sentinel
<1>1. /\ TickBytes \in Nat /\ Sentinel \in S
  BY RingAssumption
<1>2. /\ f.level \in S /\ f.ticks \in [1 .. TickBytes -> Byte]
      /\ f.payload \in Seq(Byte)
  BY DEF Frame
<1>3. /\ f.ticks \in Seq(S) /\ Len(f.ticks) = TickBytes
  BY <1>1, <1>2
<1>4. f.payload \in Seq(S) /\ Len(f.payload) \in Nat
  BY <1>2, SeqMonotonic
<1> DEFINE a == <<f.level>>  t == f.ticks  l == <<Len(f.payload)>>
           p == f.payload  z == <<Sentinel>>
<1>5. /\ a \in Seq(S) /\ Len(a) = 1 /\ a[1] = f.level
      /\ l \in Seq(S) /\ Len(l) = 1 /\ l[1] = Len(p)
      /\ z \in Seq(S) /\ Len(z) = 1 /\ z[1] = Sentinel
  BY <1>1, <1>2
<1>6. Bytes(f) = a \o t \o l \o p \o z
  BY DEF Bytes
<1>7. t \in Seq(S) /\ Len(t) = TickBytes /\ p \in Seq(S) /\ Len(p) \in Nat
  BY <1>3, <1>4
<1> HIDE DEF a, t, l, p, z
<1> DEFINE b == a \o t
<1>8. /\ b \in Seq(S) /\ Len(b) = 1 + TickBytes
      /\ b[1] = f.level
      /\ \A x \in 1 .. TickBytes : b[1 + x] = t[x]
  <2>1. /\ a \o t \in Seq(S) /\ Len(a \o t) = Len(a) + Len(t)
        /\ \A i \in 1 .. Len(a) : (a \o t)[i] = a[i]
        /\ \A i \in 1 .. Len(t) : (a \o t)[Len(a) + i] = t[i]
    <3>1. a \in Seq(S) /\ t \in Seq(S)
      BY <1>5, <1>7
    <3> QED
      BY <3>1, JoinIs
  <2> HIDE DEF b
  <2> QED
    BY <2>1, <1>1, <1>5, <1>7 DEF b
<1> HIDE DEF b
<1> DEFINE c == b \o l
<1>9. /\ c \in Seq(S) /\ Len(c) = Header
      /\ \A x \in 1 .. Len(b) : c[x] = b[x]
      /\ c[Header] = Len(p)
  <2>1. /\ b \o l \in Seq(S) /\ Len(b \o l) = Len(b) + Len(l)
        /\ \A i \in 1 .. Len(b) : (b \o l)[i] = b[i]
        /\ \A i \in 1 .. Len(l) : (b \o l)[Len(b) + i] = l[i]
    <3>1. b \in Seq(S) /\ l \in Seq(S)
      BY <1>5, <1>8
    <3> QED
      BY <3>1, JoinIs
  <2>2. Len(b) + 1 = Header /\ 1 \in 1 .. Len(l)
    BY <1>1, <1>5, <1>8 DEF Header
  <2> QED
    BY <2>1, <2>2, <1>5 DEF c
<1> HIDE DEF c
<1> DEFINE d == c \o p
<1>10. /\ d \in Seq(S) /\ Len(d) = Header + Len(p)
       /\ \A x \in 1 .. Header : d[x] = c[x]
  <2>1. c \in Seq(S) /\ p \in Seq(S)
    BY <1>7, <1>9
  <2>2. /\ c \o p \in Seq(S) /\ Len(c \o p) = Len(c) + Len(p)
        /\ \A i \in 1 .. Len(c) : (c \o p)[i] = c[i]
    BY <2>1, JoinIs
  <2> QED
    BY <2>2, <1>9
<1> HIDE DEF d
<1> DEFINE e == d \o z
<1>11. Header \in Nat /\ Header >= 2 /\ Header = 2 + TickBytes
  BY <1>1 DEF Header
<1>12. /\ e \in Seq(S) /\ Len(e) = Header + Len(p) + 1
       /\ \A x \in 1 .. Header + Len(p) : e[x] = d[x]
       /\ e[Header + Len(p) + 1] = Sentinel
  <2>1. /\ d \o z \in Seq(S) /\ Len(d \o z) = Len(d) + Len(z)
        /\ \A i \in 1 .. Len(d) : (d \o z)[i] = d[i]
        /\ \A i \in 1 .. Len(z) : (d \o z)[Len(d) + i] = z[i]
    <3>1. d \in Seq(S) /\ z \in Seq(S)
      BY <1>5, <1>10
    <3> QED
      BY <3>1, JoinIs
  <2>2. 1 \in 1 .. Len(z)
    BY <1>5
  <2> QED
    BY <2>1, <2>2, <1>5, <1>10 DEF e
<1> HIDE DEF e
<1>13. \A x \in 1 .. Header : e[x] = c[x]
  <2>1. \A x \in 1 .. Header : x \in 1 .. Header + Len(p)
    BY <1>7, <1>11
  <2> QED
    BY <2>1, <1>10, <1>12
<1>14. /\ e[1] = f.level
       /\ \A x \in 1 .. TickBytes : e[1 + x] = t[x]
       /\ e[Header] = Len(p)
  <2>1. 1 \in 1 .. Len(b) /\ 1 \in 1 .. Header /\ Header \in 1 .. Header
        /\ \A x \in 1 .. TickBytes : 1 + x \in 1 .. Len(b) /\ 1 + x \in 1 .. Header
    BY <1>1, <1>8, <1>11
  <2> QED
    BY <2>1, <1>8, <1>9, <1>13
<1>15. Bytes(f) = e
  BY <1>6 DEF b, c, d, e
<1> QED
  BY <1>12, <1>14, <1>15 DEF Size, t, p

(* BytesIn for natural numbers, and for bytes when the payload was cut.    *)
LEMMA BytesAre ==
  ASSUME NEW f \in Frame
  PROVE  /\ Bytes(f) \in Seq(Nat)
         /\ Size(f) = Header + Len(f.payload) + 1
         /\ Size(f) \in Nat /\ Size(f) >= 3
         /\ Len(f.payload) \in Nat /\ Header \in Nat /\ Header >= 2
         /\ Bytes(f)[1] = f.level
         /\ \A t \in 1 .. TickBytes : Bytes(f)[1 + t] = f.ticks[t]
         /\ Bytes(f)[Header] = Len(f.payload)
         /\ Bytes(f)[Size(f)] = Sentinel
         /\ Len(f.payload) <= MaxPayload => Bytes(f) \in Seq(Byte)
<1>1. Len(f.payload) \in Nat
  BY DEF Frame
<1>2. Header \in Nat /\ Header >= 2
  BY RingAssumption DEF Header
<1>3. Byte \subseteq Nat
  BY RingAssumption
<1>4. Len(f.payload) <= MaxPayload => Len(f.payload) \in Byte
  BY <1>1, RingAssumption
<1>5. /\ Bytes(f) \in Seq(Nat)
      /\ Size(f) = Header + Len(f.payload) + 1
      /\ Bytes(f)[1] = f.level
      /\ \A t \in 1 .. TickBytes : Bytes(f)[1 + t] = f.ticks[t]
      /\ Bytes(f)[Header] = Len(f.payload)
      /\ Bytes(f)[Size(f)] = Sentinel
  BY <1>1, <1>3, BytesIn
<1>6. Len(f.payload) <= MaxPayload => Bytes(f) \in Seq(Byte)
  BY <1>4, BytesIn
<1> QED
  BY <1>1, <1>2, <1>5, <1>6

(* Cut leaves a frame whose length fits its byte.                          *)
LEMMA CutIs ==
  ASSUME NEW f \in Frame
  PROVE  Cut(f) \in Frame /\ Len(Cut(f).payload) <= MaxPayload
<1> DEFINE p == f.payload
           n == IF Len(p) < MaxPayload THEN Len(p) ELSE MaxPayload
           q == SubSeq(p, 1, n)
<1>1. p \in Seq(Byte) /\ Len(p) \in Nat /\ MaxPayload \in Nat
  BY RingAssumption DEF Frame
<1>2. n \in 1 - 1 .. Len(p) /\ n <= MaxPayload /\ 1 \in 1 .. Len(p) + 1
  BY <1>1
<1> HIDE DEF n
<1>3. q \in Seq(Byte) /\ Len(q) = n
  <2> HIDE DEF p
  <2>1. SubSeq(p, 1, n) \in Seq(Byte) /\ Len(SubSeq(p, 1, n)) = n - 1 + 1
    BY <1>1, <1>2, PieceIs
  <2> QED
    BY <2>1, <1>1, <1>2
<1>4. Cut(f) = [f EXCEPT !.payload = q]
  BY DEF Cut, n
<1> HIDE DEF q
<1>5. Cut(f) \in Frame /\ Cut(f).payload = q
  BY <1>3, <1>4 DEF Frame
<1> QED
  BY <1>2, <1>3, <1>5

(* The place in the buffer of the i-th byte from the read position.        *)
LEMMA AtIs ==
  ASSUME RingTyped, NEW i \in 0 .. N - 1
  PROVE  LET p == IF ring.read + i < N THEN ring.read + i
                  ELSE ring.read + i - N
         IN  p \in 0 .. N - 1 /\ At(ring, i) = ring.buf[p]
<1>1. N \in Nat \ {0} /\ ring.read \in 0 .. N - 1
  BY RingAssumption DEF RingTyped
<1>2. ring.read + i \in 0 .. 2 * N - 1
  BY <1>1
<1>3. (ring.read + i) % N = IF ring.read + i < N THEN ring.read + i
                            ELSE ring.read + i - N
  <2> DEFINE a == ring.read + i
  <2>1. a \in 0 .. 2 * N - 1
    BY <1>2
  <2> HIDE DEF a
  <2>2. a % N = IF a < N THEN a ELSE a - N
    BY <2>1, ModIs
  <2>3. ring.read + i = a
    BY DEF a
  <2> QED
    BY <1>1, <2>1, <2>2, <2>3
<1> QED
  BY <1>1, <1>2, <1>3 DEF At

(* The parts of what is known of the frames in the ring.                   *)
LEMMA KeptIs ==
  ASSUME RingTyped
  PROVE  /\ Len(kept) \in Nat /\ DOMAIN kept = 1 .. Len(kept)
         /\ \A i \in 1 .. Len(kept) :
              /\ kept[i] \in [frame : Frame, at : Int]
              /\ kept[i].frame \in Frame /\ kept[i].at \in Int
              /\ Size(kept[i].frame) \in Nat /\ Size(kept[i].frame) >= 3
              /\ End(kept[i]) \in Int
              /\ End(kept[i]) = kept[i].at + Size(kept[i].frame)
<1>1. kept \in Seq([frame : Frame, at : Int])
  BY DEF RingTyped
<1>2. Len(kept) \in Nat /\ DOMAIN kept = 1 .. Len(kept)
  BY <1>1
<1>3. ASSUME NEW i \in 1 .. Len(kept)
      PROVE  /\ kept[i] \in [frame : Frame, at : Int]
             /\ kept[i].frame \in Frame /\ kept[i].at \in Int
  <2> DEFINE k == kept[i]
  <2>1. k \in [frame : Frame, at : Int]
    BY <1>1, ElementOfSeq
  <2> HIDE DEF k
  <2>2. k.frame \in Frame /\ k.at \in Int
    BY <2>1
  <2> QED
    BY <2>1, <2>2 DEF k
<1>4. ASSUME NEW i \in 1 .. Len(kept)
      PROVE  Size(kept[i].frame) \in Nat /\ Size(kept[i].frame) >= 3
  BY <1>3, BytesAre
<1>5. ASSUME NEW i \in 1 .. Len(kept)
      PROVE  /\ End(kept[i]) \in Int
             /\ End(kept[i]) = kept[i].at + Size(kept[i].frame)
  BY <1>3, <1>4 DEF End
<1> QED
  BY <1>2, <1>3, <1>4, <1>5

(* The scan for a sentinel finds the end of every frame. *)
LEMMA EndsAreCuts ==
  ASSUME RingInv, NEW i \in 1 .. Len(kept)
  PROVE  End(kept[i]) \in Cuts(ring)
<1> DEFINE f == kept[i].frame  a == kept[i].at  e == End(kept[i])
<1>1. /\ f \in Frame /\ a \in Int /\ Size(f) \in Nat /\ Size(f) >= 3
      /\ e = a + Size(f) /\ i \in DOMAIN kept
  BY KeptIs DEF RingInv
<1>2. e \in 1 .. ring.used
  BY <1>1 DEF RingInv, Chained
<1>3. \A k \in 1 .. Size(f) : a + k > 0 => At(ring, a + k - 1) = Bytes(f)[k]
  BY <1>1 DEF RingInv, Holding
<1>4. Bytes(f)[Size(f)] = Sentinel
  BY <1>1, BytesAre
<1> HIDE DEF f, a, e
<1>5. At(ring, e - 1) = Sentinel
  BY <1>1, <1>2, <1>3, <1>4
<1> QED
  BY <1>2, <1>5 DEF Cuts, e

(* Cuts are places in the used part of the ring.                           *)
LEMMA CutsAre ==
  ASSUME RingTyped
  PROVE  Cuts(ring) \subseteq 1 .. ring.used /\ ring.used \in Nat
         /\ ring.used <= N /\ N \in Nat \ {0}
BY RingAssumption DEF Cuts, RingTyped

(* What is freed is enough, and ends behind a sentinel.                    *)
LEMMA FreedIs ==
  ASSUME RingInv, NEW need \in Int, need <= ring.used
  PROVE  /\ Freed(ring, need) \in 0 .. ring.used
         /\ need <= Freed(ring, need)
         /\ need <= 0 => Freed(ring, need) = 0
         /\ need > 0 => Freed(ring, need) \in Cuts(ring)
<1>1. /\ Cuts(ring) \subseteq 1 .. ring.used /\ ring.used \in Nat
  BY CutsAre DEF RingInv
<1>2. CASE need <= 0
  <2>1. Freed(ring, need) = 0
    BY <1>2 DEF Freed
  <2> QED
    BY <2>1, <1>1, <1>2
<1>3. CASE need > 0
  <2> DEFINE enough == {c \in Cuts(ring) : c >= need}
  <2>1. kept # <<>>
    BY <1>1, <1>3 DEF RingInv, Chained
  <2>2. Len(kept) \in 1 .. Len(kept)
    BY <2>1, EmptySeq, KeptIs DEF RingInv, RingTyped
  <2>3. ring.used \in Cuts(ring)
    BY <2>1, <2>2, EndsAreCuts DEF RingInv, Chained
  <2>4. enough \in SUBSET Nat /\ enough # {}
    BY <1>1, <2>3
  <2>5. \E c \in enough : \A d \in enough : c <= d
    <3> HIDE DEF enough
    <3> QED
      BY <2>4, LeastOfNat
  <2>6. Freed(ring, need) = CHOOSE c \in enough : \A d \in enough : c <= d
    BY <1>3, <2>4 DEF Freed
  <2>7. Freed(ring, need) \in enough
    <3> HIDE DEF enough
    <3> QED
      BY <2>5, <2>6
  <2> QED
    BY <2>7, <1>1, <1>3
<1> QED
  BY <1>2, <1>3

(* Evict frees c bytes, and counts a frame for each cut up to c.           *)
LEMMA EvictIs ==
  ASSUME RingInv, NEW need \in Int, need <= ring.used,
         NEW c, c = Freed(ring, need)
  PROVE  LET e == Evict(ring, need)
             D == {d \in Cuts(ring) : d <= c}
         IN  /\ e \in [buf : [0 .. N - 1 -> Byte], write : 0 .. N - 1,
                       read : 0 .. N - 1, used : 0 .. N, lost : Nat]
             /\ e.buf = ring.buf /\ e.write = ring.write
             /\ e.read = (ring.read + c) % N
             /\ e.used = ring.used - c
             /\ IsFiniteSet(D)
             /\ e.lost = ring.lost + Cardinality(D)
<1> DEFINE D == {d \in Cuts(ring) : d <= c}
<1>1. /\ c \in 0 .. ring.used /\ need <= c
      /\ need <= 0 => c = 0
      /\ need > 0 => c \in Cuts(ring)
  BY FreedIs
<1>2. /\ Cuts(ring) \subseteq 1 .. ring.used /\ ring.used \in Nat
      /\ ring.used <= N /\ N \in Nat \ {0}
  BY CutsAre DEF RingInv
<1>3. IsFiniteSet(D) /\ Cardinality(D) \in Nat
  <2>1. IsFiniteSet(1 .. ring.used)
    BY <1>2, FS_Interval
  <2>2. D \in SUBSET (1 .. ring.used)
    BY <1>2
  <2> HIDE DEF D
  <2> QED
    BY <2>1, <2>2, FS_Subset, FS_CardinalityType
<1>4. /\ ring \in [buf : [0 .. N - 1 -> Byte], write : 0 .. N - 1,
                   read : 0 .. N - 1, used : 0 .. N, lost : Nat]
  BY DEF RingInv, RingTyped
<1>5. CASE need <= 0
  <2>1. c = 0 /\ Evict(ring, need) = ring
    BY <1>1, <1>5 DEF Evict
  <2>2. D = {}
    BY <1>2, <2>1
  <2>3. Cardinality(D) = 0
    BY <2>2, FS_EmptySet
  <2>4. (ring.read + 0) % N = ring.read
    <3>1. ring.read \in 0 .. N - 1 /\ ring.read + 0 = ring.read
      BY <1>2, <1>4
    <3> DEFINE a == ring.read
    <3>2. a \in 0 .. 2 * N - 1 /\ a < N
      BY <3>1, <1>2
    <3> HIDE DEF a
    <3>3. a % N = a
      BY <3>2, ModIs
    <3> QED
      BY <3>1, <3>3 DEF a
  <2> HIDE DEF D
  <2> QED
    BY <2>1, <2>3, <2>4, <1>3, <1>4 DEF D
<1>6. CASE need > 0
  <2>1. {d \in Cuts(ring) : d <= Freed(ring, need)}
        \cup (IF Freed(ring, need) \in Cuts(ring) THEN {} ELSE {Freed(ring, need)})
          = D
    BY <1>1, <1>6
  <2> HIDE DEF D
  <2>2. Evict(ring, need) = [ring EXCEPT !.read = (@ + c) % N, !.used = @ - c,
                                         !.lost = @ + Cardinality(D)]
    <3> DEFINE rounds ==
          {d \in Cuts(ring) : d <= Freed(ring, need)}
          \cup (IF Freed(ring, need) \in Cuts(ring) THEN {}
                ELSE {Freed(ring, need)})
    <3>1. ~ (need <= 0)
      BY <1>6
    <3>2. Evict(ring, need)
            = [ring EXCEPT !.read = (@ + Freed(ring, need)) % N,
                           !.used = @ - Freed(ring, need),
                           !.lost = @ + Cardinality(rounds)]
      BY <3>1 DEF Evict
    <3> HIDE DEF rounds
    <3>3. rounds = D
      BY <2>1 DEF rounds
    <3> QED
      BY <3>2, <3>3
  <2>3. (ring.read + c) % N \in 0 .. N - 1
    <3>1. ring.read + c \in 0 .. 2 * N - 1
      BY <1>1, <1>2, <1>4
    <3> QED
      BY <3>1, <1>2, ModIs
  <2>4. ring.used - c \in 0 .. N
    BY <1>1, <1>2
  <2>5. ring.lost + Cardinality(D) \in Nat
    BY <1>3, <1>4
  <2> QED
    BY <2>2, <2>3, <2>4, <2>5, <1>3, <1>4 DEF D
<1> QED
  BY <1>2, <1>5, <1>6

(* Places around the ring.                                                 *)
LEMMA Around ==
  ASSUME NEW a \in 0 .. N - 1, NEW b \in 0 .. N
  PROVE  /\ (a + b) % N \in 0 .. N - 1
         /\ (a + b) % N = IF a + b < N THEN a + b ELSE a + b - N
<1>1. N \in Nat \ {0}
  BY RingAssumption
<1> DEFINE s == a + b
<1>2. s \in 0 .. 2 * N - 1
  BY <1>1
<1> HIDE DEF s
<1>3. s % N = IF s < N THEN s ELSE s - N
  BY <1>2, ModIs
<1>4. s % N \in 0 .. N - 1
  BY <1>1, <1>2, <1>3
<1>5. a + b = s
  BY DEF s
<1> QED
  BY <1>1, <1>2, <1>3, <1>4, <1>5

(* Writing size bytes at the write position of a ring with room for them:  *)
(* what was in it from c on stays in place, and they follow it.            *)
Placed(read, used, c, size, write, read2, write2) ==
  /\ write2 = (read2 + (used - c + size)) % N
  /\ \A y \in 0 .. used - c - 1 :
       /\ (read2 + y) % N = (read + (y + c)) % N
       /\ (read2 + y) % N \in 0 .. N - 1
       /\ (((read2 + y) % N) + N - write) % N >= size
  /\ \A x \in 1 .. size :
       /\ (read2 + (used - c + x - 1)) % N \in 0 .. N - 1
       /\ (((read2 + (used - c + x - 1)) % N) + N - write) % N = x - 1

(* The places move as Placed says.                                         *)
LEMMA PlacesAre ==
  ASSUME NEW read \in 0 .. N - 1, NEW used \in 0 .. N, NEW c \in 0 .. used,
         NEW size \in 0 .. N, used - c + size <= N,
         NEW write \in 0 .. N - 1, write = (read + used) % N,
         NEW read2 \in 0 .. N - 1, read2 = (read + c) % N,
         NEW write2 \in 0 .. N - 1, write2 = (write + size) % N
  PROVE  Placed(read, used, c, size, write, read2, write2)
<1>1. N \in Nat \ {0}
  BY RingAssumption
<1>2. /\ write \in 0 .. N - 1
      /\ write = IF read + used < N THEN read + used ELSE read + used - N
  BY Around
<1>3. /\ read2 \in 0 .. N - 1
      /\ read2 = IF read + c < N THEN read + c ELSE read + c - N
  <2>1. c \in 0 .. N
    BY <1>1
  <2> QED
    BY <2>1, Around
<1>4. /\ write2 \in 0 .. N - 1
      /\ write2 = IF write + size < N THEN write + size ELSE write + size - N
  BY <1>2, Around
<1>5. write2 = (read2 + (used - c + size)) % N
  <2> DEFINE b == used - c + size
  <2>1. b \in 0 .. N
    BY <1>1
  <2> HIDE DEF b
  <2>2. (read2 + b) % N = IF read2 + b < N THEN read2 + b ELSE read2 + b - N
    BY <2>1, <1>3, Around
  <2> DEFINE v == (read2 + b) % N
  <2>3. v = IF read2 + b < N THEN read2 + b ELSE read2 + b - N
    BY <2>2
  <2>4. b = used - c + size
    BY DEF b
  <2> HIDE DEF v
  <2>5. v = write2
    BY <2>1, <2>3, <2>4, <1>1, <1>2, <1>3, <1>4
  <2> QED
    BY <2>5 DEF v, b
<1>6. ASSUME NEW y \in 0 .. used - c - 1
      PROVE  /\ (read2 + y) % N = (read + (y + c)) % N
             /\ (read2 + y) % N \in 0 .. N - 1
             /\ (((read2 + y) % N) + N - write) % N >= size
  <2> DEFINE p == (read2 + y) % N  b == y + c  q == (read + b) % N
             d == N - write  k == (p + d) % N
  <2>1. y \in 0 .. N /\ b \in 0 .. N /\ d \in 0 .. N
    BY <1>1, <1>2
  <2>2. p \in 0 .. N - 1 /\ p = IF read2 + y < N THEN read2 + y ELSE read2 + y - N
    BY <2>1, <1>3, Around
  <2>3. b = y + c /\ d = N - write
    OBVIOUS
  <2> HIDE DEF b, d, p
  <2>4. q = IF read + b < N THEN read + b ELSE read + b - N
    BY <2>1, Around
  <2>5. k = IF p + d < N THEN p + d ELSE p + d - N
    BY <2>1, <2>2, Around
  <2>6. p + N - write = p + d
    BY <2>2, <2>3, <1>1, <1>2
  <2> HIDE DEF q, k
  <2>7. p = q
    BY <2>1, <2>2, <2>3, <2>4, <1>1, <1>3
  <2>8. k >= size
    BY <2>1, <2>2, <2>3, <2>5, <1>1, <1>2, <1>3
  <2>9. (p + N - write) % N = k
    BY <2>6 DEF k
  <2> QED
    BY <2>2, <2>7, <2>8, <2>9 DEF p, q, b
<1>7. ASSUME NEW x \in 1 .. size
      PROVE  /\ (read2 + (used - c + x - 1)) % N \in 0 .. N - 1
             /\ (((read2 + (used - c + x - 1)) % N) + N - write) % N = x - 1
  <2> DEFINE b == used - c + x - 1  p == (read2 + b) % N
             d == N - write  k == (p + d) % N
  <2>1. b \in 0 .. N /\ d \in 0 .. N
    BY <1>1, <1>2
  <2>3. b = used - c + x - 1 /\ d = N - write
    OBVIOUS
  <2> HIDE DEF b, d
  <2>2. p \in 0 .. N - 1 /\ p = IF read2 + b < N THEN read2 + b ELSE read2 + b - N
    BY <2>1, <1>3, Around
  <2> HIDE DEF p
  <2>5. k = IF p + d < N THEN p + d ELSE p + d - N
    BY <2>1, <2>2, Around
  <2>6. p + N - write = p + d
    BY <2>2, <2>3, <1>1, <1>2
  <2> HIDE DEF k
  <2>8. k = x - 1
    BY <2>1, <2>2, <2>3, <2>5, <1>1, <1>2, <1>3
  <2>9. (p + N - write) % N = k
    BY <2>6 DEF k
  <2> QED
    BY <2>2, <2>8, <2>9 DEF p, b
<1> QED
  BY <1>2, <1>3, <1>4, <1>5, <1>6, <1>7 DEF Placed

(* What is in the ring after c bytes were freed and a frame was written.   *)
Wrote(R, f, c) ==
  /\ R \in [buf : [0 .. N - 1 -> Byte], write : 0 .. N - 1,
            read : 0 .. N - 1, used : 0 .. N, lost : Nat]
  /\ R.used = ring.used - c + Size(f)
  /\ R.write = (R.read + R.used) % N
  /\ R.lost = ring.lost + Cardinality({d \in Cuts(ring) : d <= c})
  /\ c \in 0 .. ring.used
  /\ c = 0 \/ c \in Cuts(ring)
  /\ \A y \in 0 .. ring.used - c - 1 : At(R, y) = At(ring, y + c)
  /\ \A x \in 1 .. Size(f) : At(R, ring.used - c + x - 1) = Bytes(f)[x]

(* A write frees c bytes and adds the frame behind what is left.           *)
LEMMA WrittenIs ==
  ASSUME RingInv, NEW f \in Frame, Len(f.payload) <= MaxPayload, Size(f) <= N,
         NEW c, c = Freed(ring, ring.used + Size(f) - N)
  PROVE  Wrote(Written(Evict(ring, ring.used + Size(f) - N), Bytes(f)), f, c)
<1> DEFINE need == ring.used + Size(f) - N
           e == Evict(ring, need)
           R == Written(e, Bytes(f))
           D == {d \in Cuts(ring) : d <= c}
           bytes == Bytes(f)
           size == Size(f)
           Ring == [buf : [0 .. N - 1 -> Byte], write : 0 .. N - 1,
                    read : 0 .. N - 1, used : 0 .. N, lost : Nat]
<1>1. /\ bytes \in Seq(Byte) /\ Len(bytes) = size /\ size \in Nat /\ size >= 3
      /\ size <= N
  BY BytesAre DEF Size
<1>2. /\ ring.used \in Nat /\ ring.used <= N /\ N \in Nat \ {0}
      /\ ring.read \in 0 .. N - 1 /\ ring.used \in 0 .. N
      /\ ring.write = (ring.read + ring.used) % N
  BY CutsAre DEF RingInv, RingTyped, Chained
<1>3. need \in Int /\ need <= ring.used /\ need = ring.used + size - N
  BY <1>1, <1>2
<1>4. /\ c \in 0 .. ring.used /\ need <= c
      /\ need <= 0 => c = 0
      /\ need > 0 => c \in Cuts(ring)
  BY <1>3, FreedIs
<1>5. /\ e \in Ring
      /\ e.buf = ring.buf /\ e.write = ring.write
      /\ e.read = (ring.read + c) % N
      /\ e.used = ring.used - c
      /\ IsFiniteSet(D)
      /\ e.lost = ring.lost + Cardinality(D)
  BY <1>3, EvictIs, ZenonT(40)
<1> HIDE DEF e, bytes, size, need
<1>6. /\ R = [e EXCEPT !.buf = [p \in 0 .. N - 1 |->
                                  LET k == (p + N - e.write) % N
                                  IN  IF k < Len(bytes) THEN bytes[k + 1]
                                      ELSE e.buf[p]],
                       !.write = (e.write + Len(bytes)) % N,
                       !.used = e.used + Len(bytes)]
  BY DEF Written, bytes
<1> DEFINE buf == [p \in 0 .. N - 1 |->
                     IF (p + N - ring.write) % N < size
                     THEN bytes[((p + N - ring.write) % N) + 1] ELSE ring.buf[p]]
<1>7. R = [e EXCEPT !.buf = buf, !.write = (ring.write + size) % N,
                    !.used = ring.used - c + size]
  BY <1>1, <1>5, <1>6
<1> DEFINE u == ring.used - c + size
           w == (ring.write + size) % N
           r == (ring.read + c) % N
<1>80. ring.write \in 0 .. N - 1 /\ r \in 0 .. N - 1 /\ w \in 0 .. N - 1
  <2>1. ring.write \in 0 .. N - 1 /\ c \in 0 .. N /\ size \in 0 .. N
    BY <1>1, <1>2, <1>4 DEF RingInv, RingTyped
  <2> QED
    BY <2>1, <1>2, Around
<1>8. /\ w = (r + (ring.used - c + size)) % N
      /\ \A y \in 0 .. ring.used - c - 1 :
           /\ (r + y) % N = (ring.read + (y + c)) % N
           /\ (r + y) % N \in 0 .. N - 1
           /\ (((r + y) % N) + N - ring.write) % N >= size
      /\ \A x \in 1 .. size :
           /\ (r + (ring.used - c + x - 1)) % N \in 0 .. N - 1
           /\ (((r + (ring.used - c + x - 1)) % N) + N - ring.write) % N = x - 1
  <2>1. /\ ring.read \in 0 .. N - 1 /\ ring.used \in 0 .. N
        /\ c \in 0 .. ring.used /\ size \in 0 .. N /\ ring.used - c + size <= N
    BY <1>1, <1>2, <1>3, <1>4
  <2> DEFINE rd == ring.read  us == ring.used  wr == ring.write
  <2>2. r = (rd + c) % N /\ w = (wr + size) % N /\ wr = (rd + us) % N
    BY <1>2
  <2>3. /\ rd \in 0 .. N - 1 /\ us \in 0 .. N
        /\ c \in 0 .. us /\ size \in 0 .. N /\ us - c + size <= N
        /\ wr \in 0 .. N - 1 /\ r \in 0 .. N - 1 /\ w \in 0 .. N - 1
    BY <2>1, <1>80
  <2> HIDE DEF r, w, rd, us, wr
  <2>4. Placed(rd, us, c, size, wr, r, w)
    BY <2>2, <2>3, PlacesAre
  <2> QED
    BY <2>4 DEF Placed, rd, us, wr
<1>9. buf \in [0 .. N - 1 -> Byte]
  <2>1. SUFFICES ASSUME NEW p \in 0 .. N - 1
                 PROVE  buf[p] \in Byte
    OBVIOUS
  <2> DEFINE k == (p + N - ring.write) % N
  <2>2. k \in 0 .. N - 1
    <3> DEFINE d == N - ring.write
    <3>1. d \in 0 .. N /\ p + N - ring.write = p + d
      BY <1>2, <1>80
    <3> HIDE DEF d
    <3>2. (p + d) % N \in 0 .. N - 1
      BY <3>1, Around
    <3> QED
      BY <3>1, <3>2
  <2>3. buf[p] = IF k < size THEN bytes[k + 1] ELSE ring.buf[p]
    OBVIOUS
  <2> HIDE DEF k, buf
  <2>4. CASE k < size
    <3>1. k + 1 \in 1 .. Len(bytes)
      BY <2>2, <2>4, <1>1, <1>2
    <3>2. bytes[k + 1] \in Byte
      BY <3>1, <1>1, ElementOfSeq
    <3> QED
      BY <3>2, <2>3, <2>4
  <2>5. CASE ~ (k < size)
    <3>1. ring.buf[p] \in Byte
      BY DEF RingInv, RingTyped
    <3> QED
      BY <3>1, <2>3, <2>5
  <2> QED
    BY <2>4, <2>5
<1>10. /\ R \in Ring /\ R.buf = buf /\ R.write = w /\ R.used = u
       /\ R.read = r /\ R.lost = e.lost
  <2>1. u \in 0 .. N
    BY <1>1, <1>2, <1>3, <1>4
  <2> HIDE DEF buf, w, u, R
  <2>2. R = [e EXCEPT !.buf = buf, !.write = w, !.used = u]
    BY <1>7 DEF w, u
  <2> QED
    BY <2>1, <2>2, <1>5, <1>80, <1>9
<1>11. ASSUME NEW y \in 0 .. ring.used - c - 1
       PROVE  At(R, y) = At(ring, y + c)
  <2> DEFINE p == (r + y) % N  k == (p + N - ring.write) % N
  <2>1. p \in 0 .. N - 1 /\ k >= size /\ p = (ring.read + (y + c)) % N
    BY <1>8
  <2>2. At(R, y) = buf[p]
    BY <1>10 DEF At
  <2>3. buf[p] = IF k < size THEN bytes[k + 1] ELSE ring.buf[p]
    BY <2>1
  <2>4. At(ring, y + c) = ring.buf[(ring.read + (y + c)) % N]
    BY DEF At
  <2>5. k \in Int
    <3>0. p \in 0 .. N - 1 /\ ring.write \in 0 .. N - 1 /\ N \in Nat
      BY <2>1, <1>2, <1>80
    <3> HIDE DEF p
    <3>1. /\ p + N - ring.write = p + (N - ring.write)
          /\ N - ring.write \in 0 .. N
      BY <3>0
    <3> DEFINE d == N - ring.write
    <3>2. d \in 0 .. N
      BY <3>1
    <3> HIDE DEF d
    <3>3. (p + d) % N \in 0 .. N - 1
      BY <2>1, <3>2, Around
    <3> QED
      BY <3>1, <3>3 DEF d
  <2> HIDE DEF p, k, buf, R
  <2>6. ~ (k < size)
    BY <2>1, <2>5, <1>1
  <2> QED
    BY <2>1, <2>2, <2>3, <2>4, <2>6
<1>12. ASSUME NEW x \in 1 .. size
       PROVE  At(R, ring.used - c + x - 1) = bytes[x]
  <2> DEFINE p == (r + (ring.used - c + x - 1)) % N
             k == (p + N - ring.write) % N
  <2>1. p \in 0 .. N - 1 /\ k = x - 1
    BY <1>8
  <2>2. At(R, ring.used - c + x - 1) = buf[p]
    BY <1>10 DEF At
  <2>3. buf[p] = IF k < size THEN bytes[k + 1] ELSE ring.buf[p]
    BY <2>1
  <2> HIDE DEF p, k, buf, R
  <2>4. k < size /\ k + 1 = x
    BY <2>1, <1>1
  <2> QED
    BY <2>2, <2>3, <2>4
<1>13. R.write = (R.read + R.used) % N
  BY <1>8, <1>10
<1>14. \A x \in 1 .. Size(f) : At(R, ring.used - c + x - 1) = Bytes(f)[x]
  <2> HIDE DEF R
  <2> QED
    BY <1>12 DEF bytes, size
<1>15. R.used = ring.used - c + Size(f)
  <2> HIDE DEF R
  <2> QED
    BY <1>10 DEF size
<1>16. c = 0 \/ c \in Cuts(ring)
  BY <1>3, <1>4
<1>17. R = Written(Evict(ring, ring.used + Size(f) - N), Bytes(f))
  BY DEF bytes, e, need
<1> HIDE DEF R, D
<1> QED
  BY <1>4, <1>5, <1>10, <1>11, <1>13, <1>14, <1>15, <1>16, <1>17 DEF D, Wrote

(* A set of numbers with all smaller ones is an interval from 1 on.        *)
LEMMA DownSet ==
  ASSUME NEW n \in Nat, NEW S \in SUBSET (1 .. n),
         \A i \in S : \A j \in 1 .. i : j \in S
  PROVE  Cardinality(S) \in 0 .. n /\ S = 1 .. Cardinality(S)
<1> DEFINE R == (1 .. n) \ S
<1>1. CASE R = {}
  <2>1. S = 1 .. n
    BY <1>1
  <2>2. Cardinality(1 .. n) = n
    BY FS_Interval
  <2> QED
    BY <2>1, <2>2
<1>2. CASE R # {}
  <2>1. R \in SUBSET Nat
    OBVIOUS
  <2>2. PICK l \in R : \A k \in R : l <= k
    <3> HIDE DEF R
    <3> QED
      BY <2>1, <1>2, LeastOfNat
  <2>3. l \in 1 .. n /\ l \notin S
    OBVIOUS
  <2>4. ASSUME NEW i \in 1 .. l - 1 PROVE i \in S
    <3>1. i \in 1 .. n /\ ~ (l <= i)
      BY <2>3
    <3> QED
      BY <3>1, <2>2
  <2>5. ASSUME NEW i \in S PROVE i \in 1 .. l - 1
    <3>1. i \in 1 .. n /\ l \notin 1 .. i
      BY <2>3
    <3> QED
      BY <3>1, <2>3
  <2>6. S = 1 .. l - 1
    BY <2>4, <2>5
  <2>7. Cardinality(1 .. l - 1) = l - 1
    <3>1. 1 <= l - 1 \/ l - 1 = 0
      BY <2>3
    <3> QED
      BY <2>3, <3>1, FS_Interval
  <2> QED
    BY <2>3, <2>6, <2>7
<1> QED
  BY <1>1, <1>2

(* The rest of a sequence from its m-th element on, with one more after it. *)
LEMMA RestIs ==
  ASSUME NEW S, NEW s \in Seq(S), NEW m \in 0 .. Len(s), NEW x \in S
  PROVE  LET q == Append(SubSeq(s, m + 1, Len(s)), x)
         IN  /\ q \in Seq(S)
             /\ Len(q) = Len(s) - m + 1
             /\ \A j \in 1 .. Len(s) - m : q[j] = s[m + j]
             /\ q[Len(s) - m + 1] = x
<1> DEFINE t == SubSeq(s, m + 1, Len(s))
<1>1. /\ t \in Seq(S) /\ Len(t) = Len(s) - m
      /\ \A j \in 1 .. Len(s) - m : t[j] = s[m + j]
  <2> DEFINE a == m + 1  b == Len(s)
  <2>1. a \in 1 .. Len(s) + 1 /\ b \in a - 1 .. Len(s) /\ a = m + 1 /\ b \in Nat
    OBVIOUS
  <2>0. b = Len(s)
    OBVIOUS
  <2> HIDE DEF a, b
  <2>2. /\ SubSeq(s, a, b) \in Seq(S)
        /\ Len(SubSeq(s, a, b)) = b - a + 1
        /\ \A i \in 1 .. b - a + 1 : SubSeq(s, a, b)[i] = s[a + i - 1]
    BY <2>1, PieceIs
  <2>3. b - a + 1 = b - m
    BY <2>1
  <2>4. \A i \in 1 .. b - m : a + i - 1 = m + i
    BY <2>1
  <2>5. SubSeq(s, a, b) = t
    BY <2>0, <2>1
  <2> HIDE DEF t
  <2> QED
    BY <2>0, <2>2, <2>3, <2>4, <2>5
<1> HIDE DEF t
<1>2. Len(s) - m \in Nat
  OBVIOUS
<1>3. /\ Append(t, x) \in Seq(S) /\ Len(Append(t, x)) = Len(t) + 1
      /\ \A i \in 1 .. Len(t) : Append(t, x)[i] = t[i]
      /\ Append(t, x)[Len(t) + 1] = x
  BY <1>1, AppendProperties
<1> QED
  BY <1>1, <1>2, <1>3 DEF t

(* Without stray sentinels the scan finds nothing but the ends of frames.  *)
LEMMA CutsAreEnds ==
  ASSUME RingInv, plain, NEW d \in Cuts(ring)
  PROVE  \E j \in 1 .. Len(kept) : d = End(kept[j])
<1>1. d \in 1 .. ring.used /\ ring.used \in Nat
  BY CutsAre DEF RingInv
<1>2. At(ring, d - 1) = Sentinel
  BY DEF Cuts
<1> DEFINE n == Len(kept)
           S == {i \in 1 .. n : End(kept[i]) >= d}
<1>3. kept # <<>>
  BY <1>1 DEF RingInv, Chained
<1>4. n \in Nat /\ n \in 1 .. n
  BY <1>3, EmptySeq, KeptIs DEF RingInv, RingTyped
<1>5. n \in S
  BY <1>1, <1>3, <1>4 DEF RingInv, Chained
<1>6. S \in SUBSET Nat
  OBVIOUS
<1>7. PICK j \in S : \A i \in S : j <= i
  <2> HIDE DEF S
  <2> QED
    BY <1>5, <1>6, LeastOfNat
<1>8. j \in 1 .. n /\ End(kept[j]) >= d
  OBVIOUS
<1> DEFINE f == kept[j].frame  a == kept[j].at
<1>9. /\ f \in Frame /\ a \in Int /\ Size(f) \in Nat
      /\ End(kept[j]) = a + Size(f) /\ j \in DOMAIN kept
  BY <1>8, KeptIs DEF RingInv
<1>10. a < d
  <2>1. CASE j = 1
    <3>1. a <= 0
      BY <2>1, <1>3 DEF RingInv, Chained
    <3> QED
      BY <3>1, <1>1, <1>9
  <2>2. CASE j > 1
    <3>1. j - 1 \in 1 .. n /\ ~ (j <= j - 1)
      BY <2>2, <1>4, <1>8
    <3>2. j - 1 \notin S
      <4> HIDE DEF S
      <4> QED
        BY <3>1, <1>7
    <3>3. a = End(kept[j - 1]) /\ End(kept[j - 1]) \in Int
      BY <2>2, <3>1, <1>9, KeptIs DEF RingInv, Chained
    <3> QED
      BY <3>1, <3>2, <3>3, <1>1
  <2> QED
    BY <2>1, <2>2, <1>4, <1>8
<1>11. /\ \A k \in 1 .. Size(f) : a + k > 0 => At(ring, a + k - 1) = Bytes(f)[k]
       /\ \A k \in 1 .. Size(f) - 1 : Bytes(f)[k] # Sentinel
  BY <1>9 DEF RingInv, Holding, Counted, Plain
<1>12. End(kept[j]) \in Int
  BY <1>8, KeptIs DEF RingInv
<1> HIDE DEF f, a, S
<1>13. CASE d = End(kept[j])
  BY <1>8, <1>13
<1>14. CASE d # End(kept[j])
  <2> DEFINE k == d - a
  <2>1. /\ k \in 1 .. Size(f) /\ k \in 1 .. Size(f) - 1 /\ a + k = d
        /\ a + k > 0 /\ a + k - 1 = d - 1
    BY <1>1, <1>8, <1>9, <1>10, <1>12, <1>14
  <2> HIDE DEF k
  <2> QED
    BY <2>1, <1>2, <1>11
<1> QED
  BY <1>13, <1>14

(* The ends of the frames are in their order. *)
LEMMA EndsRise ==
  ASSUME RingInv, NEW j \in 1 .. Len(kept), NEW i \in 1 .. j
  PROVE  /\ i \in 1 .. Len(kept)
         /\ End(kept[i]) \in 1 .. ring.used
         /\ End(kept[i]) <= End(kept[j])
         /\ i < j => End(kept[i]) <= kept[j].at
<1>1. Len(kept) \in Nat /\ DOMAIN kept = 1 .. Len(kept)
  BY KeptIs DEF RingInv
<1>2. i \in 1 .. Len(kept)
  BY <1>1
<1>3. End(kept[i]) \in 1 .. ring.used
  BY <1>1, <1>2 DEF RingInv, Chained
<1>4. i < j => End(kept[i]) <= kept[j].at
  BY <1>1, <1>2 DEF RingInv, Chained
<1>5. /\ kept[j].at \in Int /\ Size(kept[j].frame) \in Nat
      /\ End(kept[j]) = kept[j].at + Size(kept[j].frame)
      /\ End(kept[i]) \in Int
  BY <1>2, KeptIs DEF RingInv
<1>6. CASE i = j
  BY <1>2, <1>3, <1>5, <1>6
<1>7. CASE i < j
  BY <1>2, <1>3, <1>4, <1>5, <1>7
<1> QED
  BY <1>2, <1>1, <1>6, <1>7

(* Freeing c bytes cuts no more frames than it counts, and just as many    *)
(* when there is no stray sentinel.                                        *)
LEMMA LossesAre ==
  ASSUME RingInv, NEW c \in 0 .. ring.used, c = 0 \/ c \in Cuts(ring)
  PROVE  LET G == {i \in DOMAIN kept : kept[i].at >= 0 /\ kept[i].at - c < 0}
             D == {d \in Cuts(ring) : d <= c}
         IN  /\ Cardinality(G) \in Nat /\ Cardinality(D) \in Nat
             /\ Cardinality(G) <= Cardinality(D)
             /\ plain => Cardinality(G) = Cardinality(D)
<1> DEFINE n == Len(kept)
           G == {i \in DOMAIN kept : kept[i].at >= 0 /\ kept[i].at - c < 0}
           D == {d \in Cuts(ring) : d <= c}
           E(i) == End(kept[i])
           map == [i \in G |-> IF E(i) <= c THEN E(i) ELSE c]
<1>1. n \in Nat /\ DOMAIN kept = 1 .. n
  BY KeptIs DEF RingInv
<1>2. Cuts(ring) \subseteq 1 .. ring.used /\ ring.used \in Nat /\ c \in Nat
  BY CutsAre DEF RingInv
<1>3. IsFiniteSet(G) /\ Cardinality(G) \in Nat
  <2>1. IsFiniteSet(1 .. n) /\ G \in SUBSET (1 .. n)
    BY <1>1, FS_Interval
  <2> HIDE DEF G
  <2> QED
    BY <2>1, FS_Subset, FS_CardinalityType
<1>4. IsFiniteSet(D) /\ Cardinality(D) \in Nat
  <2>1. IsFiniteSet(1 .. ring.used)
    BY <1>2, FS_Interval
  <2>2. D \in SUBSET (1 .. ring.used)
    BY <1>2
  <2> HIDE DEF D
  <2> QED
    BY <2>1, <2>2, FS_Subset, FS_CardinalityType
<1>5. ASSUME NEW i \in G
      PROVE  /\ i \in 1 .. n /\ kept[i].at \in Int /\ kept[i].at < c /\ kept[i].at >= 0
             /\ E(i) \in Int /\ kept[i].at < E(i)
  <2>1. i \in 1 .. n
    BY <1>1
  <2>2. /\ kept[i].at \in Int /\ Size(kept[i].frame) \in Nat
        /\ Size(kept[i].frame) >= 3 /\ E(i) = kept[i].at + Size(kept[i].frame)
    BY <2>1, KeptIs DEF RingInv
  <2> QED
    BY <2>1, <2>2, <1>2
<1>6. ASSUME NEW i \in G, NEW j \in G, i < j
      PROVE  E(i) <= kept[j].at
  <2>1. i \in 1 .. n /\ j \in 1 .. n
    BY <1>5
  <2>2. i \in 1 .. j
    BY <2>1, <1>1, <1>6
  <2> HIDE DEF G
  <2> QED
    BY <2>1, <2>2, <1>6, EndsRise
<1>7. \A i \in G : map[i] \in D
  <2>1. SUFFICES ASSUME NEW i \in G PROVE map[i] \in D
    OBVIOUS
  <2>2. E(i) \in Cuts(ring)
    BY <1>5, EndsAreCuts
  <2>3. c \in Cuts(ring)
    BY <1>2, <1>5
  <2> QED
    BY <1>2, <1>5, <2>2, <2>3
<1>8. map \in Injection(G, D)
  <2>1. map \in [G -> D]
    BY <1>7
  <2>2. ASSUME NEW i \in G, NEW j \in G, i < j PROVE map[i] < map[j]
    <3>1. E(i) <= kept[j].at /\ kept[j].at < c /\ kept[j].at < E(j)
      BY <2>2, <1>5, <1>6
    <3>2. map[i] = (IF E(i) <= c THEN E(i) ELSE c)
          /\ map[j] = (IF E(j) <= c THEN E(j) ELSE c)
      OBVIOUS
    <3>3. E(i) \in Int /\ E(j) \in Int /\ kept[j].at \in Int /\ c \in Int
      BY <1>2, <1>5
    <3> HIDE DEF map, E
    <3> QED
      BY <3>1, <3>2, <3>3
  <2>3. ASSUME NEW i \in G, NEW j \in G, i # j PROVE map[i] # map[j]
    <3>1. map[i] \in Int /\ map[j] \in Int
      BY <1>2, <1>7
    <3>2. i \in Int /\ j \in Int
      BY <1>5
    <3> HIDE DEF map, G
    <3>3. i < j \/ j < i
      BY <3>2, <2>3
    <3> QED
      BY <3>1, <3>3, <2>2
  <2> HIDE DEF map, G, D
  <2> QED
    BY <2>1, <2>3 DEF Injection, IsInjective
<1>9. Cardinality(G) <= Cardinality(D)
  <2> HIDE DEF map, G, D
  <2> QED
    BY <1>3, <1>4, <1>8, FS_Injection
<1>10. ASSUME plain PROVE Cardinality(G) = Cardinality(D)
  <2>1. ASSUME NEW d \in D PROVE \E i \in G : map[i] = d
    <3>1. PICK i \in 1 .. n : d = E(i)
      BY <1>10, CutsAreEnds
    <3>2. kept[i].at >= 0
      BY <1>1, <1>10 DEF RingInv, Counted
    <3>3. /\ kept[i].at \in Int /\ Size(kept[i].frame) \in Nat
          /\ Size(kept[i].frame) >= 3 /\ E(i) = kept[i].at + Size(kept[i].frame)
      BY <3>1, KeptIs DEF RingInv
    <3>4. d <= c /\ d \in Int
      BY <1>2
    <3>5. i \in G
      BY <3>1, <3>2, <3>3, <3>4, <1>1, <1>2
    <3> QED
      BY <3>1, <3>4, <3>5
  <2>2. map \in Surjection(G, D)
    <3>1. map \in [G -> D]
      BY <1>7
    <3> HIDE DEF map, G, D
    <3> QED
      BY <3>1, <2>1 DEF Surjection
  <2>3. Cardinality(D) <= Cardinality(G)
    <3> HIDE DEF map, G, D
    <3> QED
      BY <2>2, <1>3, FS_Surjection
  <2> HIDE DEF G, D
  <2> QED
    BY <2>3, <1>3, <1>4, <1>9
<1> QED
  BY <1>3, <1>4, <1>9, <1>10

(* WriteFrame of a frame that fits: c bytes are freed, and with them the   *)
(* first m frames go.                                                      *)
Shifted(k, c) == [k EXCEPT !.at = @ - c]

WritesFitting(f, c, m, after) ==
  /\ Len(f.payload) <= MaxPayload /\ Size(f) <= N
  /\ c = Freed(ring, ring.used + Size(f) - N)
  /\ \A i \in 1 .. m : End(kept[i]) <= c
  /\ \A i \in m + 1 .. Len(kept) : End(kept[i]) > c
  /\ after = [i \in DOMAIN kept |-> Shifted(kept[i], c)]
  /\ plain' = (plain /\ Plain(f))
  /\ ring' = Written(Evict(ring, ring.used + Size(f) - N), Bytes(f))
  /\ kept' = Append(SubSeq(after, m + 1, Len(after)),
                    [frame |-> f, at |-> ring.used - c])
  /\ gone' = gone + Cardinality({i \in DOMAIN kept :
                                   kept[i].at >= 0 /\ after[i].at < 0})

(* The ring's invariant after such a write.                                *)
LEMMA WriteKeeps ==
  ASSUME RingInv, NEW f \in Frame, NEW c, NEW m \in 0 .. Len(kept), NEW after,
         WritesFitting(f, c, m, after)
  PROVE  RingInv' /\ kept'[Len(kept')].frame = f
<1> DEFINE n == Len(kept)
           D == {d \in Cuts(ring) : d <= c}
           G == {i \in DOMAIN kept : kept[i].at >= 0 /\ kept[i].at - c < 0}
           new == [frame |-> f, at |-> ring.used - c]
           size == Size(f)
<1>1. /\ ring' \in [buf : [0 .. N - 1 -> Byte], write : 0 .. N - 1,
                    read : 0 .. N - 1, used : 0 .. N, lost : Nat]
      /\ ring'.used = ring.used - c + size
      /\ ring'.write = (ring'.read + ring'.used) % N
      /\ ring'.lost = ring.lost + Cardinality(D)
      /\ c \in 0 .. ring.used
      /\ c = 0 \/ c \in Cuts(ring)
      /\ \A y \in 0 .. ring.used - c - 1 : At(ring', y) = At(ring, y + c)
      /\ \A x \in 1 .. size : At(ring', ring.used - c + x - 1) = Bytes(f)[x]
  <2> DEFINE R == Written(Evict(ring, ring.used + Size(f) - N), Bytes(f))
  <2>1. Wrote(R, f, c)
    <3>1. /\ Len(f.payload) <= MaxPayload /\ Size(f) <= N
          /\ c = Freed(ring, ring.used + Size(f) - N)
      BY DEF WritesFitting
    <3> QED
      BY <3>1, WrittenIs
  <2>2. ring' = R
    BY DEF WritesFitting
  <2>3. Wrote(ring', f, c)
    BY <2>1, <2>2
  <2> HIDE DEF R
  <2> QED
    BY <2>3 DEF Wrote
<1>2. /\ ring.used \in Nat /\ ring.used <= N /\ N \in Nat \ {0} /\ c \in Nat
      /\ c <= ring.used
  BY <1>1, CutsAre DEF RingInv
<1>3. size \in Nat /\ size >= 3
  BY BytesAre
<1>4. /\ n \in Nat /\ DOMAIN kept = 1 .. n
      /\ \A i \in 1 .. n :
           /\ kept[i] \in [frame : Frame, at : Int]
           /\ kept[i].frame \in Frame /\ kept[i].at \in Int
           /\ Size(kept[i].frame) \in Nat /\ Size(kept[i].frame) >= 3
           /\ End(kept[i]) \in Int
           /\ End(kept[i]) = kept[i].at + Size(kept[i].frame)
  BY KeptIs DEF RingInv
<1>5. /\ after \in Seq([frame : Frame, at : Int]) /\ Len(after) = n
      /\ \A i \in 1 .. n : /\ after[i].frame = kept[i].frame
                           /\ after[i].at = kept[i].at - c
  <2>1. after = [i \in 1 .. n |-> Shifted(kept[i], c)]
    BY <1>4 DEF WritesFitting
  <2>2. ASSUME NEW i \in 1 .. n
        PROVE  /\ Shifted(kept[i], c) \in [frame : Frame, at : Int]
               /\ Shifted(kept[i], c).frame = kept[i].frame
               /\ Shifted(kept[i], c).at = kept[i].at - c
    <3>1. kept[i] \in [frame : Frame, at : Int] /\ kept[i].at \in Int
      BY <1>4
    <3> QED
      BY <3>1, <1>2 DEF Shifted
  <2>3. after \in [1 .. n -> [frame : Frame, at : Int]]
    BY <2>1, <2>2
  <2>4. \A i \in 1 .. n : /\ after[i].frame = kept[i].frame
                          /\ after[i].at = kept[i].at - c
    BY <2>1, <2>2
  <2>5. n \in Nat
    BY <1>4
  <2> HIDE DEF n
  <2>6. after \in Seq([frame : Frame, at : Int]) /\ Len(after) = n
    <3> DEFINE S == [frame : Frame, at : Int]
    <3>1. after \in [1 .. n -> S]
      BY <2>3
    <3> HIDE DEF S
    <3>2. after \in Seq(S) /\ Len(after) = n
      BY <3>1, <2>5
    <3> QED
      BY <3>2 DEF S
  <2> QED
    BY <2>4, <2>6
<1>6. new \in [frame : Frame, at : Int] /\ new.frame = f /\ new.at = ring.used - c
  BY <1>2
<1>7. /\ kept' \in Seq([frame : Frame, at : Int])
      /\ Len(kept') = n - m + 1
      /\ \A j \in 1 .. n - m : kept'[j] = after[m + j]
      /\ kept'[n - m + 1] = new
  <2> DEFINE q == Append(SubSeq(after, m + 1, Len(after)), new)
  <2>1. m \in 0 .. Len(after)
    BY <1>5
  <2> HIDE DEF new
  <2>2. /\ q \in Seq([frame : Frame, at : Int])
        /\ Len(q) = Len(after) - m + 1
        /\ \A j \in 1 .. Len(after) - m : q[j] = after[m + j]
        /\ q[Len(after) - m + 1] = new
    <3> DEFINE S == [frame : Frame, at : Int]
    <3>1. after \in Seq(S) /\ new \in S
      BY <1>5, <1>6
    <3> HIDE DEF S
    <3>2. /\ q \in Seq(S)
          /\ Len(q) = Len(after) - m + 1
          /\ \A j \in 1 .. Len(after) - m : q[j] = after[m + j]
          /\ q[Len(after) - m + 1] = new
      BY <2>1, <3>1, RestIs
    <3> QED
      BY <3>2 DEF S
  <2>3. kept' = q
    BY DEF new, WritesFitting
  <2> HIDE DEF q
  <2> QED
    BY <2>2, <2>3, <1>5
<1>8. /\ m \in 0 .. n /\ n - m \in Nat
      /\ DOMAIN kept' = 1 .. n - m + 1
      /\ \A j \in 1 .. n - m : /\ m + j \in m + 1 .. n /\ m + j \in 1 .. n
                               /\ kept'[j].frame = kept[m + j].frame
                               /\ kept'[j].at = kept[m + j].at - c
                               /\ End(kept'[j]) = End(kept[m + j]) - c
      /\ kept'[n - m + 1].frame = f
      /\ kept'[n - m + 1].at = ring.used - c
      /\ End(kept'[n - m + 1]) = ring'.used
  <2>1. m \in 0 .. n /\ n - m \in Nat
    BY <1>4
  <2>2. DOMAIN kept' = 1 .. n - m + 1
    BY <1>7, <2>1
  <2>3. ASSUME NEW j \in 1 .. n - m
        PROVE  /\ m + j \in m + 1 .. n /\ m + j \in 1 .. n
               /\ kept'[j].frame = kept[m + j].frame
               /\ kept'[j].at = kept[m + j].at - c
               /\ End(kept'[j]) = End(kept[m + j]) - c
    <3>1. m + j \in m + 1 .. n /\ m + j \in 1 .. n
      BY <2>1, <1>4
    <3>2. kept'[j].frame = kept[m + j].frame /\ kept'[j].at = kept[m + j].at - c
      BY <3>1, <1>5, <1>7
    <3>3. End(kept'[j]) = (kept[m + j].at - c) + Size(kept[m + j].frame)
      BY <3>2 DEF End
    <3> QED
      BY <3>1, <3>2, <3>3, <1>2, <1>4
  <2>4. kept'[n - m + 1].frame = f /\ kept'[n - m + 1].at = ring.used - c
    BY <1>6, <1>7
  <2>5. End(kept'[n - m + 1]) = ring'.used
    BY <2>4, <1>1 DEF End
  <2> QED
    BY <2>1, <2>2, <2>3, <2>4, <2>5
<1> HIDE DEF n, new, size
<1>9. gone' = gone + Cardinality(G)
  <2>1. {i \in DOMAIN kept : kept[i].at >= 0 /\ after[i].at < 0} = G
    BY <1>4, <1>5
  <2>2. gone' = gone + Cardinality({i \in DOMAIN kept :
                                      kept[i].at >= 0 /\ after[i].at < 0})
    BY DEF WritesFitting
  <2> QED
    BY <2>1, <2>2
<1>10. /\ Cardinality(G) \in Nat /\ Cardinality(D) \in Nat
       /\ Cardinality(G) <= Cardinality(D)
       /\ plain => Cardinality(G) = Cardinality(D)
  BY <1>1, LossesAre
<1> HIDE DEF G, D
<1>11. RingTyped'
  <2>1. gone' \in Nat
    BY <1>9, <1>10 DEF RingInv, RingTyped
  <2>2. plain' \in BOOLEAN
    BY DEF WritesFitting
  <2> QED
    BY <1>1, <1>7, <2>1, <2>2 DEF RingTyped
<1>12. /\ \A i \in 1 .. n : End(kept[i]) \in 1 .. ring.used
       /\ \A i, j \in 1 .. n : i < j => End(kept[i]) <= kept[j].at
       /\ \A i \in 1 .. n : i > 1 => kept[i].at = End(kept[i - 1])
       /\ n = 0 => ring.used = 0
       /\ n > 0 => kept[1].at <= 0 /\ End(kept[n]) = ring.used
  <2>1. n = 0 <=> kept = <<>>
    BY EmptySeq DEF n, RingInv, RingTyped
  <2>2. /\ \A i \in 1 .. n : End(kept[i]) \in 1 .. ring.used
        /\ \A i, j \in 1 .. n : i < j => End(kept[i]) <= kept[j].at
        /\ \A i \in 1 .. n : i > 1 => kept[i].at = End(kept[i - 1])
    BY <1>4 DEF RingInv, Chained
  <2>3. n = 0 => ring.used = 0
    BY <2>1 DEF RingInv, Chained
  <2>4. n > 0 => kept[1].at <= 0 /\ End(kept[n]) = ring.used
    <3>1. n > 0 => kept # <<>>
      BY <2>1, <1>4
    <3> QED
      BY <3>1 DEF RingInv, Chained, n
  <2> QED
    BY <2>2, <2>3, <2>4
<1>13. Chained'
  <2>1. kept' # <<>>
    BY <1>7, <1>8
  <2>2. kept'[1].at <= 0
    <3>1. CASE m = n
      <4>1. kept'[1].at = ring.used - c
        BY <3>1, <1>8
      <4>2. ring.used <= c
        <5>1. CASE n = 0
          BY <5>1, <1>2, <1>12
        <5>2. CASE n > 0
          <6>1. n \in 1 .. m
            BY <3>1, <5>2, <1>4
          <6> QED
            BY <6>1, <5>2, <1>12 DEF WritesFitting
        <5> QED
          BY <5>1, <5>2, <1>4
      <4> QED
        BY <4>1, <4>2, <1>2
    <3>2. CASE m # n
      <4>1. 1 \in 1 .. n - m /\ m + 1 \in 1 .. n
        <5>1. m \in 0 .. n /\ n \in Nat
          BY <1>4, <1>8
        <5> QED
          BY <3>2, <5>1
      <4>2. kept'[1].at = kept[m + 1].at - c
        BY <4>1, <1>8
      <4>3. kept[m + 1].at <= c
        <5>1. CASE m = 0
          BY <5>1, <4>1, <1>2, <1>4, <1>12
        <5>2. CASE m > 0
          <6>1. m \in 1 .. m /\ m \in 1 .. n /\ m + 1 > 1 /\ m + 1 - 1 = m
            BY <5>2, <1>8
          <6>2. kept[m + 1].at = End(kept[m])
            BY <6>1, <4>1, <1>12
          <6> QED
            BY <6>1, <6>2 DEF WritesFitting
        <5> QED
          BY <5>1, <5>2, <1>8
      <4> QED
        BY <4>1, <4>2, <4>3, <1>2, <1>4
    <3> QED
      BY <3>1, <3>2
  <2>3. ASSUME NEW i \in 1 .. n - m + 1 PROVE End(kept'[i]) \in 1 .. ring'.used
    <3>0. ring'.used = ring.used - c + size /\ ring'.used \in 1 .. ring'.used
      <4>1. ring'.used = ring.used - c + size
        BY <1>1
      <4> QED
        BY <4>1, <1>2, <1>3
    <3>1. CASE i = n - m + 1
      BY <3>0, <3>1, <1>8
    <3>2. CASE i \in 1 .. n - m
      <4>1. End(kept[m + i]) > c /\ End(kept[m + i]) \in 1 .. ring.used
        BY <3>2, <1>8, <1>12 DEF n, WritesFitting
      <4>2. End(kept'[i]) = End(kept[m + i]) - c
        BY <3>2, <1>8
      <4> QED
        BY <3>0, <4>1, <4>2, <1>2, <1>3
    <3> QED
      BY <3>1, <3>2, <1>8
  <2>4. ASSUME NEW i \in 1 .. n - m + 1, NEW j \in 1 .. n - m + 1, i < j
        PROVE  End(kept'[i]) <= kept'[j].at
    <3>1. i \in 1 .. n - m
      BY <2>4, <1>8
    <3>2. /\ End(kept'[i]) = End(kept[m + i]) - c /\ m + i \in 1 .. n
          /\ End(kept[m + i]) \in 1 .. ring.used
      BY <3>1, <1>8, <1>12
    <3>3. CASE j = n - m + 1
      <4>1. kept'[j].at = ring.used - c
        BY <3>3, <1>8
      <4> QED
        BY <3>2, <4>1, <1>2
    <3>4. CASE j \in 1 .. n - m
      <4>1. /\ m + j \in 1 .. n /\ m + i < m + j /\ kept'[j].at = kept[m + j].at - c
        BY <2>4, <3>4, <1>8
      <4>2. End(kept[m + i]) <= kept[m + j].at /\ kept[m + j].at \in Int
        BY <3>2, <4>1, <1>4, <1>12
      <4> QED
        BY <3>2, <4>1, <4>2, <1>2
    <3> QED
      BY <3>3, <3>4, <1>8
  <2>5. ASSUME NEW i \in 1 .. n - m + 1, i > 1
        PROVE  kept'[i].at = End(kept'[i - 1])
    <3>1. i - 1 \in 1 .. n - m
      BY <2>5, <1>8
    <3>2. /\ End(kept'[i - 1]) = End(kept[m + (i - 1)]) - c
          /\ m + (i - 1) \in 1 .. n
      BY <3>1, <1>8
    <3>3. CASE i = n - m + 1
      <4>1. m + (i - 1) = n /\ n > 0
        <5>1. m \in 0 .. n /\ n \in Nat
          BY <1>4, <1>8
        <5> QED
          BY <3>1, <3>3, <5>1
      <4> QED
        BY <3>2, <3>3, <4>1, <1>8, <1>12
    <3>4. CASE i \in 1 .. n - m
      <4>1. /\ m + i \in 1 .. n /\ m + i > 1 /\ m + i - 1 = m + (i - 1)
            /\ kept'[i].at = kept[m + i].at - c
        BY <3>2, <3>4, <1>8
      <4>2. kept[m + i].at = End(kept[m + (i - 1)])
        BY <4>1, <1>12
      <4> QED
        BY <3>2, <4>1, <4>2
    <3> QED
      BY <3>3, <3>4, <1>8
  <2>6. End(kept'[Len(kept')]) = ring'.used
    BY <1>7, <1>8
  <2> QED
    BY <2>1, <2>2, <2>3, <2>4, <2>5, <2>6, <1>1, <1>8 DEF Chained, End
<1>14. Holding'
  <2>1. ASSUME NEW i \in 1 .. n - m + 1, NEW k \in 1 .. Size(kept'[i].frame),
               kept'[i].at + k > 0
        PROVE  At(ring', kept'[i].at + k - 1) = Bytes(kept'[i].frame)[k]
    <3>1. CASE i = n - m + 1
      BY <2>1, <3>1, <1>1, <1>8 DEF size
    <3>2. CASE i \in 1 .. n - m
      <4> DEFINE j == m + i  y == kept'[i].at + k - 1
      <4>1. /\ j \in 1 .. n /\ kept'[i].frame = kept[j].frame
            /\ kept'[i].at = kept[j].at - c
        BY <3>2, <1>8
      <4>2. /\ kept[j].at \in Int /\ Size(kept[j].frame) \in Nat
            /\ End(kept[j]) = kept[j].at + Size(kept[j].frame)
            /\ End(kept[j]) \in 1 .. ring.used
            /\ k \in 1 .. Size(kept[j].frame)
        BY <4>1, <1>4, <1>12
      <4>3. kept[j].at - c + k > 0
        BY <2>1, <4>1
      <4>4. /\ y \in 0 .. ring.used - c - 1 /\ y + c = kept[j].at + k - 1
            /\ kept[j].at + k > 0
        <5> DEFINE a == kept[j].at  z == Size(kept[j].frame)  e == End(kept[j])
        <5>1. /\ y = a - c + k - 1 /\ a \in Int /\ z \in Nat /\ e = a + z
              /\ e \in 1 .. ring.used /\ k \in 1 .. z /\ a - c + k > 0
          BY <4>1, <4>2, <4>3
        <5> HIDE DEF y, a, z, e
        <5>2. /\ y \in 0 .. ring.used - c - 1 /\ y + c = a + k - 1 /\ a + k > 0
          BY <5>1, <1>2
        <5> QED
          BY <5>2 DEF a
      <4>5. At(ring, kept[j].at + k - 1) = Bytes(kept[j].frame)[k]
        BY <4>1, <4>2, <4>4, <1>4 DEF RingInv, Holding
      <4>6. At(ring', y) = At(ring, y + c)
        BY <4>4, <1>1
      <4> QED
        BY <4>1, <4>4, <4>5, <4>6
    <3> QED
      BY <3>1, <3>2, <1>8
  <2> QED
    BY <2>1, <1>8 DEF Holding
<1>15. Counted'
  <2>1. gone \in Nat /\ ring.lost \in Nat /\ gone <= ring.lost
    BY DEF RingInv, RingTyped, Counted
  <2>2. gone' <= ring'.lost
    BY <2>1, <1>1, <1>9, <1>10
  <2>3. ASSUME plain' PROVE gone' = ring'.lost
    BY <2>1, <2>3, <1>1, <1>9, <1>10 DEF RingInv, Counted, WritesFitting
  <2>4. ASSUME plain', NEW i \in 1 .. n - m + 1
        PROVE  kept'[i].at >= 0 /\ Plain(kept'[i].frame)
    <3>1. /\ plain /\ Plain(f)
          /\ \A j \in 1 .. n : kept[j].at >= 0 /\ Plain(kept[j].frame)
      BY <2>4, <1>4 DEF RingInv, Counted, WritesFitting
    <3>2. CASE i = n - m + 1
      BY <3>1, <3>2, <1>2, <1>8
    <3>3. CASE i \in 1 .. n - m
      <4> DEFINE j == m + i
      <4>1. /\ j \in m + 1 .. n /\ j \in 1 .. n /\ kept'[i].frame = kept[j].frame
            /\ kept'[i].at = kept[j].at - c /\ kept[j].at \in Int
        BY <3>3, <1>4, <1>8
      <4>2. Plain(kept'[i].frame)
        BY <3>1, <4>1
      <4>3. kept[j].at >= c
        <5>1. CASE c = 0
          BY <3>1, <4>1, <5>1
        <5>2. CASE c # 0
          <6>1. PICK l \in 1 .. n : c = End(kept[l])
            BY <5>2, <3>1, <1>1, CutsAreEnds DEF n
          <6>2. l \in 1 .. m
            <7>0. \A x \in m + 1 .. n : End(kept[x]) > c
              BY DEF n, WritesFitting
            <7>1. l \notin m + 1 .. n
              BY <6>1, <7>0, <1>2
            <7> QED
              BY <7>1, <1>8
          <6>3. l < j
            BY <6>2, <4>1, <1>8
          <6> QED
            BY <6>1, <6>3, <4>1, <1>12
        <5> QED
          BY <5>1, <5>2
      <4> QED
        BY <4>1, <4>2, <4>3, <1>2
    <3> QED
      BY <3>2, <3>3, <1>8
  <2> QED
    BY <2>2, <2>3, <2>4, <1>8 DEF Counted
<1>16. kept'[Len(kept')].frame = f
  BY <1>7, <1>8
<1> QED
  BY <1>11, <1>13, <1>14, <1>15, <1>16 DEF RingInv

(* The frames that end by c are the first ones.                            *)
LEMMA OverIs ==
  ASSUME RingInv, NEW c \in Int
  PROVE  LET over == {i \in DOMAIN kept : End(kept[i]) <= c}
         IN  /\ Cardinality(over) \in 0 .. Len(kept)
             /\ over = 1 .. Cardinality(over)
<1> DEFINE over == {i \in DOMAIN kept : End(kept[i]) <= c}  n == Len(kept)
<1>1. /\ n \in Nat /\ DOMAIN kept = 1 .. n
      /\ \A i \in 1 .. n : End(kept[i]) \in Int
  BY KeptIs DEF RingInv
<1>2. over \in SUBSET (1 .. n)
  BY <1>1
<1>3. ASSUME NEW i \in over, NEW j \in 1 .. i PROVE j \in over
  <2>1. i \in 1 .. n /\ End(kept[i]) <= c
    BY <1>1
  <2>2. j \in 1 .. n /\ End(kept[j]) <= End(kept[i])
    BY <2>1, EndsRise
  <2> QED
    BY <2>1, <2>2, <1>1
<1> HIDE DEF over, n
<1>4. Cardinality(over) \in 0 .. n /\ over = 1 .. Cardinality(over)
  BY <1>1, <1>2, <1>3, DownSet
<1> QED
  BY <1>4 DEF over, n

(* write_frame keeps the ring's invariant; the frame is refused when it is *)
(* too large, and else the last one kept.                                  *)
LEMMA WriteStep ==
  ASSUME RingInv, NEW frame \in Frame, WriteFrame(frame)
  PROVE  /\ RingInv'
         /\ IF Size(Cut(frame)) > N THEN kept' = kept
            ELSE kept'[Len(kept')].frame = Cut(frame)
<1> DEFINE f == Cut(frame)
           c == Freed(ring, ring.used + Size(f) - N)
           after == [i \in DOMAIN kept |-> Shifted(kept[i], c)]
           over == {i \in DOMAIN kept : after[i].at + Size(after[i].frame) <= 0}
           m == Cardinality(over)
<1>1. f \in Frame /\ Len(f.payload) <= MaxPayload
  BY CutIs
<1>2. Size(f) \in Nat /\ N \in Nat /\ ring.used \in Nat
  BY <1>1, BytesAre, CutsAre DEF RingInv
<1>3. CASE Size(f) > N
  <2>1. /\ ring' = [ring EXCEPT !.lost = @ + 1]
        /\ gone' = gone + 1
        /\ kept' = kept /\ plain' = plain
    BY <1>3 DEF WriteFrame
  <2>2. /\ ring'.used = ring.used /\ ring'.buf = ring.buf /\ ring'.read = ring.read
        /\ ring'.write = ring.write /\ ring'.lost = ring.lost + 1
        /\ RingTyped'
    <3> DEFINE Ring == [buf : [0 .. N - 1 -> Byte], write : 0 .. N - 1,
                        read : 0 .. N - 1, used : 0 .. N, lost : Nat]
    <3>1. ring \in Ring /\ gone \in Nat
      BY DEF RingInv, RingTyped
    <3>2. /\ ring' \in Ring
          /\ ring'.used = ring.used /\ ring'.buf = ring.buf /\ ring'.read = ring.read
          /\ ring'.write = ring.write /\ ring'.lost = ring.lost + 1
      BY <2>1, <3>1
    <3>3. gone' \in Nat
      BY <2>1, <3>1
    <3> QED
      BY <2>1, <3>2, <3>3 DEF RingInv, RingTyped
  <2>3. \A i : At(ring', i) = At(ring, i)
    BY <2>2 DEF At
  <2>4. Chained'
    BY <2>1, <2>2 DEF RingInv, Chained, End
  <2>5. Holding'
    BY <2>1, <2>3 DEF RingInv, Holding
  <2>6. Counted'
    BY <2>1, <2>2 DEF RingInv, RingTyped, Counted
  <2> QED
    BY <1>3, <2>1, <2>2, <2>4, <2>5, <2>6 DEF RingInv
<1>4. CASE Size(f) <= N
  <2>1. /\ plain' = (plain /\ Plain(f))
        /\ ring' = Written(Evict(ring, ring.used + Size(f) - N), Bytes(f))
        /\ kept' = Append(SubSeq(after, m + 1, Len(after)),
                          [frame |-> f, at |-> ring.used - c])
        /\ gone' = gone + Cardinality({i \in DOMAIN kept :
                                         kept[i].at >= 0 /\ after[i].at < 0})
    <3>1. ~ (Size(f) > N)
      BY <1>2, <1>4
    <3> QED
      BY <3>1 DEF WriteFrame, Shifted
  <2> HIDE DEF f
  <2>2. c \in 0 .. ring.used
    <3> DEFINE need == ring.used + Size(f) - N
    <3>1. need \in Int /\ need <= ring.used
      BY <1>2, <1>4
    <3> HIDE DEF need
    <3>2. Freed(ring, need) \in 0 .. ring.used
      BY <3>1, FreedIs
    <3> QED
      BY <3>2 DEF need
  <2> HIDE DEF c
  <2>3. over = {i \in DOMAIN kept : End(kept[i]) <= c}
    <3>1. ASSUME NEW i \in DOMAIN kept
          PROVE  after[i].at + Size(after[i].frame) <= 0 <=> End(kept[i]) <= c
      <4>1. /\ kept[i] \in [frame : Frame, at : Int] /\ kept[i].at \in Int
            /\ Size(kept[i].frame) \in Nat
            /\ End(kept[i]) = kept[i].at + Size(kept[i].frame)
        BY KeptIs DEF RingInv
      <4>2. /\ after[i] = Shifted(kept[i], c)
            /\ Shifted(kept[i], c).at = kept[i].at - c
            /\ Shifted(kept[i], c).frame = kept[i].frame
        BY <4>1 DEF Shifted
      <4> HIDE DEF after
      <4> QED
        BY <4>1, <4>2, <2>2, <1>2
    <3> QED
      BY <3>1
  <2> HIDE DEF over
  <2>4. m \in 0 .. Len(kept) /\ over = 1 .. m
    BY <2>2, <2>3, <1>2, OverIs
  <2> HIDE DEF m, after
  <2>5. /\ \A i \in 1 .. m : End(kept[i]) <= c
        /\ \A i \in m + 1 .. Len(kept) : End(kept[i]) > c
    <3>1. DOMAIN kept = 1 .. Len(kept) /\ Len(kept) \in Nat
          /\ \A i \in 1 .. Len(kept) : End(kept[i]) \in Int
      BY KeptIs DEF RingInv
    <3>2. ASSUME NEW i \in m + 1 .. Len(kept) PROVE End(kept[i]) > c
      <4>1. i \in 1 .. Len(kept) /\ i \notin over
        BY <2>4
      <4> QED
        BY <4>1, <3>1, <2>2, <2>3, <1>2
    <3> QED
      BY <3>2, <2>3, <2>4
  <2>6. WritesFitting(f, c, m, after)
    BY <1>1, <1>4, <2>1, <2>5 DEF WritesFitting, c, after
  <2>7. RingInv' /\ kept'[Len(kept')].frame = f
    BY <1>1, <2>4, <2>6, WriteKeeps
  <2>8. ~ (Size(f) > N)
    BY <1>2, <1>4
  <2> QED
    BY <2>7, <2>8 DEF f
<1> QED
  BY <1>2, <1>3, <1>4

(* clear keeps it.                                                         *)
LEMMA ClearStep ==
  ASSUME RingInv, Clear
  PROVE  RingInv'
<1>1. N \in Nat \ {0}
  BY RingAssumption
<1>2. /\ ring' = [ring EXCEPT !.write = 0, !.read = 0, !.used = 0]
      /\ kept' = <<>> /\ gone' = gone /\ plain' = plain
  BY DEF Clear
<1>3. /\ RingTyped' /\ ring'.write = 0 /\ ring'.read = 0 /\ ring'.used = 0
      /\ ring'.lost = ring.lost
  <2> DEFINE Ring == [buf : [0 .. N - 1 -> Byte], write : 0 .. N - 1,
                      read : 0 .. N - 1, used : 0 .. N, lost : Nat]
  <2>1. ring \in Ring
    BY DEF RingInv, RingTyped
  <2>2. 0 \in 0 .. N - 1 /\ 0 \in 0 .. N
    BY <1>1
  <2>3. /\ ring' \in Ring
        /\ ring'.write = 0 /\ ring'.read = 0 /\ ring'.used = 0
        /\ ring'.lost = ring.lost
    BY <1>2, <2>1, <2>2
  <2>4. kept' \in Seq([frame : Frame, at : Int])
    BY <1>2
  <2> QED
    BY <1>2, <2>3, <2>4 DEF RingInv, RingTyped
<1>4. (0 + 0) % N = 0
  BY <1>1, Around
<1>5. DOMAIN kept' = {} 
  BY <1>2
<1>6. Chained'
  BY <1>2, <1>3, <1>4, <1>5 DEF Chained
<1>7. Holding' /\ Counted'
  BY <1>2, <1>3, <1>5 DEF RingInv, Holding, Counted
<1> QED
  BY <1>3, <1>6, <1>7 DEF RingInv

(* A new ring has it.                                                      *)
LEMMA RingStart ==
  ASSUME RingInit
  PROVE  RingInv
<1>1. N \in Nat \ {0} /\ 0 \in Byte
  BY RingAssumption
<1>2. RingTyped /\ DOMAIN kept = {} /\ kept = <<>>
  BY <1>1 DEF RingInit, RingTyped
<1>3. (0 + 0) % N = 0
  BY <1>1, Around
<1>4. Chained /\ Holding /\ Counted
  BY <1>2, <1>3 DEF RingInit, Chained, Holding, Counted
<1> QED
  BY <1>2, <1>4 DEF RingInv

-----------------------------------------------------------------------------
(* DefmtSink: the logger in front of the ring *)

(* A logging call that copies has a piece left; its position is in the     *)
(* staging buffer.                                                         *)
Fields == {"pc", "left", "at", "own", "alone"}

Calling(r) ==
  /\ DOMAIN r = Fields
  /\ r.left \in Seq(Seq(Byte))
  /\ r.at \in 0 .. StageSize
  /\ r.pc = "copy" => r.left # <<>>

SinkTyped ==
  /\ stage \in [1 .. StageSize -> Byte]
  /\ pos \in 0 .. StageSize
  /\ \A c \in Contexts : Calling(call[c])

(* A logging call goes on.                                                 *)
LEMMA CallingIs ==
  ASSUME NEW r, Calling(r), NEW pc, pc = "copy" => r.left # <<>>,
         NEW at \in 0 .. StageSize
  PROVE  /\ Calling([r EXCEPT !.alone = FALSE])
         /\ Calling([r EXCEPT !.pc = pc])
         /\ Calling([r EXCEPT !.pc = pc, !.at = at])
BY DEF Calling, Fields

Copied(r) == [r EXCEPT !.pc = "write", !.left = Tail(@)]

(* It copies its next piece.                                               *)
LEMMA CallingTail ==
  ASSUME NEW r, Calling(r), r.left # <<>>
  PROVE  Calling(Copied(r)) /\ Head(r.left) \in Seq(Byte)
<1>1. r.left \in Seq(Seq(Byte)) /\ r.left # <<>>
  BY DEF Calling
<1>2. Tail(r.left) \in Seq(Seq(Byte)) /\ Head(r.left) \in Seq(Byte)
  BY <1>1, HeadTailProperties
<1> QED
  BY <1>2 DEF Calling, Fields, Copied

(* It begins, and is over.                                                 *)
LEMMA CallingFresh ==
  ASSUME NEW pc, pc # "copy", NEW pieces \in Seq(Seq(Byte)), NEW own, NEW alone
  PROVE  /\ Calling(Idle)
         /\ Calling([Idle EXCEPT !.pc = pc, !.left = pieces, !.own = own,
                                 !.alone = alone])
<1>1. 0 \in 0 .. StageSize /\ <<>> \in Seq(Seq(Byte))
  BY SinkAssumption
<1> QED
  BY <1>1 DEF Calling, Fields, Idle

(* One context goes on, the other is only disturbed.                       *)
LEMMA BecomesIs ==
  ASSUME \A c \in Contexts : Calling(call[c]), NEW c \in Contexts, NEW new,
         Calling(new), Becomes(c, new)
  PROVE  \A d \in Contexts : Calling(call'[d])
<1>1. call' = [d \in Contexts |-> IF d = c THEN new
                                  ELSE [call[d] EXCEPT !.alone = FALSE]]
  BY DEF Becomes
<1>2. ASSUME NEW d \in Contexts PROVE Calling(call'[d])
  <2>1. 0 \in 0 .. StageSize
    BY SinkAssumption
  <2>2. Calling([call[d] EXCEPT !.alone = FALSE])
    <3> DEFINE r == call[d]
    <3>1. Calling(r)
      OBVIOUS
    <3> HIDE DEF r
    <3>2. Calling([r EXCEPT !.alone = FALSE])
      BY <3>1, <2>1, CallingIs
    <3> QED
      BY <3>2 DEF r
  <2>3. call'[d] = IF d = c THEN new ELSE [call[d] EXCEPT !.alone = FALSE]
    BY <1>1
  <2> QED
    BY <2>2, <2>3
<1> QED
  BY <1>2

(* The front of a sequence.                                                *)
LEMMA FrontIs ==
  ASSUME NEW S, NEW s \in Seq(S), NEW n \in 0 .. Len(s)
  PROVE  /\ SubSeq(s, 1, n) \in Seq(S) /\ Len(SubSeq(s, 1, n)) = n
         /\ \A i \in 1 .. n : SubSeq(s, 1, n)[i] = s[i]
<1>1. Len(s) \in Nat
  OBVIOUS
<1>2. 1 \in 1 .. Len(s) + 1 /\ n \in 1 - 1 .. Len(s)
  BY <1>1
<1>3. /\ SubSeq(s, 1, n) \in Seq(S)
      /\ Len(SubSeq(s, 1, n)) = n - 1 + 1
      /\ \A i \in 1 .. n - 1 + 1 : SubSeq(s, 1, n)[i] = s[1 + i - 1]
  BY <1>2, PieceIs
<1>4. n - 1 + 1 = n /\ \A i \in 1 .. n : 1 + i - 1 = i
  BY <1>1
<1> QED
  BY <1>3, <1>4

(* What is staged is bytes.                                                *)
LEMMA StagedAre ==
  ASSUME stage \in [1 .. StageSize -> Byte], NEW n \in 0 .. StageSize
  PROVE  /\ Staged(n) \in Seq(Byte) /\ Len(Staged(n)) = n
         /\ \A i \in 1 .. n : Staged(n)[i] = stage[i]
<1> DEFINE s == [p \in 1 .. StageSize |-> stage[p]]
<1>1. s \in Seq(Byte) /\ Len(s) = StageSize /\ StageSize \in Nat
  BY SinkAssumption
<1>2. \A i \in 1 .. n : s[i] = stage[i]
  BY <1>1
<1> HIDE DEF s
<1>3. /\ SubSeq(s, 1, n) \in Seq(Byte) /\ Len(SubSeq(s, 1, n)) = n
      /\ \A i \in 1 .. n : SubSeq(s, 1, n)[i] = s[i]
  <2>1. n \in 0 .. Len(s)
    BY <1>1
  <2> QED
    BY <1>1, <2>1, FrontIs
<1> QED
  BY <1>2, <1>3 DEF Staged, s

(* Copying stays within the staging buffer.                                *)
LEMMA CopyStep ==
  ASSUME SinkTyped, NEW c \in Contexts, Copy(c)
  PROVE  SinkTyped'
<1> DEFINE piece == Head(call[c].left)
           at    == call[c].at
           n     == Fitting(piece, at)
<1>1. /\ call[c].pc = "copy" /\ Calling(call[c]) /\ call[c].left # <<>>
  BY DEF SinkTyped, Copy, Runs, Calling
<1>2. piece \in Seq(Byte) /\ Calling(Copied(call[c]))
  BY <1>1, CallingTail
<1>3. /\ Becomes(c, Copied(call[c]))
      /\ stage' = [p \in 1 .. StageSize |->
                     IF p \in at + 1 .. at + n THEN piece[p - at] ELSE stage[p]]
      /\ pos' = IF n > 0 THEN at + n ELSE pos
  BY DEF Copy, Copied
<1>4. \A d \in Contexts : Calling(call'[d])
  BY <1>2, <1>3, BecomesIs DEF SinkTyped
<1>5. at \in 0 .. StageSize /\ StageSize \in Nat
  BY <1>1, SinkAssumption DEF Calling
<1>6. /\ stage \in [1 .. StageSize -> Byte] /\ pos \in 0 .. StageSize
  BY DEF SinkTyped
<1> HIDE DEF piece, at
<1>7. Len(piece) \in Nat
  BY <1>2
<1>8. n \in Int /\ at + n <= StageSize /\ n <= Len(piece)
  BY <1>5, <1>7 DEF Fitting
<1> HIDE DEF n
<1>9. pos' \in 0 .. StageSize
  BY <1>3, <1>5, <1>6, <1>8
<1>10. stage' \in [1 .. StageSize -> Byte]
  <2>1. ASSUME NEW p \in 1 .. StageSize
        PROVE  (IF p \in at + 1 .. at + n THEN piece[p - at] ELSE stage[p]) \in Byte
    <3>1. CASE p \in at + 1 .. at + n
      <4>1. p - at \in 1 .. Len(piece)
        BY <3>1, <1>5, <1>7, <1>8
      <4>2. piece[p - at] \in Byte
        BY <4>1, <1>2, ElementOfSeq
      <4> QED
        BY <3>1, <4>2
    <3>2. CASE p \notin at + 1 .. at + n
      BY <3>2, <1>6
    <3> QED
      BY <3>1, <3>2
  <2> QED
    BY <2>1, <1>3
<1> QED
  BY <1>4, <1>9, <1>10 DEF SinkTyped

(* So does every step: position and buffer keep their bounds.              *)
LEMMA SinkStep ==
  ASSUME SinkTyped, SinkNext
  PROVE  SinkTyped'
<1>1. /\ stage \in [1 .. StageSize -> Byte] /\ pos \in 0 .. StageSize
      /\ \A c \in Contexts : Calling(call[c])
      /\ 0 \in 0 .. StageSize
  BY SinkAssumption DEF SinkTyped
<1>2. ASSUME NEW c \in Contexts, NEW m \in Messages, Acquire(c, m)
      PROVE  SinkTyped'
  <2>1. m \in Seq(Seq(Byte))
    BY SinkAssumption
  <2> DEFINE pc == IF active THEN "write" ELSE "reset"
             own == FlattenSeq(m)
             alone == ~active
             new == [Idle EXCEPT !.pc = pc, !.left = m, !.own = own, !.alone = alone]
  <2>2. Becomes(c, new) /\ stage' = stage /\ pos' = pos
    BY <1>2 DEF Acquire
  <2>3. pc # "copy"
    OBVIOUS
  <2>4. Calling(new)
    <3> HIDE DEF pc, own, alone
    <3> QED
      BY <2>1, <2>3, CallingFresh
  <2> HIDE DEF new
  <2>5. \A d \in Contexts : Calling(call'[d])
    BY <1>1, <2>2, <2>4, BecomesIs
  <2> QED
    BY <1>1, <2>2, <2>5 DEF SinkTyped
<1>3. ASSUME NEW c \in Contexts, NEW pc, pc = "copy" => call[c].left # <<>>,
             NEW at \in 0 .. StageSize,
             Becomes(c, [call[c] EXCEPT !.pc = pc])
               \/ Becomes(c, [call[c] EXCEPT !.pc = pc, !.at = at])
      PROVE  \A d \in Contexts : Calling(call'[d])
  <2> DEFINE r == call[c]
  <2>1. Calling(r) /\ (pc = "copy" => r.left # <<>>)
    BY <1>1, <1>3
  <2>2. \/ Becomes(c, [r EXCEPT !.pc = pc])
        \/ Becomes(c, [r EXCEPT !.pc = pc, !.at = at])
    BY <1>3
  <2> HIDE DEF r
  <2>3. /\ Calling([r EXCEPT !.pc = pc])
        /\ Calling([r EXCEPT !.pc = pc, !.at = at])
    BY <2>1, CallingIs
  <2> QED
    BY <1>1, <2>2, <2>3, BecomesIs
<1>4. ASSUME NEW c \in Contexts, Reset(c) PROVE SinkTyped'
  <2>1. \A d \in Contexts : Calling(call'[d])
    BY <1>1, <1>3, <1>4 DEF Reset
  <2> QED
    BY <1>1, <1>4, <2>1 DEF Reset, SinkTyped
<1>5. ASSUME NEW c \in Contexts, WriteBegin(c) PROVE SinkTyped'
  <2>1. \A d \in Contexts : Calling(call'[d])
    BY <1>1, <1>3, <1>5 DEF WriteBegin
  <2> QED
    BY <1>1, <1>5, <2>1 DEF WriteBegin, SinkTyped
<1>6. ASSUME NEW c \in Contexts, Copy(c) PROVE SinkTyped'
  BY <1>6, CopyStep
<1>7. ASSUME NEW c \in Contexts, FlushBegin(c) PROVE SinkTyped'
  <2>1. \A d \in Contexts : Calling(call'[d])
    BY <1>1, <1>3, <1>7 DEF FlushBegin
  <2> QED
    BY <1>1, <1>7, <2>1 DEF FlushBegin, SinkTyped
<1>8. ASSUME NEW c \in Contexts, NEW t \in Ticks, Flush(c, t) PROVE SinkTyped'
  <2>1. Becomes(c, [call[c] EXCEPT !.pc = "release"]) /\ stage' = stage /\ pos' = pos
    BY <1>8 DEF Flush
  <2>2. \A d \in Contexts : Calling(call'[d])
    BY <1>1, <1>3, <2>1
  <2> QED
    BY <1>1, <2>1, <2>2 DEF SinkTyped
<1>9. ASSUME NEW c \in Contexts, Release(c) PROVE SinkTyped'
  <2>1. Calling(Idle)
    BY <1>1 DEF Calling, Fields, Idle
  <2>2. Becomes(c, Idle) /\ stage' = stage /\ pos' = pos
    BY <1>9 DEF Release
  <2>3. \A d \in Contexts : Calling(call'[d])
    BY <1>1, <2>1, <2>2, BecomesIs
  <2> QED
    BY <1>1, <2>2, <2>3 DEF SinkTyped
<1>10. ASSUME UNCHANGED sinkVars PROVE SinkTyped'
  BY <1>1, <1>10 DEF sinkVars, SinkTyped
<1>11. ASSUME (\E f \in Direct : WriteDirect(f)) \/ ClearTrace PROVE SinkTyped'
  <2>1. UNCHANGED sinkVars
    BY <1>11 DEF WriteDirect, ClearTrace
  <2> QED
    BY <2>1, <1>10
<1> QED
  BY <1>2, <1>4, <1>5, <1>6, <1>7, <1>8, <1>9, <1>11 DEF SinkNext

SinkInv == RingInv /\ SinkTyped

(* The logger starts with its invariant.                                   *)
LEMMA SinkStart == SinkInit => SinkInv
<1> SUFFICES ASSUME SinkInit PROVE SinkInv
  OBVIOUS
<1>1. RingInv
  BY RingStart DEF SinkInit
<1>2. 0 \in Byte /\ 0 \in 0 .. StageSize
  BY RingAssumption, SinkAssumption
<1>3. Calling(Idle)
  BY <1>2 DEF Calling, Fields, Idle
<1>4. SinkTyped
  BY <1>2, <1>3 DEF SinkInit, SinkTyped
<1> QED
  BY <1>1, <1>4 DEF SinkInv

(* Every step of the logger, the handler, the application and the upload   *)
(* session keeps it.                                                       *)
LEMMA SinkKeeps == SinkInv /\ [SinkNext]_traceVars => SinkInv'
<1> SUFFICES ASSUME SinkInv, [SinkNext]_traceVars PROVE SinkInv'
  OBVIOUS
<1>1. ASSUME UNCHANGED ringVars PROVE RingInv'
  <2>1. ring' = ring /\ kept' = kept /\ gone' = gone /\ plain' = plain
    BY <1>1 DEF ringVars
  <2> QED
    BY <2>1 DEF SinkInv, RingInv, RingTyped, Chained, Holding, Counted, At, End
<1>2. ASSUME NEW c \in Contexts, NEW t \in Ticks, Flush(c, t) PROVE RingInv'
  <2>1. CASE call[c].at > 0
    <3> DEFINE f == [level |-> Level, ticks |-> t, payload |-> Staged(call[c].at)]
    <3>1. call[c].at \in 0 .. StageSize /\ SinkTyped
      BY DEF SinkInv, SinkTyped, Calling
    <3>2. Staged(call[c].at) \in Seq(Byte)
      BY <3>1, StagedAre DEF SinkTyped
    <3>3. Level \in Byte /\ t \in [1 .. TickBytes -> Byte]
      BY SinkAssumption
    <3>4. f \in Frame
      BY <3>2, <3>3 DEF Frame
    <3>5. WriteFrame(f)
      BY <1>2, <2>1 DEF Flush
    <3> HIDE DEF f
    <3> QED
      BY <3>4, <3>5, WriteStep DEF SinkInv
  <2>2. CASE ~ (call[c].at > 0)
    BY <1>1, <1>2, <2>2 DEF Flush
  <2> QED
    BY <2>1, <2>2
<1>3. ASSUME NEW f \in Direct, WriteDirect(f) PROVE RingInv'
  <2>1. f \in Frame
    BY SinkAssumption
  <2> QED
    BY <2>1, <1>3, WriteStep DEF WriteDirect, SinkInv
<1>4. ASSUME ClearTrace PROVE RingInv'
  BY <1>4, ClearStep DEF ClearTrace, SinkInv
<1>5. CASE SinkNext
  <2>1. SinkTyped'
    BY <1>5, SinkStep DEF SinkInv
  <2>2. ASSUME NEW c \in Contexts,
               \/ \E m \in Messages : Acquire(c, m)
               \/ Reset(c) \/ WriteBegin(c) \/ Copy(c) \/ FlushBegin(c) \/ Release(c)
        PROVE  RingInv'
    <3>1. UNCHANGED ringVars
      BY <2>2 DEF Acquire, Reset, WriteBegin, Copy, FlushBegin, Release
    <3> QED
      BY <3>1, <1>1
  <2>3. RingInv'
    BY <1>5, <2>2, <1>2, <1>3, <1>4 DEF SinkNext
  <2> QED
    BY <2>1, <2>3 DEF SinkInv
<1>6. CASE UNCHANGED traceVars
  <2>1. UNCHANGED ringVars /\ UNCHANGED sinkVars
    BY <1>6 DEF traceVars
  <2>2. SinkTyped'
    BY <2>1 DEF sinkVars, SinkInv, SinkTyped
  <2> QED
    BY <2>1, <2>2, <1>1 DEF SinkInv
<1> QED
  BY <1>5, <1>6

-----------------------------------------------------------------------------
(* DefmtSink: reading the ring *)

(* One round of iter_frames: the frame at i, and what f reads after it.    *)
ReadAt(f, i) ==
  LET len  == At(ring, i + Header - 1)
      next == i + Header + len + 1
  IN  IF i + Header + 1 > ring.used \/ next > ring.used THEN <<>>
      ELSE <<[level |-> At(ring, i),
              ticks |-> [t \in 1 .. TickBytes |-> At(ring, i + t)]]>>
           \o f[next]

(* What is read is a number.                                               *)
LEMMA AtIn ==
  ASSUME RingTyped, NEW i \in 0 .. N - 1
  PROVE  At(ring, i) \in Nat
<1>1. PICK p \in 0 .. N - 1 : At(ring, i) = ring.buf[p]
  BY AtIs
<1>2. ring.buf \in [0 .. N - 1 -> Byte] /\ Byte \subseteq Nat
  BY RingAssumption DEF RingTyped
<1> QED
  BY <1>1, <1>2

(* What is read from i on depends only on what is read from later places.  *)
LEMMA ReadLater ==
  ASSUME RingTyped, NEW i \in 0 .. ring.used, NEW f, NEW g,
         \A j \in i + 1 .. ring.used : f[j] = g[j]
  PROVE  ReadAt(f, i) = ReadAt(g, i)
<1>1. Header \in Nat /\ ring.used \in Nat /\ ring.used <= N /\ N \in Nat
  BY RingAssumption, CutsAre DEF Header
<1>2. CASE i + Header + 1 > ring.used
  BY <1>2 DEF ReadAt
<1>3. CASE ~ (i + Header + 1 > ring.used)
  <2> DEFINE len == At(ring, i + Header - 1)  next == i + Header + len + 1
  <2>1. i + Header - 1 \in 0 .. N - 1
    <3>1. Header >= 2
      BY RingAssumption DEF Header
    <3> QED
      BY <3>1, <1>1, <1>3
  <2>2. len \in Nat
    BY <2>1, AtIn
  <2>3. next > ring.used \/ next \in i + 1 .. ring.used
    <3> HIDE DEF len
    <3> QED
      BY <2>2, <1>1
  <2> QED
    BY <2>3, <1>3 DEF ReadAt
<1> QED
  BY <1>2, <1>3

(* The recursion of iter_frames has a solution.  It is built from the last *)
(* place down, one place at a time.                                        *)
LEMMA FramesOfIs ==
  ASSUME RingTyped
  PROVE  \E from : /\ FramesOf(ring) = from[0]
                   /\ \A i \in 0 .. ring.used : from[i] = ReadAt(from, i)
<1> DEFINE D == 0 .. ring.used
           top == ring.used
           Solves(f, i) == \A j \in i .. top : f[j] = ReadAt(f, j)
           Good == {x \in 1 .. top + 2 :
                      \E f : f = [k \in D |-> f[k]] /\ Solves(f, x - 1)}
<1>1. top \in Nat
  BY CutsAre
<1>2. ASSUME NEW x \in 1 .. top + 2, \A y \in x + 1 .. top + 2 : y \in Good
      PROVE  x \in Good
  <2>1. CASE x = top + 2
    <3> DEFINE f == [k \in D |-> 0]
    <3>1. f = [k \in D |-> f[k]] /\ Solves(f, x - 1)
      BY <2>1, <1>1
    <3> HIDE DEF f, Solves
    <3> QED
      BY <3>1
  <2>2. CASE x \in 1 .. top + 1
    <3> DEFINE i == x - 1
    <3>0. i \in D /\ i + 1 = x /\ x + 1 \in 1 .. top + 2 /\ x + 1 - 1 = i + 1
      BY <2>2, <1>1
    <3>1. x + 1 \in Good
      BY <1>1, <1>2, <2>2
    <3>2. PICK f : f = [k \in D |-> f[k]] /\ Solves(f, i + 1)
      BY <3>0, <3>1
    <3> HIDE DEF i
    <3> DEFINE g == [k \in D |-> IF k = i THEN ReadAt(f, i) ELSE f[k]]
    <3>3. \A k \in D : k # i => g[k] = f[k]
      OBVIOUS
    <3>4. g[i] = ReadAt(f, i)
      BY <3>0
    <3>5. \A j \in i .. top : ReadAt(g, j) = ReadAt(f, j)
      <4>1. SUFFICES ASSUME NEW j \in i .. top
                     PROVE  ReadAt(g, j) = ReadAt(f, j)
        OBVIOUS
      <4>2. j \in 0 .. ring.used
        BY <3>0, <1>1
      <4>3. \A k \in j + 1 .. ring.used : g[k] = f[k]
        BY <3>0, <3>3, <4>2, <1>1
      <4> HIDE DEF g
      <4> QED
        BY <4>2, <4>3, ReadLater
    <3>6. Solves(g, i)
      <4>1. SUFFICES ASSUME NEW j \in i .. top PROVE g[j] = ReadAt(g, j)
        OBVIOUS
      <4>2. CASE j = i
        BY <3>4, <3>5, <4>2
      <4>3. CASE j # i
        <5>1. j \in i + 1 .. top /\ j \in D
          BY <4>3, <3>0, <1>1
        <5>2. f[j] = ReadAt(f, j)
          BY <5>1, <3>2
        <5> HIDE DEF g
        <5> QED
          BY <5>1, <5>2, <3>3, <3>5, <4>3
      <4> QED
        BY <4>2, <4>3
    <3>7. g = [k \in D |-> g[k]]
      OBVIOUS
    <3> HIDE DEF g, Solves
    <3>8. Solves(g, x - 1)
      BY <3>6 DEF i
    <3> QED
      BY <3>7, <3>8
  <2> QED
    BY <2>1, <2>2, <1>1
<1>3. 1 \in Good
  <2>1. top + 2 \in Nat /\ 1 \in 1 .. top + 2
    BY <1>1
  <2> HIDE DEF Good
  <2>2. \A i \in 1 .. top + 2 :
          (\A j \in i + 1 .. top + 2 : j \in Good) => i \in Good
    BY <1>2
  <2> HIDE DEF top
  <2> QED
    BY <2>1, <2>2, DownTo
<1>4. PICK f : f = [k \in D |-> f[k]] /\ Solves(f, 0)
  BY <1>3
<1>5. f = [i \in D |-> ReadAt(f, i)]
  BY <1>4
<1> DEFINE from == CHOOSE h : h = [i \in D |-> ReadAt(h, i)]
<1>6. from = [i \in D |-> ReadAt(from, i)]
  <2> HIDE DEF D
  <2> QED
    BY <1>5
<1>7. FramesOf(ring) = from[0]
  BY DEF FramesOf, ReadAt
<1> HIDE DEF from
<1> QED
  BY <1>6, <1>7

(* One element and the ones after it.                                      *)
LEMMA ConsIs ==
  ASSUME NEW b, NEW n \in Nat, NEW j \in 1 .. n
  PROVE  <<b[j]>> \o [k \in 1 .. n - j |-> b[j + k]]
           = [k \in 1 .. n - j + 1 |-> b[j + k - 1]]
<1> DEFINE S == {b[k] : k \in 1 .. n}
           s == <<b[j]>>  t == [k \in 1 .. n - j |-> b[j + k]]
           u == [k \in 1 .. n - j + 1 |-> b[j + k - 1]]
<1>1. n - j \in Nat
  OBVIOUS
<1>2. s \in Seq(S) /\ Len(s) = 1 /\ s[1] = b[j]
  OBVIOUS
<1>3. t \in Seq(S) /\ Len(t) = n - j
  <2>1. \A k \in 1 .. n - j : b[j + k] \in S
    OBVIOUS
  <2> HIDE DEF S
  <2> QED
    BY <2>1, <1>1
<1>4. u \in Seq(S) /\ Len(u) = n - j + 1
  <2>1. \A k \in 1 .. n - j + 1 : b[j + k - 1] \in S
    OBVIOUS
  <2> HIDE DEF S
  <2> QED
    BY <2>1, <1>1
<1>5. /\ s \o t \in Seq(S) /\ Len(s \o t) = Len(s) + Len(t)
      /\ \A i \in 1 .. Len(s) : (s \o t)[i] = s[i]
      /\ \A i \in Len(s) + 1 .. Len(s) + Len(t) :
           (s \o t)[i] = t[i - Len(s)] /\ i - Len(s) \in 1 .. Len(t)
  <2> HIDE DEF s, t, S
  <2> QED
    BY <1>2, <1>3, JoinIs, ZenonT(40)
<1>6. ASSUME NEW i \in 1 .. n - j + 1 PROVE (s \o t)[i] = u[i]
  <2>1. u[i] = b[j + i - 1]
    OBVIOUS
  <2>2. CASE i = 1
    <3>1. j + 1 - 1 = j
      OBVIOUS
    <3> HIDE DEF s, t, u
    <3> QED
      BY <2>1, <2>2, <3>1, <1>2, <1>5
  <2>3. CASE i # 1
    <3>1. i - 1 \in 1 .. n - j /\ j + (i - 1) = j + i - 1
      BY <2>3
    <3>2. t[i - 1] = b[j + (i - 1)]
      BY <3>1
    <3>3. i \in Len(s) + 1 .. Len(s) + Len(t)
      BY <2>3, <1>2, <1>3
    <3> HIDE DEF s, t, u
    <3> QED
      BY <2>1, <3>1, <3>2, <3>3, <1>2, <1>5
  <2> QED
    BY <2>2, <2>3
<1>7. Len(s \o t) = n - j + 1
  <2> HIDE DEF s, t
  <2> QED
    BY <1>1, <1>2, <1>3, <1>5
<1> HIDE DEF s, t, u, S
<1>8. s \o t = u
  BY <1>4, <1>5, <1>6, <1>7, SeqEqual
<1> QED
  BY <1>8 DEF s, t, u

(* The reader at the beginning of the j-th frame finds it.                 *)
LEMMA ReadsFrame ==
  ASSUME RingInv, NEW j \in 1 .. Len(kept), kept[j].at >= 0, NEW f
  PROVE  /\ kept[j].at \in 0 .. ring.used /\ End(kept[j]) \in 0 .. ring.used
         /\ ReadAt(f, kept[j].at)
              = <<[level |-> kept[j].frame.level, ticks |-> kept[j].frame.ticks]>>
                \o f[End(kept[j])]
<1> DEFINE a == kept[j].at  g == kept[j].frame  z == Size(g)  e == End(kept[j])
           len == At(ring, a + Header - 1)
<1>1. /\ g \in Frame /\ a \in Int /\ z \in Nat /\ e = a + z /\ j \in DOMAIN kept
  BY KeptIs DEF RingInv
<1>2. e \in 1 .. ring.used /\ ring.used \in Nat
  BY <1>1, CutsAre DEF RingInv, Chained
<1>3. a >= 0
  OBVIOUS
<1>4. \A k \in 1 .. z : a + k > 0 => At(ring, a + k - 1) = Bytes(g)[k]
  BY <1>1 DEF RingInv, Holding
<1>5. /\ z = Header + Len(g.payload) + 1
      /\ Len(g.payload) \in Nat /\ Header \in Nat /\ Header >= 2
      /\ Bytes(g)[1] = g.level
      /\ \A t \in 1 .. TickBytes : Bytes(g)[1 + t] = g.ticks[t]
      /\ Bytes(g)[Header] = Len(g.payload)
  BY <1>1, BytesAre
<1>6. TickBytes \in Nat /\ Header = 2 + TickBytes
  BY RingAssumption DEF Header
<1>7. g.ticks \in [1 .. TickBytes -> Byte]
  BY <1>1 DEF Frame
<1> HIDE DEF a, g, z, e
<1>8. len = Len(g.payload)
  <2>1. Header \in 1 .. z /\ a + Header > 0
    BY <1>1, <1>3, <1>5, SMTT(20)
  <2> QED
    BY <2>1, <1>4, <1>5
<1>9. At(ring, a) = g.level
  <2>1. 1 \in 1 .. z /\ a + 1 > 0 /\ a + 1 - 1 = a
    BY <1>1, <1>3, <1>5
  <2> QED
    BY <2>1, <1>4, <1>5
<1>14. \E l \in Nat : l = len /\ z = Header + l + 1
  <2>1. Len(g.payload) \in Nat /\ z = Header + Len(g.payload) + 1
    BY <1>5
  <2> HIDE DEF len
  <2> QED
    BY <2>1, <1>8
<1>10. [t \in 1 .. TickBytes |-> At(ring, a + t)] = g.ticks
  <2>1. ASSUME NEW t \in 1 .. TickBytes PROVE At(ring, a + t) = g.ticks[t]
    <3>1. 1 + t \in 1 .. z /\ a + (1 + t) > 0 /\ a + (1 + t) - 1 = a + t
      <4>1. z \in Int /\ z >= TickBytes + 1 /\ a \in Nat /\ TickBytes \in Nat
        BY <1>14, <1>1, <1>3, <1>6
      <4> QED
        BY <4>1
    <3>2. At(ring, a + (1 + t) - 1) = Bytes(g)[1 + t]
      BY <3>1, <1>4
    <3> QED
      BY <3>1, <3>2, <1>5
  <2> QED
    BY <2>1, <1>7
<1> HIDE DEF len
<1>11. a + Header + len + 1 = e /\ ~ (a + Header + 1 > ring.used) /\ ~ (e > ring.used)
  <2>1. PICK l \in Nat : l = len /\ z = Header + l + 1
    BY <1>14
  <2>2. Header \in Nat /\ a \in Int /\ e = a + z /\ e \in 1 .. ring.used
        /\ ring.used \in Nat
    BY <1>1, <1>2, <1>6
  <2> DEFINE h == Header  u == ring.used
  <2>3. /\ h \in Nat /\ e = a + (h + l + 1) /\ e \in 1 .. u /\ u \in Nat
    BY <2>1, <2>2
  <2> HIDE DEF h, u
  <2>4. a + h + l + 1 = e /\ ~ (a + h + 1 > u) /\ ~ (e > u)
    BY <2>2, <2>3
  <2> QED
    BY <2>1, <2>4 DEF h, u
<1>12. ReadAt(f, a) = <<[level |-> g.level, ticks |-> g.ticks]>> \o f[e]
  BY <1>9, <1>10, <1>11 DEF ReadAt, len
<1>13. a \in 0 .. ring.used /\ e \in 0 .. ring.used
  BY <1>1, <1>2, <1>3
<1> QED
  BY <1>12, <1>13 DEF a, g, e

(* iter_frames gives the frames of the ring.                               *)
LEMMA ReadsAll ==
  ASSUME RingInv
  PROVE  ReadsWhole
<1> SUFFICES ASSUME \A i \in DOMAIN kept : kept[i].at >= 0
             PROVE  FramesOf(ring) = [i \in DOMAIN kept |->
                                        [level |-> kept[i].frame.level,
                                         ticks |-> kept[i].frame.ticks]]
  BY DEF ReadsWhole
<1> DEFINE n == Len(kept)
           b == [i \in DOMAIN kept |-> [level |-> kept[i].frame.level,
                                        ticks |-> kept[i].frame.ticks]]
           tail(j) == [k \in 1 .. n - j + 1 |-> b[j + k - 1]]
<1>1. n \in Nat /\ DOMAIN kept = 1 .. n
  BY KeptIs DEF RingInv
<1>2. PICK from : /\ FramesOf(ring) = from[0]
                  /\ \A i \in 0 .. ring.used : from[i] = ReadAt(from, i)
  BY FramesOfIs DEF RingInv
<1>3. ring.used \in Nat /\ Header \in Nat
  BY CutsAre, RingAssumption DEF RingInv, Header
<1>4. from[ring.used] = <<>>
  <2>1. from[ring.used] = ReadAt(from, ring.used)
    BY <1>2, <1>3
  <2>2. ring.used + Header + 1 > ring.used
    BY <1>3
  <2> QED
    BY <2>1, <2>2 DEF ReadAt
<1> DEFINE Good == {j \in 1 .. n : from[kept[j].at] = tail(j)}
<1>5. ASSUME NEW j \in 1 .. n, \A i \in j + 1 .. n : i \in Good
      PROVE  j \in Good
  <2>1. /\ kept[j].at \in 0 .. ring.used
        /\ ReadAt(from, kept[j].at) = <<b[j]>> \o from[End(kept[j])]
    <3>1. kept[j].at >= 0
      BY <1>1
    <3>2. b[j] = [level |-> kept[j].frame.level, ticks |-> kept[j].frame.ticks]
      BY <1>1
    <3> HIDE DEF b
    <3> QED
      BY <3>1, <3>2, ReadsFrame
  <2>2. from[kept[j].at] = <<b[j]>> \o from[End(kept[j])]
    <3> HIDE DEF b
    <3> QED
      BY <2>1, <1>2
  <2>3. from[End(kept[j])] = [k \in 1 .. n - j |-> b[j + k]]
    <3>1. CASE j = n
      <4>1. kept # <<>>
        BY <3>1, <1>1
      <4>2. End(kept[j]) = ring.used
        BY <3>1, <4>1 DEF RingInv, Chained
      <4>3. 1 .. n - j = {}
        BY <3>1, <1>1
      <4>4. [k \in 1 .. n - j |-> b[j + k]] = <<>>
        <5> DEFINE w == [k \in 1 .. n - j |-> b[j + k]]
        <5>1. n - j = 0
          BY <3>1, <1>1
        <5> HIDE DEF b, n
        <5>2. w \in [1 .. 0 -> {0}]
          BY <4>3, <5>1
        <5> HIDE DEF w
        <5>3. w \in Seq({0}) /\ Len(w) = 0
          BY <5>2
        <5>4. w = <<>>
          BY <5>3, EmptySeq
        <5> QED
          BY <5>4 DEF w
      <4> HIDE DEF b
      <4> QED
        BY <4>2, <4>4, <1>4
    <3>2. CASE j # n
      <4>1. j + 1 \in 1 .. n /\ j + 1 \in j + 1 .. n /\ j + 1 > 1 /\ j + 1 - 1 = j
        <5> HIDE DEF b, tail, n, Good
        <5> QED
          BY <3>2, <1>1
      <4>2. kept[j + 1].at = End(kept[j])
        BY <4>1, <1>1 DEF RingInv, Chained
      <4>3. from[kept[j + 1].at] = tail(j + 1)
        BY <4>1, <1>5
      <4>4. tail(j + 1) = [k \in 1 .. n - j |-> b[j + k]]
        <5> HIDE DEF b, n
        <5>1. n - (j + 1) + 1 = n - j
          BY <1>1
        <5>2. \A k \in 1 .. n - j : (j + 1) + k - 1 = j + k
          BY <1>1
        <5> QED
          BY <5>1, <5>2
      <4> HIDE DEF tail, b
      <4> QED
        BY <4>2, <4>3, <4>4
    <3> QED
      BY <3>1, <3>2
  <2>4. <<b[j]>> \o [k \in 1 .. n - j |-> b[j + k]] = tail(j)
    <3> HIDE DEF b, n
    <3>1. <<b[j]>> \o [k \in 1 .. n - j |-> b[j + k]]
            = [k \in 1 .. n - j + 1 |-> b[j + k - 1]]
      BY <1>1, ConsIs
    <3> QED
      BY <3>1
  <2> HIDE DEF b, tail
  <2> QED
    BY <2>2, <2>3, <2>4
<1>6. \A j \in 1 .. n : j \in Good
  <2> HIDE DEF Good, n
  <2> QED
    BY <1>1, <1>5, DownTo
<1>7. CASE n = 0
  <2>1. kept = <<>>
    BY <1>7, EmptySeq DEF RingInv, RingTyped
  <2>2. ring.used = 0
    BY <2>1 DEF RingInv, Chained
  <2>3. b = <<>>
    BY <2>1
  <2> QED
    BY <2>2, <2>3, <1>2, <1>4
<1>8. CASE n # 0
  <2>1. 1 \in 1 .. n /\ kept # <<>>
    BY <1>1, <1>8
  <2>2. kept[1].at = 0
    <3>1. kept[1].at >= 0 /\ kept[1].at <= 0 /\ kept[1].at \in Int
      BY <2>1, <1>1, KeptIs DEF RingInv, Chained
    <3> QED
      BY <3>1
  <2>3. from[0] = tail(1)
    BY <2>1, <2>2, <1>6
  <2>4. tail(1) = b
    <3>1. n - 1 + 1 = n
      BY <1>1
    <3>2. \A k \in 1 .. n : 1 + k - 1 = k
      BY <1>1
    <3>3. b = [k \in 1 .. n |-> b[k]]
      BY <1>1
    <3> HIDE DEF b, n
    <3> QED
      BY <3>1, <3>2, <3>3
  <2> QED
    BY <2>3, <2>4, <1>2
<1> QED
  BY <1>7, <1>8

(* The invariant says what a reader gets.                                  *)
LEMMA InvReads == SinkInv => RingReads
<1> SUFFICES ASSUME SinkInv PROVE RingReads
  OBVIOUS
<1>1. RingInv
  BY DEF SinkInv
<1>2. DOMAIN kept = 1 .. Len(kept) /\ Len(kept) \in Nat
  BY <1>1, KeptIs DEF RingInv
<1>3. ring.used \in 0 .. N /\ ring.used \in Nat
  BY <1>1, CutsAre DEF RingInv, RingTyped
<1>4. kept = <<>> <=> ring.used = 0
  <2>1. ASSUME kept # <<>> PROVE ring.used # 0
    <3>1. Len(kept) \in DOMAIN kept
      BY <2>1, <1>1, <1>2, EmptySeq DEF RingInv, RingTyped
    <3>2. End(kept[Len(kept)]) \in 1 .. ring.used
      BY <3>1, <1>1 DEF RingInv, Chained
    <3> QED
      BY <3>2, <1>3
  <2> QED
    BY <2>1, <1>1 DEF RingInv, Chained
<1>5. RingHolds
  BY <1>1, <1>3, <1>4 DEF RingHolds, RingInv, Chained, Holding
<1>6. LossesCounted
  BY <1>1 DEF LossesCounted, RingInv, Counted
<1> QED
  BY <1>1, <1>5, <1>6, ReadsAll DEF RingReads

(* What the ring holds is what a reader of it gets, and what it does not   *)
(* hold is counted (trace.rs), for a ring of any size, frames of any bytes *)
(* and any interleaving of the thread's and the handler's logging.         *)
THEOREM RingReadsCorrect == SinkSpec => []RingReads
<1>1. SinkInit => SinkInv
  BY SinkStart
<1>2. SinkInv /\ [SinkNext]_traceVars => SinkInv'
  BY SinkKeeps
<1>3. SinkInv => RingReads
  BY InvReads
<1> QED
  BY <1>1, <1>2, <1>3, PTL DEF SinkSpec

-----------------------------------------------------------------------------
(* DefmtSink: what an undisturbed call has staged *)

(* What holds of a number if it does of those before it holds of all.      *)
LEMMA UpTo ==
  ASSUME NEW top \in Nat, NEW Good,
         \A i \in 1 .. top : (\A j \in 1 .. i - 1 : j \in Good) => i \in Good
  PROVE  \A i \in 1 .. top : i \in Good
<1> DEFINE Bad == (1 .. top) \ Good
<1>1. SUFFICES ASSUME Bad # {} PROVE FALSE
  OBVIOUS
<1>2. Bad \in SUBSET Nat
  OBVIOUS
<1>3. PICK m \in Bad : \A n \in Bad : m <= n
  <2> HIDE DEF Bad
  <2> QED
    BY <1>1, <1>2, LeastOfNat
<1>4. \A j \in 1 .. m - 1 : j \in Good
  <2>1. SUFFICES ASSUME NEW j \in 1 .. m - 1, j \notin Good PROVE FALSE
    OBVIOUS
  <2>2. j \in 1 .. top /\ ~ (m <= j)
    OBVIOUS
  <2> QED
    BY <2>1, <2>2, <1>3
<1> QED
  BY <1>3, <1>4

(* flat[k]: the first k pieces put together.                               *)
Flattened(S, pieces, flat) ==
  /\ flat \in [0 .. Len(pieces) -> Seq(S)]
  /\ flat[0] = <<>>
  /\ \A k \in 1 .. Len(pieces) : flat[k] = flat[k - 1] \o pieces[k]

Grown(pieces, f, k) == IF k = 1 THEN pieces[k] ELSE f[k - 1] \o pieces[k]

(* FlattenSeq is defined by recursion: it has a solution.                  *)
LEMMA FlatIs ==
  ASSUME NEW S, NEW pieces \in Seq(Seq(S))
  PROVE  \E flat : /\ Flattened(S, pieces, flat)
                   /\ FlattenSeq(pieces) = flat[Len(pieces)]
<1> DEFINE n == Len(pieces)  D == 1 .. n
<1>1. n \in Nat /\ \A k \in 1 .. n : pieces[k] \in Seq(S)
  BY ElementOfSeq
<1>2. CASE n = 0
  <2> DEFINE flat == [k \in 0 .. 0 |-> <<>>]
  <2>1. FlattenSeq(pieces) = pieces /\ pieces = <<>>
    BY <1>2, EmptySeq DEF FlattenSeq
  <2>2. flat[0] = <<>> /\ flat \in [0 .. 0 -> Seq(S)] /\ 1 .. 0 = {}
    OBVIOUS
  <2> HIDE DEF flat
  <2>3. Flattened(S, pieces, flat)
    BY <1>2, <2>2 DEF Flattened
  <2> QED
    BY <2>1, <2>2, <2>3, <1>2
<1>3. CASE n # 0
  <2> DEFINE Solves(f, k) == \A j \in 1 .. k : f[j] = Grown(pieces, f, j)
             Good == {k \in 1 .. n : \E f : f = [j \in D |-> f[j]] /\ Solves(f, k)}
  <2>1. ASSUME NEW k \in 1 .. n, \A j \in 1 .. k - 1 : j \in Good PROVE k \in Good
    <3>1. PICK f : Solves(f, k - 1)
      <4>1. CASE k = 1
        <5> DEFINE f == [j \in D |-> 0]
        <5>1. Solves(f, 0)
          OBVIOUS
        <5> HIDE DEF f, Solves
        <5> QED
          BY <5>1, <4>1
      <4>2. CASE k # 1
        <5>1. k - 1 \in 1 .. k - 1
          BY <4>2
        <5> QED
          BY <5>1, <2>1
      <4> QED
        BY <4>1, <4>2
    <3> DEFINE g == [j \in D |-> IF j = k THEN Grown(pieces, f, k) ELSE f[j]]
    <3>2. g[k] = Grown(pieces, f, k) /\ \A j \in 1 .. k - 1 : g[j] = f[j]
      BY <1>1
    <3>3. g = [j \in D |-> g[j]]
      OBVIOUS
    <3> HIDE DEF g
    <3>4. \A j \in 1 .. k : Grown(pieces, g, j) = Grown(pieces, f, j)
      <4>1. SUFFICES ASSUME NEW j \in 1 .. k
                     PROVE  Grown(pieces, g, j) = Grown(pieces, f, j)
        OBVIOUS
      <4>2. j = 1 \/ j - 1 \in 1 .. k - 1
        OBVIOUS
      <4> QED
        BY <4>2, <3>2 DEF Grown
    <3>5. Solves(g, k)
      <4>1. SUFFICES ASSUME NEW j \in 1 .. k PROVE g[j] = Grown(pieces, g, j)
        OBVIOUS
      <4>2. j = k \/ j \in 1 .. k - 1
        OBVIOUS
      <4> QED
        BY <4>2, <3>1, <3>2, <3>4
    <3> HIDE DEF Solves
    <3> QED
      BY <3>3, <3>5
  <2>2. n \in Good
    <3>1. n \in 1 .. n
      BY <1>1, <1>3
    <3> HIDE DEF Good, n
    <3>2. \A k \in 1 .. n : k \in Good
      BY <1>1, <2>1, UpTo
    <3> QED
      BY <3>1, <3>2
  <2>3. PICK f : f = [j \in D |-> f[j]] /\ Solves(f, n)
    BY <2>2
  <2>4. f = [j \in D |-> Grown(pieces, f, j)]
    BY <2>3
  <2> DEFINE h == CHOOSE x : x = [j \in D |-> Grown(pieces, x, j)]
  <2>5. h = [j \in D |-> Grown(pieces, h, j)]
    <3> HIDE DEF D
    <3> QED
      BY <2>4
  <2>6. FlattenSeq(pieces) = h[n]
    BY <1>3 DEF FlattenSeq, Grown
  <2> HIDE DEF h
  <2>7. \A j \in 1 .. n : h[j] = Grown(pieces, h, j)
    BY <2>5
  <2> DEFINE Typed == {k \in 1 .. n : h[k] \in Seq(S)}
  <2>8. ASSUME NEW k \in 1 .. n, \A j \in 1 .. k - 1 : j \in Typed PROVE k \in Typed
    <3>1. CASE k = 1
      BY <3>1, <2>7, <1>1 DEF Grown
    <3>2. CASE k # 1
      <4>1. k - 1 \in 1 .. k - 1
        BY <3>2
      <4>2. h[k - 1] \in Seq(S) /\ pieces[k] \in Seq(S)
        BY <4>1, <2>8, <1>1
      <4>3. h[k] = h[k - 1] \o pieces[k]
        BY <3>2, <2>7 DEF Grown
      <4> HIDE DEF n
      <4> QED
        BY <4>2, <4>3, ConcatProperties
    <3> QED
      BY <3>1, <3>2
  <2>9. \A k \in 1 .. n : k \in Typed
    <3> HIDE DEF Typed, n
    <3> QED
      BY <1>1, <2>8, UpTo
  <2> DEFINE flat == [k \in 0 .. n |-> IF k = 0 THEN <<>> ELSE h[k]]
  <2>10. /\ flat[0] = <<>> /\ \A k \in 1 .. n : flat[k] = h[k]
         /\ flat \in [0 .. n -> Seq(S)]
    <3>1. <<>> \in Seq(S)
      OBVIOUS
    <3>2. \A k \in 1 .. n : k \in 0 .. n /\ k # 0
      BY <1>1
    <3>3. 0 \in 0 .. n /\ \A k \in 0 .. n : k = 0 \/ k \in 1 .. n
      BY <1>1
    <3> HIDE DEF n
    <3> QED
      BY <3>1, <3>2, <3>3, <2>9
  <2> HIDE DEF flat
  <2>11. ASSUME NEW k \in 1 .. n PROVE flat[k] = flat[k - 1] \o pieces[k]
    <3>1. CASE k = 1
      <4>1. flat[k] = pieces[k] /\ pieces[k] \in Seq(S)
        BY <3>1, <2>7, <2>10, <1>1 DEF Grown
      <4>2. <<>> \o pieces[k] = pieces[k]
        <5> DEFINE p == pieces[k]
        <5>1. p \in Seq(S)
          BY <4>1
        <5> HIDE DEF p
        <5>2. <<>> \o p = p
          BY <5>1, ConcatEmptySeq
        <5> QED
          BY <5>2 DEF p
      <4>3. flat[k - 1] = <<>>
        BY <3>1, <2>10
      <4> HIDE DEF n
      <4> QED
        BY <4>1, <4>2, <4>3
    <3>2. CASE k # 1
      <4>1. k - 1 \in 1 .. n
        BY <3>2
      <4> HIDE DEF n
      <4> QED
        BY <3>2, <4>1, <2>7, <2>10 DEF Grown
    <3> QED
      BY <3>1, <3>2
  <2>12. Flattened(S, pieces, flat)
    BY <2>10, <2>11 DEF Flattened
  <2>13. flat[n] = h[n]
    BY <2>10, <1>1, <1>3, SMTT(20)
  <2> HIDE DEF n
  <2> QED
    BY <2>6, <2>12, <2>13 DEF n
<1> QED
  BY <1>2, <1>3

(* As much of a message as the staging buffer takes. *)
Shorter(a, b) == IF a < b THEN a ELSE b
Fit(x) == SubSeq(x, 1, Shorter(Len(x), StageSize))

LEMMA FitIs ==
  ASSUME NEW x \in Seq(Byte)
  PROVE  /\ Fit(x) \in Seq(Byte)
         /\ Len(Fit(x)) = Shorter(Len(x), StageSize)
         /\ Shorter(Len(x), StageSize) \in 0 .. StageSize
         /\ Shorter(Len(x), StageSize) \in 0 .. Len(x)
         /\ \A i \in 1 .. Shorter(Len(x), StageSize) : Fit(x)[i] = x[i]
<1> DEFINE n == Shorter(Len(x), StageSize)
<1>1. Len(x) \in Nat /\ StageSize \in Nat
  BY SinkAssumption
<1>2. n \in 0 .. Len(x) /\ n \in 0 .. StageSize
  BY <1>1 DEF Shorter
<1> HIDE DEF n
<1>3. /\ SubSeq(x, 1, n) \in Seq(Byte) /\ Len(SubSeq(x, 1, n)) = n
      /\ \A i \in 1 .. n : SubSeq(x, 1, n)[i] = x[i]
  BY <1>2, FrontIs
<1> QED
  BY <1>2, <1>3 DEF Fit, n

(* What has been staged is the front of what was written; so it is after   *)
(* another piece.                                                          *)
LEMMA StagesMore ==
  ASSUME stage \in [1 .. StageSize -> Byte], stage' \in [1 .. StageSize -> Byte],
         pos \in 0 .. StageSize, NEW x \in Seq(Byte), NEW y \in Seq(Byte),
         Staged(pos) = Fit(x), NEW n, n = Fitting(y, pos),
         \A p \in 1 .. StageSize :
           stage'[p] = IF p \in pos + 1 .. pos + n THEN y[p - pos] ELSE stage[p],
         pos' = pos + n
  PROVE  Staged(pos)' = Fit(x \o y)
<1> DEFINE lx == Len(x)  ly == Len(y)  S == StageSize  z == x \o y
<1>1. lx \in Nat /\ ly \in Nat /\ S \in Nat /\ pos \in 0 .. S
  BY SinkAssumption
<1>2. /\ z \in Seq(Byte) /\ Len(z) = lx + ly
      /\ \A i \in 1 .. lx : z[i] = x[i]
      /\ \A i \in lx + 1 .. lx + ly : z[i] = y[i - lx] /\ i - lx \in 1 .. ly
  BY JoinIs
<1>3. /\ Len(Staged(pos)) = pos
      /\ \A i \in 1 .. pos : Staged(pos)[i] = stage[i]
  BY StagedAre
<1>4. /\ Len(Fit(x)) = Shorter(lx, S)
      /\ \A i \in 1 .. Shorter(lx, S) : Fit(x)[i] = x[i]
  BY FitIs
<1>5. pos = Shorter(lx, S) /\ \A i \in 1 .. pos : stage[i] = x[i]
  BY <1>3, <1>4
<1>6. n = IF ly < S - pos THEN ly ELSE S - pos
  BY DEF Fitting
<1> HIDE DEF lx, ly, S, z
<1>7. /\ n \in Nat /\ pos + n \in 0 .. S /\ pos + n = Shorter(lx + ly, S)
      /\ pos <= lx
      /\ n > 0 => pos = lx
  BY <1>1, <1>5, <1>6 DEF Shorter
<1>8. /\ Staged(pos)' \in Seq(Byte) /\ Len(Staged(pos)') = pos + n
      /\ \A i \in 1 .. pos + n : Staged(pos)'[i] = stage'[i]
  <2> DEFINE s == [p \in 1 .. S |-> stage'[p]]  m == pos + n
  <2>1. s \in Seq(Byte) /\ Len(s) = S
    BY <1>1 DEF S
  <2>2. m \in 0 .. Len(s) /\ \A i \in 1 .. m : s[i] = stage'[i]
    BY <1>1, <1>7, <2>1
  <2>3. Staged(pos)' = SubSeq(s, 1, m)
    BY DEF Staged, S
  <2> HIDE DEF s, m
  <2>4. /\ SubSeq(s, 1, m) \in Seq(Byte) /\ Len(SubSeq(s, 1, m)) = m
        /\ \A i \in 1 .. m : SubSeq(s, 1, m)[i] = s[i]
    BY <2>1, <2>2, FrontIs
  <2> QED
    BY <2>2, <2>3, <2>4 DEF m
<1>9. /\ Fit(z) \in Seq(Byte) /\ Len(Fit(z)) = pos + n
      /\ \A i \in 1 .. pos + n : Fit(z)[i] = z[i]
  <2>1. /\ Fit(z) \in Seq(Byte)
        /\ Len(Fit(z)) = Shorter(Len(z), StageSize)
        /\ \A i \in 1 .. Shorter(Len(z), StageSize) : Fit(z)[i] = z[i]
    BY <1>2, FitIs
  <2>2. Shorter(Len(z), StageSize) = pos + n
    BY <1>2, <1>7 DEF S
  <2> QED
    BY <2>1, <2>2
<1>10. ASSUME NEW i \in 1 .. pos + n PROVE Staged(pos)'[i] = Fit(z)[i]
  <2>1. i \in 1 .. S
    BY <1>1, <1>7
  <2>2. stage'[i] = IF i \in pos + 1 .. pos + n THEN y[i - pos] ELSE stage[i]
    BY <2>1 DEF S
  <2>3. CASE i <= pos
    <3>1. i \in 1 .. pos /\ i \in 1 .. lx /\ i \notin pos + 1 .. pos + n
      BY <2>3, <1>1, <1>7
    <3> QED
      BY <3>1, <2>2, <1>2, <1>5, <1>8, <1>9
  <2>4. CASE ~ (i <= pos)
    <3>1. i \in pos + 1 .. pos + n /\ pos = lx /\ n <= ly
      BY <2>4, <1>1, <1>6, <1>7
    <3>2. i \in lx + 1 .. lx + ly
      BY <3>1, <1>1, <1>7
    <3> QED
      BY <3>1, <3>2, <2>2, <1>2, <1>8, <1>9
  <2> QED
    BY <2>3, <2>4
<1>11. Staged(pos)' = Fit(z)
  <2> DEFINE s == Staged(pos)'  t == Fit(z)
  <2>1. s \in Seq(Byte) /\ t \in Seq(Byte) /\ Len(s) = Len(t)
        /\ \A i \in 1 .. Len(s) : s[i] = t[i]
    BY <1>8, <1>9, <1>10
  <2> HIDE DEF s, t
  <2>2. s = t
    BY <2>1, SeqEqual
  <2> QED
    BY <2>2 DEF s, t
<1> QED
  BY <1>11 DEF z

(* A call of which i pieces are staged, while no other context ran.        *)
Tracks(r, at, staged, pieces, flat, i) ==
  /\ Flattened(Byte, pieces, flat)
  /\ r.own = flat[Len(pieces)]
  /\ r.left = SubSeq(pieces, i + 1, Len(pieces))
  /\ r.pc = "reset" => i = 0
  /\ r.pc # "reset" => staged = Fit(flat[i])
  /\ r.pc \in {"copy", "flush"} => r.at = at
  /\ r.pc = "flush" => i = Len(pieces)

Staging(r, at, staged) ==
  r.alone /\ r.pc \in {"reset", "write", "copy", "flush"} =>
    \E pieces \in Seq(Seq(Byte)) : \E flat : \E i \in 0 .. Len(pieces) :
      Tracks(r, at, staged, pieces, flat, i)

StagingInv == \A c \in Contexts : Staging(call[c], pos, Staged(pos))

(* What a step of one context leaves of the other's call.                  *)
LEMMA OtherDisturbed ==
  ASSUME SinkInv, NEW c \in Contexts, NEW new, Becomes(c, new),
         Staging(new, pos', Staged(pos)')
  PROVE  StagingInv'
<1>1. call' = [d \in Contexts |-> IF d = c THEN new
                                  ELSE [call[d] EXCEPT !.alone = FALSE]]
  BY DEF Becomes
<1>2. SUFFICES ASSUME NEW d \in Contexts
               PROVE  Staging(call'[d], pos', Staged(pos)')
  BY DEF StagingInv
<1>3. CASE d = c
  BY <1>1, <1>3
<1>4. CASE d # c
  <2>1. call'[d] = [call[d] EXCEPT !.alone = FALSE]
    BY <1>1, <1>4
  <2>2. DOMAIN call[d] = Fields
    BY DEF SinkInv, SinkTyped, Calling
  <2>3. ~ call'[d].alone
    BY <2>1, <2>2 DEF Fields
  <2> QED
    BY <2>3 DEF Staging
<1> QED
  BY <1>3, <1>4

(* A step that only moves a call on.                                       *)
Moves(r, new, pc) ==
  /\ new.own = r.own /\ new.left = r.left
  /\ new.alone = r.alone /\ new.pc = pc

LEMMA MovesIs ==
  ASSUME NEW r, DOMAIN r = Fields, NEW pc, NEW at
  PROVE  /\ Moves(r, [r EXCEPT !.pc = pc], pc)
         /\ Moves(r, [r EXCEPT !.pc = pc, !.at = at], pc)
         /\ [r EXCEPT !.pc = pc, !.at = at].at = at
BY DEF Moves, Fields

(* A step that has copied a piece.                                         *)
LEMMA CopiedIs ==
  ASSUME NEW r, DOMAIN r = Fields
  PROVE  /\ Copied(r).own = r.own /\ Copied(r).left = Tail(r.left)
         /\ Copied(r).pc = "write"
         /\ Copied(r).alone = r.alone
BY DEF Copied, Fields

(* A call begins: if the flag was clear, nothing is staged of it.          *)
LEMMA AcquireStages ==
  ASSUME SinkInv, NEW c \in Contexts, NEW m \in Messages, Acquire(c, m)
  PROVE  StagingInv'
<1> DEFINE pc == IF active THEN "write" ELSE "reset"
           alone == ~active
           new == [Idle EXCEPT !.pc = pc, !.left = m, !.own = FlattenSeq(m),
                               !.alone = alone]
<1>1. m \in Seq(Seq(Byte))
  BY SinkAssumption
<1>2. Becomes(c, new) /\ pos' = pos /\ stage' = stage
  BY DEF Acquire
<1>3. Staged(pos)' = Staged(pos)
  BY <1>2 DEF Staged
<1>4. PICK flat : Flattened(Byte, m, flat) /\ FlattenSeq(m) = flat[Len(m)]
  BY <1>1, FlatIs
<1>5. /\ new.pc = pc /\ new.left = m /\ new.own = FlattenSeq(m)
      /\ new.alone = alone
  BY DEF Idle
<1> HIDE DEF new
<1>6. SUFFICES Staging(new, pos', Staged(pos)')
  BY <1>2, OtherDisturbed
<1>7. SUFFICES ASSUME new.alone
               PROVE  \E pieces \in Seq(Seq(Byte)) : \E flat1 :
                        \E i \in 0 .. Len(pieces) :
                          Tracks(new, pos', Staged(pos)', pieces, flat1, i)
  BY DEF Staging
<1>8. m = SubSeq(m, 0 + 1, Len(m))
  <2> DEFINE n == Len(m)
  <2>1. n \in 0 .. Len(m)
    BY <1>1
  <2>2. /\ SubSeq(m, 1, n) \in Seq(Seq(Byte)) /\ Len(SubSeq(m, 1, n)) = n
        /\ \A i \in 1 .. n : SubSeq(m, 1, n)[i] = m[i]
    <3> HIDE DEF n
    <3> QED
      BY <1>1, <2>1, FrontIs
  <2>3. SubSeq(m, 1, n) = m
    BY <1>1, <2>2, SeqEqual
  <2> QED
    BY <2>3
<1>9. new.pc = "reset"
  BY <1>5, <1>7
<1>10. Tracks(new, pos', Staged(pos)', m, flat, 0)
  <2> HIDE DEF pc, alone
  <2> QED
    BY <1>4, <1>5, <1>8, <1>9 DEF Tracks
<1>11. 0 \in 0 .. Len(m)
  BY <1>1
<1> QED
  BY <1>1, <1>10, <1>11

(* It moves on: what is staged stays, or is none as it has to be.          *)
LEMMA MovesStage ==
  ASSUME SinkInv, StagingInv, NEW c \in Contexts, NEW pc, NEW new,
         Becomes(c, new), Moves(call[c], new, pc), stage' = stage,
         call[c].pc \in {"reset", "write"},
         \/ pc = "write" /\ call[c].pc = "reset" /\ pos' = 0
         \/ pc = "copy" /\ call[c].pc = "write" /\ new.at = pos /\ pos' = pos
         \/ /\ pc = "flush" /\ call[c].pc = "write" /\ new.at = pos /\ pos' = pos
            /\ call[c].left = <<>>
  PROVE  StagingInv'
<1> DEFINE r == call[c]
<1>2. /\ new.own = r.own /\ new.left = r.left
      /\ new.pc = pc /\ new.alone = r.alone
  BY DEF Moves
<1>3. Staging(r, pos, Staged(pos))
  BY DEF StagingInv
<1>5. SUFFICES Staging(new, pos', Staged(pos)')
  BY OtherDisturbed
<1>6. SUFFICES ASSUME r.alone
               PROVE  \E pieces \in Seq(Seq(Byte)) : \E flat :
                        \E i \in 0 .. Len(pieces) :
                          Tracks(new, pos', Staged(pos)', pieces, flat, i)
  BY <1>2 DEF Staging
<1>7. PICK pieces \in Seq(Seq(Byte)) : \E flat : \E i \in 0 .. Len(pieces) :
             Tracks(r, pos, Staged(pos), pieces, flat, i)
  BY <1>3, <1>6 DEF Staging
<1>8. PICK flat : \E i \in 0 .. Len(pieces) :
             Tracks(r, pos, Staged(pos), pieces, flat, i)
  BY <1>7
<1>9. PICK i \in 0 .. Len(pieces) : Tracks(r, pos, Staged(pos), pieces, flat, i)
  BY <1>8
<1> HIDE DEF r
<1>10. CASE pc = "write" /\ r.pc = "reset" /\ pos' = 0
  <2>1. i = 0 /\ flat[0] = <<>>
    BY <1>9, <1>10 DEF Tracks, Flattened
  <2>2. Staged(pos)' = Fit(flat[i])
    <3>2. Staged(pos)' = SubSeq([p \in 1 .. StageSize |-> stage[p]], 1, 0)
      BY <1>10 DEF Staged
    <3>3. /\ stage \in [1 .. StageSize -> Byte] /\ 0 \in 0 .. StageSize
          /\ StageSize \in Nat
      BY SinkAssumption DEF SinkInv, SinkTyped
    <3>4. Staged(0) \in Seq(Byte) /\ Len(Staged(0)) = 0
      BY <3>3, StagedAre
    <3>5. Staged(pos)' = Staged(0)
      BY <3>2 DEF Staged
    <3>6. Staged(0) = <<>>
      BY <3>4, EmptySeq
    <3>7. Fit(<<>>) = <<>>
      <4>1. <<>> \in Seq(Byte) /\ Len(<<>>) = 0
        OBVIOUS
      <4>2. Shorter(0, StageSize) = 0
        BY <3>3 DEF Shorter
      <4>3. Fit(<<>>) \in Seq(Byte) /\ Len(Fit(<<>>)) = 0
        BY <4>1, <4>2, FitIs
      <4> QED
        BY <4>3, EmptySeq
    <3> QED
      BY <2>1, <3>5, <3>6, <3>7
  <2>3. Tracks(new, pos', Staged(pos)', pieces, flat, i)
    BY <2>1, <2>2, <1>2, <1>9, <1>10 DEF Tracks
  <2> QED
    BY <2>3
<1>11. CASE pc \in {"copy", "flush"} /\ r.pc = "write" /\ new.at = pos /\ pos' = pos
            /\ (pc = "flush" => r.left = <<>>)
  <2>1. Staged(pos)' = Staged(pos)
    BY <1>11 DEF Staged
  <2>2. pc = "flush" => i = Len(pieces)
    <3>1. SUFFICES ASSUME pc = "flush" PROVE i = Len(pieces)
      OBVIOUS
    <3>2. SubSeq(pieces, i + 1, Len(pieces)) = <<>>
      BY <3>1, <1>9, <1>11 DEF Tracks
    <3> DEFINE a == i + 1  b == Len(pieces)
    <3>3. a \in 1 .. Len(pieces) + 1 /\ b \in a - 1 .. Len(pieces)
      OBVIOUS
    <3> HIDE DEF a, b
    <3>4. Len(SubSeq(pieces, a, b)) = b - a + 1
      BY <3>3, PieceIs
    <3>5. b - a + 1 = 0
      BY <3>2, <3>4 DEF a, b
    <3> QED
      BY <3>3, <3>5 DEF a, b
  <2>3. Tracks(new, pos', Staged(pos)', pieces, flat, i)
    BY <2>1, <2>2, <1>2, <1>9, <1>11 DEF Tracks
  <2> QED
    BY <2>3
<1> QED
  BY <1>10, <1>11 DEF r

(* It copies: one piece more is staged.                                    *)
LEMMA CopyStages ==
  ASSUME SinkInv, StagingInv, NEW c \in Contexts, Copy(c)
  PROVE  StagingInv'
<1> DEFINE r == call[c]
           piece == Head(r.left)
           n == Fitting(piece, r.at)
<1>1. DOMAIN r = Fields /\ r.pc = "copy" /\ r.left # <<>> /\ r.at \in 0 .. StageSize
  BY DEF SinkInv, SinkTyped, Calling, Copy, Runs
<1>2. /\ Becomes(c, Copied(r))
      /\ stage' = [p \in 1 .. StageSize |->
                     IF p \in r.at + 1 .. r.at + n THEN piece[p - r.at] ELSE stage[p]]
      /\ pos' = IF n > 0 THEN r.at + n ELSE pos
  BY DEF Copy, Copied
<1>3. /\ Copied(r).own = r.own /\ Copied(r).left = Tail(r.left)
      /\ Copied(r).pc = "write"
      /\ Copied(r).alone = r.alone
  <2> HIDE DEF r
  <2> QED
    BY <1>1, CopiedIs
<1>4. SUFFICES Staging(Copied(r), pos', Staged(pos)')
  BY <1>2, OtherDisturbed
<1>5. SUFFICES ASSUME r.alone
               PROVE  \E pieces \in Seq(Seq(Byte)) : \E flat :
                        \E i \in 0 .. Len(pieces) :
                          Tracks(Copied(r), pos', Staged(pos)', pieces, flat, i)
  BY <1>3 DEF Staging
<1>6. Staging(r, pos, Staged(pos))
  BY DEF StagingInv
<1>7. PICK pieces \in Seq(Seq(Byte)) : \E flat : \E i \in 0 .. Len(pieces) :
             Tracks(r, pos, Staged(pos), pieces, flat, i)
  BY <1>1, <1>5, <1>6 DEF Staging
<1>8. PICK flat : \E i \in 0 .. Len(pieces) :
             Tracks(r, pos, Staged(pos), pieces, flat, i)
  BY <1>7
<1>9. PICK i \in 0 .. Len(pieces) : Tracks(r, pos, Staged(pos), pieces, flat, i)
  BY <1>8
<1> HIDE DEF r
<1>10. /\ Flattened(Byte, pieces, flat) /\ r.own = flat[Len(pieces)]
       /\ r.left = SubSeq(pieces, i + 1, Len(pieces))
       /\ r.at = pos /\ Staged(pos) = Fit(flat[i])
  BY <1>1, <1>9 DEF Tracks
<1>11. i + 1 \in 1 .. Len(pieces) /\ Len(pieces) \in Nat
  <2>1. Len(pieces) \in Nat
    OBVIOUS
  <2>2. CASE i = Len(pieces)
    <3> DEFINE a == i + 1  b == Len(pieces)
    <3>1. a \in 1 .. Len(pieces) + 1 /\ b \in a - 1 .. Len(pieces) /\ b - a + 1 = 0
      BY <2>1, <2>2
    <3> HIDE DEF a, b
    <3>2. SubSeq(pieces, a, b) \in Seq(Seq(Byte)) /\ Len(SubSeq(pieces, a, b)) = b - a + 1
      BY <3>1, PieceIs
    <3>3. SubSeq(pieces, a, b) = <<>>
      BY <3>1, <3>2, EmptySeq
    <3> QED
      BY <3>3, <1>1, <1>10 DEF a, b
  <2> QED
    BY <2>1, <2>2
<1>12. piece = pieces[i + 1] /\ Tail(r.left) = SubSeq(pieces, (i + 1) + 1, Len(pieces))
  <2> DEFINE a == i + 1  b == Len(pieces)
  <2>1. a \in 1 .. Len(pieces) /\ b \in a .. Len(pieces)
    BY <1>11
  <2>2. r.left = SubSeq(pieces, a, b)
    BY <1>10
  <2> HIDE DEF a, b
  <2>3. /\ Head(SubSeq(pieces, a, b)) = pieces[a]
        /\ Tail(SubSeq(pieces, a, b)) = SubSeq(pieces, a + 1, b)
    BY <2>1, HeadTailOfSubSeq
  <2> QED
    BY <2>2, <2>3 DEF a, b
<1>13. piece \in Seq(Byte)
  BY <1>11, <1>12, ElementOfSeq
<1>14. /\ flat[i] \in Seq(Byte) /\ flat[i + 1] = flat[i] \o piece
  <2> DEFINE j == i + 1
  <2>1. j \in 1 .. Len(pieces) /\ j - 1 = i
    BY <1>11
  <2>2. flat[i] \in Seq(Byte)
    <3>1. flat \in [0 .. Len(pieces) -> Seq(Byte)]
      BY <1>10 DEF Flattened
    <3> QED
      BY <3>1
  <2>3. \A k \in 1 .. Len(pieces) : flat[k] = flat[k - 1] \o pieces[k]
    BY <1>10 DEF Flattened
  <2>4. piece = pieces[j]
    BY <1>12
  <2> HIDE DEF j, piece
  <2>5. flat[j] = flat[i] \o piece
    BY <2>1, <2>3, <2>4
  <2> QED
    BY <2>2, <2>5 DEF j
<1> HIDE DEF piece
<1>15. Staged(pos)' = Fit(flat[i] \o piece)
  <2> DEFINE x == flat[i]
  <2>1. x \in Seq(Byte)
    BY <1>14
  <2>2. /\ stage \in [1 .. StageSize -> Byte] /\ pos \in 0 .. StageSize
        /\ stage' \in [1 .. StageSize -> Byte]
    <3>1. SinkTyped /\ SinkTyped'
      BY CopyStep DEF SinkInv
    <3> QED
      BY <3>1 DEF SinkTyped
  <2>3. n = Fitting(piece, pos) /\ Staged(pos) = Fit(x)
    BY <1>10 DEF piece
  <2>4. \A p \in 1 .. StageSize :
          stage'[p] = IF p \in pos + 1 .. pos + n THEN piece[p - pos] ELSE stage[p]
    BY <1>2, <1>10 DEF piece
  <2>5. pos' = pos + n
    <3>1. StageSize \in Nat /\ Len(piece) \in Nat
      BY <1>13, SinkAssumption
    <3>2. n \in Nat
      BY <2>2, <2>3, <3>1 DEF Fitting
    <3>3. pos' = IF n > 0 THEN pos + n ELSE pos
      <4>1. pos' = IF n > 0 THEN r.at + n ELSE pos
        BY <1>2 DEF piece
      <4> HIDE DEF n
      <4> QED
        BY <4>1, <1>10
    <3> HIDE DEF n
    <3> QED
      BY <3>2, <3>3, <2>2
  <2> HIDE DEF x, n
  <2>6. Staged(pos)' = Fit(x \o piece)
    BY <2>1, <2>2, <2>3, <2>4, <2>5, <1>13, StagesMore
  <2> QED
    BY <2>6 DEF x
<1>16. Tracks(Copied(r), pos', Staged(pos)', pieces, flat, i + 1)
  BY <1>3, <1>10, <1>12, <1>14, <1>15 DEF Tracks
<1>17. i + 1 \in 0 .. Len(pieces)
  BY <1>11
<1> QED
  BY <1>16, <1>17

(* Every step of the logger keeps what is known of undisturbed calls.      *)
LEMMA StagingKeeps == SinkInv /\ StagingInv /\ [SinkNext]_traceVars => StagingInv'
<1> SUFFICES ASSUME SinkInv, StagingInv, [SinkNext]_traceVars PROVE StagingInv'
  OBVIOUS
<1>1. ASSUME NEW c \in Contexts PROVE DOMAIN call[c] = Fields
  BY DEF SinkInv, SinkTyped, Calling
<1>2. ASSUME UNCHANGED sinkVars PROVE StagingInv'
  <2>1. call' = call /\ pos' = pos /\ stage' = stage
    BY <1>2 DEF sinkVars
  <2>2. Staged(pos)' = Staged(pos)
    BY <2>1 DEF Staged
  <2> QED
    BY <2>1, <2>2 DEF StagingInv
<1>3. ASSUME NEW c \in Contexts, Reset(c) PROVE StagingInv'
  <2> DEFINE r == call[c]  new == [r EXCEPT !.pc = "write"]
  <2>1. /\ Becomes(c, new) /\ pos' = 0 /\ stage' = stage /\ r.pc = "reset"
    BY <1>3 DEF Reset, Runs
  <2>2. Moves(r, new, "write")
    <3>1. DOMAIN r = Fields
      BY <1>1
    <3> HIDE DEF r
    <3> QED
      BY <3>1, MovesIs
  <2> HIDE DEF new
  <2> QED
    BY <2>1, <2>2, MovesStage
<1>4. ASSUME NEW c \in Contexts, WriteBegin(c) PROVE StagingInv'
  <2> DEFINE r == call[c]  new == [r EXCEPT !.pc = "copy", !.at = pos]
  <2>1. /\ Becomes(c, new) /\ pos' = pos /\ stage' = stage /\ r.pc = "write"
    BY <1>4 DEF WriteBegin, Runs
  <2>2. Moves(r, new, "copy") /\ new.at = pos
    <3>1. DOMAIN r = Fields
      BY <1>1
    <3> HIDE DEF r
    <3> QED
      BY <3>1, MovesIs
  <2> HIDE DEF new
  <2> QED
    BY <2>1, <2>2, MovesStage
<1>5. ASSUME NEW c \in Contexts, FlushBegin(c) PROVE StagingInv'
  <2> DEFINE r == call[c]  new == [r EXCEPT !.pc = "flush", !.at = pos]
  <2>1. /\ Becomes(c, new) /\ pos' = pos /\ stage' = stage /\ r.pc = "write"
        /\ r.left = <<>>
    BY <1>5 DEF FlushBegin, Runs
  <2>2. Moves(r, new, "flush") /\ new.at = pos
    <3>1. DOMAIN r = Fields
      BY <1>1
    <3> HIDE DEF r
    <3> QED
      BY <3>1, MovesIs
  <2> HIDE DEF new
  <2> QED
    BY <2>1, <2>2, MovesStage
<1>6. ASSUME NEW c \in Contexts, NEW t \in Ticks, Flush(c, t) PROVE StagingInv'
  <2> DEFINE r == call[c]  new == [r EXCEPT !.pc = "release"]
  <2>1. Becomes(c, new)
    BY <1>6 DEF Flush
  <2>2. new.pc = "release"
    BY <1>1 DEF Fields
  <2> HIDE DEF new
  <2>3. Staging(new, pos', Staged(pos)')
    BY <2>2 DEF Staging
  <2> QED
    BY <2>1, <2>3, OtherDisturbed
<1>7. ASSUME NEW c \in Contexts, Release(c) PROVE StagingInv'
  <2>1. Becomes(c, Idle) /\ Idle.pc = "idle"
    BY <1>7 DEF Release, Idle
  <2>2. Staging(Idle, pos', Staged(pos)')
    BY <2>1 DEF Staging
  <2> QED
    BY <2>1, <2>2, OtherDisturbed
<1>8. ASSUME (\E f \in Direct : WriteDirect(f)) \/ ClearTrace PROVE StagingInv'
  <2>1. UNCHANGED sinkVars
    BY <1>8 DEF WriteDirect, ClearTrace
  <2> QED
    BY <2>1, <1>2
<1>9. CASE SinkNext
  BY <1>9, <1>3, <1>4, <1>5, <1>6, <1>7, <1>8, AcquireStages, CopyStages DEF SinkNext
<1>10. CASE UNCHANGED traceVars
  BY <1>10, <1>2 DEF traceVars
<1> QED
  BY <1>9, <1>10

(* At the start there is no call.                                          *)
LEMMA StagingStart == SinkInit => StagingInv
<1> SUFFICES ASSUME SinkInit PROVE StagingInv
  OBVIOUS
<1>1. \A c \in Contexts : call[c].pc = "idle"
  BY DEF SinkInit, Idle
<1> QED
  BY <1>1 DEF StagingInv, Staging

(* What a frame takes of a message that was staged.                        *)
LEMMA CroppedIs ==
  ASSUME NEW x \in Seq(Byte)
  PROVE  SubSeq(Fit(x), 1, IF Len(Fit(x)) < MaxPayload THEN Len(Fit(x))
                                                       ELSE MaxPayload)
           = Cropped(x)
<1> DEFINE y == Fit(x)
           n == IF Len(y) < MaxPayload THEN Len(y) ELSE MaxPayload
           k == IF StageSize < MaxPayload THEN StageSize ELSE MaxPayload
           m == IF Len(x) < k THEN Len(x) ELSE k
<1>1. /\ Len(x) \in Nat /\ StageSize \in Nat /\ MaxPayload \in Nat
      /\ y \in Seq(Byte) /\ Len(y) = Shorter(Len(x), StageSize)
      /\ \A i \in 1 .. Shorter(Len(x), StageSize) : y[i] = x[i]
  BY FitIs, SinkAssumption, RingAssumption
<1> HIDE DEF y
<1>2. /\ n = m /\ n \in 0 .. Len(y) /\ m \in 0 .. Len(x)
      /\ \A i \in 1 .. n : y[i] = x[i]
  BY <1>1 DEF Shorter
<1> HIDE DEF n, m
<1>3. /\ SubSeq(y, 1, n) \in Seq(Byte) /\ Len(SubSeq(y, 1, n)) = n
      /\ \A i \in 1 .. n : SubSeq(y, 1, n)[i] = y[i]
  BY <1>1, <1>2, FrontIs
<1>4. /\ SubSeq(x, 1, m) \in Seq(Byte) /\ Len(SubSeq(x, 1, m)) = m
      /\ \A i \in 1 .. m : SubSeq(x, 1, m)[i] = x[i]
  BY <1>2, FrontIs
<1>5. SubSeq(y, 1, n) = SubSeq(x, 1, m)
  BY <1>2, <1>3, <1>4, SeqEqual
<1> QED
  BY <1>5 DEF Cropped, y, n, m

(* The frame a logging call writes.                                        *)
LEMMA FlushWhole ==
  ASSUME SinkInv, StagingInv, NEW c \in Contexts, NEW t \in Ticks, Flush(c, t),
         call[c].alone
  PROVE  IF call[c].own = <<>> \/ Header + Len(Cropped(call[c].own)) + 1 > N
         THEN kept' = kept
         ELSE kept'[Len(kept')].frame.payload = Cropped(call[c].own)
<1> DEFINE r == call[c]
           bytes == r.own
<1>1. r.pc = "flush"
  BY DEF Flush, Runs
<1>2. PICK pieces \in Seq(Seq(Byte)) : \E flat : \E i \in 0 .. Len(pieces) :
             Tracks(r, pos, Staged(pos), pieces, flat, i)
  BY <1>1 DEF StagingInv, Staging
<1>3. PICK flat : \E i \in 0 .. Len(pieces) :
             Tracks(r, pos, Staged(pos), pieces, flat, i)
  BY <1>2
<1>4. PICK i \in 0 .. Len(pieces) : Tracks(r, pos, Staged(pos), pieces, flat, i)
  BY <1>3
<1>5. bytes \in Seq(Byte) /\ r.at = pos /\ Staged(pos) = Fit(bytes)
  <2> HIDE DEF r
  <2>1. /\ Flattened(Byte, pieces, flat) /\ r.own = flat[Len(pieces)]
        /\ i = Len(pieces)
        /\ r.at = pos /\ Staged(pos) = Fit(flat[i])
    BY <1>1, <1>4 DEF Tracks
  <2>2. Len(pieces) \in 0 .. Len(pieces)
    OBVIOUS
  <2>3. flat[Len(pieces)] \in Seq(Byte)
    <3>1. flat \in [0 .. Len(pieces) -> Seq(Byte)]
      BY <2>1 DEF Flattened
    <3> QED
      BY <2>2, <3>1
  <2> QED
    BY <2>1, <2>3
<1>6. bytes \in Seq(Byte)
  BY <1>5
<1> HIDE DEF bytes
<1>7. /\ Len(Staged(pos)) = pos /\ pos \in 0 .. StageSize /\ StageSize \in Nat \ {0}
  <2>1. stage \in [1 .. StageSize -> Byte] /\ pos \in 0 .. StageSize
    BY DEF SinkInv, SinkTyped
  <2> QED
    BY <2>1, StagedAre, SinkAssumption
<1>8. pos = Shorter(Len(bytes), StageSize) /\ Len(bytes) \in Nat
  BY <1>5, <1>6, <1>7, FitIs
<1>9. CASE pos = 0
  <2>1. bytes = <<>>
    <3>1. Len(bytes) = 0
      BY <1>7, <1>8, <1>9 DEF Shorter
    <3> QED
      BY <3>1, <1>6, EmptySeq
  <2>2. kept' = kept
    <3>1. ~ (call[c].at > 0)
      BY <1>5, <1>9
    <3> QED
      BY <3>1 DEF Flush, ringVars
  <2> QED
    BY <2>1, <2>2 DEF bytes
<1>10. CASE pos # 0
  <2> DEFINE f == [level |-> Level, ticks |-> t, payload |-> Staged(pos)]
  <2>1. bytes # <<>>
    BY <1>8, <1>10, <1>7 DEF Shorter
  <2>2. f \in Frame /\ f.payload = Fit(bytes)
    <3>1. Staged(pos) \in Seq(Byte)
      BY <1>5, <1>6, FitIs
    <3>2. Level \in Byte /\ t \in [1 .. TickBytes -> Byte]
      BY SinkAssumption
    <3> QED
      BY <3>1, <3>2, <1>5 DEF Frame
  <2>3. WriteFrame(f)
    <3>1. call[c].at = pos /\ call[c].at > 0
      BY <1>5, <1>7, <1>10
    <3> QED
      BY <3>1 DEF Flush
  <2> HIDE DEF f
  <2>4. IF Size(Cut(f)) > N THEN kept' = kept ELSE kept'[Len(kept')].frame = Cut(f)
    BY <2>2, <2>3, WriteStep DEF SinkInv
  <2>5. Cut(f).payload = Cropped(bytes)
    <3> DEFINE x == Fit(bytes)
               k == IF Len(x) < MaxPayload THEN Len(x) ELSE MaxPayload
    <3>1. Cut(f).payload = SubSeq(x, 1, k)
      BY <2>2 DEF Cut, Frame
    <3>2. SubSeq(x, 1, k) = Cropped(bytes)
      BY <1>6, CroppedIs
    <3> QED
      BY <3>1, <3>2
  <2>6. Size(Cut(f)) = Header + Len(Cropped(bytes)) + 1
    <3>1. Cut(f) \in Frame
      BY <2>2, CutIs
    <3>2. Size(Cut(f)) = Header + Len(Cut(f).payload) + 1
      <4> DEFINE g == Cut(f)
      <4> HIDE DEF g
      <4> QED
        BY <3>1, BytesAre DEF g
    <3> QED
      BY <3>2, <2>5
  <2> HIDE DEF bytes
  <2>7. IF bytes = <<>> \/ Header + Len(Cropped(bytes)) + 1 > N
        THEN kept' = kept ELSE kept'[Len(kept')].frame.payload = Cropped(bytes)
    BY <2>1, <2>4, <2>5, <2>6
  <2> QED
    BY <2>7 DEF bytes
<1> QED
  BY <1>9, <1>10

(* Only a flush takes a call to its release.                               *)
LEMMA StepWhole ==
  ASSUME SinkInv, StagingInv, [SinkNext]_traceVars
  PROVE  FlushesWhole
<1> SUFFICES ASSUME NEW c \in Contexts,
                    call[c].pc = "flush", call'[c].pc = "release",
                    call[c].alone
             PROVE  IF \/ call[c].own = <<>>
                       \/ Header + Len(Cropped(call[c].own)) + 1 > N
                    THEN kept' = kept
                    ELSE kept'[Len(kept')].frame.payload = Cropped(call[c].own)
  BY DEF FlushesWhole
<1>1. DOMAIN call[c] = Fields
  BY DEF SinkInv, SinkTyped, Calling
<1>2. ASSUME NEW d \in Contexts, NEW new, Becomes(d, new) PROVE d = c
  <2>1. SUFFICES ASSUME d # c PROVE FALSE
    OBVIOUS
  <2>2. call'[c] = [call[c] EXCEPT !.alone = FALSE]
    BY <1>2, <2>1 DEF Becomes
  <2>3. [call[c] EXCEPT !.alone = FALSE].pc = "flush"
    BY <1>1 DEF Fields
  <2> QED
    BY <2>2, <2>3
<1>3. ~ UNCHANGED call
  OBVIOUS
<1>4. PICK d \in Contexts :
         \/ \E m \in Messages : Acquire(d, m)
         \/ Reset(d) \/ WriteBegin(d) \/ Copy(d) \/ FlushBegin(d)
         \/ \E t \in Ticks : Flush(d, t)
         \/ Release(d)
  BY <1>3 DEF SinkNext, traceVars, sinkVars, WriteDirect, ClearTrace
<1>5. d = c
  BY <1>2, <1>4 DEF Acquire, Reset, WriteBegin, Copy, FlushBegin, Flush, Release
<1>6. PICK t \in Ticks : Flush(c, t)
  BY <1>4, <1>5 DEF Acquire, Reset, WriteBegin, Copy, FlushBegin, Release, Runs
<1> QED
  BY <1>6, FlushWhole

(* A message that finds the logger free, and during which no other context *)
(* runs, becomes one frame of its own bytes, as far as they fit            *)
(* (defmt_sink.rs).                                                        *)
THEOREM UndisturbedIsWholeCorrect == SinkSpec => UndisturbedIsWhole
<1>1. SinkInit => SinkInv /\ StagingInv
  BY SinkStart, StagingStart
<1>2. SinkInv /\ StagingInv /\ [SinkNext]_traceVars => (SinkInv /\ StagingInv)'
  BY SinkKeeps, StagingKeeps
<1>3. SinkInv /\ StagingInv /\ [SinkNext]_traceVars => [FlushesWhole]_traceVars
  BY StepWhole
<1> QED
  BY <1>1, <1>2, <1>3, PTL DEF SinkSpec, UndisturbedIsWhole

-----------------------------------------------------------------------------
(* Wire: a recursion climbs *)

(* What holds of 0 and goes on to the next number holds of all.            *)
LEMMA Climbs ==
  ASSUME NEW n \in Nat, NEW Good, 0 \in Good,
         \A k \in 1 .. n : k - 1 \in Good => k \in Good
  PROVE  \A k \in 0 .. n : k \in Good
<1> DEFINE Bad == {k \in 0 .. n : k \notin Good}
<1>1. SUFFICES ASSUME Bad # {} PROVE FALSE
  OBVIOUS
<1>2. Bad \in SUBSET Nat
  OBVIOUS
<1>3. PICK m \in Bad : \A k \in Bad : m <= k
  <2> HIDE DEF Bad
  <2> QED
    BY <1>1, <1>2, LeastOfNat
<1>4. m \in 1 .. n /\ m - 1 \in 0 .. n /\ ~ (m <= m - 1)
  BY <1>3
<1>5. m - 1 \in Good
  BY <1>3, <1>4
<1> QED
  BY <1>3, <1>4, <1>5

-----------------------------------------------------------------------------
(* Wire: sequences put together *)

(* It is the same which of three are put together first.                   *)
LEMMA Regroup ==
  \A S : \A a, b, c \in Seq(S) : (a \o b) \o c = a \o (b \o c)
BY ConcatAssociative

(* A place in the second of two parts.                                     *)
LEMMA Further ==
  ASSUME NEW a \in Nat, NEW b \in Nat
  PROVE  a <= a + b /\ \A i \in 1 .. b : a + i \in 1 .. a + b
OBVIOUS

(* No sequences, one, and two after each other.                            *)
LEMMA FlatNone == FlattenSeq(<<>>) = <<>>
BY DEF FlattenSeq

(* What is put together of sequences over S is one over S.                 *)
LEMMA FlatType ==
  ASSUME NEW S, NEW x \in Seq(Seq(S))
  PROVE  FlattenSeq(x) \in Seq(S)
<1>1. PICK f : Flattened(S, x, f) /\ FlattenSeq(x) = f[Len(x)]
  BY FlatIs
<1>2. Len(x) \in 0 .. Len(x) /\ f \in [0 .. Len(x) -> Seq(S)]
  BY <1>1 DEF Flattened
<1> QED
  BY <1>1, <1>2

(* A single sequence is put together as itself.                            *)
LEMMA FlatOne ==
  ASSUME NEW S, NEW s \in Seq(S)
  PROVE  FlattenSeq(<<s>>) = s
<1>1. <<s>> \in Seq(Seq(S)) /\ Len(<<s>>) = 1 /\ <<s>>[1] = s
  OBVIOUS
<1>2. PICK f : Flattened(S, <<s>>, f) /\ FlattenSeq(<<s>>) = f[Len(<<s>>)]
  BY <1>1, FlatIs
<1>3. f[0] = <<>> /\ \A k \in 1 .. 1 : f[k] = f[k - 1] \o <<s>>[k]
  BY <1>1, <1>2 DEF Flattened
<1>4. f[1] = <<>> \o s
  BY <1>1, <1>3
<1>5. <<>> \o s = s
  BY ConcatEmptySeq
<1> QED
  BY <1>1, <1>2, <1>4, <1>5

(* h puts y together behind the first n of its own, g alone.               *)
Onwards(S, n, m, f, g, h, y) ==
  /\ n \in Nat /\ m \in Nat /\ f \in Seq(S) /\ h[n] = f
  /\ g \in [0 .. m -> Seq(S)] /\ g[0] = <<>>
  /\ \A k \in 1 .. m : y[k] \in Seq(S) /\ g[k] = g[k - 1] \o y[k]
  /\ \A k \in n + 1 .. n + m : h[k] = h[k - 1] \o y[k - n]

(* Putting together goes on behind what has been put together.             *)
LEMMA FlatOnwards ==
  ASSUME NEW S, NEW n, NEW m, NEW f, NEW g, NEW h, NEW y,
         Onwards(S, n, m, f, g, h, y)
  PROVE  h[n + m] = f \o g[m]
<1>0. n \in Nat /\ m \in Nat /\ f \in Seq(S) /\ h[n] = f /\ g[0] = <<>>
  BY DEF Onwards
<1> DEFINE Good == {k \in 0 .. m : h[n + k] = f \o g[k]}
<1>1. 0 \in Good
  <2>1. f \o <<>> = f
    BY <1>0, ConcatEmptySeq
  <2>2. n + 0 = n /\ 0 \in 0 .. m
    BY <1>0
  <2> QED
    BY <2>1, <2>2, <1>0
<1>2. ASSUME NEW k \in 1 .. m, k - 1 \in Good PROVE k \in Good
  <2>1. /\ n + k \in n + 1 .. n + m /\ k \in 0 .. m /\ k - 1 \in 0 .. m
        /\ (n + k) - 1 = n + (k - 1) /\ (n + k) - n = k
    BY <1>0
  <2>2. h[n + k] = (f \o g[k - 1]) \o y[k]
    <3>1. h[n + k] = h[(n + k) - 1] \o y[(n + k) - n]
      BY <2>1 DEF Onwards
    <3> QED
      BY <2>1, <3>1, <1>2
  <2>3. (f \o g[k - 1]) \o y[k] = f \o (g[k - 1] \o y[k])
    <3> DEFINE b == g[k - 1]  c == y[k]
    <3>1. b \in Seq(S) /\ c \in Seq(S)
      BY <2>1 DEF Onwards
    <3> HIDE DEF b, c
    <3>2. (f \o b) \o c = f \o (b \o c)
      BY <3>1, <1>0, Regroup
    <3> QED
      BY <3>2 DEF b, c
  <2>4. g[k] = g[k - 1] \o y[k]
    BY DEF Onwards
  <2> QED
    BY <2>1, <2>2, <2>3, <2>4
<1>3. \A k \in 0 .. m : k \in Good
  <2> HIDE DEF Good
  <2> QED
    BY <1>0, <1>1, <1>2, Climbs
<1>4. m \in 0 .. m
  BY <1>0
<1> QED
  BY <1>3, <1>4

(* Two lots of sequences are put together one behind the other.            *)
LEMMA FlatJoin ==
  ASSUME NEW S, NEW x \in Seq(Seq(S)), NEW y \in Seq(Seq(S))
  PROVE  FlattenSeq(x \o y) = FlattenSeq(x) \o FlattenSeq(y)
<1> DEFINE z == x \o y  n == Len(x)  m == Len(y)
<1>1. /\ z \in Seq(Seq(S)) /\ n \in Nat /\ m \in Nat /\ Len(z) = n + m
      /\ \A k \in 1 .. n : z[k] = x[k]
      /\ \A k \in n + 1 .. n + m : z[k] = y[k - n]
  BY JoinIs
<1>2. PICK f : Flattened(S, x, f) /\ FlattenSeq(x) = f[n]
  BY FlatIs
<1>3. PICK g : Flattened(S, y, g) /\ FlattenSeq(y) = g[m]
  BY FlatIs
<1> HIDE DEF z
<1>4. PICK h : Flattened(S, z, h) /\ FlattenSeq(z) = h[Len(z)]
  BY <1>1, FlatIs
<1>5. \A k \in 1 .. m : y[k] \in Seq(S)
  BY ElementOfSeq
<1> HIDE DEF n, m
<1>6. /\ f \in [0 .. n -> Seq(S)] /\ f[0] = <<>>
      /\ \A k \in 1 .. n : f[k] = f[k - 1] \o x[k]
  BY <1>2 DEF Flattened, n
<1>7. /\ g \in [0 .. m -> Seq(S)] /\ g[0] = <<>>
      /\ \A k \in 1 .. m : g[k] = g[k - 1] \o y[k]
  BY <1>3 DEF Flattened, m
<1>8. /\ h[0] = <<>> /\ \A k \in 1 .. n + m : h[k] = h[k - 1] \o z[k]
  BY <1>1, <1>4 DEF Flattened
<1>9. \A k \in 0 .. n : h[k] = f[k]
  <2> DEFINE Good == {k \in 0 .. n : h[k] = f[k]}
  <2>1. 0 \in Good
    BY <1>1, <1>6, <1>8
  <2>2. ASSUME NEW k \in 1 .. n, k - 1 \in Good PROVE k \in Good
    <3>1. k \in 1 .. n + m /\ k \in 0 .. n
      BY <1>1
    <3> QED
      BY <3>1, <2>2, <1>1, <1>6, <1>8
  <2>3. \A k \in 0 .. n : k \in Good
    <3> HIDE DEF Good
    <3> QED
      BY <1>1, <2>1, <2>2, Climbs
  <2> QED
    BY <2>3
<1>10. f[n] \in Seq(S) /\ h[n] = f[n]
  <2>1. n \in 0 .. n
    BY <1>1
  <2> QED
    BY <2>1, <1>6, <1>9
<1>11. \A k \in n + 1 .. n + m : h[k] = h[k - 1] \o y[k - n]
  <2>1. \A k \in n + 1 .. n + m : k \in 1 .. n + m
    BY <1>1
  <2> QED
    BY <2>1, <1>1, <1>8
<1>12. h[n + m] = f[n] \o g[m]
  <2> DEFINE F == f[n]
  <2>1. F \in Seq(S) /\ h[n] = F
    BY <1>10
  <2> HIDE DEF F
  <2>2. Onwards(S, n, m, F, g, h, y)
    BY <2>1, <1>1, <1>5, <1>7, <1>11 DEF Onwards
  <2>3. h[n + m] = F \o g[m]
    BY <2>2, FlatOnwards
  <2> QED
    BY <2>3 DEF F
<1> QED
  BY <1>1, <1>2, <1>3, <1>4, <1>12 DEF z

(* One more sequence comes at the end.                                     *)
LEMMA FlatAppend ==
  ASSUME NEW S, NEW x \in Seq(Seq(S)), NEW s \in Seq(S)
  PROVE  FlattenSeq(Append(x, s)) = FlattenSeq(x) \o s
<1>1. Append(x, s) = x \o <<s>> /\ <<s>> \in Seq(Seq(S))
  BY AppendIsConcat
<1>2. FlattenSeq(x \o <<s>>) = FlattenSeq(x) \o FlattenSeq(<<s>>)
  BY <1>1, FlatJoin
<1> QED
  BY <1>1, <1>2, FlatOne

(* Where the sequences begin in what they are put together to.             *)
LaidOut(x, f, n) ==
  /\ n \in Nat /\ Len(f[0]) = 0
  /\ \A k \in 0 .. n : Len(f[k]) \in 0 .. Len(f[n])
  /\ \A k \in 1 .. n :
       /\ Len(x[k]) \in Nat
       /\ Len(f[k]) = Len(f[k - 1]) + Len(x[k])
       /\ \A i \in 1 .. Len(x[k]) : f[n][Len(f[k - 1]) + i] = x[k][i]

(* Where each sequence lies in what is put together.                       *)
LEMMA FlatPlaces ==
  ASSUME NEW S, NEW x \in Seq(Seq(S)), NEW f, Flattened(S, x, f)
  PROVE  LaidOut(x, f, Len(x))
<1> DEFINE n == Len(x)
<1>1. /\ n \in Nat /\ f \in [0 .. n -> Seq(S)] /\ f[0] = <<>>
      /\ \A k \in 1 .. n : x[k] \in Seq(S)
      /\ \A k \in 1 .. n : f[k] = f[k - 1] \o x[k]
  BY ElementOfSeq, SMTT(20) DEF Flattened
<1> HIDE DEF n
<1>2. ASSUME NEW k \in 1 .. n
      PROVE  /\ k - 1 \in 0 .. n /\ k \in 0 .. n
             /\ f[k - 1] \in Seq(S) /\ x[k] \in Seq(S)
             /\ Len(f[k - 1]) \in Nat /\ Len(x[k]) \in Nat
             /\ Len(f[k]) = Len(f[k - 1]) + Len(x[k])
             /\ \A i \in 1 .. Len(f[k - 1]) : f[k][i] = f[k - 1][i]
             /\ \A i \in 1 .. Len(x[k]) : f[k][Len(f[k - 1]) + i] = x[k][i]
  <2> DEFINE a == f[k - 1]  b == x[k]  c == f[k]
  <2>1. k - 1 \in 0 .. n /\ k \in 0 .. n
    BY <1>1
  <2>2. a \in Seq(S) /\ b \in Seq(S) /\ c = a \o b
    BY <2>1, <1>1
  <2> HIDE DEF a, b, c
  <2>3. /\ Len(a) \in Nat /\ Len(b) \in Nat /\ Len(c) = Len(a) + Len(b)
        /\ \A i \in 1 .. Len(a) : c[i] = a[i]
        /\ \A i \in 1 .. Len(b) : c[Len(a) + i] = b[i]
    BY <2>2, JoinIs
  <2> QED
    BY <2>1, <2>2, <2>3 DEF a, b, c
<1>3. \A k \in 0 .. n : Len(f[k]) \in Nat
  BY <1>1
<1> DEFINE Good == {m \in 0 .. n : \A k \in 0 .. m :
                      /\ Len(f[k]) <= Len(f[m])
                      /\ \A i \in 1 .. Len(f[k]) : f[m][i] = f[k][i]}
<1>4. 0 \in Good
  BY <1>1, <1>3
<1>5. ASSUME NEW m \in 1 .. n, m - 1 \in Good PROVE m \in Good
  <2>1. ASSUME NEW k \in 0 .. m
        PROVE  /\ Len(f[k]) <= Len(f[m])
               /\ \A i \in 1 .. Len(f[k]) : f[m][i] = f[k][i]
    <3>1. CASE k = m
      BY <3>1, <1>2, <1>3
    <3>2. CASE k # m
      <4>1. /\ k \in 0 .. m - 1 /\ k \in 0 .. n /\ m - 1 \in 0 .. n
            /\ m \in 0 .. n
        BY <3>2, <1>1
      <4>2. /\ Len(f[k]) <= Len(f[m - 1])
            /\ \A i \in 1 .. Len(f[k]) : f[m - 1][i] = f[k][i]
        BY <4>1, <1>5
      <4>3. Len(f[k]) \in Nat /\ Len(f[m]) \in Nat /\ Len(f[m - 1]) \in Nat
        BY <4>1, <1>3
      <4>4. Len(f[m - 1]) <= Len(f[m])
        <5>1. Len(f[m]) = Len(f[m - 1]) + Len(x[m]) /\ Len(x[m]) \in Nat
          BY <1>2
        <5> QED
          BY <4>3, <5>1, Further
      <4>5. \A i \in 1 .. Len(f[k]) : i \in 1 .. Len(f[m - 1])
        BY <4>2, <4>3
      <4>6. \A i \in 1 .. Len(f[k]) : f[m][i] = f[k][i]
        BY <4>2, <4>5, <1>2
      <4> QED
        BY <4>2, <4>3, <4>4, <4>6
    <3> QED
      BY <3>1, <3>2
  <2> QED
    BY <2>1, <1>2
<1>6. \A m \in 0 .. n : m \in Good
  <2> HIDE DEF Good
  <2> QED
    BY <1>1, <1>4, <1>5, Climbs
<1>7. n \in Good
  BY <1>1, <1>6
<1>8. ASSUME NEW k \in 0 .. n PROVE Len(f[k]) \in 0 .. Len(f[n])
  BY <1>3, <1>7
<1>9. ASSUME NEW k \in 1 .. n, NEW i \in 1 .. Len(x[k])
      PROVE  f[n][Len(f[k - 1]) + i] = x[k][i]
  <2>1. /\ k \in 0 .. n /\ Len(f[k - 1]) \in Nat /\ Len(x[k]) \in Nat
        /\ Len(f[k]) = Len(f[k - 1]) + Len(x[k])
        /\ f[k][Len(f[k - 1]) + i] = x[k][i]
    BY <1>2
  <2>2. Len(f[k - 1]) + i \in 1 .. Len(f[k])
    BY <2>1, Further
  <2> QED
    BY <2>1, <2>2, <1>7
<1>10. Len(f[0]) = 0
  BY <1>1
<1> QED
  <2>1. LaidOut(x, f, n)
    BY <1>1, <1>2, <1>8, <1>9, <1>10 DEF LaidOut
  <2> QED
    BY <2>1 DEF n

(* Sequences of one element each are put together to these elements.       *)
LEMMA FlatOnes ==
  ASSUME NEW S, NEW v \in Seq(S)
  PROVE  FlattenSeq([i \in 1 .. Len(v) |-> <<v[i]>>]) = v
<1> DEFINE x == [i \in 1 .. Len(v) |-> <<v[i]>>]  n == Len(v)
<1>1. n \in Nat /\ \A i \in 1 .. n : v[i] \in S
  BY ElementOfSeq
<1>2. x \in Seq(Seq(S)) /\ Len(x) = n /\ \A i \in 1 .. n : x[i] = <<v[i]>>
  <2>1. \A i \in 1 .. n : <<v[i]>> \in Seq(S)
    BY <1>1
  <2>2. x \in [1 .. n -> Seq(S)]
    BY <2>1
  <2>3. \A i \in 1 .. n : x[i] = <<v[i]>>
    OBVIOUS
  <2> HIDE DEF x, n
  <2>4. x \in Seq(Seq(S)) /\ Len(x) = n
    <3> DEFINE T == Seq(S)
    <3>1. x \in [1 .. n -> T]
      BY <2>2
    <3> HIDE DEF T
    <3>2. x \in Seq(T) /\ Len(x) = n
      BY <1>1, <3>1
    <3> QED
      BY <3>2 DEF T
  <2> QED
    BY <2>3, <2>4
<1> HIDE DEF x
<1>3. PICK f : Flattened(S, x, f) /\ FlattenSeq(x) = f[Len(x)]
  BY <1>2, FlatIs
<1> HIDE DEF n
<1>4. /\ f[0] = <<>> /\ \A k \in 1 .. n : f[k] = f[k - 1] \o <<v[k]>>
  BY <1>2, <1>3 DEF Flattened
<1> DEFINE Good == {k \in 0 .. n : f[k] = SubSeq(v, 1, k)}
<1>5. 0 \in Good
  <2>1. SubSeq(v, 1, 0) = <<>>
    BY SubSeqEmpty
  <2>2. 0 \in 0 .. n
    BY <1>1
  <2> QED
    BY <2>1, <2>2, <1>4
<1>6. ASSUME NEW k \in 1 .. n, k - 1 \in Good PROVE k \in Good
  <2>1. 1 \in 1 .. Len(v) /\ k \in 1 .. Len(v) /\ k \in 0 .. n
    BY <1>1 DEF n
  <2>2. SubSeq(v, 1, k) = SubSeq(v, 1, k - 1) \o <<v[k]>>
    BY <2>1, SubSeqRecursiveSecond
  <2> QED
    BY <2>1, <2>2, <1>4, <1>6
<1>7. n \in Good
  <2> HIDE DEF Good
  <2>1. \A k \in 0 .. n : k \in Good
    BY <1>1, <1>5, <1>6, Climbs
  <2> QED
    BY <2>1, <1>1
<1>8. FlattenSeq(x) = SubSeq(v, 1, Len(v))
  BY <1>2, <1>3, <1>7 DEF n
<1> QED
  BY <1>8, SubSeqFull DEF x

(* It is the same to put together twice.                                   *)
LEMMA FlatTwice ==
  ASSUME NEW S, NEW x \in Seq(Seq(Seq(S)))
  PROVE  FlattenSeq([i \in 1 .. Len(x) |-> FlattenSeq(x[i])])
           = FlattenSeq(FlattenSeq(x))
<1> DEFINE n == Len(x)  y == [i \in 1 .. n |-> FlattenSeq(x[i])]
<1>1. n \in Nat /\ \A i \in 1 .. n : x[i] \in Seq(Seq(S)) /\ FlattenSeq(x[i]) \in Seq(S)
  <2>1. ASSUME NEW i \in 1 .. n PROVE x[i] \in Seq(Seq(S))
    <3> DEFINE T == Seq(Seq(S))
    <3>1. x \in Seq(T) /\ i \in 1 .. Len(x)
      OBVIOUS
    <3> HIDE DEF T
    <3>2. x[i] \in T
      BY <3>1, ElementOfSeq
    <3> QED
      BY <3>2 DEF T
  <2> QED
    BY <2>1, FlatType
<1>2. y \in Seq(Seq(S)) /\ Len(y) = n /\ \A i \in 1 .. n : y[i] = FlattenSeq(x[i])
  <2>1. y \in [1 .. n -> Seq(S)]
    BY <1>1
  <2>2. \A i \in 1 .. n : y[i] = FlattenSeq(x[i])
    OBVIOUS
  <2> HIDE DEF y, n
  <2>3. y \in Seq(Seq(S)) /\ Len(y) = n
    <3> DEFINE T == Seq(S)
    <3>1. y \in [1 .. n -> T]
      BY <2>1
    <3> HIDE DEF T
    <3>2. y \in Seq(T) /\ Len(y) = n
      BY <1>1, <3>1
    <3> QED
      BY <3>2 DEF T
  <2> QED
    BY <2>2, <2>3
<1> HIDE DEF y
<1>3. PICK f : Flattened(Seq(S), x, f) /\ FlattenSeq(x) = f[Len(x)]
  <2> DEFINE T == Seq(S)
  <2>1. x \in Seq(Seq(T))
    OBVIOUS
  <2> HIDE DEF T
  <2>2. \E f : Flattened(T, x, f) /\ FlattenSeq(x) = f[Len(x)]
    BY <2>1, FlatIs
  <2> QED
    BY <2>2 DEF T
<1>4. PICK g : Flattened(S, y, g) /\ FlattenSeq(y) = g[Len(y)]
  BY <1>2, FlatIs
<1>5. /\ f \in [0 .. n -> Seq(Seq(S))] /\ f[0] = <<>>
      /\ \A k \in 1 .. n : f[k] = f[k - 1] \o x[k]
  BY <1>3 DEF Flattened
<1> HIDE DEF n
<1>6. /\ g[0] = <<>> /\ \A k \in 1 .. n : g[k] = g[k - 1] \o FlattenSeq(x[k])
  BY <1>2, <1>4 DEF Flattened
<1> DEFINE Good == {k \in 0 .. n : g[k] = FlattenSeq(f[k])}
<1>7. 0 \in Good
  BY <1>1, <1>5, <1>6, FlatNone
<1>8. ASSUME NEW k \in 1 .. n, k - 1 \in Good PROVE k \in Good
  <2>1. k - 1 \in 0 .. n /\ k \in 0 .. n
    BY <1>1
  <2>2. f[k - 1] \in Seq(Seq(S)) /\ x[k] \in Seq(Seq(S))
    BY <2>1, <1>1, <1>5
  <2>3. FlattenSeq(f[k - 1] \o x[k]) = FlattenSeq(f[k - 1]) \o FlattenSeq(x[k])
    BY <2>2, FlatJoin
  <2> QED
    BY <2>1, <2>3, <1>5, <1>6, <1>8
<1>9. n \in Good
  <2> HIDE DEF Good
  <2>1. \A k \in 0 .. n : k \in Good
    BY <1>1, <1>7, <1>8, Climbs
  <2> QED
    BY <2>1, <1>1
<1> QED
  BY <1>2, <1>3, <1>4, <1>9 DEF y, n

-----------------------------------------------------------------------------
(* Wire: recursions over the places of a sequence *)

(* What next and stop say of a place leads to later ones.                  *)
Leads(n, stop, next) == \A i \in 1 .. n : i \in stop \/ next[i] \in i + 1 .. n

Unrolled(f, stop, head, next, i) ==
  IF i \in stop THEN head[i] ELSE head[i] \o f[next[i]]

Solved(f, n, stop, head, next) ==
  f = [i \in 1 .. n |-> Unrolled(f, stop, head, next, i)]

(* Such a recursion has a solution, built from the last place down.        *)
LEMMA Unrolls ==
  ASSUME NEW n \in Nat, NEW stop, NEW head, NEW next, Leads(n, stop, next)
  PROVE  \E f : Solved(f, n, stop, head, next)
<1> DEFINE D == 1 .. n
           Solves(f, i) == \A j \in i .. n : f[j] = Unrolled(f, stop, head, next, j)
           Good == {x \in 1 .. n + 1 : \E f : f = [k \in D |-> f[k]] /\ Solves(f, x)}
<1>1. ASSUME NEW x \in 1 .. n + 1, \A y \in x + 1 .. n + 1 : y \in Good
      PROVE  x \in Good
  <2>1. CASE x = n + 1
    <3> DEFINE f == [k \in D |-> 0]
    <3>1. f = [k \in D |-> f[k]] /\ Solves(f, x)
      BY <2>1
    <3> HIDE DEF f, Solves
    <3> QED
      BY <3>1
  <2>2. CASE x # n + 1
    <3>0. x \in D /\ x + 1 \in 1 .. n + 1 /\ x + 1 \in x + 1 .. n + 1
      BY <2>2
    <3>1. x + 1 \in Good
      BY <3>0, <1>1
    <3>2. PICK f : f = [k \in D |-> f[k]] /\ Solves(f, x + 1)
      BY <3>1
    <3> DEFINE v == Unrolled(f, stop, head, next, x)
               g == [k \in D |-> IF k = x THEN v ELSE f[k]]
    <3>3. \A k \in D : k # x => g[k] = f[k]
      OBVIOUS
    <3>4. g[x] = v
      BY <3>0
    <3>5. g = [k \in D |-> g[k]]
      OBVIOUS
    <3>6. ASSUME NEW j \in x .. n
          PROVE  Unrolled(g, stop, head, next, j) = Unrolled(f, stop, head, next, j)
      <4>1. j \in 1 .. n
        OBVIOUS
      <4>2. j \in stop \/ next[j] \in j + 1 .. n
        BY <4>1 DEF Leads
      <4>3. next[j] \in j + 1 .. n => next[j] \in D /\ next[j] # x
        OBVIOUS
      <4> HIDE DEF g
      <4> QED
        BY <4>2, <4>3, <3>3 DEF Unrolled
    <3> HIDE DEF g
    <3>7. ASSUME NEW j \in x .. n PROVE g[j] = Unrolled(g, stop, head, next, j)
      <4>1. CASE j = x
        BY <4>1, <3>4, <3>6
      <4>2. CASE j # x
        <5>1. j \in x + 1 .. n /\ j \in D
          BY <4>2
        <5>2. f[j] = Unrolled(f, stop, head, next, j)
          BY <5>1, <3>2
        <5> QED
          BY <5>1, <5>2, <3>3, <3>6, <4>2
      <4> QED
        BY <4>1, <4>2
    <3>8. Solves(g, x)
      BY <3>7
    <3> HIDE DEF Solves
    <3> QED
      BY <3>5, <3>8
  <2> QED
    BY <2>1, <2>2
<1>2. 1 \in Good
  <2>1. n + 1 \in Nat /\ 1 \in 1 .. n + 1
    OBVIOUS
  <2> HIDE DEF Good
  <2> DEFINE top == n + 1
  <2>2. \A x \in 1 .. top : (\A y \in x + 1 .. top : y \in Good) => x \in Good
    BY <1>1
  <2>3. top \in Nat /\ 1 \in 1 .. top
    BY <2>1
  <2> HIDE DEF top
  <2> QED
    BY <2>2, <2>3, DownTo
<1>3. PICK f : f = [k \in D |-> f[k]] /\ Solves(f, 1)
  BY <1>2
<1>4. f = [i \in D |-> Unrolled(f, stop, head, next, i)]
  BY <1>3
<1> QED
  BY <1>4 DEF Solved

(* A recursion that gives the elements of v one after the other.           *)
Chain(f, at, v) ==
  /\ f[at[Len(v)]] = <<>>
  /\ \A k \in 1 .. Len(v) : f[at[k - 1]] = <<v[k]>> \o f[at[k]]

(* A recursion over places that was followed from 2 on.                    *)
LEMMA ChainIs ==
  ASSUME NEW S, NEW v \in Seq(S), NEW f, NEW at, Chain(f, at, v)
  PROVE  f[at[0]] = v
<1> DEFINE n == Len(v)
           Good == {k \in 0 .. n : f[at[n - k]] = SubSeq(v, n - k + 1, n)}
<1>0. n \in Nat
  OBVIOUS
<1>1. 0 \in Good
  <2>1. SubSeq(v, n + 1, n) = <<>>
    BY <1>0, SubSeqEmpty
  <2>2. 0 \in 0 .. n /\ n - 0 = n
    BY <1>0
  <2> HIDE DEF n
  <2>3. f[at[n]] = <<>>
    BY DEF Chain, n
  <2> QED
    BY <2>1, <2>2, <2>3
<1>2. ASSUME NEW k \in 1 .. n, k - 1 \in Good PROVE k \in Good
  <2> DEFINE j == n - k + 1
  <2>1. j \in 1 .. n /\ j - 1 = n - k /\ n - (k - 1) = j /\ k \in 0 .. n
    BY <1>0
  <2>2. f[at[j - 1]] = <<v[j]>> \o f[at[j]]
    BY <2>1 DEF Chain
  <2>3. f[at[j]] = SubSeq(v, j + 1, n)
    BY <1>2, <2>1
  <2>4. SubSeq(v, j, n) = <<v[j]>> \o SubSeq(v, j + 1, n)
    <3>1. j \in 1 .. Len(v) /\ n \in j .. Len(v)
      BY <2>1, <1>0
    <3> HIDE DEF j, n
    <3> QED
      BY <3>1, SubSeqRecursiveFirst
  <2>5. f[at[n - k]] = SubSeq(v, n - k + 1, n)
    BY <2>1, <2>2, <2>3, <2>4
  <2> QED
    BY <2>1, <2>5
<1>3. n \in Good
  <2> HIDE DEF Good, n
  <2>1. \A k \in 0 .. n : k \in Good
    BY <1>0, <1>1, <1>2, Climbs
  <2> QED
    BY <2>1, <1>0
<1>4. f[at[0]] = SubSeq(v, 1, n)
  BY <1>3, <1>0
<1> QED
  BY <1>4, SubSeqFull

-----------------------------------------------------------------------------
(* Wire: frames *)

(* Numbers of two bytes, and crc16_ccitt, which returns one.               *)
Word == {n \in Nat : n < 65536}

CrcTyped == \A bytes \in Seq(Octet) : Crc(bytes) \in Word

(* A byte, without the range written out.                                  *)
LEMMA OctetIs == \A x : x \in Octet <=> x \in Nat /\ x < 256
BY DEF Octet

(* A number of two bytes is written as bytes and read back.                *)
LEMMA U16Is ==
  ASSUME NEW n \in Word
  PROVE  /\ U16(n) \in Seq(Octet) /\ Len(U16(n)) = 2
         /\ U16(n)[1] \in Octet /\ U16(n)[2] \in Octet
         /\ U16(n) = <<U16(n)[1], U16(n)[2]>>
         /\ U16(n)[1] + 256 * U16(n)[2] = n
<1> DEFINE a == n % 256  b == (n \div 256) % 256
<1>1. a \in Octet /\ b \in Octet /\ a + 256 * b = n
  <2>1. n \in Nat /\ n < 65536
    BY DEF Word
  <2>2. a \in Nat /\ a < 256 /\ b \in Nat /\ b < 256 /\ a + 256 * b = n
    BY <2>1
  <2> QED
    BY <2>2, OctetIs
<1> HIDE DEF a, b
<1>2. U16(n) = <<a, b>>
  BY DEF U16, a, b
<1> QED
  BY <1>1, <1>2

(* A subsequence is t if it has its length and its elements.               *)
LEMMA PieceEquals ==
  ASSUME NEW S, NEW s \in Seq(S), NEW a \in Nat, NEW t \in Seq(S),
         a + Len(t) <= Len(s), \A i \in 1 .. Len(t) : s[a + i] = t[i]
  PROVE  SubSeq(s, a + 1, a + Len(t)) = t
<1> DEFINE n == Len(t)  d == SubSeq(s, a + 1, a + n)
<1>1. n \in Nat /\ Len(s) \in Nat
  OBVIOUS
<1>2. a + 1 \in 1 .. Len(s) + 1 /\ a + n \in (a + 1) - 1 .. Len(s)
      /\ (a + n) - (a + 1) + 1 = n
  <2> HIDE DEF n
  <2> QED
    BY <1>1 DEF n
<1>3. /\ d \in Seq(S) /\ Len(d) = n
      /\ \A i \in 1 .. n : d[i] = s[(a + 1) + i - 1]
  <2> DEFINE x == a + 1  y == a + n
  <2>1. x \in 1 .. Len(s) + 1 /\ y \in x - 1 .. Len(s) /\ y - x + 1 = n
    BY <1>2
  <2>2. d = SubSeq(s, x, y)
    OBVIOUS
  <2> HIDE DEF n, d, x, y
  <2>3. /\ d \in Seq(S) /\ Len(d) = n
        /\ \A i \in 1 .. n : d[i] = s[x + i - 1]
    BY <2>1, <2>2, PieceIs
  <2> QED
    BY <2>3 DEF x
<1>4. \A i \in 1 .. n : d[i] = t[i]
  <2> HIDE DEF d
  <2>1. \A i \in 1 .. n : (a + 1) + i - 1 = a + i
    BY <1>1
  <2> QED
    BY <2>1, <1>3
<1> HIDE DEF d
<1>5. d = t
  BY <1>3, <1>4, SeqEqual
<1> QED
  BY <1>5 DEF d

(* A concatenation, its parts' lengths given.                              *)
Joined(S, d, m, n, a, b) ==
  /\ d \in Seq(S) /\ Len(d) = m + n
  /\ \A i \in 1 .. m : d[i] = a[i]
  /\ \A i \in 1 .. n : d[m + i] = b[i]

(* What is at which place of two sequences joined.                         *)
LEMMA JoinedIs ==
  ASSUME NEW S, NEW a \in Seq(S), NEW b \in Seq(S)
  PROVE  Joined(S, a \o b, Len(a), Len(b), a, b)
BY JoinIs DEF Joined

(* The first eight bytes.                                                  *)
Head8(t, fl, len, n) == <<236, 1, t, fl>> \o U16(len) \o U16(n)

IsHead(h, t, fl, len, n) ==
  /\ h \in Seq(Octet) /\ Len(h) = 8
  /\ h[1] = 236 /\ h[2] = 1 /\ h[3] = t /\ h[4] = fl
  /\ h[5] = U16(len)[1] /\ h[6] = U16(len)[2]
  /\ h[7] = U16(n)[1] /\ h[8] = U16(n)[2]

(* The header of a chunk, byte by byte.                                    *)
LEMMA Head8Is ==
  ASSUME NEW t \in 1 .. 7, NEW fl \in Octet, NEW len \in Word, NEW n \in Word
  PROVE  IsHead(Head8(t, fl, len, n), t, fl, len, n)
<1> DEFINE h == Head8(t, fl, len, n)
<1> DEFINE a == <<236, 1, t, fl>>  b == U16(len)  c == U16(n)
<1>1. a \in Seq(Octet) /\ Len(a) = 4 /\ a[1] = 236 /\ a[2] = 1 /\ a[3] = t /\ a[4] = fl
  <2>1. 236 \in Octet /\ 1 \in Octet /\ t \in Octet
    BY OctetIs
  <2> QED
    BY <2>1
<1>2. b \in Seq(Octet) /\ Len(b) = 2 /\ c \in Seq(Octet) /\ Len(c) = 2
  BY U16Is
<1>3. h = (a \o b) \o c
  BY DEF Head8
<1> HIDE DEF a, b, c, h
<1> DEFINE d == a \o b
<1>4. Joined(Octet, d, 4, 2, a, b)
  <2>1. Joined(Octet, d, Len(a), Len(b), a, b)
    BY <1>1, <1>2, JoinedIs
  <2> QED
    BY <2>1, <1>1, <1>2
<1> HIDE DEF d
<1>5. d \in Seq(Octet) /\ Len(d) = 6
  BY <1>4 DEF Joined
<1>6. h = d \o c
  BY <1>3 DEF d
<1>7. Joined(Octet, h, 6, 2, d, c)
  <2>1. Joined(Octet, d \o c, Len(d), Len(c), d, c)
    BY <1>2, <1>5, JoinedIs
  <2> QED
    BY <2>1, <1>2, <1>5, <1>6
<1>8. d[1] = a[1] /\ d[2] = a[2] /\ d[3] = a[3] /\ d[4] = a[4] /\ d[5] = b[1] /\ d[6] = b[2]
  <2>1. 5 = 4 + 1 /\ 6 = 4 + 2
    OBVIOUS
  <2> QED
    BY <1>4, <2>1 DEF Joined
<1>9. /\ h[1] = d[1] /\ h[2] = d[2] /\ h[3] = d[3] /\ h[4] = d[4] /\ h[5] = d[5]
      /\ h[6] = d[6] /\ h[7] = c[1] /\ h[8] = c[2]
  <2>1. 7 = 6 + 1 /\ 8 = 6 + 2
    OBVIOUS
  <2> QED
    BY <1>7, <2>1 DEF Joined
<1>10. h \in Seq(Octet) /\ Len(h) = 8
  BY <1>7 DEF Joined
<1> QED
  <2>1. IsHead(h, t, fl, len, n)
    BY <1>1, <1>8, <1>9, <1>10 DEF b, c, IsHead
  <2> QED
    BY <2>1 DEF h

(* A chunk as it is on the wire.                                           *)
FrameOf(t, fl, p, n) == Framed(Head8(t, fl, Len(p), n), p)

(* What makes sense in one.                                                *)
Bearing(t, fl, p, n) ==
  /\ t \in 1 .. 7 /\ fl \in Octet /\ n \in Word
  /\ p \in Seq(Octet) /\ Len(p) \in Word

(* A chunk, byte by byte: header, payload, checksum.                       *)
LEMMA FrameIs ==
  ASSUME CrcTyped, NEW t, NEW fl, NEW p, NEW n, Bearing(t, fl, p, n), NEW c,
         c = FrameOf(t, fl, p, n)
  PROVE  /\ c \in Seq(Octet) /\ Len(p) \in Nat /\ Len(c) = 10 + Len(p)
         /\ c[1] = 236 /\ c[2] = 1 /\ c[3] = t /\ c[4] = fl
         /\ c[5] + 256 * c[6] = Len(p)
         /\ SubSeq(c, 1, 8) = Head8(t, fl, Len(p), n)
         /\ SubSeq(c, 9, 8 + Len(p)) = p
         /\ SubSeq(c, 9 + Len(p), 10 + Len(p)) = U16(Crc(SubSeq(c, 1, 8 + Len(p))))
<1> DEFINE h == Head8(t, fl, Len(p), n)  b == h \o p  u == U16(Crc(b))  m == Len(p)
<1>1. /\ t \in 1 .. 7 /\ fl \in Octet /\ n \in Word
      /\ p \in Seq(Octet) /\ m \in Word /\ m \in Nat
  BY DEF Bearing, Word
<1>2. /\ h \in Seq(Octet) /\ Len(h) = 8
      /\ h[1] = 236 /\ h[2] = 1 /\ h[3] = t /\ h[4] = fl
      /\ h[5] = U16(m)[1] /\ h[6] = U16(m)[2]
  <2>1. IsHead(h, t, fl, m, n)
    BY <1>1, Head8Is
  <2> HIDE DEF h, m
  <2> QED
    BY <2>1 DEF IsHead
<1>3. U16(m)[1] + 256 * U16(m)[2] = m
  BY <1>1, U16Is
<1> HIDE DEF h, m
<1>4. Joined(Octet, b, 8, m, h, p)
  <2>1. Joined(Octet, b, Len(h), Len(p), h, p)
    BY <1>1, <1>2, JoinedIs
  <2> QED
    BY <2>1, <1>2 DEF m
<1> HIDE DEF b
<1>5. b \in Seq(Octet) /\ Len(b) = 8 + m
  BY <1>4 DEF Joined
<1>6. u \in Seq(Octet) /\ Len(u) = 2
  BY <1>5, U16Is DEF CrcTyped
<1>7. c = b \o u
  BY DEF FrameOf, Framed, b, h
<1> HIDE DEF u
<1>8. Joined(Octet, c, 8 + m, 2, b, u)
  <2>1. Joined(Octet, b \o u, Len(b), Len(u), b, u)
    BY <1>5, <1>6, JoinedIs
  <2> QED
    BY <2>1, <1>5, <1>6, <1>7
<1>9. c \in Seq(Octet) /\ Len(c) = 10 + m
  BY <1>1, <1>8 DEF Joined
<1>10. \A i \in 1 .. 8 : c[i] = h[i]
  <2>1. \A i \in 1 .. 8 : i \in 1 .. 8 + m
    BY <1>1
  <2> QED
    BY <2>1, <1>4, <1>8 DEF Joined
<1>11. c[1] = 236 /\ c[2] = 1 /\ c[3] = t /\ c[4] = fl /\ c[5] + 256 * c[6] = m
  BY <1>2, <1>3, <1>10
<1>12. SubSeq(c, 1, 8) = h
  BY <1>1, <1>2, <1>9, <1>10, PieceEquals
<1>13. SubSeq(c, 1, 8 + m) = b
  BY <1>1, <1>5, <1>8, <1>9, PieceEquals DEF Joined
<1>14. SubSeq(c, 9, 8 + m) = p
  <2>1. \A i \in 1 .. m : 8 + i \in 1 .. 8 + m
    BY <1>1
  <2>2. \A i \in 1 .. m : c[8 + i] = p[i]
    BY <2>1, <1>4, <1>8 DEF Joined
  <2>3. 8 + m <= Len(c) /\ Len(p) = m
    BY <1>1, <1>9 DEF m
  <2>4. SubSeq(c, 8 + 1, 8 + Len(p)) = p
    BY <2>2, <2>3, <1>1, <1>9, PieceEquals
  <2> QED
    BY <2>3, <2>4
<1>15. SubSeq(c, 9 + m, 10 + m) = u
  <2> DEFINE a == 8 + m
  <2>1. \A i \in 1 .. 2 : c[a + i] = u[i]
    BY <1>8 DEF Joined
  <2>2. a \in Nat /\ a + Len(u) <= Len(c) /\ a + 1 = 9 + m /\ a + 2 = 10 + m
    BY <1>1, <1>6, <1>9
  <2> HIDE DEF a
  <2>3. SubSeq(c, a + 1, a + Len(u)) = u
    BY <2>1, <2>2, <1>6, <1>9, PieceEquals
  <2> QED
    BY <2>2, <2>3, <1>6
<1> QED
  BY <1>1, <1>9, <1>11, <1>12, <1>13, <1>14, <1>15 DEF m, u, h

(* Eight bytes make one head.                                              *)
LEMMA HeadAlone ==
  ASSUME NEW t, NEW fl, NEW len, NEW n, NEW g, NEW h,
         IsHead(g, t, fl, len, n), IsHead(h, t, fl, len, n)
  PROVE  g = h
<1>1. g \in Seq(Octet) /\ Len(g) = 8 /\ h \in Seq(Octet) /\ Len(h) = 8
  BY DEF IsHead
<1>2. \A i \in 1 .. 8 : g[i] = h[i]
  BY DEF IsHead
<1> QED
  BY <1>1, <1>2, SeqEqual

(* A sequence with another element.                                        *)
Changed(S, r, s, i, e) ==
  /\ r \in Seq(S) /\ Len(r) = Len(s)
  /\ \A j \in 1 .. Len(s) : r[j] = IF j = i THEN e ELSE s[j]

(* Some bytes of a sequence exchanged.                                     *)
LEMMA ChangedIs ==
  ASSUME NEW S, NEW s \in Seq(S), NEW i \in 1 .. Len(s), NEW e \in S
  PROVE  Changed(S, [s EXCEPT ![i] = e], s, i, e)
BY ExceptSeq DEF Changed

(* The wrappers exchange flags and payload.                                *)
LEMMA ReframedIs ==
  ASSUME CrcTyped, NEW t, NEW fl, NEW p, NEW n, Bearing(t, fl, p, n),
         NEW flag, fl + flag \in Octet, NEW q \in Seq(Octet), Len(q) \in Word
  PROVE  Reframed(FrameOf(t, fl, p, n), q, flag) = FrameOf(t, fl + flag, q, n)
<1> DEFINE c == FrameOf(t, fl, p, n)  h == SubSeq(c, 1, 8)  u == U16(Len(q))
           g == [h EXCEPT ![4] = @ + flag, ![5] = u[1], ![6] = u[2]]
           fl2 == fl + flag
<1>0. t \in 1 .. 7 /\ fl \in Octet /\ n \in Word /\ Len(p) \in Word
  BY DEF Bearing
<1>1. h = Head8(t, fl, Len(p), n)
  BY FrameIs
<1>2. IsHead(h, t, fl, Len(p), n)
  BY <1>0, <1>1, Head8Is
<1>3. u[1] \in Octet /\ u[2] \in Octet /\ fl2 \in Octet
  BY U16Is
<1> HIDE DEF h, u, c
<1>4. IsHead(g, t, fl2, Len(q), n)
  <2>1. h \in Seq(Octet) /\ Len(h) = 8 /\ h[4] = fl
    BY <1>2 DEF IsHead
  <2> DEFINE g1 == [h EXCEPT ![4] = fl2]
             g2 == [g1 EXCEPT ![5] = u[1]]
             g3 == [g2 EXCEPT ![6] = u[2]]
  <2>2. g = g3
    BY <2>1
  <2> HIDE DEF fl2
  <2>3. Changed(Octet, g1, h, 4, fl2)
    <3>1. 4 \in 1 .. Len(h)
      BY <2>1
    <3> QED
      BY <2>1, <1>3, <3>1, ChangedIs
  <2> HIDE DEF g1
  <2>4. Changed(Octet, g2, g1, 5, u[1])
    <3>1. 5 \in 1 .. Len(g1) /\ g1 \in Seq(Octet)
      BY <2>1, <2>3 DEF Changed
    <3> QED
      BY <1>3, <3>1, ChangedIs
  <2> HIDE DEF g2
  <2>5. Changed(Octet, g3, g2, 6, u[2])
    <3>1. 6 \in 1 .. Len(g2) /\ g2 \in Seq(Octet)
      BY <2>1, <2>3, <2>4 DEF Changed
    <3> QED
      BY <1>3, <3>1, ChangedIs
  <2> HIDE DEF g3
  <2>6. IsHead(g3, t, fl2, Len(q), n)
    <3>1. g3 \in Seq(Octet) /\ Len(g3) = 8
      BY <2>1, <2>3, <2>4, <2>5 DEF Changed
    <3>2. /\ \A j \in 1 .. 8 : g1[j] = IF j = 4 THEN fl2 ELSE h[j]
          /\ \A j \in 1 .. 8 : g2[j] = IF j = 5 THEN u[1] ELSE g1[j]
          /\ \A j \in 1 .. 8 : g3[j] = IF j = 6 THEN u[2] ELSE g2[j]
      BY <2>1, <2>3, <2>4, <2>5 DEF Changed
    <3> QED
      BY <3>1, <3>2, <1>2 DEF IsHead, u
  <2> HIDE DEF g
  <2> QED
    BY <2>2, <2>6
<1>5. IsHead(Head8(t, fl2, Len(q), n), t, fl2, Len(q), n)
  BY <1>0, <1>3, Head8Is
<1>6. g = Head8(t, fl2, Len(q), n)
  <2> HIDE DEF g
  <2> QED
    BY <1>4, <1>5, HeadAlone
<1>7. Reframed(c, q, flag) = Framed(g, q)
  BY DEF Reframed, h, u
<1> HIDE DEF g
<1> QED
  BY <1>6, <1>7 DEF FrameOf, c

(* What ingest makes of a chunk.                                           *)
Dec(c) == [type |-> c[3], flags |-> c[4], payload |-> PayloadOf(c)]

(* A chunk gives type, flags and payload.                                  *)
LEMMA DecIs ==
  ASSUME CrcTyped, NEW t, NEW fl, NEW p, NEW n, Bearing(t, fl, p, n)
  PROVE  /\ PayloadOf(FrameOf(t, fl, p, n)) = p
         /\ Dec(FrameOf(t, fl, p, n)) = [type |-> t, flags |-> fl, payload |-> p]
<1> DEFINE c == FrameOf(t, fl, p, n)
<1>1. /\ Len(p) \in Nat /\ Len(c) = 10 + Len(p) /\ c[3] = t /\ c[4] = fl
      /\ SubSeq(c, 9, 8 + Len(p)) = p
  BY FrameIs
<1> HIDE DEF c
<1>2. Len(c) - 2 = 8 + Len(p)
  BY <1>1
<1>3. PayloadOf(c) = p
  BY <1>1, <1>2 DEF PayloadOf
<1> QED
  BY <1>1, <1>3 DEF Dec, c

(* The encoder makes a chunk.                                              *)
LEMMA EncodeIs ==
  ASSUME NEW t, NEW p \in Seq(Octet), Len(p) <= MaxPlain, NEW final, NEW n
  PROVE  Encode(t, p, final, n) = FrameOf(t, IF final THEN 1 ELSE 0, p, n)
<1>1. MaxPlain = 225 /\ Len(p) \in Nat
  BY DEF MaxPlain, MaxChunk, Framing, NonceSize, TagSize
<1>2. Least(Len(p), MaxPlain) = Len(p)
  <2> DEFINE a == Len(p)  b == MaxPlain
  <2>1. a \in Nat /\ b \in Nat /\ a <= b
    BY <1>1
  <2> HIDE DEF a, b
  <2>2. Least(a, b) = a
    BY <2>1 DEF Least
  <2> QED
    BY <2>2 DEF a, b
<1>3. SubSeq(p, 1, Len(p)) = p
  BY SubSeqFull
<1> QED
  BY <1>2, <1>3 DEF Encode, FrameOf, Head8

-----------------------------------------------------------------------------
(* Wire: frames read *)

(* Pieces of sequences that agree there.                                   *)
LEMMA SamePiece ==
  ASSUME NEW S, NEW s \in Seq(S), NEW t \in Seq(S), NEW a \in Nat, NEW b \in Nat,
         a >= 1, a - 1 <= b, b <= Len(s), b <= Len(t),
         \A i \in a .. b : s[i] = t[i]
  PROVE  SubSeq(s, a, b) = SubSeq(t, a, b)
<1> DEFINE x == SubSeq(s, a, b)  y == SubSeq(t, a, b)
<1>1. a \in 1 .. Len(s) + 1 /\ a \in 1 .. Len(t) + 1 /\ b \in a - 1 .. Len(s) /\ b \in a - 1 .. Len(t)
  OBVIOUS
<1>2. /\ x \in Seq(S) /\ Len(x) = b - a + 1
      /\ \A i \in 1 .. b - a + 1 : x[i] = s[a + i - 1]
  BY <1>1, PieceIs
<1>3. /\ y \in Seq(S) /\ Len(y) = b - a + 1
      /\ \A i \in 1 .. b - a + 1 : y[i] = t[a + i - 1]
  BY <1>1, PieceIs
<1> HIDE DEF x, y
<1>4. \A i \in 1 .. b - a + 1 : a + i - 1 \in a .. b
  OBVIOUS
<1>5. x = y
  BY <1>2, <1>3, <1>4, SeqEqual
<1> QED
  BY <1>5 DEF x, y

(* c begins the bytes.                                                     *)
StartsWith(c, bytes) ==
  /\ bytes \in Seq(Octet) /\ Len(c) <= Len(bytes)
  /\ \A i \in 1 .. Len(c) : bytes[i] = c[i]

(* A chunk at the front of bytes is taken for one, and read.               *)
LEMMA FrameRead ==
  ASSUME CrcTyped, NEW t, NEW fl, NEW p, NEW n, Bearing(t, fl, p, n), NEW bytes,
         StartsWith(FrameOf(t, fl, p, n), bytes)
  PROVE  /\ Whole(bytes) /\ Num(Field(bytes, 4, 2)) = Len(p)
         /\ bytes[3] = t /\ bytes[4] = fl /\ Field(bytes, 8, Len(p)) = p
<1> DEFINE c == FrameOf(t, fl, p, n)  m == Len(p)
<1>1. /\ c \in Seq(Octet) /\ m \in Nat /\ Len(c) = 10 + m
      /\ c[1] = 236 /\ c[2] = 1 /\ c[3] = t /\ c[4] = fl
      /\ c[5] + 256 * c[6] = m
      /\ SubSeq(c, 9, 8 + m) = p
      /\ SubSeq(c, 9 + m, 10 + m) = U16(Crc(SubSeq(c, 1, 8 + m)))
  BY FrameIs
<1>2. t \in 1 .. 7
  BY DEF Bearing
<1> HIDE DEF c, m
<1>3. /\ bytes \in Seq(Octet) /\ 10 + m <= Len(bytes) /\ Len(bytes) \in Nat
      /\ \A i \in 1 .. 10 + m : bytes[i] = c[i]
  BY <1>1 DEF StartsWith, c
<1>4. ASSUME NEW a \in Nat, NEW b \in Nat, a >= 1, a - 1 <= b, b <= 10 + m
      PROVE  SubSeq(bytes, a, b) = SubSeq(c, a, b)
  <2>1. \A i \in a .. b : bytes[i] = c[i]
    BY <1>1, <1>3, <1>4
  <2>2. b <= Len(bytes) /\ b <= Len(c)
    BY <1>1, <1>3, <1>4
  <2>3. bytes \in Seq(Octet) /\ c \in Seq(Octet)
    BY <1>1, <1>3
  <2>4. a >= 1 /\ a - 1 <= b
    BY <1>4
  <2> QED
    BY <2>1, <2>2, <2>3, <2>4, SamePiece, SMTT(20)
<1>5. /\ bytes[1] = 236 /\ bytes[2] = 1 /\ bytes[3] = t /\ bytes[4] = fl
      /\ bytes[5] = c[5] /\ bytes[6] = c[6]
  <2>1. \A i \in 1 .. 6 : i \in 1 .. 10 + m
    BY <1>1
  <2> QED
    BY <2>1, <1>1, <1>3
<1>6. Num(Field(bytes, 4, 2)) = m
  <2>1. Field(bytes, 4, 2) = SubSeq(bytes, 5, 6)
    BY DEF Field
  <2>2. SubSeq(bytes, 5, 6)[1] = bytes[5] /\ SubSeq(bytes, 5, 6)[2] = bytes[6]
    <3>1. 5 \in 1 .. Len(bytes) + 1 /\ 6 \in 5 - 1 .. Len(bytes)
      BY <1>1, <1>3
    <3>2. \A i \in 1 .. 6 - 5 + 1 : SubSeq(bytes, 5, 6)[i] = bytes[5 + i - 1]
      BY <3>1, <1>3, PieceIs
    <3>3. 6 - 5 + 1 = 2 /\ 5 + 1 - 1 = 5 /\ 5 + 2 - 1 = 6
      OBVIOUS
    <3> QED
      BY <3>2, <3>3
  <2> QED
    BY <2>1, <2>2, <1>1, <1>5 DEF Num
<1>7. Field(bytes, 8, m) = p
  <2>1. 8 + 1 = 9 /\ 9 \in Nat /\ 8 + m \in Nat /\ 9 >= 1 /\ 9 - 1 <= 8 + m /\ 8 + m <= 10 + m
    BY <1>1
  <2>2. SubSeq(bytes, 9, 8 + m) = SubSeq(c, 9, 8 + m)
    BY <2>1, <1>4
  <2> QED
    BY <2>1, <2>2, <1>1 DEF Field
<1>8. Whole(bytes)
  <2> DEFINE size == Framing + Num(Field(bytes, 4, 2))
  <2>1. size = 10 + m
    BY <1>6 DEF Framing
  <2>2. Field(bytes, size - 2, 2) = SubSeq(c, 9 + m, 10 + m)
    <3>1. size - 2 + 1 = 9 + m /\ size - 2 + 2 = 10 + m
      BY <2>1, <1>1
    <3>2. SubSeq(bytes, 9 + m, 10 + m) = SubSeq(c, 9 + m, 10 + m)
      <4>1. 9 + m \in Nat /\ 10 + m \in Nat /\ 9 + m >= 1 /\ (9 + m) - 1 <= 10 + m /\ 10 + m <= 10 + m
        BY <1>1
      <4> QED
        BY <4>1, <1>4
    <3> HIDE DEF size
    <3> QED
      BY <3>1, <3>2 DEF Field
  <2>3. SubSeq(bytes, 1, size - 2) = SubSeq(c, 1, 8 + m)
    <3>1. size - 2 = 8 + m
      BY <2>1, <1>1
    <3>2. 8 + m \in Nat /\ 1 >= 1 /\ 1 - 1 <= 8 + m /\ 8 + m <= 10 + m /\ 1 \in Nat
      BY <1>1
    <3> HIDE DEF size
    <3> QED
      BY <3>1, <3>2, <1>4
  <2>4. Len(bytes) >= Framing /\ Len(bytes) >= size
    BY <2>1, <1>1, <1>3 DEF Framing
  <2>5. bytes[1] = 236 /\ bytes[2] = 1 /\ bytes[3] \in 1 .. 7
    BY <1>2, <1>5
  <2>6. Field(bytes, size - 2, 2) = U16(Crc(SubSeq(bytes, 1, size - 2)))
    <3> HIDE DEF size
    <3> QED
      BY <2>2, <2>3, <1>1
  <2> QED
    BY <2>4, <2>5, <2>6 DEF Whole
<1> QED
  BY <1>5, <1>6, <1>7, <1>8 DEF m

(* Of a chunk whose end is missing nothing is read.                        *)
LEMMA FrameCut ==
  ASSUME CrcTyped, NEW t, NEW fl, NEW p, NEW n, Bearing(t, fl, p, n),
         NEW bytes \in Seq(Octet), Len(bytes) < Len(FrameOf(t, fl, p, n)),
         \A i \in 1 .. Len(bytes) : bytes[i] = FrameOf(t, fl, p, n)[i]
  PROVE  ~ Whole(bytes)
<1> DEFINE c == FrameOf(t, fl, p, n)  m == Len(p)
<1>1. /\ c \in Seq(Octet) /\ m \in Nat /\ Len(c) = 10 + m
      /\ c[5] + 256 * c[6] = m
  BY FrameIs
<1> HIDE DEF c, m
<1>2. /\ Len(bytes) \in Nat /\ Len(bytes) < 10 + m
      /\ \A i \in 1 .. Len(bytes) : bytes[i] = c[i]
  BY <1>1 DEF c
<1>3. CASE Len(bytes) < 10
  BY <1>2, <1>3 DEF Whole, Framing
<1>4. CASE ~ (Len(bytes) < 10)
  <2>1. Field(bytes, 4, 2) = SubSeq(bytes, 5, 6)
    BY DEF Field
  <2>2. SubSeq(bytes, 5, 6)[1] = bytes[5] /\ SubSeq(bytes, 5, 6)[2] = bytes[6]
    <3>1. 5 \in 1 .. Len(bytes) + 1 /\ 6 \in 5 - 1 .. Len(bytes)
      BY <1>2, <1>4
    <3>2. \A i \in 1 .. 6 - 5 + 1 : SubSeq(bytes, 5, 6)[i] = bytes[5 + i - 1]
      BY <3>1, <1>2, PieceIs
    <3>3. 6 - 5 + 1 = 2 /\ 5 + 1 - 1 = 5 /\ 5 + 2 - 1 = 6
      OBVIOUS
    <3> QED
      BY <3>2, <3>3
  <2>3. bytes[5] = c[5] /\ bytes[6] = c[6]
    BY <1>2, <1>4
  <2>4. Num(Field(bytes, 4, 2)) = m
    BY <2>1, <2>2, <2>3, <1>1 DEF Num
  <2>5. ~ (Len(bytes) >= Framing + Num(Field(bytes, 4, 2)))
    BY <2>4, <1>1, <1>2 DEF Framing
  <2> QED
    BY <2>5 DEF Whole
<1> QED
  BY <1>3, <1>4

-----------------------------------------------------------------------------
(* Wire: a body decoded *)

Rest(bytes, i) == SubSeq(bytes, i, Len(bytes))

(* One round of decode_all_chunks.                                         *)
DecodedAt(bytes, f, i) ==
  LET rest == Rest(bytes, i)
      len  == Num(Field(rest, 4, 2))
  IN  IF ~Whole(rest) THEN <<>>
      ELSE <<[type |-> rest[3], flags |-> rest[4],
              payload |-> Field(rest, 8, len)]>> \o f[i + Framing + len]

(* What is left of bytes from a place on.                                  *)
LEMMA RestAre ==
  ASSUME NEW S, NEW bytes \in Seq(S), NEW i \in 1 .. Len(bytes) + 1
  PROVE  /\ Rest(bytes, i) \in Seq(S) /\ Len(bytes) \in Nat
         /\ Len(Rest(bytes, i)) = Len(bytes) - i + 1
         /\ \A j \in 1 .. Len(bytes) - i + 1 : Rest(bytes, i)[j] = bytes[i + j - 1]
<1>1. Len(bytes) \in i - 1 .. Len(bytes) /\ Len(bytes) \in Nat
  OBVIOUS
<1> QED
  BY <1>1, PieceIs DEF Rest

(* The length a chunk tells is a number, and the chunk ends in the bytes.  *)
LEMMA WholeIs ==
  ASSUME NEW bytes \in Seq(Octet), Whole(bytes)
  PROVE  /\ Num(Field(bytes, 4, 2)) \in Nat
         /\ Framing + Num(Field(bytes, 4, 2)) <= Len(bytes)
<1>1. Len(bytes) \in Nat /\ Len(bytes) >= 10
  BY DEF Whole, Framing
<1>2. Field(bytes, 4, 2) = SubSeq(bytes, 5, 6)
  BY DEF Field
<1>3. SubSeq(bytes, 5, 6)[1] = bytes[5] /\ SubSeq(bytes, 5, 6)[2] = bytes[6]
  <2>1. 5 \in 1 .. Len(bytes) + 1 /\ 6 \in 5 - 1 .. Len(bytes)
    BY <1>1
  <2>2. \A i \in 1 .. 6 - 5 + 1 : SubSeq(bytes, 5, 6)[i] = bytes[5 + i - 1]
    BY <2>1, PieceIs
  <2>3. 6 - 5 + 1 = 2 /\ 5 + 1 - 1 = 5 /\ 5 + 2 - 1 = 6
    OBVIOUS
  <2> QED
    BY <2>2, <2>3
<1>4. bytes[5] \in Nat /\ bytes[6] \in Nat
  <2>1. 5 \in 1 .. Len(bytes) /\ 6 \in 1 .. Len(bytes)
    BY <1>1
  <2>2. bytes[5] \in Octet /\ bytes[6] \in Octet
    BY <2>1, ElementOfSeq
  <2> QED
    BY <2>2, OctetIs
<1>5. Num(Field(bytes, 4, 2)) \in Nat
  BY <1>2, <1>3, <1>4 DEF Num
<1> QED
  BY <1>5 DEF Whole

(* The server decodes frame behind frame.                                  *)
LEMMA DecodedFrom ==
  ASSUME NEW bytes \in Seq(Octet)
  PROVE  \E f : /\ Decoded(bytes) = f[1]
                /\ \A i \in 1 .. Len(bytes) + 1 : f[i] = DecodedAt(bytes, f, i)
<1> DEFINE n == Len(bytes) + 1
           D == 1 .. n
           stop == {i \in D : ~ Whole(Rest(bytes, i))}
           len(i) == Num(Field(Rest(bytes, i), 4, 2))
           next == [i \in D |-> i + Framing + len(i)]
           row(i) == <<[type |-> Rest(bytes, i)[3], flags |-> Rest(bytes, i)[4],
                        payload |-> Field(Rest(bytes, i), 8, len(i))]>>
           head == [i \in D |-> IF i \in stop THEN <<>> ELSE row(i)]
<1>1. n \in Nat
  OBVIOUS
<1>2. Leads(n, stop, next)
  <2> SUFFICES ASSUME NEW i \in 1 .. n, i \notin stop PROVE next[i] \in i + 1 .. n
    BY DEF Leads
  <2>1. /\ Rest(bytes, i) \in Seq(Octet) /\ Len(bytes) \in Nat
        /\ Len(Rest(bytes, i)) = Len(bytes) - i + 1
    BY RestAre
  <2>2. Whole(Rest(bytes, i))
    OBVIOUS
  <2>3. len(i) \in Nat /\ Framing + len(i) <= Len(Rest(bytes, i))
    BY <2>1, <2>2, WholeIs
  <2>4. next[i] = i + Framing + len(i)
    OBVIOUS
  <2> HIDE DEF len, next
  <2> QED
    BY <2>1, <2>3, <2>4 DEF Framing
<1>3. PICK f : Solved(f, n, stop, head, next)
  <2> HIDE DEF n, stop, head, next
  <2> QED
    BY <1>1, <1>2, Unrolls
<1>4. ASSUME NEW g, NEW i \in D PROVE Unrolled(g, stop, head, next, i) = DecodedAt(bytes, g, i)
  <2>1. next[i] = i + Framing + len(i)
    OBVIOUS
  <2>2. head[i] = IF i \in stop THEN <<>> ELSE row(i)
    OBVIOUS
  <2>3. i \in stop <=> ~ Whole(Rest(bytes, i))
    OBVIOUS
  <2> HIDE DEF head, next, stop
  <2> QED
    BY <2>1, <2>2, <2>3 DEF Unrolled, DecodedAt
<1>5. f = [i \in D |-> DecodedAt(bytes, f, i)]
  BY <1>3, <1>4 DEF Solved
<1> DEFINE from == CHOOSE h : h = [i \in 1 .. Len(bytes) + 1 |-> DecodedAt(bytes, h, i)]
<1>6. from = [i \in 1 .. Len(bytes) + 1 |-> DecodedAt(bytes, from, i)]
  BY <1>5
<1>7. Decoded(bytes) = from[1]
  BY DEF Decoded, DecodedAt, Rest
<1> HIDE DEF from
<1>8. \A i \in 1 .. Len(bytes) + 1 : from[i] = DecodedAt(bytes, from, i)
  BY <1>6
<1> QED
  BY <1>7, <1>8

(* The first numbers whose successors keep within a limit.                 *)
LEMMA LastWithin ==
  ASSUME NEW n \in Nat, NEW at, NEW limit
  PROVE  \E m \in 0 .. n : /\ \A k \in 1 .. m : at[k] <= limit
                           /\ m = n \/ ~ (at[m + 1] <= limit)
<1> DEFINE ClosedPack == {m \in 0 .. n : m = n \/ ~ (at[m + 1] <= limit)}
<1>1. ClosedPack \in SUBSET Nat /\ n \in ClosedPack
  OBVIOUS
<1>2. PICK m \in ClosedPack : \A k \in ClosedPack : m <= k
  <2> HIDE DEF ClosedPack
  <2> QED
    BY <1>1, LeastOfNat
<1>3. \A k \in 1 .. m : at[k] <= limit
  <2> SUFFICES ASSUME NEW k \in 1 .. m, ~ (at[k] <= limit) PROVE FALSE
    OBVIOUS
  <2>1. k - 1 \in 0 .. n /\ (k - 1) + 1 = k /\ ~ (m <= k - 1)
    BY <1>2
  <2>2. k - 1 \in ClosedPack
    BY <2>1
  <2> QED
    BY <2>1, <2>2, <1>2
<1> QED
  BY <1>2, <1>3

(* Chunks as they are on the wire.                                         *)
Frames == {c \in Seq(Octet) :
             \E t, fl, p, n : Bearing(t, fl, p, n) /\ c = FrameOf(t, fl, p, n)}

(* The loop around decode_chunk finds, in the beginning of the bytes of    *)
(* chunks, those that came whole and nothing else, whatever is in them.    *)
THEOREM BodyDecoded ==
  ASSUME CrcTyped, NEW x \in Seq(Frames), NEW size \in 0 .. Len(FlattenSeq(x))
  PROVE  /\ FlattenSeq(x) \in Seq(Octet) /\ Len(FlattenSeq(x)) \in Nat
         /\ \E m \in 0 .. Len(x) :
              /\ Decoded(SubSeq(FlattenSeq(x), 1, size)) = [k \in 1 .. m |-> Dec(x[k])]
              /\ size = Len(FlattenSeq(x)) => m = Len(x)
<1> DEFINE n == Len(x)  all == FlattenSeq(x)
<1>1. n \in Nat /\ \A k \in 1 .. n : x[k] \in Frames
  BY ElementOfSeq
<1>2. x \in Seq(Seq(Octet))
  BY SeqMonotonic DEF Frames
<1>3. PICK f : Flattened(Octet, x, f) /\ all = f[n]
  BY <1>2, FlatIs
<1>4. /\ Len(f[0]) = 0
      /\ \A k \in 0 .. n : Len(f[k]) \in 0 .. Len(f[n])
      /\ \A k \in 1 .. n :
           /\ Len(x[k]) \in Nat
           /\ Len(f[k]) = Len(f[k - 1]) + Len(x[k])
           /\ \A i \in 1 .. Len(x[k]) : f[n][Len(f[k - 1]) + i] = x[k][i]
  <2>1. LaidOut(x, f, Len(x))
    BY <1>2, <1>3, FlatPlaces
  <2> HIDE DEF all
  <2> QED
    BY <2>1 DEF LaidOut
<1>5. all \in Seq(Octet) /\ Len(all) \in Nat
  BY <1>2, FlatType
<1> HIDE DEF all, n
<1> DEFINE bytes == SubSeq(all, 1, size)
           at == [k \in 0 .. n |-> Len(f[k])]
<1>6. /\ at[0] = 0 /\ at[n] = Len(all)
      /\ \A k \in 0 .. n : at[k] \in 0 .. Len(all)
      /\ \A k \in 1 .. n : /\ Len(x[k]) \in Nat
                           /\ at[k] = at[k - 1] + Len(x[k])
                           /\ \A i \in 1 .. Len(x[k]) : all[at[k - 1] + i] = x[k][i]
  <2>1. /\ 0 \in 0 .. n /\ n \in 0 .. n
        /\ \A k \in 1 .. n : k \in 0 .. n /\ k - 1 \in 0 .. n
    BY <1>1
  <2>2. \A k \in 0 .. n : at[k] = Len(f[k])
    OBVIOUS
  <2> HIDE DEF at
  <2> QED
    BY <2>1, <2>2, <1>3, <1>4
<1>7. size \in 0 .. Len(all) /\ size \in Nat
  BY <1>5 DEF all
<1>8. /\ bytes \in Seq(Octet) /\ Len(bytes) = size
      /\ \A i \in 1 .. size : bytes[i] = all[i]
  <2>1. 1 \in 1 .. Len(all) + 1 /\ size \in 1 - 1 .. Len(all) /\ size - 1 + 1 = size
    BY <1>5, <1>7
  <2>2. /\ bytes \in Seq(Octet) /\ Len(bytes) = size
        /\ \A i \in 1 .. size : bytes[i] = all[1 + i - 1]
    <3>1. /\ bytes \in Seq(Octet) /\ Len(bytes) = size - 1 + 1
          /\ \A i \in 1 .. size - 1 + 1 : bytes[i] = all[1 + i - 1]
      BY <2>1, <1>5, PieceIs
    <3> QED
      BY <3>1, <2>1
  <2> HIDE DEF bytes
  <2>3. \A i \in 1 .. size : 1 + i - 1 = i
    BY <1>7
  <2> QED
    BY <2>2, <2>3
<1> HIDE DEF bytes, at
<1>9. PICK from : /\ Decoded(bytes) = from[1]
                  /\ \A i \in 1 .. size + 1 : from[i] = DecodedAt(bytes, from, i)
  BY <1>8, DecodedFrom
<1>10. PICK m \in 0 .. n : /\ \A k \in 1 .. m : at[k] <= size
                           /\ m = n \/ ~ (at[m + 1] <= size)
  BY <1>1, LastWithin
<1>11. \A k \in 0 .. m : at[k] \in 0 .. size /\ k \in 0 .. n
  BY <1>1, <1>6, <1>7, <1>10
<1>12. ASSUME NEW k \in 0 .. m
       PROVE  /\ Rest(bytes, at[k] + 1) \in Seq(Octet)
              /\ Len(Rest(bytes, at[k] + 1)) = size - at[k]
              /\ \A j \in 1 .. size - at[k] : Rest(bytes, at[k] + 1)[j] = all[at[k] + j]
  <2> DEFINE i == at[k] + 1  r == Rest(bytes, i)
  <2>1. /\ at[k] \in 0 .. size /\ i \in 1 .. size + 1 /\ size - i + 1 = size - at[k]
        /\ \A j \in 1 .. size - at[k] : i + j - 1 = at[k] + j /\ at[k] + j \in 1 .. size
    <3> DEFINE a == at[k]
    <3>1. a \in 0 .. size
      BY <1>11
    <3> HIDE DEF a
    <3>2. /\ a \in 0 .. size /\ a + 1 \in 1 .. size + 1 /\ size - (a + 1) + 1 = size - a
          /\ \A j \in 1 .. size - a : (a + 1) + j - 1 = a + j /\ a + j \in 1 .. size
      BY <3>1, <1>7
    <3> QED
      BY <3>2 DEF a
  <2> HIDE DEF i
  <2>2. /\ r \in Seq(Octet) /\ Len(r) = size - i + 1
        /\ \A j \in 1 .. size - i + 1 : r[j] = bytes[i + j - 1]
    BY <2>1, <1>8, RestAre, ZenonT(40)
  <2> HIDE DEF r
  <2>3. r \in Seq(Octet) /\ Len(r) = size - at[k] /\ \A j \in 1 .. size - at[k] : r[j] = all[at[k] + j]
    BY <2>1, <2>2, <1>8
  <2> QED
    BY <2>3 DEF r, i
<1>13. ASSUME NEW k \in 1 .. m
       PROVE  from[at[k - 1] + 1] = <<Dec(x[k])>> \o from[at[k] + 1]
  <2>1. k - 1 \in 0 .. m /\ k \in 0 .. m /\ k \in 1 .. n
    BY <1>1, <1>10
  <2>2. x[k] \in Frames
    BY <2>1, <1>1
  <2>3. PICK t, fl, p, q : Bearing(t, fl, p, q) /\ x[k] = FrameOf(t, fl, p, q)
    BY <2>2 DEF Frames
  <2> DEFINE r == Rest(bytes, at[k - 1] + 1)
  <2>4. /\ r \in Seq(Octet) /\ Len(r) = size - at[k - 1]
        /\ \A j \in 1 .. size - at[k - 1] : r[j] = all[at[k - 1] + j]
    BY <2>1, <1>12
  <2> HIDE DEF r
  <2>5. /\ at[k] <= size /\ at[k] = at[k - 1] + Len(x[k]) /\ Len(x[k]) \in Nat
        /\ at[k - 1] \in Nat
        /\ \A j \in 1 .. Len(x[k]) : all[at[k - 1] + j] = x[k][j]
    BY <2>1, <1>6, <1>10, <1>11
  <2>6. StartsWith(x[k], r)
    <3>1. Len(x[k]) <= size - at[k - 1]
      BY <2>5, <1>7
    <3>2. \A j \in 1 .. Len(x[k]) : j \in 1 .. size - at[k - 1]
      BY <3>1, <2>5, <1>7
    <3> QED
      BY <3>1, <3>2, <2>4, <2>5 DEF StartsWith
  <2>7. /\ Whole(r) /\ Num(Field(r, 4, 2)) = Len(p)
        /\ r[3] = t /\ r[4] = fl /\ Field(r, 8, Len(p)) = p
    BY <2>3, <2>6, FrameRead
  <2>8. Dec(x[k]) = [type |-> t, flags |-> fl, payload |-> p]
    BY <2>3, DecIs
  <2>9. (at[k - 1] + 1) + Framing + Len(p) = at[k] + 1
    <3>1. Len(p) \in Nat /\ Len(x[k]) = 10 + Len(p)
      BY <2>3, FrameIs
    <3> DEFINE a == at[k - 1]  b == at[k]  l == Len(p)
    <3>2. a \in Nat /\ l \in Nat /\ b = a + (10 + l)
      BY <3>1, <2>5
    <3> HIDE DEF a, b, l
    <3>3. (a + 1) + 10 + l = b + 1
      BY <3>2
    <3> QED
      BY <3>3 DEF a, b, l, Framing
  <2>10. from[at[k - 1] + 1] = DecodedAt(bytes, from, at[k - 1] + 1)
    <3>1. at[k - 1] + 1 \in 1 .. size + 1
      BY <2>1, <1>7, <1>11
    <3> QED
      BY <3>1, <1>9
  <2> QED
    BY <2>7, <2>8, <2>9, <2>10 DEF DecodedAt, r
<1>14. from[at[m] + 1] = <<>>
  <2> DEFINE r == Rest(bytes, at[m] + 1)
  <2>1. m \in 0 .. m /\ at[m] \in 0 .. size
    BY <1>10, <1>11
  <2>2. /\ r \in Seq(Octet) /\ Len(r) = size - at[m]
        /\ \A j \in 1 .. size - at[m] : r[j] = all[at[m] + j]
    BY <2>1, <1>12
  <2> HIDE DEF r
  <2>3. ~ Whole(r)
    <3>1. CASE m = n
      <4>1. Len(r) = 0
        BY <3>1, <2>1, <2>2, <1>6, <1>7
      <4> QED
        BY <4>1 DEF Whole, Framing
    <3>2. CASE m # n
      <4> DEFINE k == m + 1  c == x[k]
      <4>1. k \in 1 .. n /\ k - 1 = m
        BY <3>2, <1>1, <1>10
      <4>2. /\ Len(c) \in Nat /\ at[k] = at[m] + Len(c)
            /\ \A i \in 1 .. Len(c) : all[at[m] + i] = c[i]
        BY <4>1, <1>6
      <4>3. ~ (at[k] <= size)
        BY <3>2, <1>10
      <4>4. PICK t, fl, p, q : Bearing(t, fl, p, q) /\ c = FrameOf(t, fl, p, q)
        BY <4>1, <1>1 DEF Frames
      <4> HIDE DEF c, k
      <4>5. Len(r) < Len(c) /\ \A j \in 1 .. Len(r) : j \in 1 .. Len(c)
        BY <4>2, <4>3, <2>1, <2>2, <1>7
      <4>6. \A j \in 1 .. Len(r) : r[j] = c[j]
        BY <4>2, <4>5, <2>2
      <4> QED
        BY <4>4, <4>5, <4>6, <2>2, FrameCut
    <3> QED
      BY <3>1, <3>2
  <2>4. from[at[m] + 1] = DecodedAt(bytes, from, at[m] + 1)
    <3>1. at[m] + 1 \in 1 .. size + 1
      BY <2>1, <1>7
    <3> QED
      BY <3>1, <1>9
  <2> QED
    BY <2>3, <2>4 DEF DecodedAt, r
<1> DEFINE v == [k \in 1 .. m |-> Dec(x[k])]
           to == [k \in 0 .. n |-> at[k] + 1]
           T == {Dec(x[k]) : k \in 1 .. m}
<1>15. /\ v \in Seq(T) /\ Len(v) = m /\ m \in Nat
       /\ \A k \in 1 .. m : v[k] = Dec(x[k])
  <2>1. m \in Nat /\ \A k \in 1 .. m : Dec(x[k]) \in T
    BY <1>10
  <2>2. \A k \in 1 .. m : v[k] = Dec(x[k])
    OBVIOUS
  <2>3. v \in [1 .. m -> T]
    BY <2>1
  <2> HIDE DEF T, v
  <2> QED
    BY <2>1, <2>2, <2>3
<1>16. Chain(from, to, v)
  <2>1. /\ m \in 0 .. n
        /\ \A k \in 1 .. m : k \in 0 .. n /\ k - 1 \in 0 .. n
    BY <1>1, <1>10
  <2>2. \A k \in 0 .. n : to[k] = at[k] + 1
    OBVIOUS
  <2> HIDE DEF to, v
  <2> QED
    BY <2>1, <2>2, <1>13, <1>14, <1>15 DEF Chain
<1>17. to[0] = 1
  <2>1. 0 \in 0 .. n
    BY <1>1
  <2>2. to[0] = at[0] + 1
    BY <2>1
  <2> HIDE DEF to
  <2> QED
    BY <2>2, <1>6
<1>18. Decoded(bytes) = v
  <2> HIDE DEF to, v, T
  <2> QED
    BY <1>9, <1>15, <1>16, <1>17, ChainIs
<1>19. size = Len(all) => m = n
  <2>1. CASE m # n
    <3>1. m + 1 \in 0 .. n /\ ~ (at[m + 1] <= size)
      BY <2>1, <1>1, <1>10
    <3>2. at[m + 1] \in 0 .. Len(all)
      BY <3>1, <1>6
    <3> QED
      BY <3>1, <3>2, <1>5
  <2> QED
    BY <2>1
<1> QED
  BY <1>5, <1>10, <1>18, <1>19 DEF bytes, all, n

-----------------------------------------------------------------------------
(* Wire: fields of a payload *)

(* x lies in p behind the first off bytes.                                 *)
Lies(x, p, off) ==
  /\ x \in Seq(Octet) /\ p \in Seq(Octet) /\ off \in Nat /\ off + Len(x) <= Len(p)
  /\ \A i \in 1 .. Len(x) : p[off + i] = x[i]

(* A field that lies in a payload is read from there.                      *)
LEMMA LiesField ==
  ASSUME NEW x, NEW p, NEW off, Lies(x, p, off)
  PROVE  Field(p, off, Len(x)) = x
<1>1. /\ x \in Seq(Octet) /\ p \in Seq(Octet) /\ off \in Nat /\ off + Len(x) <= Len(p)
      /\ \A i \in 1 .. Len(x) : p[off + i] = x[i]
  BY DEF Lies
<1>2. SubSeq(p, off + 1, off + Len(x)) = x
  BY <1>1, PieceEquals
<1> QED
  BY <1>2 DEF Field

(* What lies in a part lies in the whole, further on.                      *)
LEMMA LiesIn ==
  ASSUME NEW x, NEW p, NEW off, Lies(x, p, off), NEW q, NEW to, Lies(p, q, to)
  PROVE  Lies(x, q, to + off)
<1>1. /\ x \in Seq(Octet) /\ p \in Seq(Octet) /\ off \in Nat /\ off + Len(x) <= Len(p)
      /\ \A i \in 1 .. Len(x) : p[off + i] = x[i]
  BY DEF Lies
<1>2. /\ q \in Seq(Octet) /\ to \in Nat /\ to + Len(p) <= Len(q)
      /\ \A i \in 1 .. Len(p) : q[to + i] = p[i]
  BY DEF Lies
<1>3. Len(x) \in Nat /\ Len(p) \in Nat /\ Len(q) \in Nat
  BY <1>1, <1>2
<1>4. ASSUME NEW i \in 1 .. Len(x) PROVE q[(to + off) + i] = x[i]
  <2>1. off + i \in 1 .. Len(p) /\ to + (off + i) = (to + off) + i
    BY <1>1, <1>2, <1>3
  <2>2. q[to + (off + i)] = p[off + i] /\ p[off + i] = x[i]
    BY <2>1, <1>1, <1>2
  <2> QED
    BY <2>1, <2>2
<1>5. to + off \in Nat /\ (to + off) + Len(x) <= Len(q)
  BY <1>1, <1>2, <1>3
<1> QED
  BY <1>1, <1>2, <1>4, <1>5 DEF Lies

(* The two parts of a concatenation.                                       *)
LEMMA LiesTwo ==
  ASSUME NEW a \in Seq(Octet), NEW b \in Seq(Octet)
  PROVE  /\ a \o b \in Seq(Octet) /\ Len(a) \in Nat /\ Len(b) \in Nat
         /\ Len(a \o b) = Len(a) + Len(b)
         /\ Lies(a, a \o b, 0) /\ Lies(b, a \o b, Len(a))
<1> DEFINE d == a \o b
<1>1. Joined(Octet, d, Len(a), Len(b), a, b)
  BY JoinedIs
<1>2. Len(a) \in Nat /\ Len(b) \in Nat
  OBVIOUS
<1> HIDE DEF d
<1>3. d \in Seq(Octet) /\ Len(d) = Len(a) + Len(b)
  BY <1>1 DEF Joined
<1>4. Lies(b, d, Len(a))
  BY <1>1, <1>2, <1>3 DEF Joined, Lies
<1>5. Lies(a, d, 0)
  <2>1. \A i \in 1 .. Len(a) : d[0 + i] = a[i]
    BY <1>1, <1>2 DEF Joined
  <2>2. 0 + Len(a) <= Len(d) /\ 0 \in Nat
    BY <1>2, <1>3
  <2> QED
    BY <2>1, <2>2, <1>3 DEF Lies
<1> QED
  BY <1>2, <1>3, <1>4, <1>5 DEF d

(* What lies in the first part lies in the whole.                          *)
LEMMA LiesFirst ==
  ASSUME NEW x, NEW a, NEW off, Lies(x, a, off), NEW b \in Seq(Octet)
  PROVE  Lies(x, a \o b, off)
<1>1. a \in Seq(Octet) /\ off \in Nat
  BY DEF Lies
<1>2. Lies(a, a \o b, 0)
  BY <1>1, LiesTwo
<1>3. Lies(x, a \o b, 0 + off)
  BY <1>2, LiesIn
<1>4. 0 + off = off
  BY <1>1
<1> QED
  BY <1>3, <1>4

(* Four to six parts.                                                      *)
Parts4(p, a, b, c, d) ==
  /\ p \in Seq(Octet) /\ Len(p) = Len(a) + Len(b) + Len(c) + Len(d)
  /\ Len(a) \in Nat /\ Len(b) \in Nat /\ Len(c) \in Nat /\ Len(d) \in Nat
  /\ Lies(a, p, 0) /\ Lies(b, p, Len(a))
  /\ Lies(c, p, Len(a) + Len(b)) /\ Lies(d, p, Len(a) + Len(b) + Len(c))

(* Where four parts lie in what they make up.                              *)
LEMMA FourParts ==
  ASSUME NEW a \in Seq(Octet), NEW b \in Seq(Octet), NEW c \in Seq(Octet),
         NEW d \in Seq(Octet)
  PROVE  Parts4(a \o b \o c \o d, a, b, c, d)
<1> DEFINE e == a \o b  f == e \o c  g == f \o d
<1>1. /\ e \in Seq(Octet) /\ Len(a) \in Nat /\ Len(b) \in Nat
      /\ Len(e) = Len(a) + Len(b)
      /\ Lies(a, e, 0) /\ Lies(b, e, Len(a))
  BY LiesTwo
<1> HIDE DEF e
<1>2. /\ f \in Seq(Octet) /\ Len(c) \in Nat /\ Len(f) = Len(e) + Len(c)
      /\ Lies(a, f, 0) /\ Lies(b, f, Len(a)) /\ Lies(c, f, Len(e))
  BY <1>1, LiesTwo, LiesFirst
<1> HIDE DEF f
<1>3. /\ g \in Seq(Octet) /\ Len(d) \in Nat /\ Len(g) = Len(f) + Len(d)
      /\ Lies(a, g, 0) /\ Lies(b, g, Len(a)) /\ Lies(c, g, Len(e)) /\ Lies(d, g, Len(f))
  BY <1>2, LiesTwo, LiesFirst
<1> HIDE DEF g
<1>4. Parts4(g, a, b, c, d)
  BY <1>1, <1>2, <1>3 DEF Parts4
<1> QED
  BY <1>4 DEF g, f, e

Parts5(p, a, b, c, d, e) ==
  /\ p \in Seq(Octet) /\ Len(p) = Len(a) + Len(b) + Len(c) + Len(d) + Len(e)
  /\ Len(a) \in Nat /\ Len(b) \in Nat /\ Len(c) \in Nat /\ Len(d) \in Nat
  /\ Len(e) \in Nat
  /\ Lies(a, p, 0) /\ Lies(b, p, Len(a))
  /\ Lies(c, p, Len(a) + Len(b)) /\ Lies(d, p, Len(a) + Len(b) + Len(c))
  /\ Lies(e, p, Len(a) + Len(b) + Len(c) + Len(d))

(* Where five parts lie in what they make up.                              *)
LEMMA FiveParts ==
  ASSUME NEW a \in Seq(Octet), NEW b \in Seq(Octet), NEW c \in Seq(Octet),
         NEW d \in Seq(Octet), NEW e \in Seq(Octet)
  PROVE  Parts5(a \o b \o c \o d \o e, a, b, c, d, e)
<1> DEFINE f == a \o b \o c \o d  g == f \o e
<1>1. Parts4(f, a, b, c, d)
  BY FourParts
<1> HIDE DEF f
<1>2. /\ f \in Seq(Octet) /\ Len(f) = Len(a) + Len(b) + Len(c) + Len(d)
      /\ Len(a) \in Nat /\ Len(b) \in Nat /\ Len(c) \in Nat /\ Len(d) \in Nat
      /\ Lies(a, f, 0) /\ Lies(b, f, Len(a))
      /\ Lies(c, f, Len(a) + Len(b)) /\ Lies(d, f, Len(a) + Len(b) + Len(c))
  BY <1>1 DEF Parts4
<1>3. /\ g \in Seq(Octet) /\ Len(e) \in Nat /\ Len(g) = Len(f) + Len(e)
      /\ Lies(e, g, Len(f))
  BY <1>2, LiesTwo
<1>4. /\ Lies(a, g, 0) /\ Lies(b, g, Len(a))
      /\ Lies(c, g, Len(a) + Len(b)) /\ Lies(d, g, Len(a) + Len(b) + Len(c))
  BY <1>2, LiesFirst
<1> HIDE DEF g
<1>5. Parts5(g, a, b, c, d, e)
  BY <1>2, <1>3, <1>4 DEF Parts5
<1> QED
  BY <1>5 DEF g, f

Parts6(p, a, b, c, d, e, f) ==
  /\ p \in Seq(Octet)
  /\ Len(p) = Len(a) + Len(b) + Len(c) + Len(d) + Len(e) + Len(f)
  /\ Len(a) \in Nat /\ Len(b) \in Nat /\ Len(c) \in Nat /\ Len(d) \in Nat
  /\ Len(e) \in Nat /\ Len(f) \in Nat
  /\ Lies(a, p, 0) /\ Lies(b, p, Len(a))
  /\ Lies(c, p, Len(a) + Len(b)) /\ Lies(d, p, Len(a) + Len(b) + Len(c))
  /\ Lies(e, p, Len(a) + Len(b) + Len(c) + Len(d))
  /\ Lies(f, p, Len(a) + Len(b) + Len(c) + Len(d) + Len(e))

(* Where six parts lie in what they make up.                               *)
LEMMA SixParts ==
  ASSUME NEW a \in Seq(Octet), NEW b \in Seq(Octet), NEW c \in Seq(Octet),
         NEW d \in Seq(Octet), NEW e \in Seq(Octet), NEW f \in Seq(Octet)
  PROVE  Parts6(a \o b \o c \o d \o e \o f, a, b, c, d, e, f)
<1> DEFINE h == a \o b \o c \o d \o e  g == h \o f
<1>1. Parts5(h, a, b, c, d, e)
  BY FiveParts
<1> HIDE DEF h
<1>2. /\ h \in Seq(Octet) /\ Len(h) = Len(a) + Len(b) + Len(c) + Len(d) + Len(e)
      /\ Len(a) \in Nat /\ Len(b) \in Nat /\ Len(c) \in Nat /\ Len(d) \in Nat
      /\ Len(e) \in Nat
      /\ Lies(a, h, 0) /\ Lies(b, h, Len(a))
      /\ Lies(c, h, Len(a) + Len(b)) /\ Lies(d, h, Len(a) + Len(b) + Len(c))
      /\ Lies(e, h, Len(a) + Len(b) + Len(c) + Len(d))
  BY <1>1 DEF Parts5
<1>3. /\ g \in Seq(Octet) /\ Len(f) \in Nat /\ Len(g) = Len(h) + Len(f)
      /\ Lies(f, g, Len(h))
  BY <1>2, LiesTwo
<1>4. /\ Lies(a, g, 0) /\ Lies(b, g, Len(a))
      /\ Lies(c, g, Len(a) + Len(b)) /\ Lies(d, g, Len(a) + Len(b) + Len(c))
      /\ Lies(e, g, Len(a) + Len(b) + Len(c) + Len(d))
  BY <1>2, LiesFirst
<1> HIDE DEF g
<1>5. Parts6(g, a, b, c, d, e, f)
  BY <1>2, <1>3, <1>4 DEF Parts6
<1> QED
  BY <1>5 DEF g, h

(* Bytes of a record's field.                                              *)
LEMMA OctetsAre ==
  ASSUME NEW n \in Nat, NEW x \in Octets(n)
  PROVE  x \in Seq(Octet) /\ Len(x) = n
BY DEF Octets

(* A byte is a sequence of one.                                            *)
LEMMA OneOctet ==
  ASSUME NEW x \in Octet
  PROVE  <<x>> \in Seq(Octet) /\ Len(<<x>>) = 1 /\ <<x>>[1] = x
OBVIOUS

(* Words one after the other.                                              *)
LEMMA WordsAre ==
  ASSUME NEW n \in Nat, NEW x \in [1 .. n -> Octets(4)]
  PROVE  /\ x \in Seq(Seq(Octet)) /\ FlattenSeq(x) \in Seq(Octet)
         /\ Len(FlattenSeq(x)) = 4 * n
         /\ \A k \in 1 .. n : Lies(x[k], FlattenSeq(x), 4 * (k - 1)) /\ Len(x[k]) = 4
<1>1. \A k \in 1 .. n : x[k] \in Seq(Octet) /\ Len(x[k]) = 4
  BY OctetsAre
<1>2. x \in Seq(Seq(Octet)) /\ Len(x) = n
  <2> DEFINE T == Seq(Octet)
  <2>1. x \in [1 .. n -> T]
    BY <1>1
  <2> HIDE DEF T
  <2>2. x \in Seq(T) /\ Len(x) = n
    BY <2>1
  <2> QED
    BY <2>2 DEF T
<1>3. PICK f : Flattened(Octet, x, f) /\ FlattenSeq(x) = f[n]
  BY <1>2, FlatIs
<1>4. LaidOut(x, f, n)
  BY <1>2, <1>3, FlatPlaces
<1> DEFINE Good == {k \in 0 .. n : Len(f[k]) = 4 * k}
<1>5. 0 \in Good
  BY <1>4 DEF LaidOut
<1>6. ASSUME NEW k \in 1 .. n, k - 1 \in Good PROVE k \in Good
  <2>1. Len(f[k]) = Len(f[k - 1]) + Len(x[k])
    BY <1>4 DEF LaidOut
  <2>2. Len(f[k - 1]) = 4 * (k - 1) /\ Len(x[k]) = 4
    BY <1>1, <1>6
  <2>3. 4 * (k - 1) + 4 = 4 * k /\ k \in 0 .. n
    OBVIOUS
  <2> QED
    BY <2>1, <2>2, <2>3
<1>7. \A k \in 0 .. n : Len(f[k]) = 4 * k
  <2>1. \A k \in 0 .. n : k \in Good
    <3> HIDE DEF Good
    <3> QED
      BY <1>5, <1>6, Climbs
  <2> QED
    BY <2>1
<1>8. f[n] \in Seq(Octet) /\ n \in 0 .. n
  BY <1>2, <1>3, FlatType
<1>9. Len(f[n]) = 4 * n
  BY <1>7, <1>8
<1>10. ASSUME NEW k \in 1 .. n PROVE Lies(x[k], f[n], 4 * (k - 1))
  <2>1. /\ k - 1 \in 0 .. n /\ 4 * (k - 1) \in Nat
        /\ 4 * (k - 1) + 4 <= 4 * n
    OBVIOUS
  <2>2. Len(f[k - 1]) = 4 * (k - 1)
    BY <2>1, <1>7
  <2>3. \A i \in 1 .. Len(x[k]) : f[n][Len(f[k - 1]) + i] = x[k][i]
    BY <1>4 DEF LaidOut
  <2>4. x[k] \in Seq(Octet) /\ Len(x[k]) = 4
    BY <1>1
  <2> DEFINE y == x[k]  off == 4 * (k - 1)
  <2>5. y \in Seq(Octet) /\ off \in Nat /\ off + Len(y) <= Len(f[n])
        /\ \A i \in 1 .. Len(y) : f[n][off + i] = y[i]
    <3> HIDE DEF y, off
    <3>1. Len(y) = 4 /\ off \in Nat /\ off + 4 <= 4 * n
      BY <2>1, <2>4 DEF y, off
    <3> QED
      BY <3>1, <2>2, <2>3, <2>4, <1>9 DEF y, off
  <2> HIDE DEF y, off
  <2>6. Lies(y, f[n], off)
    BY <2>5, <1>8 DEF Lies
  <2> QED
    BY <2>6 DEF y, off
<1> QED
  BY <1>1, <1>2, <1>3, <1>8, <1>9, <1>10

-----------------------------------------------------------------------------
(* Wire: what is read of a payload *)

RowsFor(t, p) == Rows([type |-> t, flags |-> 0, payload |-> p])

(* A record of one payload and one row.                                    *)
Simple(r, p) ==
  /\ Payloads(r) = <<p>> /\ p \in Seq(Octet) /\ Len(p) <= MaxPlain
  /\ Type[r.kind] \in 1 .. 7 /\ RowsFor(Type[r.kind], p) = Due(r)
  /\ \E w : Due(r) = <<w>>

(* How much a build with encryption puts into a chunk.                     *)
LEMMA MaxPlainIs == MaxPlain = 225
BY DEF MaxPlain, MaxChunk, Framing, NonceSize, TagSize

(* A heartbeat is read field by field.                                     *)
LEMMA HeartbeatRead ==
  ASSUME NEW r \in Record, r.kind = "heartbeat"
  PROVE  \E p : Simple(r, p)
<1> DEFINE u == r.uptime  s == r.stack  m == r.metrics  l == r.lost  k == r.key
           p == u \o s \o m \o l \o k
<1>1. r \in [kind : {"heartbeat"}, uptime : Octets(8), stack : Octets(4),
             metrics : Octets(4), lost : Octets(4), key : Octets(4)]
  BY DEF Record
<1>2. /\ r = [kind |-> "heartbeat", uptime |-> u, stack |-> s, metrics |-> m,
              lost |-> l, key |-> k]
      /\ u \in Octets(8) /\ s \in Octets(4) /\ m \in Octets(4) /\ l \in Octets(4)
      /\ k \in Octets(4)
  BY <1>1
<1>3. Payloads(r) = <<p>> /\ Due(r) = <<r>> /\ Type[r.kind] = 1
  <2>1. Payloads(r) = <<p>>
    BY DEF Payloads
  <2>2. Due(r) = <<r>>
    BY DEF Due
  <2>3. Type[r.kind] = 1
    BY DEF Type
  <2> QED
    BY <2>1, <2>2, <2>3
<1>4. RowsFor(1, p) = HeartbeatRow(p)
  BY DEF RowsFor, Rows
<1> HIDE DEF u, s, m, l, k
<1>5. /\ u \in Seq(Octet) /\ s \in Seq(Octet) /\ m \in Seq(Octet) /\ l \in Seq(Octet)
      /\ k \in Seq(Octet) /\ Len(u) = 8 /\ Len(s) = 4 /\ Len(m) = 4 /\ Len(l) = 4
      /\ Len(k) = 4
  BY <1>2, OctetsAre
<1>6. Parts5(p, u, s, m, l, k)
  BY <1>5, FiveParts
<1> HIDE DEF p
<1>7. /\ p \in Seq(Octet) /\ Len(p) = 24
      /\ Lies(u, p, 0) /\ Lies(s, p, 8) /\ Lies(m, p, 12) /\ Lies(l, p, 16)
      /\ Lies(k, p, 20)
  BY <1>5, <1>6 DEF Parts5
<1>8. /\ Field(p, 0, 8) = u /\ Field(p, 8, 4) = s /\ Field(p, 12, 4) = m
      /\ Field(p, 16, 4) = l /\ Field(p, 20, 4) = k
  BY <1>5, <1>7, LiesField, ZenonT(40)
<1>9. HeartbeatRow(p) = <<r>>
  BY <1>2, <1>7, <1>8 DEF HeartbeatRow
<1> HIDE DEF p
<1>10. Simple(r, p)
  BY <1>3, <1>4, <1>7, <1>9, MaxPlainIs DEF Simple
<1> QED
  BY <1>10

(* A reboot reason is read field by field.                                 *)
LEMMA RebootRead ==
  ASSUME NEW r \in Record, r.kind = "reboot"
  PROVE  \E p : Simple(r, p)
<1> DEFINE a == r.reason  b == r.extra  c == r.boot  d == r.uptime
           p == a \o b \o c \o d
<1>1. r \in [kind : {"reboot"}, reason : Octets(1), extra : Octets(1),
             boot : Octets(4), uptime : Octets(4)]
  BY DEF Record
<1>2. /\ r = [kind |-> "reboot", reason |-> a, extra |-> b, boot |-> c, uptime |-> d]
      /\ a \in Octets(1) /\ b \in Octets(1) /\ c \in Octets(4) /\ d \in Octets(4)
  BY <1>1
<1>3. Payloads(r) = <<p>> /\ Due(r) = <<r>> /\ Type[r.kind] = 5
  <2>1. Payloads(r) = <<p>>
    BY DEF Payloads
  <2>2. Due(r) = <<r>>
    BY DEF Due
  <2>3. Type[r.kind] = 5
    BY DEF Type
  <2> QED
    BY <2>1, <2>2, <2>3
<1>4. RowsFor(5, p) = RebootRow(p)
  BY DEF RowsFor, Rows
<1> HIDE DEF a, b, c, d
<1>5. /\ a \in Seq(Octet) /\ b \in Seq(Octet) /\ c \in Seq(Octet) /\ d \in Seq(Octet)
      /\ Len(a) = 1 /\ Len(b) = 1 /\ Len(c) = 4 /\ Len(d) = 4
  BY <1>2, OctetsAre
<1>6. Parts4(p, a, b, c, d)
  BY <1>5, FourParts
<1> HIDE DEF p
<1>7. /\ p \in Seq(Octet) /\ Len(p) = 10
      /\ Lies(a, p, 0) /\ Lies(b, p, 1) /\ Lies(c, p, 2) /\ Lies(d, p, 6)
  BY <1>5, <1>6 DEF Parts4
<1>8. /\ Field(p, 0, 1) = a /\ Field(p, 1, 1) = b /\ Field(p, 2, 4) = c
      /\ Field(p, 6, 4) = d
  BY <1>5, <1>7, LiesField
<1>9. RebootRow(p) = <<r>>
  BY <1>2, <1>7, <1>8 DEF RebootRow
<1> HIDE DEF p
<1>10. Simple(r, p)
  BY <1>3, <1>4, <1>7, <1>9, MaxPlainIs DEF Simple
<1> QED
  BY <1>10

(* A request for firmware is read field by field.                          *)
LEMMA OtaRead ==
  ASSUME NEW r \in Record, r.kind = "ota"
  PROVE  \E p : Simple(r, p)
<1> DEFINE a == r.build  b == r.max  c == <<1>>  d == r.flags  e == <<0, 0>>
           p == a \o b \o c \o d \o e
           w == [kind |-> "ota", build |-> a, max |-> b, capable |-> TRUE,
                 rolledBack |-> Has(d[1], 1)]
<1>1. r \in [kind : {"ota"}, build : Octets(8), max : Octets(2), flags : Octets(1)]
  BY DEF Record
<1>2. a \in Octets(8) /\ b \in Octets(2) /\ d \in Octets(1)
  BY <1>1
<1>3. Payloads(r) = <<p>> /\ Due(r) = <<w>> /\ Type[r.kind] = 7
  <2>1. Payloads(r) = <<p>>
    BY DEF Payloads
  <2>2. Due(r) = <<w>>
    BY DEF Due
  <2>3. Type[r.kind] = 7
    BY DEF Type
  <2> QED
    BY <2>1, <2>2, <2>3
<1>4. RowsFor(7, p) = OtaRow(p)
  BY DEF RowsFor, Rows
<1>5. /\ c \in Seq(Octet) /\ e \in Seq(Octet) /\ Len(c) = 1 /\ Len(e) = 2 /\ c[1] = 1
  <2>1. 0 \in Octet /\ 1 \in Octet
    BY OctetIs
  <2> QED
    BY <2>1
<1> HIDE DEF a, b, c, d, e
<1>6. /\ a \in Seq(Octet) /\ b \in Seq(Octet) /\ d \in Seq(Octet)
      /\ Len(a) = 8 /\ Len(b) = 2 /\ Len(d) = 1
  BY <1>2, OctetsAre
<1>7. Parts5(p, a, b, c, d, e)
  BY <1>5, <1>6, FiveParts
<1> HIDE DEF p
<1>8. /\ p \in Seq(Octet) /\ Len(p) = 14
      /\ Lies(a, p, 0) /\ Lies(b, p, 8) /\ Lies(c, p, 10) /\ Lies(d, p, 11)
  BY <1>5, <1>6, <1>7 DEF Parts5
<1>9. Field(p, 0, 8) = a /\ Field(p, 8, 2) = b
  BY <1>6, <1>8, LiesField
<1>10. p[11] = 1 /\ p[12] = d[1]
  <2>1. p[10 + 1] = c[1] /\ p[11 + 1] = d[1]
    BY <1>5, <1>6, <1>8 DEF Lies
  <2> QED
    BY <2>1, <1>5
<1>11. OtaRow(p) = <<w>>
  <2> DEFINE capable == p[11] # 0
  <2>1. capable = TRUE
    BY <1>10
  <2>2. ~ (Len(p) < 14)
    BY <1>8
  <2>3. OtaRow(p) = <<[kind |-> "ota", build |-> a, max |-> b, capable |-> capable,
                      rolledBack |-> Has(d[1], 1)]>>
    BY <2>2, <1>9, <1>10, Zenon DEF OtaRow
  <2> HIDE DEF capable
  <2> QED
    BY <2>1, <2>3, Zenon
<1> HIDE DEF p
<1>12. Simple(r, p)
  BY <1>3, <1>4, <1>8, <1>11, MaxPlainIs DEF Simple
<1> QED
  BY <1>12

(* A fault record is read field by field, registers and stack in order.    *)
LEMMA FaultRead ==
  ASSUME NEW r \in Record, r.kind = "fault"
  PROVE  \E p : Simple(r, p)
<1> DEFINE x1 == r.frame  x2 == r.extended  x3 == r.stack  x4 == r.status
           f1 == FlattenSeq(x1)  f2 == FlattenSeq(x2)
           f3 == FlattenSeq(x3)  f4 == FlattenSeq(x4)
           a == r.type
           q == FlattenSeq(x1 \o x2 \o x3 \o x4)
           p == a \o q
           w == [kind |-> "fault", type |-> a, lr |-> x1[6], pc |-> x1[7],
                 sp |-> x2[9], stack |-> f3, status |-> f4]
<1>1. r \in [kind : {"fault"}, type : Octets(1), frame : [1 .. 8 -> Octets(4)],
             extended : [1 .. 9 -> Octets(4)], stack : [1 .. 16 -> Octets(4)],
             status : [1 .. 4 -> Octets(4)]]
  BY DEF Record
<1>2. /\ a \in Octets(1) /\ x1 \in [1 .. 8 -> Octets(4)] /\ x2 \in [1 .. 9 -> Octets(4)]
      /\ x3 \in [1 .. 16 -> Octets(4)] /\ x4 \in [1 .. 4 -> Octets(4)]
  BY <1>1
<1>3. Payloads(r) = <<p>> /\ Due(r) = <<w>> /\ Type[r.kind] = 3
  <2>1. Payloads(r) = <<p>>
    BY DEF Payloads, FaultPayload
  <2>2. Due(r) = <<w>>
    BY DEF Due
  <2>3. Type[r.kind] = 3
    BY DEF Type
  <2> QED
    BY <2>1, <2>2, <2>3
<1>4. RowsFor(3, p) = FaultRow(p)
  BY DEF RowsFor, Rows
<1> HIDE DEF a, x1, x2, x3, x4
<1>5. a \in Seq(Octet) /\ Len(a) = 1
  BY <1>2, OctetsAre
<1>6. /\ x1 \in Seq(Seq(Octet)) /\ x2 \in Seq(Seq(Octet)) /\ x3 \in Seq(Seq(Octet))
      /\ x4 \in Seq(Seq(Octet))
      /\ f1 \in Seq(Octet) /\ f2 \in Seq(Octet) /\ f3 \in Seq(Octet) /\ f4 \in Seq(Octet)
      /\ Len(f1) = 32 /\ Len(f2) = 36 /\ Len(f3) = 64 /\ Len(f4) = 16
  <2>1. x1 \in Seq(Seq(Octet)) /\ f1 \in Seq(Octet) /\ Len(f1) = 4 * 8
    BY <1>2, WordsAre
  <2>2. x2 \in Seq(Seq(Octet)) /\ f2 \in Seq(Octet) /\ Len(f2) = 4 * 9
    BY <1>2, WordsAre
  <2>3. x3 \in Seq(Seq(Octet)) /\ f3 \in Seq(Octet) /\ Len(f3) = 4 * 16
    BY <1>2, WordsAre
  <2>4. x4 \in Seq(Seq(Octet)) /\ f4 \in Seq(Octet) /\ Len(f4) = 4 * 4
    BY <1>2, WordsAre
  <2>5. 4 * 8 = 32 /\ 4 * 9 = 36 /\ 4 * 16 = 64 /\ 4 * 4 = 16
    OBVIOUS
  <2> QED
    BY <2>1, <2>2, <2>3, <2>4, <2>5
<1>7. /\ Lies(x1[6], f1, 20) /\ Len(x1[6]) = 4
      /\ Lies(x1[7], f1, 24) /\ Len(x1[7]) = 4
      /\ Lies(x2[9], f2, 32) /\ Len(x2[9]) = 4
  <2>1. 4 * (6 - 1) = 20 /\ 4 * (7 - 1) = 24 /\ 4 * (9 - 1) = 32
    OBVIOUS
  <2>2. 6 \in 1 .. 8 /\ 7 \in 1 .. 8 /\ 9 \in 1 .. 9
    OBVIOUS
  <2> HIDE DEF f1, f2
  <2>3. Lies(x1[6], f1, 4 * (6 - 1)) /\ Len(x1[6]) = 4
    BY <2>2, <1>2, WordsAre DEF f1
  <2>4. Lies(x1[7], f1, 4 * (7 - 1)) /\ Len(x1[7]) = 4
    BY <2>2, <1>2, WordsAre DEF f1
  <2>5. Lies(x2[9], f2, 4 * (9 - 1)) /\ Len(x2[9]) = 4
    BY <2>2, <1>2, WordsAre DEF f2
  <2> QED
    BY <2>1, <2>3, <2>4, <2>5
<1>8. q = f1 \o f2 \o f3 \o f4
  <2>1. FlattenSeq(x1 \o x2) = f1 \o f2 /\ x1 \o x2 \in Seq(Seq(Octet))
    BY <1>6, FlatJoin, JoinIs
  <2> DEFINE y == x1 \o x2
  <2> HIDE DEF y
  <2>2. FlattenSeq(y \o x3) = FlattenSeq(y) \o f3 /\ y \o x3 \in Seq(Seq(Octet))
    <3>1. y \in Seq(Seq(Octet))
      BY <2>1 DEF y
    <3> QED
      BY <3>1, <1>6, FlatJoin, JoinIs
  <2> DEFINE z == y \o x3
  <2> HIDE DEF z
  <2>3. FlattenSeq(z \o x4) = FlattenSeq(z) \o f4
    <3>1. z \in Seq(Seq(Octet))
      BY <2>2 DEF z
    <3> QED
      BY <3>1, <1>6, FlatJoin
  <2> QED
    BY <2>1, <2>2, <2>3 DEF y, z
<1> HIDE DEF f1, f2, f3, f4
<1>9. Parts4(q, f1, f2, f3, f4)
  BY <1>6, <1>8, FourParts
<1> HIDE DEF q
<1>10. /\ q \in Seq(Octet) /\ Len(q) = 148 /\ Lies(f1, q, 0) /\ Lies(f2, q, 32)
       /\ Lies(f3, q, 68) /\ Lies(f4, q, 132)
  BY <1>6, <1>9 DEF Parts4
<1>11. /\ p \in Seq(Octet) /\ Len(p) = 149 /\ Lies(a, p, 0) /\ Lies(q, p, 1)
  <2>1. /\ p \in Seq(Octet) /\ Len(p) = Len(a) + Len(q)
        /\ Lies(a, p, 0) /\ Lies(q, p, Len(a))
    BY <1>5, <1>10, LiesTwo, ZenonT(40)
  <2> HIDE DEF p
  <2> QED
    BY <2>1, <1>5, <1>10
<1> HIDE DEF p
<1>12. /\ Lies(x1[6], q, 0 + 20) /\ Lies(x1[7], q, 0 + 24) /\ Lies(x2[9], q, 32 + 32)
  BY <1>7, <1>10, LiesIn
<1>13. /\ Lies(x1[6], p, 1 + (0 + 20)) /\ Lies(x1[7], p, 1 + (0 + 24))
       /\ Lies(x2[9], p, 1 + (32 + 32)) /\ Lies(f3, p, 1 + 68) /\ Lies(f4, p, 1 + 132)
  BY <1>10, <1>11, <1>12, LiesIn
<1>14. /\ Lies(x1[6], p, 21) /\ Lies(x1[7], p, 25) /\ Lies(x2[9], p, 65)
       /\ Lies(f3, p, 69) /\ Lies(f4, p, 133)
  <2>1. /\ 1 + (0 + 20) = 21 /\ 1 + (0 + 24) = 25 /\ 1 + (32 + 32) = 65
        /\ 1 + 68 = 69 /\ 1 + 132 = 133
    OBVIOUS
  <2> QED
    BY <2>1, <1>13
<1>15. /\ Field(p, 0, 1) = a /\ Field(p, 21, 4) = x1[6] /\ Field(p, 25, 4) = x1[7]
       /\ Field(p, 65, 4) = x2[9] /\ Field(p, 69, 64) = f3 /\ Field(p, 133, 16) = f4
  <2>1. Field(p, 0, Len(a)) = a /\ Field(p, 69, Len(f3)) = f3 /\ Field(p, 133, Len(f4)) = f4
    BY <1>11, <1>14, LiesField
  <2>2. /\ Field(p, 21, Len(x1[6])) = x1[6] /\ Field(p, 25, Len(x1[7])) = x1[7]
        /\ Field(p, 65, Len(x2[9])) = x2[9]
    BY <1>14, LiesField
  <2> QED
    BY <2>1, <2>2, <1>5, <1>6, <1>7
<1>16. FaultRow(p) = <<w>>
  BY <1>11, <1>15 DEF FaultRow
<1>17. Simple(r, p)
  BY <1>3, <1>4, <1>11, <1>16, MaxPlainIs DEF Simple
<1> QED
  BY <1>17

(* The lesser of two numbers.                                              *)
LEMMA LeastIs ==
  ASSUME NEW a \in Int, NEW b \in Int
  PROVE  /\ Least(a, b) \in Int /\ Least(a, b) <= a /\ Least(a, b) <= b
         /\ Least(a, b) = a \/ Least(a, b) = b
BY DEF Least

(* Device information is read field by field, as much of it as was sent.   *)
LEMMA InfoRead ==
  ASSUME NEW r \in Record, r.kind = "info"
  PROVE  \E p : Simple(r, p)
<1> DEFINE id == SubSeq(r.id, 1, Least(Len(r.id), 127))
           space == MaxPlain - (2 + 8 + Len(r.type)) - Len(id)
           n == Least(Least(Len(r.version), 127), space)
           v == SubSeq(r.version, 1, n)
           e == r.build
           t == r.type
           b == <<Len(id)>>
           c == <<n>>
           p == b \o id \o c \o v \o e \o t
           w == [kind |-> "info", id |-> id, version |-> v, build |-> e, type |-> t]
<1>1. r \in [kind : {"info"}, id : Seq(Octet), version : Seq(Octet),
             build : Octets(8), type : {<<>>, <<0>>, <<1>>}]
  BY DEF Record
<1>2. /\ r = [kind |-> "info", id |-> r.id, version |-> r.version, build |-> e,
              type |-> t]
      /\ r.id \in Seq(Octet) /\ r.version \in Seq(Octet)
      /\ e \in Octets(8) /\ t \in {<<>>, <<0>>, <<1>>}
  BY <1>1
<1>3. t \in Seq(Octet) /\ Len(t) \in 0 .. 1 /\ (Len(t) = 0 => t = <<>>)
      /\ (Len(t) = 1 => t[1] \in {0, 1} /\ t = <<t[1]>>)
  <2>1. 0 \in Octet /\ 1 \in Octet
    BY OctetIs
  <2>2. CASE t = <<>>
    BY <2>2
  <2>3. CASE t = <<0>>
    <3>1. <<0>> \in Seq(Octet) /\ Len(<<0>>) = 1 /\ <<0>>[1] = 0
      BY <2>1
    <3> QED
      BY <2>3, <3>1
  <2>4. CASE t = <<1>>
    <3>1. <<1>> \in Seq(Octet) /\ Len(<<1>>) = 1 /\ <<1>>[1] = 1
      BY <2>1
    <3> QED
      BY <2>4, <3>1
  <2> QED
    BY <1>2, <2>2, <2>3, <2>4
<1>4. id \in Seq(Octet) /\ Len(id) \in Nat /\ Len(id) <= 127
  <2> DEFINE x == r.id  m == Least(Len(x), 127)
  <2>1. x \in Seq(Octet) /\ Len(x) \in Nat
    BY <1>2
  <2> HIDE DEF x
  <2>2. m \in Nat /\ m <= 127 /\ m <= Len(x)
    BY <2>1 DEF Least
  <2> HIDE DEF m
  <2>3. 1 \in 1 .. Len(x) + 1 /\ m \in 1 - 1 .. Len(x) /\ m - 1 + 1 = m
    BY <2>1, <2>2
  <2>4. SubSeq(x, 1, m) \in Seq(Octet) /\ Len(SubSeq(x, 1, m)) = m - 1 + 1
    BY <2>1, <2>3, PieceIs
  <2> QED
    BY <2>2, <2>3, <2>4 DEF m, x
<1>5. space \in Nat /\ space >= 87 /\ space + Len(id) + Len(t) = 215
  <2> DEFINE a == Len(id)  d == Len(t)
  <2>1. a \in Nat /\ a <= 127 /\ d \in 0 .. 1
    BY <1>3, <1>4
  <2>2. space = 225 - (2 + 8 + d) - a
    BY MaxPlainIs
  <2> HIDE DEF a, d, id, t
  <2>3. 225 - (2 + 8 + d) - a >= 87
        /\ 225 - (2 + 8 + d) - a \in Int
        /\ (225 - (2 + 8 + d) - a) + a + d = 215
    BY <2>1
  <2> HIDE DEF space
  <2> QED
    BY <2>2, <2>3 DEF a, d
<1>6. Payloads(r) = <<p>> /\ Due(r) = <<w>> /\ Type[r.kind] = 6
  <2>1. Payloads(r) = <<p>>
    BY ZenonT(40) DEF Payloads, InfoPayload
  <2>2. Due(r) = <<w>>
    <3> DEFINE room == Least(127, space)
               u == Least(Len(r.version), room)
    <3>1. Due(r) = <<[kind |-> "info", id |-> id, version |-> SubSeq(r.version, 1, u),
                      build |-> e, type |-> t]>>
      BY DEF Due
    <3>2. u = n
      <4> DEFINE l == Len(r.version)
      <4> HIDE DEF space
      <4>1. l \in Nat /\ space \in Nat
        BY <1>2, <1>5
      <4> HIDE DEF l
      <4>2. Least(l, Least(127, space)) = Least(Least(l, 127), space)
        BY <4>1 DEF Least
      <4> QED
        BY <4>2 DEF l
    <3> HIDE DEF u, n, id, space
    <3> QED
      BY <3>1, <3>2
  <2>3. Type[r.kind] = 6
    BY DEF Type
  <2> QED
    BY <2>1, <2>2, <2>3, SMTT(20)
<1>7. RowsFor(6, p) = InfoRow(p)
  <2> HIDE DEF p
  <2> QED
    BY DEF RowsFor, Rows
<1>8. n \in Nat /\ n <= 127 /\ n <= space /\ v \in Seq(Octet) /\ Len(v) = n
  <2> DEFINE x == r.version
  <2> HIDE DEF space
  <2>1. x \in Seq(Octet) /\ Len(x) \in Nat /\ space \in Nat
    BY <1>2, <1>5
  <2> HIDE DEF x
  <2>2. Least(Least(Len(x), 127), space) \in Nat
        /\ Least(Least(Len(x), 127), space) <= 127
        /\ Least(Least(Len(x), 127), space) <= Len(x)
        /\ Least(Least(Len(x), 127), space) <= space
    BY <2>1 DEF Least
  <2>3. n \in Nat /\ n <= 127 /\ n <= Len(x) /\ n <= space
    BY <2>2 DEF x
  <2> HIDE DEF n
  <2>4. 1 \in 1 .. Len(x) + 1 /\ n \in 1 - 1 .. Len(x) /\ n - 1 + 1 = n
    BY <2>1, <2>3
  <2>5. SubSeq(x, 1, n) \in Seq(Octet) /\ Len(SubSeq(x, 1, n)) = n - 1 + 1
    BY <2>1, <2>4, PieceIs
  <2> QED
    BY <2>3, <2>4, <2>5 DEF x
<1>9. /\ b \in Seq(Octet) /\ Len(b) = 1 /\ b[1] = Len(id)
      /\ c \in Seq(Octet) /\ Len(c) = 1 /\ c[1] = n
  <2>1. Len(id) \in Octet /\ n \in Octet
    BY <1>4, <1>8, OctetIs, SMTT(20)
  <2> HIDE DEF id, n
  <2> QED
    BY <2>1, OneOctet
<1>10. e \in Seq(Octet) /\ Len(e) = 8
  BY <1>2, OctetsAre
<1> HIDE DEF id, n, v, e, t, b, c, space
<1>11. Parts6(p, b, id, c, v, e, t)
  BY <1>3, <1>4, <1>8, <1>9, <1>10, SixParts
<1> HIDE DEF p
<1> DEFINE i == Len(id)
<1>12. /\ i \in Nat /\ n \in Nat /\ p \in Seq(Octet)
       /\ Len(p) = 10 + i + n + Len(t)
       /\ Lies(b, p, 0) /\ Lies(id, p, 1) /\ Lies(c, p, 1 + i) /\ Lies(v, p, 2 + i)
       /\ Lies(e, p, 2 + i + n) /\ Lies(t, p, 10 + i + n)
  <2>1. /\ i \in Nat /\ n \in Nat /\ 1 + i + 1 = 2 + i /\ 1 + i + 1 + n = 2 + i + n
        /\ 1 + i + 1 + n + 8 = 10 + i + n
    BY <1>4, <1>8
  <2> QED
    BY <2>1, <1>8, <1>9, <1>10, <1>11 DEF Parts6
<1> HIDE DEF i
<1>13. p[1] = i /\ p[2 + i] = n
  <2>1. p[0 + 1] = b[1] /\ p[(1 + i) + 1] = c[1]
    BY <1>9, <1>12 DEF Lies
  <2>2. (1 + i) + 1 = 2 + i
    BY <1>12
  <2> QED
    BY <2>1, <2>2, <1>9 DEF i
<1>14. Field(p, 1, i) = id /\ Field(p, 2 + i, n) = v /\ Field(p, 2 + i + n, 8) = e
  BY <1>8, <1>10, <1>12, LiesField DEF i
<1> DEFINE at == 2 + i + n
<1>15. (IF Len(p) > at + 8 /\ p[at + 9] \in {0, 1} THEN <<p[at + 9]>> ELSE <<>>) = t
  <2>1. at \in Nat /\ at + 8 = 10 + i + n /\ at + 9 = (10 + i + n) + 1
    BY <1>12
  <2>2. CASE Len(t) = 0
    <3>1. ~ (Len(p) > at + 8)
      BY <2>1, <2>2, <1>12
    <3> QED
      BY <3>1, <2>2, <1>3
  <2>3. CASE Len(t) = 1
    <3>1. Len(p) > at + 8
      BY <2>1, <2>3, <1>12
    <3>2. p[(10 + i + n) + 1] = t[1]
      BY <2>3, <1>12 DEF Lies
    <3> QED
      BY <2>1, <2>3, <3>1, <3>2, <1>3
  <2> QED
    BY <2>2, <2>3, <1>3
<1>16. ~ (Len(p) < 3 \/ 2 + p[1] > Len(p)) /\ ~ (at + 8 > Len(p)) /\ Len(p) <= 225
  <2>1. Len(t) \in 0 .. 1 /\ i + n + Len(t) <= 215
    BY <1>3, <1>5, <1>8, <1>12, SMTT(20) DEF i
  <2> QED
    BY <2>1, <1>12, <1>13
<1>17. InfoRow(p) = <<w>>
  BY <1>13, <1>14, <1>15, <1>16 DEF InfoRow
<1>18. Simple(r, p)
  BY <1>6, <1>7, <1>12, <1>16, <1>17, MaxPlainIs DEF Simple
<1> QED
  BY <1>18

-----------------------------------------------------------------------------
(* Wire: metrics *)

RowOf(e) == [kind |-> "metric", key |-> e.key, type |-> e.type, value |-> e.value,
             ticks |-> e.ticks]

(* Where the fields of an entry are.                                       *)
IsEntry(b, e) ==
  /\ b \in Seq(Octet) /\ Len(e.key) \in Nat /\ Len(e.key) <= 32
  /\ Len(b) = 18 + Len(e.key)
  /\ b[1] = Len(e.key) /\ b[2 + Len(e.key)] = e.type
  /\ Lies(e.key, b, 1) /\ Lies(e.value, b, 2 + Len(e.key))
  /\ Lies(e.ticks, b, 10 + Len(e.key)) /\ Len(e.ticks) = 8
  /\ Len(e.value) = IF e.type \in {0, 1} THEN 4 ELSE 8

(* The bytes of an entry, at the places the server reads.                  *)
LEMMA EntryIs ==
  ASSUME NEW e \in Entry
  PROVE  IsEntry(EntryBytes(e), e)
<1> DEFINE k == Len(e.key)  z == Zeros(8 - Len(e.value))
           a == <<k>>  t == <<e.type>>  key == e.key  v == e.value  x == e.ticks
           b == a \o key \o t \o v \o z \o x
<1>1. /\ key \in Seq(Octet) /\ k \in Nat /\ k <= 32
      /\ v \in Seq(Octet) /\ x \in Octets(8) /\ e.type \in 0 .. 2
      /\ Len(v) = IF e.type = 2 THEN 8 ELSE 4
  BY DEF Entry
<1>2. Len(v) = IF e.type \in {0, 1} THEN 4 ELSE 8
  BY <1>1
<1>3. z \in Seq(Octet) /\ Len(z) = 8 - Len(v)
  <2>1. 8 - Len(v) \in Nat /\ 0 \in Octet
    BY <1>1, OctetIs
  <2> DEFINE n == 8 - Len(v)
  <2>2. z = [i \in 1 .. n |-> 0]
    BY DEF Zeros
  <2> HIDE DEF n, z
  <2>3. n \in Nat /\ z \in Seq(Octet) /\ Len(z) = n
    BY <2>1, <2>2 DEF n
  <2> QED
    BY <2>3 DEF n
<1>4. /\ a \in Seq(Octet) /\ Len(a) = 1 /\ a[1] = k
      /\ t \in Seq(Octet) /\ Len(t) = 1 /\ t[1] = e.type
  <2>1. k \in Octet
    <3> HIDE DEF k, v, key, x
    <3> QED
      BY <1>1, OctetIs
  <2>2. e.type \in Octet
    <3> DEFINE y == e.type
    <3>1. y \in 0 .. 2
      BY <1>1
    <3> HIDE DEF y
    <3>2. y \in Nat /\ y < 256
      BY <3>1
    <3>3. y \in Octet
      BY <3>2, OctetIs
    <3> QED
      BY <3>3 DEF y
  <2> HIDE DEF k
  <2> QED
    BY <2>1, <2>2, OneOctet
<1>5. x \in Seq(Octet) /\ Len(x) = 8
  BY <1>1, OctetsAre
<1>6. EntryBytes(e) = b
  BY DEF EntryBytes
<1>7. Len(key) = k
  OBVIOUS
<1> HIDE DEF k, z, a, t, key, v, x
<1>8. Parts6(b, a, key, t, v, z, x)
  BY <1>1, <1>3, <1>4, <1>5, SixParts
<1> HIDE DEF b
<1>9. /\ b \in Seq(Octet) /\ Len(b) = 18 + k
      /\ Lies(a, b, 0) /\ Lies(key, b, 1) /\ Lies(t, b, 1 + k) /\ Lies(v, b, 2 + k)
      /\ Lies(x, b, 10 + k)
  <2>1. /\ 1 + k + 1 = 2 + k /\ 1 + k + 1 + Len(v) + Len(z) = 10 + k
        /\ 1 + k + 1 + Len(v) + Len(z) + 8 = 18 + k
    <3>1. Len(v) \in Nat
      BY <1>1
    <3> QED
      BY <3>1, <1>1, <1>3
  <2> QED
    BY <2>1, <1>4, <1>5, <1>7, <1>8 DEF Parts6
<1>10. b[1] = k /\ b[2 + k] = e.type
  <2>1. b[0 + 1] = a[1] /\ b[(1 + k) + 1] = t[1]
    BY <1>4, <1>9, SMTT(20) DEF Lies
  <2>2. (1 + k) + 1 = 2 + k
    BY <1>1
  <2> QED
    BY <2>1, <2>2, <1>4
<1> QED
  BY <1>1, <1>2, <1>5, <1>6, <1>9, <1>10 DEF IsEntry, k, key, v, x

(* One round of parse_metrics_payload.                                     *)
MetricAt(p, f, i) ==
  LET at == i + p[i]
  IN  IF i > Len(p) THEN <<>>
      ELSE IF at + 17 > Len(p) THEN <<>>
      ELSE <<[kind |-> "metric", key |-> SubSeq(p, i + 1, at),
              type |-> p[at + 1],
              value |-> Field(p, at + 1, IF p[at + 1] \in {0, 1} THEN 4 ELSE 8),
              ticks |-> Field(p, at + 9, 8)]>> \o f[at + 18]

(* The recursion of parse_metrics_payload has a solution.                  *)
LEMMA MetricsFrom ==
  ASSUME NEW p \in Seq(Octet), p # <<>>
  PROVE  \E f : /\ MetricRows(p) = SubSeq(f[2], 1, Least(p[1], Len(f[2])))
                /\ \A i \in 1 .. Len(p) + 1 : f[i] = MetricAt(p, f, i)
<1> DEFINE n == Len(p) + 1
           D == 1 .. n
           stop == {i \in D : i > Len(p) \/ i + p[i] + 17 > Len(p)}
           next == [i \in D |-> i + p[i] + 18]
           row(i) == <<[kind |-> "metric", key |-> SubSeq(p, i + 1, i + p[i]),
                        type |-> p[i + p[i] + 1],
                        value |-> Field(p, i + p[i] + 1,
                                        IF p[i + p[i] + 1] \in {0, 1} THEN 4 ELSE 8),
                        ticks |-> Field(p, i + p[i] + 9, 8)]>>
           head == [i \in D |-> IF i \in stop THEN <<>> ELSE row(i)]
<1>1. n \in Nat /\ Len(p) \in Nat
  OBVIOUS
<1>2. Leads(n, stop, next)
  <2> SUFFICES ASSUME NEW i \in 1 .. n, i \notin stop PROVE next[i] \in i + 1 .. n
    BY DEF Leads
  <2>1. i \in 1 .. Len(p) /\ ~ (i + p[i] + 17 > Len(p))
    OBVIOUS
  <2>2. p[i] \in Nat
    BY <2>1, ElementOfSeq, OctetIs
  <2>3. next[i] = i + p[i] + 18
    OBVIOUS
  <2> HIDE DEF next
  <2> QED
    BY <2>1, <2>2, <2>3, <1>1
<1>3. PICK f : Solved(f, n, stop, head, next)
  <2> HIDE DEF n, stop, head, next
  <2> QED
    BY <1>1, <1>2, Unrolls
<1>4. ASSUME NEW g, NEW i \in D PROVE Unrolled(g, stop, head, next, i) = MetricAt(p, g, i)
  <2>1. next[i] = i + p[i] + 18
    OBVIOUS
  <2>2. head[i] = IF i \in stop THEN <<>> ELSE row(i)
    OBVIOUS
  <2>3. i \in stop <=> i > Len(p) \/ i + p[i] + 17 > Len(p)
    OBVIOUS
  <2> HIDE DEF head, next, stop
  <2> QED
    BY <2>1, <2>2, <2>3 DEF Unrolled, MetricAt
<1>5. f = [i \in D |-> MetricAt(p, f, i)]
  BY <1>3, <1>4 DEF Solved
<1> DEFINE from == CHOOSE h : h = [i \in 1 .. Len(p) + 1 |-> MetricAt(p, h, i)]
<1>6. from = [i \in 1 .. Len(p) + 1 |-> MetricAt(p, from, i)]
  BY <1>5, SMTT(20)
<1>7. MetricRows(p) = SubSeq(from[2], 1, Least(p[1], Len(from[2])))
  BY ZenonT(40) DEF MetricRows, MetricAt
<1> HIDE DEF from
<1>8. \A i \in 1 .. Len(p) + 1 : from[i] = MetricAt(p, from, i)
  BY <1>6
<1> QED
  BY <1>7, <1>8

(* Entries as bytes and as rows.                                           *)
BytesOf(es) == FlattenSeq([i \in 1 .. Len(es) |-> EntryBytes(es[i])])
RowsOf(es)  == [i \in 1 .. Len(es) |-> RowOf(es[i])]

(* The bytes of entries, one behind the other.                             *)
LEMMA EntriesAre ==
  ASSUME NEW es \in Seq(Entry)
  PROVE  /\ Len(es) \in Nat
         /\ [i \in 1 .. Len(es) |-> EntryBytes(es[i])] \in Seq(Seq(Octet))
         /\ Len([i \in 1 .. Len(es) |-> EntryBytes(es[i])]) = Len(es)
         /\ BytesOf(es) \in Seq(Octet)
         /\ RowsOf(es) \in Seq({RowOf(e) : e \in Entry}) /\ Len(RowsOf(es)) = Len(es)
         /\ \A i \in 1 .. Len(es) : es[i] \in Entry /\ RowsOf(es)[i] = RowOf(es[i])
<1> DEFINE n == Len(es)  x == [i \in 1 .. n |-> EntryBytes(es[i])]
           T == {RowOf(e) : e \in Entry}  y == [i \in 1 .. n |-> RowOf(es[i])]
<1>1. n \in Nat /\ \A i \in 1 .. n : es[i] \in Entry
  BY ElementOfSeq
<1> HIDE DEF n
<1>2. x \in Seq(Seq(Octet)) /\ Len(x) = n
  <2> DEFINE O == Seq(Octet)
  <2>1. \A i \in 1 .. n : EntryBytes(es[i]) \in O
    BY <1>1, EntryIs DEF IsEntry
  <2>2. x \in [1 .. n -> O]
    BY <2>1
  <2> HIDE DEF O, x
  <2>3. x \in Seq(O) /\ Len(x) = n
    BY <2>2, <1>1
  <2> QED
    BY <2>3 DEF O
<1>3. y \in Seq(T) /\ Len(y) = n /\ \A i \in 1 .. n : y[i] = RowOf(es[i])
  <2>1. \A i \in 1 .. n : RowOf(es[i]) \in T
    BY <1>1
  <2>2. y \in [1 .. n -> T] /\ \A i \in 1 .. n : y[i] = RowOf(es[i])
    BY <2>1
  <2> HIDE DEF T, y
  <2> QED
    BY <2>2, <1>1
<1>4. FlattenSeq(x) \in Seq(Octet)
  <2> HIDE DEF x
  <2> QED
    BY <1>2, FlatType
<1> HIDE DEF T
<1> QED
  BY <1>1, <1>2, <1>3, <1>4 DEF BytesOf, RowsOf, n, T

(* The entries of a payload are read as they were written.                 *)
LEMMA MetricsRead ==
  ASSUME NEW es \in Seq(Entry), Len(es) < 256
  PROVE  /\ <<Len(es)>> \o BytesOf(es) \in Seq(Octet)
         /\ Len(<<Len(es)>> \o BytesOf(es)) = 1 + Len(BytesOf(es))
         /\ Len(es) <= Len(BytesOf(es)) /\ Len(BytesOf(es)) \in Nat
         /\ RowsFor(2, <<Len(es)>> \o BytesOf(es)) = RowsOf(es)
<1> DEFINE n == Len(es)  x == [i \in 1 .. n |-> EntryBytes(es[i])]
           part == FlattenSeq(x)  a == <<n>>  p == a \o part
           v == RowsOf(es)  T == {RowOf(e) : e \in Entry}
<1>1. /\ n \in Nat /\ n < 256 /\ x \in Seq(Seq(Octet)) /\ Len(x) = n
      /\ part \in Seq(Octet) /\ part = BytesOf(es)
      /\ v \in Seq(T) /\ Len(v) = n
      /\ \A k \in 1 .. n : es[k] \in Entry /\ v[k] = RowOf(es[k]) /\ x[k] = EntryBytes(es[k])
  BY EntriesAre DEF BytesOf
<1>2. a \in Seq(Octet) /\ Len(a) = 1 /\ a[1] = n
  <2>1. n \in Octet
    BY <1>1, OctetIs
  <2> HIDE DEF n
  <2> QED
    BY <2>1, OneOctet
<1>3. PICK f : Flattened(Octet, x, f) /\ part = f[n]
  <2> HIDE DEF x
  <2> QED
    BY <1>1, FlatIs
<1>4. LaidOut(x, f, n)
  <2> HIDE DEF x
  <2> QED
    BY <1>1, <1>3, FlatPlaces
<1> HIDE DEF n, x, part, a, T, v
<1>5. /\ p \in Seq(Octet) /\ Len(part) \in Nat /\ Len(p) = 1 + Len(part)
      /\ Lies(a, p, 0) /\ Lies(part, p, 1)
  <2>1. /\ p \in Seq(Octet) /\ Len(part) \in Nat /\ Len(p) = Len(a) + Len(part)
        /\ Lies(a, p, 0) /\ Lies(part, p, Len(a))
    BY <1>1, <1>2, LiesTwo
  <2> HIDE DEF p
  <2> QED
    BY <2>1, <1>2
<1>6. RowsFor(2, p) = MetricRows(p)
  <2> HIDE DEF p
  <2> QED
    BY DEF RowsFor, Rows
<1> HIDE DEF p
<1>7. p # <<>> /\ p[1] = n
  <2>1. p[0 + 1] = a[1]
    BY <1>2, <1>5 DEF Lies
  <2>2. p # <<>>
    BY <1>5
  <2> QED
    BY <2>1, <2>2, <1>2
<1> DEFINE at == [k \in 0 .. n |-> Len(f[k])]
<1>8. /\ at[0] = 0 /\ at[n] = Len(part)
      /\ \A k \in 0 .. n : at[k] \in 0 .. Len(part)
      /\ \A k \in 1 .. n : /\ Len(x[k]) \in Nat /\ at[k] = at[k - 1] + Len(x[k])
                           /\ \A i \in 1 .. Len(x[k]) : part[at[k - 1] + i] = x[k][i]
  <2>1. /\ 0 \in 0 .. n /\ n \in 0 .. n
        /\ \A k \in 1 .. n : k \in 0 .. n /\ k - 1 \in 0 .. n
    BY <1>1
  <2>2. \A k \in 0 .. n : at[k] = Len(f[k])
    OBVIOUS
  <2> HIDE DEF at
  <2> QED
    BY <2>1, <2>2, <1>3, <1>4, ZenonT(40) DEF LaidOut
<1> HIDE DEF at
<1>9. n <= Len(part)
  <2> DEFINE Good == {k \in 0 .. n : k <= at[k]}
  <2>1. 0 \in Good
    BY <1>1, <1>8
  <2>2. ASSUME NEW k \in 1 .. n, k - 1 \in Good PROVE k \in Good
    <3>1. at[k] = at[k - 1] + Len(x[k]) /\ k \in 0 .. n /\ k - 1 \in 0 .. n
      BY <1>1, <1>8
    <3>2. Len(x[k]) = 18 + Len(es[k].key) /\ Len(es[k].key) \in Nat
      BY <1>1, EntryIs DEF IsEntry
    <3>3. at[k - 1] \in Nat /\ k - 1 <= at[k - 1]
      BY <3>1, <1>8, <2>2
    <3> DEFINE c == at[k - 1]  d == at[k]  w == Len(es[k].key)
    <3>4. c \in Nat /\ w \in Nat /\ k - 1 <= c /\ d = c + (18 + w)
      BY <3>1, <3>2, <3>3
    <3> HIDE DEF c, d, w
    <3>5. k <= d
      BY <3>4
    <3> QED
      BY <3>1, <3>5 DEF d
  <2>3. \A k \in 0 .. n : k \in Good
    <3> HIDE DEF Good
    <3> QED
      BY <1>1, <2>1, <2>2, Climbs
  <2>4. n \in 0 .. n
    BY <1>1
  <2> QED
    BY <2>3, <2>4, <1>8
<1>10. PICK g : /\ MetricRows(p) = SubSeq(g[2], 1, Least(p[1], Len(g[2])))
                /\ \A i \in 1 .. Len(p) + 1 : g[i] = MetricAt(p, g, i)
  BY <1>5, <1>7, MetricsFrom
<1>11. ASSUME NEW k \in 1 .. n
       PROVE  g[at[k - 1] + 2] = <<v[k]>> \o g[at[k] + 2]
  <2> DEFINE e == es[k]  b == x[k]  l == Len(e.key)  o == at[k - 1]  i == o + 2
  <2>1. IsEntry(b, e) /\ v[k] = RowOf(e)
    BY <1>1, EntryIs
  <2>2. k - 1 \in 0 .. n /\ k \in 0 .. n
    BY <1>1
  <2>3. /\ at[k - 1] \in Nat /\ Len(x[k]) \in Nat
        /\ at[k] = at[k - 1] + Len(x[k]) /\ at[k] <= Len(part)
        /\ \A j \in 1 .. Len(x[k]) : part[at[k - 1] + j] = x[k][j]
    <3>1. /\ k \in 1 .. n
          /\ \A j \in 1 .. n :
               /\ Len(x[j]) \in Nat /\ at[j] = at[j - 1] + Len(x[j])
               /\ \A q \in 1 .. Len(x[j]) : part[at[j - 1] + q] = x[j][q]
      BY <1>8
    <3>2. \A j \in 0 .. n : at[j] \in Nat /\ at[j] <= Len(part)
      BY <1>8
    <3> HIDE DEF at, x, n, part
    <3> QED
      BY <2>2, <3>1, <3>2
  <2> DEFINE to == at[k]
  <2>30. /\ o \in Nat /\ Len(b) \in Nat /\ to = o + Len(b) /\ to <= Len(part)
         /\ \A j \in 1 .. Len(b) : part[o + j] = b[j]
    BY <2>3
  <2> HIDE DEF b, e, o, to
  <2>4. Lies(b, part, o)
    BY <2>1, <2>30, <1>1 DEF IsEntry, Lies
  <2>5. Lies(b, p, 1 + o)
    BY <2>4, <1>5, LiesIn
  <2>6. /\ l \in Nat /\ l <= 32 /\ Len(b) = 18 + l /\ b[1] = l /\ b[2 + l] = e.type
        /\ Lies(e.key, b, 1) /\ Lies(e.value, b, 2 + l) /\ Lies(e.ticks, b, 10 + l)
        /\ Len(e.ticks) = 8 /\ Len(e.value) = IF e.type \in {0, 1} THEN 4 ELSE 8
    BY <2>1 DEF IsEntry
  <2> HIDE DEF l
  <2>7. p[i] = l /\ p[i + l + 1] = e.type
    <3>1. p[(1 + o) + 1] = b[1] /\ p[(1 + o) + (2 + l)] = b[2 + l]
      <4>1. 1 \in 1 .. Len(b) /\ 2 + l \in 1 .. Len(b)
        BY <2>6
      <4> QED
        BY <4>1, <2>5 DEF Lies
    <3>2. (1 + o) + 1 = i /\ (1 + o) + (2 + l) = (i + l) + 1
      BY <2>30, <2>6
    <3> QED
      BY <3>1, <3>2, <2>6
  <2>8. /\ Lies(e.key, p, i) /\ Lies(e.value, p, i + l + 1) /\ Lies(e.ticks, p, i + l + 9)
    <3>1. /\ Lies(e.key, p, (1 + o) + 1) /\ Lies(e.value, p, (1 + o) + (2 + l))
          /\ Lies(e.ticks, p, (1 + o) + (10 + l))
      BY <2>5, <2>6, LiesIn
    <3>2. (1 + o) + 1 = i /\ (1 + o) + (2 + l) = i + l + 1 /\ (1 + o) + (10 + l) = i + l + 9
      <4>1. o \in Nat /\ l \in Nat
        BY <2>30, <2>6
      <4> QED
        BY <4>1
    <3> QED
      BY <3>1, <3>2
  <2>9. i \in 1 .. Len(p) + 1 /\ ~ (i > Len(p)) /\ ~ (i + l + 17 > Len(p))
        /\ i + l + 18 = to + 2
    <3>1. to = o + 18 + l /\ o + 18 + l <= Len(part)
      BY <2>30, <2>6, SMTT(20)
    <3> QED
      BY <3>1, <2>30, <2>6, <1>5, SMTT(20)
  <2>10. /\ SubSeq(p, i + 1, i + l) = e.key
         /\ Field(p, i + l + 1, IF e.type \in {0, 1} THEN 4 ELSE 8) = e.value
         /\ Field(p, i + l + 9, 8) = e.ticks
    <3>1. /\ Field(p, i, Len(e.key)) = e.key
          /\ Field(p, i + l + 1, Len(e.value)) = e.value
          /\ Field(p, i + l + 9, Len(e.ticks)) = e.ticks
      BY <2>8, LiesField
    <3>2. Field(p, i, Len(e.key)) = SubSeq(p, i + 1, i + l)
      BY DEF Field, l
    <3> QED
      BY <3>1, <3>2, <2>6
  <2> HIDE DEF i
  <2>11. g[i] = MetricAt(p, g, i)
    BY <2>9, <1>10
  <2>12. MetricAt(p, g, i) = <<RowOf(e)>> \o g[to + 2]
    BY <2>7, <2>9, <2>10 DEF MetricAt, RowOf
  <2> QED
    BY <2>1, <2>11, <2>12 DEF i, o, to
<1>12. g[at[n] + 2] = <<>>
  <2>1. at[n] + 2 = Len(p) + 1 /\ at[n] + 2 \in 1 .. Len(p) + 1 /\ at[n] + 2 > Len(p)
    BY <1>5, <1>8
  <2>2. g[at[n] + 2] = MetricAt(p, g, at[n] + 2)
    BY <2>1, <1>10
  <2> QED
    BY <2>1, <2>2 DEF MetricAt
<1> DEFINE to == [k \in 0 .. n |-> at[k] + 2]
<1>13. Chain(g, to, v) /\ to[0] = 2
  <2>1. 0 \in 0 .. n /\ n \in 0 .. n /\ \A k \in 1 .. n : k \in 0 .. n /\ k - 1 \in 0 .. n
    BY <1>1
  <2>2. \A k \in 0 .. n : to[k] = at[k] + 2
    OBVIOUS
  <2>3. to[0] = at[0] + 2
    BY <2>1
  <2>4. to[0] = 2
    <3> HIDE DEF to
    <3> QED
      BY <2>3, <1>8
  <2> HIDE DEF to
  <2> QED
    BY <2>1, <2>2, <2>4, <1>1, <1>11, <1>12, ZenonT(40) DEF Chain
<1>14. g[2] = v
  <2> HIDE DEF to
  <2> QED
    BY <1>1, <1>13, ChainIs
<1>15. Least(p[1], Len(v)) = Len(v)
  BY <1>1, <1>7 DEF Least
<1>16. MetricRows(p) = v
  <2>1. SubSeq(v, 1, Len(v)) = v
    BY <1>1, SubSeqFull
  <2> QED
    BY <2>1, <1>10, <1>14, <1>15
<1> QED
  BY <1>1, <1>5, <1>6, <1>9, <1>16 DEF p, a, n, v

(* One more entry.                                                         *)
LEMMA EntriesMore ==
  ASSUME NEW es \in Seq(Entry), NEW e \in Entry
  PROVE  /\ Append(es, e) \in Seq(Entry) /\ Len(Append(es, e)) = Len(es) + 1
         /\ BytesOf(Append(es, e)) = BytesOf(es) \o EntryBytes(e)
         /\ RowsOf(Append(es, e)) = RowsOf(es) \o <<RowOf(e)>>
<1> DEFINE ds == Append(es, e)  n == Len(es)  b == EntryBytes(e)  w == RowOf(e)
           T == {RowOf(c) : c \in Entry}
           x == [i \in 1 .. Len(es) |-> EntryBytes(es[i])]
           y == [i \in 1 .. Len(ds) |-> EntryBytes(ds[i])]
           u == RowsOf(es)  v == RowsOf(ds)
<1>1. /\ ds \in Seq(Entry) /\ Len(ds) = n + 1 /\ n \in Nat /\ ds[n + 1] = e
      /\ \A i \in 1 .. n : ds[i] = es[i]
  BY AppendProperties
<1> HIDE DEF ds
<1>2. /\ x \in Seq(Seq(Octet)) /\ Len(x) = n /\ \A i \in 1 .. n : x[i] = EntryBytes(es[i])
      /\ u \in Seq(T) /\ Len(u) = n /\ \A i \in 1 .. n : u[i] = RowOf(es[i])
  BY EntriesAre
<1>3. /\ y \in Seq(Seq(Octet)) /\ Len(y) = n + 1
      /\ \A i \in 1 .. n + 1 : y[i] = EntryBytes(ds[i])
      /\ v \in Seq(T) /\ Len(v) = n + 1 /\ \A i \in 1 .. n + 1 : v[i] = RowOf(ds[i])
  BY <1>1, EntriesAre
<1>4. b \in Seq(Octet) /\ w \in T
  BY EntryIs DEF IsEntry
<1>5. BytesOf(es) = FlattenSeq(x) /\ BytesOf(ds) = FlattenSeq(y)
  BY DEF BytesOf
<1> HIDE DEF x, y, u, v, b, w, T, n
<1>6. \A i \in 1 .. n : i \in 1 .. n + 1 /\ n + 1 \in 1 .. n + 1
  BY <1>1
<1>7. n + 1 \in 1 .. n + 1
  BY <1>1
<1>8. y = Append(x, b)
  <2> DEFINE O == Seq(Octet)  z == Append(x, b)
  <2>1. x \in Seq(O) /\ b \in O /\ y \in Seq(O)
    BY <1>2, <1>3, <1>4
  <2> HIDE DEF O
  <2>2. /\ z \in Seq(O) /\ Len(z) = n + 1 /\ z[n + 1] = b
        /\ \A i \in 1 .. n : z[i] = x[i]
    BY <2>1, <1>2, AppendProperties
  <2> HIDE DEF z
  <2>3. ASSUME NEW i \in 1 .. n + 1 PROVE y[i] = z[i]
    <3>1. CASE i = n + 1
      BY <3>1, <2>2, <1>1, <1>3, <1>7 DEF b
    <3>2. CASE i # n + 1
      <4>1. i \in 1 .. n
        BY <3>2, <1>1
      <4> QED
        BY <4>1, <2>2, <1>1, <1>2, <1>3
    <3> QED
      BY <3>1, <3>2
  <2>4. y = z
    BY <2>1, <2>2, <2>3, <1>3, SeqEqual
  <2> QED
    BY <2>4 DEF z
<1>9. v = Append(u, w)
  <2> DEFINE z == Append(u, w)
  <2>2. /\ z \in Seq(T) /\ Len(z) = n + 1 /\ z[n + 1] = w
        /\ \A i \in 1 .. n : z[i] = u[i]
    BY <1>2, <1>4, AppendProperties
  <2> HIDE DEF z
  <2>3. ASSUME NEW i \in 1 .. n + 1 PROVE v[i] = z[i]
    <3>1. CASE i = n + 1
      BY <3>1, <2>2, <1>1, <1>3, <1>7 DEF w
    <3>2. CASE i # n + 1
      <4>1. i \in 1 .. n
        BY <3>2, <1>1
      <4> QED
        BY <4>1, <2>2, <1>1, <1>2, <1>3
    <3> QED
      BY <3>1, <3>2
  <2>4. v = z
    BY <2>2, <2>3, <1>3, SeqEqual
  <2> QED
    BY <2>4 DEF z
<1>10. FlattenSeq(y) = FlattenSeq(x) \o b
  BY <1>2, <1>4, <1>8, FlatAppend
<1>11. v = u \o <<w>>
  BY <1>2, <1>4, <1>9, AppendIsConcat
<1> QED
  BY <1>1, <1>5, <1>10, <1>11 DEF ds, u, v, b, w, n

(* No entries, no bytes.                                                   *)
LEMMA EntriesNone ==
  /\ <<>> \in Seq(Entry) /\ Len(<<>>) = 0 /\ BytesOf(<<>>) = <<>> /\ RowsOf(<<>>) = <<>>
<1>1. [i \in 1 .. Len(<<>>) |-> EntryBytes(<<>>[i])] = <<>>
  OBVIOUS
<1>2. [i \in 1 .. Len(<<>>) |-> RowOf(<<>>[i])] = <<>>
  OBVIOUS
<1> QED
  BY <1>1, <1>2, FlatNone DEF BytesOf, RowsOf

-----------------------------------------------------------------------------
(* Wire: the payloads of a record *)

(* What is read of payloads, one after the other.                          *)
ReadIn(t, ps) == [j \in 1 .. Len(ps) |-> RowsFor(t, ps[j])]

(* Payloads ps of type t fit a chunk and are read as rows, of T.           *)
Coded(t, ps, T, rows) ==
  /\ ps \in Seq(Seq(Octet)) /\ Len(ps) \in Nat
  /\ \A j \in 1 .. Len(ps) : ps[j] \in Seq(Octet) /\ Len(ps[j]) <= MaxPlain
  /\ ReadIn(t, ps) \in Seq(Seq(T)) /\ Len(ReadIn(t, ps)) = Len(ps)
  /\ FlattenSeq(ReadIn(t, ps)) = rows

(* Nothing to send, nothing read.                                          *)
LEMMA CodedNone ==
  ASSUME NEW t, NEW T
  PROVE  Coded(t, <<>>, T, <<>>)
<1>1. ReadIn(t, <<>>) = <<>>
  BY DEF ReadIn
<1>2. <<>> \in Seq(Seq(Octet)) /\ <<>> \in Seq(Seq(T)) /\ Len(<<>>) = 0
  OBVIOUS
<1>3. \A j \in 1 .. Len(<<>>) : <<>>[j] \in Seq(Octet) /\ Len(<<>>[j]) <= MaxPlain
  BY <1>2
<1>4. FlattenSeq(ReadIn(t, <<>>)) = <<>>
  BY <1>1, FlatNone
<1> DEFINE e == <<>>
<1>5. /\ ReadIn(t, e) = e /\ e \in Seq(Seq(Octet)) /\ e \in Seq(Seq(T)) /\ Len(e) = 0
      /\ \A j \in 1 .. Len(e) : e[j] \in Seq(Octet) /\ Len(e[j]) <= MaxPlain
      /\ FlattenSeq(ReadIn(t, e)) = e
  BY <1>1, <1>2, <1>3, <1>4
<1> HIDE DEF e
<1>6. Coded(t, e, T, e)
  BY <1>5 DEF Coded
<1> QED
  BY <1>6 DEF e

(* One more payload gives its rows behind the others.                      *)
LEMMA CodedMore ==
  ASSUME NEW t, NEW ps, NEW T, NEW rows, Coded(t, ps, T, rows),
         NEW p \in Seq(Octet), Len(p) <= MaxPlain, RowsFor(t, p) \in Seq(T)
  PROVE  Coded(t, Append(ps, p), T, rows \o RowsFor(t, p))
<1> DEFINE qs == Append(ps, p)  n == Len(ps)  x == ReadIn(t, ps)  y == ReadIn(t, qs)
           w == RowsFor(t, p)  O == Seq(Octet)  R == Seq(T)
<1>1. /\ ps \in Seq(O) /\ n \in Nat
      /\ \A j \in 1 .. n : ps[j] \in O /\ Len(ps[j]) <= MaxPlain
      /\ x \in Seq(R) /\ Len(x) = n /\ FlattenSeq(x) = rows
  BY DEF Coded
<1>2. p \in O /\ w \in R
  OBVIOUS
<1> HIDE DEF O
<1>3. /\ qs \in Seq(O) /\ Len(qs) = n + 1 /\ qs[n + 1] = p
      /\ \A j \in 1 .. n : qs[j] = ps[j]
  BY <1>1, <1>2, AppendProperties
<1>4. ASSUME NEW j \in 1 .. n + 1 PROVE qs[j] \in O /\ Len(qs[j]) <= MaxPlain
  <2>1. CASE j = n + 1
    BY <2>1, <1>2, <1>3
  <2>2. CASE j # n + 1
    <3>1. j \in 1 .. n
      BY <2>2, <1>1
    <3> QED
      BY <3>1, <1>1, <1>3
  <2> QED
    BY <2>1, <2>2
<1>5. \A j \in 1 .. n : x[j] = RowsFor(t, ps[j])
  BY DEF ReadIn
<1> HIDE DEF n, qs, x
<1>6. y = [j \in 1 .. n + 1 |-> RowsFor(t, qs[j])]
  BY <1>3 DEF ReadIn
<1> HIDE DEF y, w, R
<1>7. y = Append(x, w)
  <2> DEFINE z == Append(x, w)
  <2>1. /\ z \in Seq(R) /\ Len(z) = n + 1 /\ z[n + 1] = w
        /\ \A j \in 1 .. n : z[j] = x[j]
    BY <1>1, <1>2, AppendProperties
  <2> HIDE DEF z
  <2>2. ASSUME NEW j \in 1 .. n + 1 PROVE y[j] = z[j]
    <3>0. y[j] = RowsFor(t, qs[j])
      BY <1>6
    <3>1. CASE j = n + 1
      BY <3>0, <3>1, <2>1, <1>3 DEF w
    <3>2. CASE j # n + 1
      <4>1. j \in 1 .. n
        BY <3>2, <1>1
      <4> QED
        BY <3>0, <4>1, <2>1, <1>3, <1>5
    <3> QED
      BY <3>1, <3>2
  <2>3. z = [j \in 1 .. n + 1 |-> z[j]]
    BY <2>1
  <2>4. y = z
    BY <2>2, <2>3, <1>6
  <2> QED
    BY <2>4 DEF z
<1>8. FlattenSeq(Append(x, w)) = FlattenSeq(x) \o w
  BY <1>1, <1>2, FlatAppend DEF R
<1>9. y \in Seq(R) /\ Len(y) = n + 1
  BY <1>1, <1>2, <1>7, AppendProperties
<1> QED
  <2>1. n + 1 \in Nat
    BY <1>1
  <2>2. Coded(t, qs, T, rows \o w)
    BY <2>1, <1>1, <1>3, <1>4, <1>7, <1>8, <1>9 DEF Coded, y, O, R
  <2> QED
    BY <2>2 DEF qs, w

(* encode_metrics, entry by entry.                                         *)
PackedAt(entries, f, i) ==
  IF i = 0 THEN [full |-> <<>>, part |-> <<>>, count |-> 0]
  ELSE AddEntry(f[i - 1], entries[i])

(* Nothing is sent of no entries.                                          *)
ClosedPack(p) == IF p.count = 0 THEN <<>> ELSE Append(p.full, <<p.count>> \o p.part)

(* The recursion of encode_metrics has a solution.                         *)
LEMMA PackedFrom ==
  ASSUME NEW entries, Len(entries) \in Nat
  PROVE  \E f : /\ \A i \in 0 .. Len(entries) : f[i] = PackedAt(entries, f, i)
                /\ Packed(entries) = ClosedPack(f[Len(entries)])
<1> DEFINE n == Len(entries)  D == 0 .. n
           Solves(f, k) == \A j \in 0 .. k : f[j] = PackedAt(entries, f, j)
           Good == {k \in 0 .. n : \E f : Solves(f, k)}
<1>1. 0 \in Good
  <2> DEFINE f == [j \in {0} |-> [full |-> <<>>, part |-> <<>>, count |-> 0]]
  <2>1. f[0] = PackedAt(entries, f, 0)
    BY DEF PackedAt
  <2>2. Solves(f, 0)
    BY <2>1
  <2> HIDE DEF f, Solves
  <2> QED
    BY <2>2
<1>2. ASSUME NEW k \in 1 .. n, k - 1 \in Good PROVE k \in Good
  <2>1. PICK f : Solves(f, k - 1)
    BY <1>2
  <2> DEFINE v == PackedAt(entries, f, k)
             g == [j \in D |-> IF j = k THEN v ELSE f[j]]
  <2>2. k \in D /\ k # 0 /\ k - 1 # k
        /\ \A j \in 0 .. k - 1 : j \in D /\ j # k /\ j - 1 # k
    OBVIOUS
  <2>3. g[k] = v /\ \A j \in 0 .. k - 1 : g[j] = f[j]
    BY <2>2
  <2> HIDE DEF g
  <2>4. ASSUME NEW j \in 0 .. k PROVE PackedAt(entries, g, j) = PackedAt(entries, f, j)
    <3>1. j = 0 \/ j - 1 \in 0 .. k - 1
      OBVIOUS
    <3> QED
      BY <3>1, <2>3 DEF PackedAt
  <2>5. ASSUME NEW j \in 0 .. k PROVE g[j] = PackedAt(entries, g, j)
    <3>1. j = k \/ j \in 0 .. k - 1
      OBVIOUS
    <3> QED
      BY <3>1, <2>1, <2>3, <2>4
  <2>6. Solves(g, k)
    BY <2>5
  <2> HIDE DEF Solves
  <2> QED
    BY <2>2, <2>6
<1>3. n \in Good
  <2> HIDE DEF Good
  <2>1. \A k \in 0 .. n : k \in Good
    BY <1>1, <1>2, Climbs
  <2> QED
    BY <2>1
<1>4. PICK f : Solves(f, n)
  BY <1>3
<1> DEFINE g == [j \in D |-> f[j]]
<1>5. g = [i \in D |-> PackedAt(entries, g, i)]
  <2>1. ASSUME NEW i \in D PROVE f[i] = PackedAt(entries, g, i)
    <3>1. i = 0 \/ i - 1 \in D
      OBVIOUS
    <3> QED
      BY <3>1, <1>4 DEF PackedAt
  <2> QED
    BY <2>1
<1> DEFINE packed == CHOOSE h : h = [i \in D |-> PackedAt(entries, h, i)]
<1>6. packed = [i \in D |-> PackedAt(entries, packed, i)]
  <2> HIDE DEF g, D
  <2> QED
    BY <1>5
<1>7. Packed(entries) = ClosedPack(packed[n])
  BY DEF Packed, PackedAt, ClosedPack
<1> HIDE DEF packed
<1>8. \A i \in D : packed[i] = PackedAt(entries, packed, i)
  BY <1>6
<1> QED
  BY <1>7, <1>8

MetricRow == {RowOf(e) : e \in Entry}

(* So far: whole payloads, and the entries of the one that is filled.      *)
Packs(p, es, r, rows) ==
  /\ es \in Seq(Entry) /\ p.part = BytesOf(es) /\ p.count = Len(es)
  /\ p.part \in Seq(Octet) /\ Len(p.part) \in Nat /\ p.count \in Nat
  /\ p.count <= Len(p.part) /\ 1 + Len(p.part) <= 225
  /\ Coded(2, p.full, MetricRow, r) /\ rows = r \o RowsOf(es)
  /\ r \in Seq(MetricRow)
  /\ p.count = 0 => rows = <<>>

(* What ends a payload makes it one that is read.                          *)
LEMMA PacksEnds ==
  ASSUME NEW p, NEW es, NEW r, NEW rows, Packs(p, es, r, rows)
  PROVE  Coded(2, Append(p.full, <<p.count>> \o p.part), MetricRow, rows)
<1>1. /\ es \in Seq(Entry) /\ p.part = BytesOf(es) /\ p.count = Len(es)
      /\ Len(p.part) \in Nat /\ p.count \in Nat
      /\ p.count <= Len(p.part) /\ 1 + Len(p.part) <= 225
      /\ Coded(2, p.full, MetricRow, r) /\ rows = r \o RowsOf(es)
  BY DEF Packs
<1>2. Len(es) < 256
  BY <1>1
<1> DEFINE q == <<Len(es)>> \o BytesOf(es)
<1>3. q \in Seq(Octet) /\ Len(q) = 1 + Len(BytesOf(es)) /\ RowsFor(2, q) = RowsOf(es)
  BY <1>1, <1>2, MetricsRead
<1>4. RowsOf(es) \in Seq(MetricRow)
  BY <1>1, EntriesAre DEF MetricRow
<1>5. q = <<p.count>> \o p.part
  BY <1>1
<1> HIDE DEF q
<1>6. Len(q) <= MaxPlain
  BY <1>1, <1>3, MaxPlainIs
<1>7. Coded(2, Append(p.full, q), MetricRow, r \o RowsFor(2, q))
  BY <1>1, <1>3, <1>4, <1>6, CodedMore
<1> QED
  BY <1>1, <1>3, <1>5, <1>7

(* Packing one more entry keeps what was packed.                           *)
LEMMA PacksMore ==
  ASSUME NEW p, NEW es, NEW r, NEW rows, Packs(p, es, r, rows),
         NEW e \in Entry, rows \in Seq(MetricRow)
  PROVE  \E ds, s : Packs(AddEntry(p, e), ds, s, rows \o <<RowOf(e)>>)
<1> DEFINE b == EntryBytes(e)  w == <<RowOf(e)>>  q == AddEntry(p, e)
           l == Len(p.part)  m == Len(b)
<1>1. /\ es \in Seq(Entry) /\ p.part = BytesOf(es) /\ p.count = Len(es)
      /\ p.part \in Seq(Octet) /\ l \in Nat /\ p.count \in Nat
      /\ p.count <= l /\ 1 + l <= 225
      /\ Coded(2, p.full, MetricRow, r) /\ rows = r \o RowsOf(es)
      /\ r \in Seq(MetricRow)
  BY DEF Packs
<1>2. b \in Seq(Octet) /\ m \in Nat /\ m >= 1 /\ m <= 50
  <2>1. b \in Seq(Octet) /\ Len(e.key) \in Nat /\ Len(e.key) <= 32 /\ m = 18 + Len(e.key)
    BY EntryIs DEF IsEntry
  <2> DEFINE k == Len(e.key)
  <2>2. k \in Nat /\ k <= 32 /\ m = 18 + k
    BY <2>1
  <2> HIDE DEF k, m
  <2> QED
    BY <2>1, <2>2
<1>3. rows \o w # <<>>
  <2>1. w \in Seq(MetricRow) /\ Len(w) = 1
    BY DEF MetricRow
  <2> HIDE DEF w
  <2> DEFINE d == rows \o w
  <2>5. rows \in Seq(MetricRow) /\ Len(rows) \in Nat
    OBVIOUS
  <2>2. Joined(MetricRow, d, Len(rows), Len(w), rows, w)
    BY <2>1, <2>5, JoinedIs
  <2> HIDE DEF d
  <2>3. Len(d) = Len(rows) + 1
    BY <2>1, <2>2 DEF Joined
  <2>4. d # <<>>
    BY <2>3, <2>5
  <2> QED
    BY <2>4 DEF d
<1>4. CASE 1 + l + m > MaxPlain
  <2> DEFINE full == Append(p.full, <<p.count>> \o p.part)  ds == Append(<<>>, e)
             q0 == [full |-> full, part |-> b, count |-> 1]
  <2>1. q = q0
    BY <1>4 DEF AddEntry
  <2>2. Coded(2, full, MetricRow, rows)
    BY PacksEnds
  <2>3. /\ ds \in Seq(Entry) /\ Len(ds) = 1 /\ BytesOf(ds) = b /\ RowsOf(ds) = w
    <3> DEFINE z == <<>>
    <3>0. z \in Seq(Entry) /\ Len(z) = 0 /\ BytesOf(z) = <<>> /\ RowsOf(z) = <<>>
      BY EntriesNone
    <3>4. ds = Append(z, e)
      OBVIOUS
    <3> HIDE DEF z, ds, b, w
    <3>5. /\ ds \in Seq(Entry) /\ Len(ds) = Len(z) + 1
          /\ BytesOf(ds) = BytesOf(z) \o b /\ RowsOf(ds) = RowsOf(z) \o w
      BY <3>0, <3>4, EntriesMore DEF b, w
    <3>1. /\ ds \in Seq(Entry) /\ Len(ds) = 1
          /\ BytesOf(ds) = <<>> \o b /\ RowsOf(ds) = <<>> \o w
      BY <3>0, <3>5
    <3> USE DEF b, w
    <3>2. <<>> \o b = b
      BY <1>2, ConcatEmptySeq
    <3>3. <<>> \o w = w
      <4>1. w \in Seq(MetricRow)
        BY DEF MetricRow
      <4> QED
        BY <4>1, ConcatEmptySeq
    <3> HIDE DEF ds, b, w
    <3> QED
      BY <3>1, <3>2, <3>3
  <2>4. q0.full = full /\ q0.part = b /\ q0.count = 1
    OBVIOUS
  <2> HIDE DEF q0, full, ds, b, w, q
  <2>5. 1 <= m /\ 1 + m <= 225 /\ 1 \in Nat
    BY <1>2
  <2> HIDE DEF m
  <2>6. Packs(q, ds, rows, rows \o w)
    BY <2>1, <2>2, <2>3, <2>4, <2>5, <1>2, <1>3 DEF Packs, m
  <2> QED
    BY <2>6 DEF q, w
<1>5. CASE ~ (1 + l + m > MaxPlain)
  <2> DEFINE ds == Append(es, e)  c == p.part \o b
             q0 == [full |-> p.full, part |-> c, count |-> p.count + 1]
  <2>1. q = q0
    BY <1>5 DEF AddEntry
  <2>2. /\ ds \in Seq(Entry) /\ Len(ds) = p.count + 1 /\ BytesOf(ds) = c
        /\ RowsOf(ds) = RowsOf(es) \o w
    BY <1>1, EntriesMore
  <2>3. c \in Seq(Octet) /\ Len(c) = l + m
    BY <1>1, <1>2, JoinIs
  <2>4. q0.full = p.full /\ q0.part = c /\ q0.count = p.count + 1
    OBVIOUS
  <2>5. rows \o w = r \o RowsOf(ds)
    <3>1. RowsOf(es) \in Seq(MetricRow)
      BY <1>1, EntriesAre DEF MetricRow
    <3>2. w \in Seq(MetricRow)
      BY DEF MetricRow
    <3> DEFINE y == RowsOf(es)
    <3> HIDE DEF y, w, ds
    <3>3. (r \o y) \o w = r \o (y \o w)
      BY <3>1, <3>2, <1>1, Regroup, SMTT(20) DEF y
    <3> QED
      BY <3>3, <2>2, <1>1 DEF y
  <2> DEFINE n == p.count
  <2>6. /\ n \in Nat /\ n + 1 \in Nat /\ n + 1 <= l + m /\ 1 + (l + m) <= 225
        /\ l + m \in Nat /\ n + 1 # 0
    <3> HIDE DEF n, l, m
    <3>1. n \in Nat /\ n <= l /\ l \in Nat /\ m \in Nat /\ m >= 1 /\ ~ (1 + l + m > 225)
      BY <1>1, <1>2, <1>5, MaxPlainIs DEF n
    <3> QED
      BY <3>1
  <2> HIDE DEF q0, ds, c, w, q, l, m, n
  <2>7. Packs(q, ds, r, rows \o w)
    BY <2>1, <2>2, <2>3, <2>4, <2>5, <2>6, <1>1 DEF Packs, n
  <2> QED
    BY <2>7 DEF q, w
<1> QED
  BY <1>4, <1>5

(* However entries are cut into payloads, all are read, in order.          *)
LEMMA PackedRead ==
  ASSUME NEW entries \in Seq(Entry)
  PROVE  Coded(2, Packed(entries), MetricRow, RowsOf(entries))
<1> DEFINE n == Len(entries)  v == RowsOf(entries)
<1>1. /\ n \in Nat /\ v \in Seq(MetricRow) /\ Len(v) = n
      /\ \A k \in 1 .. n : entries[k] \in Entry /\ v[k] = RowOf(entries[k])
  BY EntriesAre DEF MetricRow
<1>2. PICK f : /\ \A i \in 0 .. n : f[i] = PackedAt(entries, f, i)
               /\ Packed(entries) = ClosedPack(f[n])
  BY <1>1, PackedFrom
<1> HIDE DEF n, v
<1> DEFINE Good == {k \in 0 .. n : \E es, r : Packs(f[k], es, r, SubSeq(v, 1, k))}
<1>3. 0 \in Good
  <2>1. 0 \in 0 .. n /\ SubSeq(v, 1, 0) = <<>>
    BY <1>1, SubSeqEmpty
  <2> DEFINE q == [full |-> <<>>, part |-> <<>>, count |-> 0]
  <2>2. f[0] = q
    BY <2>1, <1>2 DEF PackedAt
  <2>3. q.full = <<>> /\ q.part = <<>> /\ q.count = 0
    OBVIOUS
  <2> HIDE DEF q
  <2>4. Coded(2, <<>>, MetricRow, <<>>)
    BY CodedNone
  <2>5. <<>> \o <<>> = <<>>
    OBVIOUS
  <2>6. <<>> \in Seq(Octet) /\ <<>> \in Seq(MetricRow) /\ Len(<<>>) = 0
    OBVIOUS
  <2>7. Packs(q, <<>>, <<>>, <<>>)
    BY <2>3, <2>4, <2>5, <2>6, EntriesNone DEF Packs
  <2> QED
    BY <2>1, <2>2, <2>7
<1>4. ASSUME NEW k \in 1 .. n, k - 1 \in Good PROVE k \in Good
  <2>1. PICK es, r : Packs(f[k - 1], es, r, SubSeq(v, 1, k - 1))
    BY <1>4
  <2>2. k \in 0 .. n /\ k # 0 /\ k \in 1 .. Len(v) /\ 1 \in 1 .. Len(v)
    BY <1>1
  <2>3. f[k] = AddEntry(f[k - 1], entries[k])
    BY <2>2, <1>2 DEF PackedAt
  <2>4. SubSeq(v, 1, k) = SubSeq(v, 1, k - 1) \o <<v[k]>>
    BY <2>2, <1>1, SubSeqRecursiveSecond
  <2>5. SubSeq(v, 1, k - 1) \in Seq(MetricRow)
    <3>1. 1 \in 1 .. Len(v) + 1 /\ k - 1 \in 1 - 1 .. Len(v)
      BY <2>2, <1>1
    <3> QED
      BY <3>1, <1>1, PieceIs
  <2>6. \E ds, s : Packs(AddEntry(f[k - 1], entries[k]), ds, s,
                         SubSeq(v, 1, k - 1) \o <<RowOf(entries[k])>>)
    BY <2>1, <2>5, <1>1, PacksMore
  <2> QED
    BY <2>2, <2>3, <2>4, <2>6, <1>1
<1>5. n \in Good
  <2> HIDE DEF Good
  <2>1. \A k \in 0 .. n : k \in Good
    BY <1>1, <1>3, <1>4, Climbs
  <2> QED
    BY <2>1, <1>1
<1>6. SubSeq(v, 1, n) = v
  BY <1>1, SubSeqFull
<1>7. PICK es, r : Packs(f[n], es, r, v)
  BY <1>5, <1>6
<1> DEFINE p == f[n]
<1>8. Packs(p, es, r, v) /\ Packed(entries) = ClosedPack(p)
  BY <1>2, <1>7
<1> HIDE DEF p
<1>9. Coded(2, ClosedPack(p), MetricRow, v)
  <2>1. CASE p.count = 0
    <3>1. v = <<>>
      BY <2>1, <1>8 DEF Packs
    <3> QED
      BY <2>1, <3>1, CodedNone DEF ClosedPack
  <2>2. CASE p.count # 0
    BY <2>2, <1>8, PacksEnds DEF ClosedPack
  <2> QED
    BY <2>1, <2>2
<1> QED
  BY <1>8, <1>9 DEF v

(* What the server stores: a row of a metric or of another record.         *)
Stored == MetricRow \cup {Due(r)[1] : r \in Record}

(* The rows may be among more.                                             *)
LEMMA CodedWider ==
  ASSUME NEW t, NEW ps, NEW T, NEW rows, Coded(t, ps, T, rows), NEW S, T \subseteq S
  PROVE  Coded(t, ps, S, rows)
<1>1. Seq(T) \subseteq Seq(S)
  BY SeqMonotonic
<1>2. Seq(Seq(T)) \subseteq Seq(Seq(S))
  <2> DEFINE A == Seq(T)  B == Seq(S)
  <2>1. A \subseteq B
    BY <1>1
  <2> HIDE DEF A, B
  <2>2. Seq(A) \subseteq Seq(B)
    BY <2>1, SeqMonotonic
  <2> QED
    BY <2>2 DEF A, B
<1>3. ReadIn(t, ps) \in Seq(Seq(S))
  BY <1>2 DEF Coded
<1> QED
  BY <1>3 DEF Coded

(* Every record's payloads fit chunks and are read as what is due of it.   *)
CodedRecord(r) ==
  /\ Type[r.kind] \in 1 .. 7 /\ Coded(Type[r.kind], Payloads(r), Stored, Due(r))
  /\ Due(r) \in Seq(Stored)

(* A record of one payload is read as it is due.                           *)
LEMMA SimpleCoded ==
  ASSUME NEW r \in Record, NEW p, Simple(r, p)
  PROVE  CodedRecord(r)
<1> DEFINE t == Type[r.kind]
<1>1. /\ Payloads(r) = <<p>> /\ p \in Seq(Octet) /\ Len(p) <= MaxPlain
      /\ t \in 1 .. 7 /\ RowsFor(t, p) = Due(r)
  BY DEF Simple
<1>2. PICK w : Due(r) = <<w>>
  BY DEF Simple
<1>3. w = Due(r)[1]
  BY <1>2
<1>4. w \in Stored
  BY <1>3 DEF Stored
<1>5. Due(r) \in Seq(Stored)
  BY <1>2, <1>4
<1> HIDE DEF t
<1> DEFINE e == <<>>  d == Due(r)
<1>6. Coded(t, e, Stored, e)
  BY CodedNone
<1>7. Append(e, p) = <<p>> /\ e \o d = d
  <2>1. e \o d = d
    BY <1>5, ConcatEmptySeq
  <2> QED
    BY <2>1
<1> HIDE DEF e
<1>8. Coded(t, Append(e, p), Stored, e \o RowsFor(t, p))
  BY <1>1, <1>5, <1>6, CodedMore
<1>9. Coded(t, Payloads(r), Stored, d)
  BY <1>1, <1>7, <1>8
<1> QED
  BY <1>1, <1>5, <1>9 DEF CodedRecord, t

(* The metrics are read as they are due.                                   *)
LEMMA MetricsCoded ==
  ASSUME NEW r \in Record, r.kind = "metrics"
  PROVE  CodedRecord(r)
<1> DEFINE es == r.entries
<1>1. es \in Seq(Entry)
  BY DEF Record
<1>2. Payloads(r) = Packed(es) /\ Type[r.kind] = 2
  <2>1. Payloads(r) = Packed(es)
    BY DEF Payloads
  <2>2. Type[r.kind] = 2
    BY DEF Type
  <2> QED
    BY <2>1, <2>2
<1>3. Due(r) = RowsOf(es)
  <2>1. DOMAIN es = 1 .. Len(es)
    BY <1>1
  <2>2. Due(r) = [i \in DOMAIN es |-> RowOf(es[i])]
    BY DEF Due, RowOf
  <2> QED
    BY <2>1, <2>2 DEF RowsOf
<1> HIDE DEF es
<1>4. Coded(2, Packed(es), MetricRow, RowsOf(es))
  BY <1>1, PackedRead
<1>5. MetricRow \subseteq Stored
  BY DEF Stored
<1>6. Coded(2, Packed(es), Stored, RowsOf(es))
  BY <1>4, <1>5, CodedWider
<1>7. RowsOf(es) \in Seq(MetricRow)
  BY <1>1, EntriesAre DEF MetricRow
<1>8. RowsOf(es) \in Seq(Stored)
  BY <1>5, <1>7, SeqMonotonic
<1>9. 2 \in 1 .. 7
  OBVIOUS
<1> QED
  BY <1>2, <1>3, <1>6, <1>8, <1>9 DEF CodedRecord

(* Whatever an encoder of the device writes of a record, the parser the    *)
(* server has for that type reads as what is due of the record, in         *)
(* payloads that still fit when they are sealed.                           *)
THEOREM RecordsRead ==
  ASSUME NEW r \in Record
  PROVE  CodedRecord(r)
<1>1. r.kind \in {"heartbeat", "metrics", "fault", "reboot", "info", "ota"}
  BY DEF Record
<1>2. CASE r.kind = "heartbeat"
  BY <1>2, HeartbeatRead, SimpleCoded
<1>3. CASE r.kind = "metrics"
  BY <1>3, MetricsCoded
<1>4. CASE r.kind = "fault"
  BY <1>4, FaultRead, SimpleCoded
<1>5. CASE r.kind = "reboot"
  BY <1>5, RebootRead, SimpleCoded
<1>6. CASE r.kind = "info"
  BY <1>6, InfoRead, SimpleCoded
<1>7. CASE r.kind = "ota"
  BY <1>7, OtaRead, SimpleCoded
<1> QED
  BY <1>1, <1>2, <1>3, <1>4, <1>5, <1>6, <1>7

-----------------------------------------------------------------------------
(* Wire: compression *)

(* The first of the places from i on, or the end.                          *)
IsFirst(m, i, places, end) ==
  /\ m \in i .. end /\ m \in Nat
  /\ m = end \/ m \in places
  /\ \A k \in i .. m - 1 : k \notin places

(* The first of the places is found.                                       *)
LEMMA FirstIs ==
  ASSUME NEW i \in Nat, NEW end \in Nat, i <= end, NEW places
  PROVE  IsFirst(FirstFrom(i, places, end), i, places, end)
<1> DEFINE Found == {j \in i .. end : j = end \/ j \in places}
<1>1. Found \in SUBSET Nat /\ end \in Found
  OBVIOUS
<1>2. PICK j \in Found : \A k \in Found : j <= k
  <2> HIDE DEF Found
  <2> QED
    BY <1>1, LeastOfNat
<1>3. j \in i .. end /\ (j = end \/ j \in places)
  OBVIOUS
<1>4. \A k \in i .. j - 1 : k \notin places
  <2> SUFFICES ASSUME NEW k \in i .. j - 1, k \in places PROVE FALSE
    OBVIOUS
  <2>1. k \in i .. end /\ ~ (j <= k)
    BY <1>3
  <2>2. k \in Found
    BY <2>1
  <2> QED
    BY <2>1, <2>2, <1>2
<1> DEFINE m == FirstFrom(i, places, end)
<1>5. /\ m \in i .. end /\ (m = end \/ m \in places)
      /\ \A k \in i .. m - 1 : k \notin places
  <2> HIDE DEF Found
  <2>1. \E q \in i .. end : (q = end \/ q \in places) /\ \A k \in i .. q - 1 : k \notin places
    BY <1>3, <1>4
  <2> QED
    BY <2>1 DEF FirstFrom
<1> HIDE DEF m
<1>6. IsFirst(m, i, places, end)
  BY <1>5 DEF IsFirst
<1> QED
  BY <1>6 DEF m

IsRun(r, bytes, i) ==
  /\ r \in Nat /\ 1 <= r /\ r < 256 /\ i + r <= Len(bytes) + 1
  /\ \A k \in 1 .. r - 1 : bytes[i + k] = bytes[i]

(* A run is of equal bytes, at least one and at most 255.                  *)
LEMMA RunIs ==
  ASSUME NEW bytes \in Seq(Octet), NEW i \in 1 .. Len(bytes)
  PROVE  IsRun(RunAt(bytes, i), bytes, i)
<1> DEFINE most == Least(255, Len(bytes) - i + 1)
           Found == {n \in 1 .. most : n = most \/ bytes[i + n] # bytes[i]}
<1>1. most \in Nat /\ 1 <= most /\ most < 256 /\ i + most <= Len(bytes) + 1
  <2> DEFINE l == Len(bytes)
  <2>1. l \in Nat /\ i \in 1 .. l
    OBVIOUS
  <2> HIDE DEF l
  <2>2. /\ Least(255, l - i + 1) \in Nat /\ 1 <= Least(255, l - i + 1)
        /\ Least(255, l - i + 1) < 256 /\ i + Least(255, l - i + 1) <= l + 1
    BY <2>1 DEF Least
  <2> QED
    BY <2>2 DEF l
<1> HIDE DEF most
<1>2. Found \in SUBSET Nat /\ most \in Found
  BY <1>1
<1>3. PICK n \in Found : \A k \in Found : n <= k
  <2> HIDE DEF Found
  <2> QED
    BY <1>2, LeastOfNat
<1>4. n \in 1 .. most /\ (n = most \/ bytes[i + n] # bytes[i])
  OBVIOUS
<1>5. \A k \in 1 .. n - 1 : bytes[i + k] = bytes[i]
  <2> SUFFICES ASSUME NEW k \in 1 .. n - 1, bytes[i + k] # bytes[i] PROVE FALSE
    OBVIOUS
  <2>1. k \in 1 .. most /\ ~ (n <= k)
    BY <1>1, <1>4
  <2>2. k \in Found
    BY <2>1
  <2> QED
    BY <2>1, <2>2, <1>3
<1> DEFINE r == RunAt(bytes, i)
<1>6. r \in 1 .. most /\ \A k \in 1 .. r - 1 : bytes[i + k] = bytes[i]
  <2> HIDE DEF Found
  <2>1. \E q \in 1 .. most : /\ \A k \in 1 .. q - 1 : bytes[i + k] = bytes[i]
                             /\ q = most \/ bytes[i + q] # bytes[i]
    BY <1>4, <1>5
  <2> QED
    BY <2>1 DEF RunAt, most
<1> HIDE DEF r
<1>7. IsRun(r, bytes, i)
  <2>1. r \in Nat /\ 1 <= r /\ r < 256 /\ i + r <= Len(bytes) + 1
    BY <1>1, <1>6
  <2> QED
    BY <2>1, <1>6 DEF IsRun
<1> QED
  BY <1>7 DEF r

(* One round of rle_compress.                                              *)
Marked(bytes) == {j \in DOMAIN bytes : RunAt(bytes, j) >= 3 \/ bytes[j] = 255}

MarkFrom(bytes, i) == FirstFrom(i, Marked(bytes), Len(bytes) + 1)

CompressAt(bytes, f, i) ==
  IF MarkFrom(bytes, i) = Len(bytes) + 1
    THEN SubSeq(bytes, i, MarkFrom(bytes, i) - 1)
    ELSE SubSeq(bytes, i, MarkFrom(bytes, i) - 1)
         \o <<255, bytes[MarkFrom(bytes, i)], RunAt(bytes, MarkFrom(bytes, i))>>
         \o f[MarkFrom(bytes, i) + RunAt(bytes, MarkFrom(bytes, i))]

(* The recursion of rle_compress has a solution.                           *)
LEMMA CompressFrom ==
  ASSUME NEW bytes \in Seq(Octet)
  PROVE  \E f : /\ Compress(bytes) = f[1]
                /\ \A i \in 1 .. Len(bytes) + 1 : f[i] = CompressAt(bytes, f, i)
<1> DEFINE n == Len(bytes) + 1
           D == 1 .. n
           m(i) == MarkFrom(bytes, i)
           r(i) == RunAt(bytes, m(i))
           stop == {i \in D : m(i) = n}
           next == [i \in D |-> m(i) + r(i)]
           head == [i \in D |-> IF i \in stop THEN SubSeq(bytes, i, m(i) - 1)
                                ELSE SubSeq(bytes, i, m(i) - 1) \o <<255, bytes[m(i)], r(i)>>]
<1>1. n \in Nat
  OBVIOUS
<1>2. Leads(n, stop, next)
  <2> SUFFICES ASSUME NEW i \in 1 .. n, i \notin stop PROVE next[i] \in i + 1 .. n
    BY DEF Leads
  <2>1. IsFirst(m(i), i, Marked(bytes), n)
    BY FirstIs DEF MarkFrom
  <2>2. m(i) # n /\ next[i] = m(i) + r(i)
    OBVIOUS
  <2> DEFINE M == m(i)  R == r(i)
  <2>3. M \in i .. n /\ M # n /\ next[i] = M + R
    BY <2>1, <2>2 DEF IsFirst
  <2>4. M \in 1 .. Len(bytes)
    <3> HIDE DEF M
    <3> QED
      BY <2>3
  <2>5. IsRun(R, bytes, M)
    BY <2>4, RunIs
  <2>6. R \in Nat /\ 1 <= R /\ M + R <= n
    BY <2>5 DEF IsRun
  <2> HIDE DEF M, R, next
  <2> QED
    BY <2>3, <2>4, <2>6
<1>3. PICK f : Solved(f, n, stop, head, next)
  <2> HIDE DEF n, stop, head, next
  <2> QED
    BY <1>1, <1>2, Unrolls
<1>4. ASSUME NEW g, NEW i \in D PROVE Unrolled(g, stop, head, next, i) = CompressAt(bytes, g, i)
  <2>1. next[i] = m(i) + r(i)
    OBVIOUS
  <2>2. head[i] = IF i \in stop THEN SubSeq(bytes, i, m(i) - 1)
                  ELSE SubSeq(bytes, i, m(i) - 1) \o <<255, bytes[m(i)], r(i)>>
    OBVIOUS
  <2>3. i \in stop <=> m(i) = n
    OBVIOUS
  <2> HIDE DEF head, next, stop
  <2> QED
    BY <2>1, <2>2, <2>3 DEF Unrolled, CompressAt
<1>5. f = [i \in D |-> CompressAt(bytes, f, i)]
  BY <1>3, <1>4 DEF Solved
<1> DEFINE from == CHOOSE h : h = [i \in 1 .. Len(bytes) + 1 |-> CompressAt(bytes, h, i)]
<1>6. from = [i \in 1 .. Len(bytes) + 1 |-> CompressAt(bytes, from, i)]
  BY <1>5
<1>7. Compress(bytes) = from[1]
  BY DEF Compress, CompressAt, MarkFrom, Marked
<1> HIDE DEF from
<1>8. \A i \in 1 .. Len(bytes) + 1 : from[i] = CompressAt(bytes, from, i)
  BY <1>6
<1> QED
  BY <1>7, <1>8

(* One round of rle_decompress.                                            *)
Markers(bytes) == {j \in DOMAIN bytes : bytes[j] = 255}

MarkerFrom(bytes, i) == FirstFrom(i, Markers(bytes), Len(bytes) + 1)

DecompressAt(bytes, f, i) ==
  IF MarkerFrom(bytes, i) + 2 > Len(bytes)
    THEN SubSeq(bytes, i, MarkerFrom(bytes, i) - 1)
    ELSE SubSeq(bytes, i, MarkerFrom(bytes, i) - 1)
         \o [k \in 1 .. bytes[MarkerFrom(bytes, i) + 2] |->
               bytes[MarkerFrom(bytes, i) + 1]]
         \o f[MarkerFrom(bytes, i) + 3]

(* The recursion of rle_decompress has a solution.                         *)
LEMMA DecompressFrom ==
  ASSUME NEW bytes \in Seq(Octet)
  PROVE  \E f : /\ Decompress(bytes) = f[1]
                /\ \A i \in 1 .. Len(bytes) + 1 : f[i] = DecompressAt(bytes, f, i)
<1> DEFINE n == Len(bytes) + 1
           D == 1 .. n
           m(i) == MarkerFrom(bytes, i)
           run(i) == [k \in 1 .. bytes[m(i) + 2] |-> bytes[m(i) + 1]]
           stop == {i \in D : m(i) + 2 > Len(bytes)}
           next == [i \in D |-> m(i) + 3]
           head == [i \in D |-> IF i \in stop THEN SubSeq(bytes, i, m(i) - 1)
                                ELSE SubSeq(bytes, i, m(i) - 1) \o run(i)]
<1>1. n \in Nat
  OBVIOUS
<1>2. Leads(n, stop, next)
  <2> SUFFICES ASSUME NEW i \in 1 .. n, i \notin stop PROVE next[i] \in i + 1 .. n
    BY DEF Leads
  <2>1. IsFirst(m(i), i, Markers(bytes), n)
    BY FirstIs DEF MarkerFrom
  <2>2. ~ (m(i) + 2 > Len(bytes)) /\ next[i] = m(i) + 3
    OBVIOUS
  <2> DEFINE M == m(i)
  <2>3. M \in i .. n /\ M \in Nat /\ ~ (M + 2 > Len(bytes)) /\ next[i] = M + 3
    BY <2>1, <2>2 DEF IsFirst
  <2> HIDE DEF M, next
  <2> QED
    BY <2>3
<1>3. PICK f : Solved(f, n, stop, head, next)
  <2> HIDE DEF n, stop, head, next
  <2> QED
    BY <1>1, <1>2, Unrolls
<1>4. ASSUME NEW g, NEW i \in D PROVE Unrolled(g, stop, head, next, i) = DecompressAt(bytes, g, i)
  <2>1. next[i] = m(i) + 3
    OBVIOUS
  <2>2. head[i] = IF i \in stop THEN SubSeq(bytes, i, m(i) - 1)
                  ELSE SubSeq(bytes, i, m(i) - 1) \o run(i)
    OBVIOUS
  <2>3. i \in stop <=> m(i) + 2 > Len(bytes)
    OBVIOUS
  <2> HIDE DEF head, next, stop
  <2> QED
    BY <2>1, <2>2, <2>3 DEF Unrolled, DecompressAt
<1>5. f = [i \in D |-> DecompressAt(bytes, f, i)]
  BY <1>3, <1>4 DEF Solved
<1> DEFINE from == CHOOSE h : h = [i \in 1 .. Len(bytes) + 1 |-> DecompressAt(bytes, h, i)]
<1>6. from = [i \in 1 .. Len(bytes) + 1 |-> DecompressAt(bytes, from, i)]
  BY <1>5
<1>7. Decompress(bytes) = from[1]
  BY DEF Decompress, DecompressAt, MarkerFrom, Markers
<1> HIDE DEF from
<1>8. \A i \in 1 .. Len(bytes) + 1 : from[i] = DecompressAt(bytes, from, i)
  BY <1>6
<1> QED
  BY <1>7, <1>8

(* What one round of compression writes.                                   *)
Written3(bytes, f, i, m, r) ==
  /\ m \in i .. Len(bytes) /\ m \in Nat /\ IsRun(r, bytes, m) /\ m + r \in i + 1 .. Len(bytes) + 1
  /\ <<255, bytes[m], r>> \in Seq(Octet) /\ SubSeq(bytes, i, m - 1) \in Seq(Octet)
  /\ Len(SubSeq(bytes, i, m - 1)) = m - i
  /\ f[i] = SubSeq(bytes, i, m - 1) \o <<255, bytes[m], r>> \o f[m + r]
  /\ \A k \in 1 .. m - i : SubSeq(bytes, i, m - 1)[k] # 255

Plain3(bytes, f, i) ==
  /\ f[i] = SubSeq(bytes, i, Len(bytes)) /\ f[i] \in Seq(Octet)
  /\ \A k \in 1 .. Len(f[i]) : f[i][k] # 255

(* One round of compression: bytes as they are, then a marker.             *)
LEMMA CompressRound ==
  ASSUME NEW bytes \in Seq(Octet), NEW f, NEW i \in 1 .. Len(bytes) + 1,
         f[i] = CompressAt(bytes, f, i)
  PROVE  Plain3(bytes, f, i) \/ \E m, r : Written3(bytes, f, i, m, r)
<1> DEFINE n == Len(bytes)  m == MarkFrom(bytes, i)  r == RunAt(bytes, m)
           g == SubSeq(bytes, i, m - 1)
<1>1. n \in Nat /\ DOMAIN bytes = 1 .. n
  OBVIOUS
<1>2. IsFirst(m, i, Marked(bytes), n + 1)
  BY FirstIs DEF MarkFrom
<1>3. /\ f[i] = IF m = n + 1 THEN g ELSE g \o <<255, bytes[m], r>> \o f[m + r]
  BY DEF CompressAt
<1> HIDE DEF m, n
<1>4. /\ m \in i .. n + 1 /\ m \in Nat /\ \A k \in i .. m - 1 : k \notin Marked(bytes)
  BY <1>2 DEF IsFirst
<1>5. /\ g \in Seq(Octet) /\ Len(g) = m - i /\ \A k \in 1 .. m - i : g[k] = bytes[i + k - 1]
  <2>1. i \in 1 .. Len(bytes) + 1 /\ m - 1 \in i - 1 .. Len(bytes) /\ (m - 1) - i + 1 = m - i
    BY <1>1, <1>4 DEF n
  <2> DEFINE b == m - 1
  <2>2. /\ g \in Seq(Octet) /\ Len(g) = b - i + 1
        /\ \A k \in 1 .. b - i + 1 : g[k] = bytes[i + k - 1]
    <3>1. b \in i - 1 .. Len(bytes) /\ g = SubSeq(bytes, i, b)
      BY <2>1
    <3> HIDE DEF b, g
    <3> QED
      BY <3>1, PieceIs
  <2> HIDE DEF g
  <2> QED
    BY <2>1, <2>2
<1>6. ASSUME NEW k \in 1 .. m - i PROVE g[k] # 255
  <2>1. i + k - 1 \in i .. m - 1 /\ i + k - 1 \in 1 .. n
    BY <1>1, <1>4
  <2>2. i + k - 1 \notin Marked(bytes)
    BY <2>1, <1>4
  <2>3. bytes[i + k - 1] # 255
    BY <2>1, <2>2, <1>1 DEF Marked
  <2> QED
    BY <2>3, <1>5
<1>7. CASE m = n + 1
  <2>1. m - 1 = n
    BY <1>1, <1>7
  <2>2. f[i] = g /\ g = SubSeq(bytes, i, n)
    BY <2>1, <1>3, <1>7
  <2> HIDE DEF g
  <2>3. Plain3(bytes, f, i)
    BY <2>2, <1>5, <1>6 DEF Plain3, n
  <2> QED
    BY <2>3
<1>8. CASE m # n + 1
  <2>1. m \in i .. n /\ m \in 1 .. n
    BY <1>1, <1>4, <1>8
  <2>2. IsRun(r, bytes, m)
    BY <2>1, RunIs DEF n
  <2> HIDE DEF r, g
  <2>3. r \in Nat /\ 1 <= r /\ r < 256 /\ m + r <= n + 1
    BY <2>2 DEF IsRun, n
  <2>4. m + r \in i + 1 .. n + 1
    BY <2>1, <2>3, <1>1, <1>4
  <2>5. <<255, bytes[m], r>> \in Seq(Octet)
    <3>1. 255 \in Octet /\ r \in Octet
      BY <2>3, OctetIs
    <3>2. bytes[m] \in Octet
      BY <2>1, ElementOfSeq DEF n
    <3> QED
      BY <3>1, <3>2
  <2>6. Written3(bytes, f, i, m, r)
    BY <2>1, <2>2, <2>4, <2>5, <1>3, <1>4, <1>5, <1>6, <1>8 DEF Written3, n, g
  <2> QED
    BY <2>6
<1> QED
  BY <1>7, <1>8

(* Compression makes bytes.                                                *)
LEMMA CompressTyped ==
  ASSUME NEW bytes \in Seq(Octet), NEW f,
         \A i \in 1 .. Len(bytes) + 1 : f[i] = CompressAt(bytes, f, i)
  PROVE  \A i \in 1 .. Len(bytes) + 1 : f[i] \in Seq(Octet)
<1> DEFINE top == Len(bytes) + 1
           Good == {i \in 1 .. top : f[i] \in Seq(Octet)}
<1>1. ASSUME NEW i \in 1 .. top, \A j \in i + 1 .. top : j \in Good PROVE i \in Good
  <2>1. CASE Plain3(bytes, f, i)
    BY <2>1 DEF Plain3
  <2>2. ASSUME NEW m, NEW r, Written3(bytes, f, i, m, r) PROVE f[i] \in Seq(Octet)
    <3> DEFINE g == SubSeq(bytes, i, m - 1)  t == <<255, bytes[m], r>>  z == f[m + r]
    <3>1. g \in Seq(Octet) /\ t \in Seq(Octet) /\ f[i] = g \o t \o z /\ m + r \in i + 1 .. top
      BY <2>2 DEF Written3
    <3>2. z \in Seq(Octet)
      BY <3>1, <1>1
    <3> HIDE DEF g, t, z
    <3>3. g \o t \in Seq(Octet)
      BY <3>1, JoinIs
    <3> QED
      BY <3>1, <3>2, <3>3, JoinIs
  <2> QED
    BY <2>1, <2>2, CompressRound
<1>2. \A i \in 1 .. top : i \in Good
  <2>1. top \in Nat
    OBVIOUS
  <2> HIDE DEF Good, top
  <2> QED
    BY <2>1, <1>1, DownTo
<1> QED
  BY <1>2

(* Bytes behind bytes are bytes.                                           *)
LEMMA OctetsJoin ==
  \A a, b \in Seq(Octet) : a \o b \in Seq(Octet) /\ Len(a \o b) = Len(a) + Len(b)
BY JoinIs

(* It is the same which of three runs of bytes are put together first.     *)
LEMMA OctetsRegroup ==
  \A a, b, c \in Seq(Octet) : (a \o b) \o c = a \o (b \o c)
BY Regroup

(* Bytes without a marker, a marker, and the rounds of decompressing y.    *)
Bare(g) == g \in Seq(Octet) /\ \A k \in 1 .. Len(g) : g[k] # 255

IsMark(t, b, r) ==
  t \in Seq(Octet) /\ Len(t) = 3 /\ t[1] = 255 /\ t[2] = b /\ t[3] = r

Reads(d, y) == \A i \in 1 .. Len(y) + 1 : d[i] = DecompressAt(y, d, i)

(* Bytes without a marker are read as they are.                            *)
LEMMA PlainRound ==
  ASSUME NEW u \in Seq(Octet), NEW g, Bare(g), NEW y, y = u \o g,
         NEW d, Reads(d, y)
  PROVE  d[Len(u) + 1] = g
<1> DEFINE a == Len(u)  l == Len(g)  n == Len(y)  m == MarkerFrom(y, a + 1)
<1>1. y \in Seq(Octet) /\ a \in Nat /\ l \in Nat /\ n = a + l /\ Lies(g, y, a)
  <2>1. /\ u \o g \in Seq(Octet) /\ Len(u) \in Nat /\ Len(g) \in Nat
        /\ Len(u \o g) = Len(u) + Len(g) /\ Lies(g, u \o g, Len(u))
    BY LiesTwo DEF Bare
  <2> QED
    BY <2>1
<1>2. a + 1 \in 1 .. n + 1 /\ a + 1 <= n + 1 /\ n + 1 \in Nat /\ a + 1 \in Nat
  <2> HIDE DEF a, l, n
  <2> QED
    BY <1>1
<1>3. IsFirst(m, a + 1, Markers(y), n + 1)
  <2> HIDE DEF a
  <2> QED
    BY <1>2, FirstIs DEF MarkerFrom
<1>4. d[a + 1] = DecompressAt(y, d, a + 1)
  BY <1>2 DEF Reads
<1>5. DOMAIN y = 1 .. n
  BY <1>1
<1> HIDE DEF m, n, a, l
<1>6. m = n + 1
  <2>1. SUFFICES ASSUME m # n + 1 PROVE FALSE
    OBVIOUS
  <2>2. m \in a + 1 .. n + 1 /\ m \in Markers(y)
    BY <2>1, <1>3 DEF IsFirst
  <2> DEFINE k == m - a
  <2>3. k \in 1 .. l /\ a + k = m
    BY <2>1, <2>2, <1>1
  <2> HIDE DEF k
  <2>4. y[a + k] = g[k]
    BY <2>3, <1>1 DEF Lies, l
  <2>5. y[m] = 255
    BY <2>2 DEF Markers
  <2>6. g[k] # 255
    BY <2>3 DEF l, Bare
  <2> QED
    BY <2>3, <2>4, <2>5, <2>6
<1>7. m + 2 > n /\ m - 1 = a + l
  BY <1>1, <1>6
<1>8. d[a + 1] = SubSeq(y, a + 1, a + l)
  BY <1>4, <1>7 DEF DecompressAt, m, n
<1>9. SubSeq(y, a + 1, a + l) = g
  <2>1. Field(y, a, Len(g)) = g
    BY <1>1, LiesField
  <2> QED
    BY <2>1 DEF Field, l
<1> QED
  BY <1>8, <1>9 DEF a

(* Three together.                                                         *)
LEMMA ThreeLong ==
  ASSUME NEW u \in Seq(Octet), NEW g \in Seq(Octet), NEW t \in Seq(Octet)
  PROVE  Len(u \o g \o t) = Len(u) + Len(g) + Len(t)
<1> DEFINE h == u \o g
<1>1. h \in Seq(Octet) /\ Len(h) = Len(u) + Len(g)
  BY OctetsJoin
<1> HIDE DEF h
<1>2. Len(h \o t) = Len(h) + Len(t)
  BY <1>1, OctetsJoin
<1> QED
  BY <1>1, <1>2 DEF h

(* Where a mark lies.                                                      *)
LEMMA MarkLies ==
  ASSUME NEW t, NEW b, NEW r, IsMark(t, b, r), NEW y, NEW o, Lies(t, y, o)
  PROVE  y[o + 1] = 255 /\ y[o + 2] = b /\ y[o + 3] = r
<1>1. t[1] = 255 /\ t[2] = b /\ t[3] = r /\ Len(t) = 3
  BY DEF IsMark
<1>2. 1 \in 1 .. Len(t) /\ 2 \in 1 .. Len(t) /\ 3 \in 1 .. Len(t)
  BY <1>1
<1>3. \A k \in 1 .. Len(t) : y[o + k] = t[k]
  BY DEF Lies
<1> QED
  BY <1>1, <1>2, <1>3

(* What is read so far, bytes as they are, a mark, and the rest.           *)
MadeOf(y, u, g, t, z) == y = u \o g \o t \o z

(* Reading them gives the bytes, the run, and what the rest gives.         *)
GivesRun(d, u, g, t, b, r) ==
  d[Len(u) + 1] = g \o [k \in 1 .. r |-> b] \o d[Len(u \o g \o t) + 1]

(* A run.                                                                  *)
LEMMA MarkedRound ==
  ASSUME NEW u \in Seq(Octet), NEW g, Bare(g), NEW t, NEW b, NEW r, IsMark(t, b, r),
         NEW z \in Seq(Octet), NEW y, MadeOf(y, u, g, t, z), NEW d, Reads(d, y)
  PROVE  GivesRun(d, u, g, t, b, r)
<1> DEFINE a == Len(u)  l == Len(g)  n == Len(y)  m == MarkerFrom(y, a + 1)  c == Len(z)
<1>1. /\ t \in Seq(Octet) /\ Len(t) = 3 /\ t[1] = 255 /\ t[2] = b /\ t[3] = r
      /\ g \in Seq(Octet)
  BY DEF IsMark, Bare
<1>2. Parts4(y, u, g, t, z)
  BY <1>1, FourParts DEF MadeOf
<1>4. /\ y \in Seq(Octet) /\ a \in Nat /\ l \in Nat /\ c \in Nat /\ n = a + l + 3 + c
      /\ Lies(g, y, a) /\ Lies(t, y, a + l)
  <2> HIDE DEF a, l, n, c
  <2>1. /\ y \in Seq(Octet) /\ a \in Nat /\ l \in Nat /\ c \in Nat /\ n = a + l + Len(t) + c
        /\ Lies(g, y, a) /\ Lies(t, y, a + l)
    BY <1>2 DEF Parts4, a, l, n, c
  <2> QED
    BY <2>1, <1>1
<1>5. Len(u \o g \o t) = a + l + 3
  <2>0. t \in Seq(Octet) /\ g \in Seq(Octet)
    BY <1>1
  <2>1. Len(u \o g \o t) = Len(u) + Len(g) + Len(t)
    <3> HIDE DEF a, l
    <3> QED
      BY <2>0, ThreeLong
  <2>2. Len(u \o g \o t) = a + l + Len(t)
    BY <2>1
  <2> HIDE DEF a, l
  <2> QED
    BY <2>2, <1>1
<1>6. a + 1 \in 1 .. n + 1 /\ a + 1 <= n + 1 /\ n + 1 \in Nat /\ a + 1 \in Nat
  <2> HIDE DEF a, l, n, c
  <2> QED
    BY <1>4
<1>7. IsFirst(m, a + 1, Markers(y), n + 1)
  <2> HIDE DEF a
  <2> QED
    BY <1>6, FirstIs DEF MarkerFrom
<1>8. d[a + 1] = DecompressAt(y, d, a + 1)
  BY <1>6 DEF Reads
<1>9. DOMAIN y = 1 .. n
  BY <1>4
<1> HIDE DEF m, n, a, l, c
<1> DEFINE p == a + l + 1
<1>10. y[p] = 255 /\ y[p + 1] = b /\ y[p + 2] = r
  <2>1. y[(a + l) + 1] = 255 /\ y[(a + l) + 2] = b /\ y[(a + l) + 3] = r
    <3> DEFINE o == a + l
    <3>1. Lies(t, y, o)
      BY <1>4
    <3> HIDE DEF o
    <3>2. y[o + 1] = 255 /\ y[o + 2] = b /\ y[o + 3] = r
      BY <3>1, MarkLies
    <3> QED
      BY <3>2 DEF o
  <2>2. (a + l) + 1 = p /\ (a + l) + 2 = p + 1 /\ (a + l) + 3 = p + 2
    BY <1>4
  <2> QED
    BY <2>1, <2>2, <1>1
<1>11. p \in a + 1 .. n /\ p \in 1 .. n /\ p + 2 <= n /\ p - 1 = a + l /\ p + 3 = (a + l + 3) + 1
       /\ p \in Nat
  BY <1>4
<1>12. p \in Markers(y)
  BY <1>9, <1>10, <1>11 DEF Markers
<1>13. m = p
  <2>1. m \in a + 1 .. n + 1 /\ m \in Nat /\ (m = n + 1 \/ m \in Markers(y))
        /\ \A k \in a + 1 .. m - 1 : k \notin Markers(y)
    BY <1>7 DEF IsFirst
  <2>2. ~ (m > p)
    <3>1. SUFFICES ASSUME m > p PROVE FALSE
      OBVIOUS
    <3>2. p \in a + 1 .. m - 1
      <4> HIDE DEF p
      <4> QED
        BY <3>1, <2>1, <1>4, <1>11
    <3> QED
      BY <3>2, <2>1, <1>12
  <2>3. ~ (m < p)
    <3>1. SUFFICES ASSUME m < p PROVE FALSE
      OBVIOUS
    <3> DEFINE k == m - a
    <3>2. k \in 1 .. l /\ a + k = m /\ m # n + 1
      BY <3>1, <2>1, <1>4
    <3> HIDE DEF k
    <3>3. y[a + k] = g[k] /\ g[k] # 255
      BY <3>2, <1>4 DEF Lies, l, Bare
    <3>4. y[m] = 255
      BY <2>1, <3>2 DEF Markers
    <3> QED
      BY <3>2, <3>3, <3>4
  <2> HIDE DEF p
  <2> QED
    BY <2>1, <2>2, <2>3, <1>11
<1> HIDE DEF p
<1>14. ~ (m + 2 > n) /\ m - 1 = a + l
  BY <1>4, <1>11, <1>13
<1>15. d[a + 1] = SubSeq(y, a + 1, a + l) \o [k \in 1 .. y[p + 2] |-> y[p + 1]] \o d[p + 3]
  BY <1>8, <1>13, <1>14 DEF DecompressAt, m, n
<1>16. SubSeq(y, a + 1, a + l) = g
  <2>1. Field(y, a, Len(g)) = g
    BY <1>4, LiesField
  <2> QED
    BY <2>1 DEF Field, l
<1>17. d[a + 1] = g \o [k \in 1 .. r |-> b] \o d[(a + l + 3) + 1]
  BY <1>10, <1>11, <1>15, <1>16
<1> QED
  BY <1>5, <1>17 DEF a, GivesRun

(* A piece of a sequence in three.                                         *)
LEMMA InThree ==
  ASSUME NEW S, NEW s \in Seq(S), NEW i \in Nat, NEW m \in Nat, NEW q \in Nat,
         1 <= i, i <= m, m <= q, q <= Len(s) + 1
  PROVE  SubSeq(s, i, Len(s))
           = SubSeq(s, i, m - 1) \o SubSeq(s, m, q - 1) \o SubSeq(s, q, Len(s))
<1> DEFINE n == Len(s)
<1>1. n \in Nat
  OBVIOUS
<1>2. ASSUME NEW a \in Nat, NEW b \in Nat, NEW c \in Nat, 1 <= a, a <= b, b <= c, c <= n + 1
      PROVE  SubSeq(s, a, c - 1) = SubSeq(s, a, b - 1) \o SubSeq(s, b, c - 1)
  <2> DEFINE x == SubSeq(s, a, b - 1)  y == SubSeq(s, b, c - 1)  z == SubSeq(s, a, c - 1)
             d == x \o y
  <2>1. /\ a \in 1 .. n + 1 /\ b - 1 \in a - 1 .. n /\ b \in 1 .. n + 1
        /\ c - 1 \in b - 1 .. n /\ c - 1 \in a - 1 .. n
        /\ (b - 1) - a + 1 = b - a /\ (c - 1) - b + 1 = c - b /\ (c - 1) - a + 1 = c - a
    BY <1>1, <1>2
  <2>2. x \in Seq(S) /\ Len(x) = b - a /\ \A k \in 1 .. b - a : x[k] = s[a + k - 1]
    BY <2>1, PieceIs
  <2>3. y \in Seq(S) /\ Len(y) = c - b /\ \A k \in 1 .. c - b : y[k] = s[b + k - 1]
    BY <2>1, PieceIs
  <2>4. z \in Seq(S) /\ Len(z) = c - a /\ \A k \in 1 .. c - a : z[k] = s[a + k - 1]
    BY <2>1, PieceIs
  <2> HIDE DEF x, y, z, n
  <2>5. Joined(S, d, b - a, c - b, x, y)
    <3>1. Joined(S, d, Len(x), Len(y), x, y)
      BY <2>2, <2>3, JoinedIs
    <3> QED
      BY <3>1, <2>2, <2>3
  <2> HIDE DEF d
  <2>6. d \in Seq(S) /\ Len(d) = c - a
    <3>1. (b - a) + (c - b) = c - a
      OBVIOUS
    <3> QED
      BY <3>1, <2>5 DEF Joined
  <2>7. ASSUME NEW k \in 1 .. c - a PROVE d[k] = z[k]
    <3>1. CASE k \in 1 .. b - a
      BY <3>1, <2>2, <2>4, <2>5 DEF Joined
    <3>2. CASE k \notin 1 .. b - a
      <4> DEFINE j == k - (b - a)
      <4>1. j \in 1 .. c - b /\ (b - a) + j = k /\ b + j - 1 = a + k - 1
        BY <3>2, <1>2
      <4> HIDE DEF j
      <4>2. d[(b - a) + j] = y[j]
        BY <4>1, <2>5 DEF Joined
      <4> QED
        BY <4>1, <4>2, <2>3, <2>4
    <3> QED
      BY <3>1, <3>2
  <2>8. d = z
    BY <2>4, <2>6, <2>7, SeqEqual
  <2> QED
    BY <2>8 DEF d, x, y, z
<1>3. SubSeq(s, i, q - 1) = SubSeq(s, i, m - 1) \o SubSeq(s, m, q - 1)
  BY <1>1, <1>2
<1>4. SubSeq(s, i, (n + 1) - 1) = SubSeq(s, i, q - 1) \o SubSeq(s, q, (n + 1) - 1)
  <2>1. n + 1 \in Nat /\ i <= q /\ q <= n + 1 /\ n + 1 <= n + 1
    BY <1>1
  <2> HIDE DEF n
  <2> QED
    BY <2>1, <1>2
<1>5. (n + 1) - 1 = n
  BY <1>1
<1> QED
  BY <1>3, <1>4, <1>5

(* rle_decompress undoes rle_compress, whatever the bytes: runs of any     *)
(* length, and bytes that look like the marker.                            *)
THEOREM CompressUndone ==
  ASSUME NEW x \in Seq(Octet)
  PROVE  Compress(x) \in Seq(Octet) /\ Decompress(Compress(x)) = x
<1> DEFINE n == Len(x)  top == n + 1
<1>1. n \in Nat /\ top \in Nat /\ 1 \in 1 .. top
  OBVIOUS
<1>2. PICK f : Compress(x) = f[1] /\ \A i \in 1 .. top : f[i] = CompressAt(x, f, i)
  BY CompressFrom
<1>3. \A i \in 1 .. top : f[i] \in Seq(Octet)
  BY <1>2, CompressTyped
<1> DEFINE y == f[1]
<1>4. y \in Seq(Octet)
  BY <1>1, <1>3
<1>5. PICK d : Decompress(y) = d[1] /\ Reads(d, y)
  BY <1>4, DecompressFrom DEF Reads
<1> HIDE DEF y
<1> DEFINE Good == {i \in 1 .. top : \A u \in Seq(Octet) :
                      y = u \o f[i] => d[Len(u) + 1] = SubSeq(x, i, n)}
<1>6. ASSUME NEW i \in 1 .. top, \A j \in i + 1 .. top : j \in Good PROVE i \in Good
  <2> SUFFICES ASSUME NEW u \in Seq(Octet), y = u \o f[i]
               PROVE  d[Len(u) + 1] = SubSeq(x, i, n)
    OBVIOUS
  <2> HIDE DEF Good
  <2>1. CASE Plain3(x, f, i)
    <3> DEFINE g == f[i]
    <3>1. g = SubSeq(x, i, n) /\ Bare(g)
      BY <2>1 DEF Plain3, Bare
    <3>2. y = u \o g
      OBVIOUS
    <3> HIDE DEF g, Good
    <3> QED
      BY <3>1, <3>2, <1>5, PlainRound, ZenonT(40)
  <2>2. ASSUME NEW m, NEW r, Written3(x, f, i, m, r)
        PROVE  d[Len(u) + 1] = SubSeq(x, i, n)
    <3> DEFINE g == SubSeq(x, i, m - 1)  b == x[m]  t == <<255, b, r>>  j == m + r  z == f[j]
               v == u \o g \o t  run == [k \in 1 .. r |-> b]
    <3>1. /\ m \in i .. n /\ m \in Nat /\ IsRun(r, x, m) /\ j \in i + 1 .. top
          /\ t \in Seq(Octet) /\ g \in Seq(Octet) /\ Len(g) = m - i
          /\ f[i] = g \o t \o z /\ \A k \in 1 .. m - i : g[k] # 255
      BY <2>2 DEF Written3
    <3>2. r \in Nat /\ 1 <= r /\ r < 256 /\ \A k \in 1 .. r - 1 : x[m + k] = b
      BY <3>1 DEF IsRun
    <3>3. b \in Octet /\ r \in Octet
      <4>1. m \in 1 .. n
        BY <3>1, <1>1
      <4> QED
        BY <4>1, <3>2, ElementOfSeq, OctetIs
    <3>4. z \in Seq(Octet) /\ j \in 1 .. top /\ j \in Nat
      <4>1. j \in 1 .. top /\ j \in Nat
        <5> HIDE DEF j
        <5> QED
          BY <3>1, <1>1
      <4> QED
        BY <4>1, <1>3
    <3> HIDE DEF g, z, j
    <3>5. v \in Seq(Octet) /\ u \o g \in Seq(Octet)
      BY <3>1, JoinIs
    <3>6. y = v \o z
      <4> DEFINE h == g \o t  ug == u \o g
      <4>1. h \in Seq(Octet) /\ y = u \o (h \o z)
        BY <3>1, JoinIs
      <4>2. u \o h = ug \o t
        <5> HIDE DEF t
        <5> QED
          BY <3>1, OctetsRegroup, ZenonT(40)
      <4>3. v = ug \o t
        OBVIOUS
      <4> HIDE DEF h, v, t, ug
      <4>4. (u \o h) \o z = u \o (h \o z)
        BY <4>1, <3>4, OctetsRegroup
      <4> QED
        BY <4>1, <4>2, <4>3, <4>4
    <3>7. Bare(g) /\ IsMark(t, b, r)
      <4>1. Bare(g)
        BY <3>1 DEF Bare
      <4>2. t[1] = 255 /\ t[2] = b /\ t[3] = r /\ Len(t) = 3
        OBVIOUS
      <4> HIDE DEF t, b
      <4> QED
        BY <4>1, <4>2, <3>1 DEF IsMark
    <3>8. d[Len(u) + 1] = g \o run \o d[Len(v) + 1]
      <4>1. MadeOf(y, u, g, t, z)
        BY <3>6 DEF MadeOf
      <4> HIDE DEF Good, t, b, v, run
      <4>2. Reads(d, y)
        BY <1>5
      <4>3. GivesRun(d, u, g, t, b, r)
        BY <3>4, <3>7, <4>1, <4>2, MarkedRound
      <4> QED
        BY <4>3 DEF v, run, GivesRun
    <3>9. d[Len(v) + 1] = SubSeq(x, j, n)
      <4>1. j \in Good
        BY <3>1, <1>6
      <4> HIDE DEF v
      <4>2. y = v \o f[j]
        BY <3>6 DEF z
      <4> QED
        BY <4>1, <4>2, <3>5 DEF Good
    <3>10. run = SubSeq(x, m, j - 1)
      <4>1. m \in 1 .. Len(x) + 1 /\ j - 1 \in m - 1 .. Len(x) /\ (j - 1) - m + 1 = r
        BY <3>1, <3>2, <3>4, <1>1 DEF j
      <4>2. /\ SubSeq(x, m, j - 1) \in Seq(Octet) /\ Len(SubSeq(x, m, j - 1)) = r
            /\ \A k \in 1 .. r : SubSeq(x, m, j - 1)[k] = x[m + k - 1]
        <5> DEFINE e == j - 1  w == SubSeq(x, m, e)
        <5>1. e \in m - 1 .. Len(x) /\ e - m + 1 = r
          BY <4>1
        <5> HIDE DEF e
        <5>2. w \in Seq(Octet) /\ Len(w) = e - m + 1 /\ \A k \in 1 .. e - m + 1 : w[k] = x[m + k - 1]
          BY <5>1, <4>1, PieceIs
        <5> QED
          BY <5>1, <5>2 DEF e
      <4>3. run \in Seq(Octet) /\ Len(run) = r /\ \A k \in 1 .. r : run[k] = b
        <5> HIDE DEF b
        <5> QED
          BY <3>2, <3>3
      <4>4. ASSUME NEW k \in 1 .. r PROVE x[m + k - 1] = b
        <5>1. CASE k = 1
          <6>1. m + k - 1 = m
            BY <5>1, <3>1
          <6> QED
            BY <6>1
        <5>2. CASE k # 1
          <6>1. k - 1 \in 1 .. r - 1 /\ m + (k - 1) = m + k - 1
            BY <5>2, <3>1, <3>2
          <6> QED
            BY <6>1, <3>2
        <5> QED
          BY <5>1, <5>2
      <4> DEFINE w == SubSeq(x, m, j - 1)
      <4> HIDE DEF run, w, b
      <4>5. run = w
        BY <4>2, <4>3, <4>4, SeqEqual DEF w
      <4> QED
        BY <4>5 DEF w
    <3>11. SubSeq(x, i, n) = g \o SubSeq(x, m, j - 1) \o SubSeq(x, j, n)
      <4>1. 1 <= i /\ i <= m /\ m <= j /\ j <= Len(x) + 1 /\ i \in Nat
        BY <3>1, <3>2, <3>4, <1>1 DEF j
      <4>3. m \in Nat /\ j \in Nat
        BY <3>1, <3>4
      <4> HIDE DEF j
      <4>2. SubSeq(x, i, Len(x)) = SubSeq(x, i, m - 1) \o SubSeq(x, m, j - 1) \o SubSeq(x, j, Len(x))
        BY <4>1, <4>3, InThree
      <4> QED
        BY <4>2 DEF g
    <3> HIDE DEF run, v
    <3> QED
      BY <3>8, <3>9, <3>10, <3>11
  <2> QED
    BY <2>1, <2>2, <1>2, CompressRound
<1>7. 1 \in Good
  <2> HIDE DEF Good, top
  <2> QED
    BY <1>1, <1>6, DownTo
<1>8. d[1] = SubSeq(x, 1, n)
  <2> DEFINE e == <<>>
  <2>1. e \in Seq(Octet) /\ Len(e) + 1 = 1
    OBVIOUS
  <2>2. y = e \o f[1]
    <3>1. e \o y = y
      BY <1>4, ConcatEmptySeq
    <3> QED
      BY <3>1 DEF y
  <2> HIDE DEF e
  <2>3. d[Len(e) + 1] = SubSeq(x, 1, n)
    BY <2>1, <2>2, <1>7
  <2> QED
    BY <2>1, <2>3
<1>9. SubSeq(x, 1, n) = x
  BY SubSeqFull
<1> QED
  BY <1>2, <1>4, <1>5, <1>8, <1>9 DEF y

(* Deciphering with the key that ciphered gives the bytes back.            *)
LEMMA CipherIs ==
  ASSUME NEW key \in Octet, NEW p \in Seq(Octet)
  PROVE  /\ Cipher(key, p) \in Seq(Octet) /\ Len(Cipher(key, p)) = Len(p)
         /\ Decipher(key, Cipher(key, p)) = p
<1> DEFINE c == Cipher(key, p)  d == Decipher(key, c)  n == Len(p)
<1>1. n \in Nat /\ DOMAIN p = 1 .. n /\ key \in Nat /\ key < 256
  BY OctetIs
<1>2. ASSUME NEW i \in 1 .. n PROVE p[i] \in Octet /\ p[i] \in Nat /\ p[i] < 256
  BY ElementOfSeq, OctetIs
<1>3. c = [i \in 1 .. n |-> (p[i] + key) % 256]
  BY <1>1 DEF Cipher
<1>4. ASSUME NEW i \in 1 .. n PROVE (p[i] + key) % 256 \in Octet
  <2> DEFINE e == p[i]
  <2>1. e \in Nat
    BY <1>2
  <2> HIDE DEF e
  <2>2. (e + key) % 256 \in Nat /\ (e + key) % 256 < 256
    BY <2>1, <1>1
  <2> QED
    BY <2>2, OctetIs DEF e
<1>5. c \in Seq(Octet) /\ Len(c) = n /\ DOMAIN c = 1 .. n
  <2> HIDE DEF n
  <2>1. c \in [1 .. n -> Octet]
    <3> HIDE DEF c
    <3> QED
      BY <1>3, <1>4
  <2> HIDE DEF c
  <2> QED
    BY <2>1, <1>1
<1> HIDE DEF c
<1>6. d = [i \in 1 .. n |-> (c[i] + 256 - key) % 256]
  BY <1>5 DEF Decipher
<1> HIDE DEF d
<1>7. ASSUME NEW i \in 1 .. n PROVE d[i] = p[i]
  <2> DEFINE e == p[i]
  <2>1. c[i] = (e + key) % 256
    BY <1>3
  <2>2. d[i] = (c[i] + 256 - key) % 256
    BY <1>6
  <2>3. e \in Nat /\ e < 256
    BY <1>2
  <2> HIDE DEF e
  <2>4. (((e + key) % 256) + 256 - key) % 256 = e
    BY <2>3, <1>1
  <2> QED
    BY <2>1, <2>2, <2>4 DEF e
<1>8. d = p
  <2>1. DOMAIN d = 1 .. n
    BY <1>6
  <2>2. p = [i \in 1 .. n |-> p[i]]
    BY <1>1
  <2>3. d = [i \in 1 .. n |-> d[i]]
    BY <1>6
  <2> HIDE DEF n
  <2> QED
    BY <2>2, <2>3, <1>7
<1> QED
  BY <1>5, <1>8 DEF c, d

(* The nonce: its last byte is the version.                                *)
LEMMA NonceIs ==
  ASSUME NEW version \in {0, 1}, NEW key \in Octet
  PROVE  /\ Nonce(version, key) \in Seq(Octet) /\ Len(Nonce(version, key)) = 13
         /\ Nonce(version, key)[13] = version
<1> DEFINE z == Zeros(8)  k == IF version = 1 THEN key ELSE 0  w == <<k, 0, 0, 0, version>>
<1>1. 0 \in Octet /\ version \in Octet /\ k \in Octet
  BY OctetIs
<1>2. z \in Seq(Octet) /\ Len(z) = 8
  BY <1>1 DEF Zeros
<1> HIDE DEF k, z
<1>3. w \in Seq(Octet) /\ Len(w) = 5 /\ w[5] = version
  BY <1>1
<1> HIDE DEF w
<1>4. Joined(Octet, z \o w, Len(z), Len(w), z, w)
  BY <1>2, <1>3, JoinedIs
<1> DEFINE y == z \o w
<1>5. Joined(Octet, y, 8, 5, z, w)
  BY <1>2, <1>3, <1>4
<1> HIDE DEF y
<1>6. y \in Seq(Octet) /\ Len(y) = 13
  BY <1>5 DEF Joined
<1>7. y[8 + 5] = w[5]
  BY <1>5 DEF Joined
<1> QED
  BY <1>3, <1>6, <1>7 DEF y, z, w, k, Nonce

(* The tag tells its key.                                                  *)
LEMMA TagIs ==
  ASSUME NEW key \in Octet
  PROVE  /\ Tag(key) \in Seq(Octet) /\ Len(Tag(key)) = 8
         /\ \A k : Tag(k) = Tag(key) => k = key
<1>1. Tag(key) = [i \in 1 .. 8 |-> key] /\ \A k : Tag(k) = [i \in 1 .. 8 |-> k]
  BY DEF Tag, TagSize
<1>2. \A k : Tag(k)[1] = k
  BY <1>1
<1> QED
  BY <1>1, <1>2

(* The payload of a sealed chunk.                                          *)
IsSealed(q, p, key, version) ==
  /\ q \in Seq(Octet) /\ Len(q) = Len(p) + 21 /\ Len(p) \in Nat
  /\ Field(q, Len(q) - 8, 8) = Tag(key)
  /\ Field(q, 13, Len(p)) = Cipher(key, p) /\ q[13] = version

(* The payload of a sealed chunk is nonce, cipher and tag.                 *)
LEMMA SealedPayload ==
  ASSUME NEW version \in {0, 1}, NEW key \in Octet, NEW p \in Seq(Octet)
  PROVE  IsSealed(Nonce(version, key) \o Cipher(key, p) \o Tag(key), p, key, version)
<1> DEFINE o == Nonce(version, key)  c == Cipher(key, p)  t == Tag(key)
           a == o \o c  q == a \o t  n == Len(p)
<1>1. o \in Seq(Octet) /\ Len(o) = 13 /\ o[13] = version
  BY NonceIs
<1>2. c \in Seq(Octet) /\ Len(c) = n /\ n \in Nat
  BY CipherIs
<1>3. t \in Seq(Octet) /\ Len(t) = 8
  BY TagIs
<1> HIDE DEF o, c, t, n
<1>4. a \in Seq(Octet) /\ Len(a) = Len(o) + Len(c) /\ Lies(o, a, 0) /\ Lies(c, a, Len(o))
  BY <1>1, <1>2, LiesTwo
<1> HIDE DEF a
<1>5. q \in Seq(Octet) /\ Len(q) = Len(a) + Len(t) /\ Lies(t, q, Len(a))
  BY <1>3, <1>4, LiesTwo
<1>6. Lies(o, q, 0) /\ Lies(c, q, Len(o))
  BY <1>3, <1>4, LiesFirst
<1> HIDE DEF q
<1>7. Len(q) = n + 21 /\ Len(q) - 8 = Len(a)
  BY <1>1, <1>2, <1>3, <1>4, <1>5
<1>8. Field(q, Len(a), Len(t)) = t /\ Field(q, Len(o), Len(c)) = c
  BY <1>5, <1>6, LiesField
<1>9. q[13] = version
  <2>1. q[0 + 13] = o[13]
    BY <1>1, <1>6 DEF Lies
  <2> QED
    BY <2>1, <1>1
<1>10. Field(q, Len(q) - 8, 8) = t /\ Field(q, 13, n) = c
  BY <1>1, <1>2, <1>3, <1>7, <1>8
<1>11. IsSealed(q, p, key, version)
  BY <1>2, <1>5, <1>7, <1>9, <1>10 DEF IsSealed, n, c, t
<1> QED
  BY <1>11 DEF q, a, o, c, t

(* The flags of a chunk before it is sealed.                               *)
Unsealed == {0, 1, 8, 9}

(* Flags of chunks that are not sealed.                                    *)
LEMMA FlagsAre ==
  /\ \A f \in Unsealed : /\ f \in Octet /\ f + 4 \in Octet
                         /\ ~ Has(f, FlagSealed) /\ Has(f + 4, FlagSealed)
  /\ \A f \in {0, 1} : f + 8 \in Unsealed /\ ~ Has(f, FlagPacked)
  /\ \A f \in {0, 1} : ~ Has(f + 4, FlagPacked)
<1>1. \A f \in Unsealed : f \in Octet /\ f + 4 \in Octet
  BY OctetIs DEF Unsealed
<1>2. \A f \in Unsealed : ~ Has(f, FlagSealed) /\ Has(f + 4, FlagSealed)
  BY DEF Unsealed, Has, FlagSealed
<1>3. \A f \in {0, 1} : f + 8 \in Unsealed /\ ~ Has(f, FlagPacked) /\ ~ Has(f + 4, FlagPacked)
  BY DEF Unsealed, Has, FlagPacked
<1> QED
  BY <1>1, <1>2, <1>3

(* A sealed chunk is a chunk.                                              *)
LEMMA SealedIs ==
  ASSUME CrcTyped, NEW t, NEW fl \in Unsealed, NEW p, NEW n, Bearing(t, fl, p, n),
         NEW version \in {0, 1}, NEW key \in Octet, Len(p) <= 300
  PROVE  \E q : /\ Sealed(FrameOf(t, fl, p, n), version, key) = FrameOf(t, fl + 4, q, n)
                /\ IsSealed(q, p, key, version) /\ Bearing(t, fl + 4, q, n)
<1> DEFINE c == FrameOf(t, fl, p, n)  f == fl + 4
           q == Nonce(version, key) \o Cipher(key, p) \o Tag(key)
<1>1. f \in Octet
  BY FlagsAre
<1>2. /\ t \in 1 .. 7 /\ n \in Word /\ p \in Seq(Octet)
  BY DEF Bearing
<1>3. PayloadOf(c) = p
  BY DecIs
<1>4. IsSealed(q, p, key, version)
  BY <1>2, SealedPayload
<1>5. Sealed(c, version, key) = Reframed(c, q, 4)
  <2> HIDE DEF c
  <2> QED
    BY <1>3 DEF Sealed, FlagSealed
<1> HIDE DEF q, c
<1>6. q \in Seq(Octet) /\ Len(q) \in Word
  <2>1. q \in Seq(Octet) /\ Len(q) = Len(p) + 21 /\ Len(p) \in Nat
    BY <1>4 DEF IsSealed
  <2> QED
    BY <2>1 DEF Word
<1>7. Reframed(c, q, 4) = FrameOf(t, f, q, n)
  BY <1>1, <1>6, ReframedIs DEF c
<1>8. Bearing(t, f, q, n)
  BY <1>1, <1>2, <1>6 DEF Bearing
<1> QED
  BY <1>4, <1>5, <1>7, <1>8 DEF c

(* What the server makes of a sealed chunk.                                *)
OpenedAs(q, p, key, version, t, f) ==
  /\ key = ServerKey =>
       Opened([type |-> t, flags |-> f, payload |-> q])
         = <<[type |-> t, flags |-> f, payload |-> p]>>
  /\ key # ServerKey /\ version = 1 =>
       Opened([type |-> t, flags |-> f, payload |-> q]) = <<>>

(* The key that sealed a chunk opens it.                                   *)
LEMMA OpenedIs ==
  ASSUME NEW q, NEW p \in Seq(Octet), NEW key \in Octet, NEW version \in {0, 1},
         IsSealed(q, p, key, version), NEW t, NEW f, Has(f, FlagSealed)
  PROVE  OpenedAs(q, p, key, version, t, f)
<1> DEFINE n == Len(p)
<1>1. /\ q \in Seq(Octet) /\ Len(q) = n + 21 /\ n \in Nat
      /\ Field(q, Len(q) - 8, 8) = Tag(key)
      /\ Field(q, 13, n) = Cipher(key, p) /\ q[13] = version
  BY DEF IsSealed
<1> HIDE DEF n
<1>2. Opens(q) <=> Tag(key) = Tag(ServerKey)
  BY <1>1 DEF Opens, NonceSize, TagSize
<1> DEFINE c == [type |-> t, flags |-> f, payload |-> q]
<1>3. c.flags = f /\ c.payload = q
  OBVIOUS
<1>4. ASSUME key = ServerKey PROVE Opened(c) = <<[type |-> t, flags |-> f, payload |-> p]>>
  <2>1. Plaintext(q) = p
    <3>1. Len(q) - 13 - 8 = n
      BY <1>1
    <3>2. Plaintext(q) = Decipher(ServerKey, Field(q, 13, n))
      BY <3>1 DEF Plaintext, NonceSize, TagSize
    <3> QED
      BY <3>2, <1>1, <1>4, CipherIs
  <2>2. [c EXCEPT !.payload = Plaintext(@)] = [type |-> t, flags |-> f, payload |-> p]
    BY <2>1
  <2>3. Opens(c.payload) /\ Has(c.flags, FlagSealed)
    BY <1>2, <1>3, <1>4
  <2>4. Opened(c) = <<[c EXCEPT !.payload = Plaintext(@)]>>
    <3> HIDE DEF c
    <3> QED
      BY <2>3 DEF Opened
  <2> QED
    BY <2>2, <2>4
<1>5. ASSUME key # ServerKey, version = 1 PROVE Opened(c) = <<>>
  <2>1. ~ Opens(c.payload) /\ Has(c.flags, FlagSealed)
    BY <1>2, <1>3, <1>5, TagIs
  <2>2. Credentialed(c.payload)
    <3>1. Len(q) >= 13 /\ q[13] = 1
      BY <1>1, <1>5
    <3> QED
      BY <3>1, <1>3 DEF Credentialed, NonceSize
  <2> HIDE DEF c
  <2> QED
    BY <2>1, <2>2 DEF Opened
<1> QED
  BY <1>4, <1>5 DEF OpenedAs

(* What is not sealed needs no key.                                        *)
LEMMA OpenedPlain ==
  ASSUME NEW p, NEW t, NEW f, ~ Has(f, FlagSealed)
  PROVE  Opened([type |-> t, flags |-> f, payload |-> p])
           = <<[type |-> t, flags |-> f, payload |-> p]>>
<1> DEFINE c == [type |-> t, flags |-> f, payload |-> p]
<1>1. ~ Has(c.flags, FlagSealed)
  OBVIOUS
<1> HIDE DEF c
<1>2. Opened(c) = <<c>>
  BY <1>1 DEF Opened
<1> QED
  BY <1>2 DEF c

(* What a compressing transport passes on: the chunk, or its payload       *)
(* compressed behind its length.                                           *)
IsPacked(c, t, fl, p, n, f, q) ==
  /\ c = FrameOf(t, f, q, n) /\ Bearing(t, f, q, n) /\ f \in Unsealed
  /\ Len(q) <= 248 /\ Len(q) \in Nat
  /\ \/ f = fl /\ q = p
     \/ f = fl + 8 /\ q = U16(Len(p)) \o Compress(p)

(* What the compressing transport makes of a chunk.                        *)
LEMMA PackIs ==
  ASSUME CrcTyped, NEW t, NEW fl \in {0, 1}, NEW p, NEW n, Bearing(t, fl, p, n),
         Len(p) <= MaxPlain
  PROVE  \E f, q : IsPacked(Pack(FrameOf(t, fl, p, n)), t, fl, p, n, f, q)
<1> DEFINE c == FrameOf(t, fl, p, n)  s == Compress(p)  u == U16(Len(p))  q == u \o s
<1>1. /\ t \in 1 .. 7 /\ n \in Word /\ p \in Seq(Octet) /\ Len(p) \in Word
      /\ fl \in Octet /\ Len(p) \in Nat
  BY DEF Bearing
<1>2. fl \in Unsealed /\ fl + 8 \in Unsealed /\ fl + 8 \in Octet
  BY FlagsAre DEF Unsealed
<1>3. s \in Seq(Octet) /\ u \in Seq(Octet) /\ Len(u) = 2
  BY <1>1, CompressUndone, U16Is
<1>4. PayloadOf(c) = p
  BY DecIs
<1> HIDE DEF c, s, u
<1>5. q \in Seq(Octet) /\ Len(q) = 2 + Len(s) /\ Len(s) \in Nat
  <2>1. q \in Seq(Octet) /\ Len(q) = Len(u) + Len(s) /\ Len(s) \in Nat
    BY <1>3, LiesTwo
  <2> HIDE DEF q
  <2> QED
    BY <2>1, <1>3
<1> HIDE DEF q
<1>6. Pack(c) = c \/ (Pack(c) = Reframed(c, q, 8) /\ Len(q) <= 248)
  <2>1. Pack(c) = IF p = <<>> \/ Len(s) >= Len(p) \/ Len(s) + 2 > 248
                    THEN c ELSE Reframed(c, q, 8)
    BY <1>4 DEF Pack, FlagPacked, MaxPayloadSize, q, s, u
  <2> QED
    BY <2>1, <1>5
<1>7. CASE Pack(c) = c
  <2>1. IsPacked(c, t, fl, p, n, fl, p)
    BY <1>1, <1>2, MaxPlainIs DEF IsPacked, c
  <2> QED
    BY <2>1, <1>7 DEF c
<1>8. CASE Pack(c) = Reframed(c, q, 8) /\ Len(q) <= 248
  <2> DEFINE f == fl + 8
  <2>0. f = fl + 8 /\ f \in Unsealed /\ f \in Octet
    BY <1>2
  <2> HIDE DEF f
  <2>1. Len(q) \in Word /\ Len(q) \in Nat
    BY <1>5, <1>8 DEF Word
  <2>2. Reframed(c, q, 8) = FrameOf(t, f, q, n)
    <3> DEFINE k == 8
    <3>1. fl + k \in Octet /\ fl + k = f
      BY <1>2, <2>0
    <3>2. q \in Seq(Octet) /\ Len(q) \in Word
      BY <2>1, <1>5
    <3> HIDE DEF k
    <3>3. Reframed(c, q, k) = FrameOf(t, fl + k, q, n)
      BY <3>1, <3>2, ReframedIs DEF c
    <3> QED
      BY <3>1, <3>3 DEF k
  <2>3. Bearing(t, f, q, n)
    BY <2>0, <2>1, <1>1, <1>5 DEF Bearing
  <2>4. IsPacked(Pack(c), t, fl, p, n, f, q)
    BY <2>0, <2>1, <2>2, <2>3, <1>8 DEF IsPacked, q, u, s
  <2> QED
    BY <2>4 DEF c
<1> QED
  BY <1>6, <1>7, <1>8

(* What a packed payload gives back.                                       *)
LEMMA UnpackIs ==
  ASSUME NEW p \in Seq(Octet), Len(p) \in Word
  PROVE  LET q == U16(Len(p)) \o Compress(p)
         IN  Num(SubSeq(q, 1, 2)) = Len(p) /\ Decompress(SubSeq(q, 3, Len(q))) = p
<1> DEFINE s == Compress(p)  u == U16(Len(p))  q == u \o s
<1>1. /\ s \in Seq(Octet) /\ u \in Seq(Octet) /\ Len(u) = 2
      /\ u[1] + 256 * u[2] = Len(p) /\ Decompress(s) = p
  BY CompressUndone, U16Is
<1> HIDE DEF s, u
<1>3. /\ Len(s) \in Nat /\ Len(q) = 2 + Len(s)
      /\ Lies(u, q, 0) /\ Lies(s, q, 2)
  <2>1. /\ Len(s) \in Nat /\ Len(q) = Len(u) + Len(s)
        /\ Lies(u, q, 0) /\ Lies(s, q, Len(u))
    BY <1>1, LiesTwo
  <2> HIDE DEF q
  <2> QED
    BY <2>1, <1>1
<1> HIDE DEF q
<1>4. Field(q, 0, 2) = u /\ Field(q, 2, Len(s)) = s
  BY <1>1, <1>3, LiesField, ZenonT(40)
<1>5. SubSeq(q, 1, 2) = u /\ SubSeq(q, 3, Len(q)) = s
  BY <1>3, <1>4 DEF Field
<1> QED
  BY <1>1, <1>5 DEF Num, q, u, s

(* The wrappers a device can have.                                         *)
LEMMA LinksAre ==
  /\ ServerKey \in Octet
  /\ \A k \in Links : /\ k.seal \in {"no", "shared", "credential"} /\ k.packed \in BOOLEAN
                      /\ k.key \in Octet
<1>1. \A n \in 1 .. 255 : n \in Octet
  BY OctetIs
<1>2. ServerKey \in 1 .. 255
  BY WireAssumption
<1>3. \A k \in Links : k \in [seal : {"no", "shared", "credential"}, key : 1 .. 255,
                              packed : BOOLEAN]
  BY WireAssumption
<1> QED
  BY <1>1, <1>2, <1>3

(* What the server reads from an unsealed chunk.                           *)
Gives(c) == RowsFor(c[3], PayloadOf(c))

Made ==
  {c \in Seq(Octet) :
     \E t, fl, p, n : /\ Bearing(t, fl, p, n) /\ fl \in {0, 1} /\ Len(p) <= MaxPlain
                      /\ RowsFor(t, p) \in Seq(Stored) /\ c = FrameOf(t, fl, p, n)}

OpensTo(x, c) == \E o : Opened(Dec(x)) = <<o>> /\ Rows(o) = Gives(c)

Unpacks(c, x) ==
  Has(x[4], FlagPacked) =>
    /\ Num(SubSeq(PayloadOf(x), 1, 2)) = Len(PayloadOf(c))
    /\ Decompress(SubSeq(PayloadOf(x), 3, Len(PayloadOf(x)))) = PayloadOf(c)

(* What left the device, of a chunk it made, through its wrappers.         *)
LeftAs(k, c, l) ==
  /\ l \in Seq(Frames)
  /\ ~ k.packed /\ (k.seal = "no" \/ k.key = ServerKey) => Len(l) = 1 /\ OpensTo(l[1], c)
  /\ k.seal = "credential" /\ ~ (k.seal = "no" \/ k.key = ServerKey) =>
       \A i \in 1 .. Len(l) : Opened(Dec(l[i])) = <<>>
  /\ k.seal # "no" /\ ~ k.packed => Len(l) = 1 /\ Has(l[1][4], FlagSealed)
  /\ k.packed /\ k.seal = "no" => Unpacks(c, l[1])

Sent(k) == {b \in [plain : Made, left : Seq(Frames)] : LeftAs(k, b.plain, b.left)}

(* Flags say nothing of what is read.                                      *)
LEMMA RowsOnly ==
  ASSUME NEW t, NEW f, NEW p
  PROVE  Rows([type |-> t, flags |-> f, payload |-> p]) = RowsFor(t, p)
BY DEF RowsFor, Rows

(* A chunk that bears something is one on the wire.                        *)
LEMMA FrameIn ==
  ASSUME CrcTyped, NEW t, NEW fl, NEW p, NEW n, Bearing(t, fl, p, n)
  PROVE  /\ FrameOf(t, fl, p, n) \in Frames
         /\ FrameOf(t, fl, p, n) \in Seq(Octet) /\ Len(FrameOf(t, fl, p, n)) = 10 + Len(p)
         /\ FrameOf(t, fl, p, n)[3] = t /\ FrameOf(t, fl, p, n)[4] = fl
<1> DEFINE c == FrameOf(t, fl, p, n)
<1>1. c \in Seq(Octet) /\ Len(c) = 10 + Len(p) /\ c[3] = t /\ c[4] = fl
  BY FrameIs
<1>2. c \in Frames
  BY <1>1 DEF Frames
<1> QED
  BY <1>1, <1>2

(* A chunk that is sent sealed, packed before or not.                      *)
WellSealed(x, t, p, key, version) ==
  /\ x \in Frames /\ Has(x[4], FlagSealed)
  /\ key = ServerKey => \E o : Opened(Dec(x)) = <<o>> /\ Rows(o) = RowsFor(t, p)
  /\ key # ServerKey /\ version = 1 => Opened(Dec(x)) = <<>>

(* A sealed chunk leaves the device as promised.                           *)
LEMMA SealedLeft ==
  ASSUME CrcTyped, NEW t, NEW fl \in Unsealed, NEW p, NEW n, Bearing(t, fl, p, n),
         Len(p) <= 248, NEW version \in {0, 1}, NEW key \in Octet
  PROVE  WellSealed(Sealed(FrameOf(t, fl, p, n), version, key), t, p, key, version)
<1> DEFINE x == Sealed(FrameOf(t, fl, p, n), version, key)  f == fl + 4
<1>0. Len(p) \in Nat /\ Len(p) <= 300 /\ p \in Seq(Octet)
  BY DEF Bearing
<1>1. PICK q : /\ x = FrameOf(t, fl + 4, q, n)
               /\ IsSealed(q, p, key, version) /\ Bearing(t, fl + 4, q, n)
  <2> HIDE DEF x
  <2>1. \E q : /\ Sealed(FrameOf(t, fl, p, n), version, key) = FrameOf(t, fl + 4, q, n)
               /\ IsSealed(q, p, key, version) /\ Bearing(t, fl + 4, q, n)
    BY <1>0, SealedIs
  <2> QED
    BY <2>1 DEF x
<1>2. Has(f, FlagSealed)
  BY FlagsAre
<1> HIDE DEF x, f
<1>3. x = FrameOf(t, f, q, n) /\ Bearing(t, f, q, n)
  BY <1>1 DEF f
<1>4. x \in Frames /\ x[4] = f
  BY <1>3, FrameIn
<1>5. Dec(x) = [type |-> t, flags |-> f, payload |-> q]
  BY <1>3, DecIs
<1>6. /\ key = ServerKey =>
           Opened([type |-> t, flags |-> f, payload |-> q])
             = <<[type |-> t, flags |-> f, payload |-> p]>>
      /\ key # ServerKey /\ version = 1 =>
           Opened([type |-> t, flags |-> f, payload |-> q]) = <<>>
  <2>1. IsSealed(q, p, key, version) /\ p \in Seq(Octet)
    BY <1>0, <1>1
  <2>2. OpenedAs(q, p, key, version, t, f)
    BY <2>1, <1>2, OpenedIs
  <2> QED
    BY <2>2 DEF OpenedAs
<1>7. ASSUME key = ServerKey PROVE \E o : Opened(Dec(x)) = <<o>> /\ Rows(o) = RowsFor(t, p)
  <2> DEFINE o == [type |-> t, flags |-> f, payload |-> p]
  <2>1. Opened(Dec(x)) = <<o>>
    BY <1>5, <1>7, <1>6
  <2>2. Rows(o) = RowsFor(t, p)
    BY RowsOnly
  <2> HIDE DEF o
  <2> QED
    BY <2>1, <2>2
<1>8. ASSUME key # ServerKey, version = 1 PROVE Opened(Dec(x)) = <<>>
  BY <1>5, <1>8, <1>6
<1> QED
  BY <1>2, <1>4, <1>7, <1>8 DEF x, WellSealed

(* What leaves the device of a chunk that was packed or not.               *)
PreparedAs(l, c, t, p) ==
  /\ l \in Seq(Frames)
  /\ Len(p) <= MaxPlain \/ link.seal = "no" => Len(l) = 1
  /\ Len(l) = 1 /\ Len(p) <= MaxPlain /\ (link.seal = "no" \/ link.key = ServerKey) =>
       \E o : Opened(Dec(l[1])) = <<o>> /\ Rows(o) = RowsFor(t, p)
  /\ link.seal = "credential" /\ link.key # ServerKey =>
       \A i \in 1 .. Len(l) : Opened(Dec(l[i])) = <<>>
  /\ link.seal # "no" /\ Len(p) <= MaxPlain => Has(l[1][4], FlagSealed)
  /\ link.seal = "no" => l[1] = c

(* What one transport makes of a chunk.                                    *)
LEMMA PreparedIs ==
  ASSUME CrcTyped, link \in Links,
         NEW t, NEW fl \in Unsealed, NEW p, NEW n, Bearing(t, fl, p, n), Len(p) <= 248
  PROVE  PreparedAs(Prepared(FrameOf(t, fl, p, n)), FrameOf(t, fl, p, n), t, p)
<1> DEFINE c == FrameOf(t, fl, p, n)  l == Prepared(c)
<1>1. /\ link.seal \in {"no", "shared", "credential"} /\ link.key \in Octet
      /\ ServerKey \in Octet
  BY LinksAre
<1>2. c \in Frames /\ Len(c) = 10 + Len(p) /\ Len(p) \in Nat
  BY FrameIn DEF Bearing
<1>3. \E o : Opened(Dec(c)) = <<o>> /\ Rows(o) = RowsFor(t, p)
  <2> DEFINE o == [type |-> t, flags |-> fl, payload |-> p]
  <2>1. Dec(c) = o
    BY DecIs
  <2>2. ~ Has(fl, FlagSealed)
    BY FlagsAre
  <2>3. Opened(o) = <<o>>
    BY <2>2, OpenedPlain
  <2>4. Rows(o) = RowsFor(t, p)
    BY RowsOnly
  <2> HIDE DEF o, c
  <2> QED
    BY <2>1, <2>3, <2>4
<1>4. Len(p) <= MaxPlain => Fits(c)
  <2> HIDE DEF c
  <2> QED
    BY <1>2, MaxPlainIs DEF Fits, NonceSize, TagSize, MaxChunk
<1>5. CASE link.seal = "no" \/ (link.seal = "shared" /\ ~ Fits(c))
  <2>1. l = <<c>>
    <3> HIDE DEF c
    <3> QED
      BY <1>5 DEF Prepared
  <2> HIDE DEF c, l
  <2>2. l \in Seq(Frames) /\ Len(l) = 1 /\ l[1] = c
    BY <2>1, <1>2
  <2>3. link.seal # "credential" /\ (link.seal = "no" \/ ~ (Len(p) <= MaxPlain))
    BY <1>4, <1>5
  <2>9. PreparedAs(l, c, t, p)
    BY <2>2, <2>3, <1>3 DEF PreparedAs
  <2> QED
    BY <2>9 DEF c, l
<1>6. ASSUME NEW version \in {0, 1}, link.seal # "no",
             link.seal = "credential" => version = 1,
             l = <<Sealed(c, version, link.key)>>
      PROVE  /\ l \in Seq(Frames) /\ Len(l) = 1 /\ Has(l[1][4], FlagSealed)
             /\ link.key = ServerKey =>
                  \E o : Opened(Dec(l[1])) = <<o>> /\ Rows(o) = RowsFor(t, p)
             /\ link.seal = "credential" /\ link.key # ServerKey =>
                  \A i \in 1 .. Len(l) : Opened(Dec(l[i])) = <<>>
  <2> DEFINE x == Sealed(c, version, link.key)
  <2>1. /\ x \in Frames /\ Has(x[4], FlagSealed)
        /\ link.key = ServerKey => \E o : Opened(Dec(x)) = <<o>> /\ Rows(o) = RowsFor(t, p)
        /\ link.key # ServerKey /\ version = 1 => Opened(Dec(x)) = <<>>
    <3>1. WellSealed(x, t, p, link.key, version)
      BY <1>1, SealedLeft
    <3> QED
      BY <3>1 DEF WellSealed
  <2>2. l = <<x>>
    BY <1>6
  <2> HIDE DEF x, l, c
  <2>3. l \in Seq(Frames) /\ Len(l) = 1 /\ l[1] = x
    BY <2>1, <2>2
  <2> QED
    BY <2>1, <2>3, <1>6
<1>7. CASE link.seal = "shared" /\ Fits(c)
  <2>1. l = <<Sealed(c, 0, link.key)>>
    <3> HIDE DEF c
    <3> QED
      BY <1>7 DEF Prepared
  <2> HIDE DEF c, l
  <2>9. PreparedAs(l, c, t, p)
    BY <2>1, <1>6, <1>7 DEF PreparedAs
  <2> QED
    BY <2>9 DEF c, l
<1>8. CASE link.seal = "credential" /\ Fits(c)
  <2>1. l = <<Sealed(c, 1, link.key)>>
    <3> HIDE DEF c
    <3> QED
      BY <1>8 DEF Prepared
  <2> HIDE DEF c, l
  <2>9. PreparedAs(l, c, t, p)
    BY <2>1, <1>6, <1>8 DEF PreparedAs
  <2> QED
    BY <2>9 DEF c, l
<1>9. CASE link.seal = "credential" /\ ~ Fits(c)
  <2>1. l = <<>>
    <3> HIDE DEF c
    <3> QED
      BY <1>9 DEF Prepared
  <2>2. ~ (Len(p) <= MaxPlain)
    BY <1>4, <1>9
  <2> HIDE DEF c, l
  <2>3. l \in Seq(Frames) /\ Len(l) = 0 /\ 1 .. Len(l) = {}
    BY <2>1
  <2>9. PreparedAs(l, c, t, p)
    BY <2>2, <2>3, <1>9 DEF PreparedAs
  <2> QED
    BY <2>9 DEF c, l
<1> QED
  BY <1>1, <1>5, <1>7, <1>8, <1>9

(* Every chunk leaves as its link promises.                                *)
LEMMA LeavesAre ==
  ASSUME CrcTyped, link \in Links,
         NEW t, NEW fl \in {0, 1}, NEW p, NEW n, Bearing(t, fl, p, n), Len(p) <= MaxPlain
  PROVE  LeftAs(link, FrameOf(t, fl, p, n), Leaves(FrameOf(t, fl, p, n)))
<1> DEFINE c == FrameOf(t, fl, p, n)  l == Leaves(c)
<1>1. /\ link.seal \in {"no", "shared", "credential"} /\ link.packed \in BOOLEAN
  BY LinksAre
<1>2. /\ p \in Seq(Octet) /\ Len(p) \in Nat /\ Len(p) <= 248 /\ fl \in Unsealed
      /\ Len(p) \in Word
  BY MaxPlainIs DEF Bearing, Unsealed
<1>3. c[3] = t /\ PayloadOf(c) = p
  BY FrameIn, DecIs
<1>4. Gives(c) = RowsFor(t, p)
  <2> HIDE DEF c
  <2> QED
    BY <1>3 DEF Gives
<1>5. CASE ~ link.packed
  <2>1. PreparedAs(Prepared(c), c, t, p)
    BY <1>2, PreparedIs
  <2>2. l = Prepared(c)
    <3> HIDE DEF c
    <3> QED
      BY <1>5 DEF Leaves
  <2> HIDE DEF c, l
  <2>3. LeftAs(link, c, l)
    BY <2>1, <2>2, <1>4, <1>5 DEF PreparedAs, LeftAs, OpensTo
  <2> QED
    BY <2>3 DEF c, l
<1>6. CASE link.packed
  <2>1. PICK f, q : IsPacked(Pack(c), t, fl, p, n, f, q)
    BY PackIs
  <2> DEFINE d == FrameOf(t, f, q, n)
  <2>2. /\ Pack(c) = d /\ Bearing(t, f, q, n) /\ f \in Unsealed /\ Len(q) <= 248
        /\ \/ f = fl /\ q = p
           \/ f = fl + 8 /\ q = U16(Len(p)) \o Compress(p)
    <3> HIDE DEF c
    <3> QED
      BY <2>1 DEF IsPacked
  <2>3. PreparedAs(Prepared(d), d, t, q)
    BY <2>2, PreparedIs
  <2>4. l = Prepared(d)
    <3> HIDE DEF c, d
    <3> QED
      BY <2>2, <1>6 DEF Leaves
  <2>5. d[4] = f /\ PayloadOf(d) = q
    BY <2>2, FrameIn, DecIs
  <2>6. Unpacks(c, d)
    <3>1. CASE f = fl /\ q = p
      <4>1. ~ Has(f, FlagPacked)
        BY <3>1, FlagsAre
      <4> HIDE DEF c, d
      <4> QED
        BY <4>1, <2>5 DEF Unpacks
    <3>2. CASE f = fl + 8 /\ q = U16(Len(p)) \o Compress(p)
      <4>1. Num(SubSeq(q, 1, 2)) = Len(p) /\ Decompress(SubSeq(q, 3, Len(q))) = p
        BY <3>2, <1>2, UnpackIs
      <4> HIDE DEF c, d
      <4> QED
        BY <4>1, <2>5, <1>3 DEF Unpacks
    <3> QED
      BY <2>2, <3>1, <3>2
  <2> HIDE DEF c, d, l
  <2>7. LeftAs(link, c, l)
    BY <2>3, <2>4, <2>6, <1>6 DEF PreparedAs, LeftAs
  <2> QED
    BY <2>7 DEF c, l
<1> QED
  BY <1>1, <1>5, <1>6

(* What the chunks of a body give, and what is due for records.            *)
GivesAll(b) == [i \in 1 .. Len(b) |-> Gives(b[i].plain)]
DueAll(s)   == [i \in 1 .. Len(s) |-> Due(s[i])]

(* What the encoder made, taken apart.                                     *)
LEMMA MadeIs ==
  ASSUME CrcTyped, NEW t, NEW fl \in {0, 1}, NEW p, NEW n, Bearing(t, fl, p, n),
         Len(p) <= MaxPlain, RowsFor(t, p) \in Seq(Stored)
  PROVE  FrameOf(t, fl, p, n) \in Made /\ Gives(FrameOf(t, fl, p, n)) = RowsFor(t, p)
<1> DEFINE c == FrameOf(t, fl, p, n)
<1>1. c[3] = t /\ PayloadOf(c) = p /\ c \in Seq(Octet)
  BY FrameIn, DecIs
<1>2. c \in Made
  BY <1>1 DEF Made
<1> HIDE DEF c
<1>3. Gives(c) = RowsFor(t, p)
  BY <1>1 DEF Gives
<1> QED
  BY <1>2, <1>3 DEF c

(* A chunk gives rows the server stores.                                   *)
LEMMA GivesStored ==
  ASSUME CrcTyped, NEW c \in Made
  PROVE  Gives(c) \in Seq(Stored)
<1>1. PICK t, fl, p, n : /\ Bearing(t, fl, p, n) /\ fl \in {0, 1} /\ Len(p) <= MaxPlain
                         /\ RowsFor(t, p) \in Seq(Stored) /\ c = FrameOf(t, fl, p, n)
  BY DEF Made
<1>2. Gives(FrameOf(t, fl, p, n)) = RowsFor(t, p)
  BY <1>1, MadeIs
<1> QED
  BY <1>1, <1>2

(* The chunks of a body give such rows each.                               *)
LEMMA GivesTyped ==
  ASSUME CrcTyped, NEW k, NEW b \in Seq(Sent(k))
  PROVE  /\ GivesAll(b) \in Seq(Seq(Stored)) /\ Len(GivesAll(b)) = Len(b)
         /\ \A i \in 1 .. Len(b) : GivesAll(b)[i] = Gives(b[i].plain)
<1> DEFINE n == Len(b)
<1>1. n \in Nat
  OBVIOUS
<1>2. ASSUME NEW i \in 1 .. n PROVE Gives(b[i].plain) \in Seq(Stored)
  <2>1. b[i] \in Sent(k)
    BY ElementOfSeq
  <2>2. b[i].plain \in Made
    BY <2>1 DEF Sent
  <2> QED
    BY <2>2, GivesStored
<1> DEFINE g == GivesAll(b)
<1>3. g = [i \in 1 .. n |-> Gives(b[i].plain)]
  BY DEF GivesAll
<1> HIDE DEF n, g
<1>4. g \in [1 .. n -> Seq(Stored)] /\ \A i \in 1 .. n : g[i] = Gives(b[i].plain)
  BY <1>2, <1>3
<1>5. g \in Seq(Seq(Stored)) /\ Len(g) = n
  BY <1>1, <1>4
<1> QED
  BY <1>4, <1>5 DEF g, n

(* More chunks in a body give their rows behind the others.                *)
LEMMA GivesJoin ==
  ASSUME CrcTyped, NEW k, NEW a \in Seq(Sent(k)), NEW b \in Seq(Sent(k))
  PROVE  a \o b \in Seq(Sent(k)) /\ GivesAll(a \o b) = GivesAll(a) \o GivesAll(b)
<1> DEFINE d == a \o b  g == GivesAll(a)  h == GivesAll(b)  e == GivesAll(d)  f == g \o h
           m == Len(a)  n == Len(b)
<1>1. Joined(Sent(k), d, m, n, a, b) /\ m \in Nat /\ n \in Nat
  BY JoinedIs
<1> HIDE DEF d
<1>2. d \in Seq(Sent(k)) /\ Len(d) = m + n
  BY <1>1 DEF Joined
<1>3. /\ g \in Seq(Seq(Stored)) /\ Len(g) = m
      /\ \A i \in 1 .. m : g[i] = Gives(a[i].plain)
  BY GivesTyped
<1>4. /\ h \in Seq(Seq(Stored)) /\ Len(h) = n
      /\ \A i \in 1 .. n : h[i] = Gives(b[i].plain)
  BY GivesTyped
<1>5. /\ e \in Seq(Seq(Stored)) /\ Len(e) = Len(d)
      /\ \A i \in 1 .. Len(d) : e[i] = Gives(d[i].plain)
  BY <1>2, GivesTyped
<1> HIDE DEF g, h, e
<1>6. Joined(Seq(Stored), f, Len(g), Len(h), g, h)
  BY <1>3, <1>4, JoinedIs
<1> HIDE DEF f
<1>7. Joined(Seq(Stored), f, m, n, g, h)
  BY <1>3, <1>4, <1>6
<1> HIDE DEF m, n
<1>8. ASSUME NEW i \in 1 .. m + n PROVE e[i] = f[i]
  <2>1. CASE i \in 1 .. m
    BY <2>1, <1>1, <1>2, <1>3, <1>5, <1>7, ZenonT(40) DEF Joined
  <2>2. CASE i \notin 1 .. m
    <3> DEFINE j == i - m
    <3>1. j \in 1 .. n /\ m + j = i
      BY <2>2, <1>1
    <3> HIDE DEF j
    <3>2. d[m + j] = b[j] /\ f[m + j] = h[j]
      BY <3>1, <1>1, <1>7 DEF Joined
    <3> QED
      BY <3>1, <3>2, <1>2, <1>4, <1>5
  <2> QED
    BY <2>1, <2>2
<1>9. e = f
  <2>1. f \in Seq(Seq(Stored)) /\ Len(f) = m + n
    BY <1>7 DEF Joined
  <2> QED
    BY <2>1, <1>2, <1>5, <1>8, SeqEqual
<1> QED
  BY <1>2, <1>9 DEF d, e, f, g, h

(* One more record is due behind the others.                               *)
LEMMA DueMore ==
  ASSUME NEW s \in Seq(Record), NEW r \in Record
  PROVE  /\ DueAll(s) \in Seq(Seq(Stored)) /\ Due(r) \in Seq(Stored)
         /\ DueAll(Append(s, r)) = Append(DueAll(s), Due(r))
<1> DEFINE n == Len(s)  d == DueAll(s)  a == Append(s, r)  e == DueAll(a)
<1>1. n \in Nat /\ Len(a) = n + 1 /\ a[n + 1] = r /\ \A i \in 1 .. n : a[i] = s[i]
  OBVIOUS
<1>2. \A i \in 1 .. n : s[i] \in Record
  BY ElementOfSeq
<1>3. \A x \in Record : Due(x) \in Seq(Stored)
  BY RecordsRead DEF CodedRecord
<1>4. d = [i \in 1 .. n |-> Due(s[i])]
  BY DEF DueAll
<1>5. e = [i \in 1 .. n + 1 |-> Due(a[i])]
  BY <1>1 DEF DueAll
<1> HIDE DEF n, d, a, e
<1>6. d \in [1 .. n -> Seq(Stored)]
  BY <1>2, <1>3, <1>4
<1>7. d \in Seq(Seq(Stored)) /\ Len(d) = n
  BY <1>1, <1>6
<1> DEFINE w == Due(r)  b == Append(d, w)
<1>8. w \in Seq(Stored)
  BY <1>3
<1> HIDE DEF w
<1>9. b \in Seq(Seq(Stored)) /\ Len(b) = n + 1 /\ b[n + 1] = w /\ \A i \in 1 .. n : b[i] = d[i]
  BY <1>1, <1>7, <1>8
<1> HIDE DEF b
<1>10. ASSUME NEW i \in 1 .. n + 1 PROVE e[i] = b[i]
  <2>1. CASE i \in 1 .. n
    BY <2>1, <1>1, <1>4, <1>5, <1>9
  <2>2. CASE i = n + 1
    BY <2>2, <1>1, <1>5, <1>9 DEF w
  <2> QED
    BY <2>1, <2>2, <1>1
<1>11. e \in Seq(Seq(Stored)) /\ Len(e) = n + 1
  <2>1. \A i \in 1 .. n + 1 : e[i] \in Seq(Stored)
    BY <1>9, <1>10, <1>1, ElementOfSeq
  <2>2. e \in [1 .. n + 1 -> Seq(Stored)] /\ n + 1 \in Nat
    BY <2>1, <1>1, <1>5
  <2> QED
    BY <2>2
<1>12. e = b
  BY <1>9, <1>10, <1>11, SeqEqual
<1> QED
  BY <1>7, <1>8, <1>12 DEF b, d, e, a, w

(* What sending a record adds to a body.                                   *)
Added(r, n) ==
  [i \in DOMAIN Chunks(r, n) |->
     [plain |-> Chunks(r, n)[i], left |-> Leaves(Chunks(r, n)[i])]]

(* A payload that is coded is made into a chunk that gives its rows.       *)
LEMMA ChunkMade ==
  ASSUME CrcTyped, link \in Links, NEW t \in 1 .. 7, NEW p \in Seq(Octet),
         Len(p) <= MaxPlain, RowsFor(t, p) \in Seq(Stored), NEW final, NEW n \in Word
  PROVE  /\ [plain |-> Encode(t, p, final, n), left |-> Leaves(Encode(t, p, final, n))]
              \in Sent(link)
         /\ Gives(Encode(t, p, final, n)) = RowsFor(t, p)
<1> DEFINE fl == IF final THEN 1 ELSE 0  c == FrameOf(t, fl, p, n)  l == Leaves(c)
<1>1. Encode(t, p, final, n) = c
  BY EncodeIs
<1>2. fl \in {0, 1}
  OBVIOUS
<1> HIDE DEF fl
<1>3. fl \in Octet
  BY <1>2, OctetIs
<1>4. Len(p) \in Word
  <2>1. Len(p) \in Nat /\ Len(p) <= 225
    BY MaxPlainIs
  <2> QED
    BY <2>1 DEF Word
<1>5. Bearing(t, fl, p, n)
  BY <1>3, <1>4 DEF Bearing
<1>6. c \in Made /\ Gives(c) = RowsFor(t, p)
  BY <1>2, <1>5, MadeIs
<1>7. LeftAs(link, c, l)
  BY <1>2, <1>5, LeavesAre
<1> HIDE DEF c, l
<1>8. l \in Seq(Frames)
  BY <1>7 DEF LeftAs
<1>9. [plain |-> c, left |-> l] \in Sent(link)
  <2> DEFINE b == [plain |-> c, left |-> l]
  <2>1. b \in [plain : Made, left : Seq(Frames)] /\ b.plain = c /\ b.left = l
    BY <1>6, <1>8
  <2> HIDE DEF b
  <2>2. b \in Sent(link)
    BY <2>1, <1>7 DEF Sent
  <2> QED
    BY <2>2 DEF b
<1> QED
  BY <1>1, <1>6, <1>9 DEF l

(* The chunks of a record give what is due of it.                          *)
LEMMA ChunksMade ==
  ASSUME CrcTyped, link \in Links, NEW r \in Record, NEW n \in Nat
  PROVE  /\ Len(Chunks(r, n)) \in Nat
         /\ Added(r, n) \in Seq(Sent(link))
         /\ FlattenSeq(GivesAll(Added(r, n))) = Due(r)
<1> DEFINE ps == Payloads(r)  t == Type[r.kind]  m == Len(ps)  cs == Chunks(r, n)
           R == ReadIn(t, ps)  a == Added(r, n)  g == GivesAll(a)
           num(i) == (n + i - 1) % 65536
           e(i) == Encode(t, ps[i], i = m, num(i))
<1>1. /\ t \in 1 .. 7 /\ Coded(t, ps, Stored, Due(r))
  BY RecordsRead DEF CodedRecord
<1>2. /\ ps \in Seq(Seq(Octet)) /\ m \in Nat
      /\ \A j \in 1 .. m : ps[j] \in Seq(Octet) /\ Len(ps[j]) <= MaxPlain
      /\ R \in Seq(Seq(Stored)) /\ Len(R) = m
      /\ FlattenSeq(R) = Due(r)
  BY <1>1 DEF Coded
<1>3. cs = [i \in 1 .. m |-> e(i)]
  <2>1. DOMAIN ps = 1 .. m
    BY <1>2
  <2> QED
    BY <2>1 DEF Chunks
<1>4. R = [j \in 1 .. m |-> RowsFor(t, ps[j])]
  BY DEF ReadIn
<1>5. \A i \in 1 .. m : num(i) \in Word
  <2>1. \A x \in Nat : x % 65536 \in Word
    BY DEF Word
  <2>2. \A i \in 1 .. m : (n + i - 1) \in Nat
    BY <1>2
  <2> QED
    BY <2>1, <2>2
<1> HIDE DEF ps, t, m, cs, R, num
<1>6. \A i \in 1 .. m : RowsFor(t, ps[i]) = R[i] /\ R[i] \in Seq(Stored)
  <2>1. \A i \in 1 .. m : RowsFor(t, ps[i]) = R[i]
    BY <1>4
  <2>2. \A i \in 1 .. m : R[i] \in Seq(Stored)
    BY <1>2, ElementOfSeq
  <2> QED
    BY <2>1, <2>2
<1>7. ASSUME NEW i \in 1 .. m
      PROVE  [plain |-> e(i), left |-> Leaves(e(i))] \in Sent(link) /\ Gives(e(i)) = R[i]
  <2>1. RowsFor(t, ps[i]) \in Seq(Stored) /\ RowsFor(t, ps[i]) = R[i]
    BY <1>6
  <2>2. ps[i] \in Seq(Octet) /\ Len(ps[i]) <= MaxPlain /\ num(i) \in Word
    BY <1>2, <1>5
  <2> DEFINE p == ps[i]  k == num(i)  final == i = m
  <2>3. p \in Seq(Octet) /\ Len(p) <= MaxPlain /\ k \in Word /\ RowsFor(t, p) \in Seq(Stored)
    BY <2>1, <2>2
  <2> HIDE DEF p, k, final
  <2>4. /\ [plain |-> Encode(t, p, final, k), left |-> Leaves(Encode(t, p, final, k))]
             \in Sent(link)
        /\ Gives(Encode(t, p, final, k)) = RowsFor(t, p)
    BY <1>1, <2>3, ChunkMade
  <2> QED
    BY <2>1, <2>4 DEF p, k, final
<1> HIDE DEF e
<1>8. DOMAIN cs = 1 .. m /\ Len(cs) = m /\ \A i \in 1 .. m : cs[i] = e(i)
  BY <1>2, <1>3
<1>9. a = [i \in 1 .. m |-> [plain |-> e(i), left |-> Leaves(e(i))]]
  <2>1. a = [i \in 1 .. m |-> [plain |-> cs[i], left |-> Leaves(cs[i])]]
    BY <1>8 DEF Added, cs
  <2>2. \A i \in 1 .. m : [plain |-> cs[i], left |-> Leaves(cs[i])]
                            = [plain |-> e(i), left |-> Leaves(e(i))]
    BY <1>8
  <2> HIDE DEF a
  <2> QED
    BY <2>1, <2>2
<1> HIDE DEF a
<1>10. a \in [1 .. m -> Sent(link)] /\ \A i \in 1 .. m : a[i].plain = e(i)
  <2>1. \A i \in 1 .. m : a[i] = [plain |-> e(i), left |-> Leaves(e(i))]
    BY <1>9
  <2>2. ASSUME NEW i \in 1 .. m PROVE a[i].plain = e(i)
    <3> DEFINE w == e(i)  v == Leaves(w)
    <3>1. a[i] = [plain |-> w, left |-> v]
      BY <2>1
    <3> HIDE DEF w, v
    <3>2. a[i].plain = w
      BY <3>1
    <3> QED
      BY <3>2 DEF w
  <2>3. \A i \in 1 .. m : a[i] \in Sent(link)
    BY <2>1, <1>7
  <2> QED
    BY <1>9, <2>2, <2>3
<1>11. a \in Seq(Sent(link)) /\ Len(a) = m
  BY <1>2, <1>10
<1>12. /\ g \in Seq(Seq(Stored)) /\ Len(g) = Len(a)
       /\ \A i \in 1 .. Len(a) : g[i] = Gives(a[i].plain)
  BY <1>11, GivesTyped
<1> HIDE DEF g
<1>13. g = R
  <2>1. \A i \in 1 .. m : g[i] = R[i]
    BY <1>7, <1>10, <1>11, <1>12
  <2> QED
    BY <2>1, <1>2, <1>11, <1>12, SeqEqual
<1> QED
  BY <1>2, <1>8, <1>11, <1>13 DEF a, g, cs

(* The server's two steps on chunks, once decoded.                         *)
LEMMA EachOf ==
  /\ \A s : Each(Rows, s) = FlattenSeq([i \in DOMAIN s |-> Rows(s[i])])
  /\ \A s : Each(Opened, s) = FlattenSeq([i \in DOMAIN s |-> Opened(s[i])])
  /\ \A s : Each(Due, s) = FlattenSeq([i \in DOMAIN s |-> Due(s[i])])
  /\ \A s : Each(LAMBDA c : FlattenSeq(c.left), s)
              = FlattenSeq([i \in DOMAIN s |-> FlattenSeq(s[i].left)])
BY DEF Each

(* Chunks that all open give their rows.                                   *)
LEMMA ReadAll ==
  ASSUME NEW m \in Nat, NEW D, NEW G \in Seq(Seq(Stored)), Len(G) = m,
         DOMAIN D = 1 .. m,
         \A i \in 1 .. m : \E o : Opened(D[i]) = <<o>> /\ Rows(o) = G[i]
  PROVE  Each(Rows, Each(Opened, D)) = FlattenSeq(G)
<1> DEFINE P(i, o) == Opened(D[i]) = <<o>> /\ Rows(o) = G[i]
           O == [i \in 1 .. m |-> CHOOSE o : P(i, o)]
           S == {O[i] : i \in 1 .. m}
<1>1. \A i \in 1 .. m : Opened(D[i]) = <<O[i]>> /\ Rows(O[i]) = G[i]
  <2> SUFFICES ASSUME NEW i \in 1 .. m PROVE Opened(D[i]) = <<O[i]>> /\ Rows(O[i]) = G[i]
    OBVIOUS
  <2>1. O[i] = CHOOSE o : P(i, o)
    OBVIOUS
  <2>2. \E o : P(i, o)
    OBVIOUS
  <2> HIDE DEF P, O
  <2>3. P(i, O[i])
    BY <2>1, <2>2
  <2> QED
    BY <2>3 DEF P
<1>2. O \in Seq(S) /\ Len(O) = m /\ DOMAIN O = 1 .. m
  <2>1. \A i \in 1 .. m : O[i] \in S
    OBVIOUS
  <2>2. O = [i \in 1 .. m |-> O[i]]
    OBVIOUS
  <2> HIDE DEF O, S
  <2>3. O \in [1 .. m -> S]
    BY <2>1, <2>2
  <2> QED
    BY <2>3
<1> HIDE DEF O, S, P
<1>3. Each(Opened, D) = O
  <2>1. Each(Opened, D) = FlattenSeq([i \in DOMAIN D |-> Opened(D[i])])
    BY EachOf
  <2>2. [i \in DOMAIN D |-> Opened(D[i])] = [i \in 1 .. m |-> <<O[i]>>]
    BY <1>1
  <2>3. FlattenSeq([i \in 1 .. Len(O) |-> <<O[i]>>]) = O
    BY <1>2, FlatOnes
  <2> QED
    BY <2>1, <2>2, <2>3, <1>2
<1>4. Each(Rows, O) = FlattenSeq([i \in DOMAIN O |-> Rows(O[i])])
  BY EachOf
<1>5. [i \in DOMAIN O |-> Rows(O[i])] = G
  <2>1. G = [i \in 1 .. m |-> G[i]]
    OBVIOUS
  <2>2. [i \in DOMAIN O |-> Rows(O[i])] = [i \in 1 .. m |-> G[i]]
    BY <1>1, <1>2
  <2> QED
    BY <2>1, <2>2
<1> QED
  BY <1>3, <1>4, <1>5

(* Chunks that are all refused give none.                                  *)
LEMMA ReadNone ==
  ASSUME NEW m \in Nat, NEW D, DOMAIN D = 1 .. m,
         \A i \in 1 .. m : Opened(D[i]) = <<>>
  PROVE  Each(Rows, Each(Opened, D)) = <<>>
<1> DEFINE e == [i \in DOMAIN D |-> Opened(D[i])]
<1>1. e \in Seq(Seq({}))
  <2>1. e = [i \in 1 .. m |-> <<>>]
    OBVIOUS
  <2> HIDE DEF e
  <2>2. <<>> \in Seq({})
    OBVIOUS
  <2>3. e \in [1 .. m -> Seq({})]
    BY <2>1, <2>2
  <2> QED
    BY <2>3
<1> HIDE DEF e
<1>2. FlattenSeq(e) \in Seq({})
  BY <1>1, FlatType
<1>3. FlattenSeq(e) = <<>>
  <2> DEFINE f == FlattenSeq(e)
  <2>1. f \in Seq({})
    BY <1>2
  <2> HIDE DEF f
  <2>2. Len(f) = 0
    <3>1. SUFFICES ASSUME Len(f) # 0 PROVE FALSE
      OBVIOUS
    <3>2. Len(f) \in Nat /\ 1 \in 1 .. Len(f)
      BY <2>1, <3>1
    <3>3. f[1] \in {}
      BY <2>1, <3>2, ElementOfSeq
    <3> QED
      BY <3>3
  <2>3. f = <<>>
    BY <2>1, <2>2
  <2> QED
    BY <2>3 DEF f
<1>4. Each(Opened, D) = <<>>
  BY <1>3, EachOf DEF e
<1>5. Each(Rows, <<>>) = FlattenSeq(<<>>)
  <2>1. [i \in DOMAIN <<>> |-> Rows(<<>>[i])] = <<>>
    OBVIOUS
  <2> QED
    BY <2>1, EachOf
<1> QED
  BY <1>4, <1>5, FlatNone

(* The beginning of what is due.                                           *)
LEMMA FlatPrefix ==
  ASSUME NEW S, NEW G \in Seq(Seq(S)), NEW m \in 0 .. Len(G)
  PROVE  /\ SubSeq(G, 1, m) \in Seq(Seq(S)) /\ Len(SubSeq(G, 1, m)) = m
         /\ \A i \in 1 .. m : SubSeq(G, 1, m)[i] = G[i]
         /\ IsPrefix(FlattenSeq(SubSeq(G, 1, m)), FlattenSeq(G))
<1> DEFINE n == Len(G)  a == SubSeq(G, 1, m)  b == SubSeq(G, m + 1, n)
           f == FlattenSeq(a)  g == FlattenSeq(b)  h == FlattenSeq(G)
<1>1. n \in Nat /\ m \in Nat /\ m <= n
  OBVIOUS
<1>2. /\ a \in Seq(Seq(S)) /\ Len(a) = m /\ \A i \in 1 .. m : a[i] = G[i]
  <2>1. m \in 1 - 1 .. Len(G) /\ 1 \in 1 .. Len(G) + 1 /\ m - 1 + 1 = m
    OBVIOUS
  <2>2. /\ a \in Seq(Seq(S)) /\ Len(a) = m - 1 + 1
        /\ \A i \in 1 .. m - 1 + 1 : a[i] = G[1 + i - 1]
    BY <2>1, PieceIs
  <2>3. \A i \in 1 .. m : 1 + i - 1 = i
    BY <1>1, SMTT(20)
  <2> HIDE DEF a
  <2> QED
    BY <2>1, <2>2, <2>3
<1>3. b \in Seq(Seq(S)) /\ G = a \o b
  <2>1. SubSeq(G, 1, n) = G
    BY SubSeqFull
  <2>2. a \o b = SubSeq(G, 1, n) /\ b \in Seq(Seq(S))
    <3>1. m + 1 \in 1 .. Len(G) + 1 /\ n \in (m + 1) - 1 .. Len(G)
      BY <1>1
    <3>2. b \in Seq(Seq(S)) /\ Len(b) = n - (m + 1) + 1
          /\ \A i \in 1 .. n - (m + 1) + 1 : b[i] = G[(m + 1) + i - 1]
      BY <3>1, PieceIs
    <3>3. Joined(Seq(S), a \o b, Len(a), Len(b), a, b)
      BY <1>2, <3>2, JoinedIs
    <3> DEFINE d == a \o b
    <3> HIDE DEF a, b, n
    <3>4. n - (m + 1) + 1 = n - m
      BY <1>1
    <3>5. Joined(Seq(S), d, m, n - m, a, b)
      BY <3>2, <3>3, <3>4, <1>2
    <3> HIDE DEF d
    <3>6. d \in Seq(Seq(S)) /\ Len(d) = n
      <4>1. m + (n - m) = n
        BY <1>1
      <4> QED
        BY <3>5, <4>1 DEF Joined
    <3>7. ASSUME NEW i \in 1 .. n PROVE d[i] = G[i]
      <4>1. CASE i \in 1 .. m
        BY <4>1, <1>2, <3>5 DEF Joined
      <4>2. CASE i \notin 1 .. m
        <5> DEFINE j == i - m
        <5>1. j \in 1 .. n - m /\ m + j = i /\ (m + 1) + j - 1 = i
          BY <4>2, <1>1
        <5> HIDE DEF j
        <5>2. d[m + j] = b[j]
          BY <5>1, <3>5 DEF Joined
        <5>3. b[j] = G[(m + 1) + j - 1]
          BY <5>1, <3>2, <3>4
        <5> QED
          BY <5>1, <5>2, <5>3
      <4> QED
        BY <4>1, <4>2
    <3>8. d = G
      BY <3>6, <3>7, SeqEqual DEF n
    <3> QED
      BY <3>2, <3>8, SubSeqFull DEF d, n, a, b
  <2> QED
    BY <2>1, <2>2, ZenonT(40)
<1> HIDE DEF a, b
<1>4. h = f \o g
  BY <1>2, <1>3, FlatJoin
<1>5. f \in Seq(S) /\ g \in Seq(S)
  BY <1>2, <1>3, FlatType
<1> HIDE DEF f, g, h
<1>6. Joined(S, h, Len(f), Len(g), f, g) /\ Len(f) \in Nat /\ Len(g) \in Nat
  BY <1>4, <1>5, JoinedIs
<1>7. h \in Seq(S) /\ Len(f) <= Len(h) /\ \A i \in 1 .. Len(f) : f[i] = h[i]
  BY <1>6 DEF Joined
<1>8. SubSeq(f, 1, Len(f)) = SubSeq(h, 1, Len(f))
  <2> DEFINE k == Len(f)
  <2>1. k \in Nat /\ 1 \in Nat /\ 1 >= 1 /\ 1 - 1 <= k /\ k <= Len(f) /\ k <= Len(h)
    BY <1>6, <1>7
  <2> HIDE DEF k
  <2>2. \A i \in 1 .. k : f[i] = h[i]
    BY <1>7 DEF k
  <2>3. SubSeq(f, 1, k) = SubSeq(h, 1, k)
    BY <2>1, <2>2, <1>5, <1>7, SamePiece
  <2> QED
    BY <2>3 DEF k
<1>9. IsPrefix(f, h)
  BY <1>7, <1>8 DEF IsPrefix
<1> QED
  BY <1>2, <1>9 DEF f, h, a

(* The bytes of a body, and what is read of its beginning.                 *)
BodyBytes(b) == Each(LAMBDA c : FlattenSeq(c.left), b)
LeftAll(b)   == [i \in 1 .. Len(b) |-> b[i].left]

(* What is read: some first chunks, and all of them if nothing is missing. *)
ReadsFrom(b, size, x, m) ==
  /\ x = FlattenSeq(LeftAll(b)) /\ m \in 0 .. Len(x)
  /\ Decoded(SubSeq(BodyBytes(b), 1, size)) = [j \in 1 .. m |-> Dec(x[j])]
  /\ size = Len(BodyBytes(b)) => m = Len(x)

(* What was sent, chunk by chunk.                                          *)
LEMMA LeftTyped ==
  ASSUME NEW k, NEW b \in Seq(Sent(k))
  PROVE  /\ LeftAll(b) \in Seq(Seq(Frames)) /\ Len(LeftAll(b)) = Len(b)
         /\ \A i \in 1 .. Len(b) : /\ LeftAll(b)[i] = b[i].left
                                   /\ LeftAs(k, b[i].plain, b[i].left)
                                   /\ b[i].left \in Seq(Frames)
<1> DEFINE n == Len(b)  l == LeftAll(b)
<1>1. n \in Nat /\ l = [i \in 1 .. n |-> b[i].left]
  BY DEF LeftAll
<1>2. ASSUME NEW i \in 1 .. n
      PROVE  b[i].left \in Seq(Frames) /\ LeftAs(k, b[i].plain, b[i].left)
  <2>1. b[i] \in Sent(k)
    BY ElementOfSeq
  <2> QED
    BY <2>1 DEF Sent
<1> HIDE DEF n, l
<1>3. l \in [1 .. n -> Seq(Frames)] /\ \A i \in 1 .. n : l[i] = b[i].left
  BY <1>1, <1>2
<1>4. l \in Seq(Seq(Frames)) /\ Len(l) = n
  BY <1>1, <1>3
<1> QED
  BY <1>2, <1>3, <1>4 DEF n, l

(* The bytes of a body are the chunks that left, end to end.               *)
LEMMA BodyIs ==
  ASSUME NEW k, NEW b \in Seq(Sent(k))
  PROVE  /\ FlattenSeq(LeftAll(b)) \in Seq(Frames)
         /\ BodyBytes(b) = FlattenSeq(FlattenSeq(LeftAll(b)))
         /\ Len(BodyBytes(b)) \in Nat
<1> DEFINE l == LeftAll(b)  x == FlattenSeq(l)  y == BodyBytes(b)
<1>1. l \in Seq(Seq(Frames)) /\ Len(l) = Len(b) /\ \A i \in 1 .. Len(b) : l[i] = b[i].left
  BY LeftTyped
<1> HIDE DEF l
<1>2. x \in Seq(Frames)
  BY <1>1, FlatType
<1>3. y = FlattenSeq(x)
  <2>1. y = FlattenSeq([i \in DOMAIN b |-> FlattenSeq(b[i].left)])
    BY EachOf DEF BodyBytes
  <2>2. DOMAIN b = 1 .. Len(b)
    OBVIOUS
  <2>3. [i \in DOMAIN b |-> FlattenSeq(b[i].left)] = [i \in 1 .. Len(l) |-> FlattenSeq(l[i])]
    BY <1>1, <2>2
  <2>4. l \in Seq(Seq(Seq(Octet)))
    <3>1. \A c \in Frames : c \in Seq(Octet)
      BY DEF Frames
    <3>2. \A S, T : (\A c \in S : c \in T) => \A s \in Seq(S) : s \in Seq(T)
      <4> SUFFICES ASSUME NEW S, NEW T, \A c \in S : c \in T, NEW s \in Seq(S)
                   PROVE  s \in Seq(T)
        OBVIOUS
      <4>1. Len(s) \in Nat /\ s \in [1 .. Len(s) -> S]
        OBVIOUS
      <4>2. s \in [1 .. Len(s) -> T]
        BY <4>1
      <4> QED
        BY <4>1, <4>2
    <3>3. \A s \in Seq(Frames) : s \in Seq(Seq(Octet))
      BY <3>1, <3>2
    <3> QED
      BY <1>1, <3>2, <3>3
  <2>5. FlattenSeq([i \in 1 .. Len(l) |-> FlattenSeq(l[i])]) = FlattenSeq(FlattenSeq(l))
    BY <2>4, FlatTwice
  <2> HIDE DEF y
  <2> QED
    BY <2>1, <2>3, <2>5
<1> HIDE DEF x, y
<1>4. FlattenSeq(x) \in Seq(Octet)
  <2>1. \A c \in Frames : c \in Seq(Octet)
    BY DEF Frames
  <2>2. x \in Seq(Seq(Octet))
    <3>1. x \in [1 .. Len(x) -> Frames] /\ Len(x) \in Nat
      BY <1>2
    <3>2. x \in [1 .. Len(x) -> Seq(Octet)]
      BY <3>1, <2>1
    <3> QED
      BY <3>1, <3>2
  <2> QED
    BY <2>2, FlatType
<1>5. Len(y) \in Nat
  BY <1>3, <1>4
<1> QED
  BY <1>2, <1>3, <1>5 DEF x, y, l

(* A body that is cut is read as the chunks that came whole.               *)
LEMMA BodyRead ==
  ASSUME CrcTyped, NEW k, NEW b \in Seq(Sent(k)), NEW size \in 0 .. Len(BodyBytes(b))
  PROVE  \E x, m : ReadsFrom(b, size, x, m)
<1> DEFINE l == LeftAll(b)  x == FlattenSeq(l)  y == BodyBytes(b)
<1>2. x \in Seq(Frames) /\ y = FlattenSeq(x)
  BY BodyIs
<1> HIDE DEF x, y
<1>4. size \in 0 .. Len(FlattenSeq(x))
  BY <1>2 DEF y
<1>5. /\ Len(FlattenSeq(x)) \in Nat
      /\ \E m \in 0 .. Len(x) :
           /\ Decoded(SubSeq(FlattenSeq(x), 1, size)) = [j \in 1 .. m |-> Dec(x[j])]
           /\ size = Len(FlattenSeq(x)) => m = Len(x)
  BY <1>2, <1>4, BodyDecoded
<1>6. PICK m \in 0 .. Len(x) :
           /\ Decoded(SubSeq(y, 1, size)) = [j \in 1 .. m |-> Dec(x[j])]
           /\ size = Len(y) => m = Len(x)
  BY <1>2, <1>5
<1>7. ReadsFrom(b, size, x, m)
  BY <1>6 DEF ReadsFrom, x, y, l
<1> QED
  BY <1>7

(* With the right key or none, and uncompressed: the rows of the first     *)
(* chunks, or of all.                                                      *)
LEMMA WellRead ==
  ASSUME CrcTyped, NEW k, NEW b \in Seq(Sent(k)),
         ~ k.packed, k.seal = "no" \/ k.key = ServerKey,
         NEW size \in 0 .. Len(BodyBytes(b))
  PROVE  /\ IsPrefix(Read(SubSeq(BodyBytes(b), 1, size)), FlattenSeq(GivesAll(b)))
         /\ size = Len(BodyBytes(b)) =>
              Read(SubSeq(BodyBytes(b), 1, size)) = FlattenSeq(GivesAll(b))
<1> DEFINE n == Len(b)  l == LeftAll(b)  G == GivesAll(b)  y == [i \in 1 .. n |-> b[i].left[1]]
           r == Read(SubSeq(BodyBytes(b), 1, size))
<1>1. PICK x, m : ReadsFrom(b, size, x, m)
  BY BodyRead
<1>2. n \in Nat /\ G \in Seq(Seq(Stored)) /\ Len(G) = n
      /\ \A i \in 1 .. n : G[i] = Gives(b[i].plain)
  BY GivesTyped
<1>3. /\ l \in Seq(Seq(Frames)) /\ Len(l) = n /\ \A i \in 1 .. n : l[i] = b[i].left
      /\ \A i \in 1 .. n : LeftAs(k, b[i].plain, b[i].left) /\ b[i].left \in Seq(Frames)
  BY LeftTyped
<1> HIDE DEF G, l, n
<1>4. ASSUME NEW i \in 1 .. n
      PROVE  /\ b[i].left = <<b[i].left[1]>> /\ b[i].left[1] \in Frames
             /\ OpensTo(b[i].left[1], b[i].plain)
  <2> DEFINE w == b[i].left
  <2>1. LeftAs(k, b[i].plain, w) /\ w \in Seq(Frames)
    BY <1>3
  <2> HIDE DEF w
  <2>2. Len(w) = 1 /\ OpensTo(w[1], b[i].plain)
    BY <2>1 DEF LeftAs
  <2>3. w[1] \in Frames
    <3>1. w \in Seq(Frames) /\ 1 \in 1 .. Len(w)
      BY <2>1, <2>2
    <3> QED
      BY <3>1, ElementOfSeq
  <2>4. w = <<w[1]>>
    <3> DEFINE e == w[1]
    <3>1. e \in Frames
      BY <2>3
    <3> HIDE DEF e
    <3>2. <<e>> \in Seq(Frames) /\ Len(<<e>>) = 1 /\ <<e>>[1] = e
      BY <3>1
    <3>3. \A j \in 1 .. Len(w) : w[j] = <<e>>[j]
      BY <3>2, <2>2 DEF e
    <3>4. w = <<e>>
      BY <3>2, <3>3, <2>1, <2>2, SeqEqual
    <3> QED
      BY <3>4 DEF e
  <2> QED
    BY <2>2, <2>3, <2>4 DEF w
<1>5. y \in Seq(Frames) /\ Len(y) = n /\ \A i \in 1 .. n : y[i] = b[i].left[1]
  <2>1. y \in [1 .. n -> Frames] /\ \A i \in 1 .. n : y[i] = b[i].left[1]
    BY <1>4
  <2> HIDE DEF y
  <2>2. n \in Nat
    BY <1>2
  <2>3. y \in Seq(Frames) /\ Len(y) = n
    BY <2>1, <2>2
  <2> QED
    BY <2>1, <2>3
<1> HIDE DEF y
<1>6. x = y
  <2>1. l = [i \in 1 .. n |-> l[i]]
    BY <1>3
  <2>2. \A i \in 1 .. n : l[i] = <<y[i]>>
    BY <1>3, <1>4, <1>5
  <2>3. l = [i \in 1 .. Len(y) |-> <<y[i]>>]
    BY <2>1, <2>2, <1>5
  <2>4. FlattenSeq([i \in 1 .. Len(y) |-> <<y[i]>>]) = y
    BY <1>5, FlatOnes
  <2>5. x = FlattenSeq(l)
    BY <1>1 DEF ReadsFrom, l
  <2> QED
    BY <2>3, <2>4, <2>5
<1> DEFINE D == [j \in 1 .. m |-> Dec(x[j])]  H == SubSeq(G, 1, m)
<1>7. m \in 0 .. Len(G) /\ m \in Nat
  BY <1>1, <1>2, <1>5, <1>6 DEF ReadsFrom
<1>8. /\ H \in Seq(Seq(Stored)) /\ Len(H) = m /\ \A i \in 1 .. m : H[i] = G[i]
      /\ IsPrefix(FlattenSeq(H), FlattenSeq(G))
  BY <1>2, <1>7, FlatPrefix
<1>9. r = Each(Rows, Each(Opened, D))
  BY <1>1 DEF ReadsFrom, Read
<1>10. \A i \in 1 .. m : \E o : Opened(D[i]) = <<o>> /\ Rows(o) = H[i]
  <2> SUFFICES ASSUME NEW i \in 1 .. m PROVE \E o : Opened(D[i]) = <<o>> /\ Rows(o) = H[i]
    OBVIOUS
  <2>1. i \in 1 .. n
    BY <1>2, <1>7
  <2>2. D[i] = Dec(x[i])
    OBVIOUS
  <2>3. OpensTo(x[i], b[i].plain) /\ H[i] = Gives(b[i].plain)
    BY <2>1, <1>2, <1>4, <1>5, <1>6, <1>8
  <2> HIDE DEF D, H
  <2> QED
    BY <2>2, <2>3 DEF OpensTo
<1>11. DOMAIN D = 1 .. m
  OBVIOUS
<1> HIDE DEF D, H, r
<1>12. r = FlattenSeq(H)
  BY <1>7, <1>8, <1>9, <1>10, <1>11, ReadAll, ZenonT(40)
<1>13. ASSUME size = Len(BodyBytes(b)) PROVE r = FlattenSeq(G)
  <2>1. m = n
    BY <1>1, <1>5, <1>6, <1>13 DEF ReadsFrom
  <2>2. H = G
    BY <2>1, <1>2, SubSeqFull DEF H
  <2> QED
    BY <2>2, <1>12
<1> QED
  BY <1>8, <1>12, <1>13 DEF r, G

(* With a credential the server does not have: nothing.                    *)
LEMMA NeverRead ==
  ASSUME CrcTyped, NEW k, NEW b \in Seq(Sent(k)),
         k.seal = "credential", ~ (k.seal = "no" \/ k.key = ServerKey),
         NEW size \in 0 .. Len(BodyBytes(b))
  PROVE  Read(SubSeq(BodyBytes(b), 1, size)) = <<>>
<1> DEFINE n == Len(b)  l == LeftAll(b)  F == {c \in Frames : Opened(Dec(c)) = <<>>}
<1>1. PICK x, m : ReadsFrom(b, size, x, m)
  BY BodyRead
<1>2. /\ l \in Seq(Seq(Frames)) /\ Len(l) = n /\ \A i \in 1 .. n : l[i] = b[i].left
      /\ \A i \in 1 .. n : LeftAs(k, b[i].plain, b[i].left) /\ b[i].left \in Seq(Frames)
  BY LeftTyped
<1>3. n \in Nat
  OBVIOUS
<1> HIDE DEF l, n, F
<1>4. ASSUME NEW i \in 1 .. n PROVE l[i] \in Seq(F)
  <2> DEFINE w == b[i].left
  <2>1. LeftAs(k, b[i].plain, w) /\ w \in Seq(Frames) /\ l[i] = w
    BY <1>2
  <2> HIDE DEF w
  <2>2. \A j \in 1 .. Len(w) : Opened(Dec(w[j])) = <<>>
    BY <2>1 DEF LeftAs
  <2>3. \A j \in 1 .. Len(w) : w[j] \in Frames
    BY <2>1, ElementOfSeq
  <2>4. \A j \in 1 .. Len(w) : w[j] \in F
    BY <2>2, <2>3 DEF F
  <2>5. w \in [1 .. Len(w) -> F] /\ Len(w) \in Nat
    BY <2>1, <2>4
  <2> QED
    BY <2>1, <2>5
<1>5. l \in Seq(Seq(F))
  <2>1. l \in [1 .. n -> Seq(F)]
    BY <1>2, <1>4
  <2> QED
    BY <2>1, <1>3
<1>6. x \in Seq(F)
  <2>1. FlattenSeq(l) \in Seq(F)
    BY <1>5, FlatType
  <2> QED
    BY <2>1, <1>1 DEF ReadsFrom, l
<1> DEFINE D == [j \in 1 .. m |-> Dec(x[j])]
<1>7. m \in Nat /\ m <= Len(x) /\ Len(x) \in Nat
  BY <1>1, <1>6 DEF ReadsFrom
<1>8. \A i \in 1 .. m : Opened(D[i]) = <<>>
  <2> SUFFICES ASSUME NEW i \in 1 .. m PROVE Opened(D[i]) = <<>>
    OBVIOUS
  <2>1. i \in 1 .. Len(x)
    BY <1>7
  <2>2. x[i] \in F
    BY <2>1, <1>6, ElementOfSeq
  <2>3. D[i] = Dec(x[i])
    OBVIOUS
  <2> HIDE DEF D
  <2> QED
    BY <2>2, <2>3 DEF F
<1>9. DOMAIN D = 1 .. m
  OBVIOUS
<1>10. Decoded(SubSeq(BodyBytes(b), 1, size)) = D
  BY <1>1 DEF ReadsFrom
<1> HIDE DEF D
<1>11. Each(Rows, Each(Opened, D)) = <<>>
  BY <1>7, <1>8, <1>9, ReadNone
<1> QED
  BY <1>10, <1>11 DEF Read

(* The invariant: what was sent of a body gives what is due for the        *)
(* records sent, and left the device as its wrappers promise.              *)
WireInv ==
  /\ link \in Links /\ seq \in Word
  /\ sent \in Seq(Record) /\ body \in Seq(Sent(link))
  /\ FlattenSeq(GivesAll(body)) = FlattenSeq(DueAll(sent))
  /\ ReadAsWritten

(* Before anything is sent.                                                *)
LEMMA NoneSent ==
  /\ \A k : <<>> \in Seq(Sent(k))
  /\ <<>> \in Seq(Record) /\ GivesAll(<<>>) = <<>> /\ DueAll(<<>>) = <<>>
  /\ Each(Due, <<>>) = <<>>
<1>1. /\ \A k : <<>> \in Seq(Sent(k))
      /\ <<>> \in Seq(Record)
  OBVIOUS
<1>2. GivesAll(<<>>) = <<>> /\ DueAll(<<>>) = <<>>
  BY DEF GivesAll, DueAll
<1>3. Each(Due, <<>>) = <<>>
  <2>1. [i \in DOMAIN <<>> |-> Due(<<>>[i])] = <<>>
    OBVIOUS
  <2>2. Each(Due, <<>>) = FlattenSeq([i \in DOMAIN <<>> |-> Due(<<>>[i])])
    BY EachOf
  <2> QED
    BY <2>1, <2>2, FlatNone
<1> QED
  BY <1>1, <1>2, <1>3

(* What is due of records is what is due of each.                          *)
LEMMA DueIs ==
  ASSUME NEW s \in Seq(Record)
  PROVE  Each(Due, s) = FlattenSeq(DueAll(s))
<1>1. DOMAIN s = 1 .. Len(s)
  OBVIOUS
<1>2. Each(Due, s) = FlattenSeq([i \in DOMAIN s |-> Due(s[i])])
  BY EachOf
<1> QED
  BY <1>1, <1>2 DEF DueAll

(* What the assumption on the constants says of the inputs.                *)
LEMMA InputsAre == Records \subseteq Record /\ Missing \subseteq Nat
BY WireAssumption

(* A record is sent.                                                       *)
LEMMA SendKeeps ==
  ASSUME CrcTyped, WireInv, NEW r \in Records, Send(r)
  PROVE  WireInv'
<1>1. /\ link \in Links /\ seq \in Word /\ sent \in Seq(Record)
      /\ body \in Seq(Sent(link)) /\ ReadAsWritten
      /\ FlattenSeq(GivesAll(body)) = FlattenSeq(DueAll(sent))
  BY DEF WireInv
<1>2. r \in Record
  BY InputsAre
<1> DEFINE a == Added(r, seq)  n == Len(Chunks(r, seq))
<1>3. /\ seq' = (seq + n) % 65536 /\ body' = body \o a
      /\ sent' = Append(sent, r) /\ link' = link /\ posted' = posted
  BY DEF Send, Added
<1>4. n \in Nat /\ a \in Seq(Sent(link)) /\ FlattenSeq(GivesAll(a)) = Due(r)
  <2>1. seq \in Nat
    BY <1>1 DEF Word
  <2> QED
    BY <2>1, <1>1, <1>2, ChunksMade
<1> HIDE DEF a, n
<1>5. seq' \in Word
  BY <1>1, <1>3, <1>4 DEF Word
<1> DEFINE b == body \o a
<1>6. b \in Seq(Sent(link)) /\ GivesAll(b) = GivesAll(body) \o GivesAll(a)
  BY <1>1, <1>4, GivesJoin
<1>7. /\ DueAll(sent) \in Seq(Seq(Stored)) /\ Due(r) \in Seq(Stored)
      /\ DueAll(Append(sent, r)) = Append(DueAll(sent), Due(r))
  BY <1>1, <1>2, DueMore
<1>8. /\ GivesAll(body) \in Seq(Seq(Stored)) /\ GivesAll(a) \in Seq(Seq(Stored))
  BY <1>1, <1>4, GivesTyped
<1>9. FlattenSeq(GivesAll(b)) = FlattenSeq(DueAll(Append(sent, r)))
  <2>1. FlattenSeq(GivesAll(body) \o GivesAll(a))
          = FlattenSeq(GivesAll(body)) \o FlattenSeq(GivesAll(a))
    BY <1>8, FlatJoin
  <2>2. FlattenSeq(Append(DueAll(sent), Due(r))) = FlattenSeq(DueAll(sent)) \o Due(r)
    BY <1>7, FlatAppend
  <2> HIDE DEF b
  <2> QED
    BY <2>1, <2>2, <1>1, <1>4, <1>6, <1>7
<1>10. Append(sent, r) \in Seq(Record)
  BY <1>1, <1>2
<1>11. body' = b
  BY <1>3
<1>14. sent' = Append(sent, r) /\ link' = link
  BY <1>3
<1> HIDE DEF b
<1>12. FlattenSeq(GivesAll(body')) = FlattenSeq(DueAll(sent'))
  BY <1>9, <1>11, <1>14
<1>15. /\ link' \in Links /\ sent' \in Seq(Record) /\ body' \in Seq(Sent(link'))
  BY <1>1, <1>6, <1>10, <1>11, <1>14
<1>13. ReadAsWritten'
  BY <1>1, <1>3 DEF ReadAsWritten, Readable
<1> QED
  BY <1>5, <1>12, <1>13, <1>15 DEF WireInv

(* A body is read.                                                         *)
LEMMA PostKeeps ==
  ASSUME CrcTyped, WireInv, NEW cut \in Missing, Post(cut)
  PROVE  WireInv'
<1>1. /\ link \in Links /\ seq \in Word /\ sent \in Seq(Record)
      /\ body \in Seq(Sent(link))
      /\ FlattenSeq(GivesAll(body)) = FlattenSeq(DueAll(sent))
  BY DEF WireInv
<1> DEFINE y == BodyBytes(body)  size == Len(y) - cut  rows == Read(SubSeq(y, 1, size))
<1>2. /\ cut <= Len(y)
      /\ posted' = [rows |-> rows, of |-> sent, cut |-> cut]
      /\ body' = <<>> /\ sent' = <<>> /\ link' = link /\ seq' = seq
  BY DEF Post, BodyBytes
<1>3. cut \in Nat
  BY InputsAre
<1>4. Len(y) \in Nat
  BY <1>1, BodyIs
<1>5. size \in 0 .. Len(y)
  <2> HIDE DEF y
  <2> QED
    BY <1>2, <1>3, <1>4
<1>6. cut = 0 => size = Len(y)
  <2> HIDE DEF y
  <2> QED
    BY <1>4
<1> HIDE DEF size
<1>7. ASSUME ~ link.packed, link.seal = "no" \/ link.key = ServerKey
      PROVE  /\ IsPrefix(rows, FlattenSeq(GivesAll(body)))
             /\ cut = 0 => rows = FlattenSeq(GivesAll(body))
  BY <1>1, <1>5, <1>6, <1>7, WellRead
<1>8. ASSUME link.seal = "credential", ~ (link.seal = "no" \/ link.key = ServerKey)
      PROVE  rows = <<>>
  BY <1>1, <1>5, <1>8, NeverRead
<1>9. Each(Due, sent) = FlattenSeq(DueAll(sent))
  BY <1>1, DueIs
<1> HIDE DEF rows, y
<1>10. /\ posted'.rows = rows /\ posted'.of = sent /\ posted'.cut = cut
  BY <1>2
<1>11. Each(Due, posted'.of) = FlattenSeq(GivesAll(body))
  BY <1>1, <1>9, <1>10
<1>12. ReadAsWritten'
  BY <1>2, <1>7, <1>8, <1>10, <1>11 DEF ReadAsWritten, Readable
<1>13. body' \in Seq(Sent(link')) /\ sent' \in Seq(Record)
       /\ FlattenSeq(GivesAll(body')) = FlattenSeq(DueAll(sent'))
  BY <1>2, NoneSent
<1> QED
  BY <1>1, <1>2, <1>12, <1>13 DEF WireInv

(* A device that has sent nothing.                                         *)
LEMMA WireInitially ==
  ASSUME WireInit
  PROVE  WireInv
<1>1. /\ link \in Links /\ seq = 0 /\ body = <<>> /\ sent = <<>>
      /\ posted = [rows |-> <<>>, of |-> <<>>, cut |-> 0]
  BY DEF WireInit
<1>2. posted.rows = <<>> /\ posted.of = <<>> /\ posted.cut = 0
  BY <1>1
<1>3. seq \in Word
  BY <1>1 DEF Word
<1>4. ReadAsWritten
  BY <1>2, NoneSent DEF ReadAsWritten
<1>5. body \in Seq(Sent(link)) /\ sent \in Seq(Record)
      /\ FlattenSeq(GivesAll(body)) = FlattenSeq(DueAll(sent))
  BY <1>1, NoneSent
<1> QED
  BY <1>1, <1>3, <1>4, <1>5 DEF WireInv

(* What left the device is sealed if it has to be, and decompresses.       *)
LEMMA WrappersDo ==
  ASSUME WireInv
  PROVE  WrappersHold
<1>1. body \in Seq(Sent(link))
  BY DEF WireInv
<1>2. ASSUME NEW i \in DOMAIN body PROVE LeftAs(link, body[i].plain, body[i].left)
  <2>1. i \in 1 .. Len(body)
    BY <1>1
  <2> QED
    BY <2>1, <1>1, LeftTyped
<1>3. AllSealed
  <2> SUFFICES ASSUME link.seal # "no", ~ link.packed, NEW i \in DOMAIN body
               PROVE  Len(body[i].left) = 1 /\ Has(body[i].left[1][4], FlagSealed)
    BY DEF AllSealed
  <2> QED
    BY <1>2 DEF LeftAs
<1>4. Decompresses
  <2> SUFFICES ASSUME link.packed, link.seal = "no", NEW i \in DOMAIN body,
                      Has(body[i].left[1][4], FlagPacked)
               PROVE  LET p == PayloadOf(body[i].left[1])
                      IN  /\ Num(SubSeq(p, 1, 2)) = Len(PayloadOf(body[i].plain))
                          /\ Decompress(SubSeq(p, 3, Len(p))) = PayloadOf(body[i].plain)
    BY DEF Decompresses
  <2>1. Unpacks(body[i].plain, body[i].left[1])
    BY <1>2 DEF LeftAs
  <2> QED
    BY <2>1 DEF Unpacks
<1> QED
  BY <1>3, <1>4 DEF WrappersHold

(* Together: nothing between a device's buffers and the server's rows      *)
(* changes, mixes up or loses a record, whatever the records, the keys and *)
(* the checksum, if the checksum is a 16-bit number.                       *)
THEOREM RecordsSurviveCorrect ==
  ASSUME CrcTyped
  PROVE  WireSpec => []RecordsSurvive
<1>1. WireInit => WireInv
  BY WireInitially
<1>2. WireInv /\ [WireNext]_wireVars => WireInv'
  <2> SUFFICES ASSUME WireInv, [WireNext]_wireVars PROVE WireInv'
    OBVIOUS
  <2>1. CASE \E r \in Records : Send(r)
    BY <2>1, SendKeeps
  <2>2. CASE \E cut \in Missing : Post(cut)
    BY <2>2, PostKeeps
  <2>3. CASE UNCHANGED wireVars
    BY <2>3 DEF wireVars, WireInv, ReadAsWritten, Readable, Sent, GivesAll, DueAll
  <2> QED
    BY <2>1, <2>2, <2>3 DEF WireNext
<1>3. WireInv => RecordsSurvive
  BY WrappersDo DEF WireInv, RecordsSurvive
<1> QED
  BY <1>1, <1>2, <1>3, PTL DEF WireSpec
=============================================================================
