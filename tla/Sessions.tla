------------------------------ MODULE Sessions ------------------------------
(***************************************************************************)
(* How firmware asks for uploads, and what it is told of them: the C       *)
(* functions of ferrite-ffi, the resource of ferrite-rtic and the upload   *)
(* loop of ferrite-embassy.  SdkUpload has the session itself, with its    *)
(* resets; here it is only as fine as its callers can tell.                *)
(*                                                                         *)
(* The C functions and RTIC upload inside a critical section, so nothing   *)
(* of the firmware runs until the session is over.  A send callback calls  *)
(* no function of the SDK, and the SDK is initialised once by firmware     *)
(* written in Rust, before anything asks for an upload.                    *)
(***************************************************************************)
EXTENDS Naturals, Sequences

CONSTANTS
  ResetCodes,  \* bytes a C program passes as a reboot reason
  RegionLimit, \* RAM regions the SDK holds (4)
  MaxNoted,    \* bound on the values recorded
  MaxCrashes,  \* bound on hard faults
  Never        \* no record, no call

ASSUME SessionsAssumption ==
  /\ ResetCodes \subseteq 0 .. 255
  /\ RegionLimit \in Nat /\ MaxNoted \in Nat /\ MaxCrashes \in Nat
  /\ Never \notin Nat

VARIABLES
  front,   \* the integration the firmware is built with
  sdk,     \* INITIALIZED, and the RAM regions that are registered
  held,    \* what the SDK holds: reboot reason, fault, metrics
  session, \* the upload that runs: where it is, the chunks it has still to
           \* send, and what was held when it was asked for
  pending, \* RTIC's flag, or a trigger in Embassy's channel
  reply,   \* what the last call of a C function returned
  noted, crashes,
  host,    \* history: the values the link took
  due      \* history: the values held when an upload was last requested

sessionVars == <<front, sdk, held, session, pending, reply, noted, crashes, host, due>>

Ids  == 1 .. MaxNoted
Held == [reason : [id : Ids, code : 0 .. 12] \cup {Never}, fault : Ids \cup {Never},
         metrics : SUBSET Ids]
Empty == [reason |-> Never, fault |-> Never, metrics |-> {}]

SessionTypeOK ==
  /\ front \in {"c", "rtic", "embassy"}
  /\ sdk \in [up : BOOLEAN, regions : 0 .. RegionLimit]
  /\ held \in Held
  /\ session \in [at : {"none", "woken", "sending", "over"}, chunks : Seq(SUBSET Ids), asked : Held]
  /\ pending \in BOOLEAN
  /\ noted \in Nat /\ crashes \in Nat
  /\ host \subseteq Ids /\ due \subseteq Ids

NoSession == [at |-> "none", chunks |-> <<>>, asked |-> Empty]
Quiet == session = NoSession

SessionInit ==
  /\ front \in {"c", "rtic", "embassy"}
  /\ sdk = [up |-> FALSE, regions |-> 0]
  /\ held = Empty
  /\ session = NoSession
  /\ pending = FALSE
  /\ reply = Never
  /\ noted = 0 /\ crashes = 0
  /\ host = {} /\ due = {}

IdsOf(h) ==
  h.metrics \cup (IF h.fault = Never THEN {} ELSE {h.fault})
  \cup (IF h.reason = Never THEN {} ELSE {h.reason.id})

(* A call returns: what it was, its code, what was held when it was made,  *)
(* what it found, and whether the link refused a chunk.                    *)
Returned(call, code, before, found, refused) ==
  [call |-> call, code |-> code, before |-> before, found |-> found, refused |-> refused]

Answers(call, code, found) ==
  /\ reply' = Returned(call, code, held, found, FALSE)
  /\ UNCHANGED <<front, session, pending, crashes, host, due>>

-----------------------------------------------------------------------------
(* The C functions other than the upload. *)

CCalls == front = "c" /\ Quiet

(* Regions beyond the fourth are left out.                                 *)
Up(regions) ==
  sdk' = [up |-> TRUE, regions |-> IF regions > RegionLimit THEN RegionLimit ELSE regions]

ferrite_sdk_init(null, regions) ==
  /\ CCalls
  /\ \/ null /\ Answers("init", "NullPtr", Never) /\ UNCHANGED sdk
     \/ ~null /\ sdk.up /\ Answers("init", "AlreadyInit", Never) /\ UNCHANGED sdk
     \/ ~null /\ ~sdk.up /\ Answers("init", "Ok", Never) /\ Up(regions)
  /\ UNCHANGED <<held, noted>>

(* RebootReason::from: a byte that is no reason is Unknown.                *)
ReasonOf(byte) == IF byte \in 1 .. 12 THEN byte ELSE 0

CanNote == noted < MaxNoted
Note(new) == noted' = noted + 1 /\ held' = new

ferrite_record_reboot_reason(byte) ==
  /\ CCalls /\ CanNote
  /\ IF sdk.up
     THEN /\ Answers("reason", "Ok", Never)
          /\ Note([held EXCEPT !.reason = [id |-> noted + 1, code |-> ReasonOf(byte)]])
     ELSE Answers("reason", "NotInitialized", Never) /\ UNCHANGED <<held, noted>>
  /\ UNCHANGED sdk

(* Both read retained RAM, which sdk::init has validated.                  *)
ferrite_last_reboot_reason ==
  /\ CCalls /\ sdk.up
  /\ Answers("last reason", "Ok", IF held.reason = Never THEN 0 ELSE held.reason.code)
  /\ UNCHANGED <<sdk, held, noted>>

ferrite_last_fault ==
  /\ CCalls /\ sdk.up
  /\ Answers("last fault", "Ok", held.fault)
  /\ UNCHANGED <<sdk, held, noted>>

(* ferrite_metric_increment, _gauge and _observe, with a key that may be   *)
(* missing or too long.                                                    *)
ferrite_metric(key) ==
  /\ CCalls /\ CanNote
  /\ \/ /\ key = "null" /\ Answers("metric", "NullPtr", Never)
        /\ UNCHANGED <<held, noted>>
     \/ /\ key # "null" /\ ~sdk.up /\ Answers("metric", "NotInitialized", Never)
        /\ UNCHANGED <<held, noted>>
     \/ /\ key = "long" /\ sdk.up /\ Answers("metric", "KeyTooLong", Never)
        /\ UNCHANGED <<held, noted>>
     \/ /\ key = "good" /\ sdk.up /\ Answers("metric", "Ok", Never)
        /\ Note([held EXCEPT !.metrics = @ \cup {noted + 1}])
  /\ UNCHANGED sdk

-----------------------------------------------------------------------------
(* Firmware in Rust *)

InitRust ==
  /\ front # "c" /\ ~sdk.up
  /\ \E regions \in 0 .. RegionLimit + 1 : Up(regions)
  /\ UNCHANGED <<front, held, session, pending, reply, noted, crashes, host, due>>

(* Another task or an interrupt records, while Embassy's session waits for *)
(* the link too.                                                           *)
RecordRust ==
  /\ front # "c" /\ sdk.up /\ CanNote
  /\ front = "rtic" => Quiet
  /\ Note([held EXCEPT !.metrics = @ \cup {noted + 1}])
  /\ UNCHANGED <<front, sdk, session, pending, reply, crashes, host, due>>

(* The handler leaves a fault and its reason in retained RAM, and resets.  *)
HardFaults ==
  /\ sdk.up /\ CanNote /\ crashes < MaxCrashes
  /\ crashes' = crashes + 1
  /\ Note([reason |-> [id |-> noted + 1, code |-> 4], fault |-> noted + 1, metrics |-> {}])
  /\ sdk' = [up |-> FALSE, regions |-> 0]
  /\ session' = NoSession /\ pending' = FALSE /\ reply' = Never /\ due' = {}
  /\ UNCHANGED <<front, host>>

-----------------------------------------------------------------------------
(* A session of UploadManager *)

SessionChunks ==
  <<{}>> \o (IF held.reason = Never THEN <<>> ELSE << {held.reason.id} >>)
  \o (IF held.fault = Never THEN <<>> ELSE << {held.fault} >>)
  \o (IF held.metrics = {} THEN <<>> ELSE << held.metrics >>) \o <<{}>>

Begins == session' = [at |-> "sending", chunks |-> SessionChunks, asked |-> held]

(* What the caller makes of a session's end, or of an upload that did not  *)
(* begin: the C function returns a code, poll keeps its flag only if the   *)
(* transport was unavailable, and Embassy's loop goes on to drain its      *)
(* channel.                                                                *)
Code(result) == IF result \in {"Unavailable", "Refused"} THEN "Transport" ELSE result

Retried(result) == front = "rtic" /\ result = "Unavailable"

(* Mutations of Ends: poll clears its flag whatever the result; a session  *)
(* that failed is reported as one that did not.                            *)
EndsCleared(result, before, refused) ==
  /\ reply' = IF front = "c" THEN Returned("upload", Code(result), before, Never, refused)
              ELSE reply
  /\ pending' = (pending /\ front # "rtic")
  /\ due' = IF result = "Ok" \/ Retried(result) THEN due ELSE {}
  /\ session' = [NoSession EXCEPT !.at = IF front = "embassy" THEN "over" ELSE "none"]

EndsWell(result, before, refused) ==
  /\ reply' = IF front = "c" THEN Returned("upload", "Ok", before, Never, refused)
              ELSE reply
  /\ pending' = IF front = "rtic" THEN Retried(result) ELSE pending
  /\ due' = IF result = "Ok" \/ Retried(result) THEN due ELSE {}
  /\ session' = [NoSession EXCEPT !.at = IF front = "embassy" THEN "over" ELSE "none"]

Ends(result, before, refused) ==
  /\ reply' = IF front = "c" THEN Returned("upload", Code(result), before, Never, refused)
              ELSE reply
  /\ pending' = IF front = "rtic" THEN Retried(result) ELSE pending
  /\ due' = IF result = "Ok" \/ Retried(result) THEN due ELSE {}
  /\ session' = [NoSession EXCEPT !.at = IF front = "embassy" THEN "over" ELSE "none"]

(* upload and upload_async, up to their first chunk.  A C transport has no *)
(* begin_session of its own.                                               *)
Starts ==
  /\ \/ ~sdk.up /\ Ends("NotInitialized", held, FALSE)
     \/ sdk.up /\ Ends("Unavailable", held, FALSE)
     \/ sdk.up /\ front # "c" /\ Ends("Refused", held, FALSE)
     \/ sdk.up /\ Begins /\ reply' = Never /\ UNCHANGED <<pending, due>>
  /\ UNCHANGED <<front, sdk, held, noted, crashes, host>>

SendChunk ==
  /\ session.at = "sending" /\ session.chunks # <<>>
  /\ host' = host \cup Head(session.chunks)
  /\ session' = [session EXCEPT !.chunks = Tail(@)]
  /\ UNCHANGED <<front, sdk, held, pending, reply, noted, crashes, due>>

(* A chunk is refused.  The blocking upload calls that a failed encoding.  *)
RefuseChunk ==
  /\ session.at = "sending" /\ session.chunks # <<>>
  /\ Ends(IF front = "embassy" THEN "Refused" ELSE "Encoding", session.asked, TRUE)
  /\ UNCHANGED <<front, sdk, held, noted, crashes, host>>

(* All is sent, so all that is held goes, before end_session may fail.     *)
FinishSession ==
  /\ session.at = "sending" /\ session.chunks = <<>>
  /\ held' = Empty
  /\ \/ Ends("Ok", session.asked, FALSE)
     \/ front # "c" /\ Ends("Refused", session.asked, FALSE)
  /\ UNCHANGED <<front, sdk, noted, crashes, host>>

-----------------------------------------------------------------------------
(* Who asks *)

(* The C function checks what it is given first.                           *)
ferrite_upload(transport) ==
  /\ CCalls
  /\ \/ transport \in {"null", "without send_chunk"}
        /\ Answers("upload", "NullPtr", Never) /\ UNCHANGED <<sdk, held, noted>>
     \/ transport = "good" /\ Starts

(* RticTransportResource; both run under its lock.                         *)
request_upload ==
  /\ front = "rtic" /\ Quiet /\ sdk.up
  /\ pending' = TRUE
  /\ due' = due \cup IdsOf(held)
  /\ UNCHANGED <<front, sdk, held, session, reply, noted, crashes, host>>

poll == front = "rtic" /\ Quiet /\ pending /\ Starts

(* The channel holds one trigger.  What is held counts as asked for unless *)
(* a session has collected its chunks already.                             *)
trigger_upload_now ==
  /\ front = "embassy" /\ sdk.up
  /\ pending' = TRUE
  /\ due' = IF session.at \in {"none", "woken"} THEN due \cup IdsOf(held) ELSE due
  /\ UNCHANGED <<front, sdk, held, session, reply, noted, crashes, host>>

(* The interval is over, or there is a trigger, which is taken.            *)
Wake ==
  /\ front = "embassy" /\ sdk.up /\ Quiet
  /\ pending' \in {pending, FALSE}
  /\ session' = [NoSession EXCEPT !.at = "woken"]
  /\ UNCHANGED <<front, sdk, held, reply, noted, crashes, host, due>>

UploadWoken == session.at = "woken" /\ Starts

(* After the upload, the triggers that came meanwhile are drained.         *)
DrainTriggers ==
  /\ session.at = "over"
  /\ pending' = FALSE
  /\ session' = NoSession
  /\ UNCHANGED <<front, sdk, held, reply, noted, crashes, host, due>>

-----------------------------------------------------------------------------
CCall ==
  \/ \E null \in BOOLEAN, regions \in 0 .. RegionLimit + 1 : ferrite_sdk_init(null, regions)
  \/ \E byte \in ResetCodes : ferrite_record_reboot_reason(byte)
  \/ ferrite_last_reboot_reason \/ ferrite_last_fault
  \/ \E key \in {"null", "long", "good"} : ferrite_metric(key)
  \/ \E transport \in {"null", "without send_chunk", "good"} : ferrite_upload(transport)

SessionNext ==
  \/ CCall
  \/ InitRust \/ RecordRust \/ request_upload \/ poll
  \/ trigger_upload_now \/ Wake \/ UploadWoken \/ DrainTriggers
  \/ SendChunk \/ RefuseChunk \/ FinishSession
  \/ HardFaults

SessionSpec == SessionInit /\ [][SessionNext]_sessionVars

-----------------------------------------------------------------------------
(* The code a C function returns tells what became of the data: an error   *)
(* leaves all of it for the next attempt, and an upload returns Ok only    *)
(* when the link took everything that was held and nothing of it is kept   *)
(* (c-api.md:264).                                                         *)
CodesTell ==
  reply # Never =>
    /\ reply.code # "Ok" => held = reply.before
    /\ reply.call = "upload" /\ reply.code = "Ok" =>
         ~reply.refused /\ held = Empty /\ IdsOf(reply.before) \subseteq host

(* An upload that was requested takes place: until the link has what was   *)
(* held at the request, the request is pending or its session runs, unless *)
(* a session failed on the way (ferrite-rtic/src/lib.rs:83-86).            *)
RequestsServed ==
  due \subseteq host \/ pending \/ session.at \in {"woken", "sending"}

(* Together: firmware can rely on what it asks and on what it is told.     *)
CallersServed == CodesTell /\ RequestsServed

(* Not met: "if it returns non-zero, the upload session is aborted and     *)
(* ferrite_upload() returns FERRITE_TRANSPORT" (c-api.md:293).             *)
RefusalTold ==
  reply # Never /\ reply.call = "upload" /\ reply.refused => reply.code = "Transport"

(* Not met: while a fault is held, the last reboot reason is its own,      *)
(* which is "set automatically by fault handler" (c-api.md:101): firmware   *)
(* that records the cause of the reset when it starts, as it is told to    *)
(* (reboot_reason.rs:73), overwrites it.                                   *)
CrashReasonTold ==
  reply # Never /\ reply.call = "last reason" /\ held.fault # Never => reply.found = 4
=============================================================================
