------------------------------ MODULE SdkUpload ------------------------------
(***************************************************************************)
(* The telemetry a device holds and the session that uploads it            *)
(* (ferrite-sdk/src/upload.rs with sdk.rs, memory.rs, fault.rs and         *)
(* reboot_reason.rs).                                                      *)
(*                                                                         *)
(* Two memories: the retained block, which survives every reset but power  *)
(* loss, holds a reboot reason and a fault record; ordinary RAM holds the  *)
(* metrics, the trace frames and the session.  Every value a program can   *)
(* record (a metric's new value, a frame, a reason, a fault) is identified *)
(* by the number of the write that made it, so that the host's view,       *)
(* `received', can be compared with what the device erased, `cleared'.     *)
(*                                                                         *)
(* ~async is UploadManager::upload: encoding, sending and clearing         *)
(* run inside one critical section, where only a HardFault or a reset can  *)
(* intervene.  async is upload_async: only the encoding and the            *)
(* clearing of metrics and trace are critical sections, and other tasks    *)
(* and interrupts run between any two other steps.                         *)
(***************************************************************************)
EXTENDS Naturals, Sequences, FiniteSets

-----------------------------------------------------------------------------
(***************************************************************************)
(* The update rule of MetricsBuffer<N> (ferrite-sdk/src/metrics.rs), as    *)
(* operators on a sequence of entries, oldest first.  An entry is a record *)
(* with at least the fields key and value; the timestamp is left out, it   *)
(* is overwritten by every update and read by nothing but the encoder.     *)
(* A key longer than 32 bytes is refused before anything changes, so it    *)
(* would be a stuttering step and is left out too.                         *)
(***************************************************************************)
CONSTANT MaxMetrics     \* N, the capacity of the buffer (32 in SdkState)

ASSUME MaxMetricsAssumption == MaxMetrics \in Nat \ {0}

HasKey(buf, key) == \E i \in DOMAIN buf : buf[i].key = key

(* find_key: the first entry that carries the key. *)
FindKey(buf, key) ==
  CHOOSE i \in DOMAIN buf :
    /\ buf[i].key = key
    /\ \A j \in 1 .. i - 1 : buf[j].key # key

(* A new key goes to the back; a full buffer gives up its first entry. *)
PushEvicting(buf, entry) ==
  Append(IF Len(buf) < MaxMetrics THEN buf ELSE Tail(buf), entry)

(* increment, gauge and observe share this shape: a known key is updated   *)
(* where it stands, a new one is pushed with its first value.              *)
Record(buf, key, first, updated) ==
  IF HasKey(buf, key)
  THEN [buf EXCEPT ![FindKey(buf, key)].value = updated]
  ELSE PushEvicting(buf, [key |-> key, value |-> first])

-----------------------------------------------------------------------------
CONSTANTS
  Keys,       \* metric keys
  MaxFrames,  \* frames the trace buffer holds (512 bytes in SdkState)
  MaxWrites,  \* bound: values recorded in a behaviour
  MaxResets,  \* bound: resets and power losses in a behaviour
  None,       \* no record
  Noise       \* what RAM holds after power-up

ASSUME SdkUploadAssumption ==
  /\ MaxFrames \in Nat \ {0}
  /\ MaxWrites \in Nat
  /\ MaxResets \in Nat
  /\ None \notin Nat
  /\ Noise \notin Nat
  /\ None # Noise

VARIABLES
  async,      \* which of the two upload functions the firmware calls
  magic,      \* header.magic = RETAINED_MAGIC
  reason,     \* retained reboot_reason: a write, None or Noise
  fault,      \* retained fault_record: a write, None or Noise
  up,         \* INITIALIZED
  metrics,    \* SdkState.metrics: sequence of [key, value]
  trace,      \* SdkState.trace: sequence of frames
  pc,         \* where the upload session is
  chunks,     \* the encoded chunks of the session, in order
  next,       \* index of the chunk to send
  writes,     \* number of values recorded so far
  resets,     \* number of resets so far
  received,   \* history: writes the host got
  cleared,    \* history: metrics and records an upload erased on the device
  lastReason, \* history: the newest reason recorded and still owed
  lastFault   \* history: the newest fault taken and still owed

retained == <<magic, reason, fault>>
sram     == <<up, metrics, trace>>
session  == <<pc, chunks, next>>
owed     == <<lastReason, lastFault>>
history  == <<received, cleared>>
vars == <<async, retained, sram, session, writes, resets, history, owed>>

-----------------------------------------------------------------------------
(* Types. *)

Write  == Nat
Datum  == Write \cup {Noise}
Record0 == Datum \cup {None}
Metric == [key : Keys, value : Write]
Chunk  == [type : {"DeviceInfo", "RebootReason", "FaultRecord", "Metrics",
                   "TraceFragment", "Heartbeat"},
           data : SUBSET Datum]
Pc == {"idle", "begun", "sending", "clearReason", "clearFault", "ending"}

TypeOK ==
  /\ magic \in BOOLEAN
  /\ reason \in Record0
  /\ fault \in Record0
  /\ up \in BOOLEAN
  /\ metrics \in Seq(Metric)
  /\ trace \in Seq(Write)
  /\ pc \in Pc
  /\ chunks \in Seq(Chunk)
  /\ next \in Nat \ {0}
  /\ writes \in Nat
  /\ resets \in Nat
  /\ received \in SUBSET Datum
  /\ cleared \in SUBSET Datum
  /\ lastReason \in Write \cup {None}
  /\ lastFault \in Write \cup {None}

-----------------------------------------------------------------------------
(* Power-up: the retained block holds noise, whose magic is wrong. *)
Init ==
  /\ async \in BOOLEAN
  /\ magic = FALSE
  /\ reason = Noise
  /\ fault = Noise
  /\ up = FALSE
  /\ metrics = <<>>
  /\ trace = <<>>
  /\ pc = "idle"
  /\ chunks = <<>>
  /\ next = 1
  /\ writes = 0
  /\ resets = 0
  /\ received = {}
  /\ cleared = {}
  /\ lastReason = None
  /\ lastFault = None

(* Inside the blocking upload's critical section nothing else runs. *)
Masked == ~async /\ pc \in {"sending", "clearReason", "clearFault"}

(* Mutations of Boot: a block whose magic is right is zeroed too; a block  *)
(* whose magic is wrong is adopted as it is.                               *)
BootZeroing ==
  /\ ~up
  /\ up' = TRUE /\ magic' = TRUE /\ reason' = None /\ fault' = None
  /\ UNCHANGED <<metrics, trace, session, writes, resets, history, owed>>

BootAdopting ==
  /\ ~up
  /\ up' = TRUE /\ magic' = TRUE
  /\ UNCHANGED <<reason, fault, metrics, trace, session, writes, resets,
                 history, owed>>

(* sdk::init with begin_boot: a wrong magic means the whole block is       *)
(* zeroed, unread.  Calling it twice panics; the firmware calls it once.   *)
Boot ==
  /\ ~up
  /\ up' = TRUE
  /\ magic' = TRUE
  /\ reason' = IF magic THEN reason ELSE None
  /\ fault' = IF magic THEN fault ELSE None
  /\ UNCHANGED <<metrics, trace, session, writes, resets, history,
                 owed>>

-----------------------------------------------------------------------------
(* Recording. *)

CanWrite == writes < MaxWrites

RecordMetric(key) ==
  /\ up /\ ~Masked /\ CanWrite
  /\ writes' = writes + 1
  /\ metrics' = Record(metrics, key, writes', writes')
  /\ UNCHANGED <<retained, up, trace, session, resets, history, owed>>

(* write_frame; the frames are of equal size here, so a full buffer gives  *)
(* up exactly its oldest frame.                                            *)
WriteTrace ==
  /\ up /\ ~Masked /\ CanWrite
  /\ writes' = writes + 1
  /\ trace' = Append(IF Len(trace) < MaxFrames THEN trace ELSE Tail(trace),
                     writes')
  /\ UNCHANGED <<retained, up, metrics, session, resets, history,
                 owed>>

(* record_reboot_reason overwrites; it is called once init has run. *)
RecordReason ==
  /\ up /\ ~Masked /\ CanWrite
  /\ writes' = writes + 1
  /\ reason' = writes'
  /\ lastReason' = writes'
  /\ UNCHANGED <<magic, fault, sram, session, resets, history, lastFault>>

-----------------------------------------------------------------------------
(* Resets.  Ordinary RAM is initialised again, so the session is gone. *)

LoseRam ==
  /\ up' = FALSE
  /\ metrics' = <<>>
  /\ trace' = <<>>
  /\ pc' = "idle"
  /\ chunks' = <<>>
  /\ next' = 1

CanReset == resets < MaxResets /\ resets' = resets + 1

(* hard_fault: writes the record and the reboot reason with the highest    *)
(* priority, then resets.  It may strike at any point, critical section or *)
(* not.  It does not write the magic: a fault before init on a cold boot   *)
(* is in a block the next boot wipes, so nothing is owed for it.           *)
HardFault ==
  /\ CanWrite /\ CanReset
  /\ writes' = writes + 1
  /\ fault' = writes'
  /\ reason' = writes'
  /\ lastFault' = IF magic THEN writes' ELSE lastFault
  /\ lastReason' = IF magic THEN writes' ELSE lastReason
  /\ LoseRam
  /\ UNCHANGED <<magic, history>>

(* Watchdog, pin or software reset. *)
Reset ==
  /\ CanReset
  /\ LoseRam
  /\ UNCHANGED <<retained, writes, history, owed>>

(* Power loss takes the retained block too: nothing is owed any more. *)
PowerLoss ==
  /\ CanReset
  /\ LoseRam
  /\ magic' = FALSE
  /\ reason' = Noise
  /\ fault' = Noise
  /\ lastReason' = None
  /\ lastFault' = None
  /\ UNCHANGED <<writes, history>>

-----------------------------------------------------------------------------
(* The upload session. *)

(* is_initialized, is_available and begin_session all said yes; when one   *)
(* of them does not, upload returns an error having changed nothing.       *)
BeginSession ==
  /\ up /\ pc = "idle"
  /\ pc' = "begun"
  /\ UNCHANGED <<retained, sram, chunks, next, writes, resets, history,
                 owed>>

Alone(type, data) == <<[type |-> type, data |-> data]>>

(* encode_metrics packs consecutive entries into chunks; how many fit      *)
(* depends on the lengths of their keys, so every cut is possible.         *)
Cuts(n) ==
  {cut \in [1 .. n -> 1 .. n] :
     /\ cut[1] = 1
     /\ \A i, j \in 1 .. n : i <= j => cut[i] <= cut[j]
     /\ \A c \in 1 .. cut[n] : \E i \in 1 .. n : cut[i] = c}

MetricChunks(cut) ==
  [c \in 1 .. cut[Len(metrics)] |->
     [type |-> "Metrics",
      data |-> {metrics[i].value : i \in {j \in DOMAIN metrics : cut[j] = c}}]]

OptionalRecord(type, r) == IF r = None THEN <<>> ELSE Alone(type, {r})

(* What TraceFrameIter yields of a frame: it passes over the payload and   *)
(* hands on an empty slice (trace.rs:204).                                 *)
FrameBytes(frame) == {}

(* encode_trace puts what the frames yield one behind the other and cuts   *)
(* it into fragments; of nothing it makes none.                            *)
TraceChunks ==
  LET data == UNION {FrameBytes(trace[i]) : i \in DOMAIN trace}
  IN  IF data = {} THEN <<>> ELSE Alone("TraceFragment", data)

(* The chunks of a session: DeviceInfo, RebootReason, FaultRecord, Metrics,*)
(* trace, Heartbeat.                                                       *)
Encoding(metricPart) ==
  Alone("DeviceInfo", {}) \o OptionalRecord("RebootReason", reason)
    \o OptionalRecord("FaultRecord", fault) \o metricPart \o TraceChunks
    \o Alone("Heartbeat", {})

Encode ==
  /\ pc = "begun"
  /\ pc' = "sending"
  /\ next' = 1
  /\ \/ /\ metrics = <<>>
        /\ chunks' = Encoding(<<>>)
     \/ /\ metrics # <<>>
        /\ \E cut \in Cuts(Len(metrics)) : chunks' = Encoding(MetricChunks(cut))
  /\ UNCHANGED <<retained, sram, writes, resets, history, owed>>

SendOk ==
  /\ pc = "sending" /\ next <= Len(chunks)
  /\ received' = received \cup chunks[next].data
  /\ next' = next + 1
  /\ UNCHANGED <<retained, sram, pc, chunks, writes, resets, cleared,
                 owed>>

(* Mutation of SendFail: the error is dropped and the session goes on.     *)
SendFailIgnored ==
  /\ pc = "sending" /\ next <= Len(chunks)
  /\ next' = next + 1
  /\ UNCHANGED <<retained, sram, pc, chunks, writes, resets, history, owed>>

(* Mutation of SendFail: a failed session is not ended, so that none may   *)
(* begin after it.                                                         *)
SendFailStuck ==
  /\ pc = "sending" /\ next <= Len(chunks)
  /\ pc' = "failed" /\ chunks' = <<>> /\ next' = 1
  /\ UNCHANGED <<retained, sram, writes, resets, history, owed>>

(* A failed send ends the session with everything kept.  The chunk may     *)
(* have reached the host all the same.                                     *)
SendFail ==
  /\ pc = "sending" /\ next <= Len(chunks)
  /\ \/ received' = received
     \/ received' = received \cup chunks[next].data
  /\ pc' = "idle" /\ chunks' = <<>> /\ next' = 1
  /\ UNCHANGED <<retained, sram, writes, resets, cleared, owed>>

(* Every chunk was sent: erase.  A reset can fall between these steps, and *)
(* in upload_async an interrupt can.                                       *)
ClearBuffers ==
  /\ pc = "sending" /\ next > Len(chunks)
  /\ cleared' = cleared \cup {metrics[i].value : i \in DOMAIN metrics}
  /\ metrics' = <<>>
  /\ trace' = <<>>
  /\ pc' = "clearReason"
  /\ UNCHANGED <<retained, up, chunks, next, writes, resets, received, owed>>

ClearReason ==
  /\ pc = "clearReason"
  /\ cleared' = cleared \cup ({reason} \ {None})
  /\ reason' = None
  /\ pc' = "clearFault"
  /\ UNCHANGED <<magic, fault, sram, chunks, next, writes, resets, received,
                 owed>>

ClearFault ==
  /\ pc = "clearFault"
  /\ cleared' = cleared \cup ({fault} \ {None})
  /\ fault' = None
  /\ pc' = "ending"
  /\ UNCHANGED <<magic, reason, sram, chunks, next, writes, resets, received,
                 owed>>

(* end_session, whatever it returns: the buffers are already empty. *)
EndSession ==
  /\ pc = "ending"
  /\ pc' = "idle" /\ chunks' = <<>> /\ next' = 1
  /\ UNCHANGED <<retained, sram, writes, resets, history, owed>>

-----------------------------------------------------------------------------
Upload ==
  \/ BeginSession \/ Encode \/ SendOk \/ SendFail
  \/ ClearBuffers \/ ClearReason \/ ClearFault \/ EndSession

Step ==
  \/ Boot
  \/ \E key \in Keys : RecordMetric(key)
  \/ WriteTrace \/ RecordReason
  \/ HardFault \/ Reset \/ PowerLoss
  \/ Upload

Same == UNCHANGED async

Next == Step /\ Same

Spec == Init /\ [][Next]_vars

-----------------------------------------------------------------------------
(* Properties. *)

(* A metric, reboot reason or fault that an upload erases on the device    *)
(* has reached the host first: failed sends, resets at any point and       *)
(* faults in the middle of a session lose nothing (upload.rs:41-42).       *)
NothingErasedUnsent == cleared \subseteq received

(* So it is with the blocking upload. *)
BlockingErasesSent == ~async => NothingErasedUnsent

(* The newest fault taken since power came up is still in retained RAM     *)
(* until the host has it, whatever resets and half-finished uploads follow *)
(* (fault.rs, docs/guide/concepts.md:77).                                  *)
FaultKept ==
  magic /\ lastFault # None => fault = lastFault \/ lastFault \in received

(* With the blocking upload, so is the newest reboot reason                *)
(* (reboot_reason.rs).                                                     *)
ReasonKept ==
  ~async /\ magic /\ lastReason # None =>
    reason = lastReason \/ lastReason \in received

(* No record the host lacks is lost from retained RAM.                     *)
RecordsKept == FaultKept /\ ReasonKept

(* The noise retained RAM holds after power-up is never uploaded as if it  *)
(* were a fault record or a reboot reason (memory.rs, begin_boot).         *)
NoNoiseSent == Noise \notin received

(* A record in retained RAM, once init has prepared it, is uploaded and    *)
(* erased in the end.                                                      *)
RecordsEventuallyUploaded ==
  /\ (magic /\ fault # None) ~> (fault = None)
  /\ (magic /\ reason # None) ~> (reason = None)
=============================================================================
