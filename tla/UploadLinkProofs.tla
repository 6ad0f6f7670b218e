------------------------- MODULE UploadLinkProofs --------------------------
(***************************************************************************)
(* Proofs about SdkUpload for every number of keys, writes and resets, and *)
(* about SerialLink for all payloads, every noise and every number of      *)
(* chunks, bytes and faults.                                               *)
(*                                                                         *)
(* FaultKept and NothingErasedUnsent are not inductive: the first says     *)
(* nothing of a session in progress, the second nothing of what is about   *)
(* to be erased.  The invariants below add that link: while a session      *)
(* sends, whatever it will erase is either with the host or in a chunk     *)
(* still to be sent.  For the fault record this holds in both upload       *)
(* functions, because the only writer of the record resets the device; for *)
(* metrics and the reboot reason it needs the blocking upload's critical   *)
(* section.                                                                *)
(*                                                                         *)
(* The framer's search is a recursive function, and nothing about it can   *)
(* be said before it is known to exist.  It does, because each call looks  *)
(* further on than the one before (ScanIs).  Frames the search hands out   *)
(* cannot overlap a chunk that stands whole in the stream: a checksum      *)
(* names what it covers and is the last byte of its frame (NoOverlap).     *)
(* The invariant of the link says that the checksums in the stream are     *)
(* those of chunks sent, each once and in order (Genuine), that all that   *)
(* was handed on comes before them (Handed), and that on a connection not  *)
(* yet disturbed the stream is whole chunks end to end (Tiled).            *)
(***************************************************************************)
EXTENDS SdkUpload, SerialLink, SequenceTheorems, WellFoundedInduction,
        NaturalsInduction, TLAPS

(* A chunk of the sequence carries the datum. *)
Carries(s, d) == \E i \in 1 .. Len(s) : d \in s[i].data

(* A datum in a chunk the session still has to send. *)
Queued(d) == \E i \in next .. Len(chunks) : d \in chunks[i].data

(* Nothing runs before init, and init leaves a valid block. *)
BootInv ==
  /\ up => magic
  /\ pc # "idle" => up

(* Noise is confined to a block whose magic is wrong. *)
NoiseInv ==
  /\ magic => reason # Noise /\ fault # Noise
  /\ \A i \in DOMAIN chunks : Noise \notin chunks[i].data
  /\ Noise \notin received

(* The record a session will erase is with the host or on its way. *)
FaultInv ==
  /\ ~magic => lastFault = None
  /\ FaultKept
  /\ pc = "sending" /\ fault # None => fault \in received \/ Queued(fault)
  /\ pc \in {"clearReason", "clearFault"} /\ fault # None => fault \in received

(* The same for everything, when the session is a critical section. *)
EraseInv ==
  /\ pc = "sending" /\ reason # None => reason \in received \/ Queued(reason)
  /\ pc = "clearReason" /\ reason # None => reason \in received
  /\ pc = "sending" => \A i \in DOMAIN metrics :
       metrics[i].value \in received \/ Queued(metrics[i].value)
  /\ cleared \subseteq received

-----------------------------------------------------------------------------
(* Lemmas about the encoding. *)

LEMMA CarriesConcat ==
  ASSUME NEW s \in Seq(Chunk), NEW t \in Seq(Chunk), NEW d
  PROVE  Carries(s \o t, d) <=> Carries(s, d) \/ Carries(t, d)
<1>1. /\ s \o t \in Seq(Chunk)
      /\ Len(s \o t) = Len(s) + Len(t)
      /\ \A i \in 1 .. Len(s) : (s \o t)[i] = s[i]
      /\ \A i \in 1 .. Len(t) : (s \o t)[Len(s) + i] = t[i]
  OBVIOUS
<1>2. ASSUME Carries(s \o t, d) PROVE Carries(s, d) \/ Carries(t, d)
  <2>1. PICK i \in 1 .. Len(s) + Len(t) : d \in (s \o t)[i].data
    BY <1>1, <1>2 DEF Carries
  <2>2. CASE i <= Len(s)
    BY <1>1, <2>1, <2>2 DEF Carries
  <2>3. CASE i > Len(s)
    <3>1. i - Len(s) \in 1 .. Len(t) /\ i = Len(s) + (i - Len(s))
      BY <2>1, <2>3
    <3>2. (s \o t)[i] = t[i - Len(s)]
      BY <1>1, <3>1
    <3>. QED
      BY <2>1, <3>1, <3>2 DEF Carries
  <2>. QED
    BY <2>1, <2>2, <2>3
<1>3. ASSUME Carries(s, d) PROVE Carries(s \o t, d)
  BY <1>1, <1>3 DEF Carries
<1>4. ASSUME Carries(t, d) PROVE Carries(s \o t, d)
  <2>1. PICK i \in 1 .. Len(t) : d \in t[i].data
    BY <1>4 DEF Carries
  <2>2. Len(s) + i \in 1 .. Len(s \o t) /\ (s \o t)[Len(s) + i] = t[i]
    BY <1>1, <2>1
  <2>. QED
    BY <2>1, <2>2 DEF Carries
<1>. QED
  BY <1>2, <1>3, <1>4

LEMMA AloneCarries ==
  ASSUME NEW type \in {"DeviceInfo", "RebootReason", "FaultRecord", "Heartbeat"},
         NEW data \in SUBSET Datum
  PROVE  /\ Alone(type, data) \in Seq(Chunk)
         /\ \A d : Carries(Alone(type, data), d) <=> d \in data
BY DEF Alone, Chunk, Carries

LEMMA OptionalCarries ==
  ASSUME NEW type \in {"RebootReason", "FaultRecord"}, NEW r \in Record0
  PROVE  /\ OptionalRecord(type, r) \in Seq(Chunk)
         /\ \A d : Carries(OptionalRecord(type, r), d) <=> r # None /\ d = r
<1>1. CASE r = None
  BY <1>1 DEF OptionalRecord, Carries
<1>2. CASE r # None
  <2>1. {r} \in SUBSET Datum
    BY <1>2 DEF Record0
  <2>. QED
    BY <1>2, <2>1, AloneCarries DEF OptionalRecord
<1>. QED
  BY <1>1, <1>2

(* What a session carries is exactly what was pending when it encoded. *)
LEMMA EncodingCarries ==
  ASSUME reason \in Record0, fault \in Record0, NEW part \in Seq(Chunk)
  PROVE  /\ Encoding(part) \in Seq(Chunk)
         /\ \A d : Carries(Encoding(part), d) <=>
                     \/ reason # None /\ d = reason
                     \/ fault # None /\ d = fault
                     \/ Carries(part, d)
<1> DEFINE a == Alone("DeviceInfo", {})
           b == OptionalRecord("RebootReason", reason)
           c == OptionalRecord("FaultRecord", fault)
           h == Alone("Heartbeat", {})
<1>1. a \in Seq(Chunk) /\ \A d : ~Carries(a, d)
  BY AloneCarries
<1>2. h \in Seq(Chunk) /\ \A d : ~Carries(h, d)
  BY AloneCarries
<1>3. b \in Seq(Chunk) /\ \A d : Carries(b, d) <=> reason # None /\ d = reason
  BY OptionalCarries
<1>4. c \in Seq(Chunk) /\ \A d : Carries(c, d) <=> fault # None /\ d = fault
  BY OptionalCarries
<1>5. Encoding(part) = a \o b \o c \o part \o h
  <2>1. TraceChunks = <<>>
    BY DEF TraceChunks, FrameBytes
  <2>2. a \o b \o c \o part \in Seq(Chunk)
    BY <1>1, <1>3, <1>4
  <2>3. a \o b \o c \o part \o <<>> = a \o b \o c \o part
    BY <2>2
  <2>. QED
    BY <2>1, <2>3 DEF Encoding
<1> HIDE DEF a, b, c, h
<1>6. /\ a \o b \in Seq(Chunk)
      /\ a \o b \o c \in Seq(Chunk)
      /\ a \o b \o c \o part \in Seq(Chunk)
      /\ a \o b \o c \o part \o h \in Seq(Chunk)
  BY <1>1, <1>2, <1>3, <1>4
<1>7. ASSUME NEW d
      PROVE  Carries(a \o b \o c \o part \o h, d) <=>
               \/ Carries(a, d) \/ Carries(b, d) \/ Carries(c, d)
               \/ Carries(part, d) \/ Carries(h, d)
  <2>1. Carries(a \o b, d) <=> Carries(a, d) \/ Carries(b, d)
    BY <1>1, <1>3, CarriesConcat
  <2>2. Carries(a \o b \o c, d) <=> Carries(a \o b, d) \/ Carries(c, d)
    BY <1>4, <1>6, CarriesConcat
  <2>3. Carries(a \o b \o c \o part, d) <=>
          Carries(a \o b \o c, d) \/ Carries(part, d)
    BY <1>6, CarriesConcat
  <2>4. Carries(a \o b \o c \o part \o h, d) <=>
          Carries(a \o b \o c \o part, d) \/ Carries(h, d)
    BY <1>2, <1>6, CarriesConcat
  <2>. QED
    BY <2>1, <2>2, <2>3, <2>4
<1>. QED
  BY <1>1, <1>2, <1>3, <1>4, <1>5, <1>6, <1>7

(* However the metrics are cut into chunks, each is in one of them, and    *)
(* nothing else is.                                                        *)
LEMMA MetricChunksCarry ==
  ASSUME metrics \in Seq(Metric), metrics # <<>>,
         NEW cut \in Cuts(Len(metrics))
  PROVE  /\ MetricChunks(cut) \in Seq(Chunk)
         /\ \A i \in DOMAIN metrics : Carries(MetricChunks(cut), metrics[i].value)
         /\ \A d : Carries(MetricChunks(cut), d) => d \in Write
<1> DEFINE n == Len(metrics)
<1>1. n \in Nat \ {0} /\ DOMAIN metrics = 1 .. n
  OBVIOUS
<1>2. /\ cut \in [1 .. n -> 1 .. n]
      /\ \A i, j \in 1 .. n : i <= j => cut[i] <= cut[j]
  BY DEF Cuts
<1>3. cut[n] \in 1 .. n /\ \A i \in 1 .. n : cut[i] \in 1 .. cut[n]
  BY <1>1, <1>2
<1>4. \A i \in 1 .. n : metrics[i].value \in Write
  <2>1. \A i \in 1 .. n : metrics[i] \in Metric
    BY <1>1
  <2>. QED
    BY <2>1 DEF Metric
<1>5. \A k \in 1 .. cut[n] :
        [type |-> "Metrics",
         data |-> {metrics[i].value : i \in {j \in DOMAIN metrics : cut[j] = k}}]
          \in Chunk
  BY <1>1, <1>4 DEF Chunk, Datum
<1>6. MetricChunks(cut) \in [1 .. cut[n] -> Chunk]
  BY <1>5 DEF MetricChunks
<1>7. MetricChunks(cut) \in Seq(Chunk) /\ Len(MetricChunks(cut)) = cut[n]
  BY <1>3, <1>6
<1>8. \A k \in 1 .. cut[n] : MetricChunks(cut)[k].data =
        {metrics[i].value : i \in {j \in DOMAIN metrics : cut[j] = k}}
  BY DEF MetricChunks
<1>9. ASSUME NEW i \in DOMAIN metrics
      PROVE  Carries(MetricChunks(cut), metrics[i].value)
  BY <1>1, <1>3, <1>7, <1>8 DEF Carries
<1>10. ASSUME NEW d, Carries(MetricChunks(cut), d) PROVE d \in Write
  BY <1>1, <1>4, <1>7, <1>8, <1>10 DEF Carries
<1>. QED
  BY <1>7, <1>9, <1>10

-----------------------------------------------------------------------------
(* Type correctness. *)

LEMMA RecordType ==
  ASSUME NEW buf \in Seq(Metric), NEW key \in Keys, NEW w \in Write
  PROVE  Record(buf, key, w, w) \in Seq(Metric)
<1>1. CASE HasKey(buf, key)
  <2> DEFINE i == FindKey(buf, key)
  <2>1. [buf EXCEPT ![i].value = w] \in Seq(Metric)
    <3>1. \A e \in Metric : [e EXCEPT !.value = w] \in Metric
      BY DEF Metric
    <3> HIDE DEF i
    <3>2. buf \in [1 .. Len(buf) -> Metric]
      OBVIOUS
    <3>3. \A j \in 1 .. Len(buf) : [buf[j] EXCEPT !.value = w] \in Metric
      BY <3>1, <3>2
    <3>4. [buf EXCEPT ![i].value = w] \in [1 .. Len(buf) -> Metric]
      BY <3>2, <3>3
    <3>. QED
      BY <3>4
  <2>. QED
    BY <1>1, <2>1 DEF Record
<1>2. CASE ~HasKey(buf, key)
  <2>1. [key |-> key, value |-> w] \in Metric
    BY DEF Metric
  <2>2. (IF Len(buf) < MaxMetrics THEN buf ELSE Tail(buf)) \in Seq(Metric)
    <3>1. CASE Len(buf) < MaxMetrics
      BY <3>1
    <3>2. CASE ~(Len(buf) < MaxMetrics)
      <4>1. buf # <<>>
        BY <3>2, MaxMetricsAssumption
      <4>. QED
        BY <3>2, <4>1
    <3>. QED
      BY <3>1, <3>2
  <2>. QED
    BY <1>2, <2>1, <2>2 DEF Record, PushEvicting
<1>. QED
  BY <1>1, <1>2

LEMMA EncodeFacts ==
  ASSUME TypeOK, Encode
  PROVE  \E part \in Seq(Chunk) :
           /\ chunks' = Encoding(part)
           /\ \A i \in DOMAIN metrics : Carries(part, metrics[i].value)
           /\ \A d : Carries(part, d) => d \in Write
<1>1. CASE metrics = <<>> /\ chunks' = Encoding(<<>>)
  <2>1. <<>> \in Seq(Chunk) /\ \A d : ~Carries(<<>>, d)
    BY DEF Carries
  <2>2. DOMAIN metrics = {}
    BY <1>1
  <2>. QED
    BY <1>1, <2>1, <2>2
<1>2. CASE /\ metrics # <<>>
           /\ \E cut \in Cuts(Len(metrics)) : chunks' = Encoding(MetricChunks(cut))
  <2>1. PICK cut \in Cuts(Len(metrics)) : chunks' = Encoding(MetricChunks(cut))
    BY <1>2
  <2>. QED
    BY <1>2, <2>1, MetricChunksCarry DEF TypeOK
<1>. QED
  BY <1>1, <1>2 DEF Encode

(* Every value of every variable is of its type (all of ferrite-sdk's      *)
(* upload state).                                                          *)
THEOREM TypeCorrect == Spec => []TypeOK
<1>0. <<>> \in Seq(Metric) /\ <<>> \in Seq(Write) /\ <<>> \in Seq(Chunk)
  OBVIOUS
<1>a. LoseRam => /\ up' \in BOOLEAN
                 /\ metrics' \in Seq(Metric)
                 /\ trace' \in Seq(Write)
                 /\ pc' \in Pc
                 /\ chunks' \in Seq(Chunk)
                 /\ next' \in Nat \ {0}
  <2>1. LoseRam => up' \in BOOLEAN
    BY DEF LoseRam
  <2>2. LoseRam => metrics' \in Seq(Metric) /\ trace' \in Seq(Write)
    BY <1>0 DEF LoseRam
  <2>3. LoseRam => chunks' \in Seq(Chunk) /\ next' \in Nat \ {0} /\ pc' \in Pc
    BY <1>0 DEF LoseRam, Pc
  <2>. QED
    BY <2>1, <2>2, <2>3
<1>1. Init => TypeOK
  <2> SUFFICES ASSUME Init PROVE TypeOK
    OBVIOUS
  <2>1. magic \in BOOLEAN /\ up \in BOOLEAN
    BY DEF Init
  <2>2. /\ reason \in Record0 /\ fault \in Record0
        /\ lastReason \in Write \cup {None} /\ lastFault \in Write \cup {None}
    BY DEF Init, Record0, Datum
  <2>3. metrics \in Seq(Metric) /\ trace \in Seq(Write) /\ chunks \in Seq(Chunk)
    BY <1>0 DEF Init
  <2>4. /\ pc \in Pc /\ next \in Nat \ {0} /\ writes \in Nat /\ resets \in Nat
        /\ received \in SUBSET Datum /\ cleared \in SUBSET Datum
    BY DEF Init, Pc
  <2>. QED
    BY <2>1, <2>2, <2>3, <2>4 DEF TypeOK
<1>2. TypeOK /\ [Next]_vars => TypeOK'
  <2> SUFFICES ASSUME TypeOK, [Next]_vars PROVE TypeOK'
    OBVIOUS
  <2> USE DEF TypeOK, retained, sram, session, history, owed
  <2>1. CASE Boot
    BY <2>1 DEF Boot, Record0
  <2>2. ASSUME NEW key \in Keys, RecordMetric(key) PROVE TypeOK'
    <3>1. metrics' = Record(metrics, key, writes', writes')
      BY <2>2 DEF RecordMetric
    <3>2. writes' \in Write
      BY <2>2 DEF RecordMetric, Write
    <3>3. metrics' \in Seq(Metric)
      BY <3>1, <3>2, RecordType
    <3>. QED
      BY <2>2, <3>2, <3>3 DEF RecordMetric, Write
  <2>3. CASE WriteTrace
    <3>1. writes' \in Write
      BY <2>3 DEF WriteTrace, Write
    <3>2. trace' \in Seq(Write)
      <4>1. Len(trace) < MaxFrames \/ trace # <<>>
        BY SdkUploadAssumption
      <4>. QED
        BY <2>3, <3>1, <4>1 DEF WriteTrace
    <3>. QED
      BY <2>3, <3>1, <3>2 DEF WriteTrace, Write
  <2>4. CASE RecordReason
    BY <2>4 DEF RecordReason, Record0, Datum, Write
  <2>5. CASE HardFault
    BY <1>a, <2>5 DEF HardFault, CanReset, Pc, Record0, Datum, Write
  <2>6. CASE Reset
    BY <1>a, <2>6 DEF Reset, CanReset, Pc
  <2>7. CASE PowerLoss
    <3>1. magic' \in BOOLEAN
      BY <2>7 DEF PowerLoss
    <3>2. /\ reason' \in Record0 /\ fault' \in Record0
          /\ lastReason' \in Write \cup {None} /\ lastFault' \in Write \cup {None}
      BY <2>7 DEF PowerLoss, Record0, Datum
    <3>3. writes' \in Nat /\ resets' \in Nat
      BY <2>7 DEF PowerLoss, CanReset
    <3>. QED
      BY <1>a, <2>7, <3>1, <3>2, <3>3 DEF PowerLoss
  <2>8. CASE BeginSession
    BY <2>8 DEF BeginSession, Pc
  <2>9. CASE Encode
    <3>1. PICK part \in Seq(Chunk) : chunks' = Encoding(part)
      BY <2>9, EncodeFacts
    <3>2. chunks' \in Seq(Chunk)
      BY <3>1, EncodingCarries
    <3>. QED
      BY <2>9, <3>2 DEF Encode, Pc
  <2>10. CASE SendOk
    <3>1. chunks[next] \in Chunk
      BY <2>10 DEF SendOk
    <3>2. chunks[next].data \in SUBSET Datum
      BY <3>1 DEF Chunk
    <3>. QED
      BY <2>10, <3>2 DEF SendOk
  <2>11. CASE SendFail
    <3>1. chunks[next] \in Chunk
      BY <2>11 DEF SendFail
    <3>2. chunks[next].data \in SUBSET Datum
      BY <3>1 DEF Chunk
    <3>. QED
      BY <2>11, <3>2 DEF SendFail, Pc
  <2>12. CASE ClearBuffers
    <3>1. \A i \in DOMAIN metrics : metrics[i].value \in Datum
      <4>1. \A i \in DOMAIN metrics : metrics[i] \in Metric
        OBVIOUS
      <4>. QED
        BY <4>1 DEF Metric, Datum
    <3>2. \A i \in DOMAIN trace : trace[i] \in Write
      OBVIOUS
    <3>. QED
      BY <2>12, <3>1, <3>2 DEF ClearBuffers, Pc
  <2>13. CASE ClearReason
    BY <2>13 DEF ClearReason, Pc, Record0
  <2>14. CASE ClearFault
    BY <2>14 DEF ClearFault, Pc, Record0
  <2>15. CASE EndSession
    BY <2>15 DEF EndSession, Pc
  <2>16. CASE UNCHANGED vars
    BY <2>16 DEF vars
  <2>. QED
    BY <2>1, <2>2, <2>3, <2>4, <2>5, <2>6, <2>7, <2>8, <2>9, <2>10, <2>11,
       <2>12, <2>13, <2>14, <2>15, <2>16 DEF Next, Step, Upload
<1>. QED
  BY <1>1, <1>2, PTL DEF Spec

-----------------------------------------------------------------------------
(* The inductive invariants. *)

(* A datum that the next chunk carries is received, any other stays queued. *)
LEMMA SendKeepsQueued ==
  ASSUME TypeOK, SendOk, NEW d, d \in received \/ Queued(d)
  PROVE  (d \in received \/ Queued(d))'
<1>1. /\ received' = received \cup chunks[next].data
      /\ next' = next + 1 /\ chunks' = chunks
  BY DEF SendOk
<1>2. CASE d \in received
  BY <1>1, <1>2
<1>3. CASE Queued(d)
  <2>1. PICK i \in next .. Len(chunks) : d \in chunks[i].data
    BY <1>3 DEF Queued
  <2>2. CASE i = next
    BY <1>1, <2>1, <2>2
  <2>3. CASE i # next
    <3>1. i \in next + 1 .. Len(chunks)
      BY <2>1, <2>3 DEF TypeOK
    <3>2. \E j \in next + 1 .. Len(chunks) : d \in chunks[j].data
      BY <2>1, <3>1
    <3>. QED
      BY <1>1, <3>2 DEF Queued
  <2>. QED
    BY <2>2, <2>3
<1>. QED
  BY <1>2, <1>3

(* Right after encoding, whatever was pending is queued and nothing else.  *)
LEMMA EncodeQueues ==
  ASSUME TypeOK, Encode
  PROVE  /\ fault # None => Queued(fault)'
         /\ reason # None => Queued(reason)'
         /\ \A i \in DOMAIN metrics : (Queued(metrics[i].value))'
         /\ \A i \in DOMAIN chunks' : \A d \in chunks'[i].data :
              d \in Write \/ (d # None /\ d \in {reason, fault})
         /\ UNCHANGED <<fault, reason, metrics>>
<1>1. PICK part \in Seq(Chunk) :
        /\ chunks' = Encoding(part)
        /\ \A i \in DOMAIN metrics : Carries(part, metrics[i].value)
        /\ \A d : Carries(part, d) => d \in Write
  BY EncodeFacts
<1>2. /\ chunks' \in Seq(Chunk)
      /\ \A d : Carries(chunks', d) <=>
                  \/ reason # None /\ d = reason
                  \/ fault # None /\ d = fault
                  \/ Carries(part, d)
  BY <1>1, EncodingCarries DEF TypeOK
<1>3. next' = 1 /\ UNCHANGED <<fault, reason, metrics>>
  BY DEF Encode, retained, sram
<1>4. ASSUME NEW d, Carries(chunks', d) PROVE \E i \in next' .. Len(chunks') : d \in chunks'[i].data
  BY <1>3, <1>4 DEF Carries
<1>5. \A i \in DOMAIN metrics : (Queued(metrics[i].value))'
  BY <1>1, <1>2, <1>3, <1>4 DEF Queued
<1>6. ASSUME NEW i \in DOMAIN chunks', NEW d \in chunks'[i].data
      PROVE  d \in Write \/ (d # None /\ d \in {reason, fault})
  <2>1. Carries(chunks', d)
    BY <1>2, <1>6 DEF Carries
  <2>. QED
    BY <1>1, <1>2, <2>1
<1>. QED
  BY <1>2, <1>3, <1>4, <1>5, <1>6 DEF Queued

LEMMA BootInvariant == Spec => []BootInv
<1>1. Init => BootInv
  BY DEF Init, BootInv
<1>2. BootInv /\ [Next]_vars => BootInv'
  BY DEF BootInv, Next, Step, Upload, vars, retained, sram, session, history, owed,
         Boot, RecordMetric, WriteTrace, RecordReason, HardFault, Reset,
         PowerLoss, LoseRam, BeginSession, Encode, SendOk, SendFail,
         ClearBuffers, ClearReason, ClearFault, EndSession
<1>. QED
  BY <1>1, <1>2, PTL DEF Spec

LEMMA NoiseStep ==
  ASSUME TypeOK, BootInv, NoiseInv, [Next]_vars
  PROVE  NoiseInv'
<1> USE SdkUploadAssumption
    DEF NoiseInv, retained, sram, session, history, owed
<1>1. CASE Encode
  <2>1. magic
    BY <1>1 DEF BootInv, Encode
  <2>2. \A i \in DOMAIN chunks' : Noise \notin chunks'[i].data
    BY <1>1, <2>1, EncodeQueues DEF Write
  <2>. QED
    BY <1>1, <2>2 DEF Encode
<1>2. CASE SendOk
  <2>1. next \in DOMAIN chunks
    BY <1>2 DEF SendOk, TypeOK
  <2>. QED
    BY <1>2, <2>1 DEF SendOk
<1>3. CASE SendFail
  <2>1. next \in DOMAIN chunks
    BY <1>3 DEF SendFail, TypeOK
  <2>. QED
    BY <1>3, <2>1 DEF SendFail
<1>4. ASSUME NEW key \in Keys, RecordMetric(key) PROVE NoiseInv'
  BY <1>4 DEF RecordMetric
<1>5. CASE Boot
  BY <1>5 DEF Boot
<1>6. CASE WriteTrace
  BY <1>6 DEF WriteTrace
<1>7. CASE RecordReason
  BY <1>7 DEF RecordReason, TypeOK
<1>8. CASE HardFault
  BY <1>8 DEF HardFault, LoseRam, TypeOK
<1>9. CASE Reset
  BY <1>9 DEF Reset, LoseRam
<1>10. CASE PowerLoss
  BY <1>10 DEF PowerLoss, LoseRam
<1>11. CASE BeginSession
  BY <1>11 DEF BeginSession
<1>12. CASE ClearBuffers \/ ClearReason \/ ClearFault
  BY <1>12 DEF ClearBuffers, ClearReason, ClearFault
<1>13. CASE EndSession
  BY <1>13 DEF EndSession
<1>14. CASE UNCHANGED vars
  BY <1>14 DEF vars
<1>. QED
  BY <1>1, <1>2, <1>3, <1>4, <1>5, <1>6, <1>7, <1>8, <1>9, <1>10, <1>11, <1>12,
     <1>13, <1>14 DEF Next, Step, Upload

LEMMA FaultStep ==
  ASSUME TypeOK, BootInv, FaultInv, [Next]_vars
  PROVE  FaultInv'
<1> USE DEF FaultInv, FaultKept, retained, sram, session, history, owed
<1>1. CASE Encode
  BY <1>1, EncodeQueues DEF Encode
<1>2. CASE SendOk
  <2>1. fault # None => (fault \in received \/ Queued(fault))'
    <3>1. fault' = fault /\ pc = "sending"
      BY <1>2 DEF SendOk
    <3>. QED
      BY <1>2, <3>1, SendKeepsQueued DEF Queued
  <2>. QED
    BY <1>2, <2>1 DEF SendOk
<1>3. CASE SendFail
  BY <1>3 DEF SendFail
<1>4. ASSUME NEW key \in Keys, RecordMetric(key) PROVE FaultInv'
  BY <1>4 DEF RecordMetric, Queued
<1>5. CASE Boot
  BY <1>5 DEF Boot, BootInv
<1>6. CASE WriteTrace
  BY <1>6 DEF WriteTrace, Queued
<1>7. CASE RecordReason
  BY <1>7 DEF RecordReason, Queued
<1>8. CASE HardFault
  BY <1>8 DEF HardFault, LoseRam
<1>9. CASE Reset
  BY <1>9 DEF Reset, LoseRam
<1>10. CASE PowerLoss
  BY <1>10 DEF PowerLoss, LoseRam
<1>11. CASE BeginSession
  BY <1>11 DEF BeginSession
<1>12. CASE ClearBuffers
  <2>1. ~Queued(fault)
    BY <1>12 DEF ClearBuffers, Queued, TypeOK
  <2>. QED
    BY <1>12, <2>1 DEF ClearBuffers
<1>13. CASE ClearReason
  BY <1>13 DEF ClearReason
<1>14. CASE ClearFault
  BY <1>14 DEF ClearFault
<1>15. CASE EndSession
  BY <1>15 DEF EndSession
<1>16. CASE UNCHANGED vars
  BY <1>16 DEF vars, Queued
<1>. QED
  BY <1>1, <1>2, <1>3, <1>4, <1>5, <1>6, <1>7, <1>8, <1>9, <1>10, <1>11, <1>12,
     <1>13, <1>14, <1>15, <1>16 DEF Next, Step, Upload

(* The critical section of the blocking upload: nothing is recorded        *)
(* between encoding and erasing, so what is erased is what was sent.       *)
LEMMA EraseStep ==
  ASSUME ~async, TypeOK, FaultInv, EraseInv, [Next]_vars
  PROVE  EraseInv'
<1> USE DEF EraseInv, retained, sram, session, history, owed
<1>1. CASE Encode
  BY <1>1, EncodeQueues DEF Encode
<1>2. CASE SendOk
  <2>1. UNCHANGED <<reason, metrics, cleared, pc>> /\ pc = "sending"
    BY <1>2 DEF SendOk
  <2>2. reason # None => (reason \in received \/ Queued(reason))'
    BY <1>2, <2>1, SendKeepsQueued DEF Queued
  <2>3. \A i \in DOMAIN metrics :
          metrics[i].value \in received' \/ (Queued(metrics[i].value))'
    BY <1>2, <2>1, SendKeepsQueued
  <2>4. \A d : (Queued(d))' <=> \E i \in next' .. Len(chunks') : d \in chunks'[i].data
    BY DEF Queued
  <2>5. cleared' \subseteq received'
    BY <1>2 DEF SendOk
  <2>. QED
    BY <2>1, <2>2, <2>3, <2>4, <2>5 DEF Queued
<1>3. CASE SendFail
  BY <1>3 DEF SendFail
<1>4. ASSUME NEW key \in Keys, RecordMetric(key) PROVE EraseInv'
  BY <1>4 DEF RecordMetric, Masked
<1>5. CASE Boot
  BY <1>5 DEF Boot, Queued, BootInv
<1>6. CASE WriteTrace
  BY <1>6 DEF WriteTrace, Masked
<1>7. CASE RecordReason
  BY <1>7 DEF RecordReason, Masked
<1>8. CASE HardFault
  BY <1>8 DEF HardFault, LoseRam
<1>9. CASE Reset
  BY <1>9 DEF Reset, LoseRam
<1>10. CASE PowerLoss
  BY <1>10 DEF PowerLoss, LoseRam
<1>11. CASE BeginSession
  BY <1>11 DEF BeginSession
<1>12. CASE ClearBuffers
  <2>1. \A d : ~Queued(d)
    BY <1>12 DEF ClearBuffers, Queued, TypeOK
  <2>2. \A i \in DOMAIN metrics : metrics[i].value \in received
    BY <1>12, <2>1 DEF ClearBuffers
  <2>3. reason # None => reason \in received
    BY <1>12, <2>1 DEF ClearBuffers
  <2>. QED
    BY <1>12, <2>2, <2>3 DEF ClearBuffers
<1>13. CASE ClearReason
  BY <1>13 DEF ClearReason
<1>14. CASE ClearFault
  BY <1>14 DEF ClearFault, FaultInv
<1>15. CASE EndSession
  BY <1>15 DEF EndSession
<1>16. CASE UNCHANGED vars
  BY <1>16 DEF vars, Queued
<1>. QED
  BY <1>1, <1>2, <1>3, <1>4, <1>5, <1>6, <1>7, <1>8, <1>9, <1>10, <1>11, <1>12,
     <1>13, <1>14, <1>15, <1>16 DEF Next, Step, Upload

LEMMA ReasonKeptStep ==
  ASSUME ~async, TypeOK, BootInv, EraseInv, ReasonKept,
         ~magic => lastReason = None, [Next]_vars
  PROVE  ReasonKept' /\ (~magic' => lastReason' = None)
<1> USE DEF ReasonKept, retained, sram, session, history, owed
<1>1. CASE ClearReason
  BY <1>1 DEF ClearReason, EraseInv
<1>2. CASE Boot
  BY <1>2 DEF Boot
<1>3. CASE RecordReason
  BY <1>3 DEF RecordReason, BootInv
<1>4. CASE HardFault
  BY <1>4 DEF HardFault
<1>5. CASE PowerLoss
  BY <1>5 DEF PowerLoss
<1>6. CASE SendOk \/ SendFail
  BY <1>6 DEF SendOk, SendFail
<1>7. ASSUME UNCHANGED <<magic, reason, lastReason, received>>
      PROVE  ReasonKept' /\ (~magic' => lastReason' = None)
  BY <1>7
<1>8. ASSUME \/ \E key \in Keys : RecordMetric(key)
             \/ WriteTrace \/ Reset \/ BeginSession \/ Encode \/ ClearBuffers
             \/ ClearFault \/ EndSession \/ UNCHANGED vars
      PROVE  UNCHANGED <<magic, reason, lastReason, received>>
  BY <1>8 DEF vars, RecordMetric, WriteTrace, Reset, BeginSession, Encode,
     ClearBuffers, ClearFault, EndSession
<1>. QED
  BY <1>1, <1>2, <1>3, <1>4, <1>5, <1>6, <1>7, <1>8 DEF Next, Step, Upload

-----------------------------------------------------------------------------
(* The results. *)

(* The noise of uninitialised retained RAM never reaches the host          *)
(* (memory.rs begin_boot), in both upload functions.                       *)
THEOREM NoNoiseSentCorrect == Spec => []NoNoiseSent
<1>1. Init => NoiseInv
  BY DEF Init, NoiseInv
<1>2. NoiseInv => NoNoiseSent
  BY DEF NoiseInv, NoNoiseSent
<1>. QED
  BY <1>1, <1>2, NoiseStep, TypeCorrect, BootInvariant, PTL DEF Spec

LEMMA FaultInvariant == Spec => []FaultInv
<1>1. Init => FaultInv
  BY DEF Init, FaultInv, FaultKept
<1>. QED
  BY <1>1, FaultStep, TypeCorrect, BootInvariant, PTL DEF Spec

(* The newest fault record stays in retained RAM until the host has it     *)
(* (fault.rs, upload.rs), in both upload functions.                        *)
THEOREM FaultKeptCorrect == Spec => []FaultKept
<1>1. FaultInv => FaultKept
  BY DEF FaultInv
<1>. QED
  BY <1>1, FaultInvariant, PTL

LEMMA AsyncStays == [Next]_vars => async' = async
<1> QED BY DEF Next, Same, vars

LEMMA EraseInvariant == Spec => [](~async => EraseInv)
<1>1. Init => EraseInv
  BY DEF Init, EraseInv
<1>2. TypeOK /\ FaultInv /\ (~async => EraseInv) /\ [Next]_vars
        => (~async => EraseInv)'
  BY EraseStep, AsyncStays
<1>. QED
  BY <1>1, <1>2, FaultInvariant, TypeCorrect, PTL DEF Spec

(* The blocking upload erases nothing the host does not have (upload.rs,   *)
(* UploadManager::upload).  It is false of upload_async.                   *)
THEOREM BlockingErasesSentCorrect == Spec => []BlockingErasesSent
<1>1. (~async => EraseInv) => BlockingErasesSent
  BY DEF EraseInv, BlockingErasesSent, NothingErasedUnsent
<1>. QED
  BY <1>1, EraseInvariant, PTL

(* With the blocking upload the newest reboot reason stays in retained RAM *)
(* until the host has it (reboot_reason.rs, upload.rs).                    *)
THEOREM ReasonKeptCorrect == Spec => []ReasonKept
<1> DEFINE I == ~async => ReasonKept /\ (~magic => lastReason = None)
<1>1. Init => I
  BY DEF Init, ReasonKept
<1>2. TypeOK /\ BootInv /\ (~async => EraseInv) /\ I /\ [Next]_vars => I'
  BY ReasonKeptStep, AsyncStays
<1>3. I => ReasonKept
  BY DEF ReasonKept
<1>. QED
  BY <1>1, <1>2, <1>3, EraseInvariant, BootInvariant, TypeCorrect, PTL DEF Spec

(* Whatever resets, faults and half-finished uploads follow, the newest    *)
(* fault, and with the blocking upload the newest reboot reason, stay in   *)
(* retained RAM until the host has them.                                   *)
THEOREM RecordsKeptCorrect == Spec => []RecordsKept
<1>1. FaultKept /\ ReasonKept => RecordsKept
  BY DEF RecordsKept
<1>. QED
  BY <1>1, FaultKeptCorrect, ReasonKeptCorrect, PTL

-----------------------------------------------------------------------------
(***************************************************************************)
(* The serial link.                                                        *)
(***************************************************************************)

(* A set of numbers that is not empty has a least one.                     *)
LEMMA LeastOfNat ==
  ASSUME NEW S \in SUBSET Nat, S # {}
  PROVE  \E m \in S : \A n \in S : m <= n
<1> DEFINE R == OpToRel(<, Nat)
<1>1. IsWellFoundedOn(R, Nat)
  BY NatLessThanWellFounded
<1>2. PICK m \in S : \A n \in S : ~ (<<n, m>> \in R)
  <2> HIDE DEF R
  <2> QED BY <1>1, WFMin
<1>3. \A n \in S : ~ (n < m)
  BY <1>2 DEF OpToRel
<1> QED
  BY <1>3

(* Induction downwards, over a set: what holds of a number whenever it     *)
(* holds of all greater ones up to top holds of all of them.               *)
LEMMA DownTo ==
  ASSUME NEW top \in Nat, NEW Good,
         \A i \in 1 .. top : (\A j \in i + 1 .. top : j \in Good) => i \in Good
  PROVE  \A i \in 1 .. top : i \in Good
<1> DEFINE Bad == {m \in Nat : m < top /\ top - m \notin Good}
<1>1. SUFFICES ASSUME Bad # {} PROVE FALSE
  <2>1. SUFFICES ASSUME NEW i \in 1 .. top, Bad = {} PROVE i \in Good
    BY <1>1
  <2>2. top - i \in Nat /\ top - i < top /\ top - (top - i) = i
    OBVIOUS
  <2> QED
    BY <2>1, <2>2
<1>2. PICK m \in Bad : \A n \in Bad : m <= n
  BY <1>1, LeastOfNat
<1>3. \A j \in top - m + 1 .. top : j \in Good
  <2>1. SUFFICES ASSUME NEW j \in top - m + 1 .. top, j \notin Good PROVE FALSE
    OBVIOUS
  <2>2. top - j \in Nat /\ top - j < m /\ top - (top - j) = j
    OBVIOUS
  <2> QED
    BY <2>1, <2>2, <1>2
<1> QED
  BY <1>2, <1>3

-----------------------------------------------------------------------------
(* A byte of the header or of a payload, and a byte as the board sends it. *)
Plain == {<<b>> : b \in Nat}
Byte == Plain \cup {Crc(covered) : covered \in Seq(Plain)}

(* A checksum tells what it covers, and is no other byte.                  *)
LEMMA CrcTells ==
  /\ \A a, b : Crc(a) = Crc(b) => a = b
  /\ \A a : Crc(a) \notin Plain
<1>1. \A a, b : Crc(a) = Crc(b) => a = b
  BY DEF Crc
<1>2. ASSUME NEW a, Crc(a) \in Plain PROVE FALSE
  <2>1. PICK b \in Nat : <<"crc", a>> = <<b>>
    BY <1>2 DEF Crc, Plain
  <2>2. Len(<<"crc", a>>) = 2 /\ Len(<<b>>) = 1
    OBVIOUS
  <2> QED
    BY <2>1, <2>2
<1> QED
  BY <1>1, <1>2

(* A byte read as a length.                                                *)
LEMMA NumberIs ==
  /\ \A b \in Nat : Number(<<b>>) = b
  /\ \A byte \in Byte : Number(byte) \in Nat
<1>1. \A b \in Nat : Number(<<b>>) = b
  BY DEF Number
<1>2. \A a : Number(Crc(a)) = MaxPayload + 1
  BY DEF Number, Crc
<1>3. \A byte \in Plain : Number(byte) \in Nat
  BY <1>1 DEF Plain
<1>4. MaxPayload + 1 \in Nat
  BY MaxPayloadAssumption
<1> QED
  BY <1>1, <1>2, <1>3, <1>4 DEF Byte

(* What the search makes of position i, given what it makes of later ones. *)
Found(bytes, scan, i) ==
  LET n == Len(bytes)
      length == Number(bytes[i + 2])
      last == i + FrameSize(length) - 1
      rest == scan[last + 1]
  IN  IF i > n THEN [frames |-> <<>>, keep |-> n + 1]
      ELSE IF bytes[i] # Magic THEN scan[i + 1]
      ELSE IF n - i + 1 < HeaderSize THEN [frames |-> <<>>, keep |-> i]
      ELSE IF bytes[i + 1] # Version \/ ~Fits(length) THEN scan[i + 1]
      ELSE IF Incomplete(n - i + 1, length)
        THEN [frames |-> <<>>, keep |-> i]
      ELSE IF ~Intact(SubSeq(bytes, i, last))
        THEN scan[AfterBad(i, length)]
      ELSE [frames |-> <<<<i, last>>>> \o rest.frames,
            keep |-> rest.keep]

(* What is found from i on depends only on the search from later places.   *)
LEMMA FoundLater ==
  ASSUME NEW bytes \in Seq(Byte), NEW f, NEW g,
         NEW i \in 1 .. Len(bytes) + MaxFrame,
         \A j \in i + 1 .. Len(bytes) + MaxFrame : f[j] = g[j]
  PROVE  Found(bytes, f, i) = Found(bytes, g, i)
<1> DEFINE n == Len(bytes)
           length == Number(bytes[i + 2])
           last == i + FrameSize(length) - 1
<1>1. CASE i > n
  BY <1>1 DEF Found
<1>2. CASE i <= n
  <2>1. MaxFrame \in Nat /\ MaxFrame >= 4
    BY MaxPayloadAssumption DEF MaxFrame, FrameSize, HeaderSize
  <2>2. f[i + 1] = g[i + 1]
    BY <1>2, <2>1
  <2>3. CASE n - i + 1 < HeaderSize
    BY <1>2, <2>2, <2>3 DEF Found
  <2>4. CASE ~ (n - i + 1 < HeaderSize)
    <3>1. length \in Nat
      BY <1>2, <2>4, NumberIs, ElementOfSeq DEF HeaderSize
    <3>2. CASE Incomplete(n - i + 1, length)
      BY <1>2, <2>2, <2>4, <3>2 DEF Found
    <3>3. CASE ~Incomplete(n - i + 1, length)
      <4>1. f[last + 1] = g[last + 1]
        BY <1>2, <2>1, <3>1, <3>3 DEF Incomplete, FrameSize, HeaderSize
      <4> QED
        BY <1>2, <2>2, <2>4, <3>3, <4>1 DEF Found, AfterBad
    <3> QED
      BY <3>2, <3>3
  <2> QED
    BY <2>3, <2>4
<1> QED
  BY <1>1, <1>2

(* The search exists: there is a function that satisfies its recursion.    *)
(* It is built from the last place down, one place at a time.              *)
LEMMA ScanIs ==
  ASSUME NEW bytes \in Seq(Byte)
  PROVE  \E scan : /\ Scan(bytes) = scan[1]
                   /\ \A i \in 1 .. Len(bytes) + MaxFrame :
                        scan[i] = Found(bytes, scan, i)
<1> DEFINE D == 1 .. Len(bytes) + MaxFrame
           top == Len(bytes) + MaxFrame
           Solves(f, i) == \A j \in i .. top : f[j] = Found(bytes, f, j)
           Good == {i \in 1 .. top + 1 : \E f : DOMAIN f = D /\ f = [k \in D |-> f[k]] /\ Solves(f, i)}
<1>1. top \in Nat /\ top >= 1
  BY MaxPayloadAssumption DEF MaxFrame, FrameSize, HeaderSize
<1>2. ASSUME NEW i \in 1 .. top + 1, \A j \in i + 1 .. top + 1 : j \in Good
      PROVE  i \in Good
  <2>1. CASE i = top + 1
    <3> DEFINE f == [k \in D |-> 0]
    <3>1. DOMAIN f = D /\ f = [k \in D |-> f[k]] /\ Solves(f, i)
      BY <2>1, <1>1
    <3> HIDE DEF f, Solves
    <3> QED
      BY <3>1
  <2>2. CASE i \in 1 .. top
    <3>1. i + 1 \in Good
      BY <1>1, <1>2, <2>2
    <3>2. PICK f : DOMAIN f = D /\ Solves(f, i + 1)
      BY <3>1
    <3> DEFINE g == [k \in D |-> IF k = i THEN Found(bytes, f, i) ELSE f[k]]
    <3>3. \A k \in D : k # i => g[k] = f[k]
      OBVIOUS
    <3>4. g[i] = Found(bytes, f, i)
      BY <2>2
    <3>5. \A j \in i .. top : Found(bytes, g, j) = Found(bytes, f, j)
      <4>1. SUFFICES ASSUME NEW j \in i .. top
                     PROVE  Found(bytes, g, j) = Found(bytes, f, j)
        OBVIOUS
      <4>2. j \in 1 .. Len(bytes) + MaxFrame
        BY <2>2, <1>1
      <4>3. \A k \in j + 1 .. Len(bytes) + MaxFrame : g[k] = f[k]
        BY <3>3, <2>2, <1>1
      <4> HIDE DEF g
      <4> QED
        BY <4>2, <4>3, FoundLater
    <3>6. Solves(g, i)
      <4>1. SUFFICES ASSUME NEW j \in i .. top PROVE g[j] = Found(bytes, g, j)
        OBVIOUS
      <4>2. CASE j = i
        BY <3>4, <3>5, <4>2
      <4>3. CASE j # i
        <5>1. j \in i + 1 .. top /\ j \in D
          BY <4>3, <2>2, <1>1
        <5>2. f[j] = Found(bytes, f, j)
          BY <5>1, <3>2
        <5> HIDE DEF g
        <5> QED
          BY <5>1, <5>2, <3>3, <3>5, <4>3
      <4> QED
        BY <4>2, <4>3
    <3>7. DOMAIN g = D /\ g = [k \in D |-> g[k]]
      OBVIOUS
    <3> HIDE DEF g
    <3> QED
      BY <3>6, <3>7, <2>2, <1>1
  <2> QED
    BY <2>1, <2>2, <1>1
<1>3. 1 \in Good
  <2>1. top + 1 \in Nat /\ 1 \in 1 .. top + 1
    BY <1>1
  <2> HIDE DEF Good
  <2>2. \A i \in 1 .. top + 1 :
          (\A j \in i + 1 .. top + 1 : j \in Good) => i \in Good
    BY <1>2
  <2> HIDE DEF top
  <2> QED
    BY <2>1, <2>2, DownTo
<1>4. PICK f : f = [k \in D |-> f[k]] /\ Solves(f, 1)
  BY <1>3
<1>5. f = [i \in D |-> Found(bytes, f, i)]
  BY <1>4
<1> DEFINE scan == CHOOSE h : h = [i \in D |-> Found(bytes, h, i)]
<1>6. scan = [i \in D |-> Found(bytes, scan, i)]
  <2> HIDE DEF D
  <2> QED
    BY <1>5
<1>7. Scan(bytes) = scan[1]
  BY DEF Scan, Found
<1> HIDE DEF scan
<1> QED
  BY <1>6, <1>7

(* The last position of the frame that the header at i announces. *)
Announced(bytes, i) == i + FrameSize(Number(bytes[i + 2])) - 1

(* The outcomes of a look at place i.                                      *)
LEMMA FoundCases ==
  ASSUME NEW bytes \in Seq(Byte), NEW scan, NEW i \in 1 .. Len(bytes)
  PROVE  \/ /\ Found(bytes, scan, i) = scan[i + 1]
            /\ \/ bytes[i] # Magic
               \/ /\ i + 2 <= Len(bytes)
                  /\ \/ bytes[i + 1] # Version
                     \/ ~Fits(Number(bytes[i + 2]))
                     \/ /\ Announced(bytes, i) <= Len(bytes)
                        /\ ~Intact(SubSeq(bytes, i, Announced(bytes, i)))
         \/ /\ Found(bytes, scan, i) = [frames |-> <<>>, keep |-> i]
            /\ i + 2 <= Len(bytes) => Announced(bytes, i) > Len(bytes)
         \/ /\ i + 2 <= Len(bytes)
            /\ Announced(bytes, i) \in i + 3 .. Len(bytes)
            /\ Intact(SubSeq(bytes, i, Announced(bytes, i)))
            /\ Found(bytes, scan, i)
                 = [frames |-> <<<<i, Announced(bytes, i)>>>>
                                 \o scan[Announced(bytes, i) + 1].frames,
                    keep |-> scan[Announced(bytes, i) + 1].keep]
<1> DEFINE n == Len(bytes)
           length == Number(bytes[i + 2])
           last == i + FrameSize(length) - 1
           rest == scan[last + 1]
<1>1. last = Announced(bytes, i)
  BY DEF Announced
<1>2. CASE n - i + 1 < HeaderSize
  BY <1>2 DEF Found, HeaderSize
<1>3. CASE ~ (n - i + 1 < HeaderSize)
  <2>1. length \in Nat /\ i + 2 <= n
    BY <1>3, NumberIs, ElementOfSeq DEF HeaderSize
  <2>2. CASE \/ bytes[i] # Magic \/ bytes[i + 1] # Version \/ ~Fits(length)
    BY <2>1, <2>2, <1>3 DEF Found
  <2>3. CASE Incomplete(n - i + 1, length)
    <3>1. last > n
      BY <2>1, <2>3 DEF Incomplete, FrameSize, HeaderSize
    <3> QED
      BY <1>1, <1>3, <2>1, <2>2, <2>3, <3>1 DEF Found
  <2>4. CASE /\ bytes[i] = Magic /\ bytes[i + 1] = Version /\ Fits(length)
             /\ ~Incomplete(n - i + 1, length)
    <3>1. last \in i + 3 .. n
      BY <2>1, <2>4 DEF Incomplete, FrameSize, HeaderSize
    <3>2. CASE Intact(SubSeq(bytes, i, last))
      <4>1. Found(bytes, scan, i) = [frames |-> <<<<i, last>>>> \o rest.frames,
                                     keep |-> rest.keep]
        BY <1>3, <2>4, <3>2 DEF Found
      <4> QED
        BY <1>1, <2>1, <3>1, <3>2, <4>1
    <3>3. CASE ~Intact(SubSeq(bytes, i, last))
      <4>1. Found(bytes, scan, i) = scan[i + 1]
        BY <1>3, <2>4, <3>3 DEF Found, AfterBad
      <4>2. Announced(bytes, i) <= n /\ ~Intact(SubSeq(bytes, i, Announced(bytes, i)))
        BY <1>1, <3>1, <3>3
      <4> QED
        BY <2>1, <4>1, <4>2
    <3> QED
      BY <3>2, <3>3
  <2> QED
    BY <2>2, <2>3, <2>4
<1> QED
  BY <1>2, <1>3

(* What a search from position i of n bytes may say: frames that follow    *)
(* each other and whose checksum is right, all before what is kept.        *)
Result(bytes, i, r) ==
  /\ r.frames \in Seq((i .. Len(bytes)) \X (i .. Len(bytes)))
  /\ r.keep \in i .. Len(bytes) + 1
  /\ \A j \in 1 .. Len(r.frames) :
       /\ r.frames[j][1] < r.frames[j][2]
       /\ r.frames[j][2] < r.keep
       /\ Intact(SubSeq(bytes, r.frames[j][1], r.frames[j][2]))
  /\ \A j, l \in 1 .. Len(r.frames) :
       j < l => r.frames[j][2] < r.frames[l][1]

(* A result for the bytes from a place on is one for the bytes from an     *)
(* earlier place on.                                                       *)
LEMMA ResultEarlier ==
  ASSUME NEW bytes \in Seq(Byte), NEW i \in 1 .. Len(bytes), NEW r,
         Result(bytes, i + 1, r)
  PROVE  Result(bytes, i, r)
<1> DEFINE n == Len(bytes)
<1>1. (i + 1 .. n) \X (i + 1 .. n) \subseteq (i .. n) \X (i .. n)
  OBVIOUS
<1>2. r.frames \in Seq((i .. n) \X (i .. n))
  <2> HIDE DEF n
  <2> QED
    BY <1>1, SeqMonotonic DEF Result, n
<1>3. r.keep \in i .. n + 1
  BY DEF Result
<1> QED
  BY <1>2, <1>3 DEF Result

(* An element in front of a sequence.                                      *)
LEMMA InFront ==
  ASSUME NEW S, NEW e \in S, NEW s \in Seq(S)
  PROVE  /\ <<e>> \o s \in Seq(S)
         /\ Len(<<e>> \o s) = 1 + Len(s)
         /\ (<<e>> \o s)[1] = e
         /\ \A j \in 1 .. Len(s) : (<<e>> \o s)[j + 1] = s[j]
<1> DEFINE one == <<e>>
<1>1. one \in Seq(S) /\ Len(one) = 1 /\ one[1] = e
  OBVIOUS
<1> HIDE DEF one
<1>2. /\ one \o s \in Seq(S) /\ Len(one \o s) = 1 + Len(s)
      /\ \A j \in 1 .. Len(one \o s) :
           (one \o s)[j] = IF j <= 1 THEN one[j] ELSE s[j - 1]
  <2>1. one \o s \in Seq(S)
    BY <1>1, ConcatProperties
  <2>2. Len(one \o s) = Len(one) + Len(s)
    BY <1>1, ConcatProperties
  <2>3. \A j \in 1 .. Len(one) + Len(s) :
          (one \o s)[j] = IF j <= Len(one) THEN one[j] ELSE s[j - Len(one)]
    BY <1>1, ConcatProperties
  <2> QED
    BY <1>1, <2>1, <2>2, <2>3
<1>3. Len(s) \in Nat
  OBVIOUS
<1>4. \A j \in 1 .. Len(s) : (one \o s)[j + 1] = s[j]
  BY <1>2, <1>3
<1> QED
  BY <1>1, <1>2, <1>3, <1>4 DEF one

(* A result with one frame more in front of it.                            *)
LEMMA ResultWith ==
  ASSUME NEW bytes \in Seq(Byte), NEW i \in 1 .. Len(bytes),
         NEW last \in i + 3 .. Len(bytes), NEW r,
         Intact(SubSeq(bytes, i, last)),
         Result(bytes, last + 1, r)
  PROVE  Result(bytes, i, [frames |-> <<<<i, last>>>> \o r.frames,
                           keep |-> r.keep])
<1> DEFINE n == Len(bytes)
           Span == (i .. n) \X (i .. n)
           F == <<<<i, last>>>> \o r.frames
<1>1. r.frames \in Seq(Span)
  <2>1. (last + 1 .. n) \X (last + 1 .. n) \subseteq Span
    OBVIOUS
  <2> HIDE DEF n, Span
  <2> QED
    BY <2>1, SeqMonotonic DEF Result, n
<1>2. <<i, last>> \in Span
  OBVIOUS
<1>3. /\ F \in Seq(Span) /\ Len(F) = 1 + Len(r.frames)
      /\ F[1] = <<i, last>>
      /\ \A j \in 1 .. Len(r.frames) : F[j + 1] = r.frames[j]
  <2> HIDE DEF Span
  <2> QED
    BY <1>1, <1>2, InFront
<1>4. Len(r.frames) \in Nat
  BY <1>1
<1>5. \A j \in 2 .. Len(F) : F[j] = r.frames[j - 1] /\ j - 1 \in 1 .. Len(r.frames)
  <2> HIDE DEF F, Span
  <2>1. SUFFICES ASSUME NEW j \in 2 .. Len(F)
                 PROVE  F[j] = r.frames[j - 1] /\ j - 1 \in 1 .. Len(r.frames)
    OBVIOUS
  <2>2. j - 1 \in 1 .. Len(r.frames) /\ (j - 1) + 1 = j
    BY <1>3, <1>4
  <2> QED
    BY <2>2, <1>3
<1>6. \A j \in 1 .. Len(r.frames) :
        r.frames[j][1] \in last + 1 .. n /\ r.frames[j][2] \in last + 1 .. n
  BY ElementOfSeq DEF Result
<1> HIDE DEF F
<1>8. ASSUME NEW j \in 1 .. Len(F)
      PROVE  /\ F[j][1] < F[j][2]
             /\ F[j][2] < r.keep
             /\ Intact(SubSeq(bytes, F[j][1], F[j][2]))
  <2>1. CASE j = 1
    BY <2>1, <1>3 DEF Result
  <2>2. CASE j \in 2 .. Len(F)
    BY <2>2, <1>5 DEF Result
  <2> QED
    BY <2>1, <2>2, <1>3, <1>4
<1>9. ASSUME NEW j \in 1 .. Len(F), NEW l \in 1 .. Len(F), j < l
      PROVE  F[j][2] < F[l][1]
  <2>1. l \in 2 .. Len(F)
    BY <1>9, <1>3, <1>4
  <2>2. CASE j = 1
    <3>1. F[j][2] = last
      BY <2>2, <1>3
    <3>2. F[l][1] \in last + 1 .. n
      BY <2>1, <1>5, <1>6
    <3> QED
      BY <3>1, <3>2
  <2>3. CASE j \in 2 .. Len(F)
    <3>1. j - 1 < l - 1
      BY <1>9, <1>3, <1>4
    <3>2. /\ j - 1 \in 1 .. Len(r.frames) /\ l - 1 \in 1 .. Len(r.frames)
          /\ F[j] = r.frames[j - 1] /\ F[l] = r.frames[l - 1]
      BY <2>1, <2>3, <1>5
    <3>3. r.frames[j - 1][2] < r.frames[l - 1][1]
      BY <3>1, <3>2 DEF Result
    <3> QED
      BY <3>2, <3>3
  <2> QED
    BY <2>2, <2>3, <1>3, <1>4
<1>10. r.keep \in i .. n + 1
  BY DEF Result
<1> QED
  BY <1>3, <1>8, <1>9, <1>10, F = F DEF Result, F

(* What the search gives is a result, from every place on.                 *)
LEMMA ScanResult ==
  ASSUME NEW bytes \in Seq(Byte), NEW scan,
         \A i \in 1 .. Len(bytes) + MaxFrame : scan[i] = Found(bytes, scan, i)
  PROVE  \A i \in 1 .. Len(bytes) + 1 : Result(bytes, i, scan[i])
<1> DEFINE n == Len(bytes)
           Good == {i \in 1 .. n + 1 : Result(bytes, i, scan[i])}
<1>1. n \in Nat /\ MaxFrame \in Nat /\ MaxFrame >= 1
  BY MaxPayloadAssumption DEF MaxFrame, FrameSize, HeaderSize
<1>2. ASSUME NEW i \in 1 .. n + 1, \A j \in i + 1 .. n + 1 : j \in Good
      PROVE  i \in Good
  <2>1. scan[i] = Found(bytes, scan, i)
    BY <1>1
  <2>2. CASE i = n + 1
    <3>1. scan[i] = [frames |-> <<>>, keep |-> n + 1]
      BY <2>1, <2>2 DEF Found
    <3>2. Result(bytes, i, [frames |-> <<>>, keep |-> n + 1])
      BY <2>2, <1>1 DEF Result
    <3> QED
      BY <3>1, <3>2
  <2>3. CASE i \in 1 .. n
    <3>1. i + 1 \in Good
      BY <1>1, <1>2, <2>3
    <3>2. CASE Found(bytes, scan, i) = scan[i + 1]
      BY <2>1, <2>3, <3>1, <3>2, ResultEarlier
    <3>3. CASE Found(bytes, scan, i) = [frames |-> <<>>, keep |-> i]
      <4>1. Result(bytes, i, [frames |-> <<>>, keep |-> i])
        BY <2>3, <1>1 DEF Result
      <4> QED
        BY <2>1, <3>3, <4>1
    <3>4. CASE /\ Announced(bytes, i) \in i + 3 .. n
               /\ Intact(SubSeq(bytes, i, Announced(bytes, i)))
               /\ Found(bytes, scan, i)
                    = [frames |-> <<<<i, Announced(bytes, i)>>>>
                                    \o scan[Announced(bytes, i) + 1].frames,
                       keep |-> scan[Announced(bytes, i) + 1].keep]
      <4> DEFINE last == Announced(bytes, i)
      <4>1. last + 1 \in i + 1 .. n + 1
        BY <2>3, <3>4
      <4>2. Result(bytes, last + 1, scan[last + 1])
        BY <4>1, <1>2
      <4> HIDE DEF last
      <4>3. Result(bytes, i, [frames |-> <<<<i, last>>>> \o scan[last + 1].frames,
                              keep |-> scan[last + 1].keep])
        BY <2>3, <3>4, <4>2, ResultWith DEF last
      <4> QED
        BY <2>1, <3>4, <4>3 DEF last
    <3> QED
      BY <2>3, <3>2, <3>3, <3>4, FoundCases
  <2> QED
    BY <2>2, <2>3, <1>1
<1> HIDE DEF Good
<1>3. \A i \in 1 .. n + 1 : i \in Good
  <2>1. n + 1 \in Nat
    BY <1>1
  <2> HIDE DEF n
  <2> QED
    BY <2>1, <1>2, DownTo
<1> QED
  BY <1>3 DEF Good
-----------------------------------------------------------------------------
(* A payload the encoder takes. *)
Payload == {p \in Seq(Plain) : Len(p) <= MaxPayload}

(* The bytes of a frame.                                                   *)
LEMMA FrameIs ==
  ASSUME NEW payload \in Payload
  PROVE  /\ Frame(payload) \in Seq(Byte)
         /\ Len(Frame(payload)) = FrameSize(Len(payload))
         /\ FrameSize(Len(payload)) \in Nat
         /\ FrameSize(Len(payload)) >= 4
         /\ Frame(payload)[1] = Magic
         /\ Frame(payload)[2] = Version
         /\ Frame(payload)[3] = <<Len(payload)>>
         /\ \A x \in 1 .. FrameSize(Len(payload)) - 1 :
              Frame(payload)[x] \in Plain
         /\ SubSeq(Frame(payload), 1, FrameSize(Len(payload)) - 1) \in Seq(Plain)
         /\ Frame(payload)[FrameSize(Len(payload))]
              = Crc(SubSeq(Frame(payload), 1, FrameSize(Len(payload)) - 1))
<1> DEFINE header == <<Magic, Version, <<Len(payload)>>>>
           covered == header \o payload
           n == FrameSize(Len(payload))
<1>1. payload \in Seq(Plain) /\ Len(payload) \in Nat
  BY DEF Payload
<1>2. header \in Seq(Plain) /\ Len(header) = 3
  <2>1. Magic \in Plain /\ Version \in Plain /\ <<Len(payload)>> \in Plain
    BY <1>1 DEF Magic, Version, Plain
  <2> QED
    BY <2>1 DEF header
<1>3. n = 4 + Len(payload) /\ n \in Nat
  BY <1>1 DEF FrameSize, HeaderSize
<1> HIDE DEF header
<1>4. /\ covered \in Seq(Plain) /\ Len(covered) = n - 1
      /\ \A x \in 1 .. 3 : covered[x] = header[x]
  <2>1. /\ covered \in Seq(Plain)
        /\ Len(covered) = Len(header) + Len(payload)
        /\ \A x \in 1 .. Len(covered) :
             x <= Len(header) => covered[x] = header[x]
    <3> HIDE DEF n
    <3> QED
      BY <1>1, <1>2, ConcatProperties
  <2> HIDE DEF n, covered
  <2> QED
    BY <1>1, <1>2, <1>3, <2>1
<1>5. covered[1] = Magic /\ covered[2] = Version /\ covered[3] = <<Len(payload)>>
  <2>1. header[1] = Magic /\ header[2] = Version /\ header[3] = <<Len(payload)>>
    BY DEF header
  <2> HIDE DEF covered
  <2> QED
    BY <1>4, <2>1
<1>6. Frame(payload) = Append(covered, Crc(covered))
  BY DEF Frame, header
<1> HIDE DEF covered, n
<1>7. covered \in Seq(Byte) /\ Crc(covered) \in Byte
  <2>1. Plain \subseteq Byte
    BY DEF Byte
  <2>2. covered \in Seq(Byte)
    BY <2>1, <1>4, SeqMonotonic
  <2> QED
    BY <2>2, <1>4 DEF Byte
<1> HIDE DEF Byte
<1>8. /\ Frame(payload) \in Seq(Byte) /\ Len(Frame(payload)) = n
      /\ Frame(payload)[n] = Crc(covered)
      /\ \A x \in 1 .. n - 1 : Frame(payload)[x] = covered[x]
  BY <1>3, <1>4, <1>6, <1>7, AppendProperties
<1>9. SubSeq(Frame(payload), 1, n - 1) = covered
  <2>1. SubSeq(Frame(payload), 1, n - 1) \in Seq(Byte)
        /\ Len(SubSeq(Frame(payload), 1, n - 1)) = n - 1
    BY <1>3, <1>8, <1>1
  <2>2. \A x \in 1 .. n - 1 :
          SubSeq(Frame(payload), 1, n - 1)[x] = Frame(payload)[x]
    BY <1>3, <1>8, <1>1
  <2> QED
    BY <2>1, <2>2, <1>4, <1>7, <1>8, SeqEqual
<1>10. \A x \in 1 .. n - 1 : Frame(payload)[x] \in Plain
  BY <1>4, <1>8, ElementOfSeq
<1>11. /\ 1 \in 1 .. n - 1 /\ 2 \in 1 .. n - 1 /\ 3 \in 1 .. n - 1
       /\ n >= 4
  BY <1>1, <1>3
<1>12. /\ Frame(payload)[1] = Magic /\ Frame(payload)[2] = Version
       /\ Frame(payload)[3] = <<Len(payload)>>
  BY <1>5, <1>8, <1>11
<1>13. n = FrameSize(Len(payload))
  BY DEF n
<1> QED
  BY <1>3, <1>4, <1>8, <1>9, <1>10, <1>11, <1>12, <1>13

(* The payload's frame begins at p, as far as the bytes go. *)
Stands(bytes, p, payload) ==
  \A x \in 1 .. FrameSize(Len(payload)) :
    p + x - 1 <= Len(bytes) => bytes[p + x - 1] = Frame(payload)[x]

(* Where a frame that begins at p ends.                                    *)
EndOf(p, payload) == p + FrameSize(Len(payload)) - 1

(* What a look finds at the place where a chunk stands.                    *)
LEMMA StandsRead ==
  ASSUME NEW bytes \in Seq(Byte), NEW payload \in Payload,
         NEW p \in 1 .. Len(bytes), Stands(bytes, p, payload)
  PROVE  /\ bytes[p] = Magic
         /\ p + 2 <= Len(bytes) =>
              /\ bytes[p + 1] = Version
              /\ Number(bytes[p + 2]) = Len(payload)
              /\ Fits(Number(bytes[p + 2]))
              /\ Announced(bytes, p) = EndOf(p, payload)
         /\ EndOf(p, payload) <= Len(bytes) =>
              /\ p + 2 <= Len(bytes)
              /\ Intact(SubSeq(bytes, p, EndOf(p, payload)))
<1> DEFINE n == Len(bytes)
           size == FrameSize(Len(payload))
           F == Frame(payload)
<1>1. size \in Nat /\ size >= 4 /\ n \in Nat /\ Len(payload) \in Nat
      /\ Len(payload) <= MaxPayload
  BY FrameIs DEF Payload
<1>2. F[1] = Magic /\ F[2] = Version /\ F[3] = <<Len(payload)>>
  BY FrameIs
<1>3. \A x \in 1 .. size : p + x - 1 <= n => bytes[p + x - 1] = F[x]
  BY DEF Stands
<1>4. EndOf(p, payload) = p + size - 1
  BY DEF EndOf
<1>5. bytes[p] = Magic
  <2>1. 1 \in 1 .. size /\ p + 1 - 1 = p
    BY <1>1
  <2> HIDE DEF size, F
  <2> QED
    BY <1>2, <1>3, <2>1
<1>6. ASSUME p + 2 <= n
      PROVE  bytes[p + 1] = Version /\ bytes[p + 2] = <<Len(payload)>>
  <2>1. /\ 2 \in 1 .. size /\ 3 \in 1 .. size
        /\ p + 2 - 1 = p + 1 /\ p + 3 - 1 = p + 2 /\ p + 1 <= n
    BY <1>1, <1>6
  <2>2. bytes[p + 2 - 1] = F[2] /\ bytes[p + 3 - 1] = F[3]
    <3> HIDE DEF size, F
    <3> QED
      BY <1>3, <1>6, <2>1
  <2> QED
    BY <1>2, <2>1, <2>2
<1>7. p + 2 <= n => Number(bytes[p + 2]) = Len(payload)
  BY <1>1, <1>6, NumberIs
<1>8. p + 2 <= n => Announced(bytes, p) = EndOf(p, payload)
  BY <1>7 DEF Announced, EndOf
<1>9. ASSUME EndOf(p, payload) <= n
      PROVE  p + 2 <= n /\ Intact(SubSeq(bytes, p, EndOf(p, payload)))
  <2> DEFINE s == SubSeq(bytes, p, p + size - 1)
  <2>1. s \in Seq(Byte) /\ Len(s) = size
    BY <1>1, <1>4, <1>9
  <2>2. \A x \in 1 .. size : s[x] = bytes[p + x - 1]
    BY <1>1, <1>4, <1>9
  <2>3. \A x \in 1 .. size : s[x] = F[x]
    <3> HIDE DEF s, F, size
    <3> QED
      BY <2>2, <1>1, <1>3, <1>4, <1>9
  <2>4. s = F
    <3>1. F \in Seq(Byte) /\ Len(F) = size
      BY FrameIs
    <3> HIDE DEF s, F, size, Byte
    <3> QED
      BY <2>1, <2>3, <3>1, SeqEqual
  <2>5. F[Len(F)] = Crc(SubSeq(F, 1, Len(F) - 1))
    BY FrameIs
  <2>6. Intact(s)
    BY <2>4, <2>5 DEF Intact
  <2> QED
    BY <2>6, <1>1, <1>4, <1>9
<1> QED
  BY <1>1, <1>5, <1>6, <1>7, <1>8, <1>9 DEF Fits

(* Bytes whose checksum is right end in a checksum and have none inside.   *)
LEMMA IntactEnds ==
  ASSUME NEW bytes \in Seq(Byte), NEW i \in 1 .. Len(bytes),
         NEW last \in i + 1 .. Len(bytes), Intact(SubSeq(bytes, i, last))
  PROVE  /\ SubSeq(bytes, i, last - 1) \in Seq(Plain)
         /\ bytes[last] = Crc(SubSeq(bytes, i, last - 1))
         /\ \A x \in i .. last - 1 : bytes[x] \in Plain
<1> DEFINE s == SubSeq(bytes, i, last)
           c == SubSeq(bytes, i, last - 1)
           m == last - i + 1
<1>1. s \in Seq(Byte) /\ Len(s) = m /\ m \in Nat /\ m >= 2
  OBVIOUS
<1>2. \A x \in 1 .. m : s[x] = bytes[i + x - 1]
  OBVIOUS
<1>3. c \in Seq(Byte) /\ Len(c) = m - 1
  OBVIOUS
<1>4. \A x \in 1 .. m - 1 : c[x] = bytes[i + x - 1]
  OBVIOUS
<1>5. SubSeq(s, 1, m - 1) = c
  <2>1. SubSeq(s, 1, m - 1) \in Seq(Byte) /\ Len(SubSeq(s, 1, m - 1)) = m - 1
    <3> HIDE DEF s, m
    <3> QED
      BY <1>1
  <2>2. \A x \in 1 .. m - 1 : SubSeq(s, 1, m - 1)[x] = s[x]
    <3> HIDE DEF s, m
    <3> QED
      BY <1>1
  <2>3. \A x \in 1 .. m - 1 : s[x] = c[x]
    <3> HIDE DEF s, c
    <3> QED
      BY <1>1, <1>2, <1>4
  <2> HIDE DEF s, c, m, Byte
  <2> QED
    BY <2>1, <2>2, <2>3, <1>3, SeqEqual
<1>6. s[m] = Crc(c)
  <2>1. s[Len(s)] = Crc(SubSeq(s, 1, Len(s) - 1))
    BY DEF Intact
  <2> HIDE DEF s, c, m
  <2> QED
    BY <2>1, <1>1, <1>5
<1>7. bytes[last] = Crc(c)
  <2>1. m \in 1 .. m /\ i + m - 1 = last
    OBVIOUS
  <2>2. s[m] = bytes[i + m - 1]
    <3> HIDE DEF s, m
    <3> QED
      BY <1>2, <2>1
  <2> HIDE DEF s, c, m
  <2> QED
    BY <1>6, <2>1, <2>2
<1>8. c \in Seq(Plain)
  <2>1. bytes[last] \in Byte
    BY ElementOfSeq
  <2>2. Crc(c) \notin Plain
    BY CrcTells
  <2>3. PICK d \in Seq(Plain) : Crc(c) = Crc(d)
    <3> HIDE DEF c
    <3> QED
      BY <1>7, <2>1, <2>2 DEF Byte
  <2> HIDE DEF c
  <2> QED
    BY <2>3, CrcTells
<1>9. ASSUME NEW x \in i .. last - 1 PROVE bytes[x] \in Plain
  <2>1. x - i + 1 \in 1 .. m - 1 /\ i + (x - i + 1) - 1 = x
    OBVIOUS
  <2>2. c[x - i + 1] = bytes[x]
    BY <2>1, <1>4
  <2>3. c[x - i + 1] \in Plain
    <3> HIDE DEF c, m
    <3> QED
      BY <2>1, <1>3, <1>8, ElementOfSeq
  <2> QED
    BY <2>2, <2>3
<1> QED
  BY <1>7, <1>8, <1>9

(* So such bytes do not reach into a frame that begins after them.         *)
LEMMA NoOverlap ==
  ASSUME NEW bytes \in Seq(Byte), NEW payload \in Payload,
         NEW p \in 1 .. Len(bytes), Stands(bytes, p, payload),
         NEW i \in 1 .. p - 1, NEW last \in i + 1 .. Len(bytes),
         Intact(SubSeq(bytes, i, last))
  PROVE  last < p
<1> DEFINE size == FrameSize(Len(payload))
           F == Frame(payload)
           q == p + size - 1
<1>1. SUFFICES ASSUME last >= p PROVE FALSE
  OBVIOUS
<1>2. /\ bytes[last] = Crc(SubSeq(bytes, i, last - 1))
      /\ \A x \in i .. last - 1 : bytes[x] \in Plain
  BY IntactEnds
<1>3. size \in Nat /\ size >= 4
  BY FrameIs
<1>4. F[size] = Crc(SubSeq(F, 1, size - 1))
  BY FrameIs
<1>5. \A x \in 1 .. size - 1 : F[x] \in Plain
  BY FrameIs
<1>6. \A x \in 1 .. size : p + x - 1 <= Len(bytes) => bytes[p + x - 1] = F[x]
  BY DEF Stands
<1> HIDE DEF size, F
<1>7. CASE last < q
  <2>1. last - p + 1 \in 1 .. size - 1 /\ p + (last - p + 1) - 1 = last
    BY <1>1, <1>3, <1>7
  <2>2. bytes[last] = F[last - p + 1]
    BY <2>1, <1>3, <1>6
  <2> QED
    BY <2>1, <2>2, <1>2, <1>5, CrcTells
<1>8. CASE last >= q
  <2>1. bytes[q] = F[size]
    BY <1>3, <1>6, <1>8
  <2>2. CASE last = q
    <3>1. SubSeq(bytes, i, last - 1) = SubSeq(F, 1, size - 1)
      BY <2>1, <2>2, <1>2, <1>4, CrcTells
    <3>2. Len(SubSeq(bytes, i, last - 1)) = last - i
      BY <1>1
    <3>3. Len(SubSeq(F, 1, size - 1)) = size - 1
      <4>1. F \in Seq(Byte) /\ Len(F) = size
        BY FrameIs DEF F, size
      <4> HIDE DEF Byte
      <4> QED
        BY <4>1, <1>3
    <3> QED
      BY <3>1, <3>2, <3>3, <2>2, <1>3
  <2>3. CASE last > q
    <3>1. q \in i .. last - 1
      BY <2>3, <1>3
    <3> QED
      BY <3>1, <2>1, <1>2, <1>4, CrcTells
  <2> QED
    BY <2>2, <2>3, <1>8, <1>3
<1> QED
  BY <1>7, <1>8, <1>3

(* Whatever precedes it, a frame is found, or its bytes are kept.          *)
LEMMA ScanFinds ==
  ASSUME NEW bytes \in Seq(Byte), NEW scan,
         \A i \in 1 .. Len(bytes) + MaxFrame : scan[i] = Found(bytes, scan, i),
         NEW payload \in Payload,
         NEW p \in 1 .. Len(bytes), Stands(bytes, p, payload)
  PROVE  \/ scan[1].keep <= p
         \/ \E j \in 1 .. Len(scan[1].frames) :
              scan[1].frames[j] = <<p, EndOf(p, payload)>>
<1> DEFINE n == Len(bytes)
           Met(r) == \/ r.keep <= p
                     \/ \E j \in 1 .. Len(r.frames) :
                          r.frames[j] = <<p, EndOf(p, payload)>>
           Good == {i \in 1 .. p : Met(scan[i])}
<1>1. n \in Nat /\ MaxFrame \in Nat /\ MaxFrame >= 1
  BY MaxPayloadAssumption DEF MaxFrame, FrameSize, HeaderSize
<1>2. ASSUME NEW i \in 1 .. p, \A j \in i + 1 .. p : j \in Good
      PROVE  i \in Good
  <2> DEFINE last == Announced(bytes, i)
  <2>1. scan[i] = Found(bytes, scan, i) /\ i \in 1 .. n
    BY <1>1
  <2>2. CASE /\ Found(bytes, scan, i) = scan[i + 1]
             /\ \/ bytes[i] # Magic
                \/ /\ i + 2 <= n
                   /\ \/ bytes[i + 1] # Version
                      \/ ~Fits(Number(bytes[i + 2]))
                      \/ /\ last <= n
                         /\ ~Intact(SubSeq(bytes, i, last))
    <3>1. i # p
      <4>1. SUFFICES ASSUME i = p PROVE FALSE
        OBVIOUS
      <4>2. last = EndOf(p, payload) /\ i + 2 <= n
        BY <2>2, <4>1, StandsRead
      <4> HIDE DEF last
      <4> QED
        BY <2>2, <4>1, <4>2, StandsRead
    <3>2. i + 1 \in Good
      <4>1. i + 1 \in i + 1 .. p
        BY <3>1
      <4> HIDE DEF Good
      <4> QED
        BY <4>1, <1>2
    <3> QED
      BY <2>1, <2>2, <3>2
  <2>3. CASE Found(bytes, scan, i) = [frames |-> <<>>, keep |-> i]
    BY <2>1, <2>3
  <2>4. CASE /\ i + 2 <= n
             /\ last \in i + 3 .. n
             /\ Intact(SubSeq(bytes, i, last))
             /\ Found(bytes, scan, i)
                  = [frames |-> <<<<i, last>>>> \o scan[last + 1].frames,
                     keep |-> scan[last + 1].keep]
    <3> DEFINE rest == scan[last + 1]
               G == <<<<i, last>>>> \o rest.frames
    <3>1. Result(bytes, last + 1, rest)
      <4>1. last + 1 \in 1 .. n + 1
        BY <2>1, <2>4, <1>1
      <4> HIDE DEF last, n
      <4> QED
        BY <4>1, ScanResult DEF n
    <3>2. rest.frames \in Seq(Nat \X Nat)
      <4>1. (last + 1 .. n) \X (last + 1 .. n) \subseteq Nat \X Nat
        BY <2>1, <2>4
      <4> HIDE DEF last, n, rest
      <4> QED
        BY <3>1, <4>1, SeqMonotonic DEF Result, n
    <3>3. /\ Len(G) = 1 + Len(rest.frames) /\ Len(rest.frames) \in Nat
          /\ G[1] = <<i, last>>
          /\ \A j \in 1 .. Len(rest.frames) : G[j + 1] = rest.frames[j]
      <4> DEFINE e == <<i, last>>
                 R == rest.frames
      <4>1. e \in Nat \X Nat
        BY <2>1, <2>4
      <4>2. R \in Seq(Nat \X Nat)
        BY <3>2
      <4>3. Len(R) \in Nat
        BY <4>2
      <4> DEFINE P == Nat \X Nat
      <4>4. e \in P /\ R \in Seq(P)
        BY <4>1, <4>2
      <4> HIDE DEF e, R, P
      <4>5. /\ Len(<<e>> \o R) = 1 + Len(R)
            /\ (<<e>> \o R)[1] = e
            /\ \A j \in 1 .. Len(R) : (<<e>> \o R)[j + 1] = R[j]
        BY <4>4, InFront
      <4> QED
        BY <4>3, <4>5 DEF e, R
    <3>4. scan[i] = [frames |-> G, keep |-> rest.keep]
      BY <2>1, <2>4
    <3> HIDE DEF G
    <3>5. CASE i = p
      <4>1. last = EndOf(p, payload)
        BY <2>4, <3>5, StandsRead
      <4>2. 1 \in 1 .. Len(G)
        BY <3>3
      <4> QED
        BY <3>3, <3>4, <3>5, <4>1, <4>2
    <3>6. CASE i < p
      <4>1. last < p
        <5>1. i \in 1 .. p - 1 /\ last \in i + 1 .. Len(bytes)
          BY <3>6, <2>4
        <5> HIDE DEF last
        <5> QED
          BY <5>1, <2>4, NoOverlap
      <4>2. Met(rest)
        <5>1. last + 1 \in i + 1 .. p
          BY <4>1, <2>4, <2>1
        <5> QED
          BY <5>1, <1>2
      <4>3. CASE rest.keep <= p
        BY <4>3, <3>4
      <4>4. CASE \E j \in 1 .. Len(rest.frames) :
                   rest.frames[j] = <<p, EndOf(p, payload)>>
        <5> DEFINE R == rest.frames  span == <<p, EndOf(p, payload)>>
        <5>1. PICK j \in 1 .. Len(R) : R[j] = span
          BY <4>4
        <5>2. /\ Len(G) = 1 + Len(R) /\ Len(R) \in Nat
              /\ \A x \in 1 .. Len(R) : G[x + 1] = R[x]
          BY <3>3
        <5> HIDE DEF R, span
        <5>3. G[j + 1] = span
          BY <5>1, <5>2
        <5>4. j + 1 \in 1 .. Len(G)
          BY <5>1, <5>2
        <5> QED
          BY <5>3, <5>4, <3>4 DEF span
      <4> QED
        BY <4>2, <4>3, <4>4
    <3> QED
      BY <3>5, <3>6
  <2> QED
    <3> HIDE DEF Good
    <3> QED
      BY <2>1, <2>2, <2>3, <2>4, FoundCases
<1>3. \A i \in 1 .. p : i \in Good
  <2> HIDE DEF Good
  <2> QED
    BY <1>2, DownTo
<1>4. 1 \in Good
  <2> HIDE DEF Good
  <2> QED
    BY <1>3
<1> QED
  BY <1>4

(* A chunk that stands in the bytes is handed out or kept.                 *)
LEMMA ScanTells ==
  ASSUME NEW bytes \in Seq(Byte)
  PROVE  /\ Result(bytes, 1, Scan(bytes))
         /\ \A payload \in Payload, p \in 1 .. Len(bytes) :
              Stands(bytes, p, payload) =>
                \/ Scan(bytes).keep <= p
                \/ \E j \in 1 .. Len(Scan(bytes).frames) :
                     Scan(bytes).frames[j] = <<p, EndOf(p, payload)>>
<1>1. PICK scan : /\ Scan(bytes) = scan[1]
                  /\ \A i \in 1 .. Len(bytes) + MaxFrame :
                       scan[i] = Found(bytes, scan, i)
  BY ScanIs
<1>2. 1 \in 1 .. Len(bytes) + 1
  OBVIOUS
<1>3. Result(bytes, 1, Scan(bytes))
  BY <1>1, <1>2, ScanResult
<1>4. ASSUME NEW payload \in Payload, NEW p \in 1 .. Len(bytes),
             Stands(bytes, p, payload)
      PROVE  \/ scan[1].keep <= p
             \/ \E j \in 1 .. Len(scan[1].frames) :
                  scan[1].frames[j] = <<p, EndOf(p, payload)>>
  <2>1. \A i \in 1 .. Len(bytes) + MaxFrame : scan[i] = Found(bytes, scan, i)
    BY <1>1
  <2> QED
    BY <1>4, <2>1, ScanFinds
<1> QED
  BY <1>1, <1>3, <1>4

(* Where the bytes are frames from the first on, one after the other, all  *)
(* of them are found but the one that is not all there, which is kept.     *)
LEMMA ScanKeeps ==
  ASSUME NEW bytes \in Seq(Byte),
         NEW starts, 1 \in starts, NEW pay,
         \A i \in starts \cap (1 .. Len(bytes)) :
           /\ pay[i] \in Payload
           /\ Stands(bytes, i, pay[i])
           /\ EndOf(i, pay[i]) <= Len(bytes) => EndOf(i, pay[i]) + 1 \in starts
  PROVE  /\ Scan(bytes).keep \in starts
         /\ Scan(bytes).keep <= Len(bytes) =>
              EndOf(Scan(bytes).keep, pay[Scan(bytes).keep]) > Len(bytes)
<1>1. PICK scan : /\ Scan(bytes) = scan[1]
                  /\ \A i \in 1 .. Len(bytes) + MaxFrame :
                       scan[i] = Found(bytes, scan, i)
  BY ScanIs
<1> DEFINE n == Len(bytes)
           Kept(r) == /\ r.keep \in starts
                      /\ r.keep <= n => EndOf(r.keep, pay[r.keep]) > n
           Good == {i \in 1 .. n + 1 : i \in starts => Kept(scan[i])}
<1>2. n \in Nat /\ MaxFrame \in Nat /\ MaxFrame >= 1
  BY MaxPayloadAssumption DEF MaxFrame, FrameSize, HeaderSize
<1>3. ASSUME NEW i \in 1 .. n + 1, \A j \in i + 1 .. n + 1 : j \in Good
      PROVE  i \in Good
  <2>1. scan[i] = Found(bytes, scan, i)
    BY <1>1, <1>2
  <2>2. SUFFICES ASSUME i \in starts PROVE Kept(scan[i])
    OBVIOUS
  <2>3. CASE i = n + 1
    <3>1. scan[i] = [frames |-> <<>>, keep |-> n + 1]
      BY <2>1, <2>3 DEF Found
    <3>2. scan[i].keep = i /\ ~ (i <= n)
      BY <3>1, <2>3, <1>2
    <3> QED
      BY <3>2, <2>2
  <2>4. CASE i \in 1 .. n
    <3> DEFINE last == Announced(bytes, i)
               end == EndOf(i, pay[i])
    <3>1. /\ pay[i] \in Payload /\ Stands(bytes, i, pay[i])
          /\ end <= n => end + 1 \in starts
      BY <2>2, <2>4
    <3>2. /\ bytes[i] = Magic
          /\ i + 2 <= n => /\ bytes[i + 1] = Version
                           /\ Fits(Number(bytes[i + 2]))
                           /\ last = end
          /\ end <= n => i + 2 <= n /\ Intact(SubSeq(bytes, i, end))
      BY <3>1, <2>4, StandsRead
    <3> HIDE DEF last, end
    <3>3. CASE /\ Found(bytes, scan, i) = [frames |-> <<>>, keep |-> i]
               /\ i + 2 <= n => last > n
      <4>1. scan[i].keep = i
        BY <2>1, <3>3
      <4>2. end > n
        <5>1. end \in Nat
          <6>1. FrameSize(Len(pay[i])) \in Nat /\ FrameSize(Len(pay[i])) >= 4
            BY <3>1, FrameIs
          <6> QED
            BY <6>1, <2>4 DEF end, EndOf
        <5> QED
          BY <5>1, <3>2, <3>3, <1>2
      <4> QED
        BY <4>1, <4>2, <2>2 DEF end
    <3>4. CASE /\ i + 2 <= n
               /\ last \in i + 3 .. n
               /\ Found(bytes, scan, i)
                    = [frames |-> <<<<i, last>>>> \o scan[last + 1].frames,
                       keep |-> scan[last + 1].keep]
      <4>1. scan[i].keep = scan[last + 1].keep
        BY <2>1, <3>4
      <4>2. last + 1 \in i + 1 .. n + 1 /\ last + 1 \in starts
        BY <3>1, <3>2, <3>4, <2>4, <1>2
      <4>3. Kept(scan[last + 1])
        BY <4>2, <1>3
      <4> QED
        BY <4>1, <4>3
    <3>5. CASE /\ \/ bytes[i] # Magic
                  \/ /\ i + 2 <= n
                     /\ \/ bytes[i + 1] # Version
                        \/ ~Fits(Number(bytes[i + 2]))
                        \/ /\ last <= n
                           /\ ~Intact(SubSeq(bytes, i, last))
      BY <3>2, <3>5
    <3> QED
      <4> HIDE DEF Kept
      <4> QED
        BY <2>4, <3>3, <3>4, <3>5, FoundCases DEF last
  <2> QED
    BY <2>3, <2>4, <1>2
<1>4. \A i \in 1 .. n + 1 : i \in Good
  <2>1. n + 1 \in Nat
    BY <1>2
  <2> HIDE DEF Good, n
  <2> QED
    BY <2>1, <1>3, DownTo
<1>5. 1 \in Good
  <2>1. 1 \in 1 .. n + 1
    BY <1>2
  <2> HIDE DEF Good
  <2> QED
    BY <1>4, <2>1
<1> QED
  BY <1>1, <1>5
-----------------------------------------------------------------------------
(* What has come and is not yet handed on or thrown away. *)
Stream == held \o wire

(* What the stream is made of.                                             *)
Entry == [byte : Byte, of : Nat]

(* A step of Read in terms of the stream: its first m bytes are searched,  *)
(* and it loses those before what the search keeps.                        *)
ReadTells(m, bytes, found) ==
  /\ m \in Len(held) + 1 .. Len(Stream)
  /\ bytes \in Seq(Byte) /\ Len(bytes) = m
  /\ \A i \in 1 .. m : bytes[i] = Stream[i].byte
  /\ found = Scan(bytes)
  /\ Result(bytes, 1, found)
  /\ Stream' = SubSeq(Stream, found.keep, Len(Stream))
  /\ held' \in Seq(Entry) /\ wire' \in Seq(Entry)
  /\ wire' = <<>> => m = Len(Stream)
  /\ found.keep = m + 1 => held' = <<>>
  /\ Len(out') = Len(out) + Len(found.frames)
  /\ out' \in Seq([of : Nat, bytes : Seq(Byte)])
  /\ \A i \in 1 .. Len(out) : out'[i] = out[i]
  /\ \A j \in 1 .. Len(found.frames) :
       out'[Len(out) + j]
         = [of |-> Stream[found.frames[j][2]].of,
            bytes |-> SubSeq(bytes, found.frames[j][1], found.frames[j][2])]

(* The bytes of the stream.                                                *)
LEMMA StreamIs ==
  ASSUME held \in Seq(Entry), wire \in Seq(Entry)
  PROVE  /\ Stream \in Seq(Entry) /\ Len(Stream) = Len(held) + Len(wire)
         /\ \A i \in 1 .. Len(held) : Stream[i] = held[i]
         /\ \A i \in 1 .. Len(wire) : Stream[Len(held) + i] = wire[i]
<1>1. /\ Stream \in Seq(Entry) /\ Len(Stream) = Len(held) + Len(wire)
      /\ \A i \in 1 .. Len(held) + Len(wire) :
           Stream[i] = IF i <= Len(held) THEN held[i] ELSE wire[i - Len(held)]
  BY ConcatProperties DEF Stream
<1>2. Len(held) \in Nat /\ Len(wire) \in Nat
  OBVIOUS
<1>3. \A i \in 1 .. Len(held) : Stream[i] = held[i]
  BY <1>1, <1>2
<1>4. ASSUME NEW i \in 1 .. Len(wire) PROVE Stream[Len(held) + i] = wire[i]
  <2>1. /\ Len(held) + i \in 1 .. Len(held) + Len(wire)
        /\ ~ (Len(held) + i <= Len(held)) /\ Len(held) + i - Len(held) = i
    BY <1>2
  <2> QED
    BY <1>1, <2>1
<1> QED
  BY <1>1, <1>3, <1>4

(* A piece of a sequence.                                                  *)
LEMMA PieceIs ==
  ASSUME NEW S, NEW s \in Seq(S), NEW a \in 1 .. Len(s) + 1,
         NEW b \in a - 1 .. Len(s)
  PROVE  /\ SubSeq(s, a, b) \in Seq(S)
         /\ Len(SubSeq(s, a, b)) = b - a + 1
         /\ \A i \in 1 .. b - a + 1 : SubSeq(s, a, b)[i] = s[a + i - 1]
<1>1. Len(s) \in Nat
  OBVIOUS
<1>2. /\ Len(SubSeq(s, a, b)) = b - a + 1
      /\ \A i \in 1 .. b - a + 1 : SubSeq(s, a, b)[i] = s[a + i - 1]
  BY <1>1
<1>3. \A i \in a .. b : s[i] \in S
  BY <1>1, ElementOfSeq
<1>4. SubSeq(s, a, b) \in Seq(S)
  BY <1>1, <1>3, SubSeqProperties
<1> QED
  BY <1>2, <1>4

(* Every Read is such a step.                                              *)
LEMMA ReadIs ==
  ASSUME held \in Seq(Entry), wire \in Seq(Entry),
         out \in Seq([of : Nat, bytes : Seq(Byte)]), Read
  PROVE  \E m, bytes, found : ReadTells(m, bytes, found)
<1>1. PICK n \in 1 .. Len(wire) :
        LET stream == held \o SubSeq(wire, 1, n)
            found == Scan(Values(stream))
            Emitted(span) ==
              [of |-> stream[span[2]].of,
               bytes |-> Values(SubSeq(stream, span[1], span[2]))]
        IN  /\ out' = out \o [i \in 1 .. Len(found.frames) |->
                                Emitted(found.frames[i])]
            /\ held' = SubSeq(stream, found.keep, Len(stream))
            /\ wire' = SubSeq(wire, n + 1, Len(wire))
  BY DEF Read
<1> DEFINE stream == held \o SubSeq(wire, 1, n)
           bytes == Values(stream)
           found == Scan(bytes)
           more == [i \in 1 .. Len(found.frames) |->
                      [of |-> stream[found.frames[i][2]].of,
                       bytes |-> Values(SubSeq(stream, found.frames[i][1],
                                               found.frames[i][2]))]]
           m == Len(held) + n
           rest == SubSeq(wire, n + 1, Len(wire))
<1>2. /\ out' = out \o more
      /\ held' = SubSeq(stream, found.keep, Len(stream))
      /\ wire' = rest
  BY <1>1
<1> HIDE DEF more, found, rest
<1>3. Len(held) \in Nat /\ Len(wire) \in Nat /\ n \in Nat /\ m \in Nat
      /\ n <= Len(wire) /\ m = Len(held) + n
  OBVIOUS
<1>20. Stream \in Seq(Entry) /\ Len(Stream) = Len(held) + Len(wire)
  BY StreamIs
<1>4. /\ SubSeq(wire, 1, n) \in Seq(Entry) /\ Len(SubSeq(wire, 1, n)) = n
      /\ \A i \in 1 .. n : SubSeq(wire, 1, n)[i] = wire[i]
  <2> HIDE DEF Entry
  <2> QED
    BY <1>3
<1>5. /\ stream \in Seq(Entry) /\ Len(stream) = m
      /\ \A i \in 1 .. m : stream[i] = Stream[i]
  <2> DEFINE front == SubSeq(wire, 1, n)
  <2>1. /\ held \o front \in Seq(Entry) /\ Len(held \o front) = Len(held) + Len(front)
        /\ \A i \in 1 .. Len(held) + Len(front) :
             (held \o front)[i] = IF i <= Len(held) THEN held[i]
                                  ELSE front[i - Len(held)]
    <3> HIDE DEF front
    <3>1. front \in Seq(Entry)
      BY <1>4 DEF front
    <3> QED
      BY <3>1, ConcatProperties
  <2>2. ASSUME NEW i \in 1 .. m PROVE (held \o front)[i] = Stream[i]
    <3>1. CASE i <= Len(held)
      <4>1. i \in 1 .. Len(held) /\ i \in 1 .. Len(held) + Len(front)
        BY <3>1, <1>3, <1>4
      <4> HIDE DEF front, m
      <4> QED
        BY <4>1, <3>1, <2>1, StreamIs
    <3>2. CASE i > Len(held)
      <4>1. /\ i - Len(held) \in 1 .. n /\ i - Len(held) \in 1 .. Len(wire)
            /\ Len(held) + (i - Len(held)) = i
            /\ i \in 1 .. Len(held) + Len(front) /\ ~ (i <= Len(held))
        BY <3>2, <1>3, <1>4
      <4>2. front[i - Len(held)] = wire[i - Len(held)]
        BY <4>1, <1>4
      <4>3. Stream[i] = wire[i - Len(held)]
        BY <4>1, StreamIs
      <4> HIDE DEF front, m
      <4> QED
        BY <4>1, <4>2, <4>3, <2>1
    <3> QED
      BY <3>1, <3>2, <1>3
  <2>3. Len(front) = n
    BY <1>4
  <2> HIDE DEF front
  <2> QED
    BY <2>1, <2>2, <2>3 DEF front
<1> HIDE DEF stream
<1>6. /\ bytes \in Seq(Byte) /\ Len(bytes) = m
      /\ \A i \in 1 .. m : bytes[i] = Stream[i].byte
  <2>1. \A i \in 1 .. m : stream[i].byte \in Byte
    <3> HIDE DEF m, Byte
    <3>1. \A i \in 1 .. m : stream[i] \in Entry
      BY <1>5, ElementOfSeq
    <3> QED
      BY <3>1 DEF Entry
  <2>2. bytes = [i \in 1 .. m |-> stream[i].byte]
    BY <1>5 DEF Values
  <2> HIDE DEF bytes, Byte, m
  <2>3. bytes \in Seq(Byte) /\ Len(bytes) = m
    BY <2>1, <2>2, <1>3
  <2>4. \A i \in 1 .. m : bytes[i] = Stream[i].byte
    BY <2>2, <1>5
  <2> QED
    BY <2>3, <2>4
<1> HIDE DEF bytes
<1>7. Result(bytes, 1, found)
  BY <1>6, ScanTells DEF found
<1> DEFINE K == found.keep
<1>8. K \in 1 .. m + 1
  BY <1>6, <1>7 DEF Result
<1>9. /\ held' \in Seq(Entry) /\ Len(held') = m + 1 - K
      /\ \A i \in 1 .. m + 1 - K : held'[i] = Stream[K + i - 1]
  <2>1. held' = SubSeq(stream, K, m)
    BY <1>2, <1>5
  <2> HIDE DEF K, Entry, m
  <2>2. K \in 1 .. Len(stream) + 1 /\ m \in K - 1 .. Len(stream)
        /\ m - K + 1 = m + 1 - K
    BY <1>3, <1>5, <1>8
  <2>3. /\ SubSeq(stream, K, m) \in Seq(Entry)
        /\ Len(SubSeq(stream, K, m)) = m + 1 - K
        /\ \A i \in 1 .. m + 1 - K : SubSeq(stream, K, m)[i] = stream[K + i - 1]
    BY <2>2, <1>5, PieceIs
  <2>4. \A i \in 1 .. m + 1 - K : K + i - 1 \in 1 .. m
    BY <1>3, <1>8
  <2> QED
    BY <2>1, <2>3, <2>4, <1>5
<1>10. /\ rest \in Seq(Entry) /\ Len(rest) = Len(wire) - n
       /\ \A i \in 1 .. Len(wire) - n : rest[i] = Stream[m + i]
  <2>1. /\ rest \in Seq(Entry) /\ Len(rest) = Len(wire) - n
        /\ \A i \in 1 .. Len(wire) - n : rest[i] = wire[n + i]
    <3> HIDE DEF Entry
    <3> QED
      BY <1>3 DEF rest
  <2>2. \A i \in 1 .. Len(wire) - n :
          n + i \in 1 .. Len(wire) /\ Len(held) + (n + i) = m + i
    BY <1>3
  <2> HIDE DEF m
  <2> QED
    BY <2>1, <2>2, StreamIs
<1>11. Stream' = SubSeq(Stream, K, Len(Stream))
  <2> DEFINE L == Len(Stream)
  <2>1. /\ L = m + (Len(wire) - n) /\ L \in Nat
        /\ Stream \in Seq(Entry) /\ Len(Stream) = L
    <3> HIDE DEF m
    <3> QED
      BY <1>3, <1>20
  <2>2. /\ held' \o wire' \in Seq(Entry)
        /\ Len(held' \o wire') = Len(held') + Len(wire')
        /\ \A i \in 1 .. Len(held') + Len(wire') :
             (held' \o wire')[i]
               = IF i <= Len(held') THEN held'[i] ELSE wire'[i - Len(held')]
    <3> DEFINE h == held' w == wire'
    <3>1. h \in Seq(Entry) /\ w \in Seq(Entry)
      BY <1>2, <1>9, <1>10
    <3> HIDE DEF h, w
    <3>2. /\ h \o w \in Seq(Entry)
          /\ Len(h \o w) = Len(h) + Len(w)
          /\ \A i \in 1 .. Len(h) + Len(w) :
               (h \o w)[i] = IF i <= Len(h) THEN h[i] ELSE w[i - Len(h)]
      BY <3>1, ConcatProperties
    <3> QED
      BY <3>2 DEF h, w
  <2>3. Len(held') + Len(wire') = L + 1 - K
    <3> HIDE DEF K, m, L
    <3> QED
      BY <1>2, <1>3, <1>8, <1>9, <1>10, <2>1
  <2>4. /\ SubSeq(Stream, K, L) \in Seq(Entry) /\ Len(SubSeq(Stream, K, L)) = L + 1 - K
        /\ \A i \in 1 .. L + 1 - K : SubSeq(Stream, K, L)[i] = Stream[K + i - 1]
    <3>1. K \in 1 .. L + 1
      BY <1>3, <1>8, <2>1
    <3> DEFINE t == Stream
    <3>2. t \in Seq(Entry) /\ Len(t) = L
      BY <2>1
    <3> HIDE DEF K, L, Entry, t
    <3>3. K \in 1 .. Len(t) + 1 /\ L \in K - 1 .. Len(t)
      BY <3>1, <3>2, <2>1
    <3>4. L - K + 1 = L + 1 - K
      BY <3>1, <2>1
    <3>5. /\ SubSeq(t, K, L) \in Seq(Entry) /\ Len(SubSeq(t, K, L)) = L + 1 - K
          /\ \A i \in 1 .. L + 1 - K : SubSeq(t, K, L)[i] = t[K + i - 1]
      BY <3>2, <3>3, <3>4, PieceIs
    <3> QED
      BY <3>5 DEF t
  <2>5. ASSUME NEW i \in 1 .. L + 1 - K
        PROVE  (held' \o wire')[i] = Stream[K + i - 1]
    <3>1. CASE i <= Len(held')
      <4>1. i \in 1 .. m + 1 - K /\ i \in 1 .. Len(held') + Len(wire')
        BY <3>1, <1>9, <2>3
      <4> HIDE DEF K, m, L
      <4> QED
        BY <3>1, <4>1, <1>9, <2>2
    <3>2. CASE ~ (i <= Len(held'))
      <4>1. /\ i - (m + 1 - K) \in 1 .. Len(wire) - n
            /\ m + (i - (m + 1 - K)) = K + i - 1
        <5> HIDE DEF K, m, L
        <5> QED
          BY <3>2, <1>3, <1>8, <1>9, <2>1
      <4>2. (held' \o wire')[i] = wire'[i - (m + 1 - K)]
        BY <3>2, <2>2, <2>3, <1>9
      <4> HIDE DEF K, m, L
      <4> QED
        BY <4>1, <4>2, <1>2, <1>10
    <3> QED
      BY <3>1, <3>2
  <2>6. Stream' = held' \o wire'
    BY DEF Stream
  <2>7. held' \o wire' = SubSeq(Stream, K, L)
    <3> DEFINE a == held' \o wire' b == SubSeq(Stream, K, L) len == L + 1 - K
    <3>1. /\ a \in Seq(Entry) /\ Len(a) = len /\ b \in Seq(Entry) /\ Len(b) = len
          /\ \A i \in 1 .. len : a[i] = b[i]
      BY <2>2, <2>3, <2>4, <2>5
    <3> HIDE DEF a, b, len, Entry
    <3>2. a = b
      BY <3>1, SeqEqual
    <3> QED
      BY <3>2 DEF a, b
  <2> QED
    BY <2>6, <2>7
<1>12. wire' = <<>> => m = Len(Stream)
  <2>1. SUFFICES ASSUME wire' = <<>> PROVE m = Len(Stream)
    OBVIOUS
  <2>2. Len(rest) = 0
    BY <1>2, <2>1
  <2> HIDE DEF m, rest
  <2>3. Len(wire) = n
    BY <2>2, <1>3, <1>10
  <2> QED
    BY <2>3, <1>3, <1>20
<1>13. K = m + 1 => held' = <<>>
  <2>1. K = m + 1 => Len(held') = 0
    BY <1>3, <1>9
  <2> QED
    BY <2>1, <1>9
<1>14. ASSUME NEW a \in 1 .. m, NEW b \in 1 .. m, a <= b
       PROVE  Values(SubSeq(stream, a, b)) = SubSeq(bytes, a, b)
  <2> DEFINE l == b - a + 1
  <2>1. l \in Nat /\ l >= 1
    BY <1>14
  <2>2. /\ Len(SubSeq(stream, a, b)) = l
        /\ \A i \in 1 .. l : SubSeq(stream, a, b)[i] = stream[a + i - 1]
    <3> HIDE DEF m, Entry
    <3> QED
      BY <1>3, <1>5, <1>14
  <2>3. /\ SubSeq(bytes, a, b) \in Seq(Byte) /\ Len(SubSeq(bytes, a, b)) = l
        /\ \A i \in 1 .. l : SubSeq(bytes, a, b)[i] = bytes[a + i - 1]
    <3> HIDE DEF m, Byte
    <3> QED
      BY <1>3, <1>6, <1>14
  <2>4. \A i \in 1 .. l : a + i - 1 \in 1 .. m
    BY <1>3, <1>14
  <2>5. \A i \in 1 .. l : SubSeq(stream, a, b)[i].byte = SubSeq(bytes, a, b)[i]
    <3> HIDE DEF m, l
    <3> QED
      BY <2>2, <2>3, <2>4, <1>5, <1>6
  <2>6. Values(SubSeq(stream, a, b)) = [i \in 1 .. l |-> SubSeq(bytes, a, b)[i]]
    <3> HIDE DEF l
    <3> QED
      BY <2>2, <2>5 DEF Values
  <2>7. SubSeq(bytes, a, b) = [i \in 1 .. l |-> SubSeq(bytes, a, b)[i]]
    <3> DEFINE c == SubSeq(bytes, a, b)
    <3> HIDE DEF c, l
    <3>1. c \in Seq(Byte) /\ Len(c) = l
      BY <2>3 DEF c
    <3>2. c = [i \in 1 .. l |-> c[i]]
      BY <3>1, IsASeq
    <3> QED
      BY <3>2 DEF c
  <2> QED
    BY <2>6, <2>7
<1> DEFINE F == found.frames
<1>15. /\ Len(F) \in Nat
       /\ \A j \in 1 .. Len(F) : /\ F[j][1] \in 1 .. m /\ F[j][2] \in 1 .. m
                                 /\ F[j][1] < F[j][2]
  <2>1. F \in Seq((1 .. m) \X (1 .. m))
    BY <1>6, <1>7 DEF Result
  <2>2. \A j \in 1 .. Len(F) : F[j] \in (1 .. m) \X (1 .. m)
    <3> HIDE DEF F, m
    <3> QED
      BY <2>1, ElementOfSeq
  <2>3. \A j \in 1 .. Len(F) : F[j][1] < F[j][2]
    BY <1>7 DEF Result
  <2>4. Len(F) \in Nat
    <3> HIDE DEF F, m
    <3> QED
      BY <2>1
  <2>5. \A j \in 1 .. Len(F) : F[j][1] \in 1 .. m /\ F[j][2] \in 1 .. m
    <3> HIDE DEF F, m
    <3> QED
      BY <2>2
  <2> QED
    BY <2>3, <2>4, <2>5
<1>16. /\ more \in Seq([of : Nat, bytes : Seq(Byte)]) /\ Len(more) = Len(F)
       /\ \A j \in 1 .. Len(F) :
            more[j] = [of |-> Stream[F[j][2]].of,
                       bytes |-> SubSeq(bytes, F[j][1], F[j][2])]
  <2>1. more = [j \in 1 .. Len(F) |-> [of |-> Stream[F[j][2]].of,
                                       bytes |-> SubSeq(bytes, F[j][1], F[j][2])]]
    <3>1. \A j \in 1 .. Len(F) :
            /\ stream[F[j][2]].of = Stream[F[j][2]].of
            /\ Values(SubSeq(stream, F[j][1], F[j][2]))
                 = SubSeq(bytes, F[j][1], F[j][2])
      <4>1. SUFFICES
              ASSUME NEW j \in 1 .. Len(F)
              PROVE  /\ stream[F[j][2]].of = Stream[F[j][2]].of
                     /\ Values(SubSeq(stream, F[j][1], F[j][2]))
                          = SubSeq(bytes, F[j][1], F[j][2])
        OBVIOUS
      <4>2. F[j][1] \in 1 .. m /\ F[j][2] \in 1 .. m /\ F[j][1] <= F[j][2]
        <5>1. F[j][1] \in 1 .. m /\ F[j][2] \in 1 .. m /\ F[j][1] < F[j][2]
          BY <1>15
        <5> HIDE DEF F, m
        <5> QED
          BY <5>1, <1>3
      <4> HIDE DEF F, m
      <4> QED
        BY <4>2, <1>5, <1>14
    <3> QED
      BY <3>1 DEF more
  <2>2. \A j \in 1 .. Len(F) : /\ Stream[F[j][2]].of \in Nat
                               /\ SubSeq(bytes, F[j][1], F[j][2]) \in Seq(Byte)
    <3>1. SUFFICES ASSUME NEW j \in 1 .. Len(F)
                   PROVE  /\ Stream[F[j][2]].of \in Nat
                          /\ SubSeq(bytes, F[j][1], F[j][2]) \in Seq(Byte)
      OBVIOUS
    <3>2. stream[F[j][2]] \in Entry
      BY <1>5, <1>15, ElementOfSeq
    <3>3. Stream[F[j][2]].of \in Nat
      BY <3>2, <1>5, <1>15 DEF Entry
    <3>4. SubSeq(bytes, F[j][1], F[j][2]) \in Seq(Byte)
      <4> DEFINE a == F[j][1] b == F[j][2]
      <4>1. a \in 1 .. m /\ b \in 1 .. m /\ a < b
        BY <1>15
      <4> HIDE DEF a, b, Byte, m
      <4>2. SubSeq(bytes, a, b) \in Seq(Byte)
        BY <4>1, <1>3, <1>6
      <4> QED
        BY <4>2 DEF a, b
    <3> QED
      BY <3>3, <3>4
  <2> HIDE DEF F, Byte
  <2> QED
    BY <2>1, <2>2, <1>15
<1>17. /\ Len(out') = Len(out) + Len(F)
       /\ out' \in Seq([of : Nat, bytes : Seq(Byte)])
       /\ \A i \in 1 .. Len(out) : out'[i] = out[i]
       /\ \A j \in 1 .. Len(F) : out'[Len(out) + j] = more[j]
  <2> DEFINE Out == [of : Nat, bytes : Seq(Byte)]
  <2> HIDE DEF Out, F
  <2>1. out \in Seq(Out) /\ more \in Seq(Out)
    BY <1>16 DEF Out
  <2>2. /\ out \o more \in Seq(Out) /\ Len(out \o more) = Len(out) + Len(more)
        /\ \A i \in 1 .. Len(out) + Len(more) :
             (out \o more)[i] = IF i <= Len(out) THEN out[i] ELSE more[i - Len(out)]
    BY <2>1, ConcatProperties
  <2>3. Len(out) \in Nat /\ Len(more) = Len(F) /\ Len(F) \in Nat
    BY <1>15, <1>16
  <2> QED
    BY <1>2, <2>2, <2>3 DEF Out
<1>18. m \in Len(held) + 1 .. Len(Stream)
  BY <1>3, StreamIs
<1>19. ReadTells(m, bytes, found)
  <2> HIDE DEF m
  <2> QED
    BY <1>2, <1>6, <1>7, <1>9, <1>10, <1>11, <1>12, <1>13, <1>16, <1>17, <1>18
       DEF ReadTells, found
<1> QED
  BY <1>19
-----------------------------------------------------------------------------
(* The types. *)
LinkTyped ==
  /\ sent \in Seq(Payloads) /\ Len(sent) <= MaxSent
  /\ held \in Seq(Entry) /\ wire \in Seq(Entry)
  /\ out \in Seq([of : Nat, bytes : Seq(Byte)])
  /\ port \in {"open", "hung"}
  /\ since \in 0 .. MaxSent
  /\ faults \in Nat

(* The last byte of the frame of p.                                        *)
Checksum(p) == Crc(SubSeq(Frame(p), 1, FrameSize(Len(p)) - 1))

(* Each byte that is a checksum is that of the chunk it came with, and     *)
(* each chunk has only one of them, in the order they were sent.           *)
Genuine(s, S) ==
  /\ \A i \in 1 .. Len(s) : /\ s[i].of \in 1 .. Len(S)
                            /\ s[i].byte \in Plain \cup {Checksum(S[s[i].of])}
  /\ \A i, j \in 1 .. Len(s) :
       i < j /\ s[i].byte \notin Plain /\ s[j].byte \notin Plain
         => s[i].of < s[j].of

(* What is handed on was sent, in order, and before any checksum to come.  *)
Handed(o, s, S) ==
  /\ \A i \in 1 .. Len(o) : /\ o[i].of \in 1 .. Len(S)
                            /\ o[i].bytes = Frame(S[o[i].of])
  /\ \A i, j \in 1 .. Len(o) : i < j => o[i].of < o[j].of
  /\ \A i \in 1 .. Len(o), j \in 1 .. Len(s) :
       s[j].byte \notin Plain => o[i].of < s[j].of

(* What the board sends are payloads.                                      *)
LEMMA PayloadsAre == Payloads \subseteq Payload
<1>1. ASSUME NEW p \in Payloads PROVE p \in Payload
  <2>1. p \in Seq({<<b>> : b \in 0 .. 255}) /\ Len(p) <= MaxPayload
    BY LinkAssumption
  <2>2. {<<b>> : b \in 0 .. 255} \subseteq Plain
    BY DEF Plain
  <2>3. p \in Seq(Plain)
    BY <2>1, <2>2, SeqMonotonic
  <2> QED
    BY <2>1, <2>3 DEF Payload
<1> QED
  BY <1>1

(* Where every byte of s is one of t, with its tag, changed at most into   *)
(* one that is no checksum, and they are in the order of t.                *)
LEMMA FewerChecked ==
  ASSUME NEW s \in Seq(Entry), NEW t \in Seq(Entry), NEW S, NEW o,
         NEW h \in [1 .. Len(s) -> 1 .. Len(t)],
         \A i, j \in 1 .. Len(s) : i < j => h[i] < h[j],
         \A i \in 1 .. Len(s) : /\ s[i].of = t[h[i]].of
                                /\ s[i].byte \in Plain \cup {t[h[i]].byte},
         Genuine(t, S), Handed(o, t, S)
  PROVE  Genuine(s, S) /\ Handed(o, s, S)
<1>1. \A i \in 1 .. Len(s) : h[i] \in 1 .. Len(t)
  OBVIOUS
<1>2. Genuine(s, S)
  BY <1>1 DEF Genuine
<1>3. Handed(o, s, S)
  BY <1>1 DEF Handed
<1> QED
  BY <1>2, <1>3

(* The bytes of a chunk with its number.                                   *)
LEMMA TaggedIs ==
  ASSUME NEW bytes \in Seq(Byte), NEW k \in Nat
  PROVE  /\ Tagged(bytes, k) \in Seq(Entry)
         /\ Len(Tagged(bytes, k)) = Len(bytes)
         /\ \A i \in 1 .. Len(bytes) :
              Tagged(bytes, k)[i] = [byte |-> bytes[i], of |-> k]
<1>1. \A i \in 1 .. Len(bytes) : bytes[i] \in Byte
  BY ElementOfSeq
<1>2. \A i \in 1 .. Len(bytes) : [byte |-> bytes[i], of |-> k] \in Entry
  BY <1>1 DEF Entry
<1>3. Len(bytes) \in Nat
  OBVIOUS
<1> HIDE DEF Entry, Byte
<1> QED
  BY <1>2, <1>3 DEF Tagged

(* Two sequences joined.                                                   *)
LEMMA JoinIs ==
  ASSUME NEW S, NEW s \in Seq(S), NEW t \in Seq(S)
  PROVE  /\ s \o t \in Seq(S)
         /\ Len(s) \in Nat /\ Len(t) \in Nat
         /\ Len(s \o t) = Len(s) + Len(t)
         /\ \A i \in 1 .. Len(s) : (s \o t)[i] = s[i]
         /\ \A i \in 1 .. Len(t) : (s \o t)[Len(s) + i] = t[i]
         /\ \A i \in Len(s) + 1 .. Len(s) + Len(t) :
              (s \o t)[i] = t[i - Len(s)] /\ i - Len(s) \in 1 .. Len(t)
<1>1. /\ s \o t \in Seq(S)
      /\ Len(s \o t) = Len(s) + Len(t)
      /\ \A i \in 1 .. Len(s) + Len(t) :
           (s \o t)[i] = IF i <= Len(s) THEN s[i] ELSE t[i - Len(s)]
  BY ConcatProperties
<1>2. Len(s) \in Nat /\ Len(t) \in Nat
  OBVIOUS
<1>3. \A i \in 1 .. Len(s) : (s \o t)[i] = s[i]
  BY <1>1, <1>2
<1>4. \A i \in Len(s) + 1 .. Len(s) + Len(t) :
        (s \o t)[i] = t[i - Len(s)] /\ i - Len(s) \in 1 .. Len(t)
  BY <1>1, <1>2
<1>5. ASSUME NEW i \in 1 .. Len(t) PROVE (s \o t)[Len(s) + i] = t[i]
  <2>1. /\ Len(s) + i \in Len(s) + 1 .. Len(s) + Len(t)
        /\ Len(s) + i - Len(s) = i
    BY <1>2
  <2> QED
    BY <1>4, <2>1
<1> QED
  BY <1>1, <1>2, <1>3, <1>4, <1>5

(* A chunk that comes whole brings one checksum, above all others. *)
LEMMA ChunkChecked ==
  ASSUME NEW S \in Seq(Payloads), NEW p \in Payloads, NEW s \in Seq(Entry),
         NEW o, Genuine(s, S), Handed(o, s, S)
  PROVE  /\ s \o Tagged(Frame(p), Len(S) + 1) \in Seq(Entry)
         /\ Genuine(s \o Tagged(Frame(p), Len(S) + 1), Append(S, p))
         /\ Handed(o, s \o Tagged(Frame(p), Len(S) + 1), Append(S, p))
<1> DEFINE k == Len(S) + 1
           more == Tagged(Frame(p), k)
           t == s \o more
           T == Append(S, p)
           size == FrameSize(Len(p))
<1>1. /\ Frame(p) \in Seq(Byte) /\ Len(Frame(p)) = size
      /\ size \in Nat
      /\ \A x \in 1 .. size - 1 : Frame(p)[x] \in Plain
      /\ Frame(p)[size] = Checksum(p)
  BY PayloadsAre, FrameIs DEF Checksum
<1>2. Len(S) \in Nat /\ k \in Nat
  OBVIOUS
<1>3. /\ more \in Seq(Entry) /\ Len(more) = size
      /\ \A i \in 1 .. size : more[i] = [byte |-> Frame(p)[i], of |-> k]
  BY <1>1, <1>2, TaggedIs
<1> HIDE DEF more, size
<1>4. /\ t \in Seq(Entry) /\ Len(t) = Len(s) + size /\ Len(s) \in Nat
      /\ \A i \in 1 .. Len(s) : t[i] = s[i]
      /\ \A i \in Len(s) + 1 .. Len(s) + size :
           t[i] = more[i - Len(s)] /\ i - Len(s) \in 1 .. size
  <2>1. more \in Seq(Entry) /\ Len(more) = size
    BY <1>3
  <2>2. /\ t \in Seq(Entry) /\ Len(s) \in Nat
        /\ Len(t) = Len(s) + Len(more)
        /\ \A i \in 1 .. Len(s) : t[i] = s[i]
        /\ \A i \in Len(s) + 1 .. Len(s) + Len(more) :
             t[i] = more[i - Len(s)] /\ i - Len(s) \in 1 .. Len(more)
    BY <2>1, JoinIs
  <2> HIDE DEF t
  <2> QED
    BY <2>1, <2>2
<1> HIDE DEF t
<1>5. /\ Len(T) = k /\ T[k] = p
      /\ \A i \in 1 .. Len(S) : T[i] = S[i]
  <2>1. p \in Payloads
    OBVIOUS
  <2> QED
    BY <2>1, AppendProperties
<1> HIDE DEF T, k
<1>6. k = Len(S) + 1
  BY DEF k
<1>7. ASSUME NEW i \in Len(s) + 1 .. Len(s) + size
      PROVE  /\ t[i].of = k
             /\ t[i].byte \in Plain \cup {Checksum(p)}
             /\ t[i].byte \notin Plain => i = Len(s) + size
  <2>0. t[i] = [byte |-> Frame(p)[i - Len(s)], of |-> k]
        /\ i - Len(s) \in 1 .. size
    BY <1>3, <1>4
  <2>1. /\ t[i].byte = Frame(p)[i - Len(s)] /\ t[i].of = k
        /\ i - Len(s) \in 1 .. size
    BY <2>0
  <2>2. CASE i - Len(s) = size
    BY <2>1, <2>2, <1>1, <1>4
  <2>3. CASE i - Len(s) \in 1 .. size - 1
    BY <2>1, <2>3, <1>1
  <2> QED
    BY <2>1, <2>2, <2>3, <1>1
<1>8. Genuine(t, T)
  <2>1. ASSUME NEW i \in 1 .. Len(t)
        PROVE  /\ t[i].of \in 1 .. Len(T)
               /\ t[i].byte \in Plain \cup {Checksum(T[t[i].of])}
    <3>1. CASE i \in 1 .. Len(s)
      <4>1. t[i] = s[i] /\ s[i].of \in 1 .. Len(S)
            /\ s[i].byte \in Plain \cup {Checksum(S[s[i].of])}
        BY <3>1, <1>4 DEF Genuine
      <4> QED
        BY <4>1, <1>2, <1>5, <1>6
    <3>2. CASE i \in Len(s) + 1 .. Len(s) + size
      BY <3>2, <1>2, <1>5, <1>6, <1>7
    <3> QED
      BY <3>1, <3>2, <1>1, <1>4
  <2>2. ASSUME NEW i \in 1 .. Len(t), NEW j \in 1 .. Len(t), i < j,
               t[i].byte \notin Plain, t[j].byte \notin Plain
        PROVE  t[i].of < t[j].of
    <3>1. CASE j \in 1 .. Len(s)
      <4>1. i \in 1 .. Len(s)
        BY <2>2, <3>1, <1>4
      <4> QED
        BY <4>1, <2>2, <3>1, <1>4 DEF Genuine
    <3>2. CASE j \in Len(s) + 1 .. Len(s) + size
      <4>1. t[j].of = k
        BY <3>2, <1>7
      <4>2. i \in 1 .. Len(s)
        BY <2>2, <3>2, <1>1, <1>4, <1>7
      <4>3. t[i].of \in 1 .. Len(S)
        BY <4>2, <1>4 DEF Genuine
      <4> QED
        BY <4>1, <4>3, <1>2, <1>6
    <3> QED
      BY <3>1, <3>2, <1>1, <1>4
  <2> QED
    BY <2>1, <2>2 DEF Genuine
<1>9. Handed(o, t, T)
  <2>1. \A i \in 1 .. Len(o) : o[i].of \in 1 .. Len(S)
    BY DEF Handed
  <2>2. ASSUME NEW i \in 1 .. Len(o), NEW j \in 1 .. Len(t), t[j].byte \notin Plain
        PROVE  o[i].of < t[j].of
    <3>1. CASE j \in 1 .. Len(s)
      BY <2>2, <3>1, <1>4 DEF Handed
    <3>2. CASE j \in Len(s) + 1 .. Len(s) + size
      BY <2>1, <3>2, <1>2, <1>6, <1>7
    <3> QED
      BY <3>1, <3>2, <1>1, <1>4
  <2>3. \A i \in 1 .. Len(o) : /\ o[i].of \in 1 .. Len(T)
                               /\ o[i].bytes = Frame(T[o[i].of])
    BY <2>1, <1>2, <1>5, <1>6 DEF Handed
  <2>4. \A i, j \in 1 .. Len(o) : i < j => o[i].of < o[j].of
    BY DEF Handed
  <2> QED
    BY <2>2, <2>3, <2>4 DEF Handed
<1> QED
  BY <1>4, <1>8, <1>9 DEF t, T, more, k

(* What no disturbance can break.                                          *)
Checked == Genuine(Stream, sent) /\ Handed(out, Stream, sent)

(* The bytes of the next stream.                                           *)
LEMMA StreamNext ==
  ASSUME held' \in Seq(Entry), wire' \in Seq(Entry)
  PROVE  /\ Stream' \in Seq(Entry)
         /\ Len(held') \in Nat /\ Len(wire') \in Nat
         /\ Len(Stream') = Len(held') + Len(wire')
         /\ \A i \in 1 .. Len(held') : Stream'[i] = held'[i]
         /\ \A i \in Len(held') + 1 .. Len(held') + Len(wire') :
              Stream'[i] = wire'[i - Len(held')]
              /\ i - Len(held') \in 1 .. Len(wire')
<1> DEFINE h == held' w == wire'
<1>1. h \in Seq(Entry) /\ w \in Seq(Entry)
  OBVIOUS
<1> HIDE DEF h, w
<1>2. /\ h \o w \in Seq(Entry)
      /\ Len(h) \in Nat /\ Len(w) \in Nat
      /\ Len(h \o w) = Len(h) + Len(w)
      /\ \A i \in 1 .. Len(h) : (h \o w)[i] = h[i]
      /\ \A i \in Len(h) + 1 .. Len(h) + Len(w) :
           (h \o w)[i] = w[i - Len(h)] /\ i - Len(h) \in 1 .. Len(w)
  BY <1>1, JoinIs
<1> QED
  BY <1>2 DEF h, w, Stream

(* Each action keeps the types and Checked.                                *)
LEMMA SendChecked ==
  ASSUME LinkTyped, Checked, NEW p \in Payloads, Send(p)
  PROVE  LinkTyped' /\ Checked'
<1> DEFINE more == Tagged(Frame(p), Len(sent) + 1)
<1>1. /\ sent \in Seq(Payloads) /\ Len(sent) \in Nat
      /\ held \in Seq(Entry) /\ wire \in Seq(Entry)
  BY DEF LinkTyped
<1>2. more \in Seq(Entry)
  BY <1>1, PayloadsAre, FrameIs, TaggedIs
<1>3. sent' = Append(sent, p) /\ wire' = wire \o more /\ held' = held
      /\ out' = out /\ Len(sent) < MaxSent
      /\ UNCHANGED <<port, since, faults>>
  BY DEF Send
<1> HIDE DEF more
<1>4. wire' \in Seq(Entry)
  BY <1>1, <1>2, <1>3, JoinIs
<1>5. Stream' = Stream \o more
  <2>1. (held \o wire) \o more = held \o (wire \o more)
    BY <1>1, <1>2, ConcatAssociative
  <2> QED
    BY <2>1, <1>3 DEF Stream
<1>6. Stream \in Seq(Entry)
  BY <1>1, StreamIs
<1>7. Checked'
  BY <1>1, <1>3, <1>5, <1>6, ChunkChecked DEF Checked, more
<1>8. sent' \in Seq(Payloads) /\ Len(sent') <= MaxSent
  <2>1. sent' \in Seq(Payloads) /\ Len(sent') = Len(sent) + 1
    BY <1>1, <1>3, AppendProperties
  <2> QED
    BY <2>1, <1>1, <1>3, LinkAssumption
<1>9. LinkTyped'
  BY <1>3, <1>4, <1>8 DEF LinkTyped
<1> QED
  BY <1>7, <1>9

(* A stream of which every byte, with its tag, is one of the old stream    *)
(* or of the chunk just sent.                                              *)
LEMMA CutChecked ==
  ASSUME LinkTyped, Checked, NEW p \in Payloads, NEW s \in Seq(Entry),
         NEW h \in [1 .. Len(s) -> 1 .. Len(Stream) + FrameSize(Len(p))],
         \A i, j \in 1 .. Len(s) : i < j => h[i] < h[j],
         \A i \in 1 .. Len(s) :
           \/ h[i] <= Len(Stream) /\ s[i] = Stream[h[i]]
           \/ /\ h[i] > Len(Stream)
              /\ s[i] = [byte |-> Frame(p)[h[i] - Len(Stream)],
                         of |-> Len(sent) + 1]
  PROVE  Genuine(s, Append(sent, p)) /\ Handed(out, s, Append(sent, p))
<1> DEFINE more == Tagged(Frame(p), Len(sent) + 1)
           t == Stream \o more
           T == Append(sent, p)
           size == FrameSize(Len(p))
           k == Len(sent) + 1
<1>1. sent \in Seq(Payloads) /\ Len(sent) \in Nat /\ Stream \in Seq(Entry)
      /\ k \in Nat
  BY StreamIs DEF LinkTyped
<1>2. Genuine(Stream, sent) /\ Handed(out, Stream, sent)
  BY DEF Checked
<1>3. t \in Seq(Entry) /\ Genuine(t, T) /\ Handed(out, t, T)
  <2> HIDE DEF Byte, Entry
  <2> QED
    BY <1>1, <1>2, ChunkChecked
<1>4. Frame(p) \in Seq(Byte) /\ Len(Frame(p)) = size /\ size \in Nat
  BY PayloadsAre, FrameIs
<1>5. /\ more \in Seq(Entry) /\ Len(more) = size
      /\ \A i \in 1 .. size : more[i] = [byte |-> Frame(p)[i], of |-> k]
  BY <1>1, <1>4, TaggedIs
<1> HIDE DEF more, size
<1>6. /\ Len(t) = Len(Stream) + size /\ Len(Stream) \in Nat
      /\ \A i \in 1 .. Len(Stream) : t[i] = Stream[i]
      /\ \A i \in Len(Stream) + 1 .. Len(Stream) + size :
           t[i] = more[i - Len(Stream)] /\ i - Len(Stream) \in 1 .. size
  <2>1. /\ Len(Stream) \in Nat
        /\ Len(t) = Len(Stream) + Len(more)
        /\ \A i \in 1 .. Len(Stream) : t[i] = Stream[i]
        /\ \A i \in Len(Stream) + 1 .. Len(Stream) + Len(more) :
             t[i] = more[i - Len(Stream)] /\ i - Len(Stream) \in 1 .. Len(more)
    <3>1. more \in Seq(Entry) /\ Stream \in Seq(Entry)
      BY <1>1, <1>5
    <3> HIDE DEF Entry
    <3> QED
      BY <3>1, JoinIs
  <2> HIDE DEF t
  <2> QED
    BY <2>1, <1>5
<1> HIDE DEF t, T, k
<1>7. \A i \in 1 .. Len(s) : s[i] = t[h[i]]
  <2>1. SUFFICES ASSUME NEW i \in 1 .. Len(s) PROVE s[i] = t[h[i]]
    OBVIOUS
  <2>2. h[i] \in 1 .. Len(Stream) + size
    BY DEF size
  <2>5. \/ h[i] <= Len(Stream) /\ s[i] = Stream[h[i]]
        \/ /\ h[i] > Len(Stream)
           /\ s[i] = [byte |-> Frame(p)[h[i] - Len(Stream)], of |-> k]
    BY DEF k
  <2>3. CASE h[i] <= Len(Stream)
    BY <2>2, <2>3, <2>5, <1>6, <1>4
  <2>4. CASE h[i] > Len(Stream)
    <3>1. h[i] \in Len(Stream) + 1 .. Len(Stream) + size
      BY <2>2, <2>4, <1>4, <1>6
    <3>2. s[i] = [byte |-> Frame(p)[h[i] - Len(Stream)], of |-> k]
      BY <2>2, <2>4, <2>5, <1>4, <1>6
    <3>3. t[h[i]] = more[h[i] - Len(Stream)] /\ h[i] - Len(Stream) \in 1 .. size
      BY <3>1, <1>6
    <3> QED
      BY <3>2, <3>3, <1>5
  <2> QED
    BY <2>2, <2>3, <2>4, <1>4, <1>6
<1>8. h \in [1 .. Len(s) -> 1 .. Len(t)]
  BY <1>6 DEF size
<1>9. Genuine(s, T) /\ Handed(out, s, T)
  BY <1>3, <1>7, <1>8, FewerChecked
<1> QED
  BY <1>9 DEF T

LEMMA SendCutChecked ==
  ASSUME LinkTyped, Checked, NEW p \in Payloads, SendCut(p)
  PROVE  LinkTyped' /\ Checked'
<1> DEFINE F == Frame(p)
           size == FrameSize(Len(p))
           k == Len(sent) + 1
<1>1. PICK n \in 1 .. Len(F) - 1, heard \in {"first", "last"} :
        wire' = wire \o Tagged(IF heard = "first" THEN SubSeq(F, 1, n)
                               ELSE SubSeq(F, n + 1, Len(F)), k)
  BY DEF SendCut
<1> DEFINE from == IF heard = "first" THEN 0 ELSE n
           part == IF heard = "first" THEN SubSeq(F, 1, n)
                   ELSE SubSeq(F, n + 1, Len(F))
           len == IF heard = "first" THEN n ELSE size - n
           more == Tagged(part, k)
           L == Len(Stream)
<1>2. /\ sent \in Seq(Payloads) /\ Len(sent) \in Nat
      /\ held \in Seq(Entry) /\ wire \in Seq(Entry) /\ k \in Nat
      /\ Stream \in Seq(Entry) /\ L \in Nat
  BY StreamIs DEF LinkTyped
<1>3. F \in Seq(Byte) /\ Len(F) = size /\ size \in Nat /\ size >= 4
  BY PayloadsAre, FrameIs
<1>4. /\ part \in Seq(Byte) /\ Len(part) = len /\ len \in Nat
      /\ from \in Nat /\ from + len <= size
      /\ \A i \in 1 .. len : part[i] = F[from + i]
  <2>0. n \in 1 .. size - 1
    BY <1>3
  <2> HIDE DEF F, size
  <2>1. CASE heard = "first"
    <3>1. 1 \in 1 .. Len(F) + 1 /\ n \in 1 - 1 .. Len(F) /\ n - 1 + 1 = n
          /\ \A i \in 1 .. n : 1 + i - 1 = i /\ 0 + i = i
      BY <2>0, <1>3
    <3>2. /\ SubSeq(F, 1, n) \in Seq(Byte) /\ Len(SubSeq(F, 1, n)) = n - 1 + 1
          /\ \A i \in 1 .. n - 1 + 1 : SubSeq(F, 1, n)[i] = F[1 + i - 1]
      BY <3>1, <1>3, PieceIs
    <3>3. from = 0 /\ len = n /\ part = SubSeq(F, 1, n)
      BY <2>1
    <3> HIDE DEF from, len, part
    <3> QED
      BY <3>1, <3>2, <3>3, <2>0, <1>3
  <2>2. CASE heard = "last"
    <3>1. /\ n + 1 \in 1 .. Len(F) + 1 /\ Len(F) \in n + 1 - 1 .. Len(F)
          /\ Len(F) - (n + 1) + 1 = size - n
          /\ \A i \in 1 .. size - n : (n + 1) + i - 1 = n + i
      BY <2>0, <1>3
    <3>2. /\ SubSeq(F, n + 1, Len(F)) \in Seq(Byte)
          /\ Len(SubSeq(F, n + 1, Len(F))) = Len(F) - (n + 1) + 1
          /\ \A i \in 1 .. Len(F) - (n + 1) + 1 :
               SubSeq(F, n + 1, Len(F))[i] = F[(n + 1) + i - 1]
      BY <3>1, <1>3, PieceIs
    <3>3. from = n /\ len = size - n /\ part = SubSeq(F, n + 1, Len(F))
      BY <2>2
    <3> HIDE DEF from, len, part
    <3> QED
      BY <3>1, <3>2, <3>3, <2>0, <1>3
  <2> QED
    BY <2>1, <2>2
<1>5. /\ sent' = Append(sent, p) /\ wire' = wire \o more /\ held' = held
      /\ out' = out /\ Len(sent) < MaxSent /\ faults' = faults + 1
      /\ since' = MaxSent /\ port' = port
  BY <1>1 DEF SendCut, Disturb
<1> HIDE DEF part, len, from
<1>6. /\ more \in Seq(Entry) /\ Len(more) = len
      /\ \A i \in 1 .. len : more[i] = [byte |-> part[i], of |-> k]
  BY <1>2, <1>4, TaggedIs
<1> HIDE DEF more, F, size, k
<1>7. wire' \in Seq(Entry)
  BY <1>2, <1>5, <1>6, JoinIs
<1>8. Stream' = Stream \o more
  <2>1. (held \o wire) \o more = held \o (wire \o more)
    <3>1. held \in Seq(Entry) /\ wire \in Seq(Entry) /\ more \in Seq(Entry)
      BY <1>2, <1>6
    <3> QED
      BY <3>1, ConcatAssociative
  <2> QED
    BY <2>1, <1>5 DEF Stream
<1> DEFINE s == Stream \o more
<1>9. /\ s \in Seq(Entry) /\ Len(s) = L + len
      /\ \A i \in 1 .. L : s[i] = Stream[i]
      /\ \A i \in L + 1 .. L + len : s[i] = more[i - L] /\ i - L \in 1 .. len
  <2>1. /\ s \in Seq(Entry) /\ Len(s) = L + Len(more)
        /\ \A i \in 1 .. L : s[i] = Stream[i]
        /\ \A i \in L + 1 .. L + Len(more) :
             s[i] = more[i - L] /\ i - L \in 1 .. Len(more)
    <3>1. more \in Seq(Entry) /\ Stream \in Seq(Entry)
      BY <1>2, <1>6
    <3> QED
      BY <3>1, JoinIs
  <2> HIDE DEF s, L
  <2> QED
    BY <2>1, <1>6
<1> HIDE DEF s
<1> DEFINE h == [i \in 1 .. Len(s) |-> IF i <= L THEN i ELSE i + from]
<1>10. h \in [1 .. Len(s) -> 1 .. L + size]
  <2> HIDE DEF L
  <2> QED
    BY <1>2, <1>3, <1>4, <1>9
<1>11. \A i, j \in 1 .. Len(s) : i < j => h[i] < h[j]
  <2> HIDE DEF L
  <2> QED
    BY <1>2, <1>4, <1>9
<1>12. ASSUME NEW i \in 1 .. Len(s)
       PROVE  \/ h[i] <= L /\ s[i] = Stream[h[i]]
              \/ /\ h[i] > L
                 /\ s[i] = [byte |-> F[h[i] - L], of |-> k]
  <2> HIDE DEF L
  <2>1. CASE i <= L
    BY <2>1, <1>2, <1>9
  <2>2. CASE i > L
    <3>1. i \in L + 1 .. L + len /\ h[i] = i + from /\ h[i] > L
      BY <2>2, <1>2, <1>4, <1>9
    <3>2. s[i] = [byte |-> part[i - L], of |-> k] /\ i - L \in 1 .. len
      BY <3>1, <1>6, <1>9
    <3>3. part[i - L] = F[from + (i - L)]
      BY <3>2, <1>4
    <3>4. from + (i - L) = h[i] - L
      BY <3>1, <1>2, <1>4
    <3> HIDE DEF h
    <3> QED
      BY <3>1, <3>2, <3>3, <3>4
  <2> QED
    BY <2>1, <2>2, <1>2, <1>9
<1> HIDE DEF h
<1>13. Genuine(s, Append(sent, p)) /\ Handed(out, s, Append(sent, p))
  BY <1>9, <1>10, <1>11, <1>12, CutChecked DEF F, size, k
<1>14. Checked'
  BY <1>5, <1>8, <1>13 DEF Checked, s
<1>15. sent' \in Seq(Payloads) /\ Len(sent') <= MaxSent
  <2>1. sent' \in Seq(Payloads) /\ Len(sent') = Len(sent) + 1
    BY <1>2, <1>5, AppendProperties
  <2> QED
    BY <2>1, <1>2, <1>5, LinkAssumption
<1>16. LinkTyped'
  BY <1>5, <1>7, <1>15, LinkAssumption DEF LinkTyped
<1> QED
  BY <1>14, <1>16

LEMMA SendUnheardChecked ==
  ASSUME LinkTyped, Checked, NEW p \in Payloads, SendUnheard(p)
  PROVE  LinkTyped' /\ Checked'
<1>1. /\ sent \in Seq(Payloads) /\ Len(sent) \in Nat
      /\ Stream \in Seq(Entry) /\ Len(Stream) \in Nat
  BY StreamIs DEF LinkTyped
<1>2. /\ sent' = Append(sent, p) /\ Len(sent) < MaxSent
      /\ UNCHANGED <<wire, port, held, out, since, faults>>
  BY DEF SendUnheard
<1> DEFINE h == [i \in 1 .. Len(Stream) |-> i]
<1>3. FrameSize(Len(p)) \in Nat
  BY PayloadsAre, FrameIs
<1>4. h \in [1 .. Len(Stream) -> 1 .. Len(Stream) + FrameSize(Len(p))]
  BY <1>1, <1>3
<1>5. /\ \A i, j \in 1 .. Len(Stream) : i < j => h[i] < h[j]
      /\ \A i \in 1 .. Len(Stream) :
           h[i] <= Len(Stream) /\ Stream[i] = Stream[h[i]]
  BY <1>1
<1> HIDE DEF h
<1>6. /\ Genuine(Stream, Append(sent, p))
      /\ Handed(out, Stream, Append(sent, p))
  BY <1>1, <1>4, <1>5, CutChecked
<1>7. Checked'
  BY <1>2, <1>6 DEF Checked, Stream
<1>8. sent' \in Seq(Payloads) /\ Len(sent') <= MaxSent
  <2>1. sent' \in Seq(Payloads) /\ Len(sent') = Len(sent) + 1
    BY <1>1, <1>2, AppendProperties
  <2> QED
    BY <2>1, <1>1, <1>2, LinkAssumption
<1>9. LinkTyped'
  BY <1>2, <1>8 DEF LinkTyped
<1> QED
  BY <1>7, <1>9

LEMMA LoseChecked ==
  ASSUME LinkTyped, Checked, Lose
  PROVE  LinkTyped' /\ Checked'
<1>1. PICK x \in 1 .. Len(wire) :
        wire' = SubSeq(wire, 1, x - 1) \o SubSeq(wire, x + 1, Len(wire))
  BY DEF Lose
<1>2. /\ UNCHANGED <<sent, port, held, out>>
      /\ faults' = faults + 1 /\ since' = MaxSent
  BY DEF Lose, Disturb
<1>3. /\ held \in Seq(Entry) /\ wire \in Seq(Entry)
      /\ Len(held) \in Nat /\ Len(wire) \in Nat
  BY DEF LinkTyped
<1> DEFINE a == SubSeq(wire, 1, x - 1)
           b == SubSeq(wire, x + 1, Len(wire))
           n == Len(wire)
<1>4. /\ a \in Seq(Entry) /\ Len(a) = x - 1
      /\ \A i \in 1 .. x - 1 : a[i] = wire[i]
  <2>1. 1 \in 1 .. Len(wire) + 1 /\ x - 1 \in 1 - 1 .. Len(wire)
        /\ x - 1 - 1 + 1 = x - 1 /\ \A i \in 1 .. x - 1 : 1 + i - 1 = i
    BY <1>3
  <2>2. /\ a \in Seq(Entry) /\ Len(a) = x - 1 - 1 + 1
        /\ \A i \in 1 .. x - 1 - 1 + 1 : a[i] = wire[1 + i - 1]
    BY <2>1, <1>3, PieceIs
  <2> HIDE DEF a
  <2> QED
    BY <2>1, <2>2
<1>5. /\ b \in Seq(Entry) /\ Len(b) = n - x
      /\ \A i \in 1 .. n - x : b[i] = wire[x + i]
  <2>1. x + 1 \in 1 .. Len(wire) + 1 /\ Len(wire) \in x + 1 - 1 .. Len(wire)
        /\ n - (x + 1) + 1 = n - x /\ \A i \in 1 .. n - x : x + 1 + i - 1 = x + i
    BY <1>3
  <2>2. /\ b \in Seq(Entry) /\ Len(b) = n - (x + 1) + 1
        /\ \A i \in 1 .. n - (x + 1) + 1 : b[i] = wire[(x + 1) + i - 1]
    <3> DEFINE w == wire y == x + 1
    <3>1. w \in Seq(Entry) /\ y \in 1 .. Len(w) + 1 /\ Len(w) \in y - 1 .. Len(w)
      BY <2>1, <1>3
    <3> HIDE DEF w, y
    <3>2. /\ SubSeq(w, y, Len(w)) \in Seq(Entry)
          /\ Len(SubSeq(w, y, Len(w))) = Len(w) - y + 1
          /\ \A i \in 1 .. Len(w) - y + 1 : SubSeq(w, y, Len(w))[i] = w[y + i - 1]
      BY <3>1, PieceIs
    <3> QED
      BY <3>2 DEF w, y
  <2> HIDE DEF b, n
  <2> QED
    BY <2>1, <2>2
<1> HIDE DEF a, b
<1>6. /\ wire' \in Seq(Entry) /\ Len(wire') = n - 1
      /\ \A i \in 1 .. x - 1 : wire'[i] = wire[i]
      /\ \A i \in x .. n - 1 : wire'[i] = wire[i + 1]
  <2> DEFINE c == a \o b
  <2>1. /\ c \in Seq(Entry) /\ Len(c) = Len(a) + Len(b)
        /\ \A i \in 1 .. Len(a) : c[i] = a[i]
        /\ \A i \in Len(a) + 1 .. Len(a) + Len(b) :
             c[i] = b[i - Len(a)] /\ i - Len(a) \in 1 .. Len(b)
    <3>1. a \in Seq(Entry) /\ b \in Seq(Entry)
      BY <1>4, <1>5
    <3> QED
      BY <3>1, JoinIs
  <2> HIDE DEF c
  <2>2. Len(c) = n - 1 /\ \A i \in 1 .. x - 1 : c[i] = wire[i]
    BY <1>3, <1>4, <1>5, <2>1
  <2>3. ASSUME NEW i \in x .. n - 1 PROVE c[i] = wire[i + 1]
    <3>1. i \in Len(a) + 1 .. Len(a) + Len(b) /\ i - Len(a) = i - x + 1
          /\ x + (i - x + 1) = i + 1
      BY <1>3, <1>4, <1>5
    <3>2. c[i] = b[i - x + 1] /\ i - x + 1 \in 1 .. n - x
      BY <3>1, <2>1, <1>5
    <3> QED
      BY <3>1, <3>2, <1>5
  <2>4. wire' = c
    BY <1>1 DEF a, b, c
  <2> QED
    BY <2>1, <2>2, <2>3, <2>4
<1>7. held' \in Seq(Entry)
  BY <1>2, <1>3
<1> DEFINE L == Len(held)
           s == Stream'
           h == [i \in 1 .. Len(s) |-> IF i < L + x THEN i ELSE i + 1]
<1>8. /\ s \in Seq(Entry) /\ Len(s) = L + n - 1
      /\ \A i \in 1 .. L : s[i] = held[i]
      /\ \A i \in L + 1 .. L + n - 1 :
           s[i] = wire'[i - L] /\ i - L \in 1 .. n - 1
  <2>1. /\ s \in Seq(Entry)
        /\ Len(held') \in Nat /\ Len(wire') \in Nat
        /\ Len(s) = Len(held') + Len(wire')
        /\ \A i \in 1 .. Len(held') : s[i] = held'[i]
        /\ \A i \in Len(held') + 1 .. Len(held') + Len(wire') :
             s[i] = wire'[i - Len(held')] /\ i - Len(held') \in 1 .. Len(wire')
    BY <1>6, <1>7, StreamNext
  <2> HIDE DEF s
  <2> QED
    BY <2>1, <1>2, <1>3, <1>6
<1>9. /\ Stream \in Seq(Entry) /\ Len(Stream) = L + n
      /\ \A i \in 1 .. L : Stream[i] = held[i]
      /\ \A i \in 1 .. n : Stream[L + i] = wire[i]
  BY <1>3, StreamIs
<1> HIDE DEF s, L, n
<1>10. L \in Nat /\ n \in Nat /\ x \in 1 .. n
  BY <1>3 DEF L, n
<1>11. ASSUME NEW i \in 1 .. L + n - 1
       PROVE  s[i] = Stream[IF i < L + x THEN i ELSE i + 1]
  <2>1. CASE i <= L
    BY <2>1, <1>8, <1>9, <1>10
  <2>2. CASE i > L /\ i < L + x
    <3>1. i - L \in 1 .. x - 1 /\ i - L \in 1 .. n /\ L + (i - L) = i
          /\ i \in L + 1 .. L + n - 1
      BY <2>2, <1>10
    <3> QED
      BY <2>2, <3>1, <1>6, <1>8, <1>9
  <2>3. CASE i >= L + x
    <3>1. i - L \in x .. n - 1 /\ i - L + 1 \in 1 .. n /\ L + (i - L + 1) = i + 1
          /\ i \in L + 1 .. L + n - 1 /\ ~ (i < L + x)
      BY <2>3, <1>10
    <3> QED
      BY <3>1, <1>6, <1>8, <1>9
  <2> QED
    BY <2>1, <2>2, <2>3, <1>10
<1>12. h \in [1 .. Len(s) -> 1 .. Len(Stream)]
  BY <1>8, <1>9, <1>10
<1>13. \A i, j \in 1 .. Len(s) : i < j => h[i] < h[j]
  BY <1>8, <1>10
<1>14. \A i \in 1 .. Len(s) : s[i] = Stream[h[i]]
  BY <1>8, <1>11
<1> HIDE DEF h
<1>15. Genuine(s, sent) /\ Handed(out, s, sent)
  BY <1>8, <1>9, <1>12, <1>13, <1>14, FewerChecked DEF Checked
<1>16. Checked'
  BY <1>2, <1>15 DEF Checked, s
<1>17. LinkTyped'
  BY <1>2, <1>6, <1>7, LinkAssumption DEF LinkTyped
<1> QED
  BY <1>16, <1>17

LEMMA ChangeChecked ==
  ASSUME LinkTyped, Checked, Change
  PROVE  LinkTyped' /\ Checked'
<1>1. PICK x \in 1 .. Len(wire), b \in NoiseBytes :
        wire' = [wire EXCEPT ![x].byte = b]
  BY DEF Change
<1>2. /\ UNCHANGED <<sent, port, held, out>>
      /\ faults' = faults + 1 /\ since' = MaxSent
  BY DEF Change, Disturb
<1>3. /\ held \in Seq(Entry) /\ wire \in Seq(Entry)
      /\ Len(held) \in Nat /\ Len(wire) \in Nat
  BY DEF LinkTyped
<1>4. b \in Plain /\ b \in Byte
  <2>1. b \in {<<c>> : c \in 0 .. 255}
    BY LinkAssumption
  <2>2. PICK c \in 0 .. 255 : b = <<c>>
    BY <2>1
  <2>3. b \in Plain
    BY <2>2 DEF Plain
  <2> QED
    BY <2>3 DEF Byte
<1> DEFINE n == Len(wire)
<1>5. /\ wire' \in Seq(Entry) /\ Len(wire') = n
      /\ \A i \in 1 .. n : /\ wire'[i].of = wire[i].of
                           /\ wire'[i].byte \in Plain \cup {wire[i].byte}
  <2>0. \A i \in 1 .. n : wire[i] \in Entry
    BY <1>3, ElementOfSeq
  <2>1. wire' = [i \in 1 .. n |-> IF i = x THEN [wire[x] EXCEPT !.byte = b]
                                  ELSE wire[i]]
    <3> HIDE DEF Entry
    <3>1. wire = [i \in 1 .. n |-> wire[i]]
      BY <1>3, IsASeq
    <3> DEFINE e == [wire[x] EXCEPT !.byte = b]
    <3>2. wire' = [wire EXCEPT ![x] = e]
      BY <1>1
    <3> HIDE DEF e, n
    <3>3. wire' = [i \in 1 .. n |-> IF i = x THEN e ELSE wire[i]]
      BY <3>1, <3>2
    <3> QED
      BY <3>3 DEF e
  <2>2. [wire[x] EXCEPT !.byte = b] = [byte |-> b, of |-> wire[x].of]
        /\ wire[x].of \in Nat
    BY <2>0 DEF Entry
  <2>3. [byte |-> b, of |-> wire[x].of] \in Entry
    BY <2>2, <1>4 DEF Entry
  <2>4. \A i \in 1 .. n : wire'[i] \in Entry
    BY <2>0, <2>1, <2>2, <2>3
  <2>5. wire' \in Seq(Entry) /\ Len(wire') = n
    <3> HIDE DEF Entry
    <3>1. wire' = [i \in 1 .. n |-> wire'[i]]
      BY <2>1
    <3> HIDE DEF n
    <3>2. n \in Nat
      BY <1>3 DEF n
    <3> QED
      BY <2>4, <3>1, <3>2, IsASeq
  <2>6. ASSUME NEW i \in 1 .. n
        PROVE  /\ wire'[i].of = wire[i].of
               /\ wire'[i].byte \in Plain \cup {wire[i].byte}
    <3>1. CASE i = x
      <4>1. wire'[i] = [byte |-> b, of |-> wire[x].of]
        BY <2>1, <2>2, <3>1
      <4> QED
        BY <4>1, <3>1, <1>4
    <3>2. CASE i # x
      BY <2>1, <3>2
    <3> QED
      BY <3>1, <3>2
  <2> QED
    BY <2>5, <2>6
<1>6. held' \in Seq(Entry)
  BY <1>2, <1>3
<1> DEFINE L == Len(held)
           s == Stream'
           h == [i \in 1 .. Len(s) |-> i]
<1>7. /\ s \in Seq(Entry) /\ Len(s) = L + n
      /\ \A i \in 1 .. L : s[i] = held[i]
      /\ \A i \in L + 1 .. L + n : s[i] = wire'[i - L] /\ i - L \in 1 .. n
  <2>1. /\ s \in Seq(Entry)
        /\ Len(s) = Len(held') + Len(wire')
        /\ \A i \in 1 .. Len(held') : s[i] = held'[i]
        /\ \A i \in Len(held') + 1 .. Len(held') + Len(wire') :
             s[i] = wire'[i - Len(held')] /\ i - Len(held') \in 1 .. Len(wire')
    BY <1>5, <1>6, StreamNext
  <2> HIDE DEF s
  <2> QED
    BY <2>1, <1>2, <1>3, <1>5
<1>8. /\ Stream \in Seq(Entry) /\ Len(Stream) = L + n
      /\ \A i \in 1 .. L : Stream[i] = held[i]
      /\ \A i \in 1 .. n : Stream[L + i] = wire[i]
  BY <1>3, StreamIs
<1> HIDE DEF s, L, n
<1>9. L \in Nat /\ n \in Nat
  BY <1>3 DEF L, n
<1>10. ASSUME NEW i \in 1 .. L + n
       PROVE  /\ s[i].of = Stream[i].of
              /\ s[i].byte \in Plain \cup {Stream[i].byte}
  <2>1. CASE i <= L
    BY <2>1, <1>7, <1>8, <1>9
  <2>2. CASE i > L
    <3>1. i \in L + 1 .. L + n /\ i - L \in 1 .. n /\ L + (i - L) = i
      BY <2>2, <1>9
    <3> QED
      BY <3>1, <1>5, <1>7, <1>8
  <2> QED
    BY <2>1, <2>2, <1>9
<1>11. /\ h \in [1 .. Len(s) -> 1 .. Len(Stream)]
       /\ \A i, j \in 1 .. Len(s) : i < j => h[i] < h[j]
       /\ \A i \in 1 .. Len(s) : /\ s[i].of = Stream[h[i]].of
                                 /\ s[i].byte \in Plain \cup {Stream[h[i]].byte}
  BY <1>7, <1>8, <1>10
<1> HIDE DEF h
<1>12. Genuine(s, sent) /\ Handed(out, s, sent)
  BY <1>7, <1>8, <1>11, FewerChecked DEF Checked
<1>13. Checked'
  BY <1>2, <1>12 DEF Checked, s
<1>14. LinkTyped'
  BY <1>2, <1>5, <1>6, LinkAssumption DEF LinkTyped
<1> QED
  BY <1>13, <1>14

LEMMA HangupChecked ==
  ASSUME LinkTyped, Checked, Hangup
  PROVE  LinkTyped' /\ Checked'
<1>1. PICK n \in 0 .. Len(wire) : wire' = SubSeq(wire, 1, n)
  BY DEF Hangup
<1>2. /\ UNCHANGED <<sent, held, out>> /\ port' = "hung"
      /\ faults' = faults + 1 /\ since' = MaxSent
  BY DEF Hangup, Disturb
<1>3. /\ held \in Seq(Entry) /\ wire \in Seq(Entry)
      /\ Len(held) \in Nat /\ Len(wire) \in Nat
  BY DEF LinkTyped
<1>4. /\ wire' \in Seq(Entry) /\ Len(wire') = n
      /\ \A i \in 1 .. n : wire'[i] = wire[i]
  <2>1. 1 \in 1 .. Len(wire) + 1 /\ n \in 1 - 1 .. Len(wire)
        /\ n - 1 + 1 = n /\ \A i \in 1 .. n : 1 + i - 1 = i
    BY <1>3
  <2> DEFINE a == SubSeq(wire, 1, n)
  <2>2. /\ a \in Seq(Entry) /\ Len(a) = n - 1 + 1
        /\ \A i \in 1 .. n - 1 + 1 : a[i] = wire[1 + i - 1]
    BY <2>1, <1>3, PieceIs
  <2>3. wire' = a
    BY <1>1
  <2> HIDE DEF a
  <2> QED
    BY <2>1, <2>2, <2>3
<1>5. held' \in Seq(Entry)
  BY <1>2, <1>3
<1> DEFINE L == Len(held)
           s == Stream'
           h == [i \in 1 .. Len(s) |-> i]
<1>6. /\ s \in Seq(Entry) /\ Len(s) = L + n
      /\ \A i \in 1 .. L : s[i] = held[i]
      /\ \A i \in L + 1 .. L + n : s[i] = wire'[i - L] /\ i - L \in 1 .. n
  <2>1. /\ s \in Seq(Entry)
        /\ Len(s) = Len(held') + Len(wire')
        /\ \A i \in 1 .. Len(held') : s[i] = held'[i]
        /\ \A i \in Len(held') + 1 .. Len(held') + Len(wire') :
             s[i] = wire'[i - Len(held')] /\ i - Len(held') \in 1 .. Len(wire')
    BY <1>4, <1>5, StreamNext
  <2> HIDE DEF s
  <2> QED
    BY <2>1, <1>2, <1>3, <1>4
<1>7. /\ Stream \in Seq(Entry) /\ Len(Stream) = L + Len(wire)
      /\ \A i \in 1 .. L : Stream[i] = held[i]
      /\ \A i \in 1 .. Len(wire) : Stream[L + i] = wire[i]
  BY <1>3, StreamIs
<1> HIDE DEF s, L
<1>8. L \in Nat /\ n \in Nat /\ n <= Len(wire)
  BY <1>3 DEF L
<1>9. ASSUME NEW i \in 1 .. L + n PROVE s[i] = Stream[i]
  <2>1. CASE i <= L
    BY <2>1, <1>6, <1>7, <1>8
  <2>2. CASE i > L
    <3>1. i \in L + 1 .. L + n /\ i - L \in 1 .. n /\ L + (i - L) = i
          /\ i - L \in 1 .. Len(wire)
      BY <2>2, <1>3, <1>8
    <3> QED
      BY <3>1, <1>4, <1>6, <1>7
  <2> QED
    BY <2>1, <2>2, <1>8
<1>10. /\ h \in [1 .. Len(s) -> 1 .. Len(Stream)]
       /\ \A i, j \in 1 .. Len(s) : i < j => h[i] < h[j]
       /\ \A i \in 1 .. Len(s) : s[i] = Stream[h[i]]
  BY <1>3, <1>6, <1>7, <1>8, <1>9
<1> HIDE DEF h
<1>11. Genuine(s, sent) /\ Handed(out, s, sent)
  BY <1>6, <1>7, <1>10, FewerChecked DEF Checked
<1>12. Checked'
  BY <1>2, <1>11 DEF Checked, s
<1>13. LinkTyped'
  BY <1>2, <1>4, <1>5, LinkAssumption DEF LinkTyped
<1> QED
  BY <1>12, <1>13

LEMMA ReopenChecked ==
  ASSUME LinkTyped, Checked, Reopen
  PROVE  LinkTyped' /\ Checked'
<1>1. /\ wire = <<>> /\ held' = <<>> /\ port' = "open" /\ since' = Len(sent)
      /\ UNCHANGED <<sent, wire, out, faults>>
  BY DEF Reopen
<1>2. Stream' = <<>> /\ Len(Stream') = 0
  BY <1>1 DEF Stream
<1>3. Checked'
  BY <1>1, <1>2 DEF Checked, Genuine, Handed
<1>4. LinkTyped'
  <2>1. Len(sent) \in 0 .. MaxSent
    BY LinkAssumption DEF LinkTyped
  <2> QED
    BY <1>1, <2>1 DEF LinkTyped
<1> QED
  BY <1>3, <1>4

(* Bytes whose checksum is right and is that of a chunk are this chunk. *)
LEMMA IntactIsFrame ==
  ASSUME NEW bytes \in Seq(Byte), NEW a \in 1 .. Len(bytes),
         NEW b \in a + 1 .. Len(bytes), Intact(SubSeq(bytes, a, b)),
         NEW p \in Payload, bytes[b] = Checksum(p)
  PROVE  SubSeq(bytes, a, b) = Frame(p)
<1> DEFINE size == FrameSize(Len(p))
           F == Frame(p)
           c == SubSeq(bytes, a, b - 1)
           d == SubSeq(F, 1, size - 1)
           s == SubSeq(bytes, a, b)
           n == b - a + 1
<1>1. /\ F \in Seq(Byte) /\ Len(F) = size /\ size \in Nat /\ size >= 4
      /\ F[size] = Crc(d)
  BY FrameIs
<1>2. Len(bytes) \in Nat /\ n \in Nat /\ n >= 2
  OBVIOUS
<1>3. bytes[b] = Crc(c)
  BY IntactEnds
<1>4. c = d
  BY <1>3, CrcTells DEF Checksum
<1>5. /\ Len(c) = n - 1
      /\ \A i \in 1 .. n - 1 : c[i] = bytes[a + i - 1]
  <2>1. b - 1 \in a - 1 .. Len(bytes) /\ b - 1 - a + 1 = n - 1
        /\ a \in 1 .. Len(bytes) + 1
    BY <1>2
  <2>2. /\ Len(c) = b - 1 - a + 1
        /\ \A i \in 1 .. b - 1 - a + 1 : c[i] = bytes[a + i - 1]
    BY <2>1, PieceIs
  <2> HIDE DEF c, n
  <2> QED
    BY <2>1, <2>2
<1>6. /\ s \in Seq(Byte) /\ Len(s) = n
      /\ \A i \in 1 .. n : s[i] = bytes[a + i - 1]
  <2>1. b \in a - 1 .. Len(bytes) /\ a \in 1 .. Len(bytes) + 1
    BY <1>2
  <2>2. /\ s \in Seq(Byte) /\ Len(s) = b - a + 1
        /\ \A i \in 1 .. b - a + 1 : s[i] = bytes[a + i - 1]
    BY <2>1, PieceIs
  <2> HIDE DEF s
  <2> QED
    BY <2>2
<1>7. /\ Len(d) = size - 1
      /\ \A i \in 1 .. size - 1 : d[i] = F[i]
  <2>1. 1 \in 1 .. Len(F) + 1 /\ size - 1 \in 1 - 1 .. Len(F)
        /\ size - 1 - 1 + 1 = size - 1 /\ \A i \in 1 .. size - 1 : 1 + i - 1 = i
    BY <1>1
  <2> HIDE DEF F, size
  <2>2. /\ Len(d) = size - 1 - 1 + 1
        /\ \A i \in 1 .. size - 1 - 1 + 1 : d[i] = F[1 + i - 1]
    BY <2>1, <1>1, PieceIs
  <2> HIDE DEF d
  <2> QED
    BY <2>1, <2>2
<1> HIDE DEF c, d, s, F, size
<1>8. n = size
  BY <1>1, <1>2, <1>4, <1>5, <1>7
<1>9. \A i \in 1 .. n : s[i] = F[i]
  <2>1. SUFFICES ASSUME NEW i \in 1 .. n PROVE s[i] = F[i]
    OBVIOUS
  <2>2. CASE i = n
    <3>1. s[i] = bytes[b]
      BY <2>2, <1>2, <1>6
    <3> QED
      BY <3>1, <2>2, <1>1, <1>3, <1>4, <1>8
  <2>3. CASE i \in 1 .. n - 1
    BY <2>3, <1>4, <1>5, <1>6, <1>7, <1>8
  <2> QED
    BY <2>2, <2>3, <1>2
<1>10. s = F
  BY <1>1, <1>6, <1>8, <1>9, SeqEqual
<1> QED
  BY <1>10 DEF s, F

(* What remains of the stream after a search. *)
LEMMA RestIs ==
  ASSUME LinkTyped, NEW m, NEW bytes, NEW found, ReadTells(m, bytes, found)
  PROVE  /\ Stream \in Seq(Entry) /\ Len(Stream) \in Nat
         /\ m \in 1 .. Len(Stream) /\ found.keep \in 1 .. m + 1
         /\ Stream' \in Seq(Entry)
         /\ Len(Stream') = Len(Stream) - found.keep + 1
         /\ \A i \in 1 .. Len(Stream') : Stream'[i] = Stream[found.keep + i - 1]
<1> DEFINE s == Stream K == found.keep L == Len(s)
<1>1. s \in Seq(Entry) /\ L \in Nat /\ Len(held) \in Nat
  BY StreamIs DEF LinkTyped
<1>2. m \in 1 .. L /\ K \in 1 .. m + 1
  BY <1>1 DEF ReadTells, Result
<1>3. Stream' = SubSeq(s, K, L)
  BY DEF ReadTells
<1> HIDE DEF s, K
<1>4. K \in 1 .. Len(s) + 1 /\ L \in K - 1 .. Len(s)
  BY <1>1, <1>2
<1>5. /\ SubSeq(s, K, L) \in Seq(Entry)
      /\ Len(SubSeq(s, K, L)) = L - K + 1
      /\ \A i \in 1 .. L - K + 1 : SubSeq(s, K, L)[i] = s[K + i - 1]
  BY <1>1, <1>4, PieceIs
<1> QED
  BY <1>1, <1>2, <1>3, <1>5 DEF s, K

LEMMA ReadChecked ==
  ASSUME LinkTyped, Checked, Read
  PROVE  LinkTyped' /\ Checked'
<1>1. PICK m, bytes, found : ReadTells(m, bytes, found)
  BY ReadIs DEF LinkTyped
<1> DEFINE K == found.keep
           F == found.frames
           L == Len(Stream)
           n == Len(out)
           N == Len(F)
<1>2. /\ Stream \in Seq(Entry) /\ L \in Nat /\ m \in 1 .. L /\ K \in 1 .. m + 1
      /\ Stream' \in Seq(Entry) /\ Len(Stream') = L - K + 1
      /\ \A i \in 1 .. Len(Stream') : Stream'[i] = Stream[K + i - 1]
  BY <1>1, RestIs
<1>3. UNCHANGED <<sent, port, since, faults>>
  BY DEF Read
<1>4. /\ bytes \in Seq(Byte) /\ Len(bytes) = m
      /\ \A i \in 1 .. m : bytes[i] = Stream[i].byte
  BY <1>1 DEF ReadTells
<1>5. /\ F \in Seq((1 .. m) \X (1 .. m))
      /\ \A j \in 1 .. N :
           /\ F[j][1] < F[j][2] /\ F[j][2] < K
           /\ Intact(SubSeq(bytes, F[j][1], F[j][2]))
      /\ \A j, l \in 1 .. N : j < l => F[j][2] < F[l][1]
  BY <1>1, <1>4 DEF ReadTells, Result
<1>6. /\ Len(out') = n + N
      /\ out' \in Seq([of : Nat, bytes : Seq(Byte)])
      /\ \A i \in 1 .. n : out'[i] = out[i]
      /\ \A j \in 1 .. N :
           out'[n + j] = [of |-> Stream[F[j][2]].of,
                          bytes |-> SubSeq(bytes, F[j][1], F[j][2])]
  BY <1>1 DEF ReadTells
<1>7. n \in Nat /\ N \in Nat /\ sent \in Seq(Payloads) /\ Len(sent) \in Nat
  <2>1. N \in Nat
    <3> HIDE DEF F
    <3> QED
      BY <1>5
  <2> QED
    BY <2>1 DEF LinkTyped
<1> HIDE DEF K, F, L, N, n
<1>8. ASSUME NEW j \in 1 .. N
      PROVE  /\ F[j][1] \in 1 .. m /\ F[j][2] \in 1 .. m
             /\ F[j][1] < F[j][2] /\ F[j][2] < K
             /\ Stream[F[j][2]].byte \notin Plain
             /\ Stream[F[j][2]].of \in 1 .. Len(sent)
             /\ SubSeq(bytes, F[j][1], F[j][2]) = Frame(sent[Stream[F[j][2]].of])
  <2>0. F[j] \in (1 .. m) \X (1 .. m)
    BY <1>5, <1>7, ElementOfSeq DEF N
  <2>1. F[j][1] \in 1 .. m /\ F[j][2] \in 1 .. m
    BY <2>0
  <2> DEFINE a == F[j][1] b == F[j][2] k == Stream[b].of
  <2>2. /\ a \in 1 .. Len(bytes) /\ b \in a + 1 .. Len(bytes) /\ a < b /\ b < K
        /\ b \in 1 .. L /\ b \in 1 .. m
        /\ Intact(SubSeq(bytes, a, b))
    <3>1. /\ a \in 1 .. m /\ b \in 1 .. m /\ a < b /\ b < K
          /\ Intact(SubSeq(bytes, a, b))
      BY <2>1, <1>5
    <3> HIDE DEF a, b
    <3> QED
      BY <3>1, <1>2, <1>4
  <2> HIDE DEF a, b
  <2>3. bytes[b] = Crc(SubSeq(bytes, a, b - 1))
    BY <2>2, <1>4, IntactEnds
  <2>4. Stream[b].byte = bytes[b] /\ bytes[b] \notin Plain
    BY <2>2, <2>3, <1>4, CrcTells
  <2>5. k \in 1 .. Len(sent) /\ Stream[b].byte \in Plain \cup {Checksum(sent[k])}
    BY <2>2 DEF Checked, Genuine, L
  <2>6. sent[k] \in Payload
    BY <2>5, <1>7, PayloadsAre, ElementOfSeq
  <2>7. bytes[b] = Checksum(sent[k])
    BY <2>4, <2>5
  <2>8. SubSeq(bytes, a, b) = Frame(sent[k])
    BY <2>2, <2>6, <2>7, <1>4, IntactIsFrame
  <2> QED
    BY <2>1, <2>2, <2>4, <2>5, <2>8 DEF a, b
<1> DEFINE s == Stream'
           h == [i \in 1 .. Len(s) |-> K + i - 1]
<1>9. /\ h \in [1 .. Len(s) -> 1 .. Len(Stream)]
      /\ \A i, j \in 1 .. Len(s) : i < j => h[i] < h[j]
      /\ \A i \in 1 .. Len(s) : s[i] = Stream[h[i]]
  BY <1>2 DEF L
<1>10. s \in Seq(Entry)
  BY <1>2
<1> HIDE DEF s, h
<1>11. Genuine(s, sent) /\ Handed(out, s, sent)
  BY <1>2, <1>9, <1>10, FewerChecked DEF Checked
<1>12. \A i \in 1 .. n : out[i].of \in Nat
  <2>1. out \in Seq([of : Nat, bytes : Seq(Byte)])
    BY DEF LinkTyped
  <2>2. \A i \in 1 .. n : out[i] \in [of : Nat, bytes : Seq(Byte)]
    BY <2>1, ElementOfSeq DEF n
  <2> QED
    BY <2>2
<1>13. ASSUME NEW i \in 1 .. n + N
       PROVE  \/ i \in 1 .. n /\ out'[i] = out[i]
              \/ /\ i - n \in 1 .. N
                 /\ out'[i].of = Stream[F[i - n][2]].of
                 /\ out'[i].bytes = SubSeq(bytes, F[i - n][1], F[i - n][2])
  <2>1. CASE i <= n
    BY <2>1, <1>6, <1>7
  <2>2. CASE i > n
    <3>1. i - n \in 1 .. N /\ n + (i - n) = i
      BY <2>2, <1>7
    <3> DEFINE A == Stream[F[i - n][2]].of
               B == SubSeq(bytes, F[i - n][1], F[i - n][2])
    <3>2. out'[n + (i - n)] = [of |-> A, bytes |-> B]
      BY <3>1, <1>6
    <3> HIDE DEF A, B
    <3>3. out'[i].of = A /\ out'[i].bytes = B
      BY <3>1, <3>2
    <3> QED
      BY <3>1, <3>3 DEF A, B
  <2> QED
    BY <2>1, <2>2, <1>7
<1>14. Handed(out', s, sent)
  <2>1. ASSUME NEW i \in 1 .. n + N
        PROVE  /\ out'[i].of \in 1 .. Len(sent)
               /\ out'[i].bytes = Frame(sent[out'[i].of])
    <3>1. CASE i \in 1 .. n /\ out'[i] = out[i]
      BY <3>1, <1>11 DEF Handed, n
    <3>2. CASE /\ i - n \in 1 .. N
               /\ out'[i].of = Stream[F[i - n][2]].of
               /\ out'[i].bytes = SubSeq(bytes, F[i - n][1], F[i - n][2])
      BY <3>2, <1>8
    <3> QED
      BY <3>1, <3>2, <1>13
  <2>2. ASSUME NEW i \in 1 .. n + N, NEW j \in 1 .. n + N, i < j
        PROVE  out'[i].of < out'[j].of
    <3>1. CASE j \in 1 .. n
      <4>1. i \in 1 .. n
        BY <2>2, <3>1, <1>7
      <4> QED
        BY <4>1, <3>1, <2>2, <1>6, <1>11 DEF Handed, n
    <3>2. CASE j \notin 1 .. n
      <4> DEFINE y == F[j - n][2]
      <4>1. j - n \in 1 .. N /\ out'[j].of = Stream[y].of
        BY <3>2, <1>13
      <4>2. y \in 1 .. L /\ Stream[y].byte \notin Plain
        <5>1. y \in 1 .. m /\ Stream[y].byte \notin Plain
          BY <4>1, <1>8
        <5> HIDE DEF y
        <5> QED
          BY <5>1, <1>2
      <4> HIDE DEF y
      <4>3. CASE i \in 1 .. n
        <5>1. out[i].of < Stream[y].of
          BY <4>2, <4>3 DEF Checked, Handed, n, L
        <5> QED
          BY <5>1, <4>1, <4>3, <1>6
      <4>4. CASE i \notin 1 .. n
        <5> DEFINE x == F[i - n][2]
        <5>1. i - n \in 1 .. N /\ out'[i].of = Stream[x].of
          BY <4>4, <1>13
        <5>2. x \in 1 .. L /\ Stream[x].byte \notin Plain /\ x < y
          <6>1. x \in 1 .. m /\ Stream[x].byte \notin Plain
            BY <5>1, <1>8
          <6>2. i - n < j - n
            BY <2>2, <1>7
          <6>3. x < F[j - n][1]
            BY <6>2, <4>1, <5>1, <1>5
          <6>4. F[j - n][1] < y /\ F[j - n][1] \in 1 .. m /\ y \in 1 .. m
            BY <4>1, <1>8 DEF y
          <6> HIDE DEF x
          <6> QED
            BY <6>1, <6>3, <6>4, <1>2
        <5> HIDE DEF x
        <5>3. Stream[x].of < Stream[y].of
          BY <4>2, <5>2 DEF Checked, Genuine, L
        <5> QED
          BY <5>1, <5>3, <4>1
      <4> QED
        BY <4>3, <4>4
    <3> QED
      BY <3>1, <3>2
  <2>3. ASSUME NEW i \in 1 .. n + N, NEW j \in 1 .. Len(s), s[j].byte \notin Plain
        PROVE  out'[i].of < s[j].of
    <3>1. CASE i \in 1 .. n
      BY <3>1, <2>3, <1>6, <1>11 DEF Handed, n
    <3>2. CASE i \notin 1 .. n
      <4> DEFINE x == F[i - n][2] y == K + j - 1
      <4>1. i - n \in 1 .. N /\ out'[i].of = Stream[x].of
        BY <3>2, <1>13
      <4>2. x \in 1 .. m /\ Stream[x].byte \notin Plain /\ x < K
        BY <4>1, <1>8
      <4> HIDE DEF x
      <4>3. y \in 1 .. L /\ x < y /\ x \in 1 .. L
        BY <4>2, <1>2 DEF s
      <4>4. s[j] = Stream[y]
        BY <1>2 DEF s
      <4> HIDE DEF y
      <4>5. Stream[x].of < Stream[y].of
        BY <4>2, <4>3, <4>4, <2>3 DEF Checked, Genuine, L
      <4> QED
        BY <4>1, <4>4, <4>5
    <3> QED
      BY <3>1, <3>2
  <2> QED
    BY <2>1, <2>2, <2>3, <1>6 DEF Handed
<1>15. Checked'
  BY <1>3, <1>11, <1>14 DEF Checked, s
<1>16. LinkTyped'
  <2>1. held' \in Seq(Entry) /\ wire' \in Seq(Entry)
    BY <1>1 DEF ReadTells
  <2> QED
    BY <2>1, <1>3, <1>6 DEF LinkTyped
<1> QED
  BY <1>15, <1>16

LEMMA CheckedInit ==
  ASSUME LinkInit
  PROVE  LinkTyped /\ Checked
<1>1. Stream = <<>> /\ Len(Stream) = 0 /\ Len(out) = 0 /\ Len(sent) = 0
  BY DEF LinkInit, Stream
<1>2. Checked
  BY <1>1 DEF Checked, Genuine, Handed
<1>3. LinkTyped
  BY <1>1, LinkAssumption DEF LinkTyped, LinkInit
<1> QED
  BY <1>2, <1>3

LEMMA CheckedStep ==
  ASSUME LinkTyped, Checked, [LinkNext]_linkVars
  PROVE  LinkTyped' /\ Checked'
<1>1. CASE UNCHANGED linkVars
  BY <1>1 DEF linkVars, LinkTyped, Checked, Stream
<1>2. CASE LinkNext
  BY <1>2, SendChecked, SendCutChecked, SendUnheardChecked, LoseChecked,
     ChangeChecked, ReadChecked, HangupChecked, ReopenChecked DEF LinkNext
<1> QED
  BY <1>1, <1>2
-----------------------------------------------------------------------------
(* The bytes of chunk k stand in a row from p on. *)
At(s, S, p, k) ==
  /\ p + FrameSize(Len(S[k])) - 1 <= Len(s)
  /\ \A x \in 1 .. FrameSize(Len(S[k])) :
       s[p + x - 1] = [byte |-> Frame(S[k])[x], of |-> k]

(* The frame of a chunk sent.                                              *)
LEMMA SentFrame ==
  ASSUME NEW S \in Seq(Payloads), NEW k \in 1 .. Len(S)
  PROVE  /\ S[k] \in Payload
         /\ Frame(S[k]) \in Seq(Byte)
         /\ Len(Frame(S[k])) = FrameSize(Len(S[k]))
         /\ FrameSize(Len(S[k])) \in Nat /\ FrameSize(Len(S[k])) >= 4
<1>1. S[k] \in Payload
  BY PayloadsAre, ElementOfSeq
<1> QED
  BY <1>1, FrameIs

(* A chunk is whole in the stream just when it stands at some place.       *)
LEMMA WholeIs ==
  ASSUME sent \in Seq(Payloads), NEW s \in Seq(Entry), NEW k \in 1 .. Len(sent)
  PROVE  Whole(s, k) <=> \E p \in 1 .. Len(s) : At(s, sent, p, k)
<1> DEFINE F == Frame(sent[k])
           size == FrameSize(Len(sent[k]))
           f == Tagged(F, k)
           L == Len(s)
<1>1. F \in Seq(Byte) /\ Len(F) = size /\ size \in Nat /\ size >= 4
  BY SentFrame
<1>2. /\ f \in Seq(Entry) /\ Len(f) = size
      /\ \A x \in 1 .. size : f[x] = [byte |-> F[x], of |-> k]
  BY <1>1, TaggedIs
<1>3. L \in Nat
  OBVIOUS
<1>4. Whole(s, k) <=> \E i \in size .. L : SubSeq(s, i - size + 1, i) = f
  BY <1>2 DEF Whole
<1>5. \A p : At(s, sent, p, k) <=> /\ p + size - 1 <= L
                                   /\ \A x \in 1 .. size : s[p + x - 1] = f[x]
  BY <1>2 DEF At
<1> HIDE DEF F, f, L, size
<1>6. ASSUME NEW i \in size .. L
      PROVE  (SubSeq(s, i - size + 1, i) = f) <=>
               \A x \in 1 .. size : s[(i - size + 1) + x - 1] = f[x]
  <2> DEFINE p == i - size + 1
             t == SubSeq(s, p, i)
  <2>1. p \in 1 .. Len(s) + 1 /\ i \in p - 1 .. Len(s) /\ i - p + 1 = size
    BY <1>1, <1>3 DEF L
  <2> HIDE DEF p
  <2>2. /\ t \in Seq(Entry) /\ Len(t) = i - p + 1
        /\ \A x \in 1 .. i - p + 1 : t[x] = s[p + x - 1]
    BY <2>1, PieceIs
  <2> HIDE DEF t
  <2>3. t = f <=> \A x \in 1 .. size : t[x] = f[x]
    BY <1>2, <2>1, <2>2, SeqEqual
  <2>4. t = f <=> \A x \in 1 .. size : s[p + x - 1] = f[x]
    BY <2>1, <2>2, <2>3
  <2> QED
    BY <2>4 DEF t, p
<1>7. ASSUME NEW i \in size .. L, SubSeq(s, i - size + 1, i) = f
      PROVE  \E p \in 1 .. L : At(s, sent, p, k)
  <2> DEFINE p == i - size + 1
  <2>1. p \in 1 .. L /\ p + size - 1 <= L
    BY <1>1, <1>3
  <2>2. \A x \in 1 .. size : s[p + x - 1] = f[x]
    BY <1>6, <1>7
  <2> HIDE DEF p
  <2>3. At(s, sent, p, k)
    BY <2>1, <2>2, <1>5
  <2> QED
    BY <2>1, <2>3
<1>8. ASSUME NEW p \in 1 .. L, At(s, sent, p, k)
      PROVE  \E i \in size .. L : SubSeq(s, i - size + 1, i) = f
  <2> DEFINE i == p + size - 1
  <2>1. i \in size .. L /\ i - size + 1 = p
    BY <1>1, <1>3, <1>5, <1>8
  <2>2. \A x \in 1 .. size : s[p + x - 1] = f[x]
    BY <1>5, <1>8
  <2> HIDE DEF i
  <2>3. \A x \in 1 .. size : s[(i - size + 1) + x - 1] = f[x]
    BY <2>1, <2>2
  <2>4. SubSeq(s, i - size + 1, i) = f
    BY <1>6, <2>1, <2>3
  <2> QED
    BY <2>1, <2>4
<1> QED
  BY <1>4, <1>7, <1>8 DEF L

(* A chunk that begins in the bytes searched stands there.                 *)
LEMMA ReadStands ==
  ASSUME LinkTyped, NEW m, NEW bytes, NEW found, ReadTells(m, bytes, found),
         NEW k \in 1 .. Len(sent), NEW p \in 1 .. m, At(Stream, sent, p, k)
  PROVE  Stands(bytes, p, sent[k])
<1> DEFINE size == FrameSize(Len(sent[k])) F == Frame(sent[k])
<1>1. size \in Nat /\ m \in Nat /\ Len(bytes) = m
  <2>1. size \in Nat
    BY SentFrame DEF LinkTyped
  <2> QED
    BY <2>1, RestIs DEF ReadTells
<1>2. \A i \in 1 .. m : bytes[i] = Stream[i].byte
  BY DEF ReadTells
<1>3. \A x \in 1 .. size : Stream[p + x - 1] = [byte |-> F[x], of |-> k]
  BY DEF At
<1> HIDE DEF size, F
<1>4. ASSUME NEW x \in 1 .. size, p + x - 1 <= Len(bytes)
      PROVE  bytes[p + x - 1] = F[x]
  <2>1. p + x - 1 \in 1 .. m
    BY <1>1, <1>4
  <2> DEFINE B == F[x] i == p + x - 1
  <2>2. Stream[i] = [byte |-> B, of |-> k]
    BY <1>3
  <2>3. bytes[i] = Stream[i].byte
    BY <2>1, <1>2
  <2> HIDE DEF B, i
  <2>4. bytes[i] = B
    BY <2>2, <2>3
  <2> QED
    BY <2>4 DEF B, i
<1> QED
  BY <1>4 DEF Stands, size, F

(* A chunk that has come whole survives a search or is handed on by it. *)
LEMMA ReadSkips ==
  ASSUME LinkTyped, NEW m, NEW bytes, NEW found, ReadTells(m, bytes, found),
         NEW k \in 1 .. Len(sent), NEW p \in 1 .. Len(Stream),
         At(Stream, sent, p, k)
  PROVE  \/ k \in Delivered'
         \/ \E q \in 1 .. Len(Stream') : At(Stream', sent, q, k)
<1> DEFINE K == found.keep
           F == found.frames
           L == Len(Stream)
           size == FrameSize(Len(sent[k]))
           e == p + size - 1
<1>1. /\ L \in Nat /\ m \in 1 .. L /\ K \in 1 .. m + 1
      /\ Len(Stream') = L - K + 1
      /\ \A i \in 1 .. Len(Stream') : Stream'[i] = Stream[K + i - 1]
  BY RestIs
<1>2. sent[k] \in Payload /\ size \in Nat /\ size >= 4
  BY SentFrame DEF LinkTyped
<1>3. /\ e <= L
      /\ \A x \in 1 .. size :
           Stream[p + x - 1] = [byte |-> Frame(sent[k])[x], of |-> k]
  BY DEF At
<1>4. CASE K <= p
  <2> DEFINE q == p - K + 1
  <2> HIDE DEF K, L, size
  <2>1. q \in 1 .. Len(Stream') /\ q + size - 1 <= Len(Stream')
    BY <1>1, <1>2, <1>3, <1>4
  <2>2. ASSUME NEW x \in 1 .. size
        PROVE  Stream'[q + x - 1] = [byte |-> Frame(sent[k])[x], of |-> k]
    <3>1. q + x - 1 \in 1 .. Len(Stream') /\ K + (q + x - 1) - 1 = p + x - 1
      BY <2>1, <1>1, <1>2, <1>4
    <3> HIDE DEF q
    <3> QED
      BY <3>1, <1>1, <1>3
  <2> HIDE DEF q
  <2>3. At(Stream', sent, q, k)
    BY <2>1, <2>2 DEF At, size
  <2> QED
    BY <2>1, <2>3
<1>5. CASE ~ (K <= p)
  <2>1. p \in 1 .. m
    <3> HIDE DEF K, L
    <3> QED
      BY <1>1, <1>5
  <2>2. Stands(bytes, p, sent[k])
    BY <2>1, ReadStands
  <2>3. bytes \in Seq(Byte) /\ Len(bytes) = m /\ found = Scan(bytes)
    BY DEF ReadTells
  <2>4. p \in 1 .. Len(bytes)
    BY <2>1, <2>3
  <2>5. PICK j \in 1 .. Len(F) : F[j] = <<p, EndOf(p, sent[k])>>
    BY <2>2, <2>3, <2>4, <1>2, <1>5, ScanTells
  <2>6. F[j][2] = e
    BY <2>5 DEF EndOf
  <2>7. out'[Len(out) + j].of = Stream[e].of
    <3>1. out'[Len(out) + j]
            = [of |-> Stream[F[j][2]].of,
               bytes |-> SubSeq(bytes, F[j][1], F[j][2])]
      BY DEF ReadTells
    <3> DEFINE A == Stream[F[j][2]].of B == SubSeq(bytes, F[j][1], F[j][2])
    <3>2. out'[Len(out) + j] = [of |-> A, bytes |-> B]
      BY <3>1
    <3> HIDE DEF A, B
    <3>3. out'[Len(out) + j].of = A
      BY <3>2
    <3> QED
      BY <3>3, <2>6 DEF A
  <2>8. Stream[e].of = k
    <3>1. size \in 1 .. size
      BY <1>2
    <3> DEFINE B == Frame(sent[k])[size]
    <3> HIDE DEF size
    <3>2. Stream[e] = [byte |-> B, of |-> k]
      BY <3>1, <1>3
    <3> HIDE DEF B, e
    <3> QED
      BY <3>2
  <2>9. Len(out) + j \in 1 .. Len(out')
    <3>1. Len(out') = Len(out) + Len(F) /\ Len(out) \in Nat
      BY DEF ReadTells, LinkTyped
    <3>2. F \in Seq((1 .. m) \X (1 .. m))
      BY <2>3 DEF ReadTells, Result
    <3>3. Len(F) \in Nat
      BY <3>2
    <3> HIDE DEF F
    <3> QED
      BY <3>1, <3>3
  <2> QED
    BY <2>7, <2>8, <2>9 DEF Delivered
<1> QED
  BY <1>4, <1>5

(* A chunk begins at i, or the stream ends before it. *)
Start(s, S, i) == i = Len(s) + 1 \/ \E k \in 1 .. Len(S) : At(s, S, i, k)

(* The stream is whole chunks, one after the other. *)
Tiled(s, S) ==
  /\ Start(s, S, 1)
  /\ \A i \in 1 .. Len(s), k \in 1 .. Len(S) :
       At(s, S, i, k) => Start(s, S, i + FrameSize(Len(S[k])))

(* On a connection that nothing has disturbed yet. *)
Clean ==
  since < MaxSent =>
    /\ port = "open"
    /\ since <= Len(sent)
    /\ Tiled(Stream, sent)
    /\ \A k \in since + 1 .. Len(sent) :
         k \in Delivered \/ \E p \in 1 .. Len(Stream) : At(Stream, sent, p, k)
    /\ wire = <<>> => held = <<>>

(* An entry tells its number.                                              *)
LEMMA EntryTells ==
  \A a, b, c, d : [byte |-> a, of |-> b] = [byte |-> c, of |-> d] => b = d
<1>1. SUFFICES ASSUME NEW a, NEW b, NEW c, NEW d,
                      [byte |-> a, of |-> b] = [byte |-> c, of |-> d]
               PROVE  b = d
  OBVIOUS
<1>2. [byte |-> a, of |-> b].of = [byte |-> c, of |-> d].of
  BY <1>1
<1> QED
  BY <1>2

(* What a whole chunk more does to the chunks in the stream. *)
LEMMA ChunkTiled ==
  ASSUME NEW S \in Seq(Payloads), NEW p \in Payloads, NEW s \in Seq(Entry),
         \A i \in 1 .. Len(s) : s[i].of \in 1 .. Len(S)
  PROVE  LET t == s \o Tagged(Frame(p), Len(S) + 1)
             T == Append(S, p)
         IN  /\ \A i \in 1 .. Len(s), k \in 1 .. Len(S) :
                  At(s, S, i, k) => At(t, T, i, k)
             /\ Len(t) >= Len(s) + 1 /\ Len(s) \in Nat
             /\ Len(T) = Len(S) + 1
             /\ At(t, T, Len(s) + 1, Len(S) + 1)
             /\ Tiled(s, S) => Tiled(t, T)
<1> DEFINE k0 == Len(S) + 1
           T == Append(S, p)
           more == Tagged(Frame(p), k0)
           t == s \o more
           size == FrameSize(Len(p))
           L == Len(s)
<1>1. /\ Frame(p) \in Seq(Byte) /\ Len(Frame(p)) = size
      /\ size \in Nat /\ size >= 4
  BY PayloadsAre, FrameIs
<1>2. Len(S) \in Nat /\ k0 \in Nat /\ L \in Nat
  OBVIOUS
<1>3. /\ more \in Seq(Entry) /\ Len(more) = size
      /\ \A i \in 1 .. size : more[i] = [byte |-> Frame(p)[i], of |-> k0]
  BY <1>1, <1>2, TaggedIs
<1>4. t = s \o more
  OBVIOUS
<1> HIDE DEF more, size, t
<1>5. /\ Len(t) = L + size
      /\ \A i \in 1 .. L : t[i] = s[i]
      /\ \A i \in 1 .. size : t[L + i] = more[i]
      /\ \A i \in L + 1 .. L + size : t[i] = more[i - L] /\ i - L \in 1 .. size
  <2>1. /\ Len(s \o more) = Len(s) + Len(more)
        /\ \A i \in 1 .. Len(s) : (s \o more)[i] = s[i]
        /\ \A i \in 1 .. Len(more) : (s \o more)[Len(s) + i] = more[i]
        /\ \A i \in Len(s) + 1 .. Len(s) + Len(more) :
             (s \o more)[i] = more[i - Len(s)] /\ i - Len(s) \in 1 .. Len(more)
    <3>1. more \in Seq(Entry)
      BY <1>3
    <3> QED
      BY <3>1, JoinIs
  <2> QED
    BY <2>1, <1>3, <1>4
<1>6. /\ Len(T) = k0 /\ T[k0] = p
      /\ \A i \in 1 .. Len(S) : T[i] = S[i]
  <2>1. p \in Payloads
    OBVIOUS
  <2> QED
    BY <2>1, AppendProperties
<1> HIDE DEF T
<1>7. k0 = Len(S) + 1
  OBVIOUS
<1> HIDE DEF k0, L
<1>8. ASSUME NEW i \in 1 .. L, NEW k \in 1 .. Len(S), At(s, S, i, k)
      PROVE  At(t, T, i, k)
  <2> DEFINE z == FrameSize(Len(S[k]))
  <2>1. z \in Nat /\ z >= 4
    BY SentFrame
  <2>2. T[k] = S[k]
    BY <1>6
  <2>3. /\ i + z - 1 <= L
        /\ \A x \in 1 .. z : s[i + x - 1] = [byte |-> Frame(S[k])[x], of |-> k]
    BY <1>8 DEF At, L
  <2> HIDE DEF z
  <2>4. \A x \in 1 .. z : t[i + x - 1] = [byte |-> Frame(S[k])[x], of |-> k]
    <3>1. \A x \in 1 .. z : i + x - 1 \in 1 .. L
      BY <2>1, <2>3, <1>2
    <3> QED
      BY <3>1, <2>3, <1>5
  <2>5. i + z - 1 <= Len(t)
    BY <2>1, <2>3, <1>1, <1>2, <1>5
  <2> QED
    BY <2>2, <2>4, <2>5 DEF At, z
<1>9. At(t, T, L + 1, k0)
  <2>1. \A x \in 1 .. size :
          t[L + 1 + x - 1] = [byte |-> Frame(p)[x], of |-> k0]
    <3>1. \A x \in 1 .. size : L + 1 + x - 1 = L + x
      BY <1>1, <1>2
    <3> QED
      BY <3>1, <1>3, <1>5
  <2>2. L + 1 + size - 1 <= Len(t)
    BY <1>1, <1>2, <1>5
  <2> QED
    BY <2>1, <2>2, <1>6 DEF At, size
<1>10. ASSUME NEW i \in 1 .. L + 1, Start(s, S, i)
       PROVE  Start(t, T, i)
  <2>1. CASE i = L + 1
    <3>1. k0 \in 1 .. Len(T)
      BY <1>2, <1>6, <1>7
    <3> QED
      BY <2>1, <3>1, <1>9 DEF Start
  <2>2. CASE i # L + 1
    <3>1. PICK k \in 1 .. Len(S) : At(s, S, i, k)
      BY <1>10, <2>2 DEF Start, L
    <3>2. i \in 1 .. L /\ k \in 1 .. Len(T)
      BY <2>2, <1>2, <1>6, <1>7
    <3> QED
      BY <3>1, <3>2, <1>8 DEF Start
  <2> QED
    BY <2>1, <2>2
<1>11. ASSUME Tiled(s, S), NEW i \in 1 .. Len(t), NEW k \in 1 .. Len(T),
              At(t, T, i, k)
       PROVE  Start(t, T, i + FrameSize(Len(T[k])))
  <2>1. CASE k = k0
    <3>1. FrameSize(Len(T[k])) = size
      BY <2>1, <1>6 DEF size
    <3>2. i + size - 1 <= L + size
      BY <3>1, <1>11, <1>5 DEF At
    <3>3. 1 \in 1 .. size /\ i + 1 - 1 = i
      BY <1>1
    <3>4. t[i + 1 - 1].of = k0
      <4>1. t[i + 1 - 1] = [byte |-> Frame(T[k])[1], of |-> k]
        BY <3>1, <3>3, <1>11 DEF At
      <4> QED
        BY <4>1, <2>1
    <3>5. ~ (i \in 1 .. L)
      <4>1. SUFFICES ASSUME i \in 1 .. L PROVE FALSE
        OBVIOUS
      <4>2. t[i] = s[i] /\ s[i].of \in 1 .. Len(S)
        BY <4>1, <1>5 DEF L
      <4> QED
        BY <4>2, <3>3, <3>4, <1>2, <1>7
    <3>6. i + size = Len(t) + 1
      <4>1. i \in Nat /\ L \in Nat /\ size \in Nat /\ i >= 1
        BY <1>1, <1>2
      <4>2. i > L
        BY <4>1, <3>5
      <4>3. i = L + 1
        BY <4>1, <4>2, <3>2
      <4>4. Len(t) = L + size
        BY <1>5
      <4> QED
        BY <4>1, <4>3, <4>4
    <3> QED
      BY <3>1, <3>6 DEF Start
  <2>2. CASE k \in 1 .. Len(S)
    <3> DEFINE z == FrameSize(Len(S[k]))
    <3>1. z \in Nat /\ z >= 4 /\ T[k] = S[k]
      BY <2>2, <1>6, SentFrame
    <3>2. /\ i + z - 1 <= Len(t)
          /\ \A x \in 1 .. z : t[i + x - 1] = [byte |-> Frame(S[k])[x], of |-> k]
      BY <3>1, <1>11 DEF At
    <3> HIDE DEF z
    <3>3. i + z - 1 <= L
      <4>1. SUFFICES ASSUME i + z - 1 > L PROVE FALSE
        BY <3>1, <1>2
      <4> DEFINE e == i + z - 1
      <4>2. e \in L + 1 .. L + size /\ z \in 1 .. z
        BY <3>1, <3>2, <4>1, <1>1, <1>2, <1>5
      <4>3. t[e] = [byte |-> Frame(S[k])[z], of |-> k]
        BY <3>2, <4>2
      <4> HIDE DEF e
      <4>4. t[e] = [byte |-> Frame(p)[e - L], of |-> k0]
        BY <4>2, <1>3, <1>5
      <4>5. k = k0
        <5> DEFINE A == Frame(S[k])[z] B == Frame(p)[e - L]
        <5>1. [byte |-> A, of |-> k] = [byte |-> B, of |-> k0]
          BY <4>3, <4>4
        <5> HIDE DEF A, B
        <5> QED
          BY <5>1, EntryTells
      <4> QED
        BY <4>5, <2>2, <1>2, <1>7
    <3>4. At(s, S, i, k)
      <4>1. \A x \in 1 .. z : i + x - 1 \in 1 .. L
        BY <3>1, <3>3, <1>2
      <4>2. \A x \in 1 .. z : s[i + x - 1] = [byte |-> Frame(S[k])[x], of |-> k]
        BY <4>1, <3>2, <1>5
      <4> QED
        BY <4>2, <3>3 DEF At, z, L
    <3>5. i \in 1 .. L /\ i + z \in 1 .. L + 1
      BY <3>1, <3>3, <1>2
    <3>6. Start(s, S, i + z)
      BY <3>4, <3>5, <2>2, <1>11 DEF Tiled, z, L
    <3>7. Start(t, T, i + z)
      BY <3>5, <3>6, <1>10
    <3> QED
      BY <3>1, <3>7 DEF z
  <2> QED
    BY <2>1, <2>2, <1>2, <1>6, <1>7
<1>12. Tiled(s, S) => Tiled(t, T)
  <2>1. 1 \in 1 .. L + 1
    BY <1>2
  <2> QED
    BY <2>1, <1>10, <1>11 DEF Tiled
<1>13. Len(t) >= L + 1
  BY <1>1, <1>2, <1>5
<1> QED
  BY <1>2, <1>6, <1>7, <1>8, <1>9, <1>12, <1>13 DEF L, k0, t, T, more

(* After a search, the stream still begins with a chunk, and if all was    *)
(* read nothing is left.                                                   *)
LEMMA ReadTiled ==
  ASSUME LinkTyped, NEW m, NEW bytes, NEW found, ReadTells(m, bytes, found),
         Tiled(Stream, sent)
  PROVE  /\ Tiled(Stream', sent)
         /\ wire' = <<>> => held' = <<>>
<1> DEFINE s == Stream
           K == found.keep
           L == Len(s)
           starts == {i \in 1 .. L + 1 : Start(s, sent, i)}
           which == [i \in starts |-> CHOOSE k \in 1 .. Len(sent) : At(s, sent, i, k)]
           pay == [i \in starts |-> sent[which[i]]]
<1>1. /\ L \in Nat /\ m \in 1 .. L /\ K \in 1 .. m + 1
      /\ Len(Stream') = L - K + 1
      /\ \A i \in 1 .. Len(Stream') : Stream'[i] = s[K + i - 1]
  BY RestIs
<1>2. bytes \in Seq(Byte) /\ Len(bytes) = m /\ found = Scan(bytes)
  BY DEF ReadTells
<1>3. sent \in Seq(Payloads) /\ Len(sent) \in Nat
  BY DEF LinkTyped
<1>4. ASSUME NEW i \in starts, i \in 1 .. L
      PROVE  /\ which[i] \in 1 .. Len(sent) /\ At(s, sent, i, which[i])
             /\ pay[i] = sent[which[i]]
  <2>1. i # L + 1
    <3> HIDE DEF starts, L
    <3> QED
      BY <1>1, <1>4
  <2>2. \E k \in 1 .. Len(sent) : At(s, sent, i, k)
    BY <2>1 DEF Start
  <2> QED
    BY <2>2
<1>5. 1 \in starts
  <2>1. 1 \in 1 .. L + 1
    BY <1>1
  <2> QED
    BY <2>1 DEF Tiled
<1>6. ASSUME NEW i \in starts \cap (1 .. Len(bytes))
      PROVE  /\ pay[i] \in Payload
             /\ Stands(bytes, i, pay[i])
             /\ EndOf(i, pay[i]) <= L
             /\ EndOf(i, pay[i]) <= Len(bytes) => EndOf(i, pay[i]) + 1 \in starts
  <2>1. i \in 1 .. m /\ i \in 1 .. L /\ i \in starts
    <3> HIDE DEF starts, L, s
    <3> QED
      BY <1>1, <1>2
  <2> DEFINE k == which[i] z == FrameSize(Len(sent[k]))
  <2>2. k \in 1 .. Len(sent) /\ At(s, sent, i, k) /\ pay[i] = sent[k]
    BY <2>1, <1>4
  <2> HIDE DEF which, pay, k
  <2>3. /\ sent[k] \in Payload /\ z \in Nat /\ z >= 4
    BY <2>2, <1>3, SentFrame
  <2>4. Stands(bytes, i, sent[k])
    BY <2>1, <2>2, ReadStands
  <2>5. EndOf(i, sent[k]) <= L /\ EndOf(i, sent[k]) + 1 = i + z
        /\ i + z \in 1 .. L + 1
    <3>1. i + z - 1 <= L
      BY <2>2 DEF At
    <3>2. EndOf(i, sent[k]) = i + z - 1
      BY DEF EndOf
    <3> HIDE DEF s, L, z
    <3> QED
      BY <3>1, <3>2, <2>1, <2>3, <1>1
  <2>6. Start(s, sent, i + z)
    BY <2>1, <2>2 DEF Tiled
  <2> HIDE DEF s, L, z
  <2> QED
    BY <2>2, <2>3, <2>4, <2>5, <2>6
<1>7. /\ K \in starts
      /\ K <= m => EndOf(K, pay[K]) > m
  <2> HIDE DEF starts, pay
  <2> QED
    BY <1>2, <1>5, <1>6, ScanKeeps
<1>8. wire' = <<>> => held' = <<>>
  <2>1. SUFFICES ASSUME wire' = <<>> PROVE held' = <<>>
    OBVIOUS
  <2>2. m = L
    BY <2>1 DEF ReadTells
  <2>3. K = m + 1
    <3>1. SUFFICES ASSUME K \in 1 .. m PROVE FALSE
      <4> HIDE DEF K, L
      <4> QED
        BY <1>1
    <3>2. EndOf(K, pay[K]) <= m /\ EndOf(K, pay[K]) \in Int
      <4>1. K \in starts \cap (1 .. Len(bytes))
        BY <3>1, <1>2, <1>7
      <4>2. pay[K] \in Payload /\ EndOf(K, pay[K]) <= L
        <5> HIDE DEF starts, pay, K
        <5> QED
          BY <4>1, <1>6
      <4>3. FrameSize(Len(pay[K])) \in Nat
        BY <4>2, FrameIs
      <4> HIDE DEF pay, K
      <4> QED
        BY <4>2, <4>3, <2>2, <3>1, <1>1 DEF EndOf
    <3>3. EndOf(K, pay[K]) > m
      <4> HIDE DEF pay, K
      <4> QED
        BY <3>1, <1>1, <1>7
    <3> HIDE DEF pay, K, L
    <3> QED
      BY <3>2, <3>3, <1>1
  <2> QED
    BY <2>3 DEF ReadTells
<1>9. Start(s, sent, K)
  BY <1>7
<1> HIDE DEF starts, pay, which
<1>10. ASSUME NEW i \in 1 .. Len(Stream') + 1, NEW k \in 1 .. Len(sent)
       PROVE  At(Stream', sent, i, k) <=> At(s, sent, K + i - 1, k)
  <2> DEFINE z == FrameSize(Len(sent[k])) r == Stream' j == K + i - 1
  <2>1. z \in Nat /\ z >= 4
    BY <1>3, SentFrame
  <2> HIDE DEF s, K, L, z, r
  <2>2. /\ Len(r) = L - K + 1 /\ L \in Nat /\ K \in 1 .. L + 1 /\ Len(r) \in Nat
        /\ \A y \in 1 .. Len(r) : r[y] = s[K + y - 1]
    BY <1>1 DEF r
  <2>3. i + z - 1 <= Len(r) <=> j + z - 1 <= L
    BY <2>1, <2>2 DEF r
  <2>4. ASSUME i + z - 1 <= Len(r), NEW x \in 1 .. z
        PROVE  r[i + x - 1] = s[j + x - 1]
    <3>1. i + x - 1 \in 1 .. Len(r) /\ K + (i + x - 1) - 1 = j + x - 1
      BY <2>1, <2>2, <2>4
    <3> HIDE DEF j
    <3> QED
      BY <3>1, <2>2
  <2> HIDE DEF j
  <2>5. At(r, sent, i, k) <=> At(s, sent, j, k)
    BY <2>3, <2>4 DEF At, z, L
  <2> QED
    BY <2>5 DEF r, j
<1>11. ASSUME NEW i \in 1 .. Len(Stream') + 1
       PROVE  Start(Stream', sent, i) <=> Start(s, sent, K + i - 1)
  <2>1. i = Len(Stream') + 1 <=> K + i - 1 = L + 1
    <3> HIDE DEF K, s, L
    <3> QED
      BY <1>1
  <2> HIDE DEF K, s
  <2> QED
    BY <2>1, <1>10 DEF Start, L
<1>12. Start(Stream', sent, 1)
  <2>1. 1 \in 1 .. Len(Stream') + 1 /\ K + 1 - 1 = K
    <3> HIDE DEF K, s, L
    <3> QED
      BY <1>1
  <2> HIDE DEF K, s
  <2> QED
    BY <2>1, <1>9, <1>11
<1>13. ASSUME NEW i \in 1 .. Len(Stream'), NEW k \in 1 .. Len(sent),
              At(Stream', sent, i, k)
       PROVE  Start(Stream', sent, i + FrameSize(Len(sent[k])))
  <2> DEFINE z == FrameSize(Len(sent[k])) j == K + i - 1
  <2>1. z \in Nat /\ z >= 4
    BY <1>3, SentFrame
  <2>2. i + z - 1 <= Len(Stream')
    BY <1>13 DEF At
  <2> HIDE DEF K, s, L, z
  <2>3. /\ j \in 1 .. L /\ i \in 1 .. Len(Stream') + 1
        /\ i + z \in 1 .. Len(Stream') + 1 /\ K + (i + z) - 1 = j + z
    BY <2>1, <2>2, <1>1
  <2> HIDE DEF j
  <2>4. At(s, sent, j, k)
    BY <2>3, <1>10, <1>13 DEF j
  <2>5. Start(s, sent, j + z)
    BY <2>3, <2>4 DEF Tiled, z, s, L
  <2>6. Start(Stream', sent, i + z)
    BY <2>3, <2>5, <1>11
  <2> QED
    BY <2>6 DEF z
<1>14. Tiled(Stream', sent)
  BY <1>12, <1>13 DEF Tiled
<1> QED
  BY <1>8, <1>14

LEMMA CleanInit == ASSUME LinkInit PROVE Clean
<1>1. Stream = <<>> /\ Len(Stream) = 0 /\ sent = <<>> /\ Len(sent) = 0
      /\ since = 0 /\ held = <<>> /\ port = "open"
  BY DEF LinkInit, Stream
<1>2. Tiled(Stream, sent)
  BY <1>1 DEF Tiled, Start
<1> QED
  BY <1>1, <1>2 DEF Clean

(* The bytes of a chunk that came whole stay where they are. *)
LEMMA SendClean ==
  ASSUME LinkTyped, Checked, Clean, NEW p \in Payloads, Send(p)
  PROVE  Clean'
<1> DEFINE more == Tagged(Frame(p), Len(sent) + 1)
<1>1. /\ sent \in Seq(Payloads) /\ Len(sent) \in Nat
      /\ held \in Seq(Entry) /\ wire \in Seq(Entry)
  BY DEF LinkTyped
<1>2. more \in Seq(Entry) /\ Len(more) >= 4
  BY <1>1, PayloadsAre, FrameIs, TaggedIs
<1>3. /\ sent' = Append(sent, p) /\ wire' = wire \o more
      /\ port = "open" /\ UNCHANGED <<port, held, out, since>>
  BY DEF Send
<1> HIDE DEF more
<1>4. Stream' = Stream \o more
  <2>1. (held \o wire) \o more = held \o (wire \o more)
    BY <1>1, <1>2, ConcatAssociative
  <2> QED
    BY <2>1, <1>3 DEF Stream
<1>5. Stream \in Seq(Entry)
  BY <1>1, StreamIs
<1>6. \A i \in 1 .. Len(Stream) : Stream[i].of \in 1 .. Len(sent)
  BY DEF Checked, Genuine
<1>7. /\ \A i \in 1 .. Len(Stream), k \in 1 .. Len(sent) :
           At(Stream, sent, i, k) => At(Stream', sent', i, k)
      /\ Len(Stream') >= Len(Stream) + 1 /\ Len(Stream) \in Nat
      /\ Len(sent') = Len(sent) + 1
      /\ At(Stream', sent', Len(Stream) + 1, Len(sent) + 1)
      /\ Tiled(Stream, sent) => Tiled(Stream', sent')
  <2> DEFINE S == sent s == Stream T == Append(S, p) t == s \o more
  <2>1. S \in Seq(Payloads) /\ s \in Seq(Entry)
        /\ \A i \in 1 .. Len(s) : s[i].of \in 1 .. Len(S)
    BY <1>1, <1>5, <1>6
  <2> HIDE DEF S, s
  <2>4. /\ \A i \in 1 .. Len(s), k \in 1 .. Len(S) :
             At(s, S, i, k) => At(t, T, i, k)
        /\ Len(t) >= Len(s) + 1 /\ Len(s) \in Nat
        /\ Len(T) = Len(S) + 1
        /\ At(t, T, Len(s) + 1, Len(S) + 1)
        /\ Tiled(s, S) => Tiled(t, T)
    BY <2>1, ChunkTiled DEF more, S
  <2>5. t = Stream' /\ T = sent' /\ s = Stream /\ S = sent
    BY <1>3, <1>4 DEF s, S
  <2> HIDE DEF t, T
  <2> QED
    BY <2>4, <2>5
<1>8. wire' # <<>>
  <2>1. Len(wire') = Len(wire) + Len(more) /\ Len(wire) \in Nat /\ Len(more) \in Nat
    BY <1>1, <1>2, <1>3, JoinIs
  <2> QED
    BY <2>1, <1>2
<1>9. Delivered' = Delivered
  BY <1>3 DEF Delivered
<1>10. SUFFICES ASSUME since < MaxSent
       PROVE  /\ since <= Len(sent')
              /\ Tiled(Stream', sent')
              /\ \A k \in since + 1 .. Len(sent') :
                   k \in Delivered
                   \/ \E q \in 1 .. Len(Stream') : At(Stream', sent', q, k)
  BY <1>3, <1>8, <1>9 DEF Clean
<1>11. /\ since <= Len(sent) /\ Tiled(Stream, sent) /\ since \in Nat
       /\ \A k \in since + 1 .. Len(sent) :
            k \in Delivered \/ \E q \in 1 .. Len(Stream) : At(Stream, sent, q, k)
  BY <1>10 DEF Clean, LinkTyped
<1>12. ASSUME NEW k \in since + 1 .. Len(sent')
       PROVE  k \in Delivered
              \/ \E q \in 1 .. Len(Stream') : At(Stream', sent', q, k)
  <2>1. Len(Stream') \in Nat
    BY <1>2, <1>4, <1>5, JoinIs
  <2>2. CASE k = Len(sent) + 1
    <3>1. Len(Stream) + 1 \in 1 .. Len(Stream')
      BY <2>1, <1>7
    <3> QED
      BY <2>2, <3>1, <1>7
  <2>3. CASE k # Len(sent) + 1
    <3>1. k \in since + 1 .. Len(sent) /\ k \in 1 .. Len(sent)
      BY <2>3, <1>1, <1>7, <1>11
    <3>2. CASE k \in Delivered
      BY <3>2
    <3>3. CASE \E q \in 1 .. Len(Stream) : At(Stream, sent, q, k)
      <4>1. PICK q \in 1 .. Len(Stream) : At(Stream, sent, q, k)
        BY <3>3
      <4>2. At(Stream', sent', q, k)
        BY <3>1, <4>1, <1>7
      <4>3. q \in 1 .. Len(Stream')
        BY <2>1, <1>7
      <4> QED
        BY <4>2, <4>3
    <3> QED
      BY <3>1, <3>2, <3>3, <1>11
  <2> QED
    BY <2>2, <2>3
<1>13. since <= Len(sent')
  BY <1>1, <1>7, <1>11
<1> QED
  BY <1>7, <1>11, <1>12, <1>13

(* A read gives up no chunk and leaves whole chunks.                       *)
LEMMA ReadClean ==
  ASSUME LinkTyped, Clean, Read
  PROVE  Clean'
<1>1. PICK m, bytes, found : ReadTells(m, bytes, found)
  BY ReadIs DEF LinkTyped
<1>2. UNCHANGED <<sent, port, since, faults>>
  BY DEF Read
<1>3. SUFFICES ASSUME since < MaxSent
      PROVE  /\ Tiled(Stream', sent)
             /\ \A k \in since + 1 .. Len(sent) :
                  k \in Delivered'
                  \/ \E q \in 1 .. Len(Stream') : At(Stream', sent, q, k)
             /\ wire' = <<>> => held' = <<>>
  BY <1>2 DEF Clean
<1>4. /\ Tiled(Stream, sent) /\ since \in Nat
      /\ \A k \in since + 1 .. Len(sent) :
           k \in Delivered \/ \E q \in 1 .. Len(Stream) : At(Stream, sent, q, k)
  BY <1>3 DEF Clean, LinkTyped
<1>5. Tiled(Stream', sent) /\ (wire' = <<>> => held' = <<>>)
  BY <1>1, <1>4, ReadTiled
<1>6. Delivered \subseteq Delivered'
  <2>1. /\ Len(out') = Len(out) + Len(found.frames)
        /\ \A i \in 1 .. Len(out) : out'[i] = out[i]
    BY <1>1 DEF ReadTells
  <2>2. Len(out) \in Nat /\ Len(found.frames) \in Nat
    <3>1. found.frames \in Seq((1 .. m) \X (1 .. m))
      BY <1>1 DEF ReadTells, Result
    <3> QED
      BY <3>1 DEF LinkTyped
  <2>3. \A i \in 1 .. Len(out) : i \in 1 .. Len(out')
    BY <2>1, <2>2
  <2> QED
    BY <2>1, <2>3 DEF Delivered
<1>7. ASSUME NEW k \in since + 1 .. Len(sent)
      PROVE  k \in Delivered'
             \/ \E q \in 1 .. Len(Stream') : At(Stream', sent, q, k)
  <2>1. k \in 1 .. Len(sent)
    <3>1. Len(sent) \in Nat
      BY DEF LinkTyped
    <3> QED
      BY <3>1, <1>4
  <2>2. CASE k \in Delivered
    BY <2>2, <1>6
  <2>3. CASE \E q \in 1 .. Len(Stream) : At(Stream, sent, q, k)
    BY <2>1, <2>3, <1>1, ReadSkips
  <2> QED
    BY <2>2, <2>3, <1>4
<1> QED
  BY <1>5, <1>7

(* A disturbance ends a clean connection, and a fresh framer begins one.   *)
LEMMA CleanStep ==
  ASSUME LinkTyped, Checked, Clean, [LinkNext]_linkVars
  PROVE  Clean'
<1>1. ASSUME NEW p \in Payloads, SendUnheard(p) PROVE Clean'
  BY <1>1 DEF SendUnheard, Clean
<1>2. ASSUME Disturb PROVE Clean'
  BY <1>2, LinkAssumption DEF Disturb, Clean
<1>3. CASE Reopen
  <2>1. Stream' = <<>> /\ Len(Stream') = 0
    BY <1>3 DEF Reopen, Stream
  <2>2. Tiled(Stream', sent')
    BY <2>1 DEF Tiled, Start
  <2>3. Len(sent) \in Nat
    BY DEF LinkTyped
  <2> QED
    BY <1>3, <2>2, <2>3 DEF Reopen, Clean
<1>4. CASE UNCHANGED linkVars
  BY <1>4 DEF linkVars, Clean, Stream, Delivered
<1>5. CASE LinkNext
  BY <1>5, <1>1, <1>2, <1>3, SendClean, ReadClean
     DEF LinkNext, SendCut, Lose, Change, Hangup
<1> QED
  BY <1>4, <1>5

(* The inductive invariant of the link.                                    *)
LinkInv == LinkTyped /\ Checked /\ Clean

LEMMA LinkInvDelivers == ASSUME LinkInv PROVE DeliversSent
<1>1. /\ sent \in Seq(Payloads) /\ Len(sent) \in Nat /\ Len(sent) <= MaxSent
      /\ since \in 0 .. MaxSent
  BY DEF LinkInv, LinkTyped
<1>2. GenuineInOrder
  BY DEF LinkInv, Checked, Handed, GenuineInOrder
<1>3. CleanDelivered
  <2>1. SUFFICES ASSUME wire = <<>>, NEW k \in since + 1 .. Len(sent)
        PROVE  k \in Delivered
    BY DEF CleanDelivered
  <2>2. since < MaxSent
    BY <1>1, LinkAssumption
  <2>3. held = <<>>
    BY <2>1, <2>2 DEF LinkInv, Clean
  <2>4. Len(Stream) = 0
    BY <2>1, <2>3 DEF Stream
  <2> QED
    BY <2>2, <2>4 DEF LinkInv, Clean
<1> QED
  BY <1>2, <1>3 DEF DeliversSent

(* Each chunk the framer hands on is one the board sent, in the order sent *)
(* and none twice, whatever is lost, changed or cut; and once every byte   *)
(* is read, all that was sent over a clean connection has been handed on   *)
(* (framing.rs:65-135, usb_reader.rs:99-115).                              *)
THEOREM DeliversSentCorrect == LinkSpec => []DeliversSent
<1>1. LinkInit => LinkInv
  BY CheckedInit, CleanInit DEF LinkInv
<1>2. LinkInv /\ [LinkNext]_linkVars => LinkInv'
  BY CheckedStep, CleanStep DEF LinkInv
<1>3. LinkInv => DeliversSent
  BY LinkInvDelivers
<1> QED
  BY <1>1, <1>2, <1>3, PTL DEF LinkSpec

(* No step but a disturbance gives up a chunk that has come whole.         *)
LEMMA KeepsWhole ==
  ASSUME LinkInv, [LinkNext]_linkVars, faults' = faults, port' = port,
         NEW k \in 1 .. Len(sent), Whole(held \o wire, k)
  PROVE  k \in Delivered' \/ Whole(held' \o wire', k)
<1>1. /\ sent \in Seq(Payloads) /\ Stream \in Seq(Entry) /\ faults \in Nat
      /\ held \in Seq(Entry) /\ wire \in Seq(Entry)
  BY StreamIs DEF LinkInv, LinkTyped
<1>2. held \o wire = Stream /\ held' \o wire' = Stream'
  BY DEF Stream
<1>3. PICK p \in 1 .. Len(Stream) : At(Stream, sent, p, k)
  BY <1>1, <1>2, WholeIs
<1>4. held' \in Seq(Entry) /\ wire' \in Seq(Entry)
  BY CheckedStep DEF LinkInv, LinkTyped
<1>5. Stream' \in Seq(Entry)
  BY <1>4, StreamNext
<1>6. ASSUME NEW q \in 1 .. Len(Stream'), At(Stream', sent, q, k)
      PROVE  Whole(held' \o wire', k)
  <2> DEFINE t == Stream'
  <2>1. t \in Seq(Entry) /\ \E x \in 1 .. Len(t) : At(t, sent, x, k)
    BY <1>5, <1>6
  <2> HIDE DEF t
  <2>2. Whole(t, k)
    BY <2>1, <1>1, WholeIs
  <2> QED
    BY <2>2, <1>2 DEF t
<1>7. ASSUME NEW x \in Payloads, Send(x)
      PROVE  Whole(held' \o wire', k)
  <2> DEFINE more == Tagged(Frame(x), Len(sent) + 1)
             S == sent s == Stream T == Append(S, x) t == s \o more
  <2>1. wire' = wire \o more /\ held' = held /\ Len(sent) \in Nat
    BY <1>1, <1>7 DEF Send
  <2>2. more \in Seq(Entry)
    BY <2>1, PayloadsAre, FrameIs, TaggedIs
  <2> HIDE DEF more
  <2>3. Stream' = s \o more
    <3> DEFINE h == held w == wire
    <3>1. h \in Seq(Entry) /\ w \in Seq(Entry)
      BY <1>1
    <3> HIDE DEF h, w
    <3>2. (h \o w) \o more = h \o (w \o more)
      BY <3>1, <2>2, ConcatAssociative
    <3> QED
      BY <3>2, <2>1 DEF Stream, h, w
  <2>4. \A i \in 1 .. Len(s) : s[i].of \in 1 .. Len(S)
    BY DEF LinkInv, Checked, Genuine
  <2>5. S \in Seq(Payloads) /\ s \in Seq(Entry)
        /\ p \in 1 .. Len(s) /\ k \in 1 .. Len(S) /\ At(s, S, p, k)
    BY <1>1, <1>3
  <2>6. S[k] = T[k]
    BY <2>5, AppendProperties
  <2> HIDE DEF s
  <2> HIDE DEF S
  <2>7. At(t, T, p, k) /\ Len(t) >= Len(s) + 1 /\ Len(s) \in Nat
    BY <2>4, <2>5, ChunkTiled DEF more, S
  <2> HIDE DEF T, t
  <2>10. At(t, S, p, k)
    BY <2>6, <2>7 DEF At
  <2>11. t \in Seq(Entry) /\ t = Stream'
    BY <2>3, <1>5 DEF t
  <2>12. p \in 1 .. Len(t)
    BY <2>5, <2>7, <2>11
  <2> QED
    BY <2>10, <2>11, <2>12, <1>6 DEF S
<1>8. CASE Read
  <2>1. PICK m, bytes, found : ReadTells(m, bytes, found)
    BY <1>8, ReadIs DEF LinkInv, LinkTyped
  <2>2. \/ k \in Delivered'
        \/ \E q \in 1 .. Len(Stream') : At(Stream', sent, q, k)
    BY <2>1, <1>3, ReadSkips DEF LinkInv
  <2> QED
    BY <2>2, <1>6
<1>9. CASE held' = held /\ wire' = wire
  BY <1>9
<1>10. ~ Disturb
  BY <1>1 DEF Disturb
<1> QED
  BY <1>7, <1>8, <1>9, <1>10
     DEF LinkNext, linkVars, SendCut, SendUnheard, Lose, Change, Hangup, Reopen

(* Noise before a chunk costs no chunk: the framer never gives up the      *)
(* bytes of a chunk that has come whole (framing.rs:65-135).               *)
THEOREM NothingSkippedCorrect == LinkSpec => NothingSkipped
<1>1. LinkInit => LinkInv
  BY CheckedInit, CleanInit DEF LinkInv
<1>2. LinkInv /\ [LinkNext]_linkVars => LinkInv'
  BY CheckedStep, CleanStep DEF LinkInv
<1> DEFINE Kept == faults' = faults /\ port' = port =>
                     \A k \in 1 .. Len(sent) :
                       Whole(held \o wire, k) =>
                         k \in Delivered' \/ Whole(held' \o wire', k)
<1>3. LinkInv /\ [LinkNext]_linkVars => [Kept]_linkVars
  BY KeepsWhole
<1> QED
  BY <1>1, <1>2, <1>3, PTL DEF LinkSpec, NothingSkipped
=============================================================================
