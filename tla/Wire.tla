--------------------------------- MODULE Wire ---------------------------------
(***************************************************************************)
(* The chunk format between devices and the server, as bytes: what         *)
(* ChunkEncoder writes (ferrite-sdk/src/chunks/encoder.rs), what the       *)
(* wrappers around a transport make of it (compression.rs, encryption.rs)  *)
(* and what ingest reads (ferrite-server/src/ingest.rs).                   *)
(*                                                                         *)
(* A number of a record is its little-endian bytes.  The sizes are those   *)
(* of the code.  The checksum is any function of bytes; a cipher is        *)
(* anything that only the key it was made with undoes.                     *)
(***************************************************************************)
EXTENDS Integers, Sequences, SequencesExt

Octet     == 0 .. 255
Octets(n) == [1 .. n -> Octet]

(* A metric's key is of 32 bytes at most; the value of a counter or a      *)
(* gauge has four, that of a histogram eight.                              *)
Entry ==
  {e \in [key : Seq(Octet), type : 0 .. 2, value : Seq(Octet), ticks : Octets(8)] :
     Len(e.key) <= 32 /\ Len(e.value) = IF e.type = 2 THEN 8 ELSE 4}

Record ==
       [kind : {"heartbeat"}, uptime : Octets(8), stack : Octets(4),
        metrics : Octets(4), lost : Octets(4), key : Octets(4)]
  \cup [kind : {"metrics"}, entries : Seq(Entry)]
  \cup [kind : {"fault"}, type : Octets(1), frame : [1 .. 8 -> Octets(4)],
        extended : [1 .. 9 -> Octets(4)], stack : [1 .. 16 -> Octets(4)],
        status : [1 .. 4 -> Octets(4)]]
  \cup [kind : {"reboot"}, reason : Octets(1), extra : Octets(1),
        boot : Octets(4), uptime : Octets(4)]
  \cup [kind : {"info"}, id : Seq(Octet), version : Seq(Octet),
        build : Octets(8), type : {<<>>, <<0>>, <<1>>}]
  \cup [kind : {"ota"}, build : Octets(8), max : Octets(2), flags : Octets(1)]

CONSTANTS
  Records,     \* what devices record
  Links,       \* [seal, key, packed]: the wrappers of a device's transport
  ServerKey,   \* CHUNK_ENCRYPTION_KEY, and the key of the one credential
  Missing,        \* how many bytes the end of a body may lack
  MaxRecords,  \* bound: records in a body, the only one: nothing of a body
               \* but the sequence number carries over to the next
  Crc(_)       \* crc16_ccitt

ASSUME WireAssumption ==
  /\ Records \subseteq Record
  /\ Links \subseteq [seal : {"no", "shared", "credential"}, key : 1 .. 255,
                      packed : BOOLEAN]
  /\ ServerKey \in 1 .. 255 /\ Missing \subseteq Nat /\ MaxRecords \in Nat

VARIABLES
  link,    \* the device's transport
  seq,     \* sequence of its ChunkEncoder
  body,    \* chunks sent so far: what was encoded, and what left the device
  sent,    \* history: records encoded since the last post
  posted   \* what the server read of the last post; history: what the post
           \* was made of, and how much of it was cut

wireVars == <<link, seq, body, sent, posted>>

Framing    == 10
MaxChunk   == 256
MaxPayloadSize == 248
NonceSize  == 13
TagSize    == 8
FlagSealed == 4
FlagPacked == 8

(* Mutation of MaxPlain: no room is left for sealing. *)
MaxPlainBare == MaxChunk - Framing

(* MAX_PLAIN_PAYLOAD_SIZE of a build with encryption *)
MaxPlain == MaxChunk - Framing - (NonceSize + TagSize)

Has(flags, bit) == (flags \div bit) % 2 = 1
Least(a, b)     == IF a < b THEN a ELSE b
Zeros(n)        == [i \in 1 .. n |-> 0]
U16(n)          == <<n % 256, (n \div 256) % 256>>
Num(bytes)      == bytes[1] + 256 * bytes[2]

(* width bytes from offset on, counted from 0 as in the code *)
Field(bytes, offset, width) == SubSeq(bytes, offset + 1, offset + width)

-----------------------------------------------------------------------------
(* The device: payloads *)

EntryBytes(e) ==
  <<Len(e.key)>> \o e.key \o <<e.type>>
  \o e.value \o Zeros(8 - Len(e.value)) \o e.ticks

(* Mutation of AddEntry: the byte of the count is forgotten. *)
AddEntryOneMore(p, e) ==
  LET b == EntryBytes(e)
  IN  IF Len(p.part) + Len(b) > MaxPlain
        THEN [full |-> Append(p.full, <<p.count>> \o p.part), part |-> b, count |-> 1]
        ELSE [full |-> p.full, part |-> p.part \o b, count |-> p.count + 1]

AddEntry(p, e) ==
  LET b == EntryBytes(e)
  IN  IF 1 + Len(p.part) + Len(b) > MaxPlain
        THEN [full |-> Append(p.full, <<p.count>> \o p.part), part |-> b, count |-> 1]
        ELSE [full |-> p.full, part |-> p.part \o b, count |-> p.count + 1]

(* encode_metrics: as many entries to a payload as fit behind their count. *)
Packed(entries) ==
  LET packed[i \in 0 .. Len(entries)] ==
        IF i = 0 THEN [full |-> <<>>, part |-> <<>>, count |-> 0]
        ELSE AddEntry(packed[i - 1], entries[i])
      p == packed[Len(entries)]
  IN  IF p.count = 0 THEN <<>> ELSE Append(p.full, <<p.count>> \o p.part)

(* encode_device_info: the version gives way to the build and the type. *)
InfoPayload(r) ==
  LET id == SubSeq(r.id, 1, Least(Len(r.id), 127))
      n  == Least(Least(Len(r.version), 127),
                  MaxPlain - (2 + 8 + Len(r.type)) - Len(id))
  IN  <<Len(id)>> \o id \o <<n>> \o SubSeq(r.version, 1, n)
      \o r.build \o r.type

(* FaultRecord::serialize_to *)
FaultPayload(r) ==
  r.type \o FlattenSeq(r.frame \o r.extended \o r.stack \o r.status)

Payloads(r) ==
  CASE r.kind = "heartbeat" ->
         <<r.uptime \o r.stack \o r.metrics \o r.lost \o r.key>>
    [] r.kind = "metrics"   -> Packed(r.entries)
    [] r.kind = "fault"     -> <<FaultPayload(r)>>
    [] r.kind = "reboot"    -> <<r.reason \o r.extra \o r.boot \o r.uptime>>
    [] r.kind = "info"      -> <<InfoPayload(r)>>
    [] r.kind = "ota"       -> <<r.build \o r.max \o <<1>> \o r.flags \o <<0, 0>>>>

Type == [heartbeat |-> 1, metrics |-> 2, fault |-> 3, reboot |-> 5, info |-> 6,
         ota |-> 7]

(* encode *)
Framed(header, payload) ==
  LET bytes == header \o payload IN bytes \o U16(Crc(bytes))

Encode(type, payload, last, n) ==
  LET p == SubSeq(payload, 1, Least(Len(payload), MaxPlain))
  IN  Framed(<<236, 1, type, IF last THEN 1 ELSE 0>> \o U16(Len(p)) \o U16(n), p)

Chunks(r, n) ==
  LET ps == Payloads(r)
  IN  [i \in DOMAIN ps |->
         Encode(Type[r.kind], ps[i], i = Len(ps), (n + i - 1) % 65536)]

-----------------------------------------------------------------------------
(* The device: wrappers *)

PayloadOf(chunk) == SubSeq(chunk, 9, Len(chunk) - 2)

(* The chunk with another payload and one more flag. *)
Reframed(chunk, payload, flag) ==
  Framed([SubSeq(chunk, 1, 8) EXCEPT ![4] = @ + flag,
                                     ![5] = U16(Len(payload))[1],
                                     ![6] = U16(Len(payload))[2]], payload)

(* How often the byte at place i is repeated, as far as a byte can tell.   *)
RunAt(bytes, i) ==
  LET most == Least(255, Len(bytes) - i + 1)
  IN  CHOOSE n \in 1 .. most :
        /\ \A k \in 1 .. n - 1 : bytes[i + k] = bytes[i]
        /\ n = most \/ bytes[i + n] # bytes[i]

(* The first of the places from i on, or the end. *)
FirstFrom(i, places, end) ==
  CHOOSE j \in i .. end :
    /\ j = end \/ j \in places
    /\ \A k \in i .. j - 1 : k \notin places

(* Mutation of Compress: a marker byte stands for itself. *)
CompressNoEscape(bytes) ==
  LET end    == Len(bytes) + 1
      marked == {j \in DOMAIN bytes : RunAt(bytes, j) >= 3}
      from[i \in 1 .. end] ==
        LET m == FirstFrom(i, marked, end)
        IN  IF m = end THEN SubSeq(bytes, i, m - 1)
            ELSE SubSeq(bytes, i, m - 1) \o <<255, bytes[m], RunAt(bytes, m)>>
                 \o from[m + RunAt(bytes, m)]
  IN  from[1]

(* rle_compress: runs of three and more, and every marker byte. *)
Compress(bytes) ==
  LET end    == Len(bytes) + 1
      marked == {j \in DOMAIN bytes : RunAt(bytes, j) >= 3 \/ bytes[j] = 255}
      from[i \in 1 .. end] ==
        LET m == FirstFrom(i, marked, end)
        IN  IF m = end THEN SubSeq(bytes, i, m - 1)
            ELSE SubSeq(bytes, i, m - 1) \o <<255, bytes[m], RunAt(bytes, m)>>
                 \o from[m + RunAt(bytes, m)]
  IN  from[1]

(* rle_decompress, as far as a marker that is cut. *)
Decompress(bytes) ==
  LET end     == Len(bytes) + 1
      markers == {j \in DOMAIN bytes : bytes[j] = 255}
      from[i \in 1 .. end] ==
        LET m == FirstFrom(i, markers, end)
        IN  IF m + 2 > Len(bytes) THEN SubSeq(bytes, i, m - 1)
            ELSE SubSeq(bytes, i, m - 1) \o [k \in 1 .. bytes[m + 2] |-> bytes[m + 1]]
                 \o from[m + 3]
  IN  from[1]

(* CompressedTransport: only what becomes shorter, not counting the two    *)
(* bytes of its length.                                                    *)
Pack(chunk) ==
  LET payload == PayloadOf(chunk)
      shorter == Compress(payload)
  IN  IF payload = <<>> \/ Len(shorter) >= Len(payload) \/ Len(shorter) + 2 > MaxPayloadSize
        THEN chunk
        ELSE Reframed(chunk, U16(Len(payload)) \o shorter, FlagPacked)

Cipher(key, bytes)   == [i \in DOMAIN bytes |-> (bytes[i] + key) % 256]
Decipher(key, bytes) == [i \in DOMAIN bytes |-> (bytes[i] + 256 - key) % 256]
Tag(key)             == [i \in 1 .. TagSize |-> key]

(* seal: counter and epoch, which the replay check is about, are zero;     *)
(* the shared key has no number.                                           *)
Nonce(version, key) ==
  Zeros(8) \o <<IF version = 1 THEN key ELSE 0, 0, 0, 0, version>>

Sealed(chunk, version, key) ==
  Reframed(chunk, Nonce(version, key) \o Cipher(key, PayloadOf(chunk)) \o Tag(key),
           FlagSealed)

Fits(chunk) == Len(chunk) + NonceSize + TagSize <= MaxChunk

(* EncryptedTransport: what cannot be sealed is not sent with a credential *)
(* and sent in clear with a shared key.                                    *)
Prepared(chunk) ==
  CASE link.seal = "no"                         -> <<chunk>>
    [] link.seal = "shared" /\ Fits(chunk)      -> <<Sealed(chunk, 0, link.key)>>
    [] link.seal = "shared" /\ ~Fits(chunk)     -> <<chunk>>
    [] link.seal = "credential" /\ Fits(chunk)  -> <<Sealed(chunk, 1, link.key)>>
    [] link.seal = "credential" /\ ~Fits(chunk) -> <<>>

Leaves(chunk) == Prepared(IF link.packed THEN Pack(chunk) ELSE chunk)

-----------------------------------------------------------------------------
(* The server: chunks *)

(* decode_chunk *)
Whole(bytes) ==
  /\ Len(bytes) >= Framing
  /\ bytes[1] = 236 /\ bytes[2] = 1 /\ bytes[3] \in 1 .. 7
  /\ LET size == Framing + Num(Field(bytes, 4, 2))
     IN  /\ Len(bytes) >= size
         /\ Field(bytes, size - 2, 2) = U16(Crc(SubSeq(bytes, 1, size - 2)))

(* decode_all_chunks, from the first chunk to the first error *)
Decoded(bytes) ==
  LET from[i \in 1 .. Len(bytes) + 1] ==
        LET rest == SubSeq(bytes, i, Len(bytes))
            len  == Num(Field(rest, 4, 2))
        IN  IF ~Whole(rest) THEN <<>>
            ELSE <<[type |-> rest[3], flags |-> rest[4],
                    payload |-> Field(rest, 8, len)]>> \o from[i + Framing + len]
  IN  from[1]

Opens(payload) ==
  /\ Len(payload) >= NonceSize + TagSize
  /\ Field(payload, Len(payload) - TagSize, TagSize) = Tag(ServerKey)

Plaintext(payload) ==
  Decipher(ServerKey, Field(payload, NonceSize, Len(payload) - NonceSize - TagSize))

Credentialed(payload) == Len(payload) >= NonceSize /\ payload[NonceSize] = 1

(* open_and_group: a chunk of a credential is opened or refused; another   *)
(* one that does not open is read as it is.                                *)
Opened(chunk) ==
  CASE ~Has(chunk.flags, FlagSealed) -> <<chunk>>
    [] Has(chunk.flags, FlagSealed) /\ Opens(chunk.payload) ->
         <<[chunk EXCEPT !.payload = Plaintext(@)]>>
    [] Has(chunk.flags, FlagSealed) /\ ~Opens(chunk.payload) ->
         IF Credentialed(chunk.payload) THEN <<>> ELSE <<chunk>>

-----------------------------------------------------------------------------
(* The server: payloads.  Each gives what is stored, as a sequence of rows *)

FaultRow(p) ==
  IF Len(p) < 149 THEN <<>>
  ELSE <<[kind |-> "fault", type |-> Field(p, 0, 1),
          lr |-> Field(p, 21, 4), pc |-> Field(p, 25, 4), sp |-> Field(p, 65, 4),
          stack |-> Field(p, 69, 64), status |-> Field(p, 133, 16)]>>

(* parse_metrics_payload: up to the count, or to an entry that is cut. *)
MetricRows(p) ==
  LET from[i \in 1 .. Len(p) + 1] ==
        LET at == i + p[i]
        IN  IF i > Len(p) THEN <<>>
            ELSE IF at + 17 > Len(p) THEN <<>>
            ELSE <<[kind |-> "metric", key |-> SubSeq(p, i + 1, at),
                    type |-> p[at + 1],
                    value |-> Field(p, at + 1, IF p[at + 1] \in {0, 1} THEN 4 ELSE 8),
                    ticks |-> Field(p, at + 9, 8)]>> \o from[at + 18]
      rows == from[2]
  IN  IF p = <<>> THEN <<>> ELSE SubSeq(rows, 1, Least(p[1], Len(rows)))

InfoRow(p) ==
  LET idLen == p[1]
      vLen  == p[2 + idLen]
      at    == 2 + idLen + vLen
  IN  IF Len(p) < 3 \/ 2 + p[1] > Len(p) THEN <<>>
      ELSE IF at + 8 > Len(p) THEN <<>>
      ELSE <<[kind |-> "info", id |-> Field(p, 1, idLen),
              version |-> Field(p, 2 + idLen, vLen), build |-> Field(p, at, 8),
              type |-> IF Len(p) > at + 8 /\ p[at + 9] \in {0, 1}
                         THEN <<p[at + 9]>> ELSE <<>>]>>

RebootRow(p) ==
  IF Len(p) < 10 THEN <<>>
  ELSE <<[kind |-> "reboot", reason |-> Field(p, 0, 1), extra |-> Field(p, 1, 1),
          boot |-> Field(p, 2, 4), uptime |-> Field(p, 6, 4)]>>

OtaRow(p) ==
  IF Len(p) < 14 THEN <<>>
  ELSE <<[kind |-> "ota", build |-> Field(p, 0, 8), max |-> Field(p, 8, 2),
          capable |-> p[11] # 0, rolledBack |-> Has(p[12], 1)]>>

HeartbeatRow(p) ==
  IF Len(p) < 20 THEN <<>>
  ELSE <<[kind |-> "heartbeat", uptime |-> Field(p, 0, 8), stack |-> Field(p, 8, 4),
          metrics |-> Field(p, 12, 4), lost |-> Field(p, 16, 4),
          key |-> IF Len(p) >= 24 THEN Field(p, 20, 4) ELSE Zeros(4)]>>

Rows(chunk) ==
  CASE chunk.type = 1 -> HeartbeatRow(chunk.payload)
    [] chunk.type = 2 -> MetricRows(chunk.payload)
    [] chunk.type = 3 -> FaultRow(chunk.payload)
    [] chunk.type = 4 -> <<>>
    [] chunk.type = 5 -> RebootRow(chunk.payload)
    [] chunk.type = 6 -> InfoRow(chunk.payload)
    [] chunk.type = 7 -> OtaRow(chunk.payload)

Each(Op(_), s) == FlattenSeq([i \in DOMAIN s |-> Op(s[i])])

Read(bytes) == Each(Rows, Each(Opened, Decoded(bytes)))

-----------------------------------------------------------------------------
WireInit ==
  /\ link \in Links
  /\ seq = 0
  /\ body = <<>>
  /\ sent = <<>>
  /\ posted = [rows |-> <<>>, of |-> <<>>, cut |-> 0]

(* The device encodes a record and sends its chunks. *)
Send(r) ==
  LET chunks == Chunks(r, seq)
  IN  /\ Len(sent) < MaxRecords /\ posted.of = <<>>
      /\ seq' = (seq + Len(chunks)) % 65536
      /\ body' = body \o [i \in DOMAIN chunks |-> [plain |-> chunks[i],
                                                  left |-> Leaves(chunks[i])]]
      /\ sent' = Append(sent, r)
      /\ UNCHANGED <<link, posted>>

(* A body reaches the server, perhaps without its end, which a spool or a  *)
(* buffer lost.                                                            *)
Post(cut) ==
  LET bytes == Each(LAMBDA c : FlattenSeq(c.left), body)
  IN  /\ sent # <<>> /\ cut <= Len(bytes)
      /\ posted' = [rows |-> Read(SubSeq(bytes, 1, Len(bytes) - cut)),
                    of |-> sent, cut |-> cut]
      /\ body' = <<>> /\ sent' = <<>>
      /\ UNCHANGED <<link, seq>>

WireNext == (\E r \in Records : Send(r)) \/ (\E cut \in Missing : Post(cut))

WireSpec == WireInit /\ [][WireNext]_wireVars

-----------------------------------------------------------------------------
(* What the server should store of a record: metrics one by one, and a     *)
(* device's names as far as they fit.                                      *)
Due(r) ==
  CASE r.kind = "heartbeat" -> <<r>>
    [] r.kind = "metrics"   ->
         [i \in DOMAIN r.entries |->
            [kind |-> "metric", key |-> r.entries[i].key, type |-> r.entries[i].type,
             value |-> r.entries[i].value, ticks |-> r.entries[i].ticks]]
    [] r.kind = "fault"     ->
         <<[kind |-> "fault", type |-> r.type, lr |-> r.frame[6], pc |-> r.frame[7],
            sp |-> r.extended[9], stack |-> FlattenSeq(r.stack),
            status |-> FlattenSeq(r.status)]>>
    [] r.kind = "reboot"    -> <<r>>
    [] r.kind = "info"      ->
         LET id   == SubSeq(r.id, 1, Least(Len(r.id), 127))
             room == Least(127, MaxPlain - (2 + 8 + Len(r.type)) - Len(id))
         IN  <<[kind |-> "info", id |-> id,
                version |-> SubSeq(r.version, 1, Least(Len(r.version), room)),
                build |-> r.build, type |-> r.type]>>
    [] r.kind = "ota"       ->
         <<[kind |-> "ota", build |-> r.build, max |-> r.max, capable |-> TRUE,
            rolledBack |-> Has(r.flags[1], 1)]>>

Readable == link.seal = "no" \/ link.key = ServerKey

(* What devices recorded is what the server stores, field by field and in  *)
(* order, however many chunks it took (ingest.rs:175-566); of a body whose *)
(* end is missing, its beginning, and never a half-read row; and a chunk   *)
(* sealed with a credential the server does not have is never read.        *)
ReadAsWritten ==
  LET due == Each(Due, posted.of)
  IN  /\ ~link.packed /\ Readable =>
           IF posted.cut = 0 THEN posted.rows = due ELSE IsPrefix(posted.rows, due)
      /\ link.seal = "credential" /\ ~Readable => posted.rows = <<>>

(* "every chunk the SDK produces can be sealed" (config.rs:19): no chunk   *)
(* is dropped, and none goes out in clear, for its size.                   *)
AllSealed ==
  link.seal # "no" /\ ~link.packed =>
    \A i \in DOMAIN body :
      Len(body[i].left) = 1 /\ Has(body[i].left[1][4], FlagSealed)

(* What was compressed decompresses to what it was, whatever its bytes     *)
(* (compression.rs:71).                                                    *)
Decompresses ==
  link.packed /\ link.seal = "no" =>
    \A i \in DOMAIN body :
      LET p == PayloadOf(body[i].left[1])
      IN  Has(body[i].left[1][4], FlagPacked) =>
            /\ Num(SubSeq(p, 1, 2)) = Len(PayloadOf(body[i].plain))
            /\ Decompress(SubSeq(p, 3, Len(p))) = PayloadOf(body[i].plain)

(* No wrapper around a transport costs a chunk or the bytes in it.         *)
WrappersHold == AllSealed /\ Decompresses

(* Together: nothing between a device's buffers and the server's rows      *)
(* changes, mixes up or loses a record.                                    *)
RecordsSurvive == ReadAsWritten /\ WrappersHold

(* Not met.  "Chunks are RLE-compressed transparently"                     *)
(* (docs/guide/transports.md:110): with the right key, whatever wrappers a *)
(* device has, what it sends is what the server stores.                    *)
Transparent ==
  Readable /\ posted.cut = 0 => posted.rows = Each(Due, posted.of)
=============================================================================
