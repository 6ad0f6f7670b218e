----------------------------- MODULE SerialLink -----------------------------
(***************************************************************************)
(* A board's serial port as the gateway reads it (usb_reader.rs): bytes    *)
(* come in pieces, some lost or changed, the port disappears and is opened *)
(* again, and the framer hands on the chunks it finds.                     *)
(***************************************************************************)
EXTENDS Naturals, Sequences

-----------------------------------------------------------------------------
(***************************************************************************)
(* The wire format of a chunk (chunks/encoder.rs) and the gateway's        *)
(* ChunkFramer, which finds the chunks in a stream of bytes (framing.rs).  *)
(*                                                                         *)
(* The header is cut down to the fields the framer looks at: magic,        *)
(* version and payload length.  Type, flags and sequence number ride along *)
(* unread.  A byte is <<n>>; the CRC is one byte that names what it was    *)
(* computed over, so that no two frames share it.                          *)
(***************************************************************************)
CONSTANT MaxPayload  \* the longest payload (248 bytes)

ASSUME MaxPayloadAssumption == MaxPayload \in Nat

Magic == <<236>>
Version == <<1>>
Crc(covered) == <<"crc", covered>>

HeaderSize == 3
FrameSize(length) == HeaderSize + length + 1
MaxFrame == FrameSize(MaxPayload)

(* The number a byte stands for; a CRC read as a length is too long. *)
Number(byte) == IF Len(byte) = 1 THEN byte[1] ELSE MaxPayload + 1

Frame(payload) ==
  LET covered == <<Magic, Version, <<Len(payload)>>>> \o payload
  IN  Append(covered, Crc(covered))

(* total_len > MAX_CHUNK_SIZE *)
Fits(length) == length <= MaxPayload

(* Mutation of Intact: the checksum is not looked at. *)
IntactUnchecked(frame) == TRUE

(* stored_crc = computed_crc *)
Intact(frame) ==
  frame[Len(frame)] = Crc(SubSeq(frame, 1, Len(frame) - 1))

(* The frame the header announces is not all there yet. *)
Incomplete(there, length) == there < FrameSize(length)

(* Mutation of AfterBad: a frame whose checksum fails is thrown away whole. *)
AfterBadWhole(start, length) == start + FrameSize(length)

(* Where the search goes on after a checksum that fails: one byte on. *)
AfterBad(start, length) == start + 1

(* What feed makes of the bytes it holds: the frames it hands out, as      *)
(* <<first, last>> positions, and the position from which it keeps bytes.  *)
Scan(bytes) ==
  LET n == Len(bytes)
      scan[i \in 1 .. n + MaxFrame] ==
        LET length == Number(bytes[i + 2])
            last == i + FrameSize(length) - 1
            rest == scan[last + 1]
        IN  IF i > n THEN [frames |-> <<>>, keep |-> n + 1]
            ELSE IF bytes[i] # Magic THEN scan[i + 1]
            ELSE IF n - i + 1 < HeaderSize THEN [frames |-> <<>>, keep |-> i]
            ELSE IF bytes[i + 1] # Version \/ ~Fits(length) THEN scan[i + 1]
            ELSE IF Incomplete(n - i + 1, length)
              THEN [frames |-> <<>>, keep |-> i]
            ELSE IF ~Intact(SubSeq(bytes, i, last))
              THEN scan[AfterBad(i, length)]
            ELSE [frames |-> <<<<i, last>>>> \o rest.frames,
                  keep |-> rest.keep]
  IN  scan[1]

-----------------------------------------------------------------------------
CONSTANTS
  Payloads,   \* the payloads the board sends
  NoiseBytes, \* what a byte may be changed into
  MaxSent,    \* bound: chunks the board sends
  MaxWire,    \* bound: bytes not yet read
  MaxFaults   \* bound: lost, changed or cut bytes and disconnections

ASSUME LinkAssumption ==
  /\ \A p \in Payloads : /\ p \in Seq({<<b>> : b \in 0 .. 255})
                         /\ Len(p) <= MaxPayload
  /\ NoiseBytes \subseteq {<<b>> : b \in 0 .. 255}
  /\ MaxSent \in Nat
  /\ MaxWire \in Nat
  /\ MaxFaults \in Nat

VARIABLES
  sent,  \* the payloads of the chunks the board has sent
  wire,  \* bytes on their way, each with the number of its chunk
  port,  \* "open", or "hung" until what was read is used up
  held,  \* ChunkFramer.buf
  out,   \* chunks put in the gateway's channel
  since, \* history: chunks above this came over an undisturbed connection
  faults

linkVars == <<sent, wire, port, held, out, since, faults>>

Tagged(bytes, k) == [i \in 1 .. Len(bytes) |-> [byte |-> bytes[i], of |-> k]]
Values(stream) == [i \in 1 .. Len(stream) |-> stream[i].byte]

LinkInit ==
  /\ sent = <<>> /\ wire = <<>> /\ held = <<>> /\ out = <<>>
  /\ port = "open"
  /\ since = 0
  /\ faults = 0

Disturb ==
  /\ faults < MaxFaults
  /\ faults' = faults + 1
  /\ since' = MaxSent

(* The board writes a chunk to an open port. *)
Send(payload) ==
  /\ port = "open"
  /\ Len(sent) < MaxSent
  /\ Len(wire) + Len(Frame(payload)) <= MaxWire
  /\ sent' = Append(sent, payload)
  /\ wire' = wire \o Tagged(Frame(payload), Len(sent) + 1)
  /\ UNCHANGED <<port, held, out, since, faults>>

(* A chunk of which only some bytes are heard: the board was reset while   *)
(* it wrote, or the port was opened in the middle of it.                   *)
SendCut(payload) ==
  /\ port = "open"
  /\ Len(sent) < MaxSent
  /\ Disturb
  /\ sent' = Append(sent, payload)
  /\ \E n \in 1 .. Len(Frame(payload)) - 1, heard \in {"first", "last"} :
       LET frame == Frame(payload)
           part == IF heard = "first" THEN SubSeq(frame, 1, n)
                   ELSE SubSeq(frame, n + 1, Len(frame))
       IN  /\ Len(wire) + Len(part) <= MaxWire
           /\ wire' = wire \o Tagged(part, Len(sent) + 1)
  /\ UNCHANGED <<port, held, out>>

(* The board writes while nobody has the port open. *)
SendUnheard(payload) ==
  /\ port = "hung"
  /\ Len(sent) < MaxSent
  /\ sent' = Append(sent, payload)
  /\ UNCHANGED <<wire, port, held, out, since, faults>>

Lose ==
  /\ port = "open"
  /\ Disturb
  /\ \E i \in 1 .. Len(wire) :
       wire' = SubSeq(wire, 1, i - 1) \o SubSeq(wire, i + 1, Len(wire))
  /\ UNCHANGED <<sent, port, held, out>>

Change ==
  /\ port = "open"
  /\ Disturb
  /\ \E i \in 1 .. Len(wire), b \in NoiseBytes :
       /\ wire[i].byte # b
       /\ wire' = [wire EXCEPT ![i].byte = b]
  /\ UNCHANGED <<sent, port, held, out>>

(* serial_read_loop reads a piece, and the task feeds it to the framer. *)
Read ==
  \E n \in 1 .. Len(wire) :
    LET stream == held \o SubSeq(wire, 1, n)
        found == Scan(Values(stream))
        Emitted(span) == [of |-> stream[span[2]].of,
                          bytes |-> Values(SubSeq(stream, span[1], span[2]))]
    IN  /\ out' = out \o [i \in 1 .. Len(found.frames) |->
                            Emitted(found.frames[i])]
        /\ held' = SubSeq(stream, found.keep, Len(stream))
        /\ wire' = SubSeq(wire, n + 1, Len(wire))
        /\ UNCHANGED <<sent, port, since, faults>>

(* The port disappears; what the reading thread got before is still fed. *)
Hangup ==
  /\ port = "open"
  /\ Disturb
  /\ port' = "hung"
  /\ \E n \in 0 .. Len(wire) : wire' = SubSeq(wire, 1, n)
  /\ UNCHANGED <<sent, held, out>>

(* Mutation of Reopen: one framer for all connections. *)
ReopenSameFramer ==
  /\ port = "hung" /\ wire = <<>>
  /\ port' = "open"
  /\ since' = Len(sent)
  /\ UNCHANGED <<sent, wire, held, out, faults>>

(* usb_reader_task opens the port again and reads it with a fresh framer. *)
Reopen ==
  /\ port = "hung" /\ wire = <<>>
  /\ port' = "open"
  /\ held' = <<>>
  /\ since' = Len(sent)
  /\ UNCHANGED <<sent, wire, out, faults>>

LinkNext ==
  \/ \E p \in Payloads : Send(p) \/ SendCut(p) \/ SendUnheard(p)
  \/ Lose \/ Change \/ Read \/ Hangup \/ Reopen

LinkSpec == LinkInit /\ [][LinkNext]_linkVars
-----------------------------------------------------------------------------
Delivered == {out[i].of : i \in 1 .. Len(out)}

(* All bytes of chunk k stand in a row in the stream, unchanged. *)
Whole(stream, k) ==
  LET frame == Tagged(Frame(sent[k]), k)
      n == Len(frame)
  IN  \E i \in n .. Len(stream) : SubSeq(stream, i - n + 1, i) = frame

(* The variables have their types, and what the framer keeps between two   *)
(* reads never adds up to a frame of the greatest size: noise cannot make  *)
(* it wait for more than that (framing.rs:101-109).                        *)
LinkTypeOK ==
  /\ sent \in Seq(Payloads) /\ Len(sent) <= MaxSent
  /\ \A s \in {wire, held} : \A i \in 1 .. Len(s) : s[i].of \in 1 .. Len(sent)
  /\ Len(wire) <= MaxWire
  /\ Len(held) < MaxFrame
  /\ port \in {"open", "hung"}
  /\ since \in 0 .. MaxSent
  /\ faults \in 0 .. MaxFaults

(* Whatever is lost, changed or cut on the way, each chunk the framer      *)
(* hands on is one the board sent, in the order sent, and none comes twice *)
(* (framing.rs:111-135).                                                   *)
GenuineInOrder ==
  /\ \A i \in 1 .. Len(out) : out[i].bytes = Frame(sent[out[i].of])
  /\ \A i, j \in 1 .. Len(out) : i < j => out[i].of < out[j].of

(* Noise before a chunk costs no chunk: the framer never gives up bytes of *)
(* a chunk that has come whole, though it may keep them, behind noise that *)
(* looks like a header, until more bytes come (framing.rs:65-135).         *)
NothingSkipped ==
  [][faults' = faults /\ port' = port =>
     \A k \in 1 .. Len(sent) :
       Whole(held \o wire, k) =>
         k \in Delivered' \/ Whole(held' \o wire', k)]_linkVars

(* With every byte read, each chunk sent over a connection on which        *)
(* nothing went wrong has been handed on: it needs no byte after it,       *)
(* whatever an earlier connection left behind (usb_reader.rs:99-115).      *)
CleanDelivered ==
  wire = <<>> => since + 1 .. Len(sent) \subseteq Delivered

(* So the framer hands on no more and no less than was sent.               *)
DeliversSent == GenuineInOrder /\ CleanDelivered
=============================================================================
