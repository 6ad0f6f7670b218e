------------------------------ MODULE DefmtSink ------------------------------
(***************************************************************************)
(* The defmt logger of the SDK (ferrite-sdk/src/defmt_sink.rs) in front of *)
(* the trace ring.                                                         *)
(*                                                                         *)
(* defmt calls acquire, then write for each piece of a message, then       *)
(* release.  The pieces are staged in one buffer and become one frame.     *)
(* The thread and an interrupt handler log; the handler interrupts the     *)
(* thread between any two of its accesses and runs to its end.  Frames are *)
(* written, and the ring is cleared, in critical sections.                 *)
(***************************************************************************)
EXTENDS Integers, Sequences, FiniteSets, SequencesExt

-----------------------------------------------------------------------------
(***************************************************************************)
(* The ring of bytes that keeps log frames until they are uploaded         *)
(* (ferrite-sdk/src/trace.rs).                                             *)
(*                                                                         *)
(* A frame is its level, its ticks, the length of its payload, the payload *)
(* and a sentinel.  Room is made by dropping bytes up to the next sentinel *)
(* wherever it stands, in ticks and payloads too; reading goes by the      *)
(* lengths.  The two agree as long as no other byte looks like a sentinel. *)
(***************************************************************************)
CONSTANTS
  N,           \* bytes of the ring
  Byte,        \* the values of a byte
  Sentinel,    \* 0xFF
  TickBytes,   \* 4
  MaxPayload   \* 127

ASSUME RingAssumption ==
  /\ N \in Nat \ {0}
  /\ TickBytes \in Nat
  /\ MaxPayload \in Nat /\ 0 .. MaxPayload \subseteq Byte
  /\ Byte \subseteq Nat
  /\ Sentinel \in Byte \ (0 .. MaxPayload)

Header == 1 + TickBytes + 1

Frame == [level : Byte, ticks : [1 .. TickBytes -> Byte], payload : Seq(Byte)]

VARIABLES
  ring,   \* buf, write (write_pos), read (read_pos), used and lost
          \* (frames_lost)
  kept,   \* history: the frames that have bytes in the ring, and where they
          \* begin, counted from the read position: before it, when the
          \* frame was cut
  gone,   \* history: frames refused or cut since the start
  plain   \* history: no frame so far had a sentinel but its last byte

ringVars == <<ring, kept, gone, plain>>

Bytes(f) ==
  <<f.level>> \o f.ticks \o <<Len(f.payload)>> \o f.payload \o <<Sentinel>>

Size(f) == Len(Bytes(f))

Cut(f) == [f EXCEPT !.payload =
             SubSeq(@, 1, IF Len(@) < MaxPayload THEN Len(@) ELSE MaxPayload)]

-----------------------------------------------------------------------------
(* evict_oldest_frame, as often as it takes to free need bytes: each time  *)
(* up to and including the next sentinel, or everything if there is none.  *)

At(r, i) == r.buf[(r.read + i) % N]

Cuts(r) == {i \in 1 .. r.used : At(r, i - 1) = Sentinel}

Freed(r, need) ==
  LET enough == {c \in Cuts(r) : c >= need}
  IN  IF need <= 0 THEN 0
      ELSE IF enough = {} THEN r.used
      ELSE CHOOSE c \in enough : \A d \in enough : c <= d

(* Mutation of Evict: frames_lost is counted once a write. *)
EvictCountsOne(r, need) ==
  IF need <= 0 THEN r
  ELSE [r EXCEPT !.read = (@ + Freed(r, need)) % N,
                 !.used = @ - Freed(r, need),
                 !.lost = @ + 1]

Evict(r, need) ==
  LET c      == Freed(r, need)
      rounds == {d \in Cuts(r) : d <= c} \cup (IF c \in Cuts(r) THEN {} ELSE {c})
  IN  IF need <= 0 THEN r
      ELSE [r EXCEPT !.read = (@ + c) % N, !.used = @ - c,
                     !.lost = @ + Cardinality(rounds)]

(* write_byte, for each of bytes. *)
Written(r, bytes) ==
  [r EXCEPT
     !.buf = [p \in 0 .. N - 1 |->
                LET k == (p + N - r.write) % N
                IN  IF k < Len(bytes) THEN bytes[k + 1] ELSE @[p]],
     !.write = (@ + Len(bytes)) % N,
     !.used = @ + Len(bytes)]

Plain(f) == \A k \in 1 .. Size(f) - 1 : Bytes(f)[k] # Sentinel

(* write_frame *)
WriteFrame(frame) ==
  LET f    == Cut(frame)
      need == ring.used + Size(f) - N
      c    == Freed(ring, need)
      after == [i \in DOMAIN kept |-> [kept[i] EXCEPT !.at = @ - c]]
      over == {i \in DOMAIN kept : after[i].at + Size(after[i].frame) <= 0}
  IN  IF Size(f) > N
      THEN /\ ring' = [ring EXCEPT !.lost = @ + 1]
           /\ gone' = gone + 1
           /\ UNCHANGED <<kept, plain>>
      ELSE /\ plain' = (plain /\ Plain(f))
           /\ ring' = Written(Evict(ring, need), Bytes(f))
           /\ kept' = Append(SubSeq(after, Cardinality(over) + 1, Len(after)),
                             [frame |-> f, at |-> ring.used - c])
           /\ gone' = gone + Cardinality({i \in DOMAIN kept :
                                            kept[i].at >= 0 /\ after[i].at < 0})

(* Mutation of Clear: the read position stays. *)
ClearKeepsRead ==
  /\ ring' = [ring EXCEPT !.write = 0, !.used = 0]
  /\ kept' = <<>>
  /\ UNCHANGED <<gone, plain>>

(* clear *)
Clear ==
  /\ ring' = [ring EXCEPT !.write = 0, !.read = 0, !.used = 0]
  /\ kept' = <<>>
  /\ UNCHANGED <<gone, plain>>

-----------------------------------------------------------------------------
(* iter_frames: level and ticks of each frame from the oldest on.          *)

(* Mutation of FramesOf: the sentinel is not skipped. *)
FramesOfNoSkip(r) ==
  LET from[i \in 0 .. r.used] ==
        LET next == i + Header + At(r, i + Header - 1)
        IN  IF i + Header + 1 > r.used \/ next >= r.used THEN <<>>
            ELSE <<[level |-> At(r, i),
                    ticks |-> [t \in 1 .. TickBytes |-> At(r, i + t)]]>>
                 \o from[next]
  IN  from[0]

FramesOf(r) ==
  LET from[i \in 0 .. r.used] ==
        LET len  == At(r, i + Header - 1)
            next == i + Header + len + 1
        IN  IF i + Header + 1 > r.used \/ next > r.used THEN <<>>
            ELSE <<[level |-> At(r, i),
                    ticks |-> [t \in 1 .. TickBytes |-> At(r, i + t)]]>>
                 \o from[next]
  IN  from[0]

RingInit ==
  /\ ring = [buf |-> [p \in 0 .. N - 1 |-> 0], write |-> 0, read |-> 0,
             used |-> 0, lost |-> 0]
  /\ kept = <<>>
  /\ gone = 0
  /\ plain = TRUE

-----------------------------------------------------------------------------
(* The ring holds the frames written last, one after the other, the first  *)
(* perhaps cut: whatever the payloads, a frame is never broken by another, *)
(* and the scan for a sentinel, which would clear everything if it found   *)
(* none, always finds one.                                                 *)
RingHolds ==
  /\ ring.used \in 0 .. N
  /\ ring.write = (ring.read + ring.used) % N
  /\ kept = <<>> <=> ring.used = 0
  /\ \A i \in DOMAIN kept :
       \A k \in 1 .. Size(kept[i].frame) :
         kept[i].at + k > 0 =>
           At(ring, kept[i].at + k - 1) = Bytes(kept[i].frame)[k]

(* Unless the oldest frame was cut, iter_frames gives the frames of the    *)
(* ring from the oldest to the newest (trace.rs:108).                      *)
ReadsWhole ==
  (\A i \in DOMAIN kept : kept[i].at >= 0) =>
     FramesOf(ring) = [i \in DOMAIN kept |-> [level |-> kept[i].frame.level,
                                             ticks |-> kept[i].frame.ticks]]

(* frames_lost counts every frame that was lost to overflow, and none but  *)
(* these, and no frame is cut, while no other byte looks like a sentinel.  *)
LossesCounted ==
  /\ gone <= ring.lost
  /\ plain => gone = ring.lost /\ \A i \in DOMAIN kept : kept[i].at >= 0

(* Together: what the ring holds is what a reader of it gets, and what it  *)
(* does not hold is counted.                                               *)
RingReads == RingHolds /\ ReadsWhole /\ LossesCounted

-----------------------------------------------------------------------------
CONSTANTS
  StageSize,   \* bytes of STAGING_BUF, 128
  Level,       \* of what defmt logs, 5
  Messages,    \* what is logged: sequences of pieces, each a sequence of bytes
  Ticks,       \* values of ticks_lo, TickBytes bytes each
  Direct,      \* frames the application writes itself
  MaxFrames    \* bound: frames ever written

ASSUME SinkAssumption ==
  /\ StageSize \in Nat \ {0}
  /\ Level \in Byte \ {Sentinel}
  /\ Messages \subseteq Seq(Seq(Byte))
  /\ Ticks \subseteq [1 .. TickBytes -> Byte] /\ Direct \subseteq Frame
  /\ MaxFrames \in Nat

VARIABLES
  active,      \* LOGGING_ACTIVE
  stage,       \* STAGING_BUF
  pos,         \* STAGING_POS
  call,        \* context -> its logging call
  frames       \* how many frames were written so far

sinkVars == <<active, stage, pos, call>>
traceVars     == <<ringVars, sinkVars, frames>>

Contexts == {"thread", "isr"}

(* at is the STAGING_POS the context has read; own and alone are history:  *)
(* the bytes of the message, and whether the flag was clear when the call  *)
(* began and no other context has run since.                               *)
Idle == [pc |-> "idle", left |-> <<>>, at |-> 0, own |-> <<>>, alone |-> TRUE]

SinkInit ==
  /\ RingInit
  /\ active = FALSE
  /\ stage = [p \in 1 .. StageSize |-> 0]
  /\ pos = 0
  /\ call = [c \in Contexts |-> Idle]
  /\ frames = 0

(* The handler runs whenever it wants, the thread when it does not. *)
Runs(c, pc) == call[c].pc = pc /\ (c = "isr" \/ call["isr"].pc = "idle")

Becomes(c, new) ==
  call' = [d \in Contexts |-> IF d = c THEN new
                                       ELSE [call[d] EXCEPT !.alone = FALSE]]

Staged(n) == SubSeq([p \in 1 .. StageSize |-> stage[p]], 1, n)

-----------------------------------------------------------------------------
(* acquire: the flag is set, then the position is reset.  A call that      *)
(* finds the flag set leaves the position and goes on all the same.        *)

(* Mutation of Acquire: the position is left where it is. *)
AcquireNoReset(c, pieces) ==
  /\ Runs(c, "idle")
  /\ frames < MaxFrames
  /\ active' = TRUE
  /\ Becomes(c, [Idle EXCEPT !.pc = "write", !.left = pieces,
                             !.own = FlattenSeq(pieces), !.alone = ~active])
  /\ UNCHANGED <<ringVars, stage, pos, frames>>

Acquire(c, pieces) ==
  /\ Runs(c, "idle")
  /\ frames < MaxFrames
  /\ active' = TRUE
  /\ Becomes(c, [Idle EXCEPT !.pc = IF active THEN "write" ELSE "reset",
                             !.left = pieces,
                             !.own = FlattenSeq(pieces), !.alone = ~active])
  /\ UNCHANGED <<ringVars, stage, pos, frames>>

Reset(c) ==
  /\ Runs(c, "reset")
  /\ pos' = 0
  /\ Becomes(c, [call[c] EXCEPT !.pc = "write"])
  /\ UNCHANGED <<ringVars, active, stage, frames>>

(* write: reads the position, copies what fits, and sets the position. *)
WriteBegin(c) ==
  /\ Runs(c, "write") /\ call[c].left # <<>>
  /\ Becomes(c, [call[c] EXCEPT !.pc = "copy", !.at = pos])
  /\ UNCHANGED <<ringVars, active, stage, pos, frames>>

Fitting(piece, at) ==
  IF Len(piece) < StageSize - at THEN Len(piece) ELSE StageSize - at

Copy(c) ==
  LET piece == Head(call[c].left)
      at    == call[c].at
      n     == Fitting(piece, at)
  IN  /\ Runs(c, "copy")
      /\ stage' = [p \in 1 .. StageSize |->
                     IF p \in at + 1 .. at + n THEN piece[p - at] ELSE stage[p]]
      /\ pos' = IF n > 0 THEN at + n ELSE pos
      /\ Becomes(c, [call[c] EXCEPT !.pc = "write", !.left = Tail(@)])
      /\ UNCHANGED <<ringVars, active, frames>>

(* release: flush, in which the position is read and then the frame is     *)
(* written, and the flag is cleared.                                       *)
FlushBegin(c) ==
  /\ Runs(c, "write") /\ call[c].left = <<>>
  /\ Becomes(c, [call[c] EXCEPT !.pc = "flush", !.at = pos])
  /\ UNCHANGED <<ringVars, active, stage, pos, frames>>

Flush(c, ticks) ==
  /\ Runs(c, "flush")
  /\ IF call[c].at > 0
       THEN /\ WriteFrame([level |-> Level, ticks |-> ticks,
                           payload |-> Staged(call[c].at)])
            /\ frames' = frames + 1
       ELSE UNCHANGED <<ringVars, frames>>
  /\ Becomes(c, [call[c] EXCEPT !.pc = "release"])
  /\ UNCHANGED <<active, stage, pos>>

Release(c) ==
  /\ Runs(c, "release")
  /\ active' = FALSE
  /\ Becomes(c, Idle)
  /\ UNCHANGED <<ringVars, stage, pos, frames>>

-----------------------------------------------------------------------------
(* The application writes a frame, an upload session clears the ring. *)

WriteDirect(f) ==
  /\ Runs("thread", "idle")
  /\ frames < MaxFrames /\ frames' = frames + 1
  /\ WriteFrame(f)
  /\ UNCHANGED sinkVars

ClearTrace ==
  /\ Runs("thread", "idle")
  /\ ring.used > 0
  /\ Clear
  /\ UNCHANGED <<sinkVars, frames>>

SinkNext ==
  \/ \E c \in Contexts :
       \/ \E m \in Messages : Acquire(c, m)
       \/ Reset(c) \/ WriteBegin(c) \/ Copy(c) \/ FlushBegin(c)
       \/ \E t \in Ticks : Flush(c, t)
       \/ Release(c)
  \/ \E f \in Direct : WriteDirect(f)
  \/ ClearTrace

SinkSpec == SinkInit /\ [][SinkNext]_traceVars

-----------------------------------------------------------------------------
(* What a frame takes of a message.                                        *)
Cropped(bytes) ==
  LET n == IF StageSize < MaxPayload THEN StageSize ELSE MaxPayload
  IN  SubSeq(bytes, 1, IF Len(bytes) < n THEN Len(bytes) ELSE n)

(* A message that finds the logger free, and during which no other context *)
(* runs, becomes one frame of its own bytes, as far as they fit, whatever  *)
(* messages that overlapped left behind them in buffer and position.  No   *)
(* frame is written of nothing, or where it is larger than the ring.       *)
FlushesWhole ==
  \A c \in Contexts :
    call[c].pc = "flush" /\ call'[c].pc = "release" /\ call[c].alone
    => IF call[c].own = <<>> \/ Header + Len(Cropped(call[c].own)) + 1 > N
       THEN kept' = kept
       ELSE kept'[Len(kept')].frame.payload = Cropped(call[c].own)

UndisturbedIsWhole == [][FlushesWhole]_traceVars

(* Not met.  acquire is to "Prevent reentrant logging" (defmt_sink.rs:32), *)
(* but only skips the reset: the handler stages its message in the buffer  *)
(* of the thread's call it interrupted, behind what that call has staged,  *)
(* or behind the bytes of an older message when the thread has set the     *)
(* flag and not yet reset the position.                                    *)
ReentrantIsPrevented ==
  [][call["thread"].pc # "idle" /\ call["isr"].pc # "idle"
     => UNCHANGED <<stage, pos>>]_traceVars
=============================================================================
