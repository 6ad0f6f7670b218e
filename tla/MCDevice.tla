------------------------------ MODULE MCDevice ------------------------------
(* What a device records and tells of itself, for TLC: the two places      *)
(* where it handles bytes (DefmtSink, Wire), the cause of its last reboot  *)
(* (BootCause) and what firmware is told of its uploads (Sessions).  They  *)
(* share nothing, so one of them runs in a behaviour, which adds their     *)
(* states instead of multiplying them.                                     *)
EXTENDS DefmtSink, Wire, BootCause, Sessions

-----------------------------------------------------------------------------
(* DefmtSink: a byte has five values, the largest one the sentinel, ticks  *)
(* are one byte, and a message has up to two pieces.                       *)
MCByte     == 0 .. 4
MCMessages == {<< <<0>> >>, << <<1, 2>>, <<4, 0>> >>}
MCTicks    == {<<0>>, <<4>>}
MCDirect   == {[level |-> 0, ticks |-> <<0>>, payload |-> p] :
                 p \in {<<>>, <<2>>}}

-----------------------------------------------------------------------------
(* Wire: records with payloads at and around the largest that fit.         *)

(* A sum of the bytes weighted by their places. *)
MCCrc(bytes) ==
  LET sum[lo, hi \in 1 .. Len(bytes)] ==
        IF lo = hi THEN (2 * lo + 1) * (bytes[lo] + 1)
        ELSE LET mid == (lo + hi) \div 2 IN sum[lo, mid] + sum[mid + 1, hi]
  IN  sum[1, Len(bytes)] % 65536

Fill(n, b) == [i \in 1 .. n |-> b]
Word(i)     == <<i, 0, 255, 1>>

Metric(keyLen, type, value) ==
  [key |-> Fill(keyLen, 97), type |-> type, value |-> value,
   ticks |-> <<9, 0, 0, 0, 0, 0, 0, 0>>]

Counter(keyLen) == Metric(keyLen, 0, <<5, 0, 0, 1>>)
Gauge(keyLen)   == Metric(keyLen, 1, <<255, 255, 7, 255>>)
Histogram(keyLen) == Metric(keyLen, 2, <<1, 2, 3, 4, 255, 6, 6, 6>>)

(* Four of the largest entries and one of 24 bytes fill a payload.         *)
Full == [i \in 1 .. 5 |-> IF i < 5 THEN Gauge(32) ELSE Counter(6)]

MCEntries == {<<>>, <<Counter(1)>>, <<Histogram(3), Gauge(2)>>, Full,
              [Full EXCEPT ![5] = Histogram(7)], Full \o <<Counter(1)>>,
              [i \in 1 .. 9 |-> Counter(32)]}

Info(idLen, versionLen, type) ==
  [kind |-> "info", id |-> Fill(idLen, 98), version |-> [i \in 1 .. versionLen |-> i],
   build |-> <<1, 2, 3, 4, 5, 6, 7, 8>>, type |-> type]

(* One of the largest, of which compression saves one byte.                *)
Tight == [kind |-> "info", id |-> [i \in 1 .. 127 |-> i % 2],
          version |-> [i \in 1 .. 88 |-> 3 + (i % 2)],
          build |-> <<1, 0, 0, 0, 0, 2, 3, 4>>, type |-> <<>>]

MCRecords ==
  {Tight} \cup {[kind |-> "metrics", entries |-> e] : e \in MCEntries}
  \cup {Info(4, 3, <<>>), Info(127, 88, <<>>), Info(127, 127, <<>>),
        Info(127, 127, <<1>>), Info(127, 87, <<0>>), Info(130, 4, <<>>),
        Info(0, 130, <<0>>)}
  \cup {[kind |-> "heartbeat", uptime |-> <<1, 2, 3, 4, 5, 6, 7, 8>>, stack |-> Word(1),
         metrics |-> Word(2), lost |-> Fill(4, 0), key |-> Word(4)],
        [kind |-> "reboot", reason |-> <<3>>, extra |-> <<0>>, boot |-> Word(1),
         uptime |-> Word(2)],
        [kind |-> "fault", type |-> <<1>>, frame |-> [i \in 1 .. 8 |-> Word(i)],
         extended |-> [i \in 1 .. 9 |-> Word(10 + i)],
         stack |-> [i \in 1 .. 16 |-> Word(20 + i)],
         status |-> [i \in 1 .. 4 |-> Word(40 + i)]]}
  \cup {[kind |-> "ota", build |-> <<1, 2, 3, 4, 5, 6, 7, 8>>, max |-> <<0, 1>>,
         flags |-> <<f>>] : f \in {0, 1}}

MCLinks == [seal : {"no"}, key : {1}, packed : BOOLEAN]
           \cup [seal : {"shared", "credential"}, key : {1, 2}, packed : {FALSE}]
           \cup [seal : {"credential"}, key : {1}, packed : {TRUE}]

-----------------------------------------------------------------------------
VARIABLE part  \* which of the four runs

allVars == <<traceVars, wireVars, bootVars, sessionVars, part>>

AllInit ==
  /\ part \in {"trace", "wire", "boot", "sessions"}
  /\ SinkInit /\ WireInit /\ BootInit /\ SessionInit
  /\ part # "wire" => link = CHOOSE l \in Links : TRUE
  /\ part # "boot" => kernel.image = CHOOSE image \in Images : TRUE
  /\ part # "sessions" => front = "c"

AllNext ==
  /\ UNCHANGED part
  /\ \/ /\ part = "trace" /\ SinkNext
        /\ UNCHANGED <<wireVars, bootVars, sessionVars>>
     \/ /\ part = "wire" /\ WireNext
        /\ UNCHANGED <<traceVars, bootVars, sessionVars>>
     \/ /\ part = "boot" /\ BootNext
        /\ UNCHANGED <<traceVars, wireVars, sessionVars>>
     \/ /\ part = "sessions" /\ SessionNext
        /\ UNCHANGED <<traceVars, wireVars, bootVars>>

AllSpec == AllInit /\ [][AllNext]_allVars
=============================================================================
