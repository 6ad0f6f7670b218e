----------------------------- MODULE BleScanner -----------------------------
(***************************************************************************)
(* The gateway's Bluetooth scanner (ferrite-gateway/src/ble_scanner.rs)    *)
(* and the backoff between its scans (backoff.rs).                         *)
(*                                                                         *)
(* A scan is one loop: it considers a peripheral, which takes several      *)
(* awaits, before it takes the next event, and ends only between two.  For *)
(* each peripheral it claims it starts a handler, a task of its own, which *)
(* goes on when the scan has ended (bluetoothd restarts) and the next one  *)
(* begins with an empty set of claims.  A peripheral has one link, however *)
(* many handlers ask for it.                                               *)
(***************************************************************************)
EXTENDS Naturals, FiniteSets

CONSTANTS
  Peripherals,
  MaxScans,   \* bound: scans started
  NoPeer

ASSUME BleAssumption == MaxScans \in Nat \ {0} /\ NoPeer \notin Peripherals

Scans == 1 .. MaxScans

VARIABLES
  scan,      \* the number of the scan, 0 before the first
  scanning,  \* it has not ended
  delay,     \* Backoff.current, in seconds
  looking,   \* the peripheral being considered
  active,    \* the ActiveSet of each scan
  handlers,  \* [of, scan, at]
  linked,    \* peripherals with a link to the adapter
  listened   \* the chunk channel is open

bleVars == <<scan, scanning, delay, looking, active, handlers, linked, listened>>

Handler == [of : Peripherals, scan : Scans,
            at : {"connecting", "listening", "over", "cut"}]

BleTypeOK ==
  /\ scan \in 0 .. MaxScans /\ scanning \in BOOLEAN
  /\ delay \in {2, 4, 8, 16, 32, 60}
  /\ looking \in Peripherals \cup {NoPeer}
  /\ active \in [Scans -> SUBSET Peripherals]
  /\ handlers \subseteq Handler
  /\ linked \subseteq Peripherals /\ listened \in BOOLEAN

BleInit ==
  /\ scan = 0 /\ scanning = FALSE /\ delay = 2 /\ looking = NoPeer
  /\ active = [s \in Scans |-> {}] /\ handlers = {} /\ linked = {}
  /\ listened = TRUE

-----------------------------------------------------------------------------
(* next_delay and reset of a backoff from 2 to 60 s. *)
BackOff == delay' = IF 2 * delay < 60 THEN 2 * delay ELSE 60
Recovered == delay' = 2

(* No adapter, or it will not scan. *)
ScanFails ==
  /\ ~scanning /\ listened
  /\ BackOff
  /\ UNCHANGED <<scan, scanning, looking, active, handlers, linked, listened>>

ScanStarts ==
  /\ ~scanning /\ listened /\ scan < MaxScans
  /\ scan' = scan + 1
  /\ scanning' = TRUE
  /\ Recovered
  /\ UNCHANGED <<looking, active, handlers, linked, listened>>

(* The event stream ends, or the re-check finds the channel closed. *)
ScanEnds ==
  /\ scanning /\ looking = NoPeer
  /\ scanning' = FALSE
  /\ IF listened THEN BackOff ELSE UNCHANGED delay
  /\ UNCHANGED <<scan, looking, active, handlers, linked, listened>>

(* A discovery, or the re-check of every 30 s. *)
Consider(p) ==
  /\ scanning /\ looking = NoPeer
  /\ p \notin active[scan]
  /\ looking' = p
  /\ UNCHANGED <<scan, scanning, delay, active, handlers, linked, listened>>

(* Its properties cannot be had, or it is no ferrite device. *)
PassOver ==
  /\ looking # NoPeer
  /\ looking' = NoPeer
  /\ UNCHANGED <<scan, scanning, delay, active, handlers, linked, listened>>

Started(p) == [of |-> p, scan |-> scan, at |-> "connecting"]

Claim ==
  /\ looking # NoPeer
  /\ looking' = NoPeer
  /\ IF looking \in active[scan] THEN UNCHANGED <<active, handlers>>
     ELSE /\ active' = [active EXCEPT ![scan] = @ \cup {looking}]
          /\ handlers' = handlers \cup {Started(looking)}
  /\ UNCHANGED <<scan, scanning, delay, linked, listened>>

-----------------------------------------------------------------------------
(* Handlers. *)

Moves(h, at) == handlers' = (handlers \ {h}) \cup {[h EXCEPT !.at = at]}

(* A link that is there already will do. *)
Connect(h) ==
  /\ h.at = "connecting"
  /\ \/ Moves(h, "listening") /\ linked' = linked \cup {h.of}
     \/ Moves(h, "over") /\ linked' \in {linked, linked \cup {h.of}}
  /\ UNCHANGED <<scan, scanning, delay, looking, active, listened>>

(* Its notifications end or go quiet, or the channel is closed. *)
Ends(h) ==
  /\ h.at = "listening"
  /\ Moves(h, "over")
  /\ UNCHANGED <<scan, scanning, delay, looking, active, linked, listened>>

(* Mutation of Disconnect: the claim is given up before the link.          *)
DisconnectLate(h) ==
  /\ h.at = "over"
  /\ Moves(h, "cut")
  /\ active' = [active EXCEPT ![h.scan] = @ \ {h.of}]
  /\ UNCHANGED <<scan, scanning, delay, looking, linked, listened>>

Disconnect(h) ==
  /\ h.at = "over"
  /\ Moves(h, "cut")
  /\ linked' = linked \ {h.of}
  /\ UNCHANGED <<scan, scanning, delay, looking, active, listened>>

Release(h) ==
  /\ h.at = "cut"
  /\ handlers' = handlers \ {h}
  /\ active' = [active EXCEPT ![h.scan] = @ \ {h.of}]
  /\ UNCHANGED <<scan, scanning, delay, looking, linked, listened>>

(* A peripheral goes out of reach. *)
LinkDrops(p) ==
  /\ p \in linked
  /\ linked' = linked \ {p}
  /\ UNCHANGED <<scan, scanning, delay, looking, active, handlers, listened>>

(* The forwarding loop stops. *)
ChannelCloses ==
  /\ listened
  /\ listened' = FALSE
  /\ UNCHANGED <<scan, scanning, delay, looking, active, handlers, linked>>

BleNext ==
  \/ ScanFails \/ ScanStarts \/ ScanEnds \/ PassOver \/ Claim \/ ChannelCloses
  \/ \E p \in Peripherals : Consider(p) \/ LinkDrops(p)
  \/ \E h \in handlers : Connect(h) \/ Ends(h) \/ Disconnect(h) \/ Release(h)

(* Only with the channel does the task end; it stays so.                   *)
BleDone == ~listened /\ ~scanning /\ handlers = {} /\ UNCHANGED bleVars

BleSpec == BleInit /\ [][BleNext]_bleVars

-----------------------------------------------------------------------------
(* Properties. *)

Served(s, p) == {h \in handlers : h.scan = s /\ h.of = p}

(* A peripheral has at most one handler of a scan, to the last thing that  *)
(* handler does, and one while it is claimed: so no handler takes down the *)
(* link of another of its scan, and none that is gone keeps a peripheral   *)
(* from being picked up again (ble_scanner.rs:41-43, 47-49).               *)
ClaimsAreHandled ==
  \A s \in Scans, p \in Peripherals :
    /\ Cardinality(Served(s, p)) <= 1
    /\ p \in active[s] => Served(s, p) # {}

(* Not met across scans: discovery events and the periodic re-check "never *)
(* connect the same device twice" (ble_scanner.rs:41-42).                  *)
NeverTwice == \A g, h \in handlers : g.of = h.of => g = h
=============================================================================
