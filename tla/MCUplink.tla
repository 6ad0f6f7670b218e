------------------------------ MODULE MCUplink ------------------------------
(* The way to the server, for TLC: Uplink, and the gateway's Bluetooth     *)
(* scanner (BleScanner), which adds chunks to the same channel as the      *)
(* serial port.  One of the two runs in a behaviour.                       *)
EXTENDS Uplink, BleScanner

Auth(b, d) == [s \in {Box, Board} |-> IF s = Box THEN b ELSE d]

(* Both in clear; one that seals beside one that should; and the reverse. *)
MixedAuth == {Auth("clear", "unprovisioned"), Auth("sealed", "clear")}

-----------------------------------------------------------------------------
VARIABLE part  \* which of the two runs

allVars == <<vars, bleVars, part>>

AllInit ==
  /\ part \in {"uplink", "scanner"}
  /\ Init /\ BleInit
  /\ part = "scanner" => route = "server" /\ auth = Auth("sealed", "clear")

AllNext ==
  /\ UNCHANGED part
  /\ \/ part = "uplink" /\ Next /\ UNCHANGED bleVars
     \/ part = "scanner" /\ (BleNext \/ BleDone) /\ UNCHANGED vars

AllSpec == AllInit /\ [][AllNext]_allVars

(* A device is received by one handler of a scan, and what it seals is     *)
(* stored as its own (ble_scanner.rs, ingest.rs).                          *)
ReceivedAsOwn == ClaimsAreHandled /\ SealedIsOwn
=============================================================================
