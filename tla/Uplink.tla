------------------------------- MODULE Uplink -------------------------------
(***************************************************************************)
(* The way telemetry takes to the server: the Linux agent (module Agent)   *)
(* sends to the server itself or to a gateway (module Gateway), which also *)
(* serves a board on a serial port.                                        *)
(*                                                                         *)
(* Together they are one store-and-forward chain, and implement module     *)
(* Delivery.                                                               *)
(***************************************************************************)
EXTENDS Agent, Gateway

CONSTANTS
  MaxForwarded,  \* bound: reports made when there is a gateway
  MaxFailures    \* bound: faults and crashes together, then

ASSUME UplinkAssumption ==
  /\ MaxForwarded \in 0 .. MaxReports
  /\ MaxFailures \in Nat

VARIABLE route  \* server_url of the agent: "server" or "gateway"

vars == <<route, agentVars, gatewayVars>>

Init ==
  /\ route \in {"server", "gateway"}
  /\ AgentInit
  /\ GatewayInit

(* classify_status: what the agent makes of an HTTP status, or of none. *)
Classify(status) ==
  CASE status = "2xx" -> "Accepted"
    [] status = "400" -> "Rejected"
    [] OTHER          -> "Failed"

Asked == "asked" \in DOMAIN posts
SentBatch == Batch(Box, Sending)

SendToServer ==
  /\ route = "server"
  /\ Sending # None
  /\ \E status \in {"2xx", "400", "429", "none"} :
       Exchange(SentBatch, status) /\ Answered(Classify(status))
  /\ UNCHANGED <<auth, gateway, channel, buffer, posts, board, ruin>>

SendToGateway ==
  /\ route = "gateway"
  /\ Sending # None
  /\ \/ Accept(SentBatch) /\ UNCHANGED agentVars
     \/ ~Running /\ Answered("Failed") /\ UNCHANGED gatewayVars

GatewayReplies == Reply("asked") /\ Answered("Accepted")

(* The agent's timeout. *)
AgentGivesUp == Abandon /\ Answered("Failed")

AgentKilled ==
  /\ Kill
  /\ IF Asked THEN Abandon ELSE UNCHANGED gatewayVars

GatewayCrashes ==
  /\ Crash
  /\ IF Asked THEN Answered("Failed") ELSE UNCHANGED agentVars

(* With a gateway, the device is not rebooted. *)
Bounded ==
  route = "gateway" => /\ Len(reports) <= MaxForwarded
                       /\ faults + crashes <= MaxFailures
                       /\ boot = 1

Next ==
  /\ UNCHANGED route
  /\ \/ AgentStep /\ UNCHANGED gatewayVars
     \/ ~Asked /\ FlushFails /\ UNCHANGED gatewayVars
     \/ route = "gateway" /\ GatewayStep /\ UNCHANGED agentVars
     \/ SendToServer \/ SendToGateway
     \/ GatewayReplies \/ AgentGivesUp \/ AgentKilled \/ GatewayCrashes
  /\ Bounded'

Spec == Init /\ [][Next]_vars

-----------------------------------------------------------------------------
UplinkTypeOK ==
  /\ route \in {"server", "gateway"}
  /\ AgentTypeOK
  /\ GatewayTypeOK

(* What is carried, for Delivery: the agent's reports, the board's upload  *)
(* sessions, and the reboots that travel in reports.                       *)
Item(what, S) == [what : {what}, n : S]
Items == Item("report", Report) \cup Item("session", 1 .. MaxSessions)
           \cup Item("reboot", 1 .. MaxBoots)

Payload(d, n) == [of |-> d, n |-> n, kind |-> "data"]

InGateway(c) ==
  c \in InFlight \/ \E i \in DOMAIN buffer : c \in ElementsOf(buffer[i])

IsStored(c) == \E d \in Sources : <<c, d>> \in stored

ReportHeld(n) ==
  \/ agent.hand = n
  \/ \E i \in Files : spool[i] = n
  \/ InGateway(Payload(Box, n))
ReportStored(n)  == IsStored(Payload(Box, n))
ReportExcused(n) ==
  n \in dropped \/ Payload(Box, n) \in refused \cup wrecked

Carrier(k) == {n \in DOMAIN reports : reports[n] = k}

Taken ==
  Item("report", DOMAIN reports)
    \cup Item("session", 1 .. board \div 2)
    \cup Item("reboot", found)

Held ==
  Item("report", {n \in Report : ReportHeld(n)})
    \cup Item("session", {n \in 1 .. MaxSessions :
                            InGateway(Payload(Board, n))})
    \cup Item("reboot", {k \in found :
                           \/ agent.pending = k
                           \/ \E n \in Carrier(k) : ReportHeld(n)})

AtServer ==
  Item("report", {n \in Report : ReportStored(n)})
    \cup Item("session", {n \in 1 .. MaxSessions :
                            IsStored(Payload(Board, n))})
    \cup Item("reboot", {k \in found :
                           \E n \in Carrier(k) : ReportStored(n)})

Excused ==
  Item("report", {n \in Report : ReportExcused(n)})
    \cup Item("session", {n \in 1 .. MaxSessions :
                            Payload(Board, n) \in refused \cup wrecked})
    \cup Item("reboot", {k \in found :
                           \/ k \in unsaid
                           \/ \E n \in Carrier(k) : ReportExcused(n)})

D == INSTANCE Delivery WITH taken <- Taken, held <- Held, stored <- AtServer,
       excused <- Excused, faults <- faults

(* Nothing handed over is lost on the way, whichever way it takes: it goes *)
(* only when the server has it, when it was turned down, pushed out of a   *)
(* full spool, could not be placed or was in a gateway that failed, or in  *)
(* a step in which the agent is killed or cannot write.  "Once encoded,    *)
(* the reboot travels with the batch, spooled or not" (ferrite-agent       *)
(* main.rs:155).                                                           *)
NothingLost == D!Spec

(* Reports to the server itself arrive oldest first: one arrives for the   *)
(* first time only when the server has all those spooled before it; a      *)
(* spool that cannot be listed is passed over (uplink.rs:3-5, 149-186).    *)
OldestFirst ==
  [][\A n \in Report :
       /\ route = "server" /\ agent.stage # "blind"
       /\ ReportStored(n)' /\ ~ReportStored(n)
       => \A i \in Files : spool[i] < n => ReportStored(spool[i])]_vars

=============================================================================
