----------------------------- MODULE OtaRollout -----------------------------
(***************************************************************************)
(* A firmware rollout end to end: the server's campaigns (Campaigns) with  *)
(* the devices that carry them out (examples/embassy-stm32h563: ota.rs and *)
(* the main loop; ferrite-sdk/src/ota.rs) and the way their reports take.  *)
(*                                                                         *)
(* A device fetches the build it is offered, boots it on trial ("swap"),   *)
(* and keeps it once an upload went through; a reset before that makes the *)
(* bootloader restore the old build ("revert"), in which state the device  *)
(* reports the rollback and fetches nothing.  A device posts either to the *)
(* server ("direct") or to a gateway, which answers before it has          *)
(* forwarded anything and may forward late, twice or never, while update   *)
(* checks are relayed to the server at once.                               *)
(***************************************************************************)
EXTENDS Campaigns

CONSTANTS
  Factory,    \* the build devices come with
  Bad,        \* <<d, b>>: build b hangs on device d before it can upload
  Paths,      \* how the devices post: "direct" or "gateway", for each of them
  MaxResets   \* bound: resets by chance in a behaviour

ASSUME OtaRolloutAssumption ==
  /\ Factory \in Builds
  /\ Bad \subseteq Devices \X (Builds \ {Factory})
  /\ Paths \subseteq [Devices -> {"direct", "gateway"}]
  /\ MaxResets \in Nat

VARIABLES
  running,  \* the build in each device's active slot
  previous, \* the build in the other slot, for the bootloader to restore
  boot,     \* bootloader state: "boot", "swap" or "revert"
  fetching, \* the build being downloaded, or None
  path,     \* how each device posts its uploads
  held,     \* OTA-request chunks in the hands of gateways
  resets,
  tried     \* history: builds each device rolled back since it was last
            \* offered something else

device == <<running, previous, boot, fetching>>
rolloutVars == <<vars, device, path, held, resets, tried>>

Message == [device : Devices, build : Builds, rolledBack : BOOLEAN]

RolloutTypeOK ==
  /\ TypeOK
  /\ running \in [Devices -> Builds]
  /\ previous \in [Devices -> Builds]
  /\ boot \in [Devices -> {"boot", "swap", "revert"}]
  /\ fetching \in [Devices -> Builds \cup {None}]
  /\ path \in Paths
  /\ held \subseteq Message
  /\ resets \in 0 .. MaxResets
  /\ tried \in [Devices -> SUBSET Builds]

RolloutInit ==
  /\ Init
  /\ running = [d \in Devices |-> Factory]
  /\ previous = [d \in Devices |-> Factory]
  /\ boot = [d \in Devices |-> "boot"]
  /\ fetching = [d \in Devices |-> None]
  /\ path \in Paths
  /\ held = {}
  /\ resets = 0
  /\ tried = [d \in Devices |-> {}]

-----------------------------------------------------------------------------
(* Operators.  A device that is offered something anew may try it anew.    *)

Operate ==
  /\ \E c \in CampaignIds :
       \/ \E p \in Plans, G \in Groups : Create(c, p, G)
       \/ Activate(c) \/ Pause(c) \/ Rollback(c)
  /\ tried' = [d \in Devices |->
                 IF target'[d] # target[d] THEN {} ELSE tried[d]]
  /\ UNCHANGED <<device, path, held, resets>>

-----------------------------------------------------------------------------
(* Devices. *)

Dud(d, b) == <<d, b>> \in Bad

(* The main loop runs: nothing is being fetched and the image is no dud.   *)
Running(d) == fetching[d] = None /\ ~Dud(d, running[d])

(* Mutation of Request: the flag is never set. *)
RequestUnflagged(d) ==
  [device |-> d, build |-> running[d], rolledBack |-> FALSE]

(* report_flags. *)
Request(d) ==
  [device |-> d, build |-> running[d], rolledBack |-> boot[d] = "revert"]

(* The OtaRequest arm of process_device_chunks. *)
Process(m) ==
  IF m.rolledBack THEN ReportRollback(m.device, m.build)
                  ELSE ReportBuild(m.device, m.build)

Post(d) ==
  \/ /\ path[d] = "direct"
     /\ Process(Request(d))
     /\ UNCHANGED held
  \/ /\ path[d] = "gateway"
     /\ held' = held \cup {Request(d)}
     /\ UNCHANGED vars

(* Every chunk was answered with success: confirm, or rollback_reported.   *)
Upload(d) ==
  /\ Running(d)
  /\ Post(d)
  /\ boot' = [boot EXCEPT ![d] = "boot"]
  /\ UNCHANGED <<running, previous, fetching, path, resets, tried>>

(* The chunk arrived but its answer did not, or a reset comes first.       *)
UploadUnanswered(d) ==
  /\ Running(d)
  /\ Post(d)
  /\ UNCHANGED <<device, path, resets, tried>>

(* Mutation of Check: it does not look at rollback_unreported. *)
CheckInRevert(d) ==
  /\ Running(d)
  /\ boot[d] # "swap"
  /\ target[d] # None
  /\ target[d].build # running[d]
  /\ fetching' = [fetching EXCEPT ![d] = target[d].build]
  /\ UNCHANGED <<vars, running, previous, boot, path, held, resets, tried>>

(* poll_and_update up to the answer of OtaClient::check. *)
Check(d) ==
  /\ Running(d)
  /\ boot[d] = "boot"
  /\ target[d] # None
  /\ target[d].build # running[d]
  /\ fetching' = [fetching EXCEPT ![d] = target[d].build]
  /\ UNCHANGED <<vars, running, previous, boot, path, held, resets, tried>>

(* The rest of it: the image was verified, mark_updated, reset, swap.      *)
Swap(d) ==
  /\ fetching[d] # None
  /\ previous' = [previous EXCEPT ![d] = running[d]]
  /\ running' = [running EXCEPT ![d] = fetching[d]]
  /\ boot' = [boot EXCEPT ![d] = "swap"]
  /\ fetching' = [fetching EXCEPT ![d] = None]
  /\ UNCHANGED <<vars, path, held, resets, tried>>

(* A download that is cut short or rejected leaves everything as it was.   *)
DownloadFails(d) ==
  /\ fetching[d] # None
  /\ fetching' = [fetching EXCEPT ![d] = None]
  /\ UNCHANGED <<vars, running, previous, boot, path, held, resets, tried>>

(* A reset: the bootloader restores the previous build of an unconfirmed   *)
(* one and keeps the state "revert" until mark_booted.                     *)
Restart(d) ==
  /\ fetching' = [fetching EXCEPT ![d] = None]
  /\ IF boot[d] = "swap"
     THEN /\ running' = [running EXCEPT ![d] = previous[d]]
          /\ previous' = [previous EXCEPT ![d] = running[d]]
          /\ boot' = [boot EXCEPT ![d] = "revert"]
          /\ tried' = [tried EXCEPT ![d] = @ \cup {running[d]}]
     ELSE UNCHANGED <<running, previous, boot, tried>>
  /\ UNCHANGED <<vars, path, held>>

(* By chance. *)
Reset(d) ==
  /\ resets < MaxResets
  /\ resets' = resets + 1
  /\ Restart(d)

(* A dud does not feed the watchdog. *)
Watchdog(d) ==
  /\ Dud(d, running[d])
  /\ Restart(d)
  /\ UNCHANGED resets

Device(d) ==
  \/ Upload(d) \/ UploadUnanswered(d) \/ Check(d) \/ Swap(d)
  \/ DownloadFails(d) \/ Reset(d) \/ Watchdog(d)

-----------------------------------------------------------------------------
(* Gateways. *)

(* Forwarded; kept when the answer was lost and it will be sent again.     *)
Forward(m) ==
  /\ Process(m)
  /\ held' = held \ {m} \/ held' = held
  /\ UNCHANGED <<device, path, resets, tried>>

(* Lost with the gateway's queue, or forwarded in a batch without the      *)
(* DeviceInfo that the server needs to know whose it is.                   *)
Lose(m) ==
  /\ held' = held \ {m}
  /\ UNCHANGED <<vars, device, path, resets, tried>>

-----------------------------------------------------------------------------
RolloutNext ==
  \/ Operate
  \/ \E d \in Devices : Device(d)
  \/ \E m \in held : Forward(m) \/ Lose(m)

RolloutSpec == RolloutInit /\ [][RolloutNext]_rolloutVars

(* The main loop uploads and polls for ever, the watchdog fires, and       *)
(* neither the network nor the gateways fail for ever: what a device       *)
(* reports again and again gets through in the end.  Resets by chance and  *)
(* operators are not fair.                                                 *)
Fairness ==
  \A d \in Devices :
    /\ WF_rolloutVars(Upload(d) \/ Watchdog(d))
    /\ WF_rolloutVars(Check(d)) /\ SF_rolloutVars(Swap(d))
    /\ SF_rolloutVars(Request(d) \in held /\ Forward(Request(d)))
    /\ SF_rolloutVars(\E m \in held : /\ m.device = d /\ m.rolledBack
                                     /\ Forward(m))

FairRollout == RolloutSpec /\ Fairness

-----------------------------------------------------------------------------
(* Properties. *)

(* Not met behind a gateway, whose answer a device takes for the server's: *)
(* a device does not fetch a build it has rolled back until it is offered  *)
(* something anew ("Without this, a device would reinstall the same bad    *)
(* build after every rollback", docs/guide/ota.md:144).                    *)
NoReinstall ==
  \A d \in Devices : fetching[d] # None => fetching[d] \notin tried[d]

(* This holds when the device's success is the server's. *)
DirectNoReinstall ==
  \A d \in Devices : path[d] = "direct" =>
    (fetching[d] # None => fetching[d] \notin tried[d])

(* A campaign that is activated once ends: it completes, or is stopped by  *)
(* a failing device or an operator.                                        *)
RolloutEnds ==
  \A c \in CampaignIds :
    (status[c] = "active") ~> (status[c] # "active" \/ c \in resumed)
=============================================================================
