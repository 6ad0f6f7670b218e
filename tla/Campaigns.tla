------------------------------ MODULE Campaigns ------------------------------
(***************************************************************************)
(* Firmware campaigns in the server: ferrite-server/src/campaigns.rs, the  *)
(* OTA targets of ota.rs, the OtaRequest arm of ingest.rs, and the SQL     *)
(* behind them in store.rs.                                                *)
(*                                                                         *)
(* A target tells one device which build to fetch.  A campaign sets the    *)
(* targets of its devices and follows each device to installed or failed.  *)
(* Operators (Create, Activate, Pause, Rollback, SetTarget, DeleteTarget)  *)
(* and device reports meet under the store's lock, one handler at a time,  *)
(* in any order; several campaigns may share a device.                     *)
(***************************************************************************)
EXTENDS Integers, FiniteSets

CONSTANTS
  Devices,      \* device ids, as numbers in the order of the ids
  Firmware,     \* stored firmware artifacts
  Versions,
  Builds,
  BuildOf,      \* the build id of each artifact
  CampaignIds,  \* bound: campaigns created in a behaviour
  Plans,        \* what an operator asks of a campaign
  Groups,       \* the sets of devices a campaign may be created for
  DirectTargets,\* targets an operator sets by hand
  None

Plan == [firmware : Firmware, version : Versions, threshold : 0 .. 100,
         percent : Int \cup {None}]
Target == [version : Versions, build : Builds]

ASSUME CampaignsAssumption ==
  /\ Devices \subseteq Nat /\ IsFiniteSet(Devices)
  /\ BuildOf \in [Firmware -> Builds]
  /\ Plans \subseteq Plan
  /\ Groups \subseteq SUBSET Devices
  /\ DirectTargets \subseteq Target
  /\ None \notin Plan \cup Target \cup Int

Status == {"created", "active", "paused", "completed", "rolled_back"}
Progress == {"pending", "downloading", "installed", "failed"}

VARIABLES
  plan,      \* the ota_campaigns row of each campaign, or None
  status,    \* its status
  progress,  \* ota_campaign_devices: the status of each of its devices
  target,    \* ota_targets: what each device is offered, or None
  confirmed, \* history: <<d, t>> when d reported the build of its target t
  rolled,    \* history: devices that reported a rollback
  resumed    \* history: campaigns activated after a pause

campaigns == <<plan, status, progress>>
history == <<confirmed, rolled, resumed>>
vars == <<campaigns, target, history>>

Members(c) == DOMAIN progress[c]
In(c, s) == {d \in Members(c) : progress[c][d] = s}

TypeOK ==
  /\ plan \in [CampaignIds -> Plan \cup {None}]
  /\ status \in [CampaignIds -> Status]
  /\ \A c \in CampaignIds : /\ Members(c) \subseteq Devices
                            /\ progress[c] \in [Members(c) -> Progress]
  /\ DOMAIN progress = CampaignIds
  /\ target \in [Devices -> Target \cup {None}]
  /\ confirmed \subseteq Devices \X Target
  /\ rolled \subseteq Devices
  /\ resumed \subseteq CampaignIds

NoDevices == [d \in {} |-> "pending"]

Init ==
  /\ plan = [c \in CampaignIds |-> None]
  /\ status = [c \in CampaignIds |-> "created"]
  /\ progress = [c \in CampaignIds |-> NoDevices]
  /\ target = [d \in Devices |-> None]
  /\ confirmed = {}
  /\ rolled = {}
  /\ resumed = {}

-----------------------------------------------------------------------------
(* Operators. *)

Exists(c) == plan[c] # None

(* The devices of the group, or all that are registered, become pending.   *)
Create(c, p, G) ==
  /\ ~Exists(c)
  /\ plan' = [plan EXCEPT ![c] = p]
  /\ progress' = [progress EXCEPT ![c] = [d \in G |-> "pending"]]
  /\ UNCHANGED <<status, target, history>>

(* A canary takes a share of the pending devices, at least one.            *)
Share(p, n) ==
  IF p.percent = None THEN n
  ELSE IF (n * p.percent) \div 100 < 1 THEN 1
  ELSE (n * p.percent) \div 100

FirstOf(n, S) == {d \in S : Cardinality({e \in S : e < d}) < n}

Selected(c) ==
  LET pending == In(c, "pending")
  IN FirstOf(Share(plan[c], Cardinality(pending)), pending)

Offer(p) == [version |-> p.version, build |-> BuildOf[p.firmware]]

Startable(c) == status[c] \in {"created", "paused"}

Activate(c) ==
  /\ Exists(c)
  /\ Startable(c)
  /\ target' = [d \in Devices |->
                  IF d \in Selected(c) THEN Offer(plan[c]) ELSE target[d]]
  /\ progress' = [progress EXCEPT ![c] = [d \in Members(c) |->
                    IF d \in Selected(c) THEN "downloading" ELSE @[d]]]
  /\ status' = [status EXCEPT ![c] = "active"]
  /\ resumed' = IF status[c] = "paused" THEN resumed \cup {c} ELSE resumed
  /\ UNCHANGED <<plan, confirmed, rolled>>

(* Targets stay: devices that were offered the build may still fetch it.   *)
Pause(c) ==
  /\ Exists(c)
  /\ status[c] = "active"
  /\ status' = [status EXCEPT ![c] = "paused"]
  /\ UNCHANGED <<plan, progress, target, history>>

(* Mutation of Without: the DELETE without its WHERE. *)
WithoutAny(tgt, S) == [d \in Devices |-> None]

Without(tgt, S) == [d \in Devices |-> IF d \in S THEN None ELSE tgt[d]]

(* delete_ota_targets_for_campaign removes whatever its devices were       *)
(* offered, by this campaign or not.                                       *)
Rollback(c) ==
  /\ Exists(c)
  /\ status[c] \in {"active", "paused"}
  /\ target' = Without(target, Members(c))
  /\ status' = [status EXCEPT ![c] = "rolled_back"]
  /\ UNCHANGED <<plan, progress, history>>

SetTarget(d, t) ==
  /\ target' = [target EXCEPT ![d] = t]
  /\ UNCHANGED <<campaigns, history>>

DeleteTarget(d) ==
  /\ target[d] # None
  /\ target' = [target EXCEPT ![d] = None]
  /\ UNCHANGED <<campaigns, history>>

-----------------------------------------------------------------------------
(* Device reports: the OtaRequest chunk. *)

ActiveFor(d) == {c \in CampaignIds : status[c] = "active" /\ d \in Members(c)}

Marked(C, d, s) ==
  [c \in CampaignIds |->
     IF c \in C THEN [progress[c] EXCEPT ![d] = s] ELSE progress[c]]

(* Mutation of Completes: devices still downloading count as done. *)
CompletesEarly(f) == \A d \in DOMAIN f : f[d] # "pending"

(* campaign_all_devices_done. *)
Completes(f) == \A d \in DOMAIN f : f[d] \notin {"pending", "downloading"}

(* Mutation of Installing: the target's version is not compared. *)
InstallingAny(d) == ActiveFor(d)

(* The active campaigns that want the version the device was offered.      *)
Installing(d) == {c \in ActiveFor(d) : plan[c].version = target[d].version}

(* Reporting the build of its target, a device confirms the target.        *)
Confirmed(d, b) ==
  IF target[d] # None /\ target[d].build = b
  THEN confirmed \cup {<<d, target[d]>>} ELSE confirmed

(* Mutation of ReportBuild: any report of an offered device installs. *)
ReportBuildUnchecked(d, b) ==
  /\ IF target[d] # None
     THEN progress' = Marked(Installing(d), d, "installed")
     ELSE UNCHANGED progress
  /\ confirmed' = Confirmed(d, b)
  /\ UNCHANGED <<plan, status, target, rolled, resumed>>

(* The device runs b.  When b is its target, every active campaign that    *)
(* wants the target's version marks it installed, whatever it was before,  *)
(* and is completed when no device is left.                                *)
ReportBuild(d, b) ==
  /\ IF target[d] # None /\ target[d].build = b
     THEN LET C == Installing(d)
              after == Marked(C, d, "installed")
          IN /\ progress' = after
             /\ status' = [c \in CampaignIds |->
                  IF c \in C /\ Completes(after[c]) THEN "completed"
                  ELSE status[c]]
     ELSE UNCHANGED <<progress, status>>
  /\ confirmed' = Confirmed(d, b)
  /\ UNCHANGED <<plan, target, rolled, resumed>>

Failed(f) == {d \in DOMAIN f : f[d] = "failed"}

(* Mutation of TooMany: the percentage is taken for a count. *)
TooManyByCount(p, f) == Cardinality(Failed(f)) > p.threshold

(* More than the threshold's share of the devices failed.                  *)
TooMany(p, f) ==
  Cardinality(Failed(f)) * 100 > p.threshold * Cardinality(DOMAIN f)

(* record_ota_rollback: the bootloader of device d restored b.             *)
ReportRollback(d, b) ==
  LET C == {c \in ActiveFor(d) : progress[c][d] \in {"pending", "downloading"}}
      after == Marked(C, d, "failed")
      halted == {c \in C : TooMany(plan[c], after[c])}
      dropped == (UNION {Members(c) : c \in halted}) \cup
                 (IF target[d] # None /\ target[d].build # b THEN {d} ELSE {})
  IN /\ progress' = after
     /\ status' = [c \in CampaignIds |->
                     IF c \in halted THEN "paused" ELSE status[c]]
     /\ target' = Without(target, dropped)
     /\ rolled' = rolled \cup {d}
     /\ UNCHANGED <<plan, confirmed, resumed>>

-----------------------------------------------------------------------------
Operator ==
  \/ \E c \in CampaignIds :
       \/ \E p \in Plans, G \in Groups : Create(c, p, G)
       \/ Activate(c) \/ Pause(c) \/ Rollback(c)
  \/ \E d \in Devices :
       \/ \E t \in DirectTargets : SetTarget(d, t)
       \/ DeleteTarget(d)

Report ==
  \E d \in Devices, b \in Builds : ReportBuild(d, b) \/ ReportRollback(d, b)

Next == Operator \/ Report

Spec == Init /\ [][Next]_vars

-----------------------------------------------------------------------------
(* Properties. *)

(* A completed campaign has no device left to wait for                     *)
(* (campaign_all_devices_done).                                            *)
CompletedIsDone ==
  \A c \in CampaignIds :
    status[c] = "completed" => In(c, "pending") \cup In(c, "downloading") = {}

(* An active campaign is within its failure threshold: the report that     *)
(* exceeds it pauses the campaign, whatever happened to the other devices  *)
(* and campaigns before.  Only an operator may start it again.             *)
ActiveWithinThreshold ==
  \A c \in CampaignIds :
    status[c] = "active" /\ c \notin resumed =>
      Cardinality(In(c, "failed")) * 100
        <= plan[c].threshold * Cardinality(Members(c))

(* What was ever offered under the version of campaign c. *)
Offers ==
  DirectTargets \cup {Offer(plan[c]) : c \in {e \in CampaignIds : Exists(e)}}
OfferedFor(c) == {t \in Offers : t.version = plan[c].version}

(* A device is marked installed only after it confirmed a target of the    *)
(* campaign's version that some campaign or operator set, which is the     *)
(* campaign's own build wherever that version was offered as one build     *)
(* only, and marked failed only after it reported a rollback: whatever the *)
(* other campaigns, targets and devices went through (ingest.rs:1084,      *)
(* store.rs:1545).                                                         *)
ProgressReported ==
  \A c \in CampaignIds :
    /\ \A d \in In(c, "installed") :
         \E t \in OfferedFor(c) : <<d, t>> \in confirmed
    /\ In(c, "failed") \subseteq rolled

Over(c) == status[c] \in {"completed", "rolled_back"}
Rest(c) == status'[c] = status[c] /\ progress'[c] = progress[c]
OverRests == \A c \in CampaignIds : Over(c) => Rest(c)

(* A campaign that completed or was rolled back is over: neither operators *)
(* nor late reports change it or its devices' progress.                    *)
OverIsOver == [][OverRests]_vars

Halted(c) ==
  status'[c] # status[c] /\ status'[c] \in {"paused", "rolled_back"}
Withdrawn(d) == target[d] # None /\ target'[d] = None
Caused(d) ==
  \/ DeleteTarget(d)
  \/ \E b \in Builds \ {target[d].build} : ReportRollback(d, b)
  \/ \E c \in CampaignIds : d \in Members(c) /\ Halted(c)
AllCaused == \A d \in Devices : Withdrawn(d) => Caused(d)

(* What a device is offered is withdrawn only by an operator, by its own   *)
(* rollback, or with a campaign it belongs to; the reports of devices it   *)
(* has no campaign in common with never do (store.rs:1580, 1617).          *)
WithdrawnForCause == [][AllCaused]_vars

-----------------------------------------------------------------------------
(* What the documents say.  Not met: the server compares versions, and two *)
(* builds may be offered under one version (ingest.rs:1101); and failed    *)
(* devices count as done.                                                  *)

(* "device.update_installed: A device confirms a campaign's target build"  *)
(* (docs/guide/evidence-log.md:23).                                        *)
InstalledIsTargetBuild ==
  \A c \in CampaignIds : \A d \in In(c, "installed") :
    \E t \in Target : <<d, t>> \in confirmed /\ t.build = BuildOf[plan[c].firmware]

(* "campaign.completed: Every device in a campaign has installed"          *)
(* (docs/guide/evidence-log.md:20).                                        *)
CompletedIsInstalled ==
  \A c \in CampaignIds :
    status[c] = "completed" => Members(c) = In(c, "installed")
=============================================================================
