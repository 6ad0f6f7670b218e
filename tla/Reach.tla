------------------------------- MODULE Reach -------------------------------
(***************************************************************************)
(* Which devices run which build, since when, and whether a campaign's     *)
(* update reached them: the rows of devices, of their firmware history, of *)
(* groups and of campaigns (ferrite-server/src/store.rs), the handlers     *)
(* that write them (ingest.rs, groups.rs, campaigns.rs), and the reports   *)
(* read from them (reach.rs).                                              *)
(*                                                                         *)
(* Every handler holds the store's lock from its first statement to its    *)
(* last, so each is one step.  Time counts seconds, as SQLite's datetime   *)
(* does, and does not run backwards.                                       *)
(***************************************************************************)
EXTENDS Integers, Sequences, FiniteSets, Functions

CONSTANTS
  Ids,         \* what devices are named
  Groups,
  Tags,        \* what a device's tags may hold, and a query may ask for
  Firmware,    \* what devices report: [build, version]
  Targets,     \* builds of the artifacts that campaigns roll out: an unsigned
               \* one without an X-Build-Id has build 0
  Campaigns,
  Window,      \* ALERT_OFFLINE_MINUTES
  MaxTime,     \* bound on the clock
  MaxRows,     \* bound on the firmware history
  MaxFaults,   \* bound on statements that fail
  Absent

(* The build and version of a row that touch_device or register_device made. *)
Unreported == [build |-> 0, version |-> ""]

ASSUME ReachAssumption ==
  /\ Firmware \subseteq [build : Nat, version : STRING]
  /\ Targets \subseteq Nat /\ Window \in Nat
  /\ MaxTime \in Nat /\ MaxRows \in Nat /\ MaxFaults \in Nat
  /\ Absent \notin Nat /\ Absent \notin Groups
  /\ IsFiniteSet(Ids)

VARIABLES
  now,       \* datetime('now')
  device,    \* device -> its row of devices, or Absent
  observed,  \* rows of device_firmware_history, in the order of their ids
  groups,    \* rows of device_groups
  members,   \* rows of device_group_members
  campaign,  \* campaign -> its row and its ota_campaign_devices, or Absent
  faults     \* statements that failed

reachVars == <<now, device, observed, groups, members, campaign, faults>>

DeviceRow == [runs : Firmware \cup {Unreported}, seen : 0 .. MaxTime, tags : SUBSET Tags]
Observation == [device : Ids, runs : Firmware, at : 0 .. MaxTime]
Campaign == [target : Targets, group : Groups \cup {Absent},
             devices : SUBSET Ids,
             created : 0 .. MaxTime, activated : (0 .. MaxTime) \cup {Absent}]

(* Types; a campaign's group stays (its foreign key), and so do members'.  *)
ReachTypeOK ==
  /\ now \in 0 .. MaxTime
  /\ device \in [Ids -> DeviceRow \cup {Absent}]
  /\ observed \in Seq(Observation) /\ Len(observed) <= MaxRows
  /\ groups \subseteq Groups
  /\ members \subseteq groups \X {d \in Ids : device[d] # Absent}
  /\ campaign \in [Campaigns -> Campaign \cup {Absent}]
  /\ \A c \in Campaigns : campaign[c] # Absent => campaign[c].group \in groups \cup {Absent}
  /\ faults \in 0 .. MaxFaults

Known == {d \in Ids : device[d] # Absent}

-----------------------------------------------------------------------------
(* Statements *)

Touched(d) ==
  [device EXCEPT ![d] =
     IF d \in Known THEN [@ EXCEPT !.seen = now]
     ELSE [runs |-> Unreported, seen |-> now, tags |-> {}]]

(* A build other than the last is recorded; other text for it is, too. *)
Observed(d, f) ==
  IF d \in Known /\ device[d].runs = f THEN observed
  ELSE Append(observed, [device |-> d, runs |-> f, at |-> now])

(* COALESCE: tags that are not given stay. *)
Tagged(row, tags) == IF tags = Absent THEN row ELSE [row EXCEPT !.tags = tags]

-----------------------------------------------------------------------------
(* Uploads *)

NextTick ==
  /\ now < MaxTime
  /\ now' = now + 1
  /\ UNCHANGED <<device, observed, groups, members, campaign, faults>>

(* Mutation of Report: a build is recorded only when it is not the one the *)
(* device was registered to run, that is, not for a new row.               *)
ReportKnown(d, f) ==
  /\ Len(observed) < MaxRows
  /\ observed' = IF d \in Known THEN Observed(d, f) ELSE observed
  /\ device' = [Touched(d) EXCEPT ![d].runs = f]
  /\ UNCHANGED <<now, groups, members, campaign, faults>>

(* An upload with a DeviceInfo: upsert_device. *)
Report(d, f) ==
  /\ Len(observed) < MaxRows
  /\ observed' = Observed(d, f)
  /\ device' = [Touched(d) EXCEPT ![d].runs = f]
  /\ UNCHANGED <<now, groups, members, campaign, faults>>

(* One statement of it fails; the error is noted and the request goes on,  *)
(* with a row from touch_device, unless that fails as well.                *)
ReportFails(d, f) ==
  /\ faults < MaxFaults /\ Len(observed) < MaxRows
  /\ faults' = faults + 1
  /\ observed' \in {observed, Observed(d, f)}
  /\ device' \in {device, Touched(d)}
  /\ UNCHANGED <<now, groups, members, campaign>>

(* An upload without DeviceInfo that names its device otherwise. *)
Touch(d) ==
  /\ device' = Touched(d)
  /\ UNCHANGED <<now, observed, groups, members, campaign, faults>>

-----------------------------------------------------------------------------
(* The registry *)

(* POST /devices/register and /devices/register/bulk *)
Register(ds, tags) ==
  /\ device' = [d \in Ids |-> IF d \in ds THEN Tagged(Touched(d)[d], tags)
                                  ELSE device[d]]
  /\ UNCHANGED <<now, observed, groups, members, campaign, faults>>

(* PUT /devices/{key} *)
Edit(d, tags) ==
  /\ d \in Known
  /\ device' = [device EXCEPT ![d] = Tagged(Touched(d)[d], tags)]
  /\ UNCHANGED <<now, observed, groups, members, campaign, faults>>

(* DELETE /devices/{key} and /admin/devices/{id}: memberships go with the  *)
(* row, history and campaign rows, which name the device by its id, stay. *)
Delete(d) ==
  /\ d \in Known
  /\ device' = [device EXCEPT ![d] = Absent]
  /\ members' = {m \in members : m[2] # d}
  /\ UNCHANGED <<now, observed, groups, campaign, faults>>

CreateGroup(g) ==
  /\ g \notin groups
  /\ groups' = groups \cup {g}
  /\ UNCHANGED <<now, device, observed, members, campaign, faults>>

(* A group that a campaign targets cannot be deleted. *)
DeleteGroup(g) ==
  /\ g \in groups
  /\ \A c \in Campaigns : campaign[c] # Absent => campaign[c].group # g
  /\ groups' = groups \ {g}
  /\ members' = {m \in members : m[1] # g}
  /\ UNCHANGED <<now, device, observed, campaign, faults>>

AddToGroup(g, d) ==
  /\ d \in Known /\ g \in groups /\ <<g, d>> \notin members
  /\ members' = members \cup {<<g, d>>}
  /\ UNCHANGED <<now, device, observed, groups, campaign, faults>>

RemoveFromGroup(g, d) ==
  /\ <<g, d>> \in members
  /\ members' = members \ {<<g, d>>}
  /\ UNCHANGED <<now, device, observed, groups, campaign, faults>>

-----------------------------------------------------------------------------
(* Campaigns *)

MembersOf(g) == {d \in Known : g = Absent \/ <<g, d>> \in members}

NewCampaign(b, g, ds) ==
  [target |-> b, group |-> g, devices |-> ds, created |-> now,
   activated |-> Absent]

(* POST /ota/campaigns.  target_tags is stored and resolves nothing. *)
Create(c, b, g) ==
  /\ campaign[c] = Absent /\ g \in groups \cup {Absent}
  /\ campaign' = [campaign EXCEPT ![c] = NewCampaign(b, g, MembersOf(g))]
  /\ UNCHANGED <<now, device, observed, groups, members, faults>>

RunsBuild(d, b) == d \in Known /\ device[d].runs.build = b

(* Mutation of Activate: each activation counts as the first. *)
ActivateAgain(c) ==
  /\ campaign[c] # Absent
  /\ campaign' = [campaign EXCEPT ![c].activated = now]
  /\ UNCHANGED <<now, device, observed, groups, members, faults>>

(* Activation, the first one or another after a pause: the time of the     *)
(* first one stays.                                                        *)
Activate(c) ==
  /\ campaign[c] # Absent
  /\ campaign' = [campaign EXCEPT ![c].activated = IF @ = Absent THEN now ELSE @]
  /\ UNCHANGED <<now, device, observed, groups, members, faults>>

-----------------------------------------------------------------------------
ReachInit ==
  /\ now = 0
  /\ device = [d \in Ids |-> Absent]
  /\ observed = <<>>
  /\ groups = {} /\ members = {}
  /\ campaign = [c \in Campaigns |-> Absent]
  /\ faults = 0

Upload(d) ==
  \/ \E f \in Firmware : Report(d, f) \/ ReportFails(d, f)
  \/ Touch(d)

Registry(d) ==
  \/ \E t \in (SUBSET Tags) \cup {Absent} : Edit(d, t)
  \/ Delete(d)
  \/ \E g \in Groups : AddToGroup(g, d) \/ RemoveFromGroup(g, d)

ReachNext ==
  \/ NextTick
  \/ \E d \in Ids : Upload(d) \/ Registry(d)
  \/ \E ds \in (SUBSET Ids) \ {{}}, t \in (SUBSET Tags) \cup {Absent} : Register(ds, t)
  \/ \E g \in Groups : CreateGroup(g) \/ DeleteGroup(g)
  \/ \E c \in Campaigns : \/ \E b \in Targets, g \in Groups \cup {Absent} : Create(c, b, g)
                         \/ Activate(c)

ReachSpec == ReachInit /\ [][ReachNext]_reachVars

-----------------------------------------------------------------------------
(* The reports *)

Recent(d) == device[d].seen + Window >= now

(* GET /reports/fleet/builds: devices and online devices of each build. *)
Distribution(g, tag) ==
  LET counted == {d \in MembersOf(g) : tag = Absent \/ tag \in device[d].tags}
      of(f)   == {d \in counted : device[d].runs = f}
  IN  [f \in {device[d].runs : d \in counted} |->
         [devices |-> Cardinality(of(f)),
          online  |-> Cardinality({d \in of(f) : Recent(d)})]]

(* GET /reports/devices/:device_id/firmware-history: the rows by their ids *)
FirmwareHistory(d) ==
  [i \in {j \in DOMAIN observed : observed[j].device = d} |-> observed[i]]

Earliest(times) == IF times = {} THEN Absent
                   ELSE CHOOSE t \in times : \A u \in times : t <= u

(* What of a campaign is measured from its creation until it is activated. *)
Since(c) == IF campaign[c].activated # Absent THEN campaign[c].activated
            ELSE campaign[c].created

(* GET /reports/campaigns/:id: what it says of each device. *)
ReachOf(c) ==
  [d \in campaign[c].devices |->
     LET times  == {h.at : h \in {observed[i] : i \in DOMAIN observed} \cap
                            [device : {d}, runs : {f \in Firmware : f.build = campaign[c].target},
                             at : 0 .. MaxTime]}
         since  == Earliest({t \in times : t >= Since(c)})
         before == Earliest({t \in times : t < Since(c)})
     IN  [on_target               |-> RunsBuild(d, campaign[c].target),
          reachable               |-> d \in Known /\ Recent(d),
          patched_before_campaign |-> /\ RunsBuild(d, campaign[c].target)
                                      /\ before # Absent /\ since = Absent,
          installed_at            |-> since,
          time_to_patch           |-> IF since = Absent THEN Absent ELSE since - Since(c)]]

(* The mean of the two in the middle, rounded, when there is no middle.    *)
Median(sorted) ==
  LET n == Len(sorted)
  IN  IF n = 0 THEN Absent
      ELSE IF n % 2 = 1 THEN sorted[n \div 2 + 1]
      ELSE (sorted[n \div 2] + sorted[n \div 2 + 1] + 1) \div 2

Timed(of) == {d \in DOMAIN of : of[d].time_to_patch # Absent}

(* The devices with a time to patch, the shortest first.                   *)
ByTime(of) ==
  CHOOSE d \in Bijection(1 .. Cardinality(Timed(of)), Timed(of)) :
    \A i, j \in DOMAIN d : i <= j => of[d[i]].time_to_patch <= of[d[j]].time_to_patch

(* What the report says of the campaign as a whole.                        *)
Summary(c) ==
  LET of == ReachOf(c)
      d  == ByTime(of)
  IN  [targeted    |-> Cardinality(DOMAIN of),
       on_target   |-> Cardinality({x \in DOMAIN of : of[x].on_target}),
       unreachable |-> Cardinality({x \in DOMAIN of :
                                      ~of[x].on_target /\ ~of[x].reachable}),
       count       |-> Cardinality(Timed(of)),
       median      |-> Median([i \in DOMAIN d |-> of[d[i]].time_to_patch])]

-----------------------------------------------------------------------------
(* The devices a campaign takes to be on its target that have not reported *)
(* since their row was made: build 0 stands for that, too.                 *)
Presumed(c) == {d \in campaign[c].devices : /\ ReachOf(c)[d].on_target
                                            /\ device[d].runs = Unreported}

(* A summary leaves no device out: who is on the target without a time to  *)
(* patch was patched before or is presumed to be, no more are unreachable  *)
(* than are missing, and half of the times are on either side of the       *)
(* median.                                                                 *)
SummaryAgrees(c) ==
  LET s  == Summary(c)
      of == ReachOf(c)
      AtMost  == {d \in Timed(of) : of[d].time_to_patch <= s.median}
      AtLeast == {d \in Timed(of) : of[d].time_to_patch >= s.median}
  IN  /\ s.on_target <= s.count + Cardinality(Presumed(c))
           + Cardinality({d \in DOMAIN of : of[d].patched_before_campaign})
      /\ s.unreachable <= s.targeted - s.on_target
      /\ s.count > 0 => /\ 2 * Cardinality(AtMost) >= s.count
                        /\ 2 * Cardinality(AtLeast) >= s.count

(* What the fleet report counts a device under is in its history.          *)
CountsAgree ==
  \A f \in DOMAIN Distribution(Absent, Absent) \ {Unreported} :
    Distribution(Absent, Absent)[f].devices
      <= Cardinality({d \in Known : \E i \in DOMAIN FirmwareHistory(d) :
                                      FirmwareHistory(d)[i].runs = f})

(* A device that reported a campaign's target as its build either has a    *)
(* time to patch or was patched before.                                    *)
PatchesExplained ==
  \A c \in Campaigns : campaign[c] # Absent =>
    \A d \in campaign[c].devices \ Presumed(c) :
      LET r == ReachOf(c)[d]
      IN  r.on_target => (r.patched_before_campaign <=> r.time_to_patch = Absent)

(* The three reports tell the same, whatever was registered, deleted,      *)
(* regrouped or failed in between (store.rs:486, 1680).                    *)
ReportsAgree ==
  /\ CountsAgree
  /\ PatchesExplained
  /\ \A c \in Campaigns : campaign[c] # Absent => SummaryAgrees(c)

(* Not met.  Who is counted as on target has reported the target build     *)
(* (docs/guide/update-reach.md:15): upload_firmware stores build 0 for an  *)
(* unsigned image without an X-Build-Id (ota.rs:234-236), no check keeps a *)
(* campaign from rolling it out, and a device that never reported has      *)
(* build 0 in its row.                                                     *)
NobodyIsPresumed ==
  \A c \in Campaigns : campaign[c] # Absent => Presumed(c) = {}

(* Evidence stays: once a campaign was activated, when a device installed  *)
(* its update does not change, whatever is deleted, paused or activated    *)
(* again; nor does a build vanish from a device's history.                 *)
EvidenceStays ==
  /\ \A c \in Campaigns :
       campaign[c] # Absent /\ campaign[c].activated # Absent =>
         \A d \in campaign[c].devices :
           LET r == ReachOf(c)[d] IN
           r.installed_at # Absent => /\ ReachOf(c)'[d].installed_at = r.installed_at
                                    /\ ReachOf(c)'[d].time_to_patch = r.time_to_patch
  /\ SubSeq(observed', 1, Len(observed)) = observed

EvidenceKept == [][EvidenceStays]_reachVars
=============================================================================
