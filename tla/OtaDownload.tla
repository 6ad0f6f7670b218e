---------------------------- MODULE OtaDownload -----------------------------
(***************************************************************************)
(* An update on its way from an operator's upload to a device's flash:     *)
(* the server's artifacts and targets (ferrite-server/src/ota.rs), the     *)
(* gateway's relay (ota_relay.rs), the client in the SDK                   *)
(* (ferrite-sdk/src/ota.rs) and the board that uses it                     *)
(* (examples/embassy-stm32h563/src/ota.rs).                                *)
(*                                                                         *)
(* An image is a sequence of units, the first of them its build id.  A     *)
(* slot of the flash holds ActiveSize units and is written WriteSize units *)
(* at a time.  The server sends what it finds in its files, the network    *)
(* may cut or change it: the device alone decides what it boots.           *)
(***************************************************************************)
EXTENDS Integers, Sequences, FiniteSets

-----------------------------------------------------------------------------
(***************************************************************************)
(* Signed update manifests (ferrite-sdk/src/ota_manifest.rs) as the tools, *)
(* the server and the devices use them.  An image stands for its SHA-256,  *)
(* and a signature for the key it was made with and the body it covers:    *)
(* hash and signature scheme are assumed to be sound.  What can be wrong   *)
(* with the bytes of a manifest is its "form"; a build id keeps its width, *)
(* 2 * Half values, because the server holds it as a signed number.        *)
(***************************************************************************)
CONSTANTS
  Half,    \* 2^63: the number of build ids without the top bit
  NoHeader \* no X-Firmware-Manifest header

ASSUME ManifestAssumption == Half \in Nat \ {0}

BuildIds == 0 .. 2 * Half - 1

(* "build_id as i64", and back. *)
AsI64(b) == IF b < Half THEN b ELSE b - 2 * Half
AsU64(i) == IF i < 0 THEN i + 2 * Half ELSE i

Forms == {"ok", "length", "hex", "magic", "format", "reserved", "version"}

(* ferrite ota sign: sign_image. *)
SignImage(key, image, build, security) ==
  LET body == [build |-> build, security |-> security, size |-> Len(image),
               sha |-> image, key |-> key]
  IN [form |-> "ok", body |-> body, signature |-> <<key, body>>]

(* SignedManifest::from_hex. *)
Parses(header) == header # NoHeader /\ header.form = "ok"

(* SignedManifest::verify. *)
Verifies(signed, trusted) ==
  /\ signed.body.key \in trusted
  /\ signed.signature = <<signed.body.key, signed.body>>

(* UpdatePolicy::check. *)
PolicyAccepts(signed, trusted, floor) ==
  Verifies(signed, trusted) /\ signed.body.security >= floor

(* ImageVerifier::update and finish. *)
Fits(body, received) == received <= body.size
Matches(body, hashed) == Len(hashed) = body.size /\ hashed = body.sha

-----------------------------------------------------------------------------
CONSTANTS
  Headers,    \* manifests that exist, sound or not
  Images,     \* images that exist
  Factory,    \* the image a device comes with
  Duds,       \* builds that hang before they can upload
  Floor,      \* SECURITY_VERSION of each build
  ServerKeys, \* OTA_TRUSTED_KEYS of the server, {} when not set
  DeviceKeys, \* OTA_TRUSTED_KEYS of the devices
  ActiveSize, WriteSize,
  Erased,     \* a unit of erased flash
  Noise,      \* a unit changed on the way
  None,
  MaxUploads, \* bound: uploads in a behaviour
  MaxOrders,  \* bound: what operators do with targets and artifacts
  MaxFaults   \* bound: failures of network, flash and power

Units == BuildIds \cup {Erased, Noise} \cup UNION {{x[i] : i \in DOMAIN x} :
                                                      x \in Images}

ASSUME DownloadAssumption ==
  /\ \A x \in Images \cup {Factory} : Len(x) > 0 /\ x[1] \in BuildIds
  /\ Factory \in Images /\ Images \subseteq Seq(Units)
  /\ Len(Factory) <= ActiveSize /\ Factory[1] \notin Duds
  /\ Floor \in [BuildIds -> Nat]
  /\ WriteSize \in Nat \ {0} /\ ActiveSize \in Nat
  /\ ActiveSize % WriteSize = 0
  /\ MaxUploads \in Nat /\ MaxOrders \in Nat /\ MaxFaults \in Nat

VARIABLES
  rows,    \* firmware_artifacts: id -> image, build id and manifest
  lastId,
  files,   \* firmware_dir: image -> "absent", "torn" or "whole"
  writing, \* the row whose file is being written, or None
  target,  \* the device's OTA target: build id and URL, or None
  orders, faults

server == <<rows, lastId, files, writing, target, orders>>

VARIABLES
  active, dfu, \* the two slots
  boot,        \* state of the bootloader: "boot", "swap" or "revert"
  phase,       \* where the device is in poll_and_update
  want,        \* OtaTarget: build id and URL
  header,      \* the manifest that came with the image
  body,        \* what the response still holds
  hashed,      \* what the ImageVerifier was fed
  buf, offset  \* AlignedWriter

flash  == <<active, dfu, boot>>
client == <<want, header, body, hashed, buf, offset>>
device == <<flash, phase, client>>
vars   == <<server, faults, device>>

Slots  == [1 .. ActiveSize -> Units]
Phases == {"idle", "asked", "reading", "streaming", "marked"}

(* The URL of an artifact is its id; 0 is the URL of some other place.     *)
Urls == 0 .. MaxUploads

Row    == [image : Images, build : -Half .. Half - 1,
           manifest : Headers \cup {NoHeader}]
Target == [build : -Half .. Half - 1, url : Urls \cup {None}]

Holds(slot, image) ==
  /\ Len(image) <= ActiveSize
  /\ \A i \in DOMAIN image : slot[i] = image[i]

Blank == [i \in 1 .. ActiveSize |-> Erased]
Fresh(image) ==
  [i \in 1 .. ActiveSize |-> IF i \in DOMAIN image THEN image[i] ELSE Erased]

(* Between calls nothing is left of a download but what is in the flash.   *)
Clear ==
  /\ want' = None /\ header' = NoHeader
  /\ body' = << >> /\ hashed' = << >> /\ buf' = << >> /\ offset' = 0

Init ==
  /\ rows = << >> /\ lastId = 0
  /\ files = [x \in Images |-> "absent"]
  /\ writing = None /\ target = None
  /\ orders = 0 /\ faults = 0
  /\ active = Fresh(Factory) /\ dfu = Blank /\ boot = "boot"
  /\ phase = "idle" /\ want = None /\ header = NoHeader
  /\ body = << >> /\ hashed = << >> /\ buf = << >> /\ offset = 0

Fault == faults < MaxFaults /\ faults' = faults + 1
Order == orders < MaxOrders /\ orders' = orders + 1

-----------------------------------------------------------------------------
(* The server. *)

(* upload_firmware up to its file: a server with trusted keys wants a      *)
(* manifest that one of them signed, and any manifest must be of the image.*)
(* No image is empty or larger than it takes: SigningDesk has that check.  *)
UploadAccepted(image, manifest) ==
  IF manifest = NoHeader THEN ServerKeys = {}
  ELSE /\ Parses(manifest)
       /\ ServerKeys = {} \/ Verifies(manifest, ServerKeys)
       /\ Matches(manifest.body, image)

(* X-Build-Id, parsed as a signed number. *)
ClientBuild(image) == IF image[1] < Half THEN image[1] ELSE 0

UploadBegin(image, manifest) ==
  /\ writing = None /\ lastId < MaxUploads
  /\ UploadAccepted(image, manifest)
  /\ writing' = [image |-> image, manifest |-> manifest,
                 build |-> IF manifest = NoHeader THEN ClientBuild(image)
                           ELSE AsI64(manifest.body.build)]
  /\ files' = [files EXCEPT ![image] = "torn"]
  /\ UNCHANGED <<rows, lastId, target, orders, faults, device>>

(* A file that was deleted while it was written is gone for good. *)
UploadEnd ==
  /\ writing # None
  /\ files' = [files EXCEPT ![writing.image] =
                 IF @ = "absent" THEN @ ELSE "whole"]
  /\ lastId' = lastId + 1
  /\ rows' = [id \in DOMAIN rows \cup {lastId'} |->
                IF id = lastId' THEN writing ELSE rows[id]]
  /\ writing' = None
  /\ UNCHANGED <<target, orders, faults, device>>

(* The write fails, the client goes away or the row cannot be inserted:    *)
(* no row, and the file torn, whole or removed.                            *)
UploadLost ==
  /\ writing # None
  /\ Fault
  /\ \E left \in {"torn", "whole", "absent"} :
       files' = [files EXCEPT ![writing.image] = left]
  /\ writing' = None
  /\ UNCHANGED <<rows, lastId, target, orders, device>>

(* delete_firmware, for a row no campaign refers to. *)
Delete(id) ==
  /\ id \in DOMAIN rows
  /\ Order
  /\ rows' = [j \in DOMAIN rows \ {id} |-> rows[j]]
  /\ files' = [files EXCEPT ![rows[id].image] = "absent"]
  /\ UNCHANGED <<lastId, writing, target, faults, device>>

(* set_ota_target: without a URL the one from before is kept. *)
SetTarget(build, url) ==
  /\ Order
  /\ target' = [build |-> build,
                url |-> IF url = None /\ target # None THEN target.url
                        ELSE url]
  /\ UNCHANGED <<rows, lastId, files, writing, faults, device>>

(* activate_campaign, for this device: build id and URL of the artifact. *)
Offer(id) == id \in DOMAIN rows /\ SetTarget(rows[id].build, id)

RemoveTarget ==
  /\ target # None
  /\ Order
  /\ target' = None
  /\ UNCHANGED <<rows, lastId, files, writing, faults, device>>

Operate ==
  \/ \E x \in Images, m \in Headers \cup {NoHeader} : UploadBegin(x, m)
  \/ UploadEnd \/ UploadLost
  \/ \E id \in 1 .. MaxUploads : Delete(id) \/ Offer(id)
  \/ \E b \in {AsI64(x[1]) : x \in Images}, u \in Urls \cup {None} :
       SetTarget(b, u)
  \/ RemoveTarget

-----------------------------------------------------------------------------
(* The device.  What runs is in the active slot, and says its build id.    *)

Build == active[1]

Running == phase = "idle" /\ Build \notin Duds

GiveUp ==
  /\ phase' = "idle" /\ Clear
  /\ UNCHANGED flash

(* parse_u64_field skips to the first digit of the number. *)
ParseU64(i) == IF i < 0 THEN -i ELSE i

(* Mutation of Check: pending_confirm is not looked at. *)
CheckOnTrial ==
  /\ Running /\ boot # "revert"
  /\ target # None /\ target.url # None
  /\ ParseU64(target.build) # Build
  /\ want' = [build |-> ParseU64(target.build), url |-> target.url]
  /\ phase' = "asked"
  /\ UNCHANGED <<server, faults, flash, header, body, hashed, buf, offset>>

(* OtaClient::check, relayed; without a URL it ends in ParseError. *)
Check ==
  /\ Running /\ boot = "boot"
  /\ target # None /\ target.url # None
  /\ ParseU64(target.build) # Build
  /\ want' = [build |-> ParseU64(target.build), url |-> target.url]
  /\ phase' = "asked"
  /\ UNCHANGED <<server, faults, flash, header, body, hashed, buf, offset>>

(* relay_path lets only the server's own firmware through, and             *)
(* download_firmware looks its row up under the lock.                      *)
Request ==
  /\ phase = "asked"
  /\ IF want.url \in DOMAIN rows
     THEN /\ phase' = "reading"
          /\ header' = rows[want.url].manifest
          /\ body' = rows[want.url].image
          /\ UNCHANGED <<flash, want, hashed, buf, offset>>
     ELSE GiveUp
  /\ UNCHANGED <<server, faults>>

(* OtaClient::download, before a byte of the image is looked at. *)
HeaderAccepted(signed) ==
  /\ Parses(signed)
  /\ PolicyAccepts(signed, DeviceKeys, Floor[Build])
  /\ signed.body.build = want.build

Found(image) ==
  IF files[image] = "absent" THEN {}
  ELSE IF files[image] = "whole" THEN {image}
  ELSE {SubSeq(image, 1, n) : n \in 0 .. Len(image) - 1}

(* The file is read without the lock: it may be gone, or be the first part *)
(* of itself while it is uploaded again.                                   *)
Answer ==
  /\ phase = "reading"
  /\ IF Found(body) # {} /\ HeaderAccepted(header)
     THEN /\ body' \in Found(body)
          /\ hashed' = << >> /\ buf' = << >> /\ offset' = 0
          /\ phase' = "streaming"
          /\ UNCHANGED <<flash, want, header>>
     ELSE GiveUp
  /\ UNCHANGED <<server, faults>>

(* flush_block: write_firmware erases as it goes (external). *)
Flashed(block) ==
  [i \in 1 .. ActiveSize |->
     IF i - offset \in DOMAIN block THEN block[i - offset] ELSE dfu[i]]

(* AlignedWriter::write of one unit. *)
Write(unit) ==
  LET filled == Append(buf, unit)
  IN IF Len(filled) = WriteSize
     THEN /\ dfu' = Flashed(filled)
          /\ offset' = offset + WriteSize
          /\ buf' = << >>
     ELSE buf' = filled /\ UNCHANGED <<dfu, offset>>

(* A piece of the image: too much for the manifest, too much for the slot, *)
(* or written.                                                             *)
Receive ==
  /\ phase = "streaming" /\ body # << >>
  /\ LET fed == Append(hashed, Head(body))
     IN IF Fits(header.body, Len(fed)) /\ Len(fed) <= ActiveSize
        THEN /\ hashed' = fed
             /\ body' = Tail(body)
             /\ Write(Head(body))
             /\ UNCHANGED <<active, boot, phase, want, header>>
        ELSE GiveUp
  /\ UNCHANGED <<server, faults>>

Padded ==
  [i \in 1 .. WriteSize |-> IF i \in DOMAIN buf THEN buf[i] ELSE Erased]

(* Mutation of Finish: the image is marked whatever its hash. *)
FinishUnhashed ==
  /\ phase = "streaming" /\ body = << >>
  /\ IF Len(hashed) = header.body.size
     THEN /\ dfu' = IF buf = << >> THEN dfu ELSE Flashed(Padded)
          /\ phase' = "marked"
          /\ UNCHANGED <<active, boot, client>>
     ELSE GiveUp
  /\ UNCHANGED <<server, faults>>

(* ImageVerifier::finish, AlignedWriter::finish, mark_updated. *)
Finish ==
  /\ phase = "streaming" /\ body = << >>
  /\ IF Matches(header.body, hashed)
     THEN /\ dfu' = IF buf = << >> THEN dfu ELSE Flashed(Padded)
          /\ phase' = "marked"
          /\ UNCHANGED <<active, boot, client>>
     ELSE GiveUp
  /\ UNCHANGED <<server, faults>>

(* The connection breaks or times out, the server cannot be reached, or    *)
(* the flash cannot be written.                                            *)
Abort ==
  /\ phase \in {"asked", "reading", "streaming"}
  /\ Fault
  /\ GiveUp
  /\ UNCHANGED server

(* A connection that ends early looks like the end of the image. *)
Cut ==
  /\ phase = "streaming" /\ body # << >>
  /\ Fault
  /\ body' = << >>
  /\ UNCHANGED <<server, flash, phase, want, header, hashed, buf, offset>>

Garble ==
  /\ phase = "streaming" /\ body # << >>
  /\ Fault
  /\ body' = <<Noise>> \o Tail(body)
  /\ UNCHANGED <<server, flash, phase, want, header, hashed, buf, offset>>

(* The bootloader after any reset (external: embassy-boot). *)
Restart ==
  /\ phase' = "idle" /\ Clear
  /\ IF phase = "marked" \/ boot = "swap"
     THEN /\ active' = dfu /\ dfu' = active
          /\ boot' = IF phase = "marked" THEN "swap" ELSE "revert"
     ELSE UNCHANGED flash
  /\ UNCHANGED server

(* sys_reset after mark_updated, and the watchdog of a build that hangs. *)
Reset == (phase = "marked" \/ Build \in Duds) /\ Restart /\ UNCHANGED faults

PowerLoss == Fault /\ Restart

(* Mutation of Report: a reported rollback does not end the revert state. *)
ReportTrialOnly ==
  /\ Running /\ boot = "swap"
  /\ boot' = "boot"
  /\ UNCHANGED <<server, faults, active, dfu, phase, client>>

(* An upload went through: confirm, or rollback_reported, upon which the   *)
(* server stops offering another build - once the report reaches it.       *)
Report ==
  /\ Running /\ boot # "boot"
  /\ boot' = "boot"
  /\ \/ UNCHANGED target
     \/ /\ boot = "revert" /\ target # None
        /\ AsU64(target.build) # Build
        /\ target' = None
  /\ UNCHANGED <<rows, lastId, files, writing, orders, faults,
                 active, dfu, phase, client>>

Device ==
  Check \/ Request \/ Answer \/ Receive \/ Finish \/ Reset \/ Report

Next == Operate \/ Device \/ Abort \/ Cut \/ Garble \/ PowerLoss

Spec == Init /\ [][Next]_vars

(* The main loop polls and reports for ever, the server answers.           *)
FairSpec == Spec /\ WF_vars(Device) /\ WF_vars(UploadEnd)

-----------------------------------------------------------------------------
(* Properties. *)

(* Manifests that the key holder made, and that are still as he made them. *)
Genuine == {m \in Headers : m.form = "ok" /\ Verifies(m, DeviceKeys)}

IsImage(m, slot) == m.body.size = Len(m.body.sha) /\ Holds(slot, m.body.sha)

(* Signed by a key the device trusts, and no step back. *)
Approved(from, to) ==
  \E m \in Genuine : IsImage(m, to) /\ m.body.security >= Floor[from[1]]

Works(slot) ==
  /\ slot[1] \notin Duds
  /\ Holds(slot, Factory) \/ \E m \in Genuine : IsImage(m, slot)

(* The device keeps the promise of TrialBoot, though the server hands out  *)
(* whatever it was given and the network cuts and changes it: it moves     *)
(* only to an image that a trusted key signed and that its floor allows,   *)
(* whole (ferrite-sdk/src/ota.rs:9-12), and what a trial falls back to     *)
(* stays untouched until the trial is over.                                *)
Trial == INSTANCE TrialBoot WITH
  Contents <- Slots, running <- active, other <- dfu, state <- boot
TrialKept == Trial!Spec

(* What runs works, or a reset brings back what does                       *)
(* (examples/embassy-stm32h563/src/ota.rs:10-12).                          *)
Recoverable == Trial!Recoverable

Ready(b) ==
  /\ target # None /\ target.build = AsI64(b)
  /\ target.url \in DOMAIN rows
  /\ LET row == rows[target.url]
     IN /\ files[row.image] = "whole"
        /\ row.manifest \in Genuine
        /\ row.manifest.body.build = b /\ row.image[1] = b
        /\ row.manifest.body.security >= Floor[Build]
        /\ Len(row.image) <= ActiveSize

(* An update that stays on offer, and that the device may take, gets there *)
(* in the end - for a build id without the top bit (see StaysPut).         *)
UpdateArrives ==
  \A b \in BuildIds \ Duds : b < Half => (<>[]Ready(b) => <>(Build = b))

(* Not met by builds whose id has the top bit: "Returns UpToDate [...]     *)
(* when the target's build_id matches current_build_id"                    *)
(* (ferrite-sdk/src/ota.rs:121), so a device does not set out to fetch the *)
(* build it runs.                                                          *)
StaysPut ==
  [][phase' = "asked" /\ phase = "idle" => AsU64(target.build) # Build]_vars
=============================================================================
