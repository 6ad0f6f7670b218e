# Models and proofs of ferrite-sdk

ferrite-sdk collects telemetry on embedded devices (crash records, metrics, trace frames,
reboot reasons), brings it to a server directly or through a gateway, and lets the server roll
out firmware to the devices. This directory holds TLA+ modules of the parts whose behaviour
*over time* is hard to test - sessions that fail half-way, resets, chunks that repeat and
reorder, campaigns that share devices, requests that are dropped while they wait, downloads that
are cut - with the TLC configurations that check them and theorems that TLAPS proves for every
value of the constants.

Paths below are relative to the repository; line numbers are those of the commit these modules
were written from. `PROJECT.json` lists, for every definition that models code, the lines it
models.

Contents: 1 the system, 2 the models, 3 the runs, 4 bounds, 5 fairness and deadlock, 6 the
proofs, 7 where the code and its documentation disagree, 8 what is not modelled, 9 the plan.

## 1. The system

| Component | State it keeps | Operations | Interacts with | What is hard | Correct when | Modules |
|---|---|---|---|---|---|---|
| SDK upload session and retained RAM (`ferrite-sdk/src/upload.rs`, `sdk.rs`, `memory.rs`, `fault.rs`, `reboot_reason.rs`, `metrics.rs`) | retained block (magic, reboot reason, fault), metrics, trace, session | init, record, HardFault, reset, `upload`, `upload_async` | transport; interrupts and other tasks | failure of the *i*-th send, fault or reset between two erasures, recording while an async upload waits | nothing is erased that the host does not have; the newest fault and reason survive; uninitialised RAM is never sent; records get through | SdkUpload |
| SDK trace ring and defmt logger (`trace.rs`, `defmt_sink.rs`) | a ring of bytes; one staging buffer | write, evict, clear; acquire, write, release | upload session, interrupts | eviction looks for 0xFF, which payloads hold too; an interrupt logs in the middle of a message, or between taking the flag and resetting the position | what is read was written; losses are counted; an undisturbed message is one frame, whatever overlapping ones left behind | DefmtSink |
| SDK chunks and wrappers (`chunks/`, `encryption.rs`, `compression.rs`) against the server's parsers (`ingest.rs`) | sequence number, key | encode, compress, seal; decode, open, parse | transports, server | sizes at the limit, fields of two programs that must agree, cut bodies | the server reads, field by field, what was recorded | Wire |
| Callers of uploads (`ferrite-ffi`, `ferrite-rtic`, `ferrite-embassy`) | a pending request, a trigger | C functions, poll, loop | upload session | requests while a session runs, codes for what failed | codes tell what became of the data; a request is served | Sessions |
| Gateway serial link (`ferrite-gateway/src/framing.rs`, `usb_reader.rs`) | framer's buffer, the open port | feed, read, hang up, reopen | board; gateway's channel | bytes lost, changed or cut; false headers in payloads | only sent chunks, in order; no whole chunk given up | SerialLink |
| Gateway BLE scanner (`ble_scanner.rs`, `backoff.rs`) | claims of a scan, handlers, links | scan, claim, connect, serve, back off | peripherals; channel | handlers outlive their scan; awaits between a look and a claim | one handler for each claim | BleScanner |
| Gateway (`main.rs`, `forwarder.rs`, `buffer.rs`, `http_ingest.rs`, `ota_relay.rs`) | channel of 256, batch, SQLite buffer | accept a post, gather 200 ms, forward with retries, buffer, drain at start, relay downloads | agent, board, server | batches that mix devices, answer before delivery, crashes | nothing lost but for a recorded reason; a sealed chunk stored as its device's | Gateway, Uplink, OtaDownload |
| Linux agent (`ferrite-agent/src/main.rs`, `uplink.rs`, `boot.rs`, `report.rs`) | boot record, spool directory, report in hand | start, tick, flush, push, trim, classify a reboot | server or gateway | kill between any two steps, full or failing disk, half-answered requests | no report lost or overwritten, oldest first; a reboot reported once and with its cause | Agent, Uplink, BootCause |
| Server credentials (`credentials.rs`, `ingest.rs:777-`) | key of each device, window of counters of each key and epoch | issue, revoke, look up, accept a counter | ingest, provisioning | three locks and two databases per chunk, repeats and reorder | accepted once, never refused when new | Credentials |
| Server ingest, alerting, retention (`ingest.rs`, `alerting.rs`, `retention.rs`, `store.rs`) | devices, faults, crash groups; one connection with or without an open transaction | upload, register, delete, purge, offline check | everything that sends | a transaction that waits with the connection locked, handlers dropped inside it, a webhook that does not answer | what is answered of a known device is stored; counts never too low; one alert per silence | Fleet, Ingest |
| Symbolication (`symbolicate.rs`, `ingest.rs`) | ELF files, which one is current | upload an ELF, read a fault | ingest | files written without the lock, two uploads at once | a fault of the newest version is read with the file that was answered last or a newer one | Symbols |
| Campaigns and OTA targets (`campaigns.rs`, `ota.rs`, `store.rs`) | campaign, its devices' progress, target of each device | create, activate, pause, roll back, set and delete targets, device reports | operators, device reports, devices' checks | operators and late reports in any order; shared devices | completed means done, threshold respected, over is over | Campaigns |
| Device side of OTA (`ferrite-sdk/src/ota.rs`, `ota_manifest.rs`, `examples/embassy-stm32h563`) | two slots, boot state, download | check, request, verify, write, swap, trial boot, confirm, revert, report | server, relay, bootloader | reset anywhere, images that are cut or changed, bad builds | only what was signed is booted; what works is never lost; an update arrives | OtaRollout, OtaDownload, TrialBoot |
| Firmware artifacts (`ferrite-server/src/ota.rs`) | rows and files | upload, delete | evidence log, campaigns | requests dropped at an await, crashes, two rows with one file | what is listed can be fetched | Releases, OtaDownload |
| Signing (`ferrite-ctl/src/commands/ota.rs`) | key files, image, manifest | keygen, sign, verify, upload | server's checks | files of different times and keys | what verify found good is taken, what is stale is not, in the sizes the server reads | SigningDesk |
| Evidence log and anchors (`evidence.rs`, `evidence_anchor.rs`) | hash chain, what the sinks hold | record, verify, anchor | all handlers about firmware, builds and credentials | appends while an anchor waits; a change and its entry are two steps | the chain shows tampering; anchors claim no more than is so; entries tell what happened | Releases, DeviceLog |
| Groups and update reach (`groups.rs`, `reach.rs`, `store.rs`) | devices, observations, groups, campaigns | register, delete, regroup, report | ingest | a row and its history are two statements; devices come and go | the reports agree; evidence stays | Reach |
| Authentication and sign-in (`auth.rs`, `auth_middleware.rs`, dashboard) | cached keys; stored session | check a token; sign in and out | Keycloak | keys replaced while fetched; answers to two pages in either order | a good token is taken, every route answers whom all pages let in and nobody whom none does | KeyCache, Access, SignIn |
| Rate limit (`rate_limit.rs`) | buckets | ask, forget | ingest, login | filled when asked, dropped when idle | an allowance that grows all the time | RateLimit, Meter |
| Provisioning (`ferrite-provision`, `device_key.rs`) | the board's key, a CSV file | provision, import, clear | boards, server | runs that share a file and stop anywhere | what was exported is imported | Provision |
| Event stream, crash listings, Prometheus, other dashboard pages, transports, start-up, deployment | little or none | one request or call each | the above | - | see section 8 | - |

Telemetry goes device -> (serial or BLE -> framer | HTTP) -> gateway -> server, or device ->
server. Every HTTP answer but the server's own is given *before* the data is safe at the server.
In the other direction the server offers a target, the device polls for it (through the
gateway's relay when it has one) and its later reports move the campaign. Inside the server, all
handlers share one SQLite store behind a mutex, and further databases for the credentials and
the evidence: each critical section is one atomic action of the models, and whatever lies
between two of them (an await, a second lock) is a place where other actions happen.

`PROJECT.json` lists every component with its status, and 40 hazards: what this code can
get wrong that a test would hardly reach, each at its line, with the properties that would show
it.

## 2. The models

```
SdkUpload, SerialLink ------------------------ MCUploadLink    UploadLinkProofs
DefmtSink, Wire, BootCause, Sessions --------- MCDevice        DeviceProofs
Agent -----\
Gateway ----+- Uplink, BleScanner ------------ MCUplink        UplinkProofs
                 | implements Delivery
Credentials, KeyCache, Access, Symbols,
SignIn, DeviceLog ---------------------------- MCCredentials   CredentialsProofs
Fleet -------- Ingest ------------------------ MCIngest        IngestProofs
Campaigns ------------------------------------ MCCampaigns     (in ReleasesProofs)
     \-------- OtaRollout --\
     Releases --------------+- SigningDesk --- MCReleases      ReleasesProofs
OtaDownload ---------------------------------- MCOtaDownload   OtaDownloadProofs
     | implements TrialBoot
Reach, RateLimit, Provision ------------------ MCRegistry      RegistryProofs
            | implements Meter
```

A line to the right is EXTENDS. There are three abstract specifications. `Delivery` is
store-and-forward, `TrialBoot` is updating a device with two slots, `Meter` is an allowance that
grows with time; `Uplink`, `OtaDownload` and `RateLimit` instantiate them with a refinement
mapping and have them as the properties `NothingLost`, `TrialKept` and `Metered`.

Several MC modules put specifications that share nothing side by side: the variable `part`,
chosen at the start, tells which of them runs, so a run explores the sum of their states and not
the product. Modules that do interact (`Uplink` with its two halves, `OtaRollout` with
`Campaigns`, `Ingest` with `Fleet`) are composed in earnest.

Names of variables and actions follow the source where TLA+ allows it. Variables called
*history* in the comments record what happened so that properties can speak of it; no guard of
the code reads them. Definitions introduced by a comment "Mutation of X" are what a plausible bug
would make of `X`: they are used nowhere, and each is there because the property it is paired
with in `PROJECT.json` fails when it replaces `X`. Definitions introduced by "Not met" state what
a document or a comment promises and the code does not do (section 7).

**SdkUpload**. A value recorded on the device - a metric's new value, a
frame, a reboot reason, a fault - is the number of the write that made it, so that
`received` (at the host) and `cleared` (erased by an upload) can be compared. The retained block
is `magic`, `reason`, `fault`; `LoseRam` makes it `Noise`. Actions: `Boot` (init with
`begin_boot`), `RecordMetric`, `WriteTrace`, `RecordReason`, `HardFault`, `Reset`, `PowerLoss`,
and the session `BeginSession`, `Encode`, `SendOk`/`SendFail`, `ClearBuffers`, `ClearReason`,
`ClearFault`, `EndSession`. The variable `async`, constant in a behaviour, tells `upload` from
`upload_async`: the blocking one runs its session inside one critical section (`Masked`), where
only a fault or a reset can intervene; in the other, tasks record between any two steps. How
metrics are cut into chunks is left open (`Cuts`); `TraceChunks` makes fragments of what the
frame iterator yields, which is nothing (section 7).

**DefmtSink**. The ring is what the code has, an array of bytes with a read position, and
`kept` and `gone` are what it should hold and what it gave up: `Evict`, `WriteFrame`, `Clear`,
`FramesOf` (the iterator). Two contexts, thread and interrupt, call `Acquire`, `Reset`,
`WriteBegin`, `Copy`, `FlushBegin`, `Flush` and `Release` on one staging buffer; the interrupt
comes between any two accesses of the thread: also after `Acquire` has set the flag and before
`Reset` has set the position back, when the handler stands behind the bytes of an older message.

**Wire**. The chunk format as bytes with the sizes of the code: `Chunks` is every encoder,
`Pack` and `Sealed` are the compressing and the encrypting transport, `Decoded`, `Opened` and
`Rows` are the server. `Send` puts the chunks of a record into a body and `Post` hands it to the
server, with its end cut off or not.

**Sessions**. What firmware asks and is answered: the C functions (with their argument checks
and codes), RTIC's `poll` and Embassy's loop, over a session only as fine as its callers can
tell. `held` is what the SDK has, `host` what was sent, `due` what a request was made for.

**BootCause**. `kernel` is the boot that runs, `bootFile` is boot.json, `dumps` the crash
traces; the device goes down for one of four causes, and the agent starts, ticks, is killed and
is stopped. `told` is what the report says of `last`.

**Credentials**. A sealed chunk is its nonce `<<key, epoch, counter>>`; any chunk of an issued
key may arrive at any time, any number of times. A request goes through `Open` (`key_for`, first
lock), `AcceptFirst`/`AcceptNext`/`Refuse` (`accept_counter`, second lock and database) and
`Commit`/`CommitFails` (the store's transaction). `rows` is `credential_epochs`: highest counter,
window, and whether the epoch has kept its window; `Compacted` is the removal of old windows.
`Issue` and `Revoke` run in between, and `Crash` drops the requests in hand. `compacted` is
history: the highest counter of an epoch when it lost its window.

**KeyCache**, **Access**, **SignIn**. `KeyCache` is the path of one bearer token: look up the
key, fetch, store, check, and ask Keycloak when no key fits, with keys published and withdrawn
meanwhile. `Access` has every route of the server with who is answered (`Answer`), against what
the documentation says of the route: who every page lets make the request (`MayAsTold`) and who
some page does (`MightAsTold`). The roles of a token's user may be in the token or not (`shown`):
on the path over Keycloak's userinfo a user without roles is a viewer (`RoleOfToken`). `SignIn` is one tab: the guard, the callback
page with the exchange of the code, and the answer to `GET /auth/mode`, which is asked whenever a
document is loaded and may come at any time.

**Symbols**. An ELF upload writes a file with no lock held, then registers it; `LookUpFault`
chooses a file and reads it later. `stale` is history: what a file was replaced by;
`shown.known` says whether the fault's own version had a file when it was read.

**DeviceLog**. A report reads the device's row, writes the entry and updates the row inside the
transaction of its upload, which may be undone; a credential changes in its own database and
each request (`Clerks`) writes its entry afterwards. `unlogged` is history: entries that were not
written.

**Campaigns**. One action per handler: `Create`, `Activate` (canary share included), `Pause`,
`Rollback`, `SetTarget`, `DeleteTarget`, and the two things an OTA request chunk can report,
`ReportBuild` and `ReportRollback` (`record_ota_rollback`), each with the completion or automatic
pause it may cause in the same critical section. `progress[c]` is the table
`ota_campaign_devices`, `target` the table `ota_targets`. `confirmed` (which target a device
confirmed), `rolled` and `resumed` are history.

**OtaRollout** EXTENDS `Campaigns` with the devices: `running`, `previous`, `boot` (the
bootloader's swap state), `fetching`, and `held`, the reports a gateway has answered but not yet
forwarded. A device posts straight to the server (`Process` is then the server's step) or to a
gateway, where `Forward` may come late or twice and `Lose` instead. `Check` reads the target
through the relay at once. `Swap`, `DownloadFails`, `Reset`, `Watchdog`, and `Restart`, which is
the bootloader.

**OtaDownload**, **TrialBoot**. The download that `OtaRollout` takes as one step: rows, files
and targets of the server (`UploadBegin`, `UploadEnd`, `Delete`, `Offer`, ...), and the device's
`Check`, `Request`, `Answer`, `Receive`, `Finish` with the manifest's parsing, signature, floor,
size and hash, its flash in blocks, and `Restart`. The network may end a response (`Cut`, `Abort`)
or change a unit of it (`Garble`). `TrialBoot` is what this implements: the device moves only to
what is approved, keeps it only if it works, and has what worked in the other slot until then.

**SigningDesk**. The files `secret`, `public`, `built` and `manifest` as the commands find them,
the server's keys `anchors` as they were when it was started, and `checked`: by which keys the
present files were found good. `size` is the image's: it fits, is empty, or is more than the
server reads. `signings` is history: which image was signed with which key.

**Agent**, **Gateway**, **Uplink**, **Delivery**. `Agent` is one thread that may be killed
between any two file operations or requests: `Start` (boot record), `Tick` (a report is made, the
spool listed), `FlushAnswered`/`FlushFails`/`FlushDone`/`FlushBlind`, `FreshAnswered`, `Push` with trimming,
`PushFails`, `Stop`, `Kill`, `Reboot`. What an answer is, is the action's parameter. `Gateway` is
the receivers (`Accept`, `Feed`, `Reply`, `BoardSends`), the loop (`Receive`, `Close`,
`Attempt`, `BatchVerdict`, `BufferBatch`), draining at start (`DrainVerdict`, `DrainAgain`,
`DrainStops`) and `Crash`; `Ownership` is how the server decides whose a chunk is. `Uplink` joins
the two: `route` is the agent's `server_url`, the steps that both take part in (`SendToServer`,
`SendToGateway`, `GatewayReplies`, `AgentGivesUp`, `AgentKilled`, `GatewayCrashes`) are named
there. `Delivery` says what store-and-forward promises: what has been taken over is
held by somebody until the server has it, unless it is excused for a recorded reason or something
broke; it never comes back. The mapping takes reports, board sessions and reboots as items:
`held` is a copy in the agent's hand, in the spool, in the gateway's channel, batch or buffer;
`excused` is refused by the server, trimmed from a full spool, or wrecked in a gateway that
failed.

**BleScanner**. A scan considers a peripheral (several awaits), claims it and starts a handler;
the handlers go on when the scan has ended, and a peripheral has one link whoever uses it. The
delay between scans doubles up to 60 s.

**Releases**. `log` is the hash chain, with a hash modelled as the tuple of what
is hashed - equal exactly when the inputs are equal, which is the assumption that SHA-256 does
not collide. `AnchorBegin` reads the head, `AnchorSend` reaches one sink or fails (with or
without the sink having it), `AnchorEnd` appends the entry; two runs may overlap. Over the same
log run the uploads and deletions with their files: `UploadBegin`, `UploadWritten`/`UploadTorn`,
`UploadInsert`/`UploadRefused`, `DeleteBegin` (row removed, lock held over the await), `Unlinked`,
`Drop` (the client goes away at an await; the file operation goes on) and `Crash`.

**Fleet**, **Ingest**. `Fleet` has the tables of devices, faults and crash groups as one record
and the statements on it. `Ingest` has the connection: `db` is what it sees, `disk` what was
committed, `open` whether a transaction is open - which stays so when the request that began it
is dropped (`ClientGone`) or its COMMIT fails. `job` is the request that holds the lock and waits
inside its transaction, a step for each chunk and for the head of each group: the heartbeat of a
device that is known, or nobody's, whose chunks are dropped (`DropNameless`); registrations, deletions, `RunPurge` and
`CheckOffline` with `SendAlert`, during which there is no other check, come in between, and `Restart` anywhere.

**Reach**. Rows of devices, observed builds, groups, memberships and campaigns with their targets,
each handler one step, a tick a second; `Distribution`, `FirmwareHistory`, `ReachOf` and `Summary` (with its
`Median`) are the reports.

**RateLimit**, **Meter**. `TryAcquire` fills a bucket for the time since it was last asked and
`Cleanup` forgets idle ones; `Left` maps both to the level of `Meter`, which forgets nobody.

**Provision**. Runs at several benches: `OpenPort`, `Provide` (the board makes its key),
`RegisterKey`, `LookForFile`, `OpenFile`, `WriteLines`; each may stop anywhere, and `Import`
reads the file.

**SerialLink**. `Scan` is `ChunkFramer::feed` on the bytes buffered so far, as a
recursive function: search the magic byte, wait for the length, wait for the whole chunk, check
the CRC, emit, or give up one byte. A board sends chunks, the bytes of
a read come in any split (`Read`), one is lost (`Lose`) or changed (`Change`), a chunk is cut
(`SendCut`), the port disappears (`Hangup`) and is opened again with a new framer (`Reopen`). The
header is cut down to the fields the framer looks at, and the CRC is a byte that names what it
was computed over, so that only bytes that were framed together carry a right one.

## 3. The runs

Nine runs pass. Their properties are stated with their meaning and the code they are about where
they are defined; several are conjunctions of named parts, one for each part of the union.

| Run | Module, cfg | What it shows |
|---|---|---|
| `upload_link` | MCUploadLink, UploadLink.cfg | *SdkUpload*: both upload functions, failed sends, resets and power losses at any step: `BlockingErasesSent`, `RecordsKept` (fault: both functions; reason: the blocking one), `NoNoiseSent`, and, under fairness, `RecordsEventuallyUploaded`. *SerialLink*: `DeliversSent` (what is handed on was sent, in order, and all of it over a clean connection) and `NothingSkipped` |
| `device` | MCDevice, Device.cfg | *DefmtSink*: `RingReads` (the ring holds the newest frames, the reader gets them, losses are counted) and `UndisturbedIsWhole` (a message that finds the logger free and is not interrupted is a frame of its own bytes). *Wire*: `RecordsSurvive`. *BootCause*: `RebootTold`. *Sessions*: `CallersServed` |
| `uplink` | MCUplink, Uplink.cfg | *Uplink*: `NothingLost` (the chain implements `Delivery`), `SpoolInOrder`, `RebootOnce`, `OldestFirst`. With *BleScanner*: `ReceivedAsOwn` (one handler for each claim; sealed chunks are stored as their device's) |
| `credentials` | MCCredentials, Credentials.cfg | *Credentials*: `AcceptedOnce`, `RememberedIsKept`. *KeyCache*, *Access*, *SignIn*: `UsersServed`. *Symbols*, *DeviceLog*: `ReadersTold` (a fault of the newest version, or of one without a file, is read with the file answered last or a newer one; the log tells a device's build and its key) |
| `ingest` | MCIngest, Ingest.cfg | `AnsweredIsStored`, `GroupsCover`, `OneAlertPerSilence`, and, under fairness and if the webhook always answers, `SilentGoesOffline` |
| `campaigns` | MCCampaigns, Campaigns.cfg | `CompletedIsDone`, `ActiveWithinThreshold`, `ProgressReported`, `WithdrawnForCause`, for two campaigns that share devices and targets set by hand, where two builds have one version |
| `releases` | MCReleases, Releases.cfg | *SigningDesk* and the shelf of *Releases*: `ReleasesTold`. The log of *Releases*: `LogTrusted` (tampering shows; anchors are truthful), and, under fairness, `EventuallyAnchored`. *OtaRollout*: `DirectNoReinstall`, and, under fairness, `RolloutEnds`, for a campaign over a device on which the build runs and one on which it hangs, one of them behind a gateway |
| `ota_download` | MCOtaDownload, OtaDownload.cfg | `TrialKept` (the download implements `TrialBoot`), `Recoverable`, and, under fairness, `UpdateArrives` |
| `registry` | MCRegistry, Registry.cfg | *Reach*, for a target build 0 as well as another: `ReportsAgree`, `EvidenceKept`. *RateLimit*: `Metered` (implements `Meter`). *Provision*: `ExportsAreImported` |
| `sdk_upload_erase` | SdkUpload, SdkUploadErase.cfg | *violation* of `NothingErasedUnsent`: `upload_async` erases what was recorded while it was sending |
| `symbols_match` | Symbols, Symbols.cfg | *violation* of `MatchingIsRead`: a fault is read with the file registered last, not with its version's |
| `sign_in` | SignIn, SignIn.cfg | *violation* of `LoginMeansNoSession`: the late answer to `GET /auth/mode` puts the login page over a session that has just begun |

Each module states its type invariant as a `...TypeOK`. They hold on these same instances (add one
as an `INVARIANT` of the cfg to see it); those of the modules with proofs are proved, or are
conjuncts of the inductive invariants of section 6. The runs list the properties above instead.

## 4. Bounds

All bounds are constants named in the modules and guards of the actions they limit.

* **SdkUpload**: `MaxMetrics` 2, `MaxFrames` 1 (capacities), `MaxWrites` 3 (values recorded),
  `MaxResets` 2. Three writes are enough for a value to be evicted, and for one to be recorded
  while another is being sent; two resets allow a fault, a boot and another fault within one
  session's history.
* **SerialLink**: `MaxPayload` 4 (248 in the code), an empty payload and one that contains a
  whole false header, `MaxSent` 3, `MaxWire` 8 bytes unread, `MaxFaults` 2.
* **DefmtSink**: a ring of 13 bytes with time stamps of one byte, so that two or three frames fit
  and one write evicts several; 4 frames wrap the ring. Payloads and ticks include the
  sentinel.
* **Wire**: the sizes of the code; records at and just beyond the largest that fit in clear and
  sealed, identities and versions longer than can be told, two per behaviour, 0, 1 or 30 bytes
  cut off the body.
* **BootCause**: two images, `SaveEvery` 2 ticks, `MaxDate` 7, three boots, one failure: long
  enough for two saves, a kill and another start within a boot. **Sessions**: reason codes 0, 4
  and 13 (none, one, one beyond the last), `RegionLimit` 1, four things recorded, one hard fault.
* **Uplink**: to the server `MaxReports` 3, `MaxBoots` 3, `MaxFaults` 2, `MaxSpooled` 2 (so the
  spool is trimmed); through the gateway `MaxForwarded` 1, `MaxSessions` 1, `MaxFailures` 1 in
  all, `MaxCrashes` 1, `Capacity` 2 (a batch fills the channel, the next waits), `MaxRetries` 2;
  `MaxSent` is the range of the reports' numbers. The interaction of the gateway with a long
  spool is therefore not explored: the proofs that the spool keeps its order hold for
  both routes. **BleScanner**: two peripherals, two scans (a handler of the first lives in the
  second).
* **Credentials**: `ReplayWindow` 2 (4096 in the code), `RecentEpochs` 1 (32), `MaxCounter` 2
  with two epochs, `MaxKeys` 1, `MaxClock` 1, `MaxFailures` 1. A counter leaves the window
  (2 against 0) and an epoch its place (the second pushes out the first). One key only, so that
  replacement by a new one is left to the proof, which has any number. **KeyCache**: two requests,
  two signing keys, `Ttl` 1, two outages. **Access**: every route, five accounts, four roles of the
  realm in every combination, in the token or not. **Symbols**: two versions, two uploads at once, three builds, one
  restart. **SignIn**: two clicks. **DeviceLog**: two builds, two keys, two requests, three
  entries, one trouble (a crash, or a row or an entry that fails).
* **Ingest**: two devices, one of which is named like the other's key; uploads of one or both, and
  one with a group that does not say whose it is;
  two faults, one failure; both ages 0, so that every tick makes a row old.
* **Campaigns**: two campaigns over `{1, 2}` or `{1}`, a canary of one half and an immediate
  one, thresholds 40 and 0, two builds, a target by hand with the version of one and the build of
  the other. The state space is
  finite without further bounds.
* **OtaRollout**: one campaign, two devices, `MaxResets` 1 beside those a watchdog or an
  installation makes. **Releases**: one image uploaded by two requests (the case in which rows
  share a file), two anchor runs, `MaxEvents` 3 entries about firmware, `MaxActive` 2 things under
  way, `MaxFailures` 1. **SigningDesk**: two pairs of keys, two builds, each
  of any of the three sizes.
* **OtaDownload**: slots of 4 units written 2 at a time, an image that fills a block and one that
  does not, a build that hangs; build ids 0..7, of which 4..7 have the "top bit" (`Half` 4);
  manifests signed by a trusted and an untrusted key, malformed, and of raised security;
  `MaxUploads` 2, `MaxOrders` 2, `MaxFaults` 2.
* **Reach**: two devices, one group and campaign, no tags (which only the fleet report's query asks
  for, and no property), two builds that may be targets, of which one is build 0, `MaxTime` 1,
  `MaxRows` 2, one fault. **RateLimit**: `Rate` 1, `Cost` 2, `Burst` 10, `StaleAfter` 10 (the
  smallest time after which an idle bucket is full), two clients behind one address, as all are. **Provision**: two boards, two
  benches, `Span` 2 (2^24), two seconds, one mishap, four lines.

Symmetry is used where nothing but equality looks at a set, in `credentials`, `campaigns` and
`registry`; none of these has a liveness property.

## 5. Fairness and deadlock

* **SdkUpload** (stated in `MCUploadLink`): weak fairness of every step the device takes by
  itself: `upload_loop` runs for ever, a device that was reset boots. Strong fairness that the
  *i*-th chunk of a session is sent: the link may fail in every session, but not always at the
  same chunk for ever. This is an assumption about the link, and it is needed: each failed session
  starts over.
* **OtaRollout** (in `MCReleases`): weak fairness of upload, watchdog and check (the main loop);
  strong fairness of a completed download (`Swap`) and of the forwarding of a report that is made
  again and again. One device of the run posts through the gateway, so fairness to some held
  report is fairness to its own. Resets by chance and operators are not fair.
* **Releases** (in `MCReleases`): weak fairness of anchoring (the schedule runs it again and again
  and its requests time out after 30 s) and of the requests' own steps.
* **Ingest**: weak fairness of the request in hand, strong fairness of the minute's offline check
  running without a failed statement (it waits for the lock like everyone else). Nothing makes the
  webhook answer: its client has no timeout (`alerting.rs:92-93`) and the loop waits for it, so
  there is no fairness of sending an alert, and `SilentGoesOffline` has the hypothesis
  `WebhookAnswers`, that again and again no alert is outstanding. Without it the statement is
  false (`SilentGoesOfflineAnyway`, section 7).
* **OtaDownload**: weak fairness of the device's steps and of an upload's end; the faults are
  bounded, so the network works in the end.

Deadlock is checked where the system can always go on: `campaigns` and `uplink` (the scanner's
`BleDone` is its end when the gateway has stopped). It is switched off where a bound stops the
model in good order: `upload_link` (`MaxSent`), `credentials` (`MaxClock`, `MaxKeys`,
`MaxEntries`), `releases` (`MaxEvents`, `MaxBuilds`), `ingest` (`MaxFaults`), `device`
(`MaxFrames`, `MaxRecords`, `MaxDate`), `ota_download` (`MaxOrders`), `registry` (`MaxTime`,
`MaxSeconds`), and the three runs that show a violation.

## 6. The proofs

Everything below is checked by TLAPS to the last leaf, from the assumptions on the constants
stated in the modules (`SdkUploadAssumption`, `CredentialsAssumption`, ... - which TLC evaluates
in the runs) and nothing else, except where an assumption is named.

* **UploadLinkProofs**. Of `SdkUpload`: `TypeCorrect`, `NoNoiseSentCorrect`, `FaultKeptCorrect`,
  `BlockingErasesSentCorrect`, `ReasonKeptCorrect`, and `RecordsKeptCorrect`, which joins the two
  records, for any keys, capacities and numbers of
  writes and resets. The lemmas on the encoding (`EncodingCarries`, `MetricChunksCarry`) say that
  however metrics are cut into chunks, a session carries exactly what was pending. `BootInv`
  says that nothing runs before init and that init leaves a valid block, `NoiseInv` that noise is
  confined to a block whose magic is wrong, `FaultInv` that the fault record a session is about to
  erase is with the host or queued (`Queued`), and `EraseInv` - of the blocking upload - the same
  of every metric and reason between `Encode` and the last erasure: the step that `upload_async`
  breaks.
  Of `SerialLink`: `DeliversSentCorrect` and `NothingSkippedCorrect`, for all payloads, any noise,
  any split into reads and any number of faults. `Scan` is a recursive function, so first it is
  shown to exist (`ScanIs`: every call looks further on, so a solution can be built from the last place
  down, `DownTo`), and what it returns is found by the same descent (`ScanResult`, `ScanFinds`,
  `ScanKeeps`). `NoOverlap` is why no chunk is given up: a frame that checks out
  cannot reach into a chunk behind it, because a checksum is the last byte of its frame and
  stands nowhere else. The invariant is `LinkTyped`; `Checked` - the
  checksums in the stream are those of chunks sent, each once and in order (`Genuine`), after all
  that was handed on (`Handed`) - which survives every fault; and `Clean` - on an undisturbed connection
  the stream is whole chunks end to end (`Tiled`), so that nothing is held once all is read.
  Both theorems rest on the model's ideal checksum: it names what it covers, and noise does not
  make one. What a 16-bit CRC lets through by chance they do not speak of.
* **DeviceProofs**, of `Sessions`, `BootCause`, `DefmtSink` and `Wire`. `CallersServedCorrect`: `SessionInv` says that a
  session carries what its caller's answer will be about, and that the request it answers is
  still noted. `RebootToldCorrect`: `BootInv` relates the file, the boot the system is in and
  what the agent has in hand; that an uptime is never too long rests on the file being written
  with a time not after the present one. It needs that "no file" is not a boot
  record (`NoBoot \notin BootFile`).
  `RingReadsCorrect`: `RingInv` says that the frames lie one behind the other up to the end of the
  used part (`Chained`), byte for byte (`Holding`), and what was counted (`Counted`); the logger's
  part (`SinkTyped`) keeps position and pieces within the staging buffer. So the scan for a
  sentinel always finds one, at the end of a frame at the latest (`EndsAreCuts`), and nothing else
  when no other byte looks like it (`CutsAreEnds`); then cuts and lost frames are one to one, and
  else there are at least as many cuts (`LossesAre`). That the bytes of a write stand where they
  belong is arithmetic modulo the ring's size (`PlacesAre`). The reader is a recursion over places,
  solved from the last one down (`FramesOfIs`, `ReadsAll`). The payload's length is written in one
  byte, so the theorem rests on `MaxPayload` being smaller than the sentinel
  (`RingAssumption`; 127 and 255 in the code).
  `UndisturbedIsWholeCorrect`: the inductive invariant is `SinkInv` with `StagingInv`: what a call
  that found the logger free has staged, while no other context ran, is the front of its pieces so
  far, as much as the buffer takes (`StagesMore`; the pieces are put together by
  recursion, `FlatIs`). Only a flush ends a message, and what it stages is what the frame carries
  but for the part a frame cannot (`CroppedIs`). It needs a staging buffer of at least a byte
  (`SinkAssumption`; 128 in the code): with none a message would vanish without being counted.
  `RecordsSurviveCorrect` is about `Wire`, for any records of the sizes the SDK allows (`Record`),
  any links, and any cut of any body. Three theorems carry it. `RecordsRead`: the parser the
  server has for a type reads, field by field, what the encoder wrote, because each part lies where
  the parser looks (`Lies`); for metrics, by recursion on both sides, however the entries are cut
  into payloads (`Packs`). `BodyDecoded`: of chunks put end to end and cut anywhere, the server
  decodes those that came whole; a chunk says its own length, so nothing in a payload is taken for
  a chunk. `CompressUndone`: `Decompress` undoes `Compress`, for all bytes. Every codec is a
  recursion over places that only looks further on, so `Unrolls` gives it a solution, from the
  last place down, and what it returns is found by climbing from the first (`Climbs`). The
  inductive invariant `WireInv` is that each chunk of the body left as its link promises (`LeftAs`:
  sealed and opened again by its key, or packed, or as it was; `LeavesAre`), and that what the chunks
  give (`GivesAll`) is what is due for the records sent (`DueAll`); without the records' history the
  property could not be carried past a `Send`. The hypothesis `CrcTyped` is that `crc16_ccitt`
  returns a `u16`: the constant `Crc` is any other function of bytes, so the theorem does not
  depend on which. It stands in the theorem and not among the module's assumptions because it
  quantifies over all byte sequences, which TLC cannot enumerate; the `Crc` of the run meets it.
* **UplinkProofs**. Of the agent alone: `AgentTypeCorrect`, `SpoolInOrderCorrect`,
  `RebootOnceCorrect`, for every spool size and number of reports, boots and faults, and for every
  sequence of answers. `AgentInv` adds that file numbers are bounded, that the report in hand is
  the last one made and that a flush sends only files that are there (`HandInv`), and that
  `boot.json` runs ahead of every reboot found, so that the next one gets an unused number
  (`SequenceInv`). Of the composition: `UplinkImplementsAgent` - with the server or the gateway at
  the other end the agent takes no step it could not take alone: every step of `Uplink` is a step
  of `Agent` or leaves it as it is - and from it `UplinkSpoolInOrder` and `UplinkRebootOnce`.
  `OldestFirstHolds` needs only that a flush in hand is all that is left in the spool and a fresh
  report is sent from an empty one (`OrderInv`).
  `NothingLostHolds` is the refinement of `Delivery`, by `ChainInv`: the agent's invariant, that
  every copy in the gateway is of something sent (`Shape`), and that the report an open request is
  about is in the gateway, stored, refused or wrecked (`PostInv`). Each step of the gateway is
  shown to carry on what it holds (`Carries`), each of the agent to keep what it has (`Keeps`);
  together they are the flow of reports, sessions and reboots (`Flow`) that `Delivery` allows.
  `ReceivedAsOwnHolds` joins `SealedIsOwn`, which is inductive, and the claims of the scanner:
  `BleInv` says that a handler's peripheral is claimed in the handler's own scan, by nobody else.
* **CredentialsProofs**. Of `Credentials`: `AcceptedOnceCorrect`, `ReplayedWasAcceptedCorrect`,
  `RememberedIsKeptCorrect` and `WindowSoundCorrect`, for every window and number of epochs. None is inductive alone:
  `CredInv` adds that keys are issued once (`KeyInv`), what a request in hand has been told
  (`RequestInv`), the shape of the table (`TableInv`), and `OnceInv`: while an epoch keeps its
  window, its row has not forgotten an accepted counter: it is not above the highest one, and if it is within
  the window it is remembered there.
  `UsersServedCorrect` joins three parts of the union, each with an invariant of its own: a token
  whose key stays published finds it in the cache or fetches it (`CacheInv`); the role of every
  user is what accounts or realm say, or viewer where the server is not shown it, and every route
  answers whom all pages let in and nobody whom none does, but for the reads under /admin
  (`LoginRole`,
  `AnswerTold`, by cases over the kinds of routes; `AccessAssumption` asks that entries have at
  most three fields, the third a documented role, and that no two agree in name and password);
  and a code meets the verifier of its own sign-in (`SignInInv`).
  `ReadersToldCorrect` joins two: `SymbolsInv` follows which file was current when a fault was
  looked up, of which version, and whether the fault's own version had one; `LogInv` counts. The evidence of a device is right because, for
  every build and every key, the entries in the log and those still owed by requests under way are
  as many as the changes that were made and not lost (`NamingAppended`, `OwesMore`, `OwesLess`,
  `NamingLost` say how each step moves these cardinalities). It asks that clerks are finitely
  many and that the values for "no entry" and "unknown" are no entries or reports. `PartsStep` shows that
  a step of the union is a step of the part that runs.
* **IngestProofs**: `AnsweredIsStoredHolds`, `OneAlertHolds` and `GroupsCoverHolds`, for any
  devices, uploads (groups of nobody's in any place), signatures, ages and number of failures. `Sound` relates the two views of the
  database: outside a transaction they are the same, a request runs inside one, and while it does
  the connection only gains faults, so what a COMMIT publishes - its own or, after a dropped
  request, somebody else's - never takes an answered fault away. `Quiet` says that a device the
  check has durably marked is offline in both views. The counts need lemmas on what each
  statement does to the cardinalities (`CountFacts`, `StoredFacts`).
* **ReleasesProofs**. Of the log: `LogTrustedHolds`, for every length and any overlapping anchors.
  `LogInv` is that the stored chain verifies and that what a sink was sent is the head of a prefix;
  `ChainTells` is the lemma on the chain itself: two verified chains that end in one hash are one
  chain. Of the shelf: `ShelfToldHolds` and `ShelfTypedHolds`. `ShelfInv` adds to `LogInv` the
  types, that while nothing failed nothing is missing from the log and every image has its file
  (`Undamaged`), where every
  file is that a request or a row names (`Placed`), that every entry tells of something that
  happened (`EntriesTrue`) and that every row has its entry or a request that is yet to write it
  (`RowsTold`). Of the desk: `DeskToldCorrect`, for any key pairs,
  builds and sizes; `DeskInv` says that a key is in `checked` only while the manifest and the image are
  the ones that were found good by it, and that every manifest there is was signed
  (`ManifestSigned`). `ReleasesToldHolds` joins shelf and desk.
  Of the campaigns: `TypeCorrect`, `CompletedIsDoneCorrect`, `ActiveWithinThresholdCorrect`,
  `OverIsOverCorrect`, `WithdrawnForCauseCorrect` and `ProgressReportedCorrect`, for any devices, campaigns, plans and
  thresholds. `CampaignInv` adds to the types that a campaign that does not exist has no devices,
  that one never activated has only pending ones (`Lifecycle`: the threshold holds at the first
  activation because nobody can have failed), and that every target comes from a plan or an
  operator (`Offered`). `ProgressReportedCorrect` has no hypothesis: the code compares versions
  where the documents mean builds, so what a device is marked installed for is the confirmation of
  *some* target offered under the campaign's version. That it is the campaign's own build is not
  met (section 7).
  Of the rollout: `RolloutIsCampaigns` - with devices, gateway and messages added, the server's
  part still is `Campaigns`, so the above holds of it - and `DirectNoReinstallCorrect`, from
  `RolloutInv`: a direct device that could report its rollback has no target
  with the build it rolled back from, because the same report withdrew it.
* **OtaDownloadProofs**: `TrialKeptCorrect` - `OtaDownload` implements `TrialBoot` - and
  `RecoverableCorrect`, for any images, manifests, keys, floors, slot and block sizes and number of
  faults. The invariant says where every unit the verifier was fed is: in the slot up to
  `offset` (`Written`), and from there in the writer's buffer; so that what is marked for the swap
  is what was hashed (`Standing`), and it was vetted (`Vetted`).
* **RegistryProofs**. Of `Reach`: `EvidenceKeptCorrect`: what a campaign finds of a device is the
  earliest of the rows after its activation, and later rows are later. `ReportsAgreeCorrect`:
  `ReachInv` says that a device's row and the last row of its history tell the same or the second
  was lost (`Recorded`), and that history only has rows of this time and before (`Dated`). The summaries
  need that a finite set of times can be put in order (`SortExists`) and that the one in the
  middle has half of them on either side (`MedianMiddle`). It has no hypothesis on the
  target: build 0 is both how a device that never told its build is stored (`store.rs:1725`) and
  the build of an unsigned upload without a parsable `X-Build-Id` (`ota.rs:234-236`), so the theorem
  tells apart who is only presumed to be on such a target (`Presumed`). Of `Provision`:
  `ExportsAreImportedCorrect`; `ProvisionInv` follows each run of the tool between its look at
  the file and its write: at most one line is glued to another's. Of `RateLimit`: `LimitTypes` and `MeteredHolds`, the refinement of `Meter`, from
  `StaleAfter * Rate >= Burst`: a bucket that is dropped was full, so a new one in its place makes
  no difference. Filling for time that passes in parts fills as much as at once (`FillsOn`).

Proved only, and not among the runs' properties: the type invariants, `OverIsOver`,
`WindowSound`, `ReplayedWasAccepted`, `RolloutIsCampaigns`, and `FaultKept`, `ReasonKept`,
`ShelfTold`, `ShelfTyped` and `DeskTold` apart.

Only model-checked: every liveness property (`RecordsEventuallyUploaded`, `RolloutEnds`,
`EventuallyAnchored`, `SilentGoesOffline`, `UpdateArrives`) and whatever needs ENABLED, which are
out of this prover's reach. Every safety property a passing run checks is stated by a theorem.

## 7. Where the code and its documentation disagree

Three runs show a disagreement; `findings` in `PROJECT.json` quotes both sides:

1. `upload_async` erases what was recorded during its sends (`upload.rs:286`;
   `docs/guide/concepts.md:127`).
2. Faults are read with the ELF file registered last, not with the one that matches the device's
   version (`ingest.rs:901`; `docs/server/symbolication.md:8`); after a restart that is an
   arbitrary one of those found. `ReadersTold` therefore speaks of the faults whose version was
   uploaded last, or has no file at all (for which `symbolication.md:55` promises the newest).
3. The answer to `GET /auth/mode` puts the login page over a session that has begun in the
   meantime (`main.rs:262` of the dashboard; `auth/state.rs:25`).

Others were met while modelling. The models have the code as it is; where a module says "Not met"
the statement is there to be checked, though no run is spent on it.

**SDK**
* `TraceFrameIter` returns empty payloads, so trace frames are erased unsent (`trace.rs:204`,
  `encoder.rs:137`; `docs/guide/concepts.md:202`). A fault before `init` on a cold boot is wiped
  with the block that the boot declares invalid.
* "Prevent reentrant logging" (`defmt_sink.rs:32`): `acquire` only skips the reset of the position, so
  an interrupt that logs while a message is being staged writes into the same buffer, behind what
  is there, and the two come out as one frame or two that make no sense; between setting the flag and
  the reset, it stands behind the bytes of an older message (`ReentrantIsPrevented`).
* Compression is not undone by the server, which has no code for it ("Chunks are RLE-compressed
  transparently", `docs/guide/transports.md:110`; `Transparent` in `Wire`). A chunk of the largest
  size of which compression saves a single byte is one byte longer with the size it puts in
  front, cannot be sealed any more, and is dropped under a credential (`encryption.rs:245`).
* C bindings: a refused chunk is answered FERRITE_ERROR_T_ENCODING, where
  `docs/reference/c-api.md:293` has TRANSPORT (`RefusalTold`; the blocking upload takes it for a failed
  encoding); BUFFER_FULL (`c-api.md:12`) is never returned;
  the reason "set automatically by fault handler" (`c-api.md:101`) is replaced when firmware records
  the reset cause as it is told to (`CrashReasonTold`); the C example passes reset codes that are
  not those of the table.
* Embassy: triggers that arrive during an upload are drained when it ends, so what they were for
  waits for the interval (`upload_task.rs:26`; `docs/integrations/embassy.md:187`).

**Device side of OTA**
* Behind a gateway a device fetches a build again that it has rolled back, as it takes the
  gateway's answer for the server's (`NoReinstall`; `main.rs:285` of the example,
  `docs/guide/ota.md:144`).
* Build ids with the top bit set are offered as negative numbers, which the device does not read
  as its own build ("Returns `UpToDate`", `ferrite-sdk/src/ota.rs:121`; `StaysPut`), and
  `X-Build-Id` of one is stored as 0. `set_ota_target` without URL keeps the old one (COALESCE,
  `store.rs:1260`), so the manifest is of another build and the device never installs;
  `ferrite ota deploy` offers build 0 unless told otherwise. An image signed with a build id other
  than the one compiled in is installed again and again.

**Gateway**
* Data of two devices in one batch, in clear, is stored as one device's (`RightDevice`;
  `main.rs:168-174`). The buffer is drained only at start-up, where `docs/gateway/index.md:18` has
  "retried with exponential backoff", and draining ignores that a forwarded row could not be removed
  (`main.rs:220`); 401 and 429 drop a batch which the agent would keep; data that comes
  without its DeviceInfo is answered 200 and dropped (`ingest.rs:877`). A request of more than 8 KiB
  with its headers is cut, and the chunks that were whole are answered 200 (`http_ingest.rs:51-61`);
  the agent's fits unless it watches very many services.
* A false header makes the framer hold a whole chunk until more bytes come, and hang-up drops it
  (`framing.rs:104`, `usb_reader.rs:103`; `docs/gateway/index.md:97`). A new BLE scan begins with a
  fresh set of active devices while handlers of the old one live, so a peripheral can have two
  (`ble_scanner.rs:34-42`; `NeverTwice`).

**Agent**
* An I/O error in the flush loses the fresh batch; a reboot is not reported when the agent is
  killed in its first second (`boot.rs:139`). `uptime_before_reboot` can be short by more than the ten
  minutes of `docs/guide/linux-agent.md:121`, when the agent was restarted or a tick failed
  (`UptimeClose`).

**Server**
* Ingest: `begin_transaction` "Returns a guard that auto-rolls-back on drop" (`store.rs:616`); it
  returns nothing, and a request that is dropped, or whose COMMIT fails, leaves the transaction
  open for whoever is next (`OpenOnlyInside`). Chunks of a group without device are dropped and the
  request is answered 200 without errors, though "they will arrive again with DeviceInfo"
  (`ingest.rs:879`; `AnsweredIsAllStored`).
* Alerting: the offline check "runs every 60 seconds" (`docs/guide/architecture.md:189`), but each
  round waits for the webhook, whose client has no timeout (`alerting.rs:92-93`, `197`): one that
  never answers stops every later check (`SilentGoesOfflineAnyway`).
* Credentials: an epoch without window gets a new one (`credentials.rs:314`;
  `credentials.rs:11-12`; `OldEpochsShut`); a key revoked between the look-up and the counter still
  has its chunk stored; a chunk whose transaction failed is refused when it comes again.
* Campaigns: one with failed devices completes as "Every device in a campaign has installed"
  (`ingest.rs:1137`; `docs/guide/evidence-log.md:20`; `CompletedIsInstalled`); one report marks the
  device installed in every active campaign with the version, also when the artifact differs, where
  `evidence-log.md:23` has "confirms a campaign's target build" (`InstalledIsTargetBuild`);
  roll-back and automatic pause remove the targets of other campaigns (`store.rs:1617`); after an
  automatic pause and a new activation, downloading devices have no target (`campaigns.rs:219`,
  `282`); a device is installed before it has confirmed the build; a campaign whose last device
  fails within the threshold stays active for ever; `target_tags` is stored and ignored
  (`CHANGELOG.md:56`).
* Update reach: `patched_before_campaign` differs from `docs/guide/update-reach.md:15` for a device that
  reported in the second of the activation, or that was deleted and reports again; edits by an
  operator make a silent device reachable (`update-reach.md:16`). A device registered but not heard of
  is counted under build 0, so a campaign for an artifact of build 0 - an unsigned upload without a
  parsable `X-Build-Id` - takes it for one on target (`NobodyIsPresumed`).
* Firmware and evidence: deleting one of two rows of the same image removes the file of both, and
  a deletion between an upload's write and its insert leaves a row without file (`ota.rs:243`,
  `430`; `ListedCanBeFetched`); a dropped delete request leaves the deletion unrecorded (`ota.rs:435`;
  `evidence-log.md:12`; `DeletionsRecorded`); the handler's limit of 20 MB is never reached, as no
  `DefaultBodyLimit` is set for `/ota/firmware` (`ingest.rs:1661` sets one for `/ingest/elf`) and axum's
  own is 2 MB; entries written while an anchor is on its way stay without anchor until something
  follows (`evidence-log.md:97`); `list_evidence` reads entries and head under two locks. Entries of two
  rotations of a credential may come in the other order (`KeysInOrder`), a row that could not be read
  makes a report "first seen", and the credential entries are not in the table of
  `docs/guide/evidence-log.md`.
* Rate limit: "per IP address" (`rate_limit.rs:3`, `docs/server/configuration.md:57`), but the
  server is started without the peer's address, so all clients share one bucket (`PerAddress`);
  below one request in 30 seconds the cleanup forgets buckets that are not full.
* Retention: `RETENTION_DAYS` has no default in the code (`config.rs:266`), 90 in
  `docs/server/configuration.md:81` and in `config.rs:193`.
* Access: `GET /admin/backup` and `/admin/retention` are for admins in
  `docs/server/configuration.md:181-182`; the middleware asks for an admin only for changes under
  `/admin` (`AdminReadsAsTold`). A user whose token names no realm roles is a viewer when Keycloak's
  userinfo is what is read, so an auditor then reads the dashboard's data, against
  `docs/dashboard/sso.md:50` (`AuditorsReadTheLogOnly`). Provisioners cannot write groups, against
  `docs/dashboard/sso.md:49` (`ProvisionersWriteGroups`); `configuration.md:132-135` has it as the code,
  and `AnsweredAsTold` decides neither way.

**Tools and dashboard**
* Provisioning: two boards that one owner provisions in the same second, or 2^24 s apart, get the
  same key (`UniqueKeys`; `docs/DEVICE_REGISTRATION_SPEC.md:5`); the answers of the UART protocol
  differ from §1e there; when two runs find no CSV file, the one that comes second may write before the
  header and the import takes its first line for it (`export.rs:12`).
* `ferrite ota sign` and `verify` accept versions, and images of sizes, that the server refuses
  (`VerifiedIsTakenAlways`), and a keygen that finds a public file stops after writing the secret
  key (`PairsMatch`). `ferrite login` checks its credentials against `/health`, which asks for none.
* Sign-in: an answer of 401 does not clear the stored session; an error of `GET /auth/mode` falls
  back to the basic login; the dashboard appends `/authorize` and `/token` to the authority, which are
  not Keycloak's paths; an auditor's login ends in "Server error", as its page asks for data
  auditors are refused.

## 8. What is not modelled

`PROJECT.json` has the reason for each component. In short: thin adapters (transports, the BLE
peripheral of the nRF), read-only views (lists, statistics, Prometheus, most of the dashboard and of
`ferrite-ctl`), the broadcast of events, start-up and configuration, what the agent measures, and
deployment. Of what *is* modelled the following is abstracted: cryptography (a nonce is used by one
chunk; a hash is its input; a signature is its key), wall-clock time (the order of events is kept,
delays are counted where something depends on them), failures of the store in the campaign
handlers, how long a body a gateway reads (section 7), the sizes of uploads in `OtaDownload` (they are
in `SigningDesk`), what an answer of 2xx says of single chunks (the gateway and the agent do not read
it), and listing or filtering. What addr2line, Keycloak, the bootloader, SQLite's
transactions and the operators do is modelled from how the code uses them and marked external.

## 9. The plan

Done: the upload session and what is under it (trace ring, chunk format, wrappers) and above it
(C, RTIC, Embassy); the ways to the server (serial, Bluetooth, gateway, agent); the server's
ingest, credentials, symbols, campaigns, artifacts, evidence, reach, access and rate limit; the
download and trial of an update; provisioning, signing and signing in. Each safety property is
proved for all values of the constants.

What could follow, by what matters most:

1. Store failures in the campaign handlers, each of which is several statements outside a
   transaction.
2. `Ingest` under `Credentials`: the check of each chunk inside the transaction the request holds.
3. Several tabs and the expiry of tokens in `SignIn`; a longer history of builds in `Reach`.
