----------------------------- MODULE BootCause -----------------------------
(***************************************************************************)
(* Why a Linux device rebooted, and for how long it had been up: what the  *)
(* agent writes into boot.json while it runs, and what it makes of it and  *)
(* of the traces a crash leaves when it starts again (ferrite-agent/src/   *)
(* boot.rs, and run and tick in main.rs).  Agent has the way of the report *)
(* to the server; here it counts what the report says.                     *)
(*                                                                         *)
(* A tick of the clock is the interval between two reports.  The clock is  *)
(* taken not to run backwards, and a device to need more than a tick from  *)
(* going down to starting the agent, which waits for the network.          *)
(***************************************************************************)
EXTENDS Naturals

CONSTANTS
  Images,       \* build ids of the images a device may boot
  SaveEvery,    \* UPTIME_SAVE_INTERVAL_SECS, in ticks
  MaxDate,      \* bound on the clock
  MaxBootings,  \* bound on the boots of the device
  MaxFailed,    \* bound on ticks that fail
  NoBoot

(* The contents of boot.json. *)
BootFile == [id : 1 .. MaxBootings, image : Images, up : 0 .. MaxDate,
             at : 0 .. MaxDate, clean : BOOLEAN]

ASSUME BootCauseAssumption ==
  /\ SaveEvery \in Nat \ {0}
  /\ MaxDate \in Nat /\ MaxBootings \in Nat \ {0} /\ MaxFailed \in Nat
  /\ NoBoot \notin BootFile

VARIABLES
  date,      \* the clock
  kernel,    \* the running system
  dumps,     \* times of the records in pstore, archived or not
  bootFile,  \* boot.json, or NoBoot
  daemon,    \* the agent: whether it runs, and its uptime_saved
  told,      \* the reboot the agent found last, or NoBoot
  failed,    \* ticks that failed
  last       \* history: how the boot before this one ended, and whether the
             \* agent ran in it, without a pause until the end

bootVars == <<date, kernel, dumps, bootFile, daemon, told, failed, last>>

Causes == {"panic", "watchdog", "orderly", "cut"}

(* steady: the agent has run since it started first in this boot.          *)
Kernel == [id : 1 .. MaxBootings, image : Images, up : 0 .. MaxDate,
           watchdog : BOOLEAN, stopping : BOOLEAN, steady : BOOLEAN]
Reasons == {"HardFault", "WatchdogTimeout", "FirmwareUpdate", "SoftwareReset", "Unknown"}

BootTypeOK ==
  /\ date \in 0 .. MaxDate
  /\ kernel \in Kernel
  /\ dumps \subseteq 0 .. MaxDate
  /\ bootFile \in BootFile \cup {NoBoot}
  /\ daemon \in [on : BOOLEAN, savedUp : 0 .. MaxDate]
  /\ told \in [id : 1 .. MaxBootings, reason : Reasons, up : 0 .. MaxDate] \cup {NoBoot}
  /\ failed \in 0 .. MaxFailed
  /\ last \in [cause : Causes, image : Images, up : 0 .. MaxDate, seen : BOOLEAN,
               ran : BOOLEAN, steady : BOOLEAN] \cup {NoBoot}

BootInit ==
  /\ date = 0
  /\ kernel \in [id : {1}, image : Images, up : {0}, watchdog : {FALSE},
                 stopping : {FALSE}, steady : {TRUE}]
  /\ dumps = {}
  /\ bootFile = NoBoot
  /\ daemon = [on |-> FALSE, savedUp |-> 0]
  /\ told = NoBoot
  /\ failed = 0
  /\ last = NoBoot

-----------------------------------------------------------------------------
(* boot.json *)

(* Mutation of Saved: the time of the save is left out. *)
SavedUndated(file) == file

Saved(file) == [file EXCEPT !.at = date]

(* What the traces say, in the order in which they count.                  *)
Classify(since, watchdog, changed, clean) ==
  IF \E t \in dumps : t >= since THEN "HardFault"
  ELSE IF watchdog THEN "WatchdogTimeout"
  ELSE IF changed THEN "FirmwareUpdate"
  ELSE IF clean THEN "SoftwareReset"
  ELSE "Unknown"

-----------------------------------------------------------------------------
(* The agent *)

(* BootTracker::start, in the same boot, in another one, or for the first  *)
(* time.                                                                   *)
StartAgain ==
  /\ bootFile # NoBoot /\ bootFile.id = kernel.id
  /\ bootFile' = Saved([bootFile EXCEPT !.image = kernel.image, !.clean = FALSE])
  /\ UNCHANGED told

Fresh == [id |-> kernel.id, image |-> kernel.image, up |-> kernel.up, at |-> 0,
          clean |-> FALSE]

StartAfterReboot ==
  /\ bootFile # NoBoot /\ bootFile.id # kernel.id
  /\ bootFile' = Saved(Fresh)
  /\ told' = [id |-> kernel.id, up |-> bootFile.up,
              reason |-> Classify(bootFile.at, kernel.watchdog,
                                  bootFile.image # kernel.image, bootFile.clean)]

StartFirst ==
  /\ bootFile = NoBoot
  /\ bootFile' = Saved(Fresh)
  /\ UNCHANGED told

Start ==
  /\ ~daemon.on /\ ~kernel.stopping /\ kernel.up > 0
  /\ StartAgain \/ StartAfterReboot \/ StartFirst
  /\ daemon' = [on |-> TRUE, savedUp |-> kernel.up]
  /\ UNCHANGED <<date, kernel, dumps, failed, last>>

Paused == [kernel EXCEPT !.steady = FALSE]

Kill ==
  /\ daemon.on
  /\ daemon' = [daemon EXCEPT !.on = FALSE]
  /\ kernel' = Paused
  /\ UNCHANGED <<date, dumps, bootFile, told, failed, last>>

(* SIGTERM ends run, which asks systemd whether the system is stopping.    *)
Shut(file, stopping) == Saved([file EXCEPT !.up = kernel.up, !.clean = stopping])

StopService ==
  /\ daemon.on
  /\ bootFile' = Shut(bootFile, FALSE)
  /\ daemon' = [daemon EXCEPT !.on = FALSE]
  /\ kernel' = Paused
  /\ UNCHANGED <<date, dumps, told, failed, last>>

(* The uptime is saved when its last save is long enough ago.             *)
SaveDue(up) == up - daemon.savedUp >= SaveEvery

(* Time passes; the agent's report is made, and the uptime saved when it   *)
(* is due.                                                                 *)
PassTime ==
  /\ date < MaxDate
  /\ date' = date + 1
  /\ kernel' = [kernel EXCEPT !.up = @ + 1]
  /\ IF daemon.on /\ SaveDue(kernel.up + 1)
     THEN /\ bootFile' = [bootFile EXCEPT !.up = kernel.up + 1, !.at = date + 1]
          /\ daemon' = [daemon EXCEPT !.savedUp = kernel.up + 1]
     ELSE UNCHANGED <<bootFile, daemon>>
  /\ UNCHANGED <<dumps, told, failed, last>>

(* A file of the spool cannot be written: tick returns before it saves.    *)
FailTick ==
  /\ daemon.on /\ failed < MaxFailed /\ date < MaxDate
  /\ date' = date + 1
  /\ kernel' = [Paused EXCEPT !.up = @ + 1]
  /\ failed' = failed + 1
  /\ UNCHANGED <<dumps, bootFile, daemon, told, last>>

-----------------------------------------------------------------------------
(* The system *)

(* systemd stops everything; the agent saves that it did, or is killed     *)
(* before it can.                                                          *)
BeginShutdown ==
  /\ ~kernel.stopping
  /\ kernel' = [kernel EXCEPT !.stopping = TRUE]
  /\ bootFile' \in {bootFile} \cup (IF daemon.on THEN {Shut(bootFile, TRUE)} ELSE {})
  /\ daemon' = [daemon EXCEPT !.on = FALSE]
  /\ UNCHANGED <<date, dumps, told, failed, last>>

(* The system goes down and another boot begins, perhaps of another image. *)
(* A panic leaves a record of its time; systemd-pstore may archive it when *)
(* the next boot begins.                                                   *)
GoDown(cause) ==
  /\ kernel.id < MaxBootings /\ date < MaxDate
  /\ cause = "orderly" => kernel.stopping
  /\ date' = date + 1
  /\ dumps' \in IF cause = "panic" THEN {dumps \cup {date}, dumps \cup {date + 1}} ELSE {dumps}
  /\ \E image \in Images :
       kernel' = [id |-> kernel.id + 1, image |-> image, up |-> 0,
                  watchdog |-> cause = "watchdog", stopping |-> FALSE, steady |-> TRUE]
  /\ last' = [cause |-> cause, image |-> kernel.image, up |-> kernel.up,
              seen   |-> bootFile # NoBoot /\ bootFile.id = kernel.id /\ bootFile.clean,
              ran    |-> bootFile # NoBoot /\ bootFile.id = kernel.id,
              steady |-> kernel.steady /\ daemon.on]
  /\ daemon' = [daemon EXCEPT !.on = FALSE]
  /\ UNCHANGED <<bootFile, told, failed>>

BootNext ==
  \/ Start \/ Kill \/ StopService
  \/ PassTime \/ FailTick
  \/ BeginShutdown
  \/ \E cause \in Causes : GoDown(cause)

BootSpec == BootInit /\ [][BootNext]_bootVars

-----------------------------------------------------------------------------
(* The agent has just told why the last boot ended, in which it had run.   *)
ToldOfLast == told # NoBoot /\ told.id = kernel.id /\ last.ran

(* The reason is that of the last boot, and not of one before it: a panic  *)
(* is told once however long its record stays, and an update or a shutdown *)
(* only if nothing worse came in between (linux-agent.md:111).             *)
ReasonTold ==
  ToldOfLast =>
    told.reason =
      IF last.cause = "panic" THEN "HardFault"
      ELSE IF last.cause = "watchdog" THEN "WatchdogTimeout"
      ELSE IF last.image # kernel.image THEN "FirmwareUpdate"
      ELSE IF last.seen THEN "SoftwareReset"
      ELSE "Unknown"

(* The uptime is never too long, and less than SaveEvery too short if the  *)
(* agent ran to the end.                                                   *)
UptimeTold ==
  ToldOfLast =>
    /\ told.up <= last.up
    /\ last.steady => last.up - told.up < SaveEvery

(* Together: what a report says of the last boot is true of it.            *)
RebootTold == ReasonTold /\ UptimeTold

(* Not met: "uptime_before_reboot can be up to 10 minutes short after a    *)
(* power cut" (linux-agent.md:121): an agent that is started again counts  *)
(* the minutes until its next save from its start, and a tick that fails   *)
(* does not save.                                                          *)
UptimeClose == ToldOfLast => last.up - told.up < SaveEvery
=============================================================================
