----------------------------- MODULE IngestProofs -----------------------------
(***************************************************************************)
(* Proofs for the server's connection and tables, for every set of         *)
(* devices, uploads and signatures, every threshold and any number of      *)
(* failures.                                                               *)
(*                                                                         *)
(* Sound says what the two views have in common: outside a transaction     *)
(* they are the same, a request runs inside one, and during a request the  *)
(* connection only gains faults, so what its COMMIT publishes is never     *)
(* less than what the disk had.                                            *)
(***************************************************************************)
EXTENDS Ingest, TLAPS, FiniteSetTheorems, SequenceTheorems

Row == [status : Status, seen : Nat, keyed : BOOLEAN]
Entry == [of : Ids, sig : Signatures \cup {None}, age : Nat]

(* A weaker IsDatabase: ages and counts are any numbers, and there are     *)
(* finitely many faults.                                                   *)
Tables(d) ==
  /\ DOMAIN d = {"devices", "faults", "groups"}
  /\ DOMAIN d.devices \subseteq Ids
  /\ \A i \in DOMAIN d.devices : d.devices[i] \in Row
  /\ IsFiniteSet(DOMAIN d.faults)
  /\ \A f \in DOMAIN d.faults : d.faults[f] \in Entry
  /\ d.groups \in [Signatures -> [count : Nat, devices : Nat]]

(* What a statement that writes devices only may do. *)
OnlyDevices(d, e) == e.faults = d.faults /\ e.groups = d.groups

(* What the insertion of fault f does. *)
Inserts(d, e, f, i, s) ==
  /\ e.devices = d.devices /\ e.groups = d.groups
  /\ DOMAIN e.faults = DOMAIN d.faults \cup {f}
  /\ e.faults[f].of = i /\ e.faults[f].sig = s
  /\ \A g \in DOMAIN d.faults : g # f => e.faults[g] = d.faults[g]

-----------------------------------------------------------------------------
(* What the statements do to the tables *)

LEMMA TouchFacts ==
  ASSUME NEW d, Tables(d), NEW i \in Ids
  PROVE  /\ Tables(Touch(d, i)) /\ OnlyDevices(d, Touch(d, i))
         /\ \A j \in DOMAIN Touch(d, i).devices :
              Touch(d, i).devices[j].status = "online" =>
                j \in DOMAIN d.devices /\ d.devices[j].status = "online"
BY DEF Touch, Put, Tables, OnlyDevices, Row, Status

LEMMA RegisterFacts ==
  ASSUME NEW d, Tables(d), NEW S \in SUBSET Ids
  PROVE  /\ Tables(Register(d, S)) /\ OnlyDevices(d, Register(d, S))
         /\ \A j \in DOMAIN Register(d, S).devices :
              Register(d, S).devices[j].status = "online" =>
                j \in DOMAIN d.devices /\ d.devices[j].status = "online"
BY DEF Register, Tables, OnlyDevices, Row, Status

LEMMA UpdateFacts ==
  ASSUME NEW d, Tables(d), NEW i \in DOMAIN d.devices
  PROVE  /\ Tables(Update(d, i)) /\ OnlyDevices(d, Update(d, i))
         /\ \A j \in DOMAIN Update(d, i).devices :
              Update(d, i).devices[j].status = "online" =>
                j \in DOMAIN d.devices /\ d.devices[j].status = "online"
BY DEF Update, Tables, OnlyDevices, Row, Status

LEMMA SetStatusFacts ==
  ASSUME NEW d, Tables(d), NEW S
  PROVE  LET e == SetStatus(d, S, "offline")
         IN  /\ Tables(e) /\ OnlyDevices(d, e)
             /\ \A j \in DOMAIN e.devices :
                  e.devices[j].status = "online" =>
                    /\ j \in DOMAIN d.devices /\ j \notin S
                    /\ d.devices[j].status = "online"
BY DEF SetStatus, Tables, OnlyDevices, Row, Status

LEMMA HeartbeatFacts ==
  ASSUME NEW d, Tables(d), NEW i
  PROVE  LET e == Heartbeat(d, i)
         IN  /\ Tables(e) /\ OnlyDevices(d, e)
             /\ \A j \in DOMAIN e.devices :
                  e.devices[j].status = "online" =>
                    \/ j \in Beating(d, i)
                    \/ j \in DOMAIN d.devices /\ d.devices[j].status = "online"
<1> HIDE DEF Beating
<1>. QED
  BY DEF Heartbeat, Tables, OnlyDevices, Row, Status

LEMMA KeepFaultsFacts ==
  ASSUME NEW d, Tables(d), NEW F \in SUBSET DOMAIN d.faults
  PROVE  LET e == KeepFaults(d, F)
         IN  /\ Tables(e) /\ DOMAIN e.faults = F
             /\ \A f \in F : e.faults[f] = d.faults[f]
             /\ e.groups = d.groups /\ e.devices = d.devices
BY FS_Subset DEF KeepFaults, Tables

LEMMA DeleteFacts ==
  ASSUME NEW d, Tables(d), NEW i
  PROVE  LET e == Delete(d, i)
         IN  /\ Tables(e)
             /\ DOMAIN e.faults = {f \in DOMAIN d.faults : d.faults[f].of # i}
             /\ \A f \in DOMAIN e.faults : e.faults[f] = d.faults[f]
             /\ e.groups = d.groups
             /\ \A j \in DOMAIN e.devices :
                  e.devices[j].status = "online" =>
                    j \in DOMAIN d.devices /\ d.devices[j].status = "online"
<1> DEFINE m == [d EXCEPT !.devices = [j \in DOMAIN @ \ {i} |-> @[j]]]
           F == {f \in DOMAIN d.faults : d.faults[f].of # i}
<1>1. /\ Tables(m) /\ m.faults = d.faults /\ m.groups = d.groups
      /\ DOMAIN m.devices = DOMAIN d.devices \ {i}
      /\ \A j \in DOMAIN m.devices : m.devices[j] = d.devices[j]
  BY DEF Tables
<1>2. Delete(d, i) = KeepFaults(m, F)
  BY DEF Delete
<1> HIDE DEF m
<1>. QED
  BY <1>1, <1>2, KeepFaultsFacts

LEMMA AgeFacts ==
  ASSUME NEW d, Tables(d)
  PROVE  LET e == Age(d)
         IN  /\ Tables(e) /\ e.groups = d.groups
             /\ DOMAIN e.faults = DOMAIN d.faults
             /\ \A f \in DOMAIN d.faults : /\ e.faults[f].of = d.faults[f].of
                                           /\ e.faults[f].sig = d.faults[f].sig
             /\ \A j \in DOMAIN e.devices :
                  /\ j \in DOMAIN d.devices
                  /\ e.devices[j].status = d.devices[j].status
<1>1. \A n \in Nat : \A m : Older(n, m) \in Nat
  BY DEF Older
<1>2. \A row \in Row : /\ OlderDevice(row) \in Row
                       /\ OlderDevice(row).status = row.status
  BY <1>1 DEF OlderDevice, Row
<1>3. \A row \in Entry : /\ OlderFault(row) \in Entry
                         /\ OlderFault(row).of = row.of
                         /\ OlderFault(row).sig = row.sig
  BY <1>1 DEF OlderFault, Entry
<1> HIDE DEF Row, Entry
<1>. QED
  BY <1>2, <1>3 DEF Age, Tables

LEMMA InsertFacts ==
  ASSUME NEW d, Tables(d), NEW f, NEW i \in Ids,
         NEW s, s \in Signatures \/ s = None
  PROVE  /\ Tables(InsertFault(d, f, i, s))
         /\ Inserts(d, InsertFault(d, f, i, s), f, i, s)
BY FS_AddElement DEF InsertFault, Tables, Entry, Inserts

LEMMA GroupFacts ==
  ASSUME NEW d, Tables(d), NEW s \in Signatures
  PROVE  LET e == Group1(d, s)
         IN  /\ Tables(e)
             /\ e.devices = d.devices /\ e.faults = d.faults
             /\ e.groups[s].count = d.groups[s].count + 1
             /\ e.groups[s].devices = IF d.groups[s].count = 0 THEN 1
                                       ELSE d.groups[s].devices
             /\ \A t \in Signatures : t # s => e.groups[t] = d.groups[t]
BY DEF Group1, Tables

LEMMA AffectedFinite ==
  ASSUME NEW d, Tables(d), NEW s
  PROVE  /\ {d.faults[f].of : f \in FaultsOf(d, s)} \subseteq Ids
         /\ IsFiniteSet({d.faults[f].of : f \in FaultsOf(d, s)})
         /\ Affected(d, s) \in Nat
<1>1. {d.faults[f].of : f \in FaultsOf(d, s)} \subseteq Ids
  BY DEF Tables, FaultsOf, Entry
<1>. QED
  BY <1>1, FleetAssumption, FS_Subset, FS_CardinalityType DEF Affected

LEMMA CountFacts ==
  ASSUME NEW d, Tables(d), NEW s \in Signatures
  PROVE  LET e == CountDevices(d, s)
         IN  /\ Tables(e)
             /\ e.devices = d.devices /\ e.faults = d.faults
             /\ e.groups[s].count = d.groups[s].count
             /\ e.groups[s].devices = Affected(d, s)
             /\ \A t \in Signatures : t # s => e.groups[t] = d.groups[t]
<1>1. Affected(d, s) \in Nat
  BY AffectedFinite
<1> HIDE DEF Affected
<1>. QED
  BY <1>1 DEF CountDevices, Tables

(* What storing fault f leaves behind. *)
Stores(d, e, f, inserted) ==
  /\ Tables(e) /\ e.devices = d.devices
  /\ DOMAIN e.faults = IF inserted THEN DOMAIN d.faults \cup {f}
                                   ELSE DOMAIN d.faults

LEMMA StoredFacts ==
  ASSUME NEW d, Tables(d), NEW f, NEW i \in Ids, NEW s \in Signatures,
         NEW grouped \in BOOLEAN, NEW inserted \in BOOLEAN,
         NEW counted \in BOOLEAN
  PROVE  Stores(d, Stored(d, f, i, s, grouped, inserted, counted), f, inserted)
<1>1. PICK d1 : /\ d1 = IF grouped THEN Group1(d, s) ELSE d
                /\ Tables(d1) /\ d1.devices = d.devices
                /\ d1.faults = d.faults
  BY GroupFacts
<1>2. PICK t : /\ t = IF grouped THEN s ELSE None
               /\ t \in Signatures \/ t = None
  OBVIOUS
<1>3. Tables(d1) /\ (t \in Signatures \/ t = None)
  BY <1>1, <1>2
<1>4. PICK d2 : /\ d2 = IF inserted THEN InsertFault(d1, f, i, t) ELSE d1
                /\ Tables(d2)
                /\ inserted => Inserts(d1, d2, f, i, t)
  BY <1>3, InsertFacts
<1>5. /\ d2.devices = d.devices
      /\ DOMAIN d2.faults = IF inserted THEN DOMAIN d.faults \cup {f}
                                        ELSE DOMAIN d.faults
  BY <1>1, <1>4 DEF Inserts
<1>6. Stored(d, f, i, s, grouped, inserted, counted) =
        IF grouped /\ inserted /\ counted THEN CountDevices(d2, s) ELSE d2
  BY <1>1, <1>2, <1>4 DEF Stored
<1>. QED
  BY <1>4, <1>5, <1>6, CountFacts DEF Stores

-----------------------------------------------------------------------------
(* The invariant *)

JobOK == /\ DOMAIN job = {"running", "left", "new", "dropped", "errors"}
         /\ job.left \in Seq(Step)

(* During a request the connection has what the disk has, and more. *)
Grows ==
  job.running => /\ open
                 /\ DOMAIN disk.faults \subseteq DOMAIN db.faults
                 /\ job.new \subseteq DOMAIN db.faults

(* Whom the check marked is not online, on the connection or on disk. *)
Online(d, i) == i \in DOMAIN d.devices /\ d.devices[i].status = "online"
Quiet == \A i \in silent : ~Online(db, i) /\ ~Online(disk, i)

Sound ==
  /\ Tables(db) /\ Tables(disk)
  /\ open \in BOOLEAN /\ JobOK /\ reported \in Nat
  /\ ~open => disk = db
  /\ Grows
  /\ AnsweredIsStored

Kept == Sound /\ Quiet

THEOREM KeptInit == Init => Kept
<1> SUFFICES ASSUME Init PROVE Kept
  OBVIOUS
<1>1. Tables(Empty)
  BY FS_EmptySet DEF Empty, Tables
<1>2. JobOK
  BY DEF Init, NoJob, JobOK
<1>. QED
  BY <1>1, <1>2 DEF Init, Kept, Sound, Quiet, Grows, NoJob, AnsweredIsStored,
     Online

(* A handler that holds the mutex outside a request and writes devices.    *)
LEMMA WriteKeeps ==
  ASSUME Sound, Free, NEW e, Write(e), Tables(e), OnlyDevices(db, e),
         UNCHANGED <<open, job, reported, owed>>
  PROVE  Sound'
<1>1. Tables(db') /\ Tables(disk')
  BY DEF Write, Sound
<1>2. AnsweredIsStored'
  BY DEF Write, Sound, OnlyDevices, AnsweredIsStored
<1>. QED
  BY <1>1, <1>2 DEF Write, Sound, Grows, JobOK, Free

LEMMA BeginKeeps ==
  ASSUME Kept, NEW upload \in Uploads, Begin(upload)
  PROVE  Kept'
<1>1. upload \in Seq(Step)
  BY IngestAssumption
<1>2. JobOK' /\ job'.running /\ job'.new = {} /\ open'
  BY <1>1 DEF Begin, JobOK, NoJob
<1>. QED
  BY <1>2 DEF Begin, Kept, Sound, Grows, Quiet, Online, AnsweredIsStored,
     tables, history

(* What the job in hand is about, and what is left of it. *)
LEMMA StepFacts ==
  ASSUME Sound, NEW what, Next1(what), NEW new, NEW errors, Done(new, errors)
  PROVE  /\ Head(job.left).of \in Ids
         /\ JobOK' /\ job'.running = job.running
         /\ job'.new = job.new \cup new
<1>1. job.left \in Seq(Step) /\ job.left # <<>>
  BY DEF Sound, JobOK, Next1
<1>2. Head(job.left) \in Step /\ Tail(job.left) \in Seq(Step)
  BY <1>1
<1>3. Head(job.left).of \in Ids
  BY <1>2 DEF Step
<1> HIDE DEF Step
<1>4. JobOK' /\ job'.running = job.running
  BY <1>2 DEF Sound, JobOK, Done
<1>5. job'.new = job.new \cup new
  BY DEF Sound, JobOK, Done
<1>. QED
  BY <1>3, <1>4, <1>5

(* What there is when no request runs. *)
LEMMA NoJobFacts == job' = NoJob => JobOK' /\ ~job'.running
<1>1. <<>> \in Seq(Step)
  OBVIOUS
<1>. QED
  BY <1>1 DEF NoJob, JobOK

LEMMA TouchKeeps == Kept /\ TouchDevice => Kept'
<1> SUFFICES ASSUME Kept, TouchDevice PROVE Kept'
  OBVIOUS
<1> DEFINE i == Head(job.left).of
<1>1. i \in Ids /\ JobOK' /\ job'.running = job.running /\ job'.new = job.new
  <2>1. Sound /\ Next1("touch") /\ Done({}, FALSE)
    BY DEF Kept, TouchDevice
  <2>2. i \in Ids /\ JobOK' /\ job'.running = job.running
        /\ job'.new = job.new \cup {}
    BY <2>1, StepFacts, Zenon
  <2>. QED
    BY <2>2
<1>2. /\ Tables(db') /\ OnlyDevices(db, db')
      /\ \A j : Online(db', j) => Online(db, j)
  BY <1>1, TouchFacts DEF TouchDevice, Kept, Sound, Online
<1>. QED
  BY <1>1, <1>2 DEF TouchDevice, Next1, Kept, Sound, Grows, Quiet,
     OnlyDevices, AnsweredIsStored, history

(* What is left of the job after its first n steps.                        *)
LEMMA RestFacts ==
  ASSUME Sound, NEW n \in DOMAIN job.left
  PROVE  SubSeq(job.left, n + 1, Len(job.left)) \in Seq(Step)
<1>1. job.left \in Seq(Step) /\ n \in 1 .. Len(job.left)
  BY DEF Sound, JobOK
<1>. QED
  BY <1>1, SubSeqProperties

LEMMA TouchFailsKeeps == Kept /\ TouchFails => Kept'
<1> SUFFICES ASSUME Kept, TouchFails PROVE Kept'
  OBVIOUS
<1>1. PICK n \in DOMAIN job.left :
        job' = [job EXCEPT !.left = SubSeq(@, n + 1, Len(@)), !.errors = TRUE]
  BY DEF TouchFails
<1>2. SubSeq(job.left, n + 1, Len(job.left)) \in Seq(Step)
  BY RestFacts DEF Kept
<1>3. JobOK' /\ job'.running = job.running /\ job'.new = job.new
  BY <1>1, <1>2 DEF Kept, Sound, JobOK
<1>. QED
  BY <1>3 DEF TouchFails, Kept, Sound, Grows, Quiet, Online,
     AnsweredIsStored, tables, history

LEMMA DropKeeps == Kept /\ DropNameless => Kept'
<1> SUFFICES ASSUME Kept, DropNameless PROVE Kept'
  OBVIOUS
<1>1. PICK n \in DOMAIN job.left :
        job' = [job EXCEPT !.left = SubSeq(@, n + 1, Len(@)), !.dropped = TRUE]
  BY DEF DropNameless
<1>2. SubSeq(job.left, n + 1, Len(job.left)) \in Seq(Step)
  BY RestFacts DEF Kept
<1>3. JobOK' /\ job'.running = job.running /\ job'.new = job.new
  BY <1>1, <1>2 DEF Kept, Sound, JobOK
<1>. QED
  BY <1>3 DEF DropNameless, Kept, Sound, Grows, Quiet, Online,
     AnsweredIsStored, tables, history

LEMMA BeatKeeps == Kept /\ Beat => Kept'
<1> SUFFICES ASSUME Kept, Beat PROVE Kept'
  OBVIOUS
<1> DEFINE i == Head(job.left).of
<1>1. JobOK' /\ job'.running = job.running /\ job'.new = job.new
  <2>1. Sound /\ Next1("beat") /\ Done({}, FALSE)
    BY DEF Kept, Beat
  <2>2. i \in Ids /\ JobOK' /\ job'.running = job.running
        /\ job'.new = job.new \cup {}
    BY <2>1, StepFacts, Zenon
  <2>. QED
    BY <2>2
<1>2. /\ Tables(db') /\ OnlyDevices(db, db')
      /\ \A j : Online(db', j) => Online(db, j) \/ j \in Beating(db, i)
  BY HeartbeatFacts DEF Beat, Kept, Sound, Online
<1>3. silent' = silent \ Beating(db, i)
  BY DEF Beat
<1>. HIDE DEF i
<1>. QED
  BY <1>1, <1>2, <1>3 DEF Beat, Next1, Kept, Sound, Grows, Quiet,
     OnlyDevices, AnsweredIsStored

LEMMA FaultKeeps ==
  ASSUME Kept, NEW s \in Signatures, NEW g \in BOOLEAN, NEW n \in BOOLEAN,
         NEW c \in BOOLEAN, FaultStored(s, g, n, c)
  PROVE  Kept'
<1> DEFINE f == reported + 1
           i == Head(job.left).of
<1>1. f \in Nat
  BY DEF Kept, Sound
<1>2. i \in Ids /\ JobOK' /\ job'.running = job.running
      /\ job'.new = job.new \cup (IF n THEN {f} ELSE {})
  <2>1. Sound /\ Next1("fault") /\ Done(IF n THEN {f} ELSE {}, ~(g /\ n /\ c))
    BY DEF Kept, FaultStored
  <2>. QED
    BY <2>1, StepFacts, Zenon
<1>3. Stores(db, db', f, n)
  <2>1. Tables(db) /\ db' = Stored(db, f, i, s, g, n, c)
    BY DEF FaultStored, Kept, Sound
  <2> HIDE DEF f, i
  <2>. QED
    BY <1>2, <2>1, StoredFacts, ZenonT(60)
<1>4. /\ reported' = f
      /\ UNCHANGED <<disk, open, owed, silent>>
  BY DEF FaultStored
<1>5. reported' \in Nat
  BY <1>1, <1>4
<1>6. Grows' /\ (open' \/ disk' = db')
  BY <1>2, <1>3, <1>4 DEF FaultStored, Next1, Kept, Sound, Grows, Stores
<1> HIDE DEF f, i
<1>. QED
  BY <1>2, <1>3, <1>4, <1>5, <1>6 DEF Kept, Sound, Quiet, Online,
     AnsweredIsStored, Stores

LEMMA CommitKeeps == Kept /\ Commit => Kept'
BY NoJobFacts DEF Commit, Finished, Kept, Sound, Grows, Quiet, Online,
   AnsweredIsStored

LEMMA CommitFailsKeeps ==
  ASSUME Kept, NEW r \in BOOLEAN, CommitFails(r)
  PROVE  Kept'
BY NoJobFacts DEF CommitFails, Finished, Kept, Sound, Grows, Quiet, Online,
   AnsweredIsStored, history

LEMMA ClientGoneKeeps == Kept /\ ClientGone => Kept'
BY NoJobFacts DEF ClientGone, Next1, Kept, Sound, Grows, Quiet, Online,
   AnsweredIsStored, tables, history

LEMMA RegisterKeeps == \A i \in Ids : Kept /\ RegisterDevice(i) => Kept'
<1> SUFFICES ASSUME NEW i \in Ids, Kept, RegisterDevice(i) PROVE Kept'
  OBVIOUS
<1> DEFINE e == Register(db, {i})
<1>1. /\ Tables(e) /\ OnlyDevices(db, e)
      /\ \A j : Online(e, j) => Online(db, j)
  BY RegisterFacts DEF Kept, Sound, Online
<1>2. /\ Free /\ Write(e)
      /\ UNCHANGED <<open, job, reported, owed, silent>>
  BY DEF RegisterDevice, history
<1> HIDE DEF e
<1>3. Sound'
  BY <1>1, <1>2, WriteKeeps DEF Kept
<1>4. Quiet'
  BY <1>1, <1>2 DEF Kept, Quiet, Write
<1>. QED
  BY <1>3, <1>4 DEF Kept

LEMMA RegisterBulkKeeps ==
  \A S \in SUBSET Ids, c \in BOOLEAN : Kept /\ RegisterDevices(S, c) => Kept'
<1> SUFFICES ASSUME NEW S \in SUBSET Ids, NEW c \in BOOLEAN,
                    Kept, RegisterDevices(S, c)
             PROVE  Kept'
  OBVIOUS
<1>1. /\ Tables(db') /\ OnlyDevices(db, db')
      /\ \A j : Online(db', j) => Online(db, j)
  <2>1. Tables(db) /\ db' = Register(db, S)
    BY DEF Kept, Sound, RegisterDevices
  <2>. QED
    BY <2>1, RegisterFacts DEF Online
<1>2. /\ disk = db /\ ~job.running
      /\ UNCHANGED <<job, reported, owed, silent>>
      /\ \/ disk' = db' /\ open' = FALSE
         \/ disk' = disk /\ open' = TRUE
  BY DEF RegisterDevices, Kept, Sound, Free, history
<1>. QED
  BY <1>1, <1>2 DEF Kept, Sound, Grows, JobOK, Quiet, OnlyDevices,
     AnsweredIsStored

LEMMA UpdateKeeps == \A i \in Ids : Kept /\ UpdateDevice(i) => Kept'
<1> SUFFICES ASSUME NEW i \in Ids, Kept, UpdateDevice(i) PROVE Kept'
  OBVIOUS
<1> DEFINE e == Update(db, i)
<1>1. /\ Tables(e) /\ OnlyDevices(db, e)
      /\ \A j : Online(e, j) => Online(db, j)
  BY UpdateFacts DEF Kept, Sound, Online, UpdateDevice, Keyed
<1>2. /\ Free /\ Write(e)
      /\ UNCHANGED <<open, job, reported, owed, silent>>
  BY DEF UpdateDevice, history
<1> HIDE DEF e
<1>3. Sound'
  BY <1>1, <1>2, WriteKeeps DEF Kept
<1>4. Quiet'
  BY <1>1, <1>2 DEF Kept, Quiet, Write
<1>. QED
  BY <1>3, <1>4 DEF Kept

LEMMA DeleteKeeps == \A i \in Ids : Kept /\ DeleteDevice(i) => Kept'
<1> SUFFICES ASSUME NEW i \in Ids, Kept, DeleteDevice(i) PROVE Kept'
  OBVIOUS
<1> DEFINE e == Delete(db, i)
<1>1. /\ Tables(e)
      /\ DOMAIN e.faults = {f \in DOMAIN db.faults : db.faults[f].of # i}
      /\ \A j : Online(e, j) => Online(db, j)
  BY DeleteFacts DEF Kept, Sound, Online
<1>2. /\ ~job.running /\ Write(e) /\ silent' = silent \ {i}
      /\ owed' = {f \in owed : f \in DOMAIN db.faults => db.faults[f].of # i}
      /\ UNCHANGED <<open, job, reported>>
  BY DEF DeleteDevice, Free
<1> HIDE DEF e
<1>3. AnsweredIsStored'
  BY <1>1, <1>2 DEF Kept, Sound, Write, AnsweredIsStored
<1>4. Sound'
  BY <1>1, <1>2, <1>3 DEF Kept, Sound, Grows, JobOK, Write
<1>5. Quiet'
  BY <1>1, <1>2 DEF Kept, Quiet, Write
<1>. QED
  BY <1>4, <1>5 DEF Kept

LEMMA PurgeKeeps == Kept /\ RunPurge => Kept'
<1> SUFFICES ASSUME Kept, RunPurge PROVE Kept'
  OBVIOUS
<1> DEFINE e == Purge(db)
<1>1. /\ Tables(e) /\ e.devices = db.devices
      /\ DOMAIN e.faults = DOMAIN db.faults \ Expired(db)
  BY KeepFaultsFacts DEF Kept, Sound, Purge
<1>2. /\ ~job.running /\ Write(e) /\ owed' = owed \ Expired(db)
      /\ UNCHANGED <<open, job, reported, silent>>
  BY DEF RunPurge, Free
<1> HIDE DEF e
<1>3. AnsweredIsStored'
  BY <1>1, <1>2 DEF Kept, Sound, Write, AnsweredIsStored
<1>4. Sound'
  BY <1>1, <1>2, <1>3 DEF Kept, Sound, Grows, JobOK, Write
<1>5. Quiet'
  BY <1>1, <1>2 DEF Kept, Quiet, Write, Online
<1>. QED
  BY <1>4, <1>5 DEF Kept

LEMMA CheckKeeps ==
  \A missed \in SUBSET Ids : Kept /\ CheckOffline(missed) => Kept'
<1> SUFFICES ASSUME NEW missed \in SUBSET Ids, Kept, CheckOffline(missed)
             PROVE  Kept'
  OBVIOUS
<1> DEFINE marked == Stale(db) \ missed
           e == SetStatus(db, marked, "offline")
<1>1. /\ Tables(e) /\ OnlyDevices(db, e)
      /\ \A j : Online(e, j) => Online(db, j) /\ j \notin marked
  BY SetStatusFacts DEF Kept, Sound, Online
<1>2. /\ Free /\ Write(e)
      /\ silent' = IF open THEN silent ELSE silent \cup marked
      /\ UNCHANGED <<open, job, reported, owed>>
  BY DEF CheckOffline
<1> HIDE DEF e, marked
<1>3. Sound'
  BY <1>1, <1>2, WriteKeeps DEF Kept
<1>4. Quiet'
  BY <1>1, <1>2 DEF Kept, Quiet, Write
<1>. QED
  BY <1>3, <1>4 DEF Kept

LEMMA TickKeeps == Kept /\ Tick => Kept'
<1> SUFFICES ASSUME Kept, Tick PROVE Kept'
  OBVIOUS
<1>1. /\ Tables(db') /\ DOMAIN db'.faults = DOMAIN db.faults
      /\ \A j : Online(db', j) => Online(db, j)
  BY AgeFacts DEF Kept, Sound, Tick, Online
<1>2. /\ Tables(disk') /\ DOMAIN disk'.faults = DOMAIN disk.faults
      /\ \A j : Online(disk', j) => Online(disk, j)
  BY AgeFacts DEF Kept, Sound, Tick, Online
<1>3. ~open' => disk' = db'
  BY DEF Kept, Sound, Tick
<1>. QED
  BY <1>1, <1>2, <1>3 DEF Tick, Kept, Sound, Grows, JobOK, Quiet,
     AnsweredIsStored, history

LEMMA RestartKeeps == Kept /\ Restart => Kept'
BY NoJobFacts DEF Restart, Kept, Sound, Grows, Quiet, Online,
   AnsweredIsStored, history

LEMMA OthersKeep ==
  /\ \A i \in Ids : Kept /\ SendAlert(i) => Kept'
  /\ Kept /\ UNCHANGED vars => Kept'
BY DEF SendAlert, vars, tables, history, Kept, Sound, Grows, JobOK, Quiet,
   Online, AnsweredIsStored

-----------------------------------------------------------------------------
(* The theorems *)

(* Sound and Quiet hold throughout.                                        *)
THEOREM KeptHolds == Spec => []Kept
<1>1. Kept /\ [Next]_vars => Kept'
  BY BeginKeeps, TouchKeeps, TouchFailsKeeps, DropKeeps, BeatKeeps, FaultKeeps,
     CommitKeeps, CommitFailsKeeps, ClientGoneKeeps, RegisterKeeps,
     RegisterBulkKeeps, UpdateKeeps, DeleteKeeps, PurgeKeeps, CheckKeeps,
     TickKeeps, RestartKeeps, OthersKeep DEF Next, IngestStep
<1>. QED
  BY KeptInit, <1>1, PTL DEF Spec

(* A fault in a group whose device is known, in an upload answered 200     *)
(* without errors, is on disk until it is purged or deleted with its       *)
(* device.                                                                 *)
THEOREM AnsweredIsStoredHolds == Spec => []AnsweredIsStored
<1>1. Kept => AnsweredIsStored
  BY DEF Kept, Sound
<1>. QED
  BY KeptHolds, <1>1, PTL

(* No device that was durably marked offline is reported again before its  *)
(* next heartbeat.                                                         *)
THEOREM OneAlertHolds == Spec => OneAlertPerSilence
<1>1. Kept /\ [Next]_vars => [NewAlerts]_vars
  <2> SUFFICES ASSUME Kept, Next PROVE NewAlerts
    OBVIOUS
  <2>1. CASE \E missed \in SUBSET Ids : CheckOffline(missed)
    BY <2>1 DEF CheckOffline, Stale, NewAlerts, Kept, Quiet, Online
  <2>2. CASE alerts' \subseteq alerts
    BY <2>2 DEF NewAlerts
  <2>3. \/ \E missed \in SUBSET Ids : CheckOffline(missed)
        \/ alerts' \subseteq alerts
    BY DEF Next, IngestStep, Begin, TouchDevice, TouchFails, DropNameless,
       Beat, FaultStored, Commit, CommitFails, ClientGone, RegisterDevice,
       RegisterDevices, UpdateDevice, DeleteDevice, RunPurge, SendAlert,
       Tick, Restart
  <2>. QED
    BY <2>1, <2>2, <2>3
<1>. QED
  BY KeptHolds, <1>1, PTL DEF Spec, OneAlertPerSilence

-----------------------------------------------------------------------------
(* Crash groups *)

(* What Covers says of one group, U the groups not counted.                *)
Covered(d, s, U) ==
  /\ d.groups[s].count >= Cardinality(FaultsOf(d, s))
  /\ s \in U \/ d.groups[s].devices >= Affected(d, s)

(* e has no fault d has not, and the same groups.                          *)
Within(e, d) ==
  /\ e.groups = d.groups
  /\ DOMAIN e.faults \subseteq DOMAIN d.faults
  /\ \A f \in DOMAIN e.faults : /\ e.faults[f].of = d.faults[f].of
                                 /\ e.faults[f].sig = d.faults[f].sig

LEMMA FaultsFinite ==
  ASSUME NEW d, Tables(d), NEW s
  PROVE  IsFiniteSet(FaultsOf(d, s)) /\ Cardinality(FaultsOf(d, s)) \in Nat
BY FS_Subset, FS_CardinalityType DEF Tables, FaultsOf

(* Fewer faults of a group are no more faults, and of no more devices.     *)
LEMMA FewerFaults ==
  ASSUME NEW d, NEW e, Tables(d), Tables(e), NEW s,
         FaultsOf(e, s) \subseteq FaultsOf(d, s),
         \A f \in FaultsOf(e, s) : e.faults[f].of = d.faults[f].of
  PROVE  /\ Cardinality(FaultsOf(e, s)) =< Cardinality(FaultsOf(d, s))
         /\ Affected(e, s) =< Affected(d, s)
<1> DEFINE A == {e.faults[f].of : f \in FaultsOf(e, s)}
           B == {d.faults[f].of : f \in FaultsOf(d, s)}
<1>1. A \subseteq B
  OBVIOUS
<1>2. IsFiniteSet(B) /\ IsFiniteSet(FaultsOf(d, s))
  BY AffectedFinite, FaultsFinite
<1>3. Affected(e, s) = Cardinality(A) /\ Affected(d, s) = Cardinality(B)
  BY DEF Affected
<1> HIDE DEF A, B
<1>4. Cardinality(A) =< Cardinality(B)
  BY <1>1, <1>2, FS_Subset
<1>5. Cardinality(FaultsOf(e, s)) =< Cardinality(FaultsOf(d, s))
  BY <1>2, FS_Subset
<1>. QED
  BY <1>3, <1>4, <1>5

LEMMA FewerCovered ==
  ASSUME NEW d, NEW e, Tables(d), Tables(e), NEW s \in Signatures,
         e.groups[s] = d.groups[s],
         FaultsOf(e, s) \subseteq FaultsOf(d, s),
         \A f \in FaultsOf(e, s) : e.faults[f].of = d.faults[f].of,
         NEW U, Covered(d, s, U)
  PROVE  Covered(e, s, U)
<1>1. /\ Cardinality(FaultsOf(e, s)) =< Cardinality(FaultsOf(d, s))
      /\ Affected(e, s) =< Affected(d, s)
  BY FewerFaults
<1>2. /\ Cardinality(FaultsOf(e, s)) \in Nat /\ Affected(e, s) \in Nat
      /\ Cardinality(FaultsOf(d, s)) \in Nat /\ Affected(d, s) \in Nat
  BY FaultsFinite, AffectedFinite
<1>3. d.groups[s] \in [count : Nat, devices : Nat]
  BY DEF Tables
<1>. QED
  BY <1>1, <1>2, <1>3 DEF Covered

LEMMA WithinCovered ==
  ASSUME NEW d, NEW e, Tables(d), Tables(e), Within(e, d),
         NEW s \in Signatures, NEW U, Covered(d, s, U)
  PROVE  Covered(e, s, U)
<1>1. /\ FaultsOf(e, s) \subseteq FaultsOf(d, s)
      /\ \A f \in FaultsOf(e, s) : e.faults[f].of = d.faults[f].of
      /\ e.groups[s] = d.groups[s]
  BY DEF Within, FaultsOf
<1>. QED
  BY <1>1, FewerCovered

(* A fault that goes into its group.                                       *)
LEMMA GroupedCovered ==
  ASSUME NEW d, Tables(d), NEW s \in Signatures, NEW U, Covered(d, s, U),
         NEW f, NEW i \in Ids
  PROVE  LET d1 == Group1(d, s)
             d2 == InsertFault(d1, f, i, s)
         IN  /\ Covered(d1, s, U)
             /\ Covered(d2, s, U \cup {s})
             /\ Covered(CountDevices(d2, s), s, U)
<1>1. PICK d1 : d1 = Group1(d, s)
  OBVIOUS
<1>2. /\ Tables(d1) /\ d1.faults = d.faults
      /\ d1.groups[s].count = d.groups[s].count + 1
      /\ d1.groups[s].devices = IF d.groups[s].count = 0 THEN 1
                                 ELSE d.groups[s].devices
  BY <1>1, GroupFacts
<1>3. PICK d2 : d2 = InsertFault(d1, f, i, s)
  OBVIOUS
<1>4. Tables(d2) /\ Inserts(d1, d2, f, i, s)
  BY <1>2, <1>3, InsertFacts
<1>5. PICK d3 : d3 = CountDevices(d2, s)
  OBVIOUS
<1>6. /\ Tables(d3) /\ d3.faults = d2.faults
      /\ d3.groups[s].count = d2.groups[s].count
      /\ d3.groups[s].devices = Affected(d2, s)
  BY <1>4, <1>5, CountFacts
<1>7. /\ d.groups[s].count \in Nat /\ d.groups[s].devices \in Nat
      /\ IsFiniteSet(FaultsOf(d, s)) /\ Cardinality(FaultsOf(d, s)) \in Nat
      /\ Affected(d, s) \in Nat
  BY FaultsFinite, AffectedFinite DEF Tables
<1>8. FaultsOf(d1, s) = FaultsOf(d, s) /\ Affected(d1, s) = Affected(d, s)
  BY <1>2 DEF FaultsOf, Affected
<1>9. Covered(d1, s, U)
  <2>1. CASE d.groups[s].count = 0
    <3>1. FaultsOf(d, s) = {}
      BY <1>7, <2>1, FS_EmptySet DEF Covered
    <3>2. Affected(d, s) = 0
      <4>1. {d.faults[g].of : g \in FaultsOf(d, s)} = {}
        BY <3>1
      <4>. QED
        BY <4>1, FS_EmptySet DEF Affected
    <3>. QED
      BY <1>2, <1>7, <1>8, <2>1, <3>2 DEF Covered
  <2>2. CASE d.groups[s].count # 0
    BY <1>2, <1>7, <1>8, <2>2 DEF Covered
  <2>. QED
    BY <2>1, <2>2
<1>10. Cardinality(FaultsOf(d2, s)) =< d2.groups[s].count
  <2>1. FaultsOf(d2, s) \subseteq FaultsOf(d, s) \cup {f}
    BY <1>2, <1>4 DEF Inserts, FaultsOf
  <2>2. /\ IsFiniteSet(FaultsOf(d, s) \cup {f})
        /\ Cardinality(FaultsOf(d, s) \cup {f}) \in Nat
        /\ Cardinality(FaultsOf(d, s) \cup {f})
             =< Cardinality(FaultsOf(d, s)) + 1
    <3> DEFINE F == FaultsOf(d, s)
    <3>1. IsFiniteSet(F) /\ Cardinality(F) \in Nat
      BY <1>7
    <3> HIDE DEF F
    <3>2. /\ IsFiniteSet(F \cup {f})
          /\ Cardinality(F \cup {f}) = IF f \in F THEN Cardinality(F)
                                       ELSE Cardinality(F) + 1
      BY <3>1, FS_AddElement
    <3>3. /\ Cardinality(F \cup {f}) \in Nat
          /\ Cardinality(F \cup {f}) =< Cardinality(F) + 1
      BY <3>1, <3>2
    <3>. QED
      BY <3>2, <3>3 DEF F
  <2>3. /\ Cardinality(FaultsOf(d2, s)) \in Nat
        /\ Cardinality(FaultsOf(d2, s)) =< Cardinality(FaultsOf(d, s) \cup {f})
    BY <1>4, <2>1, <2>2, FS_Subset, FaultsFinite
  <2>. QED
    BY <1>2, <1>4, <1>7, <2>2, <2>3 DEF Inserts, Covered
<1>11. Covered(d2, s, U \cup {s})
  <2>1. Cardinality(FaultsOf(d2, s)) \in Nat
    BY <1>4, FaultsFinite
  <2>2. d2.groups[s].count \in Nat
    BY <1>2, <1>4, <1>7 DEF Inserts
  <2>. QED
    BY <1>10, <2>1, <2>2 DEF Covered
<1>12. Covered(d3, s, U)
  <2>1. FaultsOf(d3, s) = FaultsOf(d2, s) /\ Affected(d3, s) = Affected(d2, s)
    BY <1>6 DEF FaultsOf, Affected
  <2>2. Affected(d2, s) \in Nat
    BY <1>4, AffectedFinite
  <2>3. Cardinality(FaultsOf(d2, s)) \in Nat /\ d2.groups[s].count \in Nat
    BY <1>2, <1>4, <1>7, FaultsFinite DEF Inserts
  <2>. QED
    BY <1>6, <1>10, <2>1, <2>2, <2>3 DEF Covered
<1>. QED
  BY <1>1, <1>3, <1>5, <1>9, <1>11, <1>12

(* Storing a fault of group s leaves the other groups as they were, or     *)
(* takes a fault from them.                                                *)
LEMMA OthersCovered ==
  ASSUME NEW d, Tables(d), NEW s \in Signatures, NEW U,
         NEW r \in Signatures, Covered(d, r, U),
         NEW f, NEW i \in Ids, NEW t, t \in Signatures \/ t = None, r # t
  PROVE  /\ r # s => Covered(Group1(d, s), r, U)
         /\ Covered(InsertFault(d, f, i, t), r, U)
         /\ r # s => Covered(CountDevices(d, s), r, U)
<1>1. r # s => Covered(Group1(d, s), r, U)
  <2>1. PICK e : e = Group1(d, s)
    OBVIOUS
  <2>2. /\ Tables(e) /\ e.faults = d.faults
        /\ r # s => e.groups[r] = d.groups[r]
    BY <2>1, GroupFacts
  <2>3. FaultsOf(e, r) = FaultsOf(d, r)
    BY <2>2 DEF FaultsOf
  <2>. QED
    BY <2>1, <2>2, <2>3, FewerCovered
<1>2. Covered(InsertFault(d, f, i, t), r, U)
  <2>1. PICK e : e = InsertFault(d, f, i, t)
    OBVIOUS
  <2>2. Tables(e) /\ Inserts(d, e, f, i, t)
    BY <2>1, InsertFacts
  <2>3. /\ FaultsOf(e, r) \subseteq FaultsOf(d, r)
        /\ \A g \in FaultsOf(e, r) : e.faults[g].of = d.faults[g].of
        /\ e.groups[r] = d.groups[r]
    BY <2>2 DEF Inserts, FaultsOf
  <2>. QED
    BY <2>1, <2>2, <2>3, FewerCovered
<1>3. r # s => Covered(CountDevices(d, s), r, U)
  <2>1. PICK e : e = CountDevices(d, s)
    OBVIOUS
  <2>2. /\ Tables(e) /\ e.faults = d.faults
        /\ r # s => e.groups[r] = d.groups[r]
    BY <2>1, CountFacts
  <2>3. FaultsOf(e, r) = FaultsOf(d, r)
    BY <2>2 DEF FaultsOf
  <2>. QED
    BY <2>1, <2>2, <2>3, FewerCovered
<1>. QED
  BY <1>1, <1>2, <1>3

LEMMA MoreUncounted ==
  ASSUME NEW d, NEW s, NEW U, NEW V, U \subseteq V, Covered(d, s, U)
  PROVE  Covered(d, s, V)
BY DEF Covered

LEMMA StoredCovered ==
  ASSUME NEW d, Tables(d), NEW f, NEW i \in Ids, NEW s \in Signatures,
         NEW g \in BOOLEAN, NEW n \in BOOLEAN, NEW c \in BOOLEAN, NEW U,
         \A r \in Signatures : Covered(d, r, U),
         NEW r \in Signatures
  PROVE  Covered(Stored(d, f, i, s, g, n, c), r,
                 IF g /\ n /\ ~c THEN U \cup {s} ELSE U)
<1>1. PICK e : e = Stored(d, f, i, s, g, n, c)
  OBVIOUS
<1>2. PICK d1 : d1 = Group1(d, s)
  OBVIOUS
<1>3. PICK d2 : d2 = InsertFault(d1, f, i, s)
  OBVIOUS
<1>4. Tables(d1) /\ Tables(d2)
  BY <1>2, <1>3, GroupFacts, InsertFacts
<1>5. Covered(d1, r, U)
  BY <1>2, GroupedCovered, OthersCovered
<1>6. /\ Covered(d2, r, U \cup {s})
      /\ r # s => Covered(d2, r, U)
  BY <1>2, <1>3, <1>4, <1>5, GroupedCovered, OthersCovered, MoreUncounted
<1>7. Covered(CountDevices(d2, s), r, U)
  BY <1>2, <1>3, <1>4, <1>6, GroupedCovered, OthersCovered
<1>8. CASE g /\ n /\ c
  <2>1. e = CountDevices(d2, s)
    BY <1>1, <1>2, <1>3, <1>8 DEF Stored
  <2>. QED
    BY <1>1, <1>7, <1>8, <2>1
<1>9. CASE g /\ n /\ ~c
  <2>1. e = d2
    BY <1>1, <1>2, <1>3, <1>9 DEF Stored
  <2>. QED
    BY <1>1, <1>6, <1>9, <2>1
<1>10. CASE g /\ ~n
  <2>1. e = d1
    BY <1>1, <1>2, <1>10 DEF Stored
  <2>. QED
    BY <1>1, <1>5, <1>10, <2>1
<1>11. CASE ~g
  <2>1. e = IF n THEN InsertFault(d, f, i, None) ELSE d
    BY <1>1, <1>11 DEF Stored
  <2>2. r # None
    BY FleetAssumption
  <2>3. Covered(InsertFault(d, f, i, None), r, U)
    BY <2>2, OthersCovered
  <2>. QED
    BY <1>1, <1>11, <2>1, <2>3
<1>. QED
  BY <1>8, <1>9, <1>10, <1>11

(* Every step but the storing of a fault leaves each view within one there *)
(* was.                                                                    *)
Shrinks ==
  /\ Within(db', db) \/ Within(db', disk)
  /\ Within(disk', db) \/ Within(disk', disk)
  /\ uncounted' = uncounted

LEMMA WriteShrinks ==
  ASSUME NEW e, Write(e), Within(e, db), UNCHANGED uncounted
  PROVE  Shrinks
BY DEF Write, Shrinks, Within

LEMMA StepShrinks ==
  ASSUME Kept, Next,
         ~ \E s \in Signatures, g, n, c \in BOOLEAN : FaultStored(s, g, n, c)
  PROVE  Shrinks
<1> USE DEF Within
<1>1. \A upload \in Uploads : Begin(upload) => Shrinks
  BY DEF Begin, Shrinks, tables, history
<1>2. TouchDevice => Shrinks
  <2> SUFFICES ASSUME TouchDevice PROVE Shrinks
    OBVIOUS
  <2>1. Sound /\ Next1("touch") /\ Done({}, FALSE)
    BY DEF Kept, TouchDevice
  <2>2. Head(job.left).of \in Ids
    BY <2>1, StepFacts, Zenon
  <2>3. OnlyDevices(db, db')
    BY <2>1, <2>2, TouchFacts DEF TouchDevice, Sound
  <2>. QED
    BY <2>3 DEF TouchDevice, OnlyDevices, Shrinks, history
<1>3. TouchFails => Shrinks
  BY DEF TouchFails, Shrinks, tables, history
<1>4. Beat => Shrinks
  <2> SUFFICES ASSUME Beat PROVE Shrinks
    OBVIOUS
  <2>1. OnlyDevices(db, db')
    BY HeartbeatFacts DEF Beat, Kept, Sound
  <2>. QED
    BY <2>1 DEF Beat, OnlyDevices, Shrinks
<1>5. Commit => Shrinks
  BY DEF Commit, Shrinks
<1>6. \A r \in BOOLEAN : CommitFails(r) => Shrinks
  BY DEF CommitFails, Shrinks, history
<1>7. ClientGone => Shrinks
  BY DEF ClientGone, Shrinks, tables, history
<1>8. \A i \in Ids : RegisterDevice(i) => Shrinks
  <2> SUFFICES ASSUME NEW i \in Ids, RegisterDevice(i) PROVE Shrinks
    OBVIOUS
  <2>1. OnlyDevices(db, Register(db, {i}))
    BY RegisterFacts DEF Kept, Sound
  <2>. QED
    BY <2>1, WriteShrinks DEF RegisterDevice, OnlyDevices, history
<1>9. \A S \in SUBSET Ids, c \in BOOLEAN : RegisterDevices(S, c) => Shrinks
  <2> SUFFICES ASSUME NEW S \in SUBSET Ids, NEW c \in BOOLEAN,
                      RegisterDevices(S, c)
               PROVE  Shrinks
    OBVIOUS
  <2>1. OnlyDevices(db, Register(db, S))
    BY RegisterFacts DEF Kept, Sound
  <2>. QED
    BY <2>1 DEF RegisterDevices, OnlyDevices, Shrinks, history
<1>10. \A i \in Ids : UpdateDevice(i) => Shrinks
  <2> SUFFICES ASSUME NEW i \in Ids, UpdateDevice(i) PROVE Shrinks
    OBVIOUS
  <2>1. OnlyDevices(db, Update(db, i))
    BY UpdateFacts DEF Kept, Sound, UpdateDevice, Keyed
  <2>. QED
    BY <2>1, WriteShrinks DEF UpdateDevice, OnlyDevices, history
<1>11. \A i \in Ids : DeleteDevice(i) => Shrinks
  <2> SUFFICES ASSUME NEW i \in Ids, DeleteDevice(i) PROVE Shrinks
    OBVIOUS
  <2>1. Within(Delete(db, i), db)
    BY DeleteFacts DEF Kept, Sound
  <2>. QED
    BY <2>1, WriteShrinks DEF DeleteDevice
<1>12. RunPurge => Shrinks
  <2> SUFFICES ASSUME RunPurge PROVE Shrinks
    OBVIOUS
  <2>1. Within(Purge(db), db)
    BY KeepFaultsFacts DEF Kept, Sound, Purge
  <2>. QED
    BY <2>1, WriteShrinks DEF RunPurge
<1>13. \A missed \in SUBSET Ids : CheckOffline(missed) => Shrinks
  <2> SUFFICES ASSUME NEW missed \in SUBSET Ids, CheckOffline(missed)
               PROVE  Shrinks
    OBVIOUS
  <2>1. OnlyDevices(db, SetStatus(db, Stale(db) \ missed, "offline"))
    BY SetStatusFacts DEF Kept, Sound
  <2>. QED
    BY <2>1, WriteShrinks DEF CheckOffline, OnlyDevices
<1>14. \A i \in Ids : SendAlert(i) => Shrinks
  BY DEF SendAlert, Shrinks, tables, history
<1>15. Tick => Shrinks
  <2> SUFFICES ASSUME Tick PROVE Shrinks
    OBVIOUS
  <2>1. Within(db', db) /\ Within(disk', disk)
    BY AgeFacts DEF Tick, Kept, Sound
  <2>. QED
    BY <2>1 DEF Tick, Shrinks, history
<1>16. Restart => Shrinks
  BY DEF Restart, Shrinks, history
<1>17. DropNameless => Shrinks
  BY DEF DropNameless, Shrinks, tables, history
<1>. QED
  BY <1>1, <1>2, <1>3, <1>4, <1>5, <1>6, <1>7, <1>8, <1>9, <1>10, <1>11,
     <1>12, <1>13, <1>14, <1>15, <1>16, <1>17 DEF Next, IngestStep

(* A crash group counts at least its faults and, unless counting failed,   *)
(* at least the devices they are of, on the connection and on disk.        *)
THEOREM GroupsCoverHolds == Spec => []GroupsCover
<1> DEFINE AllCovered == \A r \in Signatures : /\ Covered(db, r, uncounted)
                                               /\ Covered(disk, r, uncounted)
<1>1. AllCovered <=> GroupsCover
  BY DEF GroupsCover, Covers, Covered
<1>2. Init => AllCovered
  <2> SUFFICES ASSUME Init, NEW r \in Signatures
               PROVE  Covered(Empty, r, uncounted)
    BY DEF Init
  <2>1. FaultsOf(Empty, r) = {}
    BY DEF Empty, FaultsOf
  <2>2. Affected(Empty, r) = 0
    <3>1. {Empty.faults[f].of : f \in FaultsOf(Empty, r)} = {}
      BY <2>1
    <3>. QED
      BY <3>1, FS_EmptySet DEF Affected
  <2>3. Empty.groups[r] = [count |-> 0, devices |-> 0]
    BY DEF Empty
  <2>. QED
    BY <2>1, <2>2, <2>3, FS_EmptySet DEF Covered
<1>3. Kept /\ Kept' /\ AllCovered /\ [Next]_vars => AllCovered'
  <2> SUFFICES ASSUME Kept, Kept', AllCovered, [Next]_vars,
                      NEW r \in Signatures
               PROVE  Covered(db', r, uncounted') /\ Covered(disk', r, uncounted')
    OBVIOUS
  <2>1. CASE \E s \in Signatures, g, n, c \in BOOLEAN : FaultStored(s, g, n, c)
    <3>1. PICK s \in Signatures, g \in BOOLEAN, n \in BOOLEAN, c \in BOOLEAN :
            FaultStored(s, g, n, c)
      BY <2>1
    <3> DEFINE f == reported + 1
               i == Head(job.left).of
    <3>2. i \in Ids
      <4>1. Sound /\ Next1("fault")
                  /\ Done(IF n THEN {f} ELSE {}, ~(g /\ n /\ c))
        BY <3>1 DEF Kept, FaultStored
      <4>. QED
        BY <4>1, StepFacts, Zenon
    <3>3. /\ db' = Stored(db, f, i, s, g, n, c) /\ disk' = disk
          /\ uncounted' = IF g /\ n /\ ~c THEN uncounted \cup {s} ELSE uncounted
      BY <3>1 DEF FaultStored
    <3> HIDE DEF f, i
    <3>4. Covered(Stored(db, f, i, s, g, n, c), r,
                  IF g /\ n /\ ~c THEN uncounted \cup {s} ELSE uncounted)
      BY <3>2, StoredCovered, ZenonT(60) DEF Kept, Sound
    <3>5. Covered(db', r, uncounted')
      BY <3>3, <3>4
    <3>6. uncounted \subseteq uncounted'
      BY <3>3
    <3>. QED
      BY <3>3, <3>5, <3>6, MoreUncounted
  <2>2. CASE Shrinks
    BY <2>2, WithinCovered DEF Shrinks, Kept, Sound
  <2>3. CASE UNCHANGED vars
    BY <2>3 DEF vars, tables, history
  <2>. QED
    BY <2>1, <2>2, <2>3, StepShrinks
<1> HIDE DEF AllCovered
<1>. QED
  BY KeptHolds, <1>1, <1>2, <1>3, PTL DEF Spec
=============================================================================
