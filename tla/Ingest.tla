-------------------------------- MODULE Ingest --------------------------------
(***************************************************************************)
(* The server's one connection to its database and everyone who works on   *)
(* it: ingest requests, the registration handlers, the retention task and  *)
(* the offline check (ingest.rs, retention.rs, alerting.rs).               *)
(*                                                                         *)
(* The connection is behind a mutex.  An ingest request holds it from      *)
(* BEGIN to COMMIT and waits in between, for the symbol of each fault; the *)
(* others hold it for one statement or a few.  A request whose client goes *)
(* away is dropped where it waits, and gives up the mutex: what it had     *)
(* begun on the connection stays.  The server may go down anywhere.        *)
(*                                                                         *)
(* db is what the connection sees, disk what was committed.                *)
(***************************************************************************)
EXTENDS Fleet, Sequences

CONSTANTS
  Uploads,    \* what a request may carry, a sequence of steps: a group of
              \* chunks begins with "touch" when it is known whose they are,
              \* and with "nameless" when nothing says so
  MaxFailures \* bound: failed statements and commits, lost clients, restarts

Heads == {"touch", "nameless"}
Step  == [what : Heads \cup {"fault", "beat"}, of : Ids]

ASSUME IngestAssumption ==
  /\ Uploads \subseteq Seq(Step)
  /\ MaxFailures \in Nat

VARIABLES
  db, disk,
  open,       \* BOOLEAN: the connection is inside a transaction
  job,        \* the ingest request that holds the mutex, or NoJob
  alerts,     \* offline alerts the check has still to send
  reported,   \* faults reported so far
  failures,
  owed,       \* history: faults in named groups of uploads answered 200 with
              \* no error, and neither purged nor deleted with their device
              \* since
  silent,     \* history: devices marked offline, durably, and with no
              \* heartbeat since
  uncounted   \* history: groups whose devices were not counted after a
              \* fault of theirs was inserted

tables  == <<db, disk>>
history == <<owed, silent, uncounted>>
vars    == <<tables, open, job, alerts, reported, failures, history>>

(* What is left of the upload, the faults inserted, whether a group was    *)
(* dropped for want of a device, and whether there was an error.           *)
NoJob == [running |-> FALSE, left |-> <<>>, new |-> {}, dropped |-> FALSE,
          errors |-> FALSE]

TypeOK ==
  /\ IsDatabase(db) /\ IsDatabase(disk)
  /\ open \in BOOLEAN
  /\ job \in [running : BOOLEAN, left : Seq(Step), new : SUBSET Faults,
              dropped : BOOLEAN, errors : BOOLEAN]
  /\ alerts \subseteq Ids
  /\ reported \in 0 .. MaxFaults
  /\ failures \in 0 .. MaxFailures
  /\ owed \subseteq Faults
  /\ silent \subseteq Ids
  /\ uncounted \subseteq Signatures

Init ==
  /\ db = Empty /\ disk = Empty
  /\ open = FALSE
  /\ job = NoJob
  /\ alerts = {}
  /\ reported = 0 /\ failures = 0
  /\ owed = {}
  /\ silent = {} /\ uncounted = {}

Free == ~job.running

(* A statement outside BEGIN and COMMIT commits itself. *)
Write(new) == /\ db' = new
              /\ disk' = IF open THEN disk ELSE new

Fails == failures < MaxFailures /\ failures' = failures + 1

-----------------------------------------------------------------------------
(* ingest_chunks *)

(* While an abandoned transaction is open BEGIN fails: the request is      *)
(* answered 500 and changes nothing.                                       *)
Begin(upload) ==
  /\ Free /\ ~open
  /\ reported + Cardinality({n \in DOMAIN upload : upload[n].what = "fault"})
       <= MaxFaults
  /\ open' = TRUE
  /\ job' = [NoJob EXCEPT !.running = TRUE, !.left = upload]
  /\ UNCHANGED <<tables, alerts, reported, failures, history>>

Next1(what) == /\ job.running /\ job.left # <<>>
               /\ Head(job.left).what = what

Done(new, errors) ==
  job' = [job EXCEPT !.left = Tail(@), !.new = @ \cup new,
                     !.errors = @ \/ errors]

TouchDevice ==
  /\ Next1("touch")
  /\ db' = Touch(db, Head(job.left).of)
  /\ Done({}, FALSE)
  /\ UNCHANGED <<disk, open, alerts, reported, failures, history>>

(* Without a row for its device a group is given up: the first n steps.    *)
GroupEnds(left, n) ==
  /\ \A m \in 2 .. n : left[m].what \notin Heads
  /\ n < Len(left) => left[n + 1].what \in Heads

TouchFails ==
  /\ Next1("touch")
  /\ Fails
  /\ \E n \in DOMAIN job.left :
       /\ GroupEnds(job.left, n)
       /\ job' = [job EXCEPT !.left = SubSeq(@, n + 1, Len(@)),
                             !.errors = TRUE]
  /\ UNCHANGED <<tables, open, alerts, reported, history>>

(* Neither DeviceInfo nor X-Device-Id says whose the chunks are: they are  *)
(* taken without an error and not stored.                                  *)
DropNameless ==
  /\ Next1("nameless")
  /\ \E n \in DOMAIN job.left :
       /\ GroupEnds(job.left, n)
       /\ job' = [job EXCEPT !.left = SubSeq(@, n + 1, Len(@)),
                             !.dropped = TRUE]
  /\ UNCHANGED <<tables, open, alerts, reported, failures, history>>

Beat ==
  LET i == Head(job.left).of
  IN  /\ Next1("beat")
      /\ db' = Heartbeat(db, i)
      /\ Done({}, FALSE)
      /\ silent' = silent \ Beating(db, i)
      /\ UNCHANGED <<disk, open, alerts, reported, failures, owed, uncounted>>

(* The symbol has come.                                                    *)
FaultStored(s, grouped, inserted, counted) ==
  LET f == reported + 1
  IN  /\ Next1("fault")
      /\ db' = Stored(db, f, Head(job.left).of, s, grouped, inserted, counted)
      /\ reported' = f
      /\ Done(IF inserted THEN {f} ELSE {}, ~(grouped /\ inserted /\ counted))
      /\ uncounted' = IF grouped /\ inserted /\ ~counted
                        THEN uncounted \cup {s} ELSE uncounted
      /\ IF grouped /\ inserted /\ counted THEN UNCHANGED failures ELSE Fails
      /\ UNCHANGED <<disk, open, alerts, owed, silent>>

Finished == job.running /\ job.left = <<>>

Commit ==
  /\ Finished
  /\ disk' = db /\ open' = FALSE
  /\ job' = NoJob
  /\ owed' = IF job.errors THEN owed ELSE owed \cup job.new
  /\ UNCHANGED <<db, alerts, reported, failures, silent, uncounted>>

(* Mutation of CommitFails: the answer is the same whether or not COMMIT   *)
(* succeeds, as in register_devices_bulk.                                  *)
CommitFailsAnswered(rolledBack) ==
  /\ Finished
  /\ Fails
  /\ db' = IF rolledBack THEN disk ELSE db
  /\ open' = ~rolledBack
  /\ job' = NoJob
  /\ owed' = IF job.errors THEN owed ELSE owed \cup job.new
  /\ UNCHANGED <<disk, alerts, reported, silent, uncounted>>

(* SQLite rolls a failed COMMIT back, or leaves its transaction open.      *)
CommitFails(rolledBack) ==
  /\ Finished
  /\ Fails
  /\ db' = IF rolledBack THEN disk ELSE db
  /\ open' = ~rolledBack
  /\ job' = NoJob
  /\ UNCHANGED <<disk, alerts, reported, history>>

(* The client closes its connection while the request waits for a symbol.  *)
ClientGone ==
  /\ Next1("fault")
  /\ Fails
  /\ job' = NoJob
  /\ UNCHANGED <<tables, open, alerts, reported, history>>

-----------------------------------------------------------------------------
(* Registration handlers *)

RegisterDevice(i) ==
  /\ Free
  /\ Write(Register(db, {i}))
  /\ UNCHANGED <<open, job, alerts, reported, failures, history>>

(* register_devices_bulk: a transaction of its own, whose COMMIT may fail  *)
(* unnoticed.                                                              *)
RegisterDevices(S, committed) ==
  /\ Free /\ ~open
  /\ db' = Register(db, S)
  /\ IF committed THEN disk' = db' /\ open' = FALSE /\ UNCHANGED failures
                  ELSE Fails /\ open' = TRUE /\ UNCHANGED disk
  /\ UNCHANGED <<job, alerts, reported, history>>

UpdateDevice(i) ==
  /\ Free /\ Keyed(db, i)
  /\ Write(Update(db, i))
  /\ UNCHANGED <<open, job, alerts, reported, failures, history>>

DeleteDevice(i) ==
  /\ Free /\ i \in DOMAIN db.devices
  /\ Write(Delete(db, i))
  /\ owed' = {f \in owed : f \in DOMAIN db.faults => db.faults[f].of # i}
  /\ silent' = silent \ {i}
  /\ UNCHANGED <<open, job, alerts, reported, failures, uncounted>>

-----------------------------------------------------------------------------
(* Background tasks *)

(* run_purge *)
RunPurge ==
  /\ Free /\ Expired(db) # {}
  /\ Write(Purge(db))
  /\ owed' = owed \ Expired(db)
  /\ UNCHANGED <<open, job, alerts, reported, failures, silent, uncounted>>

(* check_offline_devices: marks the devices, fails for those of missed,    *)
(* gives up the mutex and sends an alert for each.                         *)
CheckOffline(missed) ==
  LET marked == Stale(db) \ missed
  IN  /\ Free /\ alerts = {} /\ Stale(db) # {}
      /\ missed \subseteq Stale(db)
      /\ IF missed = {} THEN UNCHANGED failures ELSE Fails
      /\ Write(SetStatus(db, marked, "offline"))
      /\ alerts' = Stale(db)
      /\ silent' = IF open THEN silent ELSE silent \cup marked
      /\ UNCHANGED <<open, job, reported, owed, uncounted>>

(* The webhook has answered, or the request failed: the check waits for    *)
(* one answer after the other, for as long as each may take.               *)
SendAlert(i) ==
  /\ i \in alerts
  /\ alerts' = alerts \ {i}
  /\ UNCHANGED <<tables, open, job, reported, failures, history>>

-----------------------------------------------------------------------------
Tick ==
  /\ db' = Age(db) /\ disk' = Age(disk)
  /\ db' # db \/ disk' # disk
  /\ UNCHANGED <<open, job, alerts, reported, failures, history>>

Restart ==
  /\ Fails
  /\ db' = disk /\ open' = FALSE
  /\ job' = NoJob /\ alerts' = {}
  /\ UNCHANGED <<disk, reported, history>>

IngestStep ==
  \/ TouchDevice \/ TouchFails \/ DropNameless \/ Beat \/ Commit
  \/ \E s \in Signatures, g, n, c \in BOOLEAN : FaultStored(s, g, n, c)
  \/ \E r \in BOOLEAN : CommitFails(r)

Next ==
  \/ \E u \in Uploads : Begin(u)
  \/ IngestStep
  \/ ClientGone
  \/ \E i \in Ids : RegisterDevice(i) \/ UpdateDevice(i) \/ DeleteDevice(i)
                    \/ SendAlert(i)
  \/ \E S \in SUBSET Ids, c \in BOOLEAN : RegisterDevices(S, c)
  \/ RunPurge
  \/ \E missed \in SUBSET Ids : CheckOffline(missed)
  \/ Tick
  \/ Restart

Spec == Init /\ [][Next]_vars

(* Requests run to their end: a symbol that does not come is given up      *)
(* after ten seconds.  The mutex serves who waits in order, so the check   *)
(* gets its turn.  Nothing bounds the time a webhook takes to answer.      *)
Fairness == WF_vars(IngestStep) /\ SF_vars(CheckOffline({}))

FairSpec == Spec /\ Fairness

-----------------------------------------------------------------------------
(* A fault in a group whose device is known, in an upload answered 200     *)
(* without errors, is on disk until it is purged or deleted with its       *)
(* device: ingest_chunks answers after COMMIT, and what is answered is not *)
(* sent again.  A group of nobody's in the same upload takes nothing of    *)
(* the others with it.                                                     *)
AnsweredIsStored == owed \subseteq DOMAIN disk.faults

(* A crash group counts at least the faults it has, and at least the       *)
(* devices they are of unless counting failed: purges, deletions and       *)
(* abandoned transactions only ever leave it too high.                     *)
Covers(d) ==
  \A s \in Signatures :
    /\ d.groups[s].count >= Cardinality(FaultsOf(d, s))
    /\ s \in uncounted \/ d.groups[s].devices >= Affected(d, s)

GroupsCover == Covers(db) /\ Covers(disk)

(* Whom the offline check marks durably it does not report again before    *)
(* the next heartbeat: the status it writes is what keeps the check of the *)
(* next minute from sending the same alert.                                *)
NewAlerts == \A i \in alerts' \ alerts : i \notin silent

OneAlertPerSilence == [][NewAlerts]_vars

(* A device that was online and has not been seen for OfflineAfter does    *)
(* not stay so, whatever else the server is busy with, as long as the      *)
(* webhook answers every alert sooner or later.                            *)
WebhookAnswers == []<>(alerts = {})

SilentGoesOffline ==
  WebhookAnswers => \A i \in Ids : i \in Stale(db) ~> i \notin Stale(db)

(* Not met.  The same whatever the webhook does: architecture.md:189 says  *)
(* the check "runs every 60 seconds", but alerting.rs:92-93 posts the      *)
(* alert with a client that has no timeout, and the loop waits for it.     *)
SilentGoesOfflineAnyway ==
  \A i \in Ids : i \in Stale(db) ~> i \notin Stale(db)

(* Not met.  What is answered 200 without errors was all stored: the       *)
(* chunks of a nameless group are dropped, and though ingest.rs:879 says   *)
(* "they will arrive again with DeviceInfo", who got that answer has no    *)
(* reason to send them again.                                              *)
AnsweredIsAllStored == Finished /\ ~job.errors => ~job.dropped

(* Not met.  No transaction outlives the request that began it: store.rs   *)
(* says at line 616 that begin_transaction "Returns a guard that           *)
(* auto-rolls-back on drop unless committed".  It returns nothing.         *)
OpenOnlyInside == open => job.running
=============================================================================
