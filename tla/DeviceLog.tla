----------------------------- MODULE DeviceLog -----------------------------
(***************************************************************************)
(* What the evidence log says of one device: the builds it reported and    *)
(* the credentials it was given (ferrite-server: record_build_report in    *)
(* ingest.rs, the handlers in credentials.rs, record in evidence.rs).      *)
(*                                                                         *)
(* The log, the credentials and the devices are three databases, and a     *)
(* change and its entry are two steps.  A build is logged inside the       *)
(* transaction of the upload that reports it, which may still be undone.   *)
(* A credential is logged when its database is no longer locked, so the    *)
(* entries of two requests may come in either order.  The server may go    *)
(* down anywhere.                                                          *)
(***************************************************************************)
EXTENDS Integers, Sequences, FiniteSets, Functions

CONSTANTS
  Reports,       \* what a device may report: a version with a build ID
  KeyIds,        \* key IDs; a random one may come up again
  Clerks,        \* credential requests in progress at a time
  MaxEntries,    \* bound: entries written
  MaxTrouble,    \* bound: failed reads, writes, commits and restarts
  Nothing

(* A row that no DeviceInfo chunk has filled in: build 0 and no version. *)
Placeholder == "placeholder"
Rows == Reports \cup {Nothing, Placeholder}

BuildEntry == [about : {"build"}, from : Reports \cup {Nothing}, to : Reports]
KeyEntry   == [about : {"key"}, from : KeyIds \cup {Nothing},
                                to : KeyIds \cup {Nothing}]
Entry == BuildEntry \cup KeyEntry

ASSUME DeviceLogAssumption ==
  /\ Nothing \notin Reports \cup KeyIds \cup KeyEntry
  /\ Placeholder \notin Reports
  /\ IsFiniteSet(Clerks)
  /\ MaxEntries \in Nat /\ MaxTrouble \in Nat

VARIABLES
  row, saved,  \* the device's row: what the connection sees, what is on disk
  inside,      \* the connection is inside a transaction
  busy,        \* an upload holds the connection
  keyId,       \* the device's key ID
  owing,       \* per clerk: the entry still to be written
  logged,      \* the device's entries in the log
  trouble,
  unlogged,    \* history: entries that were not written
  stray        \* history: the last build entry was lost, or its upload undone

rowVars == <<row, saved, inside, busy, stray>>
credentialVars == <<keyId, owing>>
deviceLogVars == <<rowVars, credentialVars, logged, trouble, unlogged>>

DeviceLogTypeOK ==
  /\ {row, saved} \subseteq Rows
  /\ {inside, busy, stray} \subseteq BOOLEAN
  /\ keyId \in KeyIds \cup {Nothing}
  /\ owing \in [Clerks -> KeyEntry \cup {Nothing}]
  /\ {logged, unlogged} \subseteq Seq(Entry)
  /\ trouble \in 0 .. MaxTrouble

DeviceLogInit ==
  /\ row = Nothing /\ saved = Nothing
  /\ inside = FALSE /\ busy = FALSE /\ stray = FALSE
  /\ keyId = Nothing
  /\ owing = [c \in Clerks |-> Nothing]
  /\ logged = <<>> /\ unlogged = <<>>
  /\ trouble = 0

(* This many things go wrong in one step. *)
Trouble(n) == trouble + n <= MaxTrouble /\ trouble' = trouble + n

(* evidence::record: a failed append is reported to nobody. *)
Recorded(entry, written) ==
  IF written
    THEN /\ Len(logged) < MaxEntries
         /\ logged' = Append(logged, entry) /\ UNCHANGED unlogged
    ELSE unlogged' = Append(unlogged, entry) /\ UNCHANGED logged

-----------------------------------------------------------------------------
(* Uploads *)

BeginUpload ==
  /\ ~busy /\ ~inside
  /\ busy' = TRUE /\ inside' = TRUE
  /\ UNCHANGED <<row, saved, stray, credentialVars, logged, trouble, unlogged>>

(* Mutation of PreviousBuild: the row is read before the upload has the    *)
(* connection.                                                             *)
PreviousOnDisk(read) == IF read /\ saved \in Reports THEN saved ELSE Nothing

(* The row as it was before upsert_device; a failed read is taken for a    *)
(* device never seen.                                                      *)
PreviousBuild(read) == IF read /\ row \in Reports THEN row ELSE Nothing

(* A DeviceInfo chunk: upsert_device, and record_build_report writes an    *)
(* entry for the first build of a device and for each change after that,   *)
(* while the row is not yet committed.                                     *)
ReportBuild(report, read, written) ==
  LET previous == PreviousBuild(read)
      entry == [about |-> "build", from |-> previous, to |-> report]
  IN  /\ busy
      /\ row' = report
      /\ IF previous = report
           THEN written /\ UNCHANGED <<logged, unlogged, stray>>
           ELSE Recorded(entry, written) /\ stray' = ~written
      /\ Trouble(Cardinality({n \in {1} : ~read} \cup {n \in {2} : ~written}))
      /\ UNCHANGED <<saved, inside, busy, credentialVars>>

(* touch_device: other chunks of the device come first. *)
TouchRow ==
  /\ busy /\ row = Nothing
  /\ row' = Placeholder
  /\ UNCHANGED <<saved, inside, busy, stray, credentialVars, logged, trouble, unlogged>>

CommitUpload ==
  /\ busy
  /\ busy' = FALSE /\ inside' = FALSE
  /\ saved' = row
  /\ UNCHANGED <<row, stray, credentialVars, logged, trouble, unlogged>>

(* What is undone stays in the log. *)
Undo == row' = saved /\ stray' = (stray \/ row # saved)

(* COMMIT fails, or the client goes away while the upload waits: SQLite    *)
(* rolls back, or the transaction stays open for whoever comes next.       *)
UploadUndone(rolledBack) ==
  /\ busy /\ Trouble(1)
  /\ busy' = FALSE /\ inside' = ~rolledBack
  /\ IF rolledBack THEN Undo ELSE UNCHANGED <<row, stray>>
  /\ UNCHANGED <<saved, credentialVars, logged, unlogged>>

(* Registration and deletion by an operator, which the log says nothing of.*)
OperatorActs ==
  /\ ~busy
  /\ row' = IF row = Nothing THEN Placeholder ELSE Nothing
  /\ saved' = IF inside THEN saved ELSE row'
  /\ UNCHANGED <<inside, busy, stray, credentialVars, logged, trouble, unlogged>>

-----------------------------------------------------------------------------
(* Credentials *)

Due == {c \in Clerks : owing[c] # Nothing}

(* issue: reads the ID it replaces and writes the new one under one lock.  *)
IssueCredential(clerk, id) ==
  /\ owing[clerk] = Nothing
  /\ id # keyId
  /\ keyId' = id
  /\ owing' = [owing EXCEPT ![clerk] = [about |-> "key", from |-> keyId, to |-> id]]
  /\ UNCHANGED <<rowVars, logged, trouble, unlogged>>

RevokeCredential(clerk) ==
  /\ owing[clerk] = Nothing
  /\ keyId # Nothing
  /\ keyId' = Nothing
  /\ owing' =
       [owing EXCEPT ![clerk] = [about |-> "key", from |-> keyId, to |-> Nothing]]
  /\ UNCHANGED <<rowVars, logged, trouble, unlogged>>

RecordKey(clerk, written) ==
  /\ owing[clerk] # Nothing
  /\ Recorded(owing[clerk], written)
  /\ Trouble(IF written THEN 0 ELSE 1)
  /\ owing' = [owing EXCEPT ![clerk] = Nothing]
  /\ UNCHANGED <<rowVars, keyId>>

-----------------------------------------------------------------------------
(* The server goes down and comes up again. *)
GoDown ==
  /\ Trouble(1)
  /\ Undo
  /\ inside' = FALSE /\ busy' = FALSE
  /\ owing' = [c \in Clerks |-> Nothing]
  /\ \E clerk \in Bijection(1 .. Cardinality(Due), Due) :
       unlogged' = unlogged \o [n \in DOMAIN clerk |-> owing[clerk[n]]]
  /\ UNCHANGED <<saved, keyId, logged>>

DeviceLogNext ==
  \/ BeginUpload \/ TouchRow \/ CommitUpload \/ OperatorActs \/ GoDown
  \/ \E report \in Reports, read, written \in BOOLEAN :
       ReportBuild(report, read, written)
  \/ \E rolledBack \in BOOLEAN : UploadUndone(rolledBack)
  \/ \E clerk \in Clerks :
       \/ \E id \in KeyIds : IssueCredential(clerk, id)
       \/ RevokeCredential(clerk)
       \/ \E written \in BOOLEAN : RecordKey(clerk, written)

DeviceLogSpec == DeviceLogInit /\ [][DeviceLogNext]_deviceLogVars

-----------------------------------------------------------------------------
Build(entry, report) == entry.about = "build" /\ entry.to = report

(* The entry is the last of its kind.                                      *)
LastAbout(what, n) ==
  /\ logged[n].about = what
  /\ \A m \in DOMAIN logged : m > n => logged[m].about # what

(* The log tells the build a device runs: unless its last entry was lost   *)
(* or its upload undone, the last build entry is the row there is.         *)
RunningTold ==
  row \in Reports /\ ~stray =>
    \E n \in DOMAIN logged : LastAbout("build", n) /\ logged[n].to = row

(* A change is told from a build that was told before, or lost.            *)
ChangesTold ==
  \A n \in DOMAIN logged :
    logged[n].about = "build" /\ logged[n].from # Nothing =>
      \/ \E m \in DOMAIN logged : m < n /\ Build(logged[m], logged[n].from)
      \/ \E m \in DOMAIN unlogged : Build(unlogged[m], logged[n].from)

(* In whatever order the entries were written, the log tells the device's  *)
(* key: it is the one given once more often than it was replaced or        *)
(* revoked, counting what is still owed to the log and what was lost.      *)
Names(entry, end, id) == entry.about = "key" /\ entry[end] = id
Naming(entries, end, id) == {n \in DOMAIN entries : Names(entries[n], end, id)}
Owed(end, id) == {c \in Due : Names(owing[c], end, id)}

Times(end, id) ==
  Cardinality(Naming(logged, end, id)) + Cardinality(Naming(unlogged, end, id))
    + Cardinality(Owed(end, id))

KeysTold ==
  \A id \in KeyIds :
    Times("to", id) = Times("from", id) + (IF keyId = id THEN 1 ELSE 0)

HistoryTold == RunningTold /\ ChangesTold /\ KeysTold

(* Not met: the last entry about the credential names the device's key.    *)
(* Two rotations at a time may be written in the other order.              *)
KeysInOrder ==
  Due = {} /\ unlogged = <<>> =>
    \A n \in DOMAIN logged : LastAbout("key", n) => logged[n].to = keyId

=============================================================================
