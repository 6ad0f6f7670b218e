------------------------------ MODULE Releases ------------------------------
(***************************************************************************)
(* The firmware the server keeps (ota.rs): rows of firmware_artifacts and  *)
(* the files they name, with the evidence written about them (evidence.rs) *)
(* and its anchoring (evidence_anchor.rs).                                 *)
(*                                                                         *)
(* Entries are appended under a mutex, in a transaction, by every handler  *)
(* that releases, targets or observes firmware.  anchor_once reads the     *)
(* head, sends it over the network and appends an entry of its own; the    *)
(* schedule and POST /evidence/anchor may run it at the same time, and the *)
(* others append while it waits.                                           *)
(*                                                                         *)
(* upload_firmware writes its file before it takes the store's lock;       *)
(* delete_firmware removes its file while it holds it.  A request whose    *)
(* client goes away is dropped where it waits, the file operation it waits *)
(* for goes on.  The server may go down anywhere.                          *)
(***************************************************************************)
EXTENDS Naturals, Sequences, FiniteSets

-----------------------------------------------------------------------------
(* The evidence log and its anchors. *)

CONSTANTS
  Genesis,     \* GENESIS_HASH
  Anchorers,   \* runs of anchor_once that may overlap
  MaxFailures  \* bound: failed writes, interrupted requests and crashes

ASSUME EvidenceAssumption == MaxFailures \in Nat

VARIABLES
  log,       \* table evidence_log, in the order of seq
  anchor,    \* the runs of anchor_once
  sinks,     \* what the webhook and the timestamp authority were sent
  lost,      \* history: events that happened and were not written
  raced,     \* history: entries written while an anchor was on its way
  failures

evidenceVars == <<log, anchor, sinks, lost, raced, failures>>

Sinks == {"webhook", "tsa"}
AnchorKind == "anchored"

(* Mutation of Hash: it covers the entry's own fields only. *)
HashAlone(prev, seq, event) == <<seq, event>>

(* SHA-256 over the previous hash and the fields: it determines them. *)
Hash(prev, seq, event) == <<prev, seq, event>>

(* What verify expects of the i-th row of a table: the next seq, the hash  *)
(* of the row before, and the hash of its own fields.                      *)
Links(t, i) ==
  LET prev == IF i = 1 THEN Genesis ELSE t[i - 1].hash
      seq  == IF i = 1 THEN 1 ELSE t[i - 1].seq + 1
  IN /\ t[i].seq = seq
     /\ t[i].prev = prev
     /\ t[i].hash = Hash(t[i].prev, t[i].seq, t[i].event)

(* verify: no row is the first invalid one. *)
ChainValid(t) == \A i \in DOMAIN t : Links(t, i)

Entry(t, event) ==
  LET prev == IF t = << >> THEN Genesis ELSE t[Len(t)].hash
      seq  == IF t = << >> THEN 1 ELSE t[Len(t)].seq + 1
  IN [seq |-> seq, event |-> event, prev |-> prev,
      hash |-> Hash(prev, seq, event)]

Underway == {a \in Anchorers : anchor[a].stage # "idle"}

(* append: under the mutex. *)
Written(event) ==
  /\ log' = Append(log, Entry(log, event))
  /\ raced' = IF Underway = {} THEN raced ELSE raced \cup {Len(log) + 1}

(* record: a failed write does not fail the request.  The same is seen if  *)
(* the server goes down right before it.                                   *)
Record(event) ==
  \/ Written(event) /\ UNCHANGED <<lost, failures>>
  \/ /\ failures < MaxFailures
     /\ failures' = failures + 1
     /\ lost' = lost \cup {event}
     /\ UNCHANGED <<log, raced>>

EvidenceInit ==
  /\ log = << >>
  /\ anchor = [a \in Anchorers |-> [stage |-> "idle", head |-> 0, got |-> {}]]
  /\ sinks = [s \in Sinks |-> {}]
  /\ lost = {} /\ raced = {}
  /\ failures = 0

-----------------------------------------------------------------------------
(* Mutation of Skips: once there is an anchor, nothing more is sent. *)
SkipsEarly ==
  log # << >> => \E i \in DOMAIN log : log[i].event.kind = AnchorKind

(* anchor_once: nothing is sent while the newest entry is an anchor. *)
Skips == log # << >> => log[Len(log)].event.kind = AnchorKind

Idle == [stage |-> "idle", head |-> 0, got |-> {}]

(* anchor_once up to its first await: head, then verify. *)
AnchorBegin(a) ==
  /\ anchor[a].stage = "idle"
  /\ ~Skips
  /\ ChainValid(log)
  /\ anchor' = [anchor EXCEPT ![a] =
                  [stage |-> "webhook", head |-> Len(log), got |-> {}]]
  /\ UNCHANGED <<log, sinks, lost, raced, failures>>

(* send_webhook, then request_timestamp: either may fail, and its answer   *)
(* may be lost although it has the head.                                   *)
AnchorSend(a) ==
  LET s == anchor[a].stage
  IN /\ s \in Sinks
     /\ \E has, says \in BOOLEAN :
          /\ says => has
          /\ ~says => failures < MaxFailures
          /\ failures' = IF says THEN failures ELSE failures + 1
          /\ sinks' = IF has
                      THEN [sinks EXCEPT ![s] = @ \cup
                              {<<anchor[a].head, log[anchor[a].head].hash>>}]
                      ELSE sinks
          /\ anchor' = [anchor EXCEPT
                          ![a].stage = IF s = "webhook" THEN "tsa"
                                       ELSE "append",
                          ![a].got = IF says THEN @ \cup {s} ELSE @]
     /\ UNCHANGED <<log, lost, raced>>

(* Mutation of AnchorEnd: the entry names the head as it is by then. *)
AnchorEndAtHead(a) ==
  /\ anchor[a].stage = "append"
  /\ anchor' = [anchor EXCEPT ![a] = Idle]
  /\ IF anchor[a].got = {} THEN UNCHANGED <<log, raced>>
     ELSE Written([kind |-> AnchorKind, subject |-> Len(log),
                   got |-> anchor[a].got])
  /\ UNCHANGED <<sinks, lost, failures>>

(* The end of anchor_once: with at least one sink's answer, an entry. *)
AnchorEnd(a) ==
  /\ anchor[a].stage = "append"
  /\ anchor' = [anchor EXCEPT ![a] = Idle]
  /\ IF anchor[a].got = {} THEN UNCHANGED <<log, raced>>
     ELSE Written([kind |-> AnchorKind, subject |-> anchor[a].head,
                   got |-> anchor[a].got])
  /\ UNCHANGED <<sinks, lost, failures>>

-----------------------------------------------------------------------------
(* The shelf. *)

CONSTANTS
  Requests,  \* uploads and deletions under way at a time
  Images,    \* images; each has one file name: version, build and SHA-256
  MaxEvents, \* bound: uploads, deletions and campaigns
  MaxActive, \* bound: requests and anchors under way at a time
  NoOne

ASSUME ReleasesAssumption ==
  /\ MaxEvents \in Nat /\ MaxActive \in Nat
  /\ NoOne \notin Requests \cup Images

VARIABLES
  artifacts,  \* table firmware_artifacts: id -> image
  lastId,     \* AUTOINCREMENT
  campaigned, \* ids a campaign refers to
  files,      \* firmware_dir: image -> "absent", "torn" or "whole"
  lock,       \* the request that holds the store's mutex, or NoOne
  requests,
  uploads     \* history: uploads of each image begun, 2 for more

shelf       == <<artifacts, lastId, campaigned>>
releaseVars == <<shelf, files, lock, requests, uploads>>
shelfVars        == <<evidenceVars, releaseVars>>

Ids  == 1 .. MaxEvents
AtRest == [stage |-> "idle", image |-> NoOne, id |-> 0]

Uploaded(id) == [kind |-> "uploaded", subject |-> id]
Deleted(id)  == [kind |-> "deleted", subject |-> id]
Created(id)  == [kind |-> "campaign", subject |-> id]

Stages == {"idle", "write", "insert", "unlink", "strayWrite", "strayUnlink"}

ReleasesTypeOK ==
  /\ DOMAIN artifacts \subseteq 1 .. lastId
  /\ \A id \in DOMAIN artifacts : artifacts[id] \in Images
  /\ lastId \in 0 .. MaxEvents
  /\ campaigned \subseteq DOMAIN artifacts
  /\ files \in [Images -> {"absent", "torn", "whole"}]
  /\ requests \in [Requests -> [stage : Stages, image : Images \cup {NoOne},
                                id : 0 .. MaxEvents]]
  /\ \A r \in Requests : lock = r <=> requests[r].stage = "unlink"
  /\ uploads \in [Images -> 0 .. 2]
  /\ \A i \in DOMAIN log : log[i].seq = i
  /\ anchor \in [Anchorers -> [stage : Sinks \cup {"idle", "append"},
                               head : 0 .. Len(log), got : SUBSET Sinks]]
  /\ failures \in 0 .. MaxFailures

ReleasesInit ==
  /\ EvidenceInit
  /\ artifacts = << >> /\ lastId = 0 /\ campaigned = {}
  /\ files = [x \in Images |-> "absent"]
  /\ lock = NoOne
  /\ requests = [r \in Requests |-> AtRest]
  /\ uploads = [x \in Images |-> 0]

Fault == failures < MaxFailures /\ failures' = failures + 1

-----------------------------------------------------------------------------
(* upload_firmware. *)

Writers(x) == {r \in Requests :
                 /\ requests[r].stage \in {"write", "strayWrite"}
                 /\ requests[r].image = x}

(* Mutation of UploadBegin: the row is inserted while the file is written. *)
UploadBeginEarly(r, x) ==
  /\ requests[r].stage = "idle"
  /\ requests' = [requests EXCEPT ![r] =
                    [stage |-> "insert", image |-> x, id |-> 0]]
  /\ files' = [files EXCEPT ![x] = "torn"]
  /\ uploads' = [uploads EXCEPT ![x] = IF @ = 2 THEN 2 ELSE @ + 1]
  /\ UNCHANGED <<evidenceVars, shelf, lock>>

(* fs::write truncates the file and fills it. *)
UploadBegin(r, x) ==
  /\ requests[r].stage = "idle"
  /\ requests' = [requests EXCEPT ![r] =
                    [stage |-> "write", image |-> x, id |-> 0]]
  /\ files' = [files EXCEPT ![x] = "torn"]
  /\ uploads' = [uploads EXCEPT ![x] = IF @ = 2 THEN 2 ELSE @ + 1]
  /\ UNCHANGED <<evidenceVars, shelf, lock>>

UploadWritten(r) ==
  LET x == requests[r].image
  IN /\ requests[r].stage \in {"write", "strayWrite"}
     /\ files' = [files EXCEPT ![x] = IF Writers(x) = {r} THEN "whole" ELSE @]
     /\ requests' = [requests EXCEPT
                       ![r] = IF @.stage = "write"
                              THEN [@ EXCEPT !.stage = "insert"] ELSE AtRest]
     /\ UNCHANGED <<evidenceVars, shelf, lock, uploads>>

(* The write fails: refused, and what was written stays. *)
UploadTorn(r) ==
  /\ requests[r].stage \in {"write", "strayWrite"}
  /\ Fault
  /\ requests' = [requests EXCEPT ![r] = AtRest]
  /\ UNCHANGED <<log, anchor, sinks, lost, raced, shelf, files, lock, uploads>>

(* Mutation of UploadInsert: an image that is listed already is not        *)
(* recorded again.                                                         *)
UploadInsertOnce(r) ==
  /\ requests[r].stage = "insert" /\ lock = NoOne
  /\ lastId' = lastId + 1
  /\ artifacts' = [id \in DOMAIN artifacts \cup {lastId'} |->
                     IF id = lastId' THEN requests[r].image
                     ELSE artifacts[id]]
  /\ IF \E id \in DOMAIN artifacts : artifacts[id] = requests[r].image
     THEN UNCHANGED <<log, raced, lost, failures>>
     ELSE Record(Uploaded(lastId'))
  /\ requests' = [requests EXCEPT ![r] = AtRest]
  /\ UNCHANGED <<anchor, sinks, campaigned, files, lock, uploads>>

(* The row, and with no await between, the evidence. *)
UploadInsert(r) ==
  /\ requests[r].stage = "insert" /\ lock = NoOne
  /\ lastId' = lastId + 1
  /\ artifacts' = [id \in DOMAIN artifacts \cup {lastId'} |->
                     IF id = lastId' THEN requests[r].image
                     ELSE artifacts[id]]
  /\ Record(Uploaded(lastId'))
  /\ requests' = [requests EXCEPT ![r] = AtRest]
  /\ UNCHANGED <<anchor, sinks, campaigned, files, lock, uploads>>

(* The row cannot be inserted: the file is removed, under the lock. *)
UploadRefused(r) ==
  /\ requests[r].stage = "insert" /\ lock = NoOne
  /\ Fault
  /\ lock' = r
  /\ requests' = [requests EXCEPT ![r].stage = "unlink"]
  /\ UNCHANGED <<log, anchor, sinks, lost, raced, shelf, files, uploads>>

-----------------------------------------------------------------------------
(* delete_firmware.  A row that a campaign refers to cannot be deleted     *)
(* (REFERENCES firmware_artifacts, foreign_keys = ON).                     *)
DeleteBegin(r, id) ==
  /\ requests[r].stage = "idle" /\ lock = NoOne
  /\ id \in DOMAIN artifacts \ campaigned
  /\ artifacts' = [j \in DOMAIN artifacts \ {id} |-> artifacts[j]]
  /\ lock' = r
  /\ requests' = [requests EXCEPT ![r] =
                    [stage |-> "unlink", image |-> artifacts[id], id |-> id]]
  /\ UNCHANGED <<evidenceVars, lastId, campaigned, files, uploads>>

(* The file is removed, and a deletion recorded if its request still waits. *)
Unlinked(r) ==
  /\ requests[r].stage \in {"unlink", "strayUnlink"}
  /\ files' = [files EXCEPT ![requests[r].image] = "absent"]
  /\ lock' = IF lock = r THEN NoOne ELSE lock
  /\ requests' = [requests EXCEPT ![r] = AtRest]
  /\ IF requests[r].stage = "unlink" /\ requests[r].id # 0
     THEN Record(Deleted(requests[r].id))
     ELSE UNCHANGED <<log, raced, lost, failures>>
  /\ UNCHANGED <<anchor, sinks, shelf, uploads>>

-----------------------------------------------------------------------------
(* create_campaign, as far as it bears on the row. *)
Campaign(id) ==
  /\ lock = NoOne
  /\ id \in DOMAIN artifacts
  /\ campaigned' = campaigned \cup {id}
  /\ Record(Created(id))
  /\ UNCHANGED <<anchor, sinks, artifacts, lastId, files, lock, requests,
                 uploads>>

Unrecorded(R) == {Deleted(requests[r].id) :
                    r \in {q \in R : /\ requests[q].stage = "unlink"
                                     /\ requests[q].id # 0}}

(* The client of request r is gone: the handler is dropped at its await. *)
Drop(r) ==
  LET stage == requests[r].stage
  IN /\ stage \in {"write", "insert", "unlink"}
     /\ Fault
     /\ requests' = [requests EXCEPT
                       ![r] = CASE stage = "write" ->
                                     [@ EXCEPT !.stage = "strayWrite"]
                                [] stage = "unlink" ->
                                     [@ EXCEPT !.stage = "strayUnlink"]
                                [] OTHER -> AtRest]
     /\ lock' = IF lock = r THEN NoOne ELSE lock
     /\ lost' = lost \cup Unrecorded({r})
     /\ UNCHANGED <<log, anchor, sinks, raced, shelf, files, uploads>>

(* The client of POST /evidence/anchor is gone. *)
DropAnchor(a) ==
  /\ anchor[a].stage \in Sinks
  /\ Fault
  /\ anchor' = [anchor EXCEPT ![a] = Idle]
  /\ UNCHANGED <<log, sinks, lost, raced, releaseVars>>

Crash ==
  /\ Fault
  /\ anchor' = [a \in Anchorers |-> Idle]
  /\ lost' = lost \cup Unrecorded(Requests)
  /\ requests' = [r \in Requests |-> AtRest]
  /\ lock' = NoOne
  /\ UNCHANGED <<log, sinks, raced, shelf, files, uploads>>

Anchoring ==
  /\ \E a \in Anchorers : AnchorBegin(a) \/ AnchorSend(a) \/ AnchorEnd(a)
  /\ UNCHANGED releaseVars

Busy == {r \in Requests : requests[r].stage # "idle"}

Events ==
  Cardinality({i \in DOMAIN log : log[i].event.kind # AnchorKind})
    + Cardinality(lost) + Cardinality(Busy)

Bounded ==
  /\ Events <= MaxEvents
  /\ Cardinality(Busy) + Cardinality(Underway) <= MaxActive
  /\ Cardinality(Underway) > 1 => Events < MaxEvents

Step ==
  \/ \E r \in Requests :
       \/ \E x \in Images : UploadBegin(r, x)
       \/ UploadWritten(r) \/ UploadTorn(r)
       \/ UploadInsert(r) \/ UploadRefused(r)
       \/ \E id \in Ids : DeleteBegin(r, id)
       \/ Unlinked(r) \/ Drop(r)
  \/ \E id \in Ids : Campaign(id)
  \/ Anchoring
  \/ \E a \in Anchorers : DropAnchor(a)
  \/ Crash

ReleasesNext == Step /\ Bounded'

ReleasesSpec == ReleasesInit /\ [][ReleasesNext]_shelfVars

(* A request's own steps: file operations and whoever has the lock finish. *)
Working ==
  \E r \in Requests : UploadWritten(r) \/ UploadInsert(r) \/ Unlinked(r)

(* The schedule runs anchor_once again and again, and its requests time    *)
(* out (30 s).                                                             *)
FairReleases ==
  /\ ReleasesSpec
  /\ WF_shelfVars(Anchoring /\ Bounded')
  /\ WF_shelfVars(Working /\ Bounded')

-----------------------------------------------------------------------------
(* Nothing has failed or been given up, and no row is gone.                *)
Undisturbed == failures = 0 /\ DOMAIN artifacts = 1 .. lastId

(* What is listed can be fetched.  The file of a row is whole, through     *)
(* interrupted uploads, failed writes and crashes, if its image was        *)
(* uploaded once.  Uploads of one image share its file (ota.rs:240-250,    *)
(* 430-437): it is whole while none of them is writing, unless something   *)
(* failed or a row was deleted.                                            *)
ListedIsWhole ==
  \A id \in DOMAIN artifacts :
    \/ files[artifacts[id]] = "whole"
    \/ /\ uploads[artifacts[id]] > 1
       /\ Writers(artifacts[id]) # {} \/ ~Undisturbed

Happened(event) == \E i \in DOMAIN log : log[i].event = event
At(event) == CHOOSE i \in DOMAIN log : log[i].event = event

(* The log tells what became of every image: each row ever inserted has    *)
(* its upload in the log, each row that is gone its deletion, a deletion   *)
(* in the log means that the row is gone, and comes after the upload -     *)
(* where the write did not fail and the request was not dropped, and that  *)
(* nothing is missing while nothing failed                                 *)
(* (docs/guide/evidence-log.md:11-12).                                     *)
LogTellsShelf ==
  /\ failures = 0 => lost = {}
  /\ \A id \in 1 .. lastId :
       /\ Happened(Uploaded(id)) \/ Uploaded(id) \in lost
       /\ \/ id \in DOMAIN artifacts
          \/ Happened(Deleted(id)) \/ Deleted(id) \in lost
          \/ \E r \in Requests : requests[r].stage = "unlink"
                                  /\ requests[r].id = id
       /\ Happened(Deleted(id)) =>
            /\ id \notin DOMAIN artifacts
            /\ Happened(Uploaded(id)) => At(Uploaded(id)) < At(Deleted(id))

(* Together: firmware that is listed is there, and the log knows of it.    *)
ShelfTold == ListedIsWhole /\ LogTellsShelf

(* Not met: deleting one of two rows of an image removes the file of the   *)
(* other, and the removal of an image's file may come between the write    *)
(* and the insert of another upload of it.                                 *)
ListedCanBeFetched == \A id \in DOMAIN artifacts : files[artifacts[id]] # "absent"

(* Not met: "firmware.deleted: An image is deleted"                        *)
(* (docs/guide/evidence-log.md:12): a client that goes away while the file *)
(* is removed, or a crash, leaves a deletion that is not in the log.       *)
DeletionsRecorded ==
  \A id \in 1 .. lastId :
    \/ id \in DOMAIN artifacts \/ Happened(Deleted(id))
    \/ \E r \in Requests : requests[r].stage = "unlink" /\ requests[r].id = id

Changed == [kind |-> "changed", subject |-> 0]

(* What verify finds (docs/guide/evidence-log.md:37-41): the log as the    *)
(* server wrote it is valid; with one row changed, one row changed and     *)
(* rehashed, or one row missing it is not, unless it is the last.          *)
ChainShows ==
  /\ ChainValid(log)
  /\ \A i \in DOMAIN log :
       LET changed  == [log EXCEPT ![i].event = Changed]
           rehashed == [changed EXCEPT
                          ![i].hash = Hash(log[i].prev, i, Changed)]
           missing  == [j \in 1 .. Len(log) - 1 |->
                          IF j < i THEN log[j] ELSE log[j + 1]]
       IN /\ ~ChainValid(changed)
          /\ i < Len(log) => ~ChainValid(rehashed) /\ ~ChainValid(missing)

(* The log with row i changed and every hash from there on recomputed. *)
Rewritten(i) ==
  LET row[j \in DOMAIN log] ==
        IF j < i THEN log[j]
        ELSE LET prev  == IF j = 1 THEN Genesis ELSE row[j - 1].hash
                 event == IF j = i THEN Changed ELSE log[j].event
             IN [seq |-> j, event |-> event, prev |-> prev,
                 hash |-> Hash(prev, j, event)]
  IN row

(* What a sink holds pins the log up to there: the log still has that hash *)
(* at that place, and no log with an earlier row changed does, not even    *)
(* one that verifies (docs/guide/evidence-log.md:43, 117).                 *)
AnchorPins ==
  LET held == sinks["webhook"] \cup sinks["tsa"]
  IN /\ \A h \in held : h[1] \in DOMAIN log /\ log[h[1]].hash = h[2]
     /\ \A i \in DOMAIN log :
          LET other == Rewritten(i)
          IN /\ ChainValid(other)
             /\ \A h \in held : i <= h[1] => other[h[1]].hash # h[2]

(* A log that was tampered with shows it, in its chain or at the sinks. *)
TamperingShows == ChainShows /\ AnchorPins

(* An anchor entry claims no more than is so: every sink it names has the  *)
(* head it names, though other entries and another anchor came between.    *)
AnchorTruthful ==
  \A i \in DOMAIN log : log[i].event.kind = AnchorKind =>
    LET e == log[i].event
    IN /\ e.got # {} /\ e.subject < i
       /\ \A s \in e.got : <<e.subject, log[e.subject].hash>> \in sinks[s]

(* Together: the log and its anchors can be believed.                      *)
LogTrusted == TamperingShows /\ AnchorTruthful

Anchored(i) ==
  \E j \in DOMAIN log : log[j].event.kind = AnchorKind
                         /\ i <= log[j].event.subject

Settled(i) ==
  i \in DOMAIN log /\ (log[i].event.kind = AnchorKind \/ i \in raced
                          \/ Anchored(i))

(* While anchoring is scheduled and the sinks answer, every event in the   *)
(* log is anchored in the end - but for the entries written while an       *)
(* anchor was on its way, which nothing may follow                         *)
(* (docs/guide/evidence-log.md:97).                                        *)
EventuallyAnchored ==
  \A i \in 1 .. MaxEvents : (i \in DOMAIN log) ~> Settled(i)
=============================================================================
