----------------------------- MODULE Credentials -----------------------------
(***************************************************************************)
(* Device credentials and duplicate suppression in the server              *)
(* (ferrite-server/src/credentials.rs, and ingest.rs from                  *)
(* open_with_credential to the commit).                                    *)
(*                                                                         *)
(* A sealed chunk is identified by its nonce: the key it was sealed with,  *)
(* the boot epoch of the device and a counter.  Gateways repeat, delay and *)
(* reorder chunks, so any chunk of a key that has been issued may arrive   *)
(* at any time, any number of times, in several requests at once.  The     *)
(* server looks the key up, records the counter, and stores the chunk:     *)
(* three steps under three locks, in two databases.                        *)
(***************************************************************************)
EXTENDS Naturals, Sequences, FiniteSets

CONSTANTS
  Devices,
  Requests,      \* ingest requests the server handles at once
  Epochs,        \* boot epochs
  ReplayWindow,  \* counters of an epoch remembered one by one (4096)
  RecentEpochs,  \* epochs of a key that keep their window (32)
  MaxCounter,    \* bound: counters go from 0 to MaxCounter
  MaxKeys,       \* bound: keys issued in a behaviour
  MaxClock,      \* bound: seconds
  MaxFailures,   \* bound: database failures and crashes
  None

ASSUME CredentialsAssumption ==
  /\ ReplayWindow \in Nat \ {0}
  /\ RecentEpochs \in Nat \ {0}
  /\ MaxCounter \in Nat
  /\ MaxKeys \in Nat
  /\ MaxClock \in Nat
  /\ MaxFailures \in Nat
  /\ None \notin Nat

Keys    == 1 .. MaxKeys
Counter == 0 .. MaxCounter
EpochOf == Keys \X Epochs          \* the primary key of credential_epochs
Nonce   == [key : Keys, epoch : Epochs, counter : Counter]

VARIABLES
  cred,       \* device_credentials: each device's key, or None
  lastKey,    \* keys issued so far; a key id is never issued again
  rows,       \* credential_epochs: <<key, epoch>> -> row
  order,      \* the primary keys of rows in order of rowid
  clock,      \* datetime('now'), in seconds
  req,        \* what each request is doing
  failures,
  fresh,      \* history: how often a chunk was judged Fresh
  stored,     \* history: chunks committed to the store
  lost,       \* history: chunks of a transaction that failed or never ran
  compacted   \* history: <<key, epoch>> -> its highest counter when compacted

table   == <<rows, order>>
history == <<fresh, stored, lost, compacted>>
vars == <<cred, lastKey, table, clock, req, failures, history>>

Row == [max : Counter, seen : SUBSET Counter, windowed : BOOLEAN,
        at : 0 .. MaxClock]

Idle == [stage |-> "idle", chunk |-> None]

TypeOK ==
  /\ cred \in [Devices -> Keys \cup {None}]
  /\ lastKey \in 0 .. MaxKeys
  /\ DOMAIN rows \subseteq EpochOf
  /\ \A e \in DOMAIN rows : rows[e] \in Row
  /\ order \in Seq(EpochOf)
  /\ clock \in 0 .. MaxClock
  /\ req \in [Requests -> {Idle} \cup
                           [stage : {"opened", "fresh"}, chunk : Nonce]]
  /\ failures \in 0 .. MaxFailures
  /\ fresh \in [Nonce -> Nat]
  /\ stored \subseteq Nonce
  /\ lost \subseteq Nonce
  /\ DOMAIN compacted \subseteq EpochOf

Init ==
  /\ cred = [d \in Devices |-> None]
  /\ lastKey = 0
  /\ rows = <<>>
  /\ order = <<>>
  /\ clock = 0
  /\ req = [r \in Requests |-> Idle]
  /\ failures = 0
  /\ fresh = [n \in Nonce |-> 0]
  /\ stored = {}
  /\ lost = {}
  /\ compacted = <<>>

Live(key) == \E d \in Devices : cred[d] = key
Without(f, S) == [x \in DOMAIN f \ S |-> f[x]]
RowsOf(key) == {e \in DOMAIN rows : e[1] = key}

-----------------------------------------------------------------------------
(* Keys. *)

Forget(key) ==
  /\ rows' = Without(rows, RowsOf(key))
  /\ order' = SelectSeq(order, LAMBDA e : e[1] # key)

(* A new key for the device, and the epochs of the key it replaces are     *)
(* deleted.                                                                *)
Issue(d) ==
  /\ lastKey < MaxKeys
  /\ lastKey' = lastKey + 1
  /\ cred' = [cred EXCEPT ![d] = lastKey']
  /\ IF cred[d] = None THEN UNCHANGED table ELSE Forget(cred[d])
  /\ UNCHANGED <<clock, req, failures, history>>

Revoke(d) ==
  /\ cred[d] # None
  /\ cred' = [cred EXCEPT ![d] = None]
  /\ Forget(cred[d])
  /\ UNCHANGED <<lastKey, clock, req, failures, history>>

-----------------------------------------------------------------------------
(* Counters. *)

(* Bit i of the window stands for counter max - i. *)
InWindow(max, c) == max - c < ReplayWindow

(* window_accept. *)
Verdict(row, c) ==
  IF c > row.max THEN "Fresh"
  ELSE IF ~row.windowed \/ ~InWindow(row.max, c) THEN "Stale"
  ELSE IF c \in row.seen THEN "Replayed"
  ELSE "Fresh"

(* Mutations of Noted: a higher counter starts the window afresh; it marks *)
(* the counters it skips.                                                  *)
NotedForgetful(row, c) ==
  IF c > row.max
  THEN [max |-> c, seen |-> {c}, windowed |-> TRUE, at |-> clock]
  ELSE [row EXCEPT !.seen = @ \cup {c}, !.at = clock]

NotedFilling(row, c) ==
  IF c > row.max
  THEN [max |-> c,
        seen |-> {s \in row.seen \cup (row.max .. c) : InWindow(c, s)},
        windowed |-> TRUE, at |-> clock]
  ELSE [row EXCEPT !.seen = @ \cup {c}, !.at = clock]

(* The row after a counter judged Fresh.  A row without a window gets a    *)
(* new one.                                                                *)
Noted(row, c) ==
  IF c > row.max
  THEN [max |-> c,
        seen |-> {c} \cup
          (IF row.windowed THEN {s \in row.seen : InWindow(c, s)} ELSE {}),
        windowed |-> TRUE, at |-> clock]
  ELSE [row EXCEPT !.seen = @ \cup {c}, !.at = clock]

(* ORDER BY updated_at DESC, rowid DESC. *)
Newer(tab, ord, e, f) ==
  \/ tab[e].at > tab[f].at
  \/ /\ tab[e].at = tab[f].at
     /\ \E i, j \in DOMAIN ord : ord[i] = e /\ ord[j] = f /\ i > j

(* Epochs of the key that are not among its newest RecentEpochs. *)
Old(tab, ord, key) ==
  {e \in DOMAIN tab :
     /\ e[1] = key
     /\ Cardinality({f \in DOMAIN tab : f[1] = key /\ Newer(tab, ord, f, e)})
          >= RecentEpochs}

(* Older epochs lose their window: seen = x''. *)
Compacted(tab, old) ==
  [e \in DOMAIN tab |->
     IF e \in old THEN [tab[e] EXCEPT !.seen = {}, !.windowed = FALSE]
     ELSE tab[e]]

Higher(a, b) == IF a > b THEN a ELSE b

(* The floor of a compacted epoch never sinks. *)
NoteCompacted(tab, old) ==
  compacted' = [e \in DOMAIN compacted \cup old |->
     IF e \notin old THEN compacted[e]
     ELSE IF e \in DOMAIN compacted THEN Higher(compacted[e], tab[e].max)
     ELSE tab[e].max]

FirstRow(c) == [max |-> c, seen |-> {c}, windowed |-> TRUE, at |-> clock]

-----------------------------------------------------------------------------
(* A request. *)

(* key_for, and the tag verifies: only chunks of live keys get further. *)
Open(r, n) ==
  /\ req[r] = Idle
  /\ Live(n.key)
  /\ req' = [req EXCEPT ![r] = [stage |-> "opened", chunk |-> n]]
  /\ UNCHANGED <<cred, lastKey, table, clock, failures, history>>

Done(r) == req' = [req EXCEPT ![r] = Idle]
Judged(r, n) ==
  /\ req' = [req EXCEPT ![r].stage = "fresh"]
  /\ fresh' = [fresh EXCEPT ![n] = @ + 1]

(* accept_counter for an epoch the table does not have: insert, compact. *)
AcceptFirst(r) ==
  LET n == req[r].chunk
      e == <<n.key, n.epoch>>
      tab == [x \in DOMAIN rows \cup {e} |->
                IF x = e THEN FirstRow(n.counter) ELSE rows[x]]
      ord == Append(order, e)
      old == Old(tab, ord, n.key)
  IN /\ req[r].stage = "opened"
     /\ e \notin DOMAIN rows
     /\ rows' = Compacted(tab, old)
     /\ order' = ord
     /\ NoteCompacted(tab, old)
     /\ Judged(r, n)
     /\ UNCHANGED <<cred, lastKey, clock, failures, stored, lost>>

(* accept_counter for a known epoch. *)
AcceptNext(r) ==
  LET n == req[r].chunk
      e == <<n.key, n.epoch>>
  IN /\ req[r].stage = "opened"
     /\ e \in DOMAIN rows
     /\ Verdict(rows[e], n.counter) = "Fresh"
     /\ rows' = [rows EXCEPT ![e] = Noted(@, n.counter)]
     /\ Judged(r, n)
     /\ UNCHANGED <<cred, lastKey, order, clock, failures, stored, lost,
                    compacted>>

(* A chunk judged Replayed or Stale is refused; the answer is 207, which   *)
(* no sender repeats.                                                      *)
Refuse(r) ==
  LET n == req[r].chunk
      e == <<n.key, n.epoch>>
  IN /\ req[r].stage = "opened"
     /\ e \in DOMAIN rows
     /\ Verdict(rows[e], n.counter) # "Fresh"
     /\ Done(r)
     /\ UNCHANGED <<cred, lastKey, table, clock, failures, history>>

(* Mutation of Commit: the handler returns without committing. *)
CommitForgotten(r) ==
  /\ req[r].stage = "fresh"
  /\ Done(r)
  /\ UNCHANGED <<cred, lastKey, table, clock, failures, history>>

(* BEGIN .. COMMIT on the store, under its lock. *)
Commit(r) ==
  /\ req[r].stage = "fresh"
  /\ stored' = stored \cup {req[r].chunk}
  /\ Done(r)
  /\ UNCHANGED <<cred, lastKey, table, clock, failures, fresh, lost,
                 compacted>>

(* begin_transaction or commit_transaction fails: the answer is 500 and    *)
(* the sender will try again.                                              *)
CommitFails(r) ==
  /\ req[r].stage = "fresh"
  /\ failures < MaxFailures
  /\ failures' = failures + 1
  /\ lost' = lost \cup {req[r].chunk}
  /\ Done(r)
  /\ UNCHANGED <<cred, lastKey, table, clock, fresh, stored, compacted>>

(* Requests whose chunk is recorded but not yet in the store. *)
InHand == {r \in Requests : req[r].stage = "fresh"}

(* The server stops and starts again; both databases survive. *)
Crash ==
  /\ failures < MaxFailures
  /\ failures' = failures + 1
  /\ lost' = lost \cup {req[r].chunk : r \in InHand}
  /\ req' = [r \in Requests |-> Idle]
  /\ UNCHANGED <<cred, lastKey, table, clock, fresh, stored, compacted>>

Tick ==
  /\ clock < MaxClock
  /\ clock' = clock + 1
  /\ UNCHANGED <<cred, lastKey, table, req, failures, history>>

-----------------------------------------------------------------------------
Handle(r) ==
  \/ \E n \in Nonce : Open(r, n)
  \/ AcceptFirst(r) \/ AcceptNext(r) \/ Refuse(r)
  \/ Commit(r) \/ CommitFails(r)

Next ==
  \/ \E d \in Devices : Issue(d) \/ Revoke(d)
  \/ \E r \in Requests : Handle(r)
  \/ Crash \/ Tick

Spec == Init /\ [][Next]_vars

-----------------------------------------------------------------------------
(* Properties. *)

(* However often a chunk is delivered, it is accepted once, as long as its *)
(* key is in force and its epoch has kept its window (credentials.rs:8-11).*)
AcceptedOnce ==
  \A n \in Nonce :
    Live(n.key) /\ <<n.key, n.epoch>> \notin DOMAIN compacted => fresh[n] <= 1

(* What the window remembers was accepted: a chunk that is new is never    *)
(* refused as replayed, in whatever order chunks arrive.                   *)
ReplayedWasAccepted ==
  \A e \in DOMAIN rows : \A c \in rows[e].seen :
    fresh[[key |-> e[1], epoch |-> e[2], counter |-> c]] > 0

(* The window never covers more than ReplayWindow counters, and its newest *)
(* counter is in it.                                                       *)
WindowSound ==
  \A e \in DOMAIN rows :
    rows[e].windowed =>
      /\ rows[e].max \in rows[e].seen
      /\ \A c \in rows[e].seen : c <= rows[e].max /\ InWindow(rows[e].max, c)

(* What the window remembers, and would refuse when it comes again, is in  *)
(* the store, in the hands of a request, or was lost to a failure between  *)
(* the two databases.                                                      *)
RememberedIsKept ==
  \A e \in DOMAIN rows : \A c \in rows[e].seen :
    LET n == [key |-> e[1], epoch |-> e[2], counter |-> c]
    IN n \in stored \cup lost \/ \E r \in InHand : req[r].chunk = n

(* Not met.  An epoch that lost its window accepts nothing at or below the *)
(* highest counter it had then (credentials.rs:11-12).                     *)
OldEpochsShut ==
  [][\A n \in Nonce :
       LET e == <<n.key, n.epoch>>
       IN fresh'[n] > fresh[n] /\ Live(n.key) /\ e \in DOMAIN compacted
            => n.counter > compacted[e]]_vars
=============================================================================
