--------------------------- MODULE CredentialsProofs ------------------------
(***************************************************************************)
(* Proofs about what the server makes of single requests.                  *)
(*                                                                         *)
(* Credentials: duplicate suppression works while a key is in force and    *)
(* its epoch keeps its window, for every window size, number of recent     *)
(* epochs, device, request, and order of arrival.  The invariant says what *)
(* a row of credential_epochs knows: without a row nothing of the epoch    *)
(* was accepted; with one, everything accepted is at most the row's        *)
(* maximum, and is in the window if it is recent enough.  The rest keeps   *)
(* keys apart: a key belongs to one device at most, and nothing refers to  *)
(* a key that has not been issued.                                         *)
(*                                                                         *)
(* KeyCache, Access and SignIn together are UsersServed: whose key is      *)
(* published until the answer is never refused; every request is answered  *)
(* as the documentation says of its user, for any users, roles and paths;  *)
(* and a code meets the verifier it was asked for with.                    *)
(*                                                                         *)
(* Symbols and DeviceLog together are ReadersTold: a file that replaced    *)
(* another is never that other again, and what the log says of a device is *)
(* its row and its key, counted with what is still owed and what was lost. *)
(***************************************************************************)
EXTENDS MCCredentials, FiniteSetTheorems, SequenceTheorems, TLAPS

-----------------------------------------------------------------------------
(* Credentials *)

EpochKey(n) == <<n.key, n.epoch>>

KeyInv ==
  /\ lastKey \in Nat
  /\ cred \in [Devices -> Keys \cup {None}]
  /\ \A d \in Devices : cred[d] # None => cred[d] <= lastKey
  /\ \A d, f \in Devices : cred[d] # None /\ cred[d] = cred[f] => d = f

RequestInv ==
  /\ req \in [Requests -> {Idle} \cup
                [stage : {"opened", "fresh"}, chunk : Nonce]]
  /\ \A r \in Requests : req[r] # Idle => req[r].chunk.key <= lastKey

TableInv ==
  /\ DOMAIN rows \subseteq EpochOf
  /\ \A e \in DOMAIN rows : rows[e] \in Row /\ e[1] <= lastKey
  /\ clock \in 0 .. MaxClock
  /\ fresh \in [Nonce -> Nat]
  /\ \A n \in Nonce : n.key > lastKey => fresh[n] = 0

(* What the row of an epoch with an unbroken window knows. *)
Knows(w, n, count) ==
  /\ w.windowed
  /\ count <= 1
  /\ count # 0 => /\ n.counter <= w.max
                  /\ InWindow(w.max, n.counter) => n.counter \in w.seen

OnceInv ==
  \A n \in Nonce :
    Live(n.key) =>
      /\ EpochKey(n) \notin DOMAIN rows => fresh[n] = 0
      /\ EpochKey(n) \in DOMAIN rows /\ EpochKey(n) \notin DOMAIN compacted
           => Knows(rows[EpochKey(n)], n, fresh[n])

CredInv == KeyInv /\ RequestInv /\ TableInv /\ OnceInv

-----------------------------------------------------------------------------
(* A new key was never live, and has no row and no accepted chunk. *)
LEMMA KeyTypes == \A n \in Nonce : n.key \in Nat /\ n.counter \in Nat
BY CredentialsAssumption DEF Nonce, Keys, Counter

LEMMA IssueStep ==
  ASSUME CredInv, NEW d \in Devices, Issue(d)
  PROVE  CredInv'
<1> USE CredentialsAssumption DEF CredInv
<1>0. /\ lastKey' = lastKey + 1 /\ lastKey' \in Keys
      /\ cred' = [cred EXCEPT ![d] = lastKey']
  BY DEF Issue, KeyInv, Keys
<1>1. KeyInv'
  BY <1>0 DEF KeyInv, Keys
<1>2. RequestInv'
  BY <1>0 DEF RequestInv, Issue, KeyInv, Nonce, Keys
<1>3. /\ DOMAIN rows' \subseteq DOMAIN rows
      /\ \A e \in DOMAIN rows' : rows'[e] = rows[e]
  BY DEF Issue, Forget, Without, table
<1>4. TableInv'
  <2>1. fresh' = fresh
    BY DEF Issue, history
  <2>2. clock' = clock
    BY DEF Issue
  <2>. QED
    BY <1>0, <1>3, <2>1, <2>2, KeyTypes DEF TableInv, KeyInv, EpochOf, Keys
<1>5. OnceInv'
  <2> SUFFICES ASSUME NEW n \in Nonce, Live(n.key)'
               PROVE  /\ EpochKey(n) \notin DOMAIN rows' => fresh'[n] = 0
                      /\ EpochKey(n) \in DOMAIN rows'
                         /\ EpochKey(n) \notin DOMAIN compacted'
                           => Knows(rows'[EpochKey(n)], n, fresh'[n])
    BY DEF OnceInv, Knows, InWindow, EpochKey
  <2>1. fresh' = fresh /\ compacted' = compacted
    BY DEF Issue, history
  <2>2. CASE n.key = lastKey + 1
    <3>1. fresh[n] = 0
      BY <2>2, KeyTypes DEF TableInv, KeyInv
    <3>2. EpochKey(n) \notin DOMAIN rows
      BY <2>2 DEF TableInv, KeyInv, EpochKey
    <3>. QED
      BY <1>3, <2>1, <3>1, <3>2
  <2>3. CASE n.key # lastKey + 1
    <3>1. Live(n.key) /\ n.key # cred[d]
      BY <1>0, <2>3, KeyTypes DEF Live, KeyInv
    <3>2. EpochKey(n) \in DOMAIN rows => EpochKey(n) \in DOMAIN rows'
      BY <3>1 DEF Issue, Forget, Without, RowsOf, EpochKey, table
    <3>. QED
      BY <1>3, <2>1, <3>1, <3>2 DEF OnceInv
  <2>. QED
    BY <2>2, <2>3
<1>. QED
  BY <1>1, <1>2, <1>4, <1>5

LEMMA RevokeStep ==
  ASSUME CredInv, NEW d \in Devices, Revoke(d)
  PROVE  CredInv'
<1> USE CredentialsAssumption DEF CredInv
<1>0. /\ cred' = [cred EXCEPT ![d] = None]
      /\ UNCHANGED <<lastKey, clock, req, fresh, compacted>>
  BY DEF Revoke, history
<1>1. KeyInv'
  BY <1>0 DEF KeyInv
<1>2. RequestInv'
  BY <1>0 DEF RequestInv
<1>3. /\ DOMAIN rows' \subseteq DOMAIN rows
      /\ \A e \in DOMAIN rows' : rows'[e] = rows[e]
  BY DEF Revoke, Forget, Without
<1>4. TableInv'
  BY <1>0, <1>3 DEF TableInv
<1>5. OnceInv'
  <2> SUFFICES ASSUME NEW n \in Nonce, Live(n.key)'
               PROVE  /\ EpochKey(n) \notin DOMAIN rows' => fresh'[n] = 0
                      /\ EpochKey(n) \in DOMAIN rows'
                         /\ EpochKey(n) \notin DOMAIN compacted'
                           => Knows(rows'[EpochKey(n)], n, fresh'[n])
    BY DEF OnceInv, Knows, InWindow, EpochKey
  <2>1. Live(n.key) /\ n.key # cred[d]
    BY <1>0, KeyTypes DEF Live, KeyInv, Revoke
  <2>2. EpochKey(n) \in DOMAIN rows => EpochKey(n) \in DOMAIN rows'
    BY <2>1 DEF Revoke, Forget, Without, RowsOf, EpochKey
  <2>. QED
    BY <1>0, <1>3, <2>1, <2>2 DEF OnceInv
<1>. QED
  BY <1>1, <1>2, <1>4, <1>5

(* Steps of a request that leave the tables of counters alone. *)
LEMMA RequestStep ==
  ASSUME CredInv, NEW r \in Requests, NEW n \in Nonce,
         \/ Open(r, n) \/ Refuse(r) \/ Commit(r) \/ CommitFails(r)
  PROVE  CredInv'
<1> USE DEF CredInv
<1>1. UNCHANGED <<cred, lastKey, rows, fresh, compacted>>
  BY DEF Open, Refuse, Commit, CommitFails, history, table
<1>2. KeyInv' /\ OnceInv'
  BY <1>1 DEF KeyInv, OnceInv, Live, Knows, InWindow, EpochKey
<1>4. TableInv'
  BY <1>1 DEF Open, Refuse, Commit, CommitFails, TableInv
<1>3. RequestInv'
  <2>1. CASE Open(r, n)
    <3>1. /\ req' = [req EXCEPT ![r] = [stage |-> "opened", chunk |-> n]]
          /\ Live(n.key)
      BY <2>1 DEF Open
    <3>2. n.key <= lastKey
      BY <3>1, KeyTypes, CredentialsAssumption DEF Live, KeyInv
    <3>. QED
      BY <1>1, <3>1, <3>2 DEF RequestInv
  <2>2. CASE Refuse(r) \/ Commit(r) \/ CommitFails(r)
    <3>1. req' = [req EXCEPT ![r] = Idle]
      BY <2>2 DEF Refuse, Commit, CommitFails, Done
    <3>. QED
      BY <1>1, <3>1 DEF RequestInv
  <2>. QED
    BY <2>1, <2>2
<1>. QED
  BY <1>2, <1>3, <1>4

LEMMA QuietStep ==
  ASSUME CredInv, Crash \/ Tick
  PROVE  CredInv'
<1> USE DEF CredInv
<1>1. UNCHANGED <<cred, lastKey, rows, fresh, compacted>>
  BY DEF Crash, Tick, history, table
<1>2. KeyInv' /\ OnceInv'
  BY <1>1 DEF KeyInv, OnceInv, Live, Knows, InWindow, EpochKey
<1>3. TableInv'
  BY <1>1, CredentialsAssumption DEF Crash, Tick, TableInv
<1>4. RequestInv'
  BY <1>1 DEF Crash, Tick, RequestInv
<1>. QED
  BY <1>2, <1>3, <1>4

LEMMA JudgedFacts ==
  ASSUME CredInv, NEW r \in Requests, req[r].stage = "opened",
         Judged(r, req[r].chunk), UNCHANGED lastKey
  PROVE  /\ RequestInv'
         /\ req[r].chunk \in Nonce /\ req[r].chunk.key <= lastKey
         /\ fresh' = [fresh EXCEPT ![req[r].chunk] = @ + 1]
<1> USE DEF CredInv
<1>1. req[r] # Idle
  BY DEF Idle
<1>2. req[r] \in [stage : {"opened", "fresh"}, chunk : Nonce]
  BY <1>1 DEF RequestInv
<1>3. req[r].chunk \in Nonce /\ req[r].chunk.key <= lastKey
  BY <1>1, <1>2 DEF RequestInv
<1>4. [req[r] EXCEPT !.stage = "fresh"]
        \in [stage : {"opened", "fresh"}, chunk : Nonce]
  BY <1>2
<1>5. [req[r] EXCEPT !.stage = "fresh"].chunk = req[r].chunk
  BY <1>2
<1>6. req' = [req EXCEPT ![r] = [req[r] EXCEPT !.stage = "fresh"]]
  BY DEF Judged
<1>7. RequestInv'
  BY <1>3, <1>4, <1>5, <1>6 DEF RequestInv
<1>. QED
  BY <1>3, <1>7 DEF Judged

LEMMA RowTypes ==
  ASSUME TableInv, NEW c \in Counter
  PROVE  /\ FirstRow(c) \in Row
         /\ \A w \in Row : Noted(w, c) \in Row
<1>1. FirstRow(c) \in Row
  BY DEF FirstRow, Row, TableInv
<1>2. ASSUME NEW w \in Row PROVE Noted(w, c) \in Row
  <2>1. CASE c > w.max
    BY <2>1 DEF Noted, Row, TableInv
  <2>2. CASE ~(c > w.max)
    BY <2>2 DEF Noted, Row, TableInv
  <2>. QED
    BY <2>1, <2>2
<1>. QED
  BY <1>1, <1>2

LEMMA CompactedTypes ==
  ASSUME NEW tbl, \A e \in DOMAIN tbl : tbl[e] \in Row, NEW old
  PROVE  /\ DOMAIN Compacted(tbl, old) = DOMAIN tbl
         /\ \A e \in DOMAIN tbl :
              /\ Compacted(tbl, old)[e] \in Row
              /\ Compacted(tbl, old)[e].max = tbl[e].max
              /\ e \notin old => Compacted(tbl, old)[e] = tbl[e]
              /\ e \in old => ~Compacted(tbl, old)[e].windowed
              /\ Compacted(tbl, old)[e].seen \subseteq tbl[e].seen
<1>1. ASSUME NEW w \in Row
      PROVE  LET new == [w EXCEPT !.seen = {}, !.windowed = FALSE]
             IN /\ new \in Row /\ new.max = w.max
                /\ ~new.windowed /\ new.seen = {}
  BY DEF Row
<1>. QED
  BY <1>1 DEF Compacted

LEMMA AcceptFirstStep ==
  ASSUME CredInv, NEW r \in Requests, AcceptFirst(r)
  PROVE  CredInv'
<1> USE CredentialsAssumption DEF CredInv
<1> DEFINE n0 == req[r].chunk
           e0 == <<n0.key, n0.epoch>>
           tbl == [x \in DOMAIN rows \cup {e0} |->
                     IF x = e0 THEN FirstRow(n0.counter) ELSE rows[x]]
           old == Old(tbl, Append(order, e0), n0.key)
<1>0. /\ req[r].stage = "opened" /\ e0 \notin DOMAIN rows
      /\ rows' = Compacted(tbl, old)
      /\ NoteCompacted(tbl, old)
      /\ Judged(r, n0)
      /\ UNCHANGED <<cred, lastKey>>
  BY DEF AcceptFirst
<1>1. /\ RequestInv' /\ n0 \in Nonce /\ n0.key <= lastKey
      /\ fresh' = [fresh EXCEPT ![n0] = @ + 1]
  BY <1>0, JudgedFacts
<1>2. KeyInv'
  BY <1>0 DEF KeyInv
<1>3. DOMAIN tbl = DOMAIN rows \cup {e0}
  OBVIOUS
<1>4. \A e \in DOMAIN tbl : tbl[e] \in Row
  <2>1. n0.counter \in Counter
    BY <1>1 DEF Nonce
  <2>. QED
    BY <2>1, RowTypes DEF TableInv
<1> HIDE DEF old, tbl
<1>5. /\ DOMAIN rows' = DOMAIN tbl
      /\ \A e \in DOMAIN tbl : rows'[e] \in Row
      /\ \A e \in DOMAIN tbl : e \notin old => rows'[e] = tbl[e]
  BY <1>0, <1>4, CompactedTypes
<1>6. DOMAIN compacted' = DOMAIN compacted \cup old
  BY <1>0 DEF NoteCompacted
<1>7. /\ DOMAIN rows' = DOMAIN rows \cup {e0}
      /\ \A e \in DOMAIN rows : e \notin old => rows'[e] = rows[e]
      /\ e0 \notin old => rows'[e0] = FirstRow(n0.counter)
  BY <1>0, <1>5 DEF tbl
<1>8. TableInv'
  <2>1. e0 \in EpochOf /\ n0.counter \in Counter
    BY <1>1 DEF EpochOf, Nonce
  <2>2. fresh' \in [Nonce -> Nat]
    BY <1>1 DEF TableInv
  <2>3. \A n \in Nonce : n.key > lastKey' => fresh'[n] = 0
    BY <1>0, <1>1, KeyTypes DEF TableInv, KeyInv
  <2>4. \A e \in DOMAIN rows' : e[1] <= lastKey'
    BY <1>0, <1>1, <1>7 DEF TableInv
  <2>5. clock' = clock
    BY DEF AcceptFirst
  <2>. QED
    BY <1>5, <1>7, <2>1, <2>2, <2>3, <2>4, <2>5 DEF TableInv
<1>9. OnceInv'
  <2> SUFFICES ASSUME NEW n \in Nonce, Live(n.key)'
               PROVE  /\ EpochKey(n) \notin DOMAIN rows' => fresh'[n] = 0
                      /\ EpochKey(n) \in DOMAIN rows'
                         /\ EpochKey(n) \notin DOMAIN compacted'
                           => Knows(rows'[EpochKey(n)], n, fresh'[n])
    BY DEF OnceInv, Knows, InWindow, EpochKey
  <2>1. Live(n.key)
    BY <1>0 DEF Live
  <2>2. CASE EpochKey(n) # e0
    <3>1. fresh'[n] = fresh[n]
      BY <1>1, <2>2 DEF EpochKey, TableInv
    <3>. QED
      BY <1>6, <1>7, <2>1, <2>2, <3>1 DEF OnceInv
  <2>3. CASE EpochKey(n) = e0
    <3>1. fresh[n] = 0
      BY <1>0, <2>1, <2>3 DEF OnceInv
    <3>2. fresh'[n] = IF n = n0 THEN 1 ELSE 0
      BY <1>1, <3>1 DEF TableInv
    <3>3. Knows(FirstRow(n0.counter), n, fresh'[n])
      <4>1. n.counter \in Nat
        BY KeyTypes
      <4>. QED
        BY <3>2, <4>1 DEF Knows, FirstRow, InWindow
    <3>. QED
      BY <1>6, <1>7, <2>3, <3>3
  <2>. QED
    BY <2>2, <2>3
<1>. QED
  BY <1>1, <1>2, <1>8, <1>9

LEMMA AcceptNextStep ==
  ASSUME CredInv, NEW r \in Requests, AcceptNext(r)
  PROVE  CredInv'
<1> USE CredentialsAssumption DEF CredInv
<1> DEFINE n0 == req[r].chunk
           e0 == <<n0.key, n0.epoch>>
           w == rows[e0]
<1>0. /\ req[r].stage = "opened" /\ e0 \in DOMAIN rows
      /\ Verdict(w, n0.counter) = "Fresh"
      /\ rows' = [rows EXCEPT ![e0] = Noted(w, n0.counter)]
      /\ Judged(r, n0)
      /\ UNCHANGED <<cred, lastKey, compacted>>
  BY DEF AcceptNext
<1>1. /\ RequestInv' /\ n0 \in Nonce /\ n0.key <= lastKey
      /\ fresh' = [fresh EXCEPT ![n0] = @ + 1]
  BY <1>0, JudgedFacts
<1>2. KeyInv'
  BY <1>0 DEF KeyInv
<1>3. /\ n0.counter \in Nat /\ n0.counter \in Counter
      /\ w.max \in Nat /\ w.max \in Counter
  BY <1>0, <1>1, KeyTypes DEF TableInv, Row, Counter, Nonce
<1>4. w \in Row /\ Noted(w, n0.counter) \in Row
  BY <1>0, <1>3, RowTypes DEF TableInv
<1>5. TableInv'
  <2>1. fresh' \in [Nonce -> Nat]
    BY <1>1 DEF TableInv
  <2>2. \A n \in Nonce : n.key > lastKey' => fresh'[n] = 0
    BY <1>0, <1>1, KeyTypes DEF TableInv, KeyInv
  <2>3. clock' = clock
    BY DEF AcceptNext
  <2>. QED
    BY <1>0, <1>4, <2>1, <2>2, <2>3 DEF TableInv
<1>6. OnceInv'
  <2> SUFFICES ASSUME NEW n \in Nonce, Live(n.key)'
               PROVE  /\ EpochKey(n) \notin DOMAIN rows' => fresh'[n] = 0
                      /\ EpochKey(n) \in DOMAIN rows'
                         /\ EpochKey(n) \notin DOMAIN compacted'
                           => Knows(rows'[EpochKey(n)], n, fresh'[n])
    BY DEF OnceInv, Knows, InWindow, EpochKey
  <2>1. Live(n.key)
    BY <1>0 DEF Live
  <2>2. CASE EpochKey(n) # e0
    <3>1. fresh'[n] = fresh[n]
      BY <1>1, <2>2 DEF EpochKey, TableInv
    <3>. QED
      BY <1>0, <2>1, <2>2, <3>1 DEF OnceInv
  <2>3. CASE EpochKey(n) = e0
    <3> SUFFICES ASSUME e0 \notin DOMAIN compacted
                 PROVE  Knows(Noted(w, n0.counter), n, fresh'[n])
      BY <1>0, <2>3
    <3>1. Knows(w, n, fresh[n]) /\ Knows(w, n0, fresh[n0])
      BY <1>0, <1>1, <2>1, <2>3 DEF OnceInv, EpochKey
    <3>2. n.counter \in Nat /\ fresh[n] \in Nat /\ fresh[n0] \in Nat
      BY <1>1, KeyTypes DEF TableInv
    <3>3. fresh[n0] = 0
      BY <1>0, <1>3, <3>1, <3>2 DEF Knows, Verdict, InWindow
    <3>4. fresh'[n] = IF n = n0 THEN 1 ELSE fresh[n]
      BY <1>1, <3>3 DEF TableInv
    <3>5. CASE n0.counter > w.max
      <4>1. /\ Noted(w, n0.counter).max = n0.counter
            /\ Noted(w, n0.counter).windowed
            /\ Noted(w, n0.counter).seen =
                 {n0.counter} \cup {s \in w.seen : InWindow(n0.counter, s)}
        BY <3>1, <3>5 DEF Noted, Knows
      <4>2. fresh[n] # 0 => n.counter <= n0.counter
        BY <1>3, <3>1, <3>2, <3>5 DEF Knows
      <4>3. fresh[n] # 0 /\ InWindow(n0.counter, n.counter)
              => n.counter \in w.seen
        BY <1>3, <3>1, <3>2, <3>5 DEF Knows, InWindow
      <4>4. n.counter = n0.counter \/ n # n0
        OBVIOUS
      <4>. QED
        BY <1>3, <3>1, <3>2, <3>4, <4>1, <4>2, <4>3, <4>4 DEF Knows
    <3>6. CASE ~(n0.counter > w.max)
      <4>1. Noted(w, n0.counter) =
              [w EXCEPT !.seen = @ \cup {n0.counter}, !.at = clock]
        BY <3>6 DEF Noted
      <4>2. /\ Noted(w, n0.counter).max = w.max
            /\ Noted(w, n0.counter).windowed = w.windowed
            /\ Noted(w, n0.counter).seen = w.seen \cup {n0.counter}
        BY <1>4, <4>1 DEF Row
      <4>3. n.counter = n0.counter \/ n # n0
        OBVIOUS
      <4>. QED
        BY <1>3, <3>1, <3>2, <3>4, <3>6, <4>2, <4>3 DEF Knows
    <3>. QED
      BY <3>5, <3>6
  <2>. QED
    BY <2>2, <2>3
<1>. QED
  BY <1>1, <1>2, <1>5, <1>6

-----------------------------------------------------------------------------
(* The window itself. *)

Chunk(e, c) == [key |-> e[1], epoch |-> e[2], counter |-> c]

(* A row's window after a step holds what it held before, or the counter   *)
(* that was just judged Fresh.                                             *)
LEMMA SeenStep ==
  ASSUME CredInv, [Next]_vars,
         NEW e \in DOMAIN rows', NEW c \in rows'[e].seen
  PROVE  \/ e \in DOMAIN rows /\ c \in rows[e].seen
         \/ \E r \in Requests :
              /\ Chunk(e, c) = req[r].chunk
              /\ Judged(r, req[r].chunk)
              /\ req[r].stage = "opened"
<1> USE DEF CredInv
<1>1. ASSUME NEW r \in Requests, AcceptFirst(r)
      PROVE  \/ e \in DOMAIN rows /\ c \in rows[e].seen
             \/ Chunk(e, c) = req[r].chunk /\ Judged(r, req[r].chunk)
                /\ req[r].stage = "opened"
  <2> DEFINE n0 == req[r].chunk
             e0 == <<n0.key, n0.epoch>>
             tbl == [x \in DOMAIN rows \cup {e0} |->
                       IF x = e0 THEN FirstRow(n0.counter) ELSE rows[x]]
             old == Old(tbl, Append(order, e0), n0.key)
  <2>1. /\ req[r].stage = "opened" /\ rows' = Compacted(tbl, old)
        /\ Judged(r, n0)
    BY <1>1 DEF AcceptFirst
  <2>2. n0 \in Nonce
    BY <1>1, <2>1, JudgedFacts DEF AcceptFirst
  <2> HIDE DEF old
  <2>3. \A x \in DOMAIN tbl : tbl[x] \in Row
    BY <2>2, RowTypes DEF TableInv, Nonce
  <2> HIDE DEF tbl
  <2>4. e \in DOMAIN tbl /\ c \in tbl[e].seen
    BY <2>1, <2>3, CompactedTypes
  <2>5. CASE e = e0
    <3>1. c = n0.counter
      BY <2>4, <2>5 DEF tbl, FirstRow
    <3>. QED
      BY <2>1, <2>2, <2>5, <3>1 DEF Chunk, Nonce
  <2>6. CASE e # e0
    BY <2>4, <2>6 DEF tbl
  <2>. QED
    BY <2>5, <2>6
<1>2. ASSUME NEW r \in Requests, AcceptNext(r)
      PROVE  \/ e \in DOMAIN rows /\ c \in rows[e].seen
             \/ Chunk(e, c) = req[r].chunk /\ Judged(r, req[r].chunk)
                /\ req[r].stage = "opened"
  <2> DEFINE n0 == req[r].chunk
             e0 == <<n0.key, n0.epoch>>
  <2>1. /\ req[r].stage = "opened" /\ e0 \in DOMAIN rows
        /\ rows' = [rows EXCEPT ![e0] = Noted(rows[e0], n0.counter)]
        /\ Judged(r, n0)
    BY <1>2 DEF AcceptNext
  <2>2. n0 \in Nonce
    BY <1>2, <2>1, JudgedFacts DEF AcceptNext
  <2>3. e \in DOMAIN rows
    BY <2>1
  <2>4. CASE e = e0
    <3>1. c \in Noted(rows[e], n0.counter).seen
      BY <2>1, <2>4
    <3>2. c \in rows[e].seen \/ c = n0.counter
      <4>1. rows[e] \in Row
        BY <2>3 DEF TableInv
      <4>2. CASE n0.counter > rows[e].max
        BY <3>1, <4>2 DEF Noted
      <4>3. CASE ~(n0.counter > rows[e].max)
        BY <3>1, <4>1, <4>3 DEF Noted, Row
      <4>. QED
        BY <4>2, <4>3
    <3>. QED
      BY <2>1, <2>2, <2>3, <2>4, <3>2 DEF Chunk, Nonce
  <2>5. CASE e # e0
    BY <2>1, <2>3, <2>5
  <2>. QED
    BY <2>4, <2>5
<1>3. ASSUME UNCHANGED rows
      PROVE  e \in DOMAIN rows /\ c \in rows[e].seen
  BY <1>3
<1>4. ASSUME NEW d \in Devices, Issue(d) \/ Revoke(d)
      PROVE  e \in DOMAIN rows /\ c \in rows[e].seen
  BY <1>4 DEF Issue, Revoke, Forget, Without, table
<1>. QED
  BY <1>1, <1>2, <1>3, <1>4
  DEF Next, Handle, Open, Refuse, Commit, CommitFails, Crash, Tick, table, vars

LEMMA FreshGrows ==
  ASSUME CredInv, [Next]_vars, NEW n \in Nonce
  PROVE  fresh[n] > 0 => fresh'[n] > 0
<1>1. fresh[n] \in Nat
  BY DEF CredInv, TableInv
<1>2. ASSUME NEW m, fresh' = [fresh EXCEPT ![m] = @ + 1]
      PROVE  fresh[n] > 0 => fresh'[n] > 0
  BY <1>1, <1>2 DEF CredInv, TableInv
<1>3. ASSUME UNCHANGED fresh PROVE fresh[n] > 0 => fresh'[n] > 0
  BY <1>1, <1>3
<1>. QED
  BY <1>2, <1>3
  DEF Next, Issue, Revoke, Handle, Open, AcceptFirst, AcceptNext, Refuse,
      Judged, Commit, CommitFails, Crash, Tick, history, vars

(* In the store, lost, or in the hands of a request. *)
Kept(n) == n \in stored \cup lost \/ \E r \in InHand : req[r].chunk = n

LEMMA KeptStays ==
  ASSUME CredInv, [Next]_vars, NEW n, Kept(n)
  PROVE  Kept(n)'
<1>1. stored \subseteq stored' /\ lost \subseteq lost'
  BY DEF Next, Issue, Revoke, Handle, Open, AcceptFirst, AcceptNext, Refuse,
     Commit, CommitFails, Crash, Tick, history, vars
<1>2. CASE n \in stored \cup lost
  BY <1>1, <1>2 DEF Kept
<1>3. ASSUME NEW r \in InHand, req[r].chunk = n
      PROVE  Kept(n)'
  <2>1. r \in Requests /\ req[r].stage = "fresh" /\ req[r] # Idle
    BY DEF InHand, Idle
  <2>2. CASE Commit(r) \/ CommitFails(r) \/ Crash
    BY <1>3, <2>1, <2>2 DEF Commit, CommitFails, Crash, InHand, Kept
  <2>3. CASE req'[r] = req[r]
    BY <1>3, <2>1, <2>3 DEF Kept, InHand
  <2>4. ASSUME NEW q \in Requests, q # r, NEW v, req' = [req EXCEPT ![q] = v]
        PROVE  req'[r] = req[r]
    BY <2>1, <2>4 DEF CredInv, RequestInv
  <2>5. ASSUME NEW q \in Requests, Handle(q), ~Commit(r), ~CommitFails(r)
        PROVE  req'[r] = req[r]
    <3>1. CASE q = r
      BY <2>1, <2>5, <3>1 DEF Handle, Open, AcceptFirst, AcceptNext, Refuse
    <3>2. CASE q # r
      BY <2>4, <2>5, <3>2 DEF Handle, Open, AcceptFirst, AcceptNext, Refuse,
         Commit, CommitFails, Judged, Done
    <3>. QED
      BY <3>1, <3>2
  <2>6. ASSUME ~Crash, ~\E q \in Requests : Handle(q)
        PROVE  req'[r] = req[r]
    BY <2>6 DEF Next, Issue, Revoke, Tick, vars
  <2>. QED
    BY <2>2, <2>3, <2>5, <2>6
<1>. QED
  BY <1>2, <1>3 DEF Kept

-----------------------------------------------------------------------------
(* The results. *)

LEMMA CredInvariant == Spec => []CredInv
<1>1. Init => CredInv
  BY CredentialsAssumption
  DEF Init, CredInv, KeyInv, RequestInv, TableInv, OnceInv, Live, Knows,
      EpochKey, Idle
<1>2. CredInv /\ [Next]_vars => CredInv'
  <2> SUFFICES ASSUME CredInv, [Next]_vars PROVE CredInv'
    OBVIOUS
  <2>1. CASE UNCHANGED vars
    BY <2>1 DEF vars, table, history, CredInv, KeyInv, RequestInv, TableInv,
       OnceInv, Live, Knows, InWindow, EpochKey
  <2>2. ASSUME NEW d \in Devices, Issue(d) \/ Revoke(d) PROVE CredInv'
    BY <2>2, IssueStep, RevokeStep
  <2>3. ASSUME NEW r \in Requests, Handle(r) PROVE CredInv'
    <3>1. ASSUME NEW n \in Nonce, Open(r, n) PROVE CredInv'
      BY <3>1, RequestStep
    <3>2. CASE Refuse(r) \/ Commit(r) \/ CommitFails(r)
      <4>1. PICK n \in Nonce : TRUE
        <5>1. req[r] # Idle
          BY <3>2 DEF Refuse, Commit, CommitFails, Idle
        <5>. QED
          BY <5>1 DEF CredInv, RequestInv
      <4>. QED
        BY <3>2, RequestStep
    <3>. QED
      BY <2>3, <3>1, <3>2, AcceptFirstStep, AcceptNextStep DEF Handle
  <2>4. CASE Crash \/ Tick
    BY <2>4, QuietStep
  <2>. QED
    BY <2>1, <2>2, <2>3, <2>4 DEF Next
<1>. QED
  BY <1>1, <1>2, PTL DEF Spec

(* A chunk is accepted at most once while its key is in force and its      *)
(* epoch keeps its window (credentials.rs accept_counter, window_accept).  *)
THEOREM AcceptedOnceCorrect == Spec => []AcceptedOnce
<1>1. CredInv => AcceptedOnce
  BY KeyTypes DEF CredInv, OnceInv, TableInv, AcceptedOnce, Knows, EpochKey
<1>. QED
  BY <1>1, CredInvariant, PTL

(* A new chunk is never refused as replayed, in whatever order chunks come *)
(* (credentials.rs window_accept).                                         *)
THEOREM ReplayedWasAcceptedCorrect == Spec => []ReplayedWasAccepted
<1>1. Init => ReplayedWasAccepted
  BY DEF Init, ReplayedWasAccepted
<1>2. CredInv /\ ReplayedWasAccepted /\ [Next]_vars => ReplayedWasAccepted'
  <2> SUFFICES ASSUME CredInv, ReplayedWasAccepted, [Next]_vars,
                      NEW e \in DOMAIN rows', NEW c \in rows'[e].seen
               PROVE  fresh'[Chunk(e, c)] > 0
    BY DEF ReplayedWasAccepted, Chunk
  <2>1. ASSUME NEW r \in Requests, Chunk(e, c) = req[r].chunk,
               Judged(r, req[r].chunk), req[r].stage = "opened"
        PROVE  fresh'[Chunk(e, c)] > 0
    <3>1. req[r].chunk \in Nonce
      BY <2>1 DEF CredInv, RequestInv, Idle
    <3>. QED
      BY <2>1, <3>1 DEF Judged, CredInv, TableInv
  <2>2. ASSUME e \in DOMAIN rows, c \in rows[e].seen
        PROVE  fresh'[Chunk(e, c)] > 0
    <3>1. fresh[Chunk(e, c)] > 0 /\ Chunk(e, c) \in Nonce
      BY <2>2 DEF ReplayedWasAccepted, Chunk, CredInv, TableInv, EpochOf,
         Nonce, Row
    <3>. QED
      BY <3>1, FreshGrows
  <2>. QED
    BY <2>1, <2>2, SeenStep
<1>. QED
  BY <1>1, <1>2, CredInvariant, PTL DEF Spec

(* What the window would refuse is in the store or on its way there,       *)
(* unless a failure struck between the two databases (ingest.rs            *)
(* ingest_chunks).                                                         *)
THEOREM RememberedIsKeptCorrect == Spec => []RememberedIsKept
<1>1. Init => RememberedIsKept
  BY DEF Init, RememberedIsKept
<1>2. CredInv /\ RememberedIsKept /\ [Next]_vars => RememberedIsKept'
  <2> SUFFICES ASSUME CredInv, RememberedIsKept, [Next]_vars,
                      NEW e \in DOMAIN rows', NEW c \in rows'[e].seen
               PROVE  Kept(Chunk(e, c))'
    BY DEF RememberedIsKept, Chunk, Kept
  <2>1. ASSUME NEW r \in Requests, Chunk(e, c) = req[r].chunk,
               Judged(r, req[r].chunk), req[r].stage = "opened"
        PROVE  Kept(Chunk(e, c))'
    <3>1. req[r] \in [stage : {"opened", "fresh"}, chunk : Nonce]
      BY <2>1 DEF CredInv, RequestInv, Idle
    <3>2. req'[r] = [req[r] EXCEPT !.stage = "fresh"]
      BY <2>1 DEF Judged, CredInv, RequestInv
    <3>3. req'[r] = [stage |-> "fresh", chunk |-> req[r].chunk]
      BY <3>1, <3>2
    <3>. QED
      BY <2>1, <3>3 DEF Kept, Chunk, InHand
  <2>2. ASSUME e \in DOMAIN rows, c \in rows[e].seen
        PROVE  Kept(Chunk(e, c))'
    <3>1. Kept(Chunk(e, c))
      BY <2>2 DEF RememberedIsKept, Kept, Chunk
    <3>. QED
      BY <3>1, KeptStays
  <2>. QED
    BY <2>1, <2>2, SeenStep
<1>. QED
  BY <1>1, <1>2, CredInvariant, PTL DEF Spec

(* The window holds its newest counter and only counters that are at most  *)
(* ReplayWindow behind it, however far the counters jump (credentials.rs   *)
(* window_accept, bits shifted and trimmed).                               *)
THEOREM WindowSoundCorrect == Spec => []WindowSound
<1> DEFINE Sound(w) ==
      w.windowed => /\ w.max \in w.seen
                      /\ \A c \in w.seen : c <= w.max /\ InWindow(w.max, c)
<1>1. Init => WindowSound
  BY DEF Init, WindowSound
<1>2. CredInv /\ WindowSound /\ [Next]_vars => WindowSound'
  <2> SUFFICES ASSUME CredInv, WindowSound, [Next]_vars, NEW e \in DOMAIN rows'
               PROVE  Sound(rows'[e])
    BY DEF WindowSound, InWindow
  <2>0. \A x \in DOMAIN rows : rows[x] \in Row /\ Sound(rows[x])
    BY DEF WindowSound, CredInv, TableInv
  <2>1. ASSUME NEW r \in Requests, AcceptFirst(r)
        PROVE  Sound(rows'[e])
    <3> DEFINE n0 == req[r].chunk
               e0 == <<n0.key, n0.epoch>>
               tbl == [x \in DOMAIN rows \cup {e0} |->
                         IF x = e0 THEN FirstRow(n0.counter) ELSE rows[x]]
               old == Old(tbl, Append(order, e0), n0.key)
    <3>1. rows' = Compacted(tbl, old)
      BY <2>1 DEF AcceptFirst
    <3>2. n0 \in Nonce
      BY <2>1, JudgedFacts DEF AcceptFirst, CredInv
    <3> HIDE DEF old
    <3>3. Sound(FirstRow(n0.counter))
      BY <3>2, CredentialsAssumption DEF FirstRow, InWindow, Nonce, Counter
    <3>4. \A x \in DOMAIN tbl : tbl[x] \in Row
      BY <2>0, <3>2, RowTypes DEF Nonce, CredInv, TableInv
    <3>5. \A x \in DOMAIN tbl : Sound(tbl[x])
      BY <2>0, <3>3
    <3> HIDE DEF tbl
    <3>6. e \in DOMAIN tbl
      BY <3>1 DEF Compacted
    <3>7. CASE e \in old
      BY <3>1, <3>4, <3>6, <3>7 DEF Compacted, Row
    <3>8. CASE e \notin old
      BY <3>1, <3>5, <3>6, <3>8 DEF Compacted
    <3>. QED
      BY <3>7, <3>8
  <2>2. ASSUME NEW r \in Requests, AcceptNext(r)
        PROVE  Sound(rows'[e])
    <3> DEFINE n0 == req[r].chunk
               e0 == <<n0.key, n0.epoch>>
               w == rows[e0]
    <3>1. /\ e0 \in DOMAIN rows
          /\ rows' = [rows EXCEPT ![e0] = Noted(w, n0.counter)]
          /\ Verdict(w, n0.counter) = "Fresh"
      BY <2>2 DEF AcceptNext
    <3>2. n0 \in Nonce
      BY <2>2, JudgedFacts DEF AcceptNext, CredInv
    <3>3. n0.counter \in Nat /\ w \in Row /\ Sound(w)
      BY <2>0, <3>1, <3>2, KeyTypes
    <3> HIDE DEF n0, w
    <3>4. w.max \in Nat /\ w.seen \subseteq Nat
      BY <3>3 DEF Row, Counter
    <3>5. CASE n0.counter > w.max
      <4>1. PICK rest : /\ rest \subseteq w.seen
                        /\ \A c \in rest : InWindow(n0.counter, c)
                        /\ Noted(w, n0.counter) =
                             [max |-> n0.counter, seen |-> {n0.counter} \cup rest,
                              windowed |-> TRUE, at |-> clock]
        <5>1. CASE w.windowed
          BY <3>5, <5>1 DEF Noted
        <5>2. CASE ~w.windowed
          BY <3>5, <5>2 DEF Noted
        <5>. QED
          BY <5>1, <5>2
      <4>2. InWindow(n0.counter, n0.counter)
        BY <3>3, CredentialsAssumption DEF InWindow
      <4>3. CASE w.windowed
        BY <2>0, <3>1, <3>3, <3>4, <3>5, <4>1, <4>2, <4>3
      <4>4. CASE ~w.windowed
        <5>1. Noted(w, n0.counter).seen = {n0.counter}
          BY <3>5, <4>4 DEF Noted
        <5>. QED
          BY <2>0, <3>1, <3>3, <4>1, <4>2, <5>1
      <4>. QED
        BY <4>3, <4>4
    <3>6. CASE ~(n0.counter > w.max)
      <4>1. w.windowed /\ InWindow(w.max, n0.counter)
        BY <3>1, <3>6 DEF Verdict
      <4>2. Noted(w, n0.counter) =
              [w EXCEPT !.seen = w.seen \cup {n0.counter}, !.at = clock]
        BY <3>6 DEF Noted
      <4>3. Sound(Noted(w, n0.counter))
        BY <3>3, <3>4, <3>6, <4>1, <4>2 DEF Row
      <4>. QED
        BY <2>0, <3>1, <4>3
    <3>. QED
      BY <3>5, <3>6
  <2>3. ASSUME UNCHANGED rows
        PROVE  Sound(rows'[e])
    BY <2>0, <2>3
  <2>4. ASSUME NEW d \in Devices, Issue(d) \/ Revoke(d)
        PROVE  Sound(rows'[e])
    BY <2>0, <2>4 DEF Issue, Revoke, Forget, Without, table
  <2>. QED
    BY <2>1, <2>2, <2>3, <2>4
    DEF Next, Handle, Open, Refuse, Commit, CommitFails, Crash, Tick, table, vars
<1>. QED
  BY <1>1, <1>2, CredInvariant, PTL DEF Spec

-----------------------------------------------------------------------------
(* KeyCache *)

(* Whom nothing excuses carries a token whose key is published, until the  *)
(* request is answered.                                                    *)
Unanswered == {"look", "fetch", "fetched", "check", "ask"}
Deserving ==
  \A r \in Logins : r \notin excused =>
    /\ login[r].stage \in Unanswered => login[r].key \in published
    /\ login[r].stage # "bad"

CacheInv == KeyTypeOK /\ Deserving

LEMMA CacheInitInv == KeyInit => CacheInv
BY KeyCacheAssumption DEF KeyInit, CacheInv, KeyTypeOK, Deserving, Unanswered, Away, Login

LEMMA CacheStepInv == CacheInv /\ [KeyNext]_keyVars => CacheInv'
<1> SUFFICES ASSUME CacheInv, [KeyNext]_keyVars PROVE CacheInv'
  OBVIOUS
<1> USE DEF CacheInv
<1>1. ASSUME NEW k \in SigningKeys, Publish(k) PROVE CacheInv'
  BY <1>1 DEF Publish, KeyTypeOK, Deserving
<1>2. ASSUME NEW k \in SigningKeys, Withdraw(k) PROVE CacheInv'
  BY <1>2 DEF Withdraw, KeyTypeOK, Deserving
<1>3. CASE Age
  <2>1. cached' \in [keys : SUBSET SigningKeys, age : 0 .. Ttl]
    BY <1>3, KeyCacheAssumption DEF Age, KeyTypeOK
  <2> QED BY <1>3, <2>1 DEF Age, KeyTypeOK, Deserving
<1>4. ASSUME NEW r \in Logins, Serve(r) PROVE CacheInv'
  <2>0. ASSUME NEW s \in {"fetch", "check", "good", "bad", "ask"}, Goes(r, s)
        PROVE  /\ login' \in [Logins -> Login]
               /\ login'[r].stage = s /\ login'[r].key = login[r].key
               /\ \A q \in Logins \ {r} : login'[q] = login[q]
    <3>1. [login[r] EXCEPT !.stage = s] \in Login
          /\ [login[r] EXCEPT !.stage = s].stage = s
          /\ [login[r] EXCEPT !.stage = s].key = login[r].key
      BY DEF KeyTypeOK, Login
    <3>2. login' = [login EXCEPT ![r] = [login[r] EXCEPT !.stage = s]]
      BY <2>0 DEF Goes
    <3> QED BY <3>1, <3>2 DEF KeyTypeOK
  <2>1. ASSUME NEW k \in SigningKeys, Arrive(r, k) PROVE CacheInv'
    <3>1. [stage |-> "look", key |-> k, keys |-> {}] \in Login
      BY DEF Login
    <3> QED BY <2>1, <3>1 DEF Arrive, KeyTypeOK, Deserving, Unanswered
  <2>2. CASE LookUp(r)
    <3>1. CASE cached # NoKeys /\ cached.age < Ttl
      <4>1. cached.keys \in SUBSET SigningKeys
        BY <3>1 DEF KeyTypeOK
      <4>2. login' = [login EXCEPT ![r] = [login[r] EXCEPT !.stage = "check", !.keys = cached.keys]]
        BY <2>2, <3>1 DEF LookUp
      <4>3. [login[r] EXCEPT !.stage = "check", !.keys = cached.keys] \in Login
            /\ [login[r] EXCEPT !.stage = "check", !.keys = cached.keys].stage = "check"
            /\ [login[r] EXCEPT !.stage = "check", !.keys = cached.keys].key = login[r].key
        BY <4>1 DEF KeyTypeOK, Login
      <4> QED BY <2>2, <4>2, <4>3 DEF LookUp, KeyTypeOK, Deserving, Unanswered
    <3>2. CASE ~(cached # NoKeys /\ cached.age < Ttl)
      <4>1. Goes(r, "fetch")
        BY <2>2, <3>2 DEF LookUp
      <4> QED BY <2>0, <4>1, <2>2 DEF LookUp, KeyTypeOK, Deserving, Unanswered
    <3> QED BY <3>1, <3>2
  <2>3. CASE FetchKeys(r)
    <3>1. login' = [login EXCEPT ![r] = [login[r] EXCEPT !.stage = "fetched", !.keys = published]]
      BY <2>3 DEF FetchKeys
    <3>2. [login[r] EXCEPT !.stage = "fetched", !.keys = published] \in Login
          /\ [login[r] EXCEPT !.stage = "fetched", !.keys = published].stage = "fetched"
          /\ [login[r] EXCEPT !.stage = "fetched", !.keys = published].key = login[r].key
      BY DEF KeyTypeOK, Login
    <3> QED BY <2>3, <3>1, <3>2 DEF FetchKeys, KeyTypeOK, Deserving, Unanswered
  <2>4. CASE StoreKeys(r)
    <3>1. Goes(r, "check")
      BY <2>4 DEF StoreKeys
    <3>2. cached' \in [keys : SUBSET SigningKeys, age : 0 .. Ttl]
      BY <2>4, KeyCacheAssumption DEF StoreKeys, KeyTypeOK, Login
    <3> QED BY <2>0, <3>1, <3>2, <2>4 DEF StoreKeys, KeyTypeOK, Deserving, Unanswered
  <2>5. CASE CheckToken(r)
    <3> DEFINE s == IF login[r].key \in login[r].keys THEN "good" ELSE "ask"
    <3>1. Goes(r, s) /\ s \in {"good", "ask"}
      BY <2>5 DEF CheckToken
    <3> HIDE DEF s
    <3> QED BY <2>0, <3>1, <2>5 DEF CheckToken, KeyTypeOK, Deserving, Unanswered
  <2>6. CASE AskKeycloak(r)
    <3> DEFINE s == IF login[r].key \in published THEN "good" ELSE "bad"
    <3>1. Goes(r, s) /\ s \in {"good", "bad"} /\ (s = "bad" => login[r].key \notin published)
      BY <2>6 DEF AskKeycloak
    <3> HIDE DEF s
    <3> QED BY <2>0, <3>1, <2>6 DEF AskKeycloak, KeyTypeOK, Deserving, Unanswered
  <2>7. CASE Outage(r)
    <3> DEFINE s == IF login[r].stage = "ask" THEN "bad" ELSE "ask"
    <3>1. Goes(r, s) /\ s \in {"bad", "ask"} /\ (s = "bad" <=> login[r].stage = "ask")
      BY <2>7 DEF Outage
    <3>2. excused' = (IF s = "bad" THEN excused \cup {r} ELSE excused)
      BY <2>7, <3>1 DEF Outage
    <3>3. outages' \in 0 .. MaxOutages
      BY <2>7, KeyCacheAssumption DEF Outage, KeyTypeOK
    <3> HIDE DEF s
    <3> QED BY <2>0, <3>1, <3>2, <3>3, <2>7 DEF Outage, KeyTypeOK, Deserving, Unanswered
  <2> QED BY <1>4, <2>1, <2>2, <2>3, <2>4, <2>5, <2>6, <2>7 DEF Serve
<1>5. CASE UNCHANGED keyVars
  BY <1>5 DEF keyVars, KeyTypeOK, Deserving
<1> QED BY <1>1, <1>2, <1>3, <1>4, <1>5 DEF KeyNext

LEMMA KeyTakes == KeySpec => []GoodIsTaken
<1>1. CacheInv => GoodIsTaken
  BY DEF CacheInv, Deserving, GoodIsTaken
<1> QED BY <1>1, CacheInitInv, CacheStepInv, PTL DEF KeySpec

-----------------------------------------------------------------------------
(* Access *)

SetupOK == setup \in [mode : {"basic", "keycloak"}, key : {"key", Nobody}]

(* What the role that the server finds for a user says of what the user is *)
(* called in the documentation.                                            *)
RoleSays(user) ==
  LET role == RoleOf(user) IN
  /\ role \in Roles \/ role = Nobody
  /\ role \in Roles <=> \E r \in Roles : Is(user, r)
  /\ ~Unseen(user) => /\ role \in Roles => Is(user, role)
                      /\ \A r \in Roles : Is(user, r) => role \in {r, "admin"}
  /\ Unseen(user) => role \in {"viewer", Nobody}

LEMMA PairIs ==
  ASSUME NEW S, NEW s \in Seq(S), Len(s) = 2
  PROVE  s = <<s[1], s[2]>>
<1>1. <<s[1], s[2]>> \in Seq(S) /\ Len(<<s[1], s[2]>>) = 2
  BY LenProperties
<1> QED BY <1>1, SeqEqual

LEMMA TripleIs ==
  ASSUME NEW S, NEW s \in Seq(S), Len(s) = 3
  PROVE  s = <<s[1], s[2], s[3]>>
<1>1. <<s[1], s[2], s[3]>> \in Seq(S) /\ Len(<<s[1], s[2], s[3]>>) = 3
  <2>1. \A i \in 1 .. 3 : s[i] \in S
    BY ElementOfSeq
  <2>2. s[1] \in S /\ s[2] \in S /\ s[3] \in S
    BY <2>1
  <2> QED BY <2>2
<1> QED BY <1>1, SeqEqual

LEMMA FirstTwo ==
  ASSUME NEW S, NEW s \in Seq(S), Len(s) \in {2, 3, 4}
  PROVE  SubSeq(s, 1, 2) = <<s[1], s[2]>>
<1>1. \A i \in 1 .. 2 : s[i] \in S
  BY ElementOfSeq
<1>2. /\ SubSeq(s, 1, 2) \in Seq(S)
      /\ Len(SubSeq(s, 1, 2)) = 2
      /\ \A i \in 1 .. 2 : SubSeq(s, 1, 2)[i] = s[1 + i - 1]
  BY <1>1, SubSeqProperties
<1>3. SubSeq(s, 1, 2)[1] = s[1] /\ SubSeq(s, 1, 2)[2] = s[2]
  BY <1>2
<1> QED BY <1>2, <1>3, PairIs

(* An entry with a password, for the login. *)
EntryFor(e, who) == Len(e) > 1 /\ SubSeq(e, 1, 2) = who

LEMMA Fields ==
  ASSUME NEW a, NEW b, NEW r
  PROVE  /\ Append(<<a, b>>, r) = <<a, b, r>>
         /\ EntryFor(<<a, b>>, <<a, b>>) /\ EntryFor(<<a, b, r>>, <<a, b>>)
<1> DEFINE S == {a, b, r}
<1>1. /\ <<a, b>> \in Seq(S) /\ Len(<<a, b>>) = 2
      /\ <<a, b, r>> \in Seq(S) /\ Len(<<a, b, r>>) = 3
  OBVIOUS
<1>2. /\ Append(<<a, b>>, r) \in Seq(S)
      /\ Len(Append(<<a, b>>, r)) = 3
      /\ Append(<<a, b>>, r)[1] = a /\ Append(<<a, b>>, r)[2] = b
      /\ Append(<<a, b>>, r)[3] = r
  BY <1>1, AppendProperties
<1>3. <<a, b, r>>[1] = a /\ <<a, b, r>>[2] = b /\ <<a, b>>[1] = a /\ <<a, b>>[2] = b
  OBVIOUS
<1>4. SubSeq(<<a, b>>, 1, 2) = <<a, b>> /\ SubSeq(<<a, b, r>>, 1, 2) = <<a, b>>
  BY <1>1, <1>3, FirstTwo
<1> HIDE DEF S
<1>5. Append(<<a, b>>, r) = <<a, b, r>>
  BY <1>2, TripleIs
<1> QED BY <1>1, <1>4, <1>5 DEF EntryFor

(* An entry that gives a login a role is the login with the role, or the   *)
(* login alone.                                                            *)
LEMMA EntryOfLogin ==
  ASSUME NEW e \in Accounts, NEW a, NEW b, EntryFor(e, <<a, b>>)
  PROVE  /\ e = <<a, b>> <=> Len(e) = 2
         /\ \A r : e = <<a, b, r>> <=> Len(e) = 3 /\ e[3] = r
         /\ Len(e) = 2 \/ Len(e) = 3
<1>1. e \in Seq(Field) /\ Len(e) <= 3
  BY AccessAssumption
<1>2. PICK n \in Nat : n = Len(e)
  BY <1>1, LenProperties
<1>3. Len(e) = 2 \/ Len(e) = 3
  BY <1>1, <1>2 DEF EntryFor
<1>4. SubSeq(e, 1, 2) = <<e[1], e[2]>>
  BY <1>1, <1>3, FirstTwo
<1>7. e[1] = a /\ e[2] = b
  BY <1>4 DEF EntryFor
<1>5. CASE Len(e) = 2
  <2>1. e = <<e[1], e[2]>>
    BY <1>1, <1>5, PairIs
  <2> QED BY <1>5, <1>7, <2>1
<1>6. CASE Len(e) = 3
  <2>1. e = <<e[1], e[2], e[3]>>
    BY <1>1, <1>6, TripleIs
  <2> QED BY <1>6, <1>7, <2>1
<1> QED BY <1>3, <1>5, <1>6

EntryRole(e) == IF Len(e) > 2 THEN RoleNamed(e[3]) ELSE "viewer"

(* An entry says that a login has a role. *)
Says(who, r) == \/ Append(who, r) \in Accounts
                  \/ (r = "viewer" /\ who \in Accounts)

LEMMA LoginRole ==
  ASSUME NEW a, NEW b, <<a, b>> # Chief
  PROVE  LET role == RoleOfLogin(<<a, b>>) IN
         /\ role \in Roles \cup {Nobody}
         /\ \A r \in Roles : Says(<<a, b>>, r) <=> r = role
<1> DEFINE who == <<a, b>>
<1>1. \A r : Append(who, r) = <<a, b, r>>
  BY Fields
<1>0. \A v : v \in Listed <=>
        \E f \in Accounts : \E l : EntryFor(f, l) /\ v = [login |-> l, role |-> EntryRole(f)]
  BY DEF Listed, EntryRole, EntryFor
<1>2. CASE \E e \in Accounts : EntryFor(e, who)
  <2>1. PICK e \in Accounts : EntryFor(e, who)
    BY <1>2
  <2>2. \A f \in Accounts : EntryFor(f, who) => f = e
    BY <2>1, AccessAssumption DEF EntryFor
  <2>3. PICK u : u = [login |-> who, role |-> EntryRole(e)]
    OBVIOUS
  <2>4. u \in Listed /\ u.login = who
    BY <1>0, <2>1, <2>3
  <2>5. \A v \in Listed : v.login = who => v = u
    BY <1>0, <2>2, <2>3
  <2>6. (CHOOSE v \in Listed : v.login = who) = u
    BY <2>4, <2>5
  <2>7. RoleOfLogin(who) = EntryRole(e)
    <3>1. u.role = EntryRole(e)
      BY <2>3
    <3>2. \E v \in Listed : v.login = who
      BY <2>4
    <3>3. RoleOfLogin(who) = (CHOOSE v \in Listed : v.login = who).role
      BY <3>2 DEF RoleOfLogin
    <3> QED BY <2>6, <3>1, <3>3
  <2>8. /\ e = <<a, b>> <=> Len(e) = 2
        /\ \A r : e = <<a, b, r>> <=> Len(e) = 3 /\ e[3] = r
        /\ Len(e) = 2 \/ Len(e) = 3
    BY <2>1, EntryOfLogin
  <2>9. \A r : Says(who, r) <=> e = <<a, b, r>> \/ (r = "viewer" /\ e = <<a, b>>)
    <3>1. ASSUME NEW r, <<a, b, r>> \in Accounts PROVE e = <<a, b, r>>
      <4>1. EntryFor(<<a, b, r>>, <<a, b>>)
        BY Fields
      <4> QED BY <3>1, <4>1, <2>2
    <3>2. ASSUME <<a, b>> \in Accounts PROVE e = <<a, b>>
      <4>1. EntryFor(<<a, b>>, <<a, b>>)
        BY Fields
      <4> QED BY <3>2, <4>1, <2>2
    <3> QED BY <1>1, <2>1, <3>1, <3>2 DEF Says
  <2>10. CASE Len(e) = 2
    <3>1. EntryRole(e) = "viewer"
      BY <2>10 DEF EntryRole
    <3>2. \A r : Says(who, r) <=> r = "viewer"
      BY <2>8, <2>9, <2>10
    <3> QED BY <2>7, <3>1, <3>2 DEF Roles
  <2>11. CASE Len(e) = 3
    <3>1. e[3] \in Roles
      BY <2>11, AccessAssumption
    <3>2. EntryRole(e) = e[3]
      BY <2>11, <3>1 DEF EntryRole, RoleNamed, Roles
    <3>3. \A r : Says(who, r) <=> r = e[3]
      BY <2>8, <2>9, <2>11
    <3> QED BY <2>7, <3>1, <3>2, <3>3 DEF Roles
  <2> QED BY <2>8, <2>10, <2>11
<1>3. CASE ~ \E e \in Accounts : EntryFor(e, who)
  <2>1. ~ \E u \in Listed : u.login = who
    BY <1>0, <1>3
  <2>2. RoleOfLogin(who) = Nobody
    BY <2>1 DEF RoleOfLogin
  <2>3. ASSUME NEW r, <<a, b, r>> \in Accounts PROVE FALSE
    <3>1. EntryFor(<<a, b, r>>, <<a, b>>)
      BY Fields
    <3> QED BY <1>3, <2>3, <3>1
  <2>4. ASSUME <<a, b>> \in Accounts PROVE FALSE
    <3>1. EntryFor(<<a, b>>, <<a, b>>)
      BY Fields
    <3> QED BY <1>3, <2>4, <3>1
  <2>5. Nobody \notin Roles
    BY AccessAssumption
  <2> QED BY <1>1, <2>2, <2>3, <2>4, <2>5 DEF Says
<1> QED BY <1>2, <1>3

LEMMA RoleOfUser ==
  ASSUME SetupOK, NEW user \in Users
  PROVE  RoleSays(user)
<1>1. Nobody \notin Roles
  BY AccessAssumption
<1>2. CASE user.kind = "basic" /\ setup.mode = "basic"
  <2>1. PICK a, b : user.login = <<a, b>>
    <3>1. user.login \in Tried
      BY <1>2 DEF Users
    <3> QED BY <3>1 DEF Tried
  <2>2. RoleOf(user) = RoleOfLogin(<<a, b>>) /\ ~Unseen(user)
    BY <1>2, <2>1 DEF RoleOf, Unseen
  <2>3. \A r : Is(user, r) <=> (r = "admin" /\ <<a, b>> = Chief) \/ Says(<<a, b>>, r)
    BY <1>2, <2>1 DEF Is, Says
  <2>4. CASE <<a, b>> = Chief
    <3>1. RoleOf(user) = "admin" /\ Is(user, "admin")
      BY <2>2, <2>3, <2>4 DEF RoleOfLogin
    <3> QED BY <1>1, <2>2, <3>1 DEF RoleSays, Roles
  <2>5. CASE <<a, b>> # Chief
    <3>1. /\ RoleOf(user) \in Roles \cup {Nobody}
          /\ \A r \in Roles : Is(user, r) <=> r = RoleOf(user)
      BY <2>2, <2>3, <2>5, LoginRole
    <3> QED BY <1>1, <2>2, <3>1 DEF RoleSays
  <2> QED BY <2>4, <2>5
<1>3. CASE user.kind = "good token" /\ setup.mode = "keycloak"
  <2>1. RoleOf(user) = IF user.shown THEN RoleOfRealm(user.roles) ELSE "viewer"
    BY <1>3 DEF RoleOf, RoleOfToken
  <2>2. \A r : Is(user, r) <=>
          user.roles \cap Outranked(r) = {} /\ (r # "viewer" => RealmName[r] \in user.roles)
    BY <1>3 DEF Is
  <2>3. /\ Outranked("admin") = {}
        /\ Outranked("provisioner") = {"ferrite-admin"}
        /\ Outranked("auditor") = {"ferrite-admin", "ferrite-provisioner"}
        /\ Outranked("viewer") = {"ferrite-admin", "ferrite-provisioner", "ferrite-auditor"}
        /\ RealmName["admin"] = "ferrite-admin"
        /\ RealmName["provisioner"] = "ferrite-provisioner"
        /\ RealmName["auditor"] = "ferrite-auditor"
    BY DEF Outranked, RealmName
  <2>4. /\ Is(user, "admin") <=> "ferrite-admin" \in user.roles
        /\ Is(user, "provisioner") <=>
             "ferrite-admin" \notin user.roles /\ "ferrite-provisioner" \in user.roles
        /\ Is(user, "auditor") <=>
             /\ "ferrite-admin" \notin user.roles /\ "ferrite-provisioner" \notin user.roles
             /\ "ferrite-auditor" \in user.roles
        /\ Is(user, "viewer") <=>
             /\ "ferrite-admin" \notin user.roles /\ "ferrite-provisioner" \notin user.roles
             /\ "ferrite-auditor" \notin user.roles
    BY <2>2, <2>3
  <2>5. \A r \in Roles : Is(user, r) <=> r = RoleOfRealm(user.roles)
    BY <2>4 DEF RoleOfRealm, Roles
  <2>6. RoleOfRealm(user.roles) \in Roles /\ "viewer" \in Roles
    BY DEF RoleOfRealm, Roles
  <2>7. Unseen(user) <=> ~user.shown
    BY <1>3 DEF Unseen
  <2> QED BY <1>1, <2>1, <2>5, <2>6, <2>7 DEF RoleSays
<1>4. CASE ~ (user.kind = "basic" /\ setup.mode = "basic")
           /\ ~ (user.kind = "good token" /\ setup.mode = "keycloak")
  <2>1. RoleOf(user) = Nobody
    BY <1>4 DEF RoleOf
  <2>2. \A r : ~Is(user, r)
    BY <1>4 DEF Is
  <2> QED BY <1>1, <2>1, <2>2 DEF RoleSays
<1> QED BY <1>2, <1>3, <1>4

-----------------------------------------------------------------------------
OpenPaths == {<<"auth", "mode">>, <<"health">>, <<"metrics", "prometheus">>}

LEMMA DevicePath ==
  ASSUME NEW a, NEW b, NEW c, NEW d
  PROVE  /\ ~IsDeviceOtaPath(<<a>>) /\ ~IsDeviceOtaPath(<<a, b>>)
         /\ IsDeviceOtaPath(<<a, b, c>>) <=> a = "ota" /\ b = "targets"
         /\ IsDeviceOtaPath(<<a, b, c, d>>) <=>
              a = "ota" /\ b = "firmware" /\ d \in {"download", "manifest"}
<1> DEFINE S == {a, b, c, d}
<1>1. Len(<<a>>) = 1 /\ Len(<<a, b>>) = 2
  OBVIOUS
<1>2. /\ <<a, b, c>> \in Seq(S) /\ Len(<<a, b, c>>) = 3
      /\ <<a, b, c>>[1] = a /\ <<a, b, c>>[2] = b
  OBVIOUS
<1>3. /\ <<a, b, c, d>> \in Seq(S) /\ Len(<<a, b, c, d>>) = 4
      /\ <<a, b, c, d>>[1] = a /\ <<a, b, c, d>>[2] = b /\ <<a, b, c, d>>[4] = d
  OBVIOUS
<1>4. SubSeq(<<a, b, c>>, 1, 2) = <<a, b>>
  BY <1>2, FirstTwo
<1>5. SubSeq(<<a, b, c, d>>, 1, 2) = <<a, b>>
  BY <1>3, FirstTwo
<1>6. ~IsDeviceOtaPath(<<a>>) /\ ~IsDeviceOtaPath(<<a, b>>)
  BY <1>1 DEF IsDeviceOtaPath
<1>7. IsDeviceOtaPath(<<a, b, c>>) <=> a = "ota" /\ b = "targets"
  BY <1>2, <1>4 DEF IsDeviceOtaPath
<1>8. IsDeviceOtaPath(<<a, b, c, d>>) <=>
        a = "ota" /\ b = "firmware" /\ d \in {"download", "manifest"}
  BY <1>3, <1>5 DEF IsDeviceOtaPath
<1> QED BY <1>6, <1>7, <1>8

LEMMA ShortPath ==
  ASSUME NEW a, NEW b
  PROVE  ~IsDeviceOtaPath(<<a>>) /\ ~IsDeviceOtaPath(<<a, b>>)
BY DevicePath

LEMMA LongPath ==
  ASSUME NEW a, NEW b, NEW c
  PROVE  IsDeviceOtaPath(<<a, b, c>>) <=> a = "ota" /\ b = "targets"
BY DevicePath

LEMMA DeviceRoutes ==
  ASSUME NEW route \in DeviceOrUser
  PROVE  /\ route[1] = "GET" /\ route[2][1] = "ota"
         /\ route[2] \notin OpenPaths /\ IsDeviceOtaPath(route[2])
<1>1. /\ route[1] = "GET"
      /\ \/ route[2] = <<"ota", "targets", "x">>
         \/ \E d \in {"download", "manifest"} : route[2] = <<"ota", "firmware", "x", d>>
  BY DEF DeviceOrUser
<1>2. IsDeviceOtaPath(route[2])
  BY <1>1, DevicePath
<1> QED BY <1>1, <1>2 DEF OpenPaths

LEMMA UserRoutes ==
  ASSUME NEW route \in UserReads
  PROVE  /\ route[1] = "GET" /\ route[2][1] \notin {"ingest", "evidence"}
         /\ route[2] \notin OpenPaths /\ ~IsDeviceOtaPath(route[2])
<1> DEFINE First == {"events", "devices", "faults", "metrics", "crashes", "groups", "ota", "reports"}
<1>1. /\ route[1] = "GET"
      /\ \/ \E a \in First : route[2] = <<a>>
         \/ \E a \in First, b \in {"stream", "x", "targets", "firmware", "campaigns"} :
              route[2] = <<a, b>>
         \/ \E a \in First, b \in {"x", "firmware", "campaigns", "fleet"},
               c \in {"credential", "faults", "metrics", "devices", "builds", "x"} :
              route[2] = <<a, b, c>>
         \/ \E a \in First, b \in {"campaigns", "devices"}, d \in {"devices", "firmware-history"} :
              route[2] = <<a, b, "x", d>>
  BY DEF UserReads
<1> DEFINE Good(p) == p[1] \notin {"ingest", "evidence"} /\ p \notin OpenPaths /\ ~IsDeviceOtaPath(p)
<1>2. ASSUME NEW a \in First PROVE Good(<<a>>)
  <2>1. ~IsDeviceOtaPath(<<a>>)
    BY ShortPath
  <2> QED BY <2>1 DEF OpenPaths
<1>3. ASSUME NEW a \in First, NEW b \in {"stream", "x", "targets", "firmware", "campaigns"}
      PROVE  Good(<<a, b>>)
  <2>1. ~IsDeviceOtaPath(<<a, b>>)
    BY ShortPath
  <2> QED BY <2>1 DEF OpenPaths
<1>4. ASSUME NEW a \in First, NEW b \in {"x", "firmware", "campaigns", "fleet"}, NEW c
      PROVE  Good(<<a, b, c>>)
  <2>1. ~IsDeviceOtaPath(<<a, b, c>>)
    BY LongPath
  <2> QED BY <2>1 DEF OpenPaths
<1>5. ASSUME NEW a \in First, NEW b \in {"campaigns", "devices"}, NEW d
      PROVE  Good(<<a, b, "x", d>>)
  <2>1. ~IsDeviceOtaPath(<<a, b, "x", d>>)
    BY DevicePath
  <2> QED BY <2>1 DEF OpenPaths
<1> HIDE DEF Good, First
<1>6. Good(route[2])
  BY <1>1, <1>2, <1>3, <1>4, <1>5
<1> QED BY <1>1, <1>6 DEF Good

LEMMA KeeperRoutes ==
  ASSUME NEW route \in ProvisionerUp
  PROVE  route[1] \in {"POST", "PUT"} /\ route[2][1] = "devices" /\ route[2] \notin OpenPaths
BY DEF ProvisionerUp, OpenPaths

LEMMA AdminRoutes ==
  ASSUME NEW route \in AdminOnly \cup GroupWrites
  PROVE  /\ route[1] = "DELETE" \/ (route[1] \in {"POST", "PUT"}
                                     /\ route[2][1] \in {"groups", "ota", "evidence"})
         /\ route[2][1] \notin {"ingest"} /\ route[2] \notin OpenPaths
<1>1. CASE route \in {"DELETE"} \X
        {<<"devices", "x">>, <<"devices", "x", "credential">>, <<"groups", "x">>,
         <<"groups", "x", "devices", "x">>, <<"ota", "targets", "x">>,
         <<"ota", "firmware", "x">>, <<"admin", "devices", "x">>}
  BY <1>1 DEF OpenPaths
<1>2. CASE route \in {"POST"} \X
        {<<"ota", "targets">>, <<"ota", "firmware">>, <<"ota", "campaigns">>,
         <<"ota", "campaigns", "x", "activate">>, <<"ota", "campaigns", "x", "pause">>,
         <<"ota", "campaigns", "x", "rollback">>, <<"evidence", "anchor">>}
  BY <1>2 DEF OpenPaths
<1>3. CASE route \in GroupWrites
  BY <1>3 DEF GroupWrites, OpenPaths
<1> QED BY <1>1, <1>2, <1>3 DEF AdminOnly

LEMMA BackupRoutes ==
  ASSUME NEW route \in AdminReads
  PROVE  /\ route[1] = "GET" /\ route[2][1] = "admin"
         /\ route[2] \notin OpenPaths /\ ~IsDeviceOtaPath(route[2])
<1>1. /\ route[1] = "GET"
      /\ route[2] = <<"admin", "backup">> \/ route[2] = <<"admin", "retention">>
  BY DEF AdminReads
<1>2. ~IsDeviceOtaPath(<<"admin", "backup">>) /\ ~IsDeviceOtaPath(<<"admin", "retention">>)
  BY ShortPath
<1> QED BY <1>1, <1>2 DEF OpenPaths

LEMMA EvidenceRoutes ==
  ASSUME NEW route \in EvidenceReads
  PROVE  /\ route[1] = "GET" /\ route[2][1] = "evidence"
         /\ route[2] \notin OpenPaths /\ ~IsDeviceOtaPath(route[2])
<1>1. /\ route[1] = "GET"
      /\ route[2] = <<"evidence">> \/ route[2] = <<"evidence", "verify">>
  BY DEF EvidenceReads
<1>2. ~IsDeviceOtaPath(<<"evidence">>) /\ ~IsDeviceOtaPath(<<"evidence", "verify">>)
  BY ShortPath
<1> QED BY <1>1, <1>2 DEF OpenPaths

LEMMA PublicRoutes ==
  ASSUME NEW route \in Public
  PROVE  route[1] = "GET" /\ route[2] \in OpenPaths /\ route[2][1] # "ingest"
BY DEF Public, OpenPaths

LEMMA IngestRoutes ==
  /\ IngestChunks[1] = "POST" /\ IngestElf[1] = "POST"
  /\ IngestChunks[2][1] = "ingest" /\ IngestElf[2][1] = "ingest"
  /\ IngestChunks[2] # IngestElf[2]
  /\ IngestChunks[2] \notin OpenPaths /\ IngestElf[2] \notin OpenPaths
BY DEF IngestChunks, IngestElf, OpenPaths

-----------------------------------------------------------------------------
(* What the code grants a role on a route. *)
Granted(route, role) ==
  \/ route \in UserReads \cup DeviceOrUser \cup AdminReads /\ role \in Roles \ {"auditor"}
  \/ route \in ProvisionerUp \cup {IngestElf} /\ CanWrite(role)
  \/ route \in EvidenceReads /\ CanReadEvidence(role)
  \/ route \in AdminOnly \cup GroupWrites /\ role = "admin"

Granting(route, method, key, role, given) ==
  /\ given = "served" <=> OpenTo(route, method, key) \/ Granted(route, role)
  /\ given = "403" => role # Nobody
  /\ given = "401" => route = IngestChunks \/ role = Nobody

Rest == UserReads \cup ProvisionerUp \cup EvidenceReads \cup AdminOnly \cup GroupWrites
        \cup AdminReads

LEMMA AnswerGrants ==
  ASSUME SetupOK, NEW route \in Routes, NEW method \in {route[1], "OPTIONS"},
         NEW key, NEW user, RoleOf(user) \in Roles \cup {Nobody}
  PROVE  Granting(route, method, key, RoleOf(user), Answer(method, route[2], key, user))
<1> DEFINE path == route[2]
           role == RoleOf(user)
<1>1. Nobody \notin Roles
  BY AccessAssumption
<1>2. CASE method = "OPTIONS"
  <2>1. Answer(method, path, key, user) = "served"
    BY <1>2 DEF Answer
  <2> QED BY <1>2, <2>1 DEF Granting, OpenTo
<1>3. CASE method = route[1] /\ route \in Public
  <2>1. Answer(method, path, key, user) = "served"
    BY <1>3, PublicRoutes DEF Answer, OpenPaths
  <2> QED BY <1>3, <2>1 DEF Granting, OpenTo
<1>4. CASE method = route[1] /\ route = IngestChunks
  <2>1. /\ route \notin Public /\ route # IngestElf
        /\ path # IngestElf[2] /\ path[1] = "ingest" /\ path \notin OpenPaths /\ method = "POST"
        /\ route \notin Rest \cup DeviceOrUser
    BY <1>4, IngestRoutes, PublicRoutes, UserRoutes, DeviceRoutes, KeeperRoutes,
       EvidenceRoutes, AdminRoutes, BackupRoutes DEF Rest
  <2>2. ~Granted(route, role)
    BY <2>1 DEF Granted, Rest
  <2>3. Answer(method, path, key, user) =
          IF setup.key = Nobody \/ KeyFits(key) THEN "served" ELSE "401"
    BY <2>1 DEF Answer, OpenPaths
  <2> QED BY <1>4, <2>1, <2>2, <2>3 DEF Granting, OpenTo, KeyFits
<1>5. CASE method = route[1] /\ route = IngestElf
  <2>1. /\ route \notin Public /\ route # IngestChunks
        /\ path = IngestElf[2] /\ path[1] = "ingest" /\ path \notin OpenPaths /\ method = "POST"
        /\ route \notin Rest \cup DeviceOrUser
    BY <1>5, IngestRoutes, PublicRoutes, UserRoutes, DeviceRoutes, KeeperRoutes,
       EvidenceRoutes, AdminRoutes, BackupRoutes DEF Rest
  <2>2. Granted(route, role) <=> CanWrite(role)
    BY <1>5, <2>1 DEF Granted, Rest
  <2>3. Answer(method, path, key, user) =
          IF KeyFits(key) THEN "served"
          ELSE IF role = Nobody THEN "401"
          ELSE IF CanWrite(role) THEN "served" ELSE "403"
    BY <2>1 DEF Answer, OpenPaths
  <2> QED BY <1>1, <1>5, <2>1, <2>2, <2>3 DEF Granting, OpenTo, KeyFits, CanWrite, Roles
<1>6. CASE method = route[1] /\ route \in DeviceOrUser
  <2>1. /\ route \notin Public /\ route # IngestChunks /\ route # IngestElf
        /\ path # IngestElf[2] /\ path[1] = "ota" /\ path \notin OpenPaths /\ method = "GET"
        /\ route \notin ProvisionerUp /\ route \notin EvidenceReads
        /\ route \notin AdminOnly \cup GroupWrites
        /\ IsDeviceOtaPath(path)
    BY <1>6, IngestRoutes, PublicRoutes, DeviceRoutes, KeeperRoutes,
       EvidenceRoutes, AdminRoutes
  <2>2. Granted(route, role) <=> role \in Roles \ {"auditor"}
    BY <1>6, <2>1 DEF Granted
  <2>3. RoleMay(role, method, path) <=> role # "auditor"
    BY <2>1 DEF RoleMay
  <2>4. Answer(method, path, key, user) =
          IF KeyFits(key) THEN "served"
          ELSE IF role = Nobody THEN "401"
          ELSE IF role # "auditor" THEN "served" ELSE "403"
    BY <2>1, <2>3 DEF Answer, OpenPaths
  <2> QED BY <1>1, <1>6, <2>1, <2>2, <2>4 DEF Granting, OpenTo, KeyFits, Roles
<1>7. CASE method = route[1] /\ route \in Rest
  <2>1. /\ route \notin Public /\ route # IngestChunks /\ route # IngestElf
        /\ path # IngestElf[2] /\ path[1] # "ingest" /\ path \notin OpenPaths
        /\ route \notin DeviceOrUser
        /\ ~(method = "GET" /\ IsDeviceOtaPath(path)) /\ method # "OPTIONS"
    BY <1>7, IngestRoutes, PublicRoutes, UserRoutes, DeviceRoutes, KeeperRoutes,
       EvidenceRoutes, AdminRoutes, BackupRoutes DEF Rest
  <2>2. Granted(route, role) <=> role # Nobody /\ RoleMay(role, method, path)
    <3>1. CASE route \in UserReads \cup AdminReads
      <4>1. /\ route \notin ProvisionerUp \cup EvidenceReads \cup AdminOnly \cup GroupWrites
            /\ method = "GET" /\ path[1] # "evidence"
        BY <1>7, <3>1, UserRoutes, BackupRoutes, KeeperRoutes, EvidenceRoutes, AdminRoutes
      <4>2. RoleMay(role, method, path) <=> role # "auditor"
        BY <4>1 DEF RoleMay
      <4> QED BY <1>1, <2>1, <3>1, <4>1, <4>2 DEF Granted
    <3>2. CASE route \in ProvisionerUp
      <4>1. route \notin UserReads \cup AdminReads \cup EvidenceReads \cup AdminOnly \cup GroupWrites
        BY <3>2, UserRoutes, BackupRoutes, KeeperRoutes, EvidenceRoutes, AdminRoutes
      <4>2. RoleMay(role, method, path) <=> CanWrite(role)
        BY <1>7, <3>2, KeeperRoutes DEF RoleMay, CanWrite
      <4> QED BY <1>1, <2>1, <3>2, <4>1, <4>2 DEF Granted, CanWrite, Roles
    <3>3. CASE route \in EvidenceReads
      <4>1. route \notin UserReads \cup AdminReads \cup ProvisionerUp \cup AdminOnly \cup GroupWrites
        BY <3>3, UserRoutes, BackupRoutes, KeeperRoutes, EvidenceRoutes, AdminRoutes
      <4>2. RoleMay(role, method, path) <=> CanReadEvidence(role)
        BY <1>7, <3>3, EvidenceRoutes DEF RoleMay
      <4> QED BY <1>1, <2>1, <3>3, <4>1, <4>2 DEF Granted, CanReadEvidence, Roles
    <3>4. CASE route \in AdminOnly \cup GroupWrites
      <4>1. route \notin UserReads \cup AdminReads \cup ProvisionerUp \cup EvidenceReads
        BY <3>4, UserRoutes, BackupRoutes, KeeperRoutes, EvidenceRoutes, AdminRoutes
      <4>2. RoleMay(role, method, path) <=> role = "admin"
        BY <1>7, <3>4, AdminRoutes DEF RoleMay, CanWrite, CanReadEvidence
      <4> QED BY <1>1, <2>1, <3>4, <4>1, <4>2 DEF Granted, Roles
    <3> QED BY <1>7, <3>1, <3>2, <3>3, <3>4 DEF Rest
  <2>3. Answer(method, path, key, user) =
          IF role = Nobody THEN "401"
          ELSE IF RoleMay(role, method, path) THEN "served" ELSE "403"
    BY <2>1 DEF Answer, OpenPaths
  <2>4. ~OpenTo(route, method, key)
    BY <2>1 DEF OpenTo
  <2> QED BY <2>2, <2>3, <2>4 DEF Granting
<1> QED BY <1>2, <1>3, <1>4, <1>5, <1>6, <1>7 DEF Routes, Rest

Told(route, method, key, user, given) ==
  LET open == OpenTo(route, method, key)
  IN  /\ open \/ (MayAsTold(route, user) /\ ~Unseen(user)) => given = "served"
      /\ given = "served" =>
           \/ open
           \/ MightAsTold(route, user)
           \/ Unseen(user) /\ route \in UserReads \cup DeviceOrUser
           \/ /\ route \in AdminReads
              /\ Unseen(user) \/ Is(user, "viewer") \/ Is(user, "provisioner")
      /\ given = "403" => \E role \in Roles : Is(user, role)
      /\ given = "401" => route = IngestChunks \/ \A role \in Roles : ~Is(user, role)

LEMMA AnswerTold ==
  ASSUME SetupOK, NEW route \in Routes, NEW method \in {route[1], "OPTIONS"},
         NEW key, NEW user \in Users
  PROVE  Told(route, method, key, user, Answer(method, route[2], key, user))
<1> DEFINE role == RoleOf(user)
           given == Answer(method, route[2], key, user)
<1>1. RoleSays(user) /\ Nobody \notin Roles
  BY RoleOfUser, AccessAssumption
<1>2. Granting(route, method, key, role, given)
  BY <1>1, AnswerGrants DEF RoleSays
<1> HIDE DEF given
<1>3. MayAsTold(route, user) /\ ~Unseen(user) => Granted(route, role)
  BY <1>1 DEF MayAsTold, RoleSays, Granted, CanWrite, CanReadEvidence, Roles
<1>4. Granted(route, role) =>
        \/ MightAsTold(route, user)
        \/ Unseen(user) /\ route \in UserReads \cup DeviceOrUser
        \/ /\ route \in AdminReads
           /\ Unseen(user) \/ Is(user, "viewer") \/ Is(user, "provisioner")
  <2>1. CASE Unseen(user)
    BY <1>1, <2>1 DEF RoleSays, Granted, CanWrite, CanReadEvidence, Roles
  <2>2. CASE ~Unseen(user)
    BY <1>1, <2>2 DEF RoleSays, Granted, MightAsTold, MayAsTold, CanWrite, CanReadEvidence, Roles
  <2> QED BY <2>1, <2>2
<1>5. role = Nobody <=> \A r \in Roles : ~Is(user, r)
  BY <1>1 DEF RoleSays
<1>6. Told(route, method, key, user, given)
  BY <1>2, <1>3, <1>4, <1>5 DEF Granting, Told
<1> QED BY <1>6 DEF given

AccessInv == SetupOK /\ AnsweredAsTold

LEMMA AccessInitInv == AccessInit => AccessInv
BY DEF AccessInit, AccessInv, SetupOK, AnsweredAsTold

LEMMA SameSetup ==
  ASSUME setup' = setup
  PROVE  \A route, method, key, user :
           /\ OpenTo(route, method, key)' <=> OpenTo(route, method, key)
           /\ \A r : Is(user, r)' <=> Is(user, r)
           /\ MayAsTold(route, user)' <=> MayAsTold(route, user)
           /\ MightAsTold(route, user)' <=> MightAsTold(route, user)
<1>1. \A user, r : Is(user, r)' <=> Is(user, r)
  BY DEF Is
<1>2. \A route, user : MayAsTold(route, user)' <=> MayAsTold(route, user)
  BY <1>1 DEF MayAsTold
<1>3. \A route, user : MightAsTold(route, user)' <=> MightAsTold(route, user)
  BY <1>1, <1>2 DEF MightAsTold
<1>4. \A route, method, key : OpenTo(route, method, key)' <=> OpenTo(route, method, key)
  BY DEF OpenTo
<1> QED BY <1>1, <1>2, <1>3, <1>4

LEMMA AccessStepInv == AccessInv /\ [AccessNext]_accessVars => AccessInv'
<1> SUFFICES ASSUME AccessInv, [AccessNext]_accessVars PROVE AccessInv'
  OBVIOUS
<1>1. ASSUME NEW route \in Routes, NEW key \in {"key", "other", Nobody}, NEW user \in Users,
             NEW method \in {route[1], "OPTIONS"}, Ask(route, method, key, user)
      PROVE  AccessInv'
  <2>1. setup' = setup /\ answer' = Answer(method, route[2], key, user)
        /\ ask'.route = route /\ ask'.method = method /\ ask'.key = key /\ ask'.user = user
    BY <1>1 DEF Ask
  <2>2. Told(route, method, key, user, answer')
    BY <2>1, AnswerTold DEF AccessInv
  <2>3. Told(route, method, key, user, answer)'
    BY <2>1, <2>2, SameSetup DEF Told
  <2>4. AnsweredAsTold'
    BY <2>1, <2>3 DEF AnsweredAsTold, Told
  <2> QED BY <2>1, <2>4 DEF AccessInv, SetupOK
<1>2. CASE UNCHANGED accessVars
  <2>1. setup' = setup /\ ask' = ask /\ answer' = answer
    BY <1>2 DEF accessVars
  <2>2. AnsweredAsTold'
    BY <2>1, SameSetup DEF AccessInv, AnsweredAsTold
  <2> QED BY <2>1, <2>2 DEF AccessInv, SetupOK
<1> QED BY <1>1, <1>2 DEF AccessNext

LEMMA AccessTold == AccessSpec => []AnsweredAsTold
<1>1. AccessInv => AnsweredAsTold
  BY DEF AccessInv
<1> QED BY <1>1, AccessInitInv, AccessStepInv, PTL DEF AccessSpec

-----------------------------------------------------------------------------
(* SignIn *)

SignRecords ==
  /\ mode \in {"keycloak", "basic"}
  /\ kept = [token |-> kept.token, verifier |-> kept.verifier, client |-> kept.client]
  /\ exchange # NoOne =>
       exchange = [code |-> exchange.code, verifier |-> exchange.verifier,
                   answer |-> exchange.answer]

(* A tab that is away for a sign-in has its verifier, or none; the others  *)
(* begin in the application, where nothing is exchanged.                   *)
OneAtATime ==
  /\ tab.page = "app" => exchange = NoOne
  /\ tab.page # "app" =>
       digesting = {} /\ going = NoOne /\ kept.verifier \in {tab.of, NoOne}
  /\ going # NoOne => kept.verifier = going
  /\ exchange # NoOne => tab.page = "callback" /\ ~failed

SignInInv == SignRecords /\ OneAtATime /\ SignInSound

LEMMA SignInInitInv == SignInInit => SignInInv
BY DEF SignInInit, SignInInv, SignRecords, OneAtATime, SignInSound, OwnVerifier, TokenIsKept, Loading

(* A page is loaded with what the tab has of a sign-in. *)
LEMMA LoadSound ==
  ASSUME SignInInv, mode' = mode, NEW page \in {"app", "callback"}, NEW of, NEW store,
         store = [token |-> store.token, verifier |-> store.verifier,
                   client |-> store.client],
         page = "callback" => store.verifier \in {of, NoOne},
         Load(page, of, store)
  PROVE  SignInInv'
<1>1. /\ tab'.page = page /\ tab'.of = of /\ kept' = store
      /\ digesting' = {} /\ going' = NoOne
  BY DEF Load
<1>2. TokenIsKept'
  BY <1>1 DEF Load, TokenIsKept, SignedIn, Loading
<1>3. CASE page = "callback" /\ store.client /\ store.verifier # NoOne
  <2>1. exchange' = Pending(of, store.verifier) /\ ~failed'
    BY <1>3 DEF Load
  <2> QED
    BY <1>1, <1>2, <1>3, <2>1
    DEF Pending, SignInInv, SignRecords, OneAtATime, SignInSound, OwnVerifier
<1>4. CASE ~(page = "callback" /\ store.client /\ store.verifier # NoOne)
  <2>1. exchange' = NoOne
    BY <1>4 DEF Load
  <2> QED
    BY <1>1, <1>2, <2>1 DEF SignInInv, SignRecords, OneAtATime, SignInSound, OwnVerifier
<1> QED BY <1>3, <1>4

LEMMA SignInStepInv == SignInInv /\ [SignInNext]_signVars => SignInInv'
<1> SUFFICES ASSUME SignInInv, [SignInNext]_signVars PROVE SignInInv'
  OBVIOUS
<1> USE DEF SignInInv, SignRecords, OneAtATime, SignInSound, OwnVerifier, TokenIsKept
<1>1. CASE Discovered
  BY <1>1 DEF Discovered, LoginWith
<1>2. CASE ClickSso
  <2>1. kept' = [token |-> kept.token, verifier |-> kept.verifier, client |-> TRUE]
    BY <1>2 DEF ClickSso
  <2>2. tab.page = "app"
    BY <1>2 DEF ClickSso, ShowsLogin
  <2> QED BY <1>2, <2>1, <2>2 DEF ClickSso
<1>3. ASSUME NEW n \in digesting, Digested(n) PROVE SignInInv'
  <2>1. kept' = [token |-> kept.token, verifier |-> n, client |-> kept.client]
    BY <1>3 DEF Digested
  <2> QED BY <1>3, <2>1 DEF Digested
<1>4. CASE Leave
  BY <1>4 DEF Leave
<1>5. CASE Authorize
  BY <1>5, LoadSound DEF Authorize
<1>6. CASE GoBack
  BY <1>6, LoadSound DEF GoBack
<1>7. CASE ProviderAnswers
  <2>1. PICK a : exchange' = [exchange EXCEPT !.answer = a]
    BY <1>7 DEF ProviderAnswers
  <2>2. exchange' = [code |-> exchange.code, verifier |-> exchange.verifier, answer |-> a]
    BY <1>7, <2>1 DEF ProviderAnswers
  <2> QED BY <1>7, <2>2 DEF ProviderAnswers
<1>8. CASE Exchanged
  BY <1>8 DEF Exchanged, SignedIn
<1>9. CASE ExchangeFails
  BY <1>9 DEF ExchangeFails
<1>10. CASE BackToLogin
  BY <1>10 DEF BackToLogin
<1>11. CASE SubmitBasic
  BY <1>11 DEF SubmitBasic
<1>12. CASE BasicAnswered
  <2>1. CASE kept' = [kept EXCEPT !.token = 0] /\ authState' = SignedIn(0)
    <3>1. kept' = [token |-> 0, verifier |-> kept.verifier, client |-> kept.client]
      BY <2>1
    <3> QED BY <1>12, <2>1, <3>1 DEF BasicAnswered, SignedIn
  <2> QED BY <1>12, <2>1 DEF BasicAnswered
<1>13. CASE Reload
  BY <1>13, LoadSound DEF Reload
<1>14. CASE SignOut
  <2> DEFINE store == [kept EXCEPT !.token = NoOne]
  <2>1. store = [token |-> NoOne, verifier |-> kept.verifier, client |-> kept.client]
    OBVIOUS
  <2>2. store = [token |-> store.token, verifier |-> store.verifier,
                  client |-> store.client]
    BY <2>1
  <2>3. Load("app", NoOne, store)
    BY <1>14 DEF SignOut
  <2>4. mode' = mode
    BY <1>14 DEF SignOut
  <2> HIDE DEF store
  <2> QED BY <2>2, <2>3, <2>4, LoadSound
<1>15. CASE UNCHANGED signVars
  BY <1>15 DEF signVars
<1> QED
  BY <1>1, <1>2, <1>3, <1>4, <1>5, <1>6, <1>7, <1>8, <1>9, <1>10, <1>11, <1>12,
     <1>13, <1>14, <1>15 DEF SignInNext

LEMMA SignsIn == SignInSpec => []SignInSound
<1>1. SignInInv => SignInSound
  BY DEF SignInInv
<1> QED BY <1>1, SignInInitInv, SignInStepInv, PTL DEF SignInSpec

-----------------------------------------------------------------------------
(* Symbols *)

(* The uploads are numbered, and a file is of uploads for its version.     *)
Uploads == DOMAIN builds

BeingWritten == {posts[p].build : p \in {q \in Posters : posts[q].stage \in {"write", "left"}}}

Numbered ==
  /\ \E n \in Nat : builds \in [1 .. n -> Versions] /\ DOMAIN stale = 1 .. n
  /\ \A v \in Versions : \A b \in elfs[v] : b \in Uploads /\ builds[b] = v
  /\ DOMAIN elfs = Versions
  /\ posts \in [Posters -> [stage : {"idle", "write", "left", "lock"}, build : Uploads \cup {NoElf}]]
  /\ \A p \in Posters : posts[p].stage # "idle" => posts[p].build \in Uploads

(* What a file was written over is never in it again.                      *)
NeverAgain ==
  \A b \in Uploads : \A x \in stale[b] :
    x \in Uploads /\ x \notin elfs[builds[b]] /\ x \notin BeingWritten

(* The upload that was answered last is for the current version.           *)
AnsweredIsCurrent ==
  /\ symbols.known \subseteq Versions
  /\ {symbols.current, lookup.elf} \subseteq Versions \cup {NoElf}
  /\ answered # NoElf => answered \in Uploads /\ symbols.current = builds[answered]
  /\ lookup.due # NoElf => lookup.due \in Uploads /\ lookup.elf = builds[lookup.due]
  /\ shown.symbol # NoElf => shown.symbol \in Uploads
  /\ shown.due # NoElf => shown.due \in Uploads

(* What the code does whatever the fault is of: AnsweredIsRead says it of  *)
(* the faults for which the documentation does.                            *)
NewestIsRead ==
  shown.symbol # NoElf /\ shown.due # NoElf =>
    /\ builds[shown.symbol] = builds[shown.due]
    /\ shown.symbol \notin stale[shown.due]

SymbolsInv == Numbered /\ NeverAgain /\ AnsweredIsCurrent /\ NewestIsRead

LEMMA SymbolsInitInv == SymbolsInit => SymbolsInv
<1> SUFFICES ASSUME SymbolsInit PROVE SymbolsInv
  OBVIOUS
<1>1. 0 \in Nat /\ 1 .. 0 = {} /\ builds \in [1 .. 0 -> Versions] /\ DOMAIN stale = 1 .. 0
  BY DEF SymbolsInit
<1>2. Uploads = {}
  BY DEF SymbolsInit, Uploads
<1>3. Numbered
  BY <1>1, <1>2 DEF SymbolsInit, Numbered, NoPost
<1> QED
  BY <1>2, <1>3 DEF SymbolsInit, SymbolsInv, NeverAgain, AnsweredIsCurrent, NewestIsRead, NoLookup

LEMMA ExtendedIs ==
  ASSUME NEW f, NEW n \in Nat, DOMAIN f = 1 .. n, NEW x
  PROVE  /\ Cardinality(DOMAIN f) = n
         /\ DOMAIN Extended(f, x) = 1 .. n + 1
         /\ Extended(f, x)[n + 1] = x
         /\ \A i \in 1 .. n : Extended(f, x)[i] = f[i]
<1>1. Cardinality(1 .. n) = n
  BY FS_Interval
<1> QED BY <1>1 DEF Extended

LEMMA SymbolsStepInv == SymbolsInv /\ [SymbolsNext]_symbolVars => SymbolsInv'
<1> SUFFICES ASSUME SymbolsInv, [SymbolsNext]_symbolVars PROVE SymbolsInv'
  OBVIOUS
<1> USE DEF SymbolsInv
<1>1. ASSUME NEW p \in Posters, NEW v \in Versions, PostElf(p, v) PROVE SymbolsInv'
  <2>1. PICK n \in Nat : builds \in [1 .. n -> Versions] /\ DOMAIN stale = 1 .. n
    BY DEF Numbered
  <2>2. Cardinality(DOMAIN builds) = n /\ Uploads = 1 .. n
    BY <2>1, ExtendedIs DEF Uploads
  <2> DEFINE b == n + 1
             over == elfs[v] \ Writing(v)
  <2>3. /\ builds' = Extended(builds, v)
        /\ posts' = [posts EXCEPT ![p] = [stage |-> "write", build |-> b]]
        /\ elfs' = [elfs EXCEPT ![v] = {b} \cup Writing(v)]
        /\ stale' = Extended(stale, over)
        /\ UNCHANGED <<symbols, lookup, answered, shown, reboots>>
    BY <1>1, <2>2 DEF PostElf
  <2> HIDE DEF over
  <2>4. /\ DOMAIN builds' = 1 .. b /\ builds'[b] = v
        /\ \A i \in 1 .. n : builds'[i] = builds[i]
    BY <2>1, <2>3, ExtendedIs
  <2>5. /\ DOMAIN stale' = 1 .. b /\ stale'[b] = over
        /\ \A i \in 1 .. n : stale'[i] = stale[i]
    BY <2>1, <2>3, ExtendedIs
  <2>6. Uploads' = 1 .. b /\ Uploads' = Uploads \cup {b} /\ b \notin Uploads
    BY <2>2, <2>4 DEF Uploads
  <2>7. \A x \in Writing(v) : x \in Uploads /\ builds[x] = v /\ x \in BeingWritten
    BY DEF Writing, Numbered, BeingWritten
  <2>8. \A x \in BeingWritten' : x \in BeingWritten \/ x = b
    BY <2>3 DEF BeingWritten, Numbered
  <2>9. Numbered'
    <3>1. builds' \in [1 .. b -> Versions] /\ b \in Nat
      BY <2>1, <2>3, <2>4 DEF Extended
    <3>2. \A w \in Versions : \A x \in elfs'[w] : x \in Uploads' /\ builds'[x] = w
      BY <2>2, <2>3, <2>4, <2>6, <2>7 DEF Numbered
    <3>3. /\ posts' \in [Posters -> [stage : {"idle", "write", "left", "lock"},
                                     build : Uploads' \cup {NoElf}]]
          /\ \A q \in Posters : posts'[q].stage # "idle" => posts'[q].build \in Uploads'
      BY <2>3, <2>6 DEF Numbered
    <3> QED BY <2>3, <2>5, <3>1, <3>2, <3>3 DEF Numbered
  <2>10. NeverAgain'
    <3>1. ASSUME NEW c \in Uploads, NEW x \in stale[c]
          PROVE  x \in Uploads' /\ x \notin elfs'[builds'[c]] /\ x \notin BeingWritten'
      <4>1. x \in Uploads /\ x \notin elfs[builds[c]] /\ x \notin BeingWritten /\ x # b
        BY <3>1, <2>6 DEF NeverAgain
      <4>2. builds'[c] = builds[c] /\ builds[c] \in Versions
        BY <2>1, <2>2, <2>4
      <4>3. elfs'[builds[c]] \subseteq elfs[builds[c]] \cup {b} \cup BeingWritten
        BY <2>3, <2>7, <4>2 DEF Numbered
      <4> QED BY <4>1, <4>2, <4>3, <2>6, <2>8
    <3>2. ASSUME NEW x \in over
          PROVE  x \in Uploads' /\ x \notin elfs'[v] /\ x \notin BeingWritten'
      <4>1. x \in Uploads /\ builds[x] = v /\ x \notin Writing(v) /\ x # b
        BY <2>6 DEF over, Numbered
      <4>2. x \notin BeingWritten
        BY <4>1 DEF Writing, BeingWritten
      <4>3. elfs'[v] = {b} \cup Writing(v)
        BY <2>3 DEF Numbered
      <4> QED BY <4>1, <4>2, <4>3, <2>6, <2>8
    <3> QED BY <2>2, <2>4, <2>5, <2>6, <3>1, <3>2 DEF NeverAgain
  <2>11. AnsweredIsCurrent' /\ NewestIsRead'
    BY <2>2, <2>3, <2>4, <2>5, <2>6 DEF AnsweredIsCurrent, NewestIsRead
  <2> QED BY <2>9, <2>10, <2>11
<1>2. ASSUME NEW p \in Posters, NEW s \in {"lock", "left"},
             posts[p].stage = "write", posts' = [posts EXCEPT ![p].stage = s],
             UNCHANGED <<elfs, symbols, lookup, builds, stale, answered, shown, reboots>>
      PROVE  SymbolsInv'
  <2>1. /\ posts' = [posts EXCEPT ![p] = [posts[p] EXCEPT !.stage = s]]
        /\ [posts[p] EXCEPT !.stage = s] = [stage |-> s, build |-> posts[p].build]
    BY <1>2 DEF Numbered
  <2>2. Uploads' = Uploads /\ BeingWritten' \subseteq BeingWritten
    BY <1>2, <2>1 DEF Uploads, BeingWritten, Numbered
  <2> QED BY <1>2, <2>1, <2>2 DEF Numbered, NeverAgain, AnsweredIsCurrent, NewestIsRead
<1>3. ASSUME NEW p \in Posters, RegisterElf(p) PROVE SymbolsInv'
  <2>1. /\ Uploads' = Uploads /\ BeingWritten' \subseteq BeingWritten
        /\ posts[p].build \in Uploads
    BY <1>3 DEF RegisterElf, NoPost, Uploads, BeingWritten, Numbered
  <2>2. builds[posts[p].build] \in Versions
    BY <2>1 DEF Numbered, Uploads
  <2>3. lookup.due = NoElf /\ lookup.elf = NoElf
    BY <1>3 DEF RegisterElf, NoLookup
  <2>4. /\ symbols'.known = symbols.known \cup {builds[posts[p].build]}
        /\ symbols'.current = builds[posts[p].build]
    BY <1>3 DEF RegisterElf, Registered
  <2>5. AnsweredIsCurrent' /\ NewestIsRead'
    BY <1>3, <2>1, <2>2, <2>3, <2>4 DEF RegisterElf, AnsweredIsCurrent, NewestIsRead
  <2>6. Numbered'
    BY <1>3, <2>1 DEF RegisterElf, NoPost, Numbered
  <2>7. NeverAgain'
    BY <1>3, <2>1 DEF RegisterElf, NeverAgain
  <2> QED BY <2>5, <2>6, <2>7
<1>4. ASSUME NEW p \in Posters, EndPost(p) PROVE SymbolsInv'
  <2>1. Uploads' = Uploads /\ BeingWritten' \subseteq BeingWritten
    BY <1>4 DEF EndPost, NoPost, Uploads, BeingWritten, Numbered
  <2> QED BY <1>4, <2>1 DEF EndPost, NoPost, Numbered, NeverAgain, AnsweredIsCurrent, NewestIsRead
<1>5. ASSUME NEW v \in Versions, LookUpFault(v) PROVE SymbolsInv'
  <2>1. Uploads' = Uploads /\ BeingWritten' = BeingWritten
    BY <1>5 DEF LookUpFault, Uploads, BeingWritten
  <2>2. lookup'.due = answered /\ lookup'.elf = symbols.current
    BY <1>5, SymbolsAssumption DEF LookUpFault, ElfForVersion, AnsweredIsCurrent
  <2>3. AnsweredIsCurrent' /\ NewestIsRead'
    BY <1>5, <2>1, <2>2 DEF LookUpFault, AnsweredIsCurrent, NewestIsRead
  <2>4. Numbered' /\ NeverAgain'
    BY <1>5, <2>1 DEF LookUpFault, Numbered, NeverAgain
  <2> QED BY <2>3, <2>4
<1>6. CASE SymbolStored
  <2>1. Uploads' = Uploads /\ BeingWritten' = BeingWritten
    BY <1>6 DEF SymbolStored, Uploads, BeingWritten
  <2>2. PICK symbol \in {NoElf} \cup (IF lookup.elf = NoElf THEN {} ELSE elfs[lookup.elf]) :
          shown' = [symbol |-> symbol, of |-> lookup.of, due |-> lookup.due, known |-> lookup.known]
    BY <1>6 DEF SymbolStored
  <2>3. shown'.symbol = symbol /\ shown'.due = lookup.due
    BY <2>2
  <2>4. AnsweredIsCurrent' /\ NewestIsRead'
    <3>1. CASE symbol = NoElf
      BY <1>6, <2>1, <2>3, <3>1 DEF SymbolStored, NoLookup, AnsweredIsCurrent, NewestIsRead
    <3>2. CASE symbol # NoElf
      <4>1. lookup.elf \in Versions /\ symbol \in elfs[lookup.elf]
        BY <3>2 DEF AnsweredIsCurrent
      <4>2. symbol \in Uploads /\ builds[symbol] = lookup.elf
        BY <4>1 DEF Numbered
      <4>3. lookup.due # NoElf => symbol \notin stale[lookup.due]
        BY <4>1 DEF AnsweredIsCurrent, NeverAgain
      <4> QED BY <1>6, <2>1, <2>3, <4>2, <4>3
              DEF SymbolStored, NoLookup, AnsweredIsCurrent, NewestIsRead
    <3> QED BY <3>1, <3>2
  <2> QED BY <1>6, <2>1, <2>4 DEF SymbolStored, Numbered, NeverAgain
<1>7. CASE Reboot
  <2>1. Uploads' = Uploads /\ BeingWritten' = {}
    BY <1>7 DEF Reboot, NoPost, Uploads, BeingWritten
  <2>2. lookup'.due = NoElf
    BY <1>7 DEF Reboot, NoLookup
  <2>3. symbols'.known \subseteq Versions /\ symbols'.current \in Versions \cup {NoElf}
        /\ lookup'.elf = NoElf
    BY <1>7 DEF Reboot, NoLookup
  <2> QED BY <1>7, <2>1, <2>2, <2>3 DEF Reboot, NoPost, Numbered, NeverAgain, AnsweredIsCurrent, NewestIsRead
<1>8. CASE UNCHANGED symbolVars
  BY <1>8 DEF symbolVars, Uploads, BeingWritten, Numbered, NeverAgain, AnsweredIsCurrent, NewestIsRead
<1> QED BY <1>1, <1>2, <1>3, <1>4, <1>5, <1>6, <1>7, <1>8 DEF SymbolsNext, ElfWritten, LeavePost

LEMMA SymbolsTold == SymbolsSpec => []AnsweredIsRead
<1>1. SymbolsInv => AnsweredIsRead
  BY DEF SymbolsInv, NewestIsRead, AnsweredIsRead
<1> QED BY <1>1, SymbolsInitInv, SymbolsStepInv, PTL DEF SymbolsSpec

-----------------------------------------------------------------------------
(* DeviceLog *)

InHistory(report) ==
  \/ \E m \in DOMAIN logged : Build(logged[m], report)
  \/ \E m \in DOMAIN unlogged : Build(unlogged[m], report)

LogTyped ==
  /\ logged \in Seq(Entry) /\ unlogged \in Seq(Entry)
  /\ owing \in [Clerks -> KeyEntry \cup {Nothing}]
  /\ keyId \in KeyIds \cup {Nothing}

(* A build the server has of the device was told, or lost.                 *)
RowsTold == /\ row \in Reports => InHistory(row)
            /\ saved \in Reports => InHistory(saved)

LogInv == LogTyped /\ RowsTold /\ HistoryTold

LEMMA EntryKinds ==
  ASSUME NEW e \in Entry
  PROVE  /\ e.about \in {"build", "key"}
         /\ e.about = "build" => e \in BuildEntry
         /\ e.about = "key" => e \in KeyEntry
BY DEF Entry, BuildEntry, KeyEntry

LEMMA Appended ==
  ASSUME NEW s \in Seq(Entry), NEW e \in Entry
  PROVE  /\ Append(s, e) \in Seq(Entry)
         /\ DOMAIN Append(s, e) = DOMAIN s \cup {Len(s) + 1}
         /\ Len(s) + 1 \notin DOMAIN s
         /\ DOMAIN s \subseteq Nat
         /\ Len(s) \in Nat
         /\ \A n \in DOMAIN s : Append(s, e)[n] = s[n] /\ n < Len(s) + 1
         /\ Append(s, e)[Len(s) + 1] = e
<1>1. PICK n \in Nat : n = Len(s) /\ DOMAIN s = 1 .. n
  BY LenProperties
<1> QED BY <1>1, AppendProperties

LEMMA NamingFinite ==
  ASSUME NEW s \in Seq(Entry), NEW end, NEW id
  PROVE  /\ IsFiniteSet(Naming(s, end, id))
         /\ Cardinality(Naming(s, end, id)) \in Nat
<1>1. PICK n \in Nat : n = Len(s) /\ DOMAIN s = 1 .. n
  BY LenProperties
<1>2. IsFiniteSet(1 .. n)
  BY <1>1, FS_Interval
<1>3. Naming(s, end, id) \subseteq 1 .. n
  BY <1>1 DEF Naming
<1> QED BY <1>2, <1>3, FS_Subset, FS_CardinalityType

LEMMA NamingAppended ==
  ASSUME NEW s \in Seq(Entry), NEW e \in Entry, NEW end, NEW id
  PROVE  /\ IsFiniteSet(Naming(s, end, id))
         /\ Cardinality(Naming(s, end, id)) \in Nat
         /\ Cardinality(Naming(Append(s, e), end, id)) =
              Cardinality(Naming(s, end, id)) + (IF Names(e, end, id) THEN 1 ELSE 0)
<1>2. IsFiniteSet(Naming(s, end, id)) /\ Cardinality(Naming(s, end, id)) \in Nat
  BY NamingFinite
<1>3. CASE Names(e, end, id)
  <2>1. Naming(Append(s, e), end, id) = Naming(s, end, id) \cup {Len(s) + 1}
    BY <1>3, Appended DEF Naming
  <2>2. Len(s) + 1 \notin Naming(s, end, id)
    BY Appended DEF Naming
  <2> QED BY <1>2, <1>3, <2>1, <2>2, FS_AddElement
<1>4. CASE ~Names(e, end, id)
  <2>1. Naming(Append(s, e), end, id) = Naming(s, end, id)
    BY <1>4, Appended DEF Naming
  <2> QED BY <1>2, <1>4, <2>1
<1> QED BY <1>2, <1>3, <1>4

Owes(o, end, id) == {c \in Clerks : o[c] # Nothing /\ Names(o[c], end, id)}

LEMMA OwedIs == ASSUME NEW end, NEW id
                PROVE  Owed(end, id) = Owes(owing, end, id)
BY DEF Owed, Due, Owes

LEMMA OwedLater == \A end, id : Owed(end, id)' = Owes(owing', end, id)
BY DEF Owed, Due, Owes

LEMMA OwesMore ==
  ASSUME NEW o \in [Clerks -> KeyEntry \cup {Nothing}], NEW clerk \in Clerks,
         NEW e \in KeyEntry, o[clerk] = Nothing, NEW end, NEW id,
         NEW p, p[clerk] = e, \A c \in Clerks \ {clerk} : p[c] = o[c]
  PROVE  /\ Cardinality(Owes(o, end, id)) \in Nat
         /\ Cardinality(Owes(p, end, id)) =
              Cardinality(Owes(o, end, id)) + (IF Names(e, end, id) THEN 1 ELSE 0)
<1>1. /\ IsFiniteSet(Owes(o, end, id))
      /\ Cardinality(Owes(o, end, id)) \in Nat
  BY DeviceLogAssumption, FS_Subset, FS_CardinalityType DEF Owes
<1>2. e # Nothing
  BY DeviceLogAssumption
<1>3. clerk \notin Owes(o, end, id)
  BY DEF Owes
<1>4. CASE Names(e, end, id)
  <2>1. Owes(p, end, id) = Owes(o, end, id) \cup {clerk}
    BY <1>2, <1>4 DEF Owes
  <2> QED BY <1>1, <1>3, <1>4, <2>1, FS_AddElement
<1>5. CASE ~Names(e, end, id)
  <2>1. Owes(p, end, id) = Owes(o, end, id)
    BY <1>2, <1>5 DEF Owes
  <2> QED BY <1>1, <1>5, <2>1
<1> QED BY <1>1, <1>4, <1>5

LEMMA OwesLess ==
  ASSUME NEW o \in [Clerks -> KeyEntry \cup {Nothing}], NEW clerk \in Clerks,
         o[clerk] # Nothing, NEW end, NEW id, NEW p,
         p[clerk] = Nothing, \A c \in Clerks \ {clerk} : p[c] = o[c]
  PROVE  /\ Cardinality(Owes(o, end, id)) \in Nat
         /\ Cardinality(Owes(p, end, id)) =
              Cardinality(Owes(o, end, id)) - (IF Names(o[clerk], end, id) THEN 1 ELSE 0)
<1>1. /\ IsFiniteSet(Owes(o, end, id))
      /\ Cardinality(Owes(o, end, id)) \in Nat
  BY DeviceLogAssumption, FS_Subset, FS_CardinalityType DEF Owes
<1>2. Owes(p, end, id) = Owes(o, end, id) \ {clerk}
  BY DEF Owes
<1>3. clerk \in Owes(o, end, id) <=> Names(o[clerk], end, id)
  BY DEF Owes
<1>4. CASE Names(o[clerk], end, id)
  BY <1>1, <1>2, <1>3, <1>4, FS_RemoveElement
<1>5. CASE ~Names(o[clerk], end, id)
  <2>1. Owes(p, end, id) = Owes(o, end, id)
    BY <1>2, <1>3, <1>5
  <2> QED BY <1>1, <1>5, <2>1
<1> QED BY <1>4, <1>5

(* What is owed, in any order, is lost when the server goes down.          *)
LEMMA NamingLost ==
  ASSUME NEW s \in Seq(Entry), NEW D, IsFiniteSet(D), NEW o, \A c \in D : o[c] \in KeyEntry,
         NEW k \in Nat, NEW clerk \in Bijection(1 .. k, D), NEW end, NEW id,
         NEW t \in [1 .. k -> Entry], \A n \in 1 .. k : t[n] = o[clerk[n]]
  PROVE  /\ s \o t \in Seq(Entry)
         /\ \A n \in DOMAIN s : n \in DOMAIN (s \o t) /\ (s \o t)[n] = s[n]
         /\ Cardinality(Naming(s \o t, end, id)) =
              Cardinality(Naming(s, end, id)) + Cardinality({c \in D : Names(o[c], end, id)})
<1> DEFINE mine == {c \in D : Names(o[c], end, id)}
           places == {n \in 1 .. k : Names(t[n], end, id)}
<1>1. /\ k \in Nat
      /\ clerk \in [1 .. k -> D]
      /\ \A m, n \in 1 .. k : clerk[m] = clerk[n] => m = n
      /\ \A c \in D : \E n \in 1 .. k : clerk[n] = c
  BY DEF Bijection, Injection, Surjection, IsInjective
<1>2. t \in [1 .. k -> Entry] /\ \A n \in 1 .. k : t[n] = o[clerk[n]]
  OBVIOUS
<1>3. t \in Seq(Entry) /\ Len(t) = k
  BY <1>1, <1>2, SeqDef, LenProperties
<1>4. PICK l \in Nat : l = Len(s) /\ DOMAIN s = 1 .. l
  BY LenProperties
<1>5. /\ s \o t \in Seq(Entry)
      /\ DOMAIN (s \o t) = 1 .. l + k
      /\ \A n \in 1 .. l : (s \o t)[n] = s[n]
      /\ \A n \in 1 .. k : (s \o t)[l + n] = t[n]
  <2>1. \A n \in 1 .. l + k : (s \o t)[n] = IF n <= l THEN s[n] ELSE t[n - l]
    BY <1>1, <1>3, <1>4, ConcatProperties
  <2>2. s \o t \in Seq(Entry) /\ Len(s \o t) = l + k
    BY <1>3, <1>4, ConcatProperties
  <2> QED BY <1>1, <1>4, <2>1, <2>2, LenProperties
<1>6. IsFiniteSet(places) /\ Cardinality(places) = Cardinality(mine)
  <2>1. IsFiniteSet(places)
    BY <1>1, FS_Interval, FS_Subset
  <2>2. [n \in places |-> clerk[n]] \in Bijection(places, mine)
    BY <1>1, <1>2 DEF Bijection, Injection, Surjection, IsInjective
  <2> QED BY <2>1, <2>2, FS_Bijection DEF ExistsBijection
<1> DEFINE later == {l + n : n \in places}
<1>7. IsFiniteSet(later) /\ Cardinality(later) = Cardinality(mine)
  <2> DEFINE shift == [n \in places |-> l + n]
  <2>1. places \subseteq Nat
    BY <1>1
  <2> HIDE DEF places
  <2>2. shift \in [places -> later]
    OBVIOUS
  <2>3. \A m, n \in places : shift[m] = shift[n] => m = n
    BY <1>4, <2>1
  <2>4. \A x \in later : \E n \in places : shift[n] = x
    OBVIOUS
  <2>5. shift \in Bijection(places, later)
    BY <2>2, <2>3, <2>4 DEF Bijection, Injection, Surjection, IsInjective
  <2> QED BY <1>6, <2>5, FS_Bijection DEF ExistsBijection
<1>8. Naming(s \o t, end, id) = Naming(s, end, id) \cup later
  <2>1. \A m \in 1 .. l : m \in 1 .. l + k /\ (Names((s \o t)[m], end, id) <=> Names(s[m], end, id))
    BY <1>5
  <2>2. \A n \in 1 .. k : l + n \in 1 .. l + k /\ (Names((s \o t)[l + n], end, id) <=> n \in places)
    BY <1>4, <1>5
  <2>3. \A m \in 1 .. l + k : m \in 1 .. l \/ (m - l \in 1 .. k /\ m = l + (m - l))
    BY <1>4
  <2>4. /\ Naming(s \o t, end, id) = {m \in 1 .. l + k : Names((s \o t)[m], end, id)}
        /\ Naming(s, end, id) = {m \in 1 .. l : Names(s[m], end, id)}
    BY <1>4, <1>5 DEF Naming
  <2>5. places \subseteq 1 .. k
    OBVIOUS
  <2> HIDE DEF places
  <2>6. Naming(s, end, id) \subseteq Naming(s \o t, end, id)
    BY <2>1, <2>4
  <2>7. later \subseteq Naming(s \o t, end, id)
    BY <2>2, <2>4, <2>5
  <2>8. ASSUME NEW m \in Naming(s \o t, end, id) PROVE m \in Naming(s, end, id) \cup later
    <3>1. m \in 1 .. l + k /\ Names((s \o t)[m], end, id)
      BY <2>4
    <3>2. CASE m \in 1 .. l
      BY <2>1, <2>4, <3>1, <3>2
    <3>3. CASE m \notin 1 .. l
      <4>1. PICK n \in 1 .. k : m = l + n
        BY <2>3, <3>1, <3>3
      <4> QED BY <2>2, <3>1, <4>1
    <3> QED BY <3>2, <3>3
  <2> QED BY <2>6, <2>7, <2>8
<1>9. Naming(s, end, id) \cap later = {}
  BY <1>1, <1>4 DEF Naming
<1>10. IsFiniteSet(Naming(s, end, id)) /\ Cardinality(Naming(s, end, id)) \in Nat
  BY NamingFinite
<1> HIDE DEF later
<1>11. Cardinality(later) \in Nat
  BY <1>7, FS_CardinalityType
<1>12. Cardinality(Naming(s \o t, end, id)) = Cardinality(Naming(s, end, id)) + Cardinality(later)
  <2>1. Cardinality(Naming(s, end, id) \cap later) = 0
    BY <1>9, FS_EmptySet
  <2>2. Cardinality(Naming(s, end, id) \cup later) =
          Cardinality(Naming(s, end, id)) + Cardinality(later) - 0
    BY <1>7, <1>10, <2>1, FS_Union
  <2> QED BY <1>8, <1>10, <1>11, <2>2
<1> HIDE DEF mine
<1>13. /\ s \o t \in Seq(Entry)
       /\ \A n \in DOMAIN s : n \in DOMAIN (s \o t) /\ (s \o t)[n] = s[n]
  BY <1>1, <1>3, <1>4, <1>5
<1> QED BY <1>7, <1>12, <1>13 DEF mine

LEMMA RecordedCounts ==
  ASSUME LogTyped, NEW entry \in Entry, NEW written, Recorded(entry, written)
  PROVE  /\ logged' \in Seq(Entry) /\ unlogged' \in Seq(Entry)
         /\ \A end, id :
              /\ Cardinality(Naming(logged, end, id)) \in Nat
              /\ Cardinality(Naming(unlogged, end, id)) \in Nat
              /\ Cardinality(Naming(logged', end, id)) + Cardinality(Naming(unlogged', end, id)) =
                   Cardinality(Naming(logged, end, id)) + Cardinality(Naming(unlogged, end, id))
                     + (IF Names(entry, end, id) THEN 1 ELSE 0)
<1>1. \/ logged' = Append(logged, entry) /\ unlogged' = unlogged
      \/ unlogged' = Append(unlogged, entry) /\ logged' = logged
  BY DEF Recorded
<1>2. logged' \in Seq(Entry) /\ unlogged' \in Seq(Entry)
  <2>1. Append(logged, entry) \in Seq(Entry)
    BY Appended DEF LogTyped
  <2>2. Append(unlogged, entry) \in Seq(Entry)
    BY Appended DEF LogTyped
  <2> QED BY <1>1, <2>1, <2>2 DEF LogTyped
<1>3. ASSUME NEW end, NEW id
      PROVE  /\ Cardinality(Naming(logged, end, id)) \in Nat
             /\ Cardinality(Naming(unlogged, end, id)) \in Nat
             /\ Cardinality(Naming(logged', end, id)) + Cardinality(Naming(unlogged', end, id)) =
                  Cardinality(Naming(logged, end, id)) + Cardinality(Naming(unlogged, end, id))
                    + (IF Names(entry, end, id) THEN 1 ELSE 0)
  <2>1. /\ Cardinality(Naming(logged, end, id)) \in Nat
        /\ Cardinality(Naming(Append(logged, entry), end, id)) =
             Cardinality(Naming(logged, end, id)) + (IF Names(entry, end, id) THEN 1 ELSE 0)
    BY NamingAppended DEF LogTyped
  <2>2. /\ Cardinality(Naming(unlogged, end, id)) \in Nat
        /\ Cardinality(Naming(Append(unlogged, entry), end, id)) =
             Cardinality(Naming(unlogged, end, id)) + (IF Names(entry, end, id) THEN 1 ELSE 0)
    BY NamingAppended DEF LogTyped
  <2>3. CASE logged' = Append(logged, entry) /\ unlogged' = unlogged
    <3>1. Naming(logged', end, id) = Naming(Append(logged, entry), end, id)
      BY <2>3
    <3>2. Naming(unlogged', end, id) = Naming(unlogged, end, id)
      BY <2>3
    <3> QED BY <2>1, <2>2, <3>1, <3>2
  <2>4. CASE unlogged' = Append(unlogged, entry) /\ logged' = logged
    <3>1. Naming(unlogged', end, id) = Naming(Append(unlogged, entry), end, id)
      BY <2>4
    <3>2. Naming(logged', end, id) = Naming(logged, end, id)
      BY <2>4
    <3> QED BY <2>1, <2>2, <3>1, <3>2
  <2> QED BY <1>1, <2>3, <2>4
<1> QED BY <1>2, <1>3

LEMMA RecordedHistory ==
  ASSUME LogInv, NEW entry \in Entry, NEW written, Recorded(entry, written),
         entry.about = "build" /\ entry.from # Nothing => InHistory(entry.from)
  PROVE  /\ \A report : InHistory(report) => InHistory(report)'
         /\ \A report : Build(entry, report) => InHistory(report)'
         /\ ChangesTold'
<1>1. CASE logged' = Append(logged, entry) /\ unlogged' = unlogged
  <2>1. /\ DOMAIN logged' = DOMAIN logged \cup {Len(logged) + 1}
        /\ \A n \in DOMAIN logged : logged'[n] = logged[n] /\ n < Len(logged) + 1 /\ n \in Nat
        /\ logged'[Len(logged) + 1] = entry
    BY <1>1, Appended DEF LogInv, LogTyped
  <2>2. \A report : InHistory(report) => InHistory(report)'
    BY <1>1, <2>1 DEF InHistory
  <2>3. \A report : Build(entry, report) => InHistory(report)'
    BY <2>1 DEF InHistory
  <2>4. ChangesTold'
    <3> SUFFICES ASSUME NEW n \in DOMAIN logged',
                        logged'[n].about = "build", logged'[n].from # Nothing
                 PROVE  \/ \E m \in DOMAIN logged' : m < n /\ Build(logged'[m], logged'[n].from)
                        \/ \E m \in DOMAIN unlogged' : Build(unlogged'[m], logged'[n].from)
      BY DEF ChangesTold
    <3>1. CASE n \in DOMAIN logged
      <4>1. \/ \E m \in DOMAIN logged : m < n /\ Build(logged[m], logged[n].from)
            \/ \E m \in DOMAIN unlogged : Build(unlogged[m], logged[n].from)
        BY <2>1, <3>1 DEF LogInv, HistoryTold, ChangesTold
      <4> QED BY <1>1, <2>1, <3>1, <4>1
    <3>2. CASE n = Len(logged) + 1
      <4>1. \/ \E m \in DOMAIN logged : Build(logged[m], entry.from)
            \/ \E m \in DOMAIN unlogged : Build(unlogged[m], entry.from)
        BY <2>1, <3>2 DEF InHistory
      <4> QED BY <1>1, <2>1, <3>2, <4>1
    <3> QED BY <2>1, <3>1, <3>2
  <2> QED BY <2>2, <2>3, <2>4
<1>2. CASE unlogged' = Append(unlogged, entry) /\ logged' = logged
  <2>1. /\ DOMAIN unlogged' = DOMAIN unlogged \cup {Len(unlogged) + 1}
        /\ \A n \in DOMAIN unlogged : unlogged'[n] = unlogged[n]
        /\ unlogged'[Len(unlogged) + 1] = entry
    BY <1>2, Appended DEF LogInv, LogTyped
  <2>2. \A report : InHistory(report) => InHistory(report)'
    BY <1>2, <2>1 DEF InHistory
  <2>3. \A report : Build(entry, report) => InHistory(report)'
    BY <2>1 DEF InHistory
  <2>4. ChangesTold'
    BY <1>2, <2>1 DEF LogInv, HistoryTold, ChangesTold
  <2> QED BY <2>2, <2>3, <2>4
<1> QED BY <1>1, <1>2 DEF Recorded

LEMMA LogInitInv == DeviceLogInit => LogInv
<1> SUFFICES ASSUME DeviceLogInit PROVE LogInv
  OBVIOUS
<1>1. LogTyped /\ RowsTold /\ RunningTold /\ ChangesTold
  BY DeviceLogAssumption
     DEF DeviceLogInit, LogTyped, RowsTold, RunningTold, ChangesTold
<1>2. KeysTold
  <2> SUFFICES ASSUME NEW id \in KeyIds
               PROVE  Times("to", id) = Times("from", id) + (IF keyId = id THEN 1 ELSE 0)
    BY DEF KeysTold
  <2>2. keyId # id
    BY DeviceLogAssumption DEF DeviceLogInit
  <2>1. \A end : Naming(logged, end, id) = {} /\ Naming(unlogged, end, id) = {} /\ Owed(end, id) = {}
    BY DEF DeviceLogInit, Naming, Owed, Due
  <2>3. Cardinality({}) = 0
    BY FS_EmptySet
  <2> QED BY <2>1, <2>2, <2>3 DEF Times
<1> QED BY <1>1, <1>2 DEF LogInv, HistoryTold

(* The log is left alone, and so are the credentials.                      *)
LEMMA RowStep ==
  ASSUME LogInv, UNCHANGED <<credentialVars, logged, unlogged>>,
         row' \in {row, saved, Nothing, Placeholder},
         saved' \in {row, saved, Nothing, Placeholder},
         row' \in Reports /\ ~stray' => row' = row /\ ~stray
  PROVE  LogInv'
<1>1. LogTyped'
  BY DEF LogInv, LogTyped, credentialVars
<1>2. RowsTold'
  BY DeviceLogAssumption DEF LogInv, RowsTold, InHistory
<1>3. RunningTold'
  BY DEF LogInv, HistoryTold, RunningTold, LastAbout
<1>4. ChangesTold'
  BY DEF LogInv, HistoryTold, ChangesTold
<1>5. KeysTold'
  BY DEF LogInv, HistoryTold, KeysTold, Times, Owed, Due, credentialVars
<1> QED BY <1>1, <1>2, <1>3, <1>4, <1>5 DEF LogInv, HistoryTold

LEMMA ReportInv ==
  ASSUME LogInv, NEW report \in Reports, NEW read \in BOOLEAN, NEW written \in BOOLEAN,
         ReportBuild(report, read, written)
  PROVE  LogInv'
<1> DEFINE previous == PreviousBuild(read)
           entry == [about |-> "build", from |-> previous, to |-> report]
<1>1. /\ row' = report /\ saved' = saved /\ UNCHANGED credentialVars
      /\ IF previous = report
           THEN written /\ UNCHANGED <<logged, unlogged, stray>>
           ELSE Recorded(entry, written) /\ stray' = ~written
  BY DEF ReportBuild
<1>2. previous = Nothing \/ (previous = row /\ row \in Reports)
  BY DEF PreviousBuild
<1>3. CASE previous = report
  <2>1. row = report
    BY <1>2, <1>3, DeviceLogAssumption
  <2> QED BY <1>1, <1>3, <2>1, RowStep
<1>4. CASE previous # report
  <2>1. /\ entry \in Entry /\ entry.about = "build" /\ entry.to = report /\ entry.from = previous
        /\ \A end, id : ~Names(entry, end, id)
    BY <1>2 DEF Entry, BuildEntry, Names
  <2> HIDE DEF entry
  <2>2. Recorded(entry, written) /\ stray' = ~written
    BY <1>1, <1>4
  <2>3. /\ \A r : InHistory(r) => InHistory(r)'
        /\ InHistory(report)'
        /\ ChangesTold'
    <3>1. entry.from # Nothing => InHistory(entry.from)
      BY <1>2, <2>1 DEF LogInv, RowsTold
    <3>2. Build(entry, report)
      BY <2>1 DEF Build
    <3> QED BY <2>1, <2>2, <3>1, <3>2, RecordedHistory
  <2>4. RowsTold'
    BY <1>1, <2>3 DEF LogInv, RowsTold
  <2>5. RunningTold'
    <3> SUFFICES ASSUME written
                 PROVE  \E n \in DOMAIN logged' :
                          /\ logged'[n].about = "build" /\ logged'[n].to = report
                          /\ \A m \in DOMAIN logged' : m > n => logged'[m].about # "build"
      BY <1>1, <2>2 DEF RunningTold, LastAbout
    <3>1. logged' = Append(logged, entry)
      BY <2>2 DEF Recorded
    <3>2. /\ DOMAIN logged' = DOMAIN logged \cup {Len(logged) + 1}
          /\ \A n \in DOMAIN logged : n < Len(logged) + 1
          /\ DOMAIN logged \subseteq Nat /\ Len(logged) \in Nat
          /\ logged'[Len(logged) + 1] = entry
      BY <2>1, <3>1, Appended DEF LogInv, LogTyped
    <3> QED BY <2>1, <3>2
  <2>6. LogTyped' /\ KeysTold'
    <3>1. /\ logged' \in Seq(Entry) /\ unlogged' \in Seq(Entry)
          /\ \A end, id :
               Cardinality(Naming(logged', end, id)) + Cardinality(Naming(unlogged', end, id)) =
                 Cardinality(Naming(logged, end, id)) + Cardinality(Naming(unlogged, end, id))
      <4>1. LogTyped
        BY DEF LogInv
      <4> QED BY <2>1, <2>2, <4>1, RecordedCounts
    <3>2. \A end, id : Times(end, id)' = Times(end, id)
      BY <1>1, <3>1 DEF Times, Owed, Due, credentialVars
    <3> QED BY <1>1, <3>1, <3>2 DEF LogInv, LogTyped, HistoryTold, KeysTold, credentialVars
  <2> QED BY <2>3, <2>4, <2>5, <2>6 DEF LogInv, HistoryTold
<1> QED BY <1>3, <1>4

(* A credential is given or taken: what is owed tells it.                  *)
Gives(clerk, id) ==
  /\ owing[clerk] = Nothing /\ id # keyId /\ keyId' = id
  /\ owing' = [owing EXCEPT ![clerk] = [about |-> "key", from |-> keyId, to |-> id]]
  /\ UNCHANGED <<rowVars, logged, unlogged>>

LEMMA GivenInv ==
  ASSUME LogInv, NEW clerk \in Clerks, NEW id \in KeyIds \cup {Nothing},
         Gives(clerk, id)
  PROVE  LogInv'
<1> DEFINE entry == [about |-> "key", from |-> keyId, to |-> id]
<1>1. entry \in KeyEntry /\ entry.about = "key" /\ entry["from"] = keyId /\ entry["to"] = id
  BY DEF LogInv, LogTyped, KeyEntry
<1> HIDE DEF entry
<1>2. LogTyped'
  BY <1>1 DEF LogInv, LogTyped, Gives, entry
<1>3. RowsTold' /\ RunningTold' /\ ChangesTold'
  BY DEF LogInv, HistoryTold, RowsTold, InHistory, RunningTold, LastAbout, ChangesTold, Gives, rowVars
<1>4. KeysTold'
  <2> SUFFICES ASSUME NEW k \in KeyIds
               PROVE  Times("to", k)' = Times("from", k)' + (IF id = k THEN 1 ELSE 0)
    BY DEF KeysTold, Gives
  <2>1. ASSUME NEW end
        PROVE  /\ Times(end, k) \in Nat
               /\ Times(end, k)' = Times(end, k) + (IF Names(entry, end, k) THEN 1 ELSE 0)
    <3>1. /\ Cardinality(Owes(owing, end, k)) \in Nat
          /\ Cardinality(Owes(owing', end, k)) =
               Cardinality(Owes(owing, end, k)) + (IF Names(entry, end, k) THEN 1 ELSE 0)
      <4>1. owing' = [owing EXCEPT ![clerk] = entry]
        BY DEF Gives, entry
      <4>3. owing \in [Clerks -> KeyEntry \cup {Nothing}]
        BY DEF LogInv, LogTyped
      <4>2. /\ Cardinality(Owes(owing, end, k)) \in Nat
            /\ Cardinality(Owes(owing', end, k)) =
                 Cardinality(Owes(owing, end, k)) + (IF Names(entry, end, k) THEN 1 ELSE 0)
        <5>1. owing'[clerk] = entry /\ \A c \in Clerks \ {clerk} : owing'[c] = owing[c]
          BY <4>1, <4>3
        <5>2. entry \in KeyEntry /\ owing[clerk] = Nothing
          BY <1>1 DEF Gives
        <5> QED BY <4>3, <5>1, <5>2, OwesMore
      <4> QED BY <4>2
    <3>2. /\ Cardinality(Naming(logged, end, k)) \in Nat
          /\ Cardinality(Naming(unlogged, end, k)) \in Nat
      BY NamingAppended, <1>1 DEF LogInv, LogTyped, Entry
    <3>3. Owed(end, k) = Owes(owing, end, k) /\ Owed(end, k)' = Owes(owing', end, k)
      BY OwedIs, OwedLater
    <3>4. UNCHANGED <<logged, unlogged>>
      BY DEF Gives
    <3> QED BY <3>1, <3>2, <3>3, <3>4 DEF Times
  <2>2. Times("to", k) = Times("from", k) + (IF keyId = k THEN 1 ELSE 0)
    BY DEF LogInv, HistoryTold, KeysTold
  <2>3. /\ Names(entry, "from", k) <=> keyId = k
        /\ Names(entry, "to", k) <=> id = k
    BY <1>1 DEF Names
  <2>4. /\ Times("from", k) \in Nat
        /\ Times("from", k)' = Times("from", k) + (IF keyId = k THEN 1 ELSE 0)
        /\ Times("to", k)' = Times("to", k) + (IF id = k THEN 1 ELSE 0)
    BY <2>1, <2>3
  <2> QED BY <2>2, <2>4
<1> QED BY <1>2, <1>3, <1>4 DEF LogInv, HistoryTold

(* What is owed is written, or lost.                                       *)
LEMMA WrittenInv ==
  ASSUME LogInv, NEW clerk \in Clerks, NEW written \in BOOLEAN, RecordKey(clerk, written)
  PROVE  LogInv'
<1> DEFINE entry == owing[clerk]
<1>1. /\ entry \in KeyEntry /\ entry \in Entry /\ entry.about = "key" /\ entry # Nothing
      /\ Recorded(entry, written)
      /\ owing' = [owing EXCEPT ![clerk] = Nothing]
      /\ UNCHANGED <<rowVars, keyId>>
  BY DEF RecordKey, LogInv, LogTyped, Entry, KeyEntry
<1> HIDE DEF entry
<1>2. \A end, id :
        /\ Cardinality(Naming(logged, end, id)) \in Nat
        /\ Cardinality(Naming(unlogged, end, id)) \in Nat
        /\ Cardinality(Naming(logged', end, id)) + Cardinality(Naming(unlogged', end, id)) =
             Cardinality(Naming(logged, end, id)) + Cardinality(Naming(unlogged, end, id))
               + (IF Names(entry, end, id) THEN 1 ELSE 0)
  <2>1. LogTyped
    BY DEF LogInv
  <2> QED BY <1>1, <2>1, RecordedCounts
<1>3. LogTyped'
  <2>1. LogTyped
    BY DEF LogInv
  <2>2. logged' \in Seq(Entry) /\ unlogged' \in Seq(Entry)
    BY <1>1, <2>1, RecordedCounts
  <2> QED BY <1>1, <2>1, <2>2 DEF LogTyped
<1>4. /\ \A r : InHistory(r) => InHistory(r)'
      /\ ChangesTold'
  BY <1>1, RecordedHistory
<1>5. RowsTold'
  BY <1>1, <1>4 DEF LogInv, RowsTold, rowVars
<1>6. RunningTold'
  <2> SUFFICES ASSUME row \in Reports, ~stray
               PROVE  \E n \in DOMAIN logged' :
                        /\ logged'[n].about = "build" /\ logged'[n].to = row
                        /\ \A m \in DOMAIN logged' : m > n => logged'[m].about # "build"
    BY <1>1 DEF RunningTold, LastAbout, rowVars
  <2>1. PICK n \in DOMAIN logged :
          /\ logged[n].about = "build" /\ logged[n].to = row
          /\ \A m \in DOMAIN logged : m > n => logged[m].about # "build"
    BY DEF LogInv, HistoryTold, RunningTold, LastAbout
  <2>2. CASE logged' = logged
    BY <2>1, <2>2
  <2>3. CASE logged' = Append(logged, entry)
    <3>1. /\ DOMAIN logged' = DOMAIN logged \cup {Len(logged) + 1}
          /\ \A m \in DOMAIN logged : logged'[m] = logged[m]
          /\ logged'[Len(logged) + 1] = entry
      BY <1>1, <2>3, Appended DEF LogInv, LogTyped
    <3> QED BY <1>1, <2>1, <3>1
  <2> QED BY <1>1, <2>2, <2>3 DEF Recorded
<1>7. KeysTold'
  <2>1. ASSUME NEW end, NEW id PROVE Times(end, id)' = Times(end, id)
    <3>1. owing \in [Clerks -> KeyEntry \cup {Nothing}]
      BY DEF LogInv, LogTyped
    <3>2. /\ Cardinality(Owes(owing, end, id)) \in Nat
          /\ Cardinality(Owes(owing', end, id)) =
               Cardinality(Owes(owing, end, id)) - (IF Names(entry, end, id) THEN 1 ELSE 0)
      <4>1. owing'[clerk] = Nothing /\ \A c \in Clerks \ {clerk} : owing'[c] = owing[c]
        BY <1>1, <3>1
      <4>2. owing[clerk] # Nothing
        BY <1>1 DEF entry
      <4> QED BY <3>1, <4>1, <4>2, OwesLess DEF entry
    <3>3. Owed(end, id) = Owes(owing, end, id) /\ Owed(end, id)' = Owes(owing', end, id)
      BY OwedIs, OwedLater
    <3>4. /\ Cardinality(Naming(logged, end, id)) \in Nat
          /\ Cardinality(Naming(unlogged, end, id)) \in Nat
          /\ Cardinality(Naming(logged', end, id)) + Cardinality(Naming(unlogged', end, id)) =
               Cardinality(Naming(logged, end, id)) + Cardinality(Naming(unlogged, end, id))
                 + (IF Names(entry, end, id) THEN 1 ELSE 0)
      BY <1>2
    <3> QED BY <3>2, <3>3, <3>4 DEF Times
  <2> QED BY <1>1, <2>1 DEF LogInv, HistoryTold, KeysTold
<1> QED BY <1>3, <1>4, <1>5, <1>6, <1>7 DEF LogInv, HistoryTold

(* Going down moves what is owed to what is lost.                          *)
LEMMA LostInv == LogInv /\ GoDown => LogInv'
<1> SUFFICES ASSUME LogInv, GoDown PROVE LogInv'
  OBVIOUS
<1>1. PICK clerk \in Bijection(1 .. Cardinality(Due), Due) :
        unlogged' = unlogged \o [n \in DOMAIN clerk |-> owing[clerk[n]]]
  BY DEF GoDown
<1>2. /\ owing' = [c \in Clerks |-> Nothing]
      /\ row' = saved /\ stray' = (stray \/ row # saved)
      /\ UNCHANGED <<saved, keyId, logged>>
  BY DEF GoDown, Undo
<1>3. Due \subseteq Clerks /\ IsFiniteSet(Due) /\ \A c \in Due : owing[c] \in KeyEntry
  BY DeviceLogAssumption, FS_Subset DEF Due, LogInv, LogTyped
<1>4. unlogged \in Seq(Entry) /\ logged \in Seq(Entry)
  BY DEF LogInv, LogTyped
<1> DEFINE t == [n \in DOMAIN clerk |-> owing[clerk[n]]]
<1>10. /\ unlogged \o t \in Seq(Entry)
      /\ (\A n \in DOMAIN unlogged :
            n \in DOMAIN (unlogged \o t) /\ (unlogged \o t)[n] = unlogged[n])
      /\ \A end, id :
           Cardinality(Naming(unlogged \o t, end, id)) =
             Cardinality(Naming(unlogged, end, id)) + Cardinality({c \in Due : Names(owing[c], end, id)})
  <2>1. PICK k \in Nat : k = Cardinality(Due)
    BY <1>3, FS_CardinalityType
  <2>2. clerk \in Bijection(1 .. k, Due)
    BY <2>1
  <2>3. /\ DOMAIN clerk = 1 .. k
        /\ \A n \in DOMAIN clerk : clerk[n] \in Due
    BY <2>2 DEF Bijection, Injection
  <2>4. t \in [1 .. k -> Entry]
    BY <1>3, <2>3 DEF Entry
  <2>5. \A n \in 1 .. k : t[n] = owing[clerk[n]]
    BY <2>3
  <2> HIDE DEF t
  <2>6. ASSUME NEW end, NEW id
        PROVE  Cardinality(Naming(unlogged \o t, end, id)) =
                 Cardinality(Naming(unlogged, end, id)) + Cardinality({c \in Due : Names(owing[c], end, id)})
    BY <1>3, <1>4, <2>2, <2>4, <2>5, NamingLost, SMTT(40)
  <2>7. unlogged \o t \in Seq(Entry)
    BY <1>3, <1>4, <2>2, <2>4, <2>5, NamingLost
  <2>8. \A n \in DOMAIN unlogged : n \in DOMAIN (unlogged \o t) /\ (unlogged \o t)[n] = unlogged[n]
    BY <1>3, <1>4, <2>2, <2>4, <2>5, NamingLost
  <2> QED BY <2>6, <2>7, <2>8
<1>5. /\ unlogged' \in Seq(Entry)
      /\ \A n \in DOMAIN unlogged : n \in DOMAIN unlogged' /\ unlogged'[n] = unlogged[n]
  BY <1>10, <1>1
<1>6. LogTyped'
  BY <1>2, <1>5 DEF LogInv, LogTyped
<1>7. RowsTold' /\ ChangesTold'
  BY <1>2, <1>5 DEF LogInv, HistoryTold, RowsTold, InHistory, ChangesTold
<1>8. RunningTold'
  BY <1>2 DEF LogInv, HistoryTold, RunningTold, LastAbout
<1>9. KeysTold'
  <2>1. ASSUME NEW end, NEW id PROVE Times(end, id)' = Times(end, id)
    <3>1. Cardinality(Naming(unlogged', end, id)) =
            Cardinality(Naming(unlogged, end, id)) + Cardinality({c \in Due : Names(owing[c], end, id)})
      BY <1>10, <1>1
    <3>2. Owed(end, id) = {c \in Due : Names(owing[c], end, id)}
      BY DEF Owed
    <3>3. Owed(end, id)' = {}
      BY <1>2, OwedLater DEF Owes
    <3>4. Cardinality({}) = 0 /\ Cardinality(Owed(end, id)) \in Nat
      BY <1>3, <3>2, FS_EmptySet, FS_Subset, FS_CardinalityType
    <3>5. Cardinality(Naming(logged, end, id)) \in Nat /\ Cardinality(Naming(unlogged, end, id)) \in Nat
      BY <1>4, NamingFinite
    <3> QED BY <1>2, <3>1, <3>2, <3>3, <3>4, <3>5 DEF Times
  <2> QED BY <1>2, <2>1 DEF LogInv, HistoryTold, KeysTold
<1> QED BY <1>6, <1>7, <1>8, <1>9 DEF LogInv, HistoryTold

LEMMA LogStepInv == LogInv /\ [DeviceLogNext]_deviceLogVars => LogInv'
<1> SUFFICES ASSUME LogInv, [DeviceLogNext]_deviceLogVars PROVE LogInv'
  OBVIOUS
<1>1. CASE BeginUpload
  BY <1>1, RowStep DEF BeginUpload
<1>2. CASE TouchRow
  BY <1>2, RowStep, DeviceLogAssumption DEF TouchRow
<1>3. CASE CommitUpload
  BY <1>3, RowStep DEF CommitUpload
<1>4. CASE OperatorActs
  BY <1>4, RowStep, DeviceLogAssumption DEF OperatorActs
<1>5. CASE GoDown
  BY <1>5, LostInv
<1>6. ASSUME NEW report \in Reports, NEW read \in BOOLEAN, NEW written \in BOOLEAN,
             ReportBuild(report, read, written)
      PROVE  LogInv'
  BY <1>6, ReportInv
<1>7. ASSUME NEW rolledBack \in BOOLEAN, UploadUndone(rolledBack) PROVE LogInv'
  BY <1>7, RowStep DEF UploadUndone, Undo
<1>8. ASSUME NEW clerk \in Clerks, NEW id \in KeyIds, IssueCredential(clerk, id) PROVE LogInv'
  BY <1>8, GivenInv DEF IssueCredential, Gives
<1>9. ASSUME NEW clerk \in Clerks, RevokeCredential(clerk) PROVE LogInv'
  BY <1>9, GivenInv DEF RevokeCredential, Gives
<1>10. ASSUME NEW clerk \in Clerks, NEW written \in BOOLEAN, RecordKey(clerk, written) PROVE LogInv'
  BY <1>10, WrittenInv
<1>11. CASE UNCHANGED deviceLogVars
  BY <1>11, RowStep DEF deviceLogVars, rowVars
<1> QED BY <1>1, <1>2, <1>3, <1>4, <1>5, <1>6, <1>7, <1>8, <1>9, <1>10, <1>11 DEF DeviceLogNext

LEMMA HistoryIsTold == DeviceLogSpec => []HistoryTold
<1>1. LogInv => HistoryTold
  BY DEF LogInv
<1> QED BY <1>1, LogInitInv, LogStepInv, PTL DEF DeviceLogSpec

-----------------------------------------------------------------------------
(* The parts together.  In a behaviour of the run one part moves, so each  *)
(* part behaves as its own specification says.                             *)

LEMMA PartsStart ==
  AllInit => KeyInit /\ AccessInit /\ SignInInit /\ SymbolsInit /\ DeviceLogInit
BY DEF AllInit

LEMMA PartsStep ==
  [AllNext]_allVars =>
    /\ [KeyNext]_keyVars
    /\ [AccessNext]_accessVars
    /\ [SignInNext]_signVars
    /\ [SymbolsNext]_symbolVars
    /\ [DeviceLogNext]_deviceLogVars
BY DEF AllNext, allVars

(* A user signs in soundly at the dashboard, one whose token is good is    *)
(* taken for who they are, and every request is answered as the            *)
(* documentation says of its user (auth_middleware.rs, auth.rs, oidc.rs).  *)
THEOREM UsersServedCorrect == AllSpec => []UsersServed
<1>1. AllSpec => KeySpec /\ AccessSpec /\ SignInSpec
  BY PartsStart, PartsStep, PTL DEF AllSpec, KeySpec, AccessSpec, SignInSpec
<1> QED BY <1>1, KeyTakes, AccessTold, SignsIn, PTL DEF UsersServed

(* Whoever looks up a symbol or reads the evidence of a device reads what  *)
(* is so (symbolication.rs, ingest.rs, evidence.rs, credentials.rs).       *)
THEOREM ReadersToldCorrect == AllSpec => []ReadersTold
<1>1. AllSpec => SymbolsSpec /\ DeviceLogSpec
  BY PartsStart, PartsStep, PTL DEF AllSpec, SymbolsSpec, DeviceLogSpec
<1> QED BY <1>1, SymbolsTold, HistoryIsTold, PTL DEF ReadersTold
=============================================================================
