--------------------------- MODULE ReleasesProofs ---------------------------
(***************************************************************************)
(* Proofs about how firmware is released: the evidence log, the shelf, the *)
(* signing desk, campaigns and rollouts.                                   *)
(*                                                                         *)
(* Releases: what the evidence log proves, and what is on the shelf of     *)
(* firmware, for every log, every number of images, requests and anchors,  *)
(* and whatever fails on the way.  The signing desk has its proof here     *)
(* too, since the runs check the two together.                             *)
(*                                                                         *)
(* Campaigns: for any number of devices, campaigns, artifacts and plans.   *)
(* OtaRollout puts the devices around them: a rollout is a behaviour of    *)
(* the campaigns, and a device that talks to the server itself does not    *)
(* fetch again what it rolled back.                                        *)
(***************************************************************************)
EXTENDS MCReleases, FiniteSetTheorems, SequenceTheorems, TLAPS

-----------------------------------------------------------------------------
(* The log. *)

Row(E, H) == [seq : Nat, event : E, prev : H, hash : H]

Entered == {log[i].event : i \in DOMAIN log}
Hashes == {Genesis} \cup {log[i].hash : i \in DOMAIN log}

(* Entry i has the number i, names the hash of the one before, and its     *)
(* hash is that of its fields; and no event is of the kind Changed.        *)
Chained ==
  /\ log \in Seq(Row(Entered, Hashes))
  /\ ChainValid(log)
  /\ \A i \in DOMAIN log : log[i].seq = i /\ log[i].event.kind # Changed.kind

LEMMA HashTells ==
  ASSUME NEW p, NEW q, NEW i, NEW j, NEW e, NEW f, Hash(p, i, e) = Hash(q, j, f)
  PROVE  p = q /\ i = j /\ e = f
  BY DEF Hash

(* A row with its event, and a row with its event and its hash replaced.   *)
LEMMA RowWithEvent ==
  ASSUME NEW E, NEW H, NEW r \in [seq : Nat, event : E, prev : H, hash : H], NEW e
  PROVE  [r EXCEPT !.event = e]
           = [seq |-> r.seq, event |-> e, prev |-> r.prev, hash |-> r.hash]
  OBVIOUS

LEMMA RowWithHash ==
  ASSUME NEW E, NEW H, NEW r \in [seq : Nat, event : E, prev : H, hash : H], NEW h
  PROVE  [r EXCEPT !.hash = h]
           = [seq |-> r.seq, event |-> r.event, prev |-> r.prev, hash |-> h]
  OBVIOUS

WithEvent(t, i, e) == [t EXCEPT ![i].event = e]
WithHash(t, i, h)  == [t EXCEPT ![i].hash = h]

LEMMA RowChanged ==
  ASSUME NEW E, NEW H, NEW t \in Seq(Row(E, H)), NEW i \in DOMAIN t, NEW e, NEW h
  PROVE
    LET u == WithEvent(t, i, e)
        v == WithHash(u, i, h)
    IN  /\ DOMAIN u = DOMAIN t /\ DOMAIN v = DOMAIN t
        /\ \A j \in DOMAIN t \ {i} : u[j] = t[j] /\ v[j] = t[j]
        /\ u[i] = [seq |-> t[i].seq, event |-> e, prev |-> t[i].prev, hash |-> t[i].hash]
        /\ v[i] = [seq |-> t[i].seq, event |-> e, prev |-> t[i].prev, hash |-> h]
<1> DEFINE u == [t EXCEPT ![i].event = e]
           v == [u EXCEPT ![i].hash = h]
           a == [seq |-> t[i].seq, event |-> e, prev |-> t[i].prev, hash |-> t[i].hash]
<1>1. t[i] \in [seq : Nat, event : E, prev : H, hash : H]
  <2>1. t[i] \in Row(E, H)
    OBVIOUS
  <2> QED BY <2>1 DEF Row
<1>2. [t[i] EXCEPT !.event = e] = a
  BY <1>1, RowWithEvent
<1>3. u = [t EXCEPT ![i] = a]
  BY <1>2
<1>4. DOMAIN u = DOMAIN t /\ u[i] = a /\ \A j \in DOMAIN t \ {i} : u[j] = t[j]
  BY <1>3
<1>5. a \in [seq : Nat, event : E \cup {e}, prev : H, hash : H]
  BY <1>1
<1>6. [a EXCEPT !.hash = h]
        = [seq |-> t[i].seq, event |-> e, prev |-> t[i].prev, hash |-> h]
  OBVIOUS
<1> HIDE DEF u, a
<1>7. v = [u EXCEPT ![i] = [a EXCEPT !.hash = h]]
  BY <1>4
<1>8. DOMAIN v = DOMAIN u /\ \A j \in DOMAIN t \ {i} : v[j] = t[j]
  BY <1>4, <1>7
<1>9. v[i] = [a EXCEPT !.hash = h]
  BY <1>4, <1>7
<1> QED
  BY <1>4, <1>6, <1>8, <1>9 DEF u, v, a, WithEvent, WithHash

-----------------------------------------------------------------------------
(* ChainShows: whatever is changed in a log as the server writes it.       *)

LEMMA ChainTells == Chained => ChainShows
<1> SUFFICES ASSUME Chained PROVE ChainShows
  OBVIOUS
<1> DEFINE n == Len(log)
<1>1. log \in Seq(Row(Entered, Hashes)) /\ n \in Nat /\ DOMAIN log = 1 .. n
  BY LenProperties DEF Chained
<1>2. \A j \in DOMAIN log : /\ log[j].seq = j
                            /\ log[j].event # Changed
                            /\ log[j].hash = Hash(log[j].prev, j, log[j].event)
                            /\ j # 1 => log[j].prev = log[j - 1].hash
  BY DEF Chained, ChainValid, Links
<1> HIDE DEF n
<1>3. ASSUME NEW i \in DOMAIN log
      PROVE  LET changed  == [log EXCEPT ![i].event = Changed]
                 rehashed == [changed EXCEPT
                                ![i].hash = Hash(log[i].prev, i, Changed)]
                 missing  == [j \in 1 .. Len(log) - 1 |->
                                IF j < i THEN log[j] ELSE log[j + 1]]
             IN /\ ~ChainValid(changed)
                /\ i < Len(log) => ~ChainValid(rehashed) /\ ~ChainValid(missing)
  <2> DEFINE h == Hash(log[i].prev, i, Changed)
             changed  == [log EXCEPT ![i].event = Changed]
             rehashed == [changed EXCEPT ![i].hash = h]
             missing  == [j \in 1 .. Len(log) - 1 |->
                            IF j < i THEN log[j] ELSE log[j + 1]]
             as(x) == [seq |-> log[i].seq, event |-> Changed,
                       prev |-> log[i].prev, hash |-> x]
  <2>1. /\ DOMAIN changed = DOMAIN log /\ DOMAIN rehashed = DOMAIN log
        /\ \A j \in DOMAIN log \ {i} : rehashed[j] = log[j]
        /\ changed[i] = as(log[i].hash)
        /\ rehashed[i] = as(h)
    <3>1. changed = WithEvent(log, i, Changed) /\ rehashed = WithHash(changed, i, h)
      BY DEF WithEvent, WithHash
    <3>2. log[i].seq = i
      BY <1>2
    <3> HIDE DEF h, changed, rehashed
    <3> QED BY <1>1, <3>1, <3>2, RowChanged
  <2>2. \A x : as(x).event = Changed /\ as(x).prev = log[i].prev /\ as(x).hash = x
               /\ as(x).seq = i
    BY <1>2
  <2> HIDE DEF changed, rehashed, as, h
  <2>3. ~ChainValid(changed)
    <3> SUFFICES ASSUME Links(changed, i) PROVE FALSE
      BY <2>1 DEF ChainValid
    <3>1. log[i].hash = Hash(log[i].prev, i, Changed)
      BY <2>1, <2>2 DEF Links
    <3> QED BY <1>2, <3>1, HashTells
  <2>4. ASSUME i < Len(log) PROVE ~ChainValid(rehashed)
    <3> SUFFICES ASSUME Links(rehashed, i + 1) PROVE FALSE
      BY <2>1, <2>4, <1>1 DEF ChainValid, n
    <3>1. i + 1 \in DOMAIN log /\ i + 1 # 1 /\ (i + 1) - 1 = i /\ i + 1 # i
      BY <1>1, <2>4 DEF n
    <3>2. log[i + 1].prev = h
      BY <2>1, <2>2, <3>1 DEF Links
    <3>3. log[i + 1].prev = log[i].hash
      BY <1>2, <3>1
    <3>4. Hash(log[i].prev, i, Changed) = Hash(log[i].prev, i, log[i].event)
      BY <1>2, <3>2, <3>3 DEF h
    <3>5. Changed = log[i].event
      BY ONLY <3>4, HashTells
    <3> QED BY <1>2, <3>5
  <2>5. ASSUME i < Len(log) PROVE ~ChainValid(missing)
    <3>1. i \in DOMAIN missing /\ i + 1 \in DOMAIN log /\ missing[i] = log[i + 1]
      BY <1>1, <2>5 DEF n
    <3>2. missing[i].seq = i + 1 /\ i \in Nat
      BY <1>1, <1>2, <3>1
    <3>3. CASE i = 1
      <4> HIDE DEF missing
      <4>1. ~Links(missing, i)
        BY <3>2, <3>3 DEF Links
      <4> QED BY <3>1, <4>1 DEF ChainValid
    <3>4. CASE i # 1
      <4>1. i - 1 \in DOMAIN missing /\ missing[i - 1] = log[i - 1]
            /\ i - 1 \in DOMAIN log
        BY <1>1, <2>5, <3>4 DEF n
      <4>2. missing[i - 1].seq = i - 1
        BY <1>2, <4>1
      <4>3. (i - 1) + 1 # i + 1
        BY <3>2
      <4> HIDE DEF missing
      <4>4. ~Links(missing, i)
        BY <3>1, <3>2, <3>4, <4>2, <4>3 DEF Links
      <4> QED BY <3>1, <4>4 DEF ChainValid
    <3> QED BY <3>3, <3>4
  <2> QED BY <2>3, <2>4, <2>5 DEF changed, rehashed, h
<1> QED BY <1>3 DEF ChainShows, Chained

-----------------------------------------------------------------------------
(* A log rewritten from row i on.                                          *)

LEMMA LeastOf ==
  ASSUME NEW S, S \subseteq Nat, S # {}
  PROVE  \E m \in S : \A j \in S : m <= j
<1> DEFINE R == OpToRel(<, Nat)
<1>1. IsWellFoundedOn(R, Nat)
  BY NatLessThanWellFounded
<1>2. PICK m \in S : \A j \in S : ~ (<<j, m>> \in R)
  <2> HIDE DEF R
  <2> QED BY <1>1, WFMin
<1>3. \A j \in S : ~ (j < m)
  BY <1>2 DEF OpToRel
<1> QED BY <1>3

(* Row j of the log rewritten from row i on, by the rows before.           *)
Again(row, i, j) ==
  IF j < i THEN log[j]
  ELSE LET prev  == IF j = 1 THEN Genesis ELSE row[j - 1].hash
           event == IF j = i THEN Changed ELSE log[j].event
       IN [seq |-> j, event |-> event, prev |-> prev,
           hash |-> Hash(prev, j, event)]

LEMMA RewrittenRows ==
  ASSUME NEW i, NEW N \in Nat, DOMAIN log = 1 .. N
  PROVE  Rewritten(i) = [j \in DOMAIN log |-> Again(Rewritten(i), i, j)]
<1> DEFINE From(row, m) == row = [j \in 1 .. m |-> Again(row, i, j)]
           Not == {m \in 0 .. N : ~ \E row : From(row, m)}
<1>1. \E row : From(row, 0)
  <2> DEFINE none == [j \in 1 .. 0 |-> j]
  <2>1. From(none, 0)
    OBVIOUS
  <2> QED BY <2>1
<1>2. ASSUME NEW m \in 1 .. N, NEW row, From(row, m - 1)
      PROVE  \E more : From(more, m)
  <2> DEFINE more == [j \in 1 .. m |-> IF j < m THEN row[j] ELSE Again(row, i, m)]
  <2>1. ASSUME NEW j \in 1 .. m PROVE more[j] = Again(more, i, j)
    <3>1. j # 1 => more[j - 1] = row[j - 1]
      OBVIOUS
    <3>2. Again(more, i, j) = Again(row, i, j)
      BY <3>1 DEF Again
    <3>3. CASE j < m
      <4>1. j \in 1 .. (m - 1)
        BY <3>3
      <4>2. row[j] = Again(row, i, j)
        BY <4>1, <1>2
      <4> QED BY <3>2, <3>3, <4>2
    <3>4. CASE j = m
      BY <3>2, <3>4
    <3> QED BY <3>3, <3>4
  <2>2. From(more, m)
    <3> HIDE DEF Again
    <3>1. more = [j \in 1 .. m |-> more[j]]
      OBVIOUS
    <3> HIDE DEF more
    <3> QED BY <2>1, <3>1
  <2> QED BY <2>2
<1>3. Not = {}
  <2> SUFFICES ASSUME Not # {} PROVE FALSE
    OBVIOUS
  <2>1. PICK m \in Not : \A j \in Not : m <= j
    <3>1. Not \subseteq Nat
      OBVIOUS
    <3> HIDE DEF Not
    <3> QED BY <3>1, LeastOf
  <2>2. m \in 0 .. N /\ ~ \E row : From(row, m)
    OBVIOUS
  <2>3. m # 0
    BY <1>1, <2>2
  <2>4. m \in 1 .. N /\ m - 1 \in 0 .. N /\ ~(m <= m - 1)
    BY <2>2, <2>3
  <2>5. \E row : From(row, m - 1)
    BY <2>1, <2>4
  <2> HIDE DEF From
  <2> QED BY <1>2, <2>2, <2>4, <2>5
<1>4. PICK row : From(row, N)
  <2>1. N \in 0 .. N
    OBVIOUS
  <2> HIDE DEF From
  <2> QED BY <1>3, <2>1
<1>5. \E g : g = [j \in DOMAIN log |-> Again(g, i, j)]
  BY <1>4
<1> HIDE DEF From, Not
<1>6. Rewritten(i) = CHOOSE g : g = [j \in DOMAIN log |-> Again(g, i, j)]
  BY DEF Rewritten, Again
<1> QED BY <1>5, <1>6

-----------------------------------------------------------------------------
(* AnchorPins: a sink holds hashes of the log, and a log rewritten before  *)
(* that place has another hash there.                                      *)

HeadsHeld ==
  /\ DOMAIN sinks = Sinks
  /\ \A s \in Sinks : sinks[s] \subseteq {<<j, log[j].hash>> : j \in DOMAIN log}

LEMMA RewrittenVerifies ==
  ASSUME Chained, NEW i \in DOMAIN log
  PROVE  /\ DOMAIN Rewritten(i) = DOMAIN log
         /\ ChainValid(Rewritten(i))
         /\ \A j \in DOMAIN log : i <= j => Rewritten(i)[j].hash # log[j].hash
<1> DEFINE N == Len(log)
           other == Rewritten(i)
<1>1. N \in Nat /\ DOMAIN log = 1 .. N
  BY LenProperties DEF Chained
<1>2. other = [j \in DOMAIN log |-> Again(other, i, j)]
  BY <1>1, RewrittenRows
<1>3. \A j \in DOMAIN log : /\ log[j].seq = j
                            /\ log[j].event # Changed
                            /\ log[j].hash = Hash(log[j].prev, j, log[j].event)
                            /\ j # 1 => log[j].prev = log[j - 1].hash
                            /\ Links(log, j)
  BY DEF Chained, ChainValid, Links
<1> HIDE DEF N, other
<1>4. DOMAIN other = DOMAIN log
  BY <1>2
<1>5. \A j \in DOMAIN log : j < i => other[j] = log[j]
  BY <1>2 DEF Again
<1>6. ASSUME NEW j \in DOMAIN log, i <= j
      PROVE  /\ other[j].seq = j
             /\ other[j].event = IF j = i THEN Changed ELSE log[j].event
             /\ other[j].prev = IF j = 1 THEN Genesis ELSE other[j - 1].hash
             /\ other[j].hash = Hash(other[j].prev, j, other[j].event)
  <2>1. ~(j < i)
    BY <1>1, <1>6
  <2>2. other[j] = Again(other, i, j)
    BY <1>2
  <2> QED BY <2>1, <2>2 DEF Again
<1>7. \A j \in DOMAIN log : other[j].seq = j
  <2> TAKE j \in DOMAIN log
  <2>1. CASE j < i
    BY <1>3, <1>5, <2>1
  <2>2. CASE i <= j
    BY <1>6, <2>2
  <2> QED BY <1>1, <2>1, <2>2
<1>8. ChainValid(other)
  <2> SUFFICES ASSUME NEW j \in DOMAIN log PROVE Links(other, j)
    BY <1>4 DEF ChainValid
  <2>1. j # 1 => j - 1 \in DOMAIN log
    BY <1>1
  <2>2. CASE j < i
    <3>1. j # 1 => j - 1 < i
      BY <1>1, <2>2
    <3>2. other[j] = log[j] /\ (j # 1 => other[j - 1] = log[j - 1])
      BY <1>5, <2>1, <2>2, <3>1
    <3> QED BY <1>3, <3>2 DEF Links
  <2>3. CASE i <= j
    <3>1. j # 1 => (j - 1) + 1 = j
      BY <1>1
    <3> QED BY <1>6, <1>7, <2>1, <2>3, <3>1 DEF Links
  <2> QED BY <1>1, <2>2, <2>3
<1>9. \A j \in DOMAIN log : i <= j => other[j].hash # log[j].hash
  <2> DEFINE Same == {j \in 1 .. N : i <= j /\ other[j].hash = log[j].hash}
  <2> SUFFICES ASSUME Same # {} PROVE FALSE
    BY <1>1
  <2>1. PICK m \in Same : \A j \in Same : m <= j
    <3>1. Same \subseteq Nat
      BY <1>1
    <3> HIDE DEF Same
    <3> QED BY <3>1, LeastOf
  <2>2. m \in DOMAIN log /\ i <= m /\ other[m].hash = log[m].hash
    BY <1>1, <2>1
  <2>3. other[m].hash = Hash(other[m].prev, m, other[m].event)
    BY <1>6, <2>2
  <2>4. Hash(other[m].prev, m, other[m].event) = Hash(log[m].prev, m, log[m].event)
    BY <1>3, <2>2, <2>3
  <2>5. other[m].prev = log[m].prev /\ other[m].event = log[m].event
    BY ONLY <2>4, HashTells
  <2>6. m # i
    BY <1>3, <1>6, <2>2, <2>5
  <2>7. m # 1 /\ m - 1 \in 1 .. N /\ i <= m - 1 /\ ~(m <= m - 1)
    BY <1>1, <2>2, <2>6
  <2>8. other[m - 1].hash = log[m - 1].hash
    BY <1>3, <1>6, <2>2, <2>5, <2>7
  <2>9. m - 1 \in Same
    BY <2>7, <2>8
  <2> QED BY <2>1, <2>7, <2>9
<1> QED BY <1>4, <1>8, <1>9 DEF other

LEMMA AnchorsTell == Chained /\ HeadsHeld => AnchorPins
<1> SUFFICES ASSUME Chained, HeadsHeld PROVE AnchorPins
  OBVIOUS
<1> DEFINE Held == sinks["webhook"] \cup sinks["tsa"]
<1>1. \A h \in Held : h[1] \in DOMAIN log /\ log[h[1]].hash = h[2]
  BY DEF HeadsHeld, Sinks
<1> HIDE DEF Held
<1>2. \A i \in DOMAIN log :
        /\ ChainValid(Rewritten(i))
        /\ \A h \in Held : i <= h[1] => Rewritten(i)[h[1]].hash # h[2]
  BY <1>1, RewrittenVerifies
<1> QED BY <1>1, <1>2 DEF AnchorPins, Held

-----------------------------------------------------------------------------
(* What every step keeps of the log and of the anchors under way: a sink   *)
(* that has answered has the head that was sent.                           *)

Says(s, i) == <<i, log[i].hash>> \in sinks[s]

AnchorTrue(a) ==
  anchor[a].stage # "idle" =>
    /\ anchor[a].head \in DOMAIN log
    /\ \A s \in anchor[a].got : Says(s, anchor[a].head)

AnchorsUnderway ==
  /\ anchor \in [Anchorers -> [stage : Sinks \cup {"idle", "append"},
                               head : Nat, got : SUBSET Sinks]]
  /\ \A a \in Anchorers : AnchorTrue(a)

RowTrue(i) ==
  log[i].event.kind = AnchorKind =>
    LET e == log[i].event
    IN /\ e.got # {} /\ e.got \subseteq Sinks
       /\ e.subject \in DOMAIN log /\ e.subject < i
       /\ \A s \in e.got : Says(s, e.subject)

LogInv ==
  /\ Chained /\ HeadsHeld /\ AnchorsUnderway
  /\ \A i \in DOMAIN log : RowTrue(i)

LEMMA LogInvTells == LogInv => LogTrusted
<1> SUFFICES ASSUME LogInv PROVE LogTrusted
  OBVIOUS
<1>1. AnchorTruthful
  BY DEF LogInv, RowTrue, AnchorTruthful, Says
<1> QED BY <1>1, ChainTells, AnchorsTell DEF LogInv, LogTrusted, TamperingShows

(* One more row: the table is chained, and the rows before are as before.  *)
LEMMA LogGrows ==
  ASSUME Chained, NEW e, e.kind # Changed.kind, Written(e)
  PROVE  /\ Chained'
         /\ Len(log) \in Nat /\ DOMAIN log = 1 .. Len(log)
         /\ DOMAIN log' = 1 .. (Len(log) + 1)
         /\ \A j \in DOMAIN log : log'[j] = log[j]
         /\ log'[Len(log) + 1].event = e
<1> DEFINE n == Len(log)
           r == Entry(log, e)
<1>1. log \in Seq(Row(Entered, Hashes)) /\ n \in Nat /\ DOMAIN log = 1 .. n
  BY LenProperties DEF Chained
<1>2. (log = << >>) <=> (n = 0)
  BY <1>1
<1>3. \A j \in DOMAIN log : log[j].seq = j
  BY DEF Chained
<1>4. /\ r.seq = n + 1 /\ r.event = e
      /\ r.prev = IF n = 0 THEN Genesis ELSE log[n].hash
      /\ r.hash = Hash(r.prev, n + 1, e)
      /\ r = [seq |-> r.seq, event |-> r.event, prev |-> r.prev, hash |-> r.hash]
  <2>1. n # 0 => n \in DOMAIN log
    BY <1>1
  <2> QED BY <1>1, <1>2, <1>3, <2>1 DEF Entry
<1>5. log' = Append(log, r)
  BY DEF Written
<1> HIDE DEF n, r
<1> DEFINE E == Entered \cup {r.event}
           H == Hashes \cup {r.prev, r.hash}
<1>6. log \in Seq(Row(E, H)) /\ r \in Row(E, H)
  <2>1. Row(Entered, Hashes) \subseteq Row(E, H)
    BY DEF Row
  <2>2. log \in Seq(Row(E, H))
    <3> HIDE DEF E, H
    <3> QED BY <1>1, <2>1, SeqMonotonic
  <2>3. r \in Row(E, H)
    BY <1>1, <1>4 DEF Row
  <2> QED BY <2>2, <2>3
<1>7. /\ log' \in Seq(Row(E, H)) /\ Len(log') = n + 1
      /\ \A j \in 1 .. n : log'[j] = log[j]
      /\ log'[n + 1] = r
  <2> HIDE DEF E, H
  <2> QED BY <1>1, <1>5, <1>6, AppendProperties DEF n
<1>8. DOMAIN log' = 1 .. (n + 1) /\ \A j \in DOMAIN log : log'[j] = log[j]
  BY <1>1, <1>7, LenProperties
<1>9. E \subseteq Entered' /\ H \subseteq Hashes'
  <2>1. n + 1 \in DOMAIN log' /\ \A j \in DOMAIN log : j \in DOMAIN log'
    BY <1>1, <1>8
  <2>2. Entered \subseteq Entered' /\ Hashes \subseteq Hashes'
    BY <1>8, <2>1 DEF Entered, Hashes
  <2>3. r.event \in Entered' /\ r.hash \in Hashes'
    BY <1>7, <2>1 DEF Entered, Hashes
  <2>4. r.prev \in Hashes'
    <3>1. n # 0 => n \in DOMAIN log
      BY <1>1
    <3>2. r.prev \in Hashes
      BY <1>4, <3>1 DEF Hashes
    <3> QED BY <2>2, <3>2
  <2> QED BY <2>2, <2>3, <2>4
<1>10. log' \in Seq(Row(Entered', Hashes'))
  <2>1. Row(E, H) \subseteq Row(Entered', Hashes')
    BY <1>9 DEF Row
  <2> HIDE DEF E, H
  <2> QED BY <1>7, <2>1, SeqMonotonic
<1>11. ASSUME NEW j \in DOMAIN log'
       PROVE  Links(log', j) /\ log'[j].seq = j /\ log'[j].event.kind # Changed.kind
  <2>1. j # 1 => j - 1 \in DOMAIN log /\ (j - 1) + 1 = j
    BY <1>1, <1>8
  <2>2. CASE j \in DOMAIN log
    <3>1. Links(log, j) /\ log[j].seq = j /\ log[j].event.kind # Changed.kind
      BY <2>2 DEF Chained, ChainValid
    <3> QED BY <1>8, <2>1, <2>2, <3>1 DEF Links
  <2>3. CASE j = n + 1
    <3>1. j # 1 => n \in DOMAIN log /\ j - 1 = n /\ log[n].seq = n
      BY <1>1, <1>3, <2>1, <2>3
    <3>2. j = 1 => n = 0
      BY <1>1, <2>3
    <3>3. j # 1 => log'[j - 1].hash = log[n].hash /\ log'[j - 1].seq = n
      BY <1>8, <3>1
    <3>4. j # 1 => n # 0
      BY <1>1, <2>3
    <3>5. /\ log'[j].seq = j /\ log'[j].event = e
          /\ log'[j].prev = IF j = 1 THEN Genesis ELSE log'[j - 1].hash
          /\ log'[j].hash = Hash(log'[j].prev, j, e)
      BY <1>4, <1>7, <2>3, <3>2, <3>3, <3>4
    <3> QED BY <2>3, <3>3, <3>5 DEF Links
  <2> QED BY <1>1, <1>8, <2>2, <2>3
<1> QED BY <1>1, <1>4, <1>7, <1>8, <1>10, <1>11 DEF Chained, ChainValid, n

LEMMA WrittenKeepsLog ==
  ASSUME LogInv, NEW e, Written(e), UNCHANGED sinks,
         anchor' = [a \in Anchorers |-> anchor'[a]],
         \A a \in Anchorers : anchor'[a] \in {anchor[a], Idle},
         e.kind # Changed.kind,
         e.kind = AnchorKind =>
           /\ e.got # {} /\ e.got \subseteq Sinks
           /\ e.subject \in DOMAIN log
           /\ \A s \in e.got : Says(s, e.subject)
  PROVE  LogInv'
<1>1. /\ Chained'
      /\ Len(log) \in Nat /\ DOMAIN log = 1 .. Len(log)
      /\ DOMAIN log' = 1 .. (Len(log) + 1)
      /\ \A j \in DOMAIN log : log'[j] = log[j]
      /\ log'[Len(log) + 1].event = e
  BY LogGrows DEF LogInv
<1>2. DOMAIN log \subseteq DOMAIN log'
  BY <1>1
<1>3. \A s, j : j \in DOMAIN log /\ Says(s, j) => Says(s, j)'
  BY <1>1 DEF Says
<1>4. HeadsHeld'
  BY <1>1, <1>2 DEF LogInv, HeadsHeld
<1>5. AnchorsUnderway'
  <2>1. ASSUME NEW a \in Anchorers
        PROVE  /\ anchor'[a] \in [stage : Sinks \cup {"idle", "append"},
                                  head : Nat, got : SUBSET Sinks]
               /\ AnchorTrue(a)'
    BY <1>2, <1>3 DEF LogInv, AnchorsUnderway, AnchorTrue, Idle
  <2> QED BY <2>1 DEF AnchorsUnderway
<1>6. ASSUME NEW i \in DOMAIN log' PROVE RowTrue(i)'
  <2>1. CASE i \in DOMAIN log
    BY <1>1, <1>2, <1>3, <2>1 DEF LogInv, RowTrue
  <2>2. CASE i = Len(log) + 1
    <3>1. e.kind = AnchorKind => e.subject < i
      BY <1>1, <2>2
    <3> QED BY <1>1, <1>2, <1>3, <2>2, <3>1 DEF RowTrue
  <2> QED BY <1>1, <2>1, <2>2
<1> QED BY <1>1, <1>4, <1>5, <1>6 DEF LogInv

(* What a handler records is no anchor.                                    *)
LEMMA RecordKeepsLog ==
  ASSUME LogInv, NEW e, UNCHANGED <<anchor, sinks>>, Record(e) \/ UNCHANGED log,
         e.kind \notin {Changed.kind, AnchorKind}
  PROVE  LogInv'
<1>1. CASE Written(e)
  <2>1. anchor' = [a \in Anchorers |-> anchor'[a]]
    BY DEF LogInv, AnchorsUnderway
  <2> QED BY <1>1, <2>1, WrittenKeepsLog
<1>2. CASE UNCHANGED log
  BY <1>2 DEF LogInv, Chained, Entered, Hashes, ChainValid, Links, HeadsHeld,
     AnchorsUnderway, AnchorTrue, RowTrue, Says
<1> QED BY <1>1, <1>2 DEF Record

LEMMA AnchorStopsKeepsLog ==
  ASSUME LogInv, UNCHANGED <<log, sinks>>,
         anchor' = [a \in Anchorers |-> anchor'[a]],
         \A a \in Anchorers : anchor'[a] \in {anchor[a], Idle}
  PROVE  LogInv'
<1>1. AnchorsUnderway'
  <2>1. ASSUME NEW a \in Anchorers
        PROVE  /\ anchor'[a] \in [stage : Sinks \cup {"idle", "append"},
                                  head : Nat, got : SUBSET Sinks]
               /\ AnchorTrue(a)'
    BY DEF LogInv, AnchorsUnderway, AnchorTrue, Says, Idle
  <2> QED BY <2>1 DEF AnchorsUnderway
<1> QED BY <1>1 DEF LogInv, Chained, Entered, Hashes, ChainValid, Links,
        HeadsHeld, RowTrue, Says

LEMMA AnchorBeginKeepsLog ==
  ASSUME LogInv, NEW a \in Anchorers, AnchorBegin(a)
  PROVE  LogInv'
<1>1. Len(log) \in Nat /\ DOMAIN log = 1 .. Len(log) /\ log # << >>
  BY LenProperties DEF LogInv, Chained, AnchorBegin, Skips
<1>2. Len(log) \in DOMAIN log
  BY <1>1 DEF LogInv, Chained
<1>3. AnchorsUnderway'
  BY <1>2 DEF LogInv, AnchorsUnderway, AnchorTrue, Says, AnchorBegin, Sinks
<1> QED BY <1>3 DEF LogInv, Chained, Entered, Hashes, ChainValid, Links,
        HeadsHeld, RowTrue, Says, AnchorBegin

LEMMA AnchorSendKeepsLog ==
  ASSUME LogInv, NEW a \in Anchorers, AnchorSend(a)
  PROVE  LogInv'
<1>0. PICK s, h : s = anchor[a].stage /\ h = anchor[a].head
  OBVIOUS
<1>1. PICK has \in BOOLEAN, says \in BOOLEAN :
        /\ says => has
        /\ sinks' = IF has
                    THEN [sinks EXCEPT ![s] = @ \cup {<<h, log[h].hash>>}]
                    ELSE sinks
        /\ anchor' = [anchor EXCEPT
                        ![a].stage = IF s = "webhook" THEN "tsa" ELSE "append",
                        ![a].got = IF says THEN @ \cup {s} ELSE @]
  BY <1>0 DEF AnchorSend
<1>a. sinks' = IF has
               THEN [sinks EXCEPT ![s] = @ \cup {<<h, log[h].hash>>}] ELSE sinks
  BY <1>1
<1>b. says => has
  BY <1>1
<1>2. /\ s \in Sinks /\ h \in DOMAIN log
      /\ \A t \in anchor[a].got : Says(t, h)
      /\ UNCHANGED log
      /\ anchor[a].got \subseteq Sinks /\ h \in Nat
  BY <1>0 DEF AnchorSend, LogInv, AnchorsUnderway, AnchorTrue, Sinks
<1>3. DOMAIN sinks = Sinks
  BY DEF LogInv, HeadsHeld
<1>4. DOMAIN sinks' = Sinks /\ \A t \in Sinks : sinks[t] \subseteq sinks'[t]
  BY <1>a, <1>3
<1>5. \A t \in Sinks : \A i : Says(t, i) => Says(t, i)'
  BY <1>2, <1>4 DEF Says
<1>6. HeadsHeld'
  BY <1>a, <1>2, <1>3, <1>4 DEF LogInv, HeadsHeld
<1>7. has => Says(s, h)'
  BY <1>a, <1>2, <1>3 DEF Says
<1>8. AnchorsUnderway'
  <2>1. anchor \in [Anchorers -> [stage : Sinks \cup {"idle", "append"},
                                  head : Nat, got : SUBSET Sinks]]
    BY DEF LogInv, AnchorsUnderway
  <2>2. PICK stage \in Sinks \cup {"idle", "append"}, got \in SUBSET Sinks :
          /\ stage = IF s = "webhook" THEN "tsa" ELSE "append"
          /\ got = IF says THEN anchor[a].got \cup {s} ELSE anchor[a].got
    BY <1>2 DEF Sinks
  <2>3. anchor' = [anchor EXCEPT ![a].stage = stage, ![a].got = got]
    BY <1>1, <2>2
  <2>4. /\ anchor' \in [Anchorers -> [stage : Sinks \cup {"idle", "append"},
                                      head : Nat, got : SUBSET Sinks]]
        /\ \A b \in Anchorers : b # a => anchor'[b] = anchor[b]
        /\ anchor'[a].head = anchor[a].head /\ anchor'[a].got = got
    BY ONLY <2>1, <2>2, <2>3, a \in Anchorers
  <2>5. ASSUME NEW b \in Anchorers PROVE AnchorTrue(b)'
    <3>1. CASE b = a
      <4>1. \A t \in anchor'[a].got : Says(t, h)'
        BY <1>b, <1>2, <1>5, <1>7, <2>2, <2>4
      <4> QED BY <1>0, <1>2, <2>4, <3>1, <4>1 DEF AnchorTrue
    <3>2. CASE b # a
      <4>1. anchor'[b] = anchor[b] /\ anchor[b].got \subseteq Sinks
        BY <2>1, <2>4, <3>2
      <4> QED BY <1>2, <1>5, <4>1 DEF AnchorTrue, LogInv, AnchorsUnderway
    <3> QED BY <3>1, <3>2
  <2> QED BY <2>4, <2>5 DEF AnchorsUnderway
<1>9. \A i \in DOMAIN log' : RowTrue(i)'
  BY <1>2, <1>5 DEF RowTrue, LogInv
<1> QED BY <1>2, <1>6, <1>8, <1>9 DEF LogInv, Chained, Entered, Hashes,
        ChainValid, Links

LEMMA AnchorEndKeepsLog ==
  ASSUME LogInv, NEW a \in Anchorers, AnchorEnd(a)
  PROVE  LogInv'
<1> DEFINE e == [kind |-> AnchorKind, subject |-> anchor[a].head,
                 got |-> anchor[a].got]
<1>1. CASE anchor[a].got = {}
  BY <1>1, AnchorStopsKeepsLog DEF AnchorEnd, LogInv, AnchorsUnderway
<1>2. CASE anchor[a].got # {}
  <2>1. Written(e)
    BY <1>2 DEF AnchorEnd
  <2>2. /\ e.kind = AnchorKind /\ e.got # {} /\ e.got \subseteq Sinks
        /\ e.subject \in DOMAIN log
        /\ \A s \in e.got : Says(s, e.subject)
    BY <1>2 DEF AnchorEnd, LogInv, AnchorsUnderway, AnchorTrue
  <2>3. e.kind # Changed.kind
    BY DEF AnchorKind, Changed
  <2>4. UNCHANGED sinks /\ anchor' = [anchor EXCEPT ![a] = Idle]
    BY DEF AnchorEnd
  <2>5. /\ anchor' = [b \in Anchorers |-> anchor'[b]]
        /\ \A b \in Anchorers : anchor'[b] \in {anchor[b], Idle}
    BY <2>4 DEF LogInv, AnchorsUnderway
  <2> HIDE DEF e
  <2> QED BY <2>1, <2>2, <2>3, <2>4, <2>5, WrittenKeepsLog
<1> QED BY <1>1, <1>2

-----------------------------------------------------------------------------
(* The shelf: types, the store's mutex (the request that removes a file    *)
(* holds it), and no row that a campaign refers to is gone.                *)

Asks(r, stage, x) == requests[r].stage = stage /\ requests[r].image = x

ShelfTyped ==
  /\ lastId \in Nat /\ DOMAIN artifacts \subseteq 1 .. lastId
  /\ \A id \in DOMAIN artifacts : artifacts[id] \in Images
  /\ campaigned \subseteq DOMAIN artifacts
  /\ files \in [Images -> {"absent", "torn", "whole"}]
  /\ uploads \in [Images -> 0 .. 2]
  /\ requests \in [Requests -> [stage : Stages, image : Images \cup {NoOne},
                                id : Nat]]
  /\ \A r \in Requests : requests[r].stage # "idle" => requests[r].image \in Images
  /\ \A r \in Requests :
       requests[r].stage \in {"write", "strayWrite", "insert"} => requests[r].id = 0
  /\ lock \in Requests \cup {NoOne}
  /\ \A r \in Requests : lock = r <=> requests[r].stage = "unlink"

(* Request r goes to that stage, the others stay where they are.           *)
GoesTo(r, stage) ==
  /\ requests' \in [Requests -> [stage : Stages, image : Images \cup {NoOne},
                                 id : Nat]]
  /\ \A q \in Requests : q # r => requests'[q] = requests[q]
  /\ requests'[r].stage = stage
  /\ stage # "idle" => /\ requests'[r].image = requests[r].image
                       /\ requests'[r].id = requests[r].id

LEMMA StageMoves ==
  ASSUME ShelfTyped, NEW r \in Requests, NEW stage \in Stages,
         requests' = [requests EXCEPT ![r].stage = stage]
  PROVE  GoesTo(r, stage)
  BY DEF ShelfTyped, GoesTo

LEMMA Rests ==
  ASSUME ShelfTyped, NEW r \in Requests, requests' = [requests EXCEPT ![r] = AtRest]
  PROVE  GoesTo(r, "idle")
  BY DEF ShelfTyped, GoesTo, AtRest, Stages

LEMMA WrittenMoves ==
  ASSUME ShelfTyped, NEW r \in Requests, UploadWritten(r)
  PROVE  GoesTo(r, IF requests[r].stage = "write" THEN "insert" ELSE "idle")
<1>1. CASE requests[r].stage = "write"
  BY <1>1 DEF UploadWritten, ShelfTyped, GoesTo, Stages
<1>2. CASE requests[r].stage # "write"
  <2>1. requests' = [requests EXCEPT ![r] = AtRest]
    BY <1>2 DEF UploadWritten
  <2> QED BY <1>2, <2>1, Rests
<1> QED BY <1>1, <1>2

LEMMA DropMoves ==
  ASSUME ShelfTyped, NEW r \in Requests, Drop(r)
  PROVE  GoesTo(r, CASE requests[r].stage = "write" -> "strayWrite"
                     [] requests[r].stage = "unlink" -> "strayUnlink"
                     [] OTHER -> "idle")
<1>1. CASE requests[r].stage = "write"
  BY <1>1 DEF Drop, ShelfTyped, GoesTo, Stages
<1>2. CASE requests[r].stage = "unlink"
  BY <1>2 DEF Drop, ShelfTyped, GoesTo, Stages
<1>3. CASE requests[r].stage \notin {"write", "unlink"}
  <2>1. requests' = [requests EXCEPT ![r] = AtRest]
    BY <1>3 DEF Drop
  <2> QED BY <1>3, <2>1, Rests
<1> QED BY <1>1, <1>2, <1>3

LEMMA TypedKept ==
  ASSUME ShelfTyped, Step \/ UNCHANGED releaseVars
  PROVE  ShelfTyped'
<1> USE ReleasesAssumption DEF ShelfTyped
<1>1. ASSUME NEW r \in Requests, NEW x \in Images, UploadBegin(r, x)
      PROVE  ShelfTyped'
  BY <1>1 DEF UploadBegin, shelf, evidenceVars, Stages
<1>2. ASSUME NEW r \in Requests, UploadWritten(r) PROVE ShelfTyped'
  <2>1. GoesTo(r, IF requests[r].stage = "write" THEN "insert" ELSE "idle")
    BY <1>2, WrittenMoves
  <2>2. requests[r].stage \in {"write", "strayWrite"} /\ UNCHANGED <<shelf, lock, uploads>>
        /\ files' = [files EXCEPT ![requests[r].image] =
                       IF Writers(requests[r].image) = {r} THEN "whole" ELSE @]
    BY <1>2 DEF UploadWritten
  <2> QED BY <2>1, <2>2 DEF GoesTo, shelf
<1>3. ASSUME NEW r \in Requests, UploadTorn(r) PROVE ShelfTyped'
  <2>1. GoesTo(r, "idle")
    BY <1>3, Rests DEF UploadTorn
  <2> QED BY <1>3, <2>1 DEF UploadTorn, GoesTo, shelf
<1>4. ASSUME NEW r \in Requests, UploadInsert(r) PROVE ShelfTyped'
  <2>1. GoesTo(r, "idle")
    BY <1>4, Rests DEF UploadInsert
  <2>2. lastId' \in Nat /\ lastId' \notin DOMAIN artifacts /\ lastId' = lastId + 1
    BY <1>4 DEF UploadInsert
  <2>3. DOMAIN artifacts' = DOMAIN artifacts \cup {lastId'}
    BY <1>4 DEF UploadInsert
  <2>4. DOMAIN artifacts' \subseteq 1 .. lastId' /\ campaigned' \subseteq DOMAIN artifacts'
    BY <1>4, <2>2, <2>3 DEF UploadInsert
  <2>5. \A id \in DOMAIN artifacts' : artifacts'[id] \in Images
    BY <1>4, <2>2, <2>3 DEF UploadInsert
  <2> QED BY <1>4, <2>1, <2>2, <2>4, <2>5 DEF UploadInsert, GoesTo
<1>5. ASSUME NEW r \in Requests, UploadRefused(r) PROVE ShelfTyped'
  <2>1. GoesTo(r, "unlink")
    BY <1>5, StageMoves DEF UploadRefused, Stages
  <2> QED BY <1>5, <2>1 DEF UploadRefused, GoesTo, shelf
<1>6. ASSUME NEW r \in Requests, NEW id \in Ids, DeleteBegin(r, id)
      PROVE  ShelfTyped'
  <2>1. requests' = [requests EXCEPT ![r] =
                      [stage |-> "unlink", image |-> artifacts[id], id |-> id]]
        /\ id \in DOMAIN artifacts \ campaigned /\ lock = NoOne /\ lock' = r
        /\ requests[r].stage = "idle"
    BY <1>6 DEF DeleteBegin
  <2>2. id \in Nat /\ artifacts[id] \in Images
    BY <2>1
  <2>3. /\ requests' \in [Requests -> [stage : Stages,
                           image : Images \cup {NoOne}, id : Nat]]
        /\ \A q \in Requests :
             /\ requests'[q].stage # "idle" => requests'[q].image \in Images
             /\ lock' = q <=> requests'[q].stage = "unlink"
    BY <2>1, <2>2 DEF Stages
  <2>4. DOMAIN artifacts' = DOMAIN artifacts \ {id}
        /\ \A j \in DOMAIN artifacts' : artifacts'[j] = artifacts[j]
    BY <1>6 DEF DeleteBegin
  <2> QED BY <1>6, <2>1, <2>3, <2>4 DEF DeleteBegin
<1>7. ASSUME NEW r \in Requests, Unlinked(r) PROVE ShelfTyped'
  <2>1. GoesTo(r, "idle")
    BY <1>7, Rests DEF Unlinked
  <2> QED BY <1>7, <2>1 DEF Unlinked, GoesTo, shelf
<1>8. ASSUME NEW r \in Requests, Drop(r) PROVE ShelfTyped'
  <2>1. GoesTo(r, CASE requests[r].stage = "write" -> "strayWrite"
                    [] requests[r].stage = "unlink" -> "strayUnlink"
                    [] OTHER -> "idle")
    BY <1>8, DropMoves
  <2>2. requests[r].stage \in {"write", "insert", "unlink"}
        /\ lock' = (IF lock = r THEN NoOne ELSE lock)
        /\ UNCHANGED <<shelf, files, uploads>>
    BY <1>8 DEF Drop
  <2> QED BY <2>1, <2>2 DEF GoesTo, shelf
<1>9. ASSUME NEW id \in Ids, Campaign(id) PROVE ShelfTyped'
  BY <1>9 DEF Campaign
<1>10. CASE UNCHANGED releaseVars
  BY <1>10 DEF releaseVars, shelf
<1>11. CASE Anchoring \/ \E a \in Anchorers : DropAnchor(a)
  BY <1>10, <1>11 DEF Anchoring, DropAnchor
<1>12. CASE Crash
  BY <1>12 DEF Crash, shelf, AtRest, Stages
<1> QED BY <1>1, <1>2, <1>3, <1>4, <1>5, <1>6, <1>7, <1>8, <1>9, <1>10, <1>11,
           <1>12 DEF Step

-----------------------------------------------------------------------------
(* ListedIsWhole.  An image that was uploaded once is at one place: with a *)
(* request or in a row; and from the insertion on its file is whole.       *)

Has(r, x)    == requests[r].stage # "idle" /\ requests[r].image = x
Lists(id, x) == id \in DOMAIN artifacts /\ artifacts[id] = x

AtOnePlace(x) ==
  /\ \A r, q \in Requests : Has(r, x) /\ Has(q, x) => r = q
  /\ \A id, jd : Lists(id, x) /\ Lists(jd, x) => id = jd
  /\ \A r \in Requests : \A id : ~(Has(r, x) /\ Lists(id, x))

WholeSince(x) ==
  /\ \A r \in Requests : requests[r].stage = "insert" /\ requests[r].image = x
                           => files[x] = "whole"
  /\ \A id : Lists(id, x) => files[x] = "whole"

NoPlace(x) == /\ \A r \in Requests : ~Has(r, x)
              /\ \A id : ~Lists(id, x)

Placed(x) ==
  /\ uploads[x] = 0 => NoPlace(x)
  /\ uploads[x] = 1 => AtOnePlace(x) /\ WholeSince(x)

(* While nothing is disturbed, no file is removed, and the file of an      *)
(* image is whole unless it is being written or was never uploaded.        *)
Removes(r) == requests[r].stage \in {"unlink", "strayUnlink"}

Undamaged ==
  /\ failures \in Nat
  /\ failures = 0 => lost = {}
  /\ Undisturbed =>
       /\ \A r \in Requests : ~Removes(r)
       /\ \A x \in Images :
            uploads[x] = 0 \/ Writers(x) # {} \/ files[x] = "whole"

LEMMA PlacedTells ==
  ASSUME ShelfTyped, Undamaged, \A x \in Images : Placed(x)
  PROVE  ListedIsWhole
<1> SUFFICES ASSUME NEW id \in DOMAIN artifacts, files[artifacts[id]] # "whole"
             PROVE  /\ uploads[artifacts[id]] > 1
                    /\ Writers(artifacts[id]) # {} \/ ~Undisturbed
  BY DEF ListedIsWhole
<1>1. artifacts[id] \in Images /\ uploads[artifacts[id]] \in 0 .. 2
  BY DEF ShelfTyped
<1>2. uploads[artifacts[id]] \notin {0, 1}
  BY <1>1 DEF Placed, NoPlace, WholeSince, Lists
<1> QED BY <1>1, <1>2 DEF Undamaged

(* No new place: what is left of the places there were.                    *)
LEMMA FewerPlaces ==
  ASSUME NEW x, Placed(x), uploads'[x] = uploads[x],
         \A r \in Requests : Has(r, x)' => Has(r, x),
         \A id : Lists(id, x)' => Lists(id, x),
         uploads[x] = 1 => WholeSince(x)'
  PROVE  Placed(x)'
  BY DEF Placed, NoPlace, AtOnePlace

LEMMA PlacedKept ==
  ASSUME ShelfTyped, Step \/ UNCHANGED releaseVars, \A x \in Images : Placed(x),
         NEW x \in Images
  PROVE  Placed(x)'
<1>0. /\ requests \in [Requests -> [stage : Stages, image : Images \cup {NoOne},
                                    id : Nat]]
      /\ uploads \in [Images -> 0 .. 2]
      /\ files \in [Images -> {"absent", "torn", "whole"}]
      /\ Placed(x)
  BY DEF ShelfTyped
<1>1. ASSUME NEW r \in Requests, NEW y \in Images, UploadBegin(r, y)
      PROVE  Placed(x)'
  <2>1. /\ requests[r].stage = "idle"
        /\ requests' = [requests EXCEPT ![r] =
                          [stage |-> "write", image |-> y, id |-> 0]]
        /\ files' = [files EXCEPT ![y] = "torn"]
        /\ uploads' = [uploads EXCEPT ![y] = IF @ = 2 THEN 2 ELSE @ + 1]
        /\ UNCHANGED artifacts
    BY <1>1 DEF UploadBegin, shelf
  <2>2. /\ requests'[r] = [stage |-> "write", image |-> y, id |-> 0]
        /\ \A q \in Requests \ {r} : requests'[q] = requests[q]
    BY <1>0, <2>1
  <2>3. \A id, z : Lists(id, z)' <=> Lists(id, z)
    BY <2>1 DEF Lists
  <2>4. CASE y # x
    <3>1. uploads'[x] = uploads[x] /\ files'[x] = files[x]
      BY <1>0, <2>1, <2>4
    <3>2. \A q \in Requests : /\ Has(q, x)' => Has(q, x)
                              /\ requests'[q].stage = "insert" => requests[q] = requests'[q]
      BY <2>1, <2>2, <2>4 DEF Has
    <3> QED BY <1>0, <2>3, <3>1, <3>2, FewerPlaces DEF Placed, WholeSince
  <2>5. CASE y = x
    <3>1. uploads'[x] # 0 /\ (uploads'[x] = 1 => uploads[x] = 0)
      BY <1>0, <2>1, <2>5
    <3>2. uploads[x] = 0 => \A q \in Requests : Has(q, x)' => q = r
      BY <1>0, <2>2 DEF Placed, NoPlace, Has
    <3>3. requests'[r].stage # "insert"
      BY <2>2
    <3>4. uploads[x] = 0 => AtOnePlace(x)' /\ WholeSince(x)'
      BY <1>0, <2>3, <3>2, <3>3 DEF Placed, NoPlace, AtOnePlace, WholeSince, Has
    <3> QED BY <3>1, <3>4 DEF Placed
  <2> QED BY <2>4, <2>5
<1>2. ASSUME NEW r \in Requests, NEW stage, GoesTo(r, stage), requests[r].stage # "idle",
             UNCHANGED <<artifacts, files, uploads>>, stage # "insert"
      PROVE  Placed(x)'
  <2>1. \A q \in Requests : /\ Has(q, x)' => Has(q, x)
                            /\ requests'[q].stage = "insert" => requests[q] = requests'[q]
    BY <1>0, <1>2 DEF GoesTo, Has
  <2> QED BY <1>0, <1>2, <2>1, FewerPlaces DEF Placed, WholeSince, Lists
<1>3. ASSUME NEW r \in Requests, UploadWritten(r) PROVE Placed(x)'
  <2> DEFINE y == requests[r].image
  <2>1. GoesTo(r, IF requests[r].stage = "write" THEN "insert" ELSE "idle")
    BY <1>3, WrittenMoves
  <2>2. /\ requests[r].stage \in {"write", "strayWrite"}
        /\ UNCHANGED <<artifacts, uploads>>
        /\ files' = [files EXCEPT ![y] = IF Writers(y) = {r} THEN "whole" ELSE @]
    BY <1>3 DEF UploadWritten, shelf
  <2>3. y \in Images /\ Has(r, y)
    BY <2>2 DEF ShelfTyped, Has
  <2>4. \A q \in Requests : Has(q, x)' => Has(q, x)
    BY <2>1, <2>2 DEF GoesTo, Has
  <2>5. \A id : Lists(id, x)' <=> Lists(id, x)
    BY <2>2 DEF Lists
  <2>6. files[x] = "whole" => files'[x] = "whole"
    BY <1>0, <2>2
  <2>7. ASSUME uploads[x] = 1 PROVE WholeSince(x)'
    <3>1. AtOnePlace(x) /\ WholeSince(x)
      BY <1>0, <2>7 DEF Placed
    <3>2. ASSUME NEW q \in Requests, requests'[q].stage = "insert", requests'[q].image = x
          PROVE  files'[x] = "whole"
      <4>1. CASE q # r
        BY <2>1, <2>6, <3>1, <3>2, <4>1 DEF GoesTo, WholeSince
      <4>2. CASE q = r
        <5>1. x = y
          BY <2>1, <3>2, <4>2 DEF GoesTo
        <5>2. Writers(x) = {r}
          BY <2>2, <2>3, <3>1, <5>1 DEF Writers, AtOnePlace, Has
        <5> QED BY <1>0, <2>2, <5>1, <5>2
      <4> QED BY <4>1, <4>2
    <3> QED BY <2>5, <2>6, <3>1, <3>2 DEF WholeSince
  <2> QED BY <1>0, <2>2, <2>4, <2>5, <2>7, FewerPlaces
<1>4. ASSUME NEW r \in Requests, UploadInsert(r) PROVE Placed(x)'
  <2> DEFINE y == requests[r].image
  <2>1. GoesTo(r, "idle") /\ requests[r].stage = "insert"
    BY <1>4, Rests DEF UploadInsert
  <2>2. UNCHANGED <<files, uploads>> /\ lastId' = lastId + 1 /\ lastId' \notin DOMAIN artifacts
    BY <1>4 DEF UploadInsert, ShelfTyped
  <2>3. \A id : Lists(id, x)' <=> Lists(id, x) \/ (id = lastId' /\ x = y)
    BY <1>4, <2>2 DEF UploadInsert, Lists
  <2>4. Has(r, y)
    BY <2>1 DEF Has
  <2>5. \A q \in Requests : Has(q, x)' => Has(q, x) /\ q # r
    BY <2>1 DEF GoesTo, Has
  <2>6. CASE x # y
    <3>1. \A q \in Requests : requests'[q].stage = "insert" => requests[q] = requests'[q]
      BY <1>0, <2>1 DEF GoesTo
    <3> QED BY <1>0, <2>2, <2>3, <2>5, <2>6, <3>1, FewerPlaces DEF Placed, WholeSince
  <2>7. CASE x = y
    <3>1. uploads[x] # 0
      BY <1>0, <2>4, <2>7 DEF Placed, NoPlace
    <3>2. ASSUME uploads[x] = 1 PROVE AtOnePlace(x)' /\ WholeSince(x)'
      <4>1. AtOnePlace(x) /\ WholeSince(x)
        BY <1>0, <3>2 DEF Placed
      <4>2. \A q \in Requests : ~Has(q, x)'
        BY <2>4, <2>5, <2>7, <4>1 DEF AtOnePlace
      <4>3. \A id : Lists(id, x)' => id = lastId'
        BY <2>3, <2>4, <2>7, <4>1 DEF AtOnePlace
      <4>4. files[x] = "whole"
        BY <2>1, <2>7, <4>1 DEF WholeSince
      <4> QED BY <2>2, <4>2, <4>3, <4>4 DEF AtOnePlace, WholeSince, Has
    <3> QED BY <2>2, <3>1, <3>2 DEF Placed
  <2> QED BY <2>6, <2>7
<1>5. ASSUME NEW r \in Requests, NEW id \in Ids, DeleteBegin(r, id)
      PROVE  Placed(x)'
  <2> DEFINE y == artifacts[id]
  <2>1. /\ requests[r].stage = "idle" /\ id \in DOMAIN artifacts
        /\ requests' = [requests EXCEPT ![r] =
                          [stage |-> "unlink", image |-> y, id |-> id]]
        /\ artifacts' = [j \in DOMAIN artifacts \ {id} |-> artifacts[j]]
        /\ UNCHANGED <<files, uploads>>
    BY <1>5 DEF DeleteBegin
  <2>2. /\ requests'[r].stage = "unlink" /\ requests'[r].image = y
        /\ \A q \in Requests \ {r} : requests'[q] = requests[q]
    BY <1>0, <2>1
  <2>3. \A j : Lists(j, x)' <=> Lists(j, x) /\ j # id
    BY <2>1 DEF Lists
  <2>4. Lists(id, y)
    BY <2>1 DEF Lists
  <2>5. \A q \in Requests : requests'[q].stage = "insert" => requests[q] = requests'[q]
    BY <2>2
  <2>6. CASE x # y
    <3>1. \A q \in Requests : Has(q, x)' => Has(q, x)
      BY <2>2, <2>6 DEF Has
    <3> QED BY <1>0, <2>1, <2>3, <2>5, <3>1, FewerPlaces DEF Placed, WholeSince
  <2>7. CASE x = y
    <3>1. uploads[x] # 0
      BY <1>0, <2>4, <2>7 DEF Placed, NoPlace
    <3>2. ASSUME uploads[x] = 1 PROVE AtOnePlace(x)' /\ WholeSince(x)'
      <4>1. AtOnePlace(x) /\ WholeSince(x)
        BY <1>0, <3>2 DEF Placed
      <4>2. \A q \in Requests : Has(q, x)' => q = r
        BY <2>2, <2>4, <2>7, <4>1 DEF AtOnePlace, Has
      <4>3. \A j : ~Lists(j, x)'
        BY <2>3, <2>4, <2>7, <4>1 DEF AtOnePlace
      <4> QED BY <2>1, <2>5, <4>1, <4>2, <4>3 DEF AtOnePlace, WholeSince
    <3> QED BY <2>1, <3>1, <3>2 DEF Placed
  <2> QED BY <2>6, <2>7
<1>6. ASSUME NEW r \in Requests, Unlinked(r) PROVE Placed(x)'
  <2> DEFINE y == requests[r].image
  <2>1. GoesTo(r, "idle") /\ requests[r].stage \in {"unlink", "strayUnlink"}
    BY <1>6, Rests DEF Unlinked
  <2>2. UNCHANGED <<artifacts, uploads>> /\ files' = [files EXCEPT ![y] = "absent"]
    BY <1>6 DEF Unlinked, shelf
  <2>3. y \in Images /\ Has(r, y)
    BY <2>1 DEF ShelfTyped, Has
  <2>4. \A q \in Requests : Has(q, x)' => Has(q, x) /\ q # r
    BY <2>1 DEF GoesTo, Has
  <2>5. \A id : Lists(id, x)' <=> Lists(id, x)
    BY <2>2 DEF Lists
  <2>6. ASSUME uploads[x] = 1 PROVE WholeSince(x)'
    <3>1. AtOnePlace(x) /\ WholeSince(x)
      BY <1>0, <2>6 DEF Placed
    <3>2. CASE x # y
      <4>1. files'[x] = files[x]
        BY <1>0, <2>2, <3>2
      <4>2. \A q \in Requests : requests'[q].stage = "insert" => requests[q] = requests'[q]
        BY <1>0, <2>1 DEF GoesTo
      <4> QED BY <2>5, <3>1, <4>1, <4>2 DEF WholeSince
    <3>3. CASE x = y
      <4>1. \A q \in Requests : ~Has(q, x)'
        BY <2>3, <2>4, <3>1, <3>3 DEF AtOnePlace
      <4>2. \A id : ~Lists(id, x)'
        BY <2>3, <2>5, <3>1, <3>3 DEF AtOnePlace
      <4> QED BY <4>1, <4>2 DEF WholeSince, Has
    <3> QED BY <3>2, <3>3
  <2> QED BY <1>0, <2>2, <2>4, <2>5, <2>6, FewerPlaces
<1>7. CASE UNCHANGED <<artifacts, files, uploads>>
           /\ requests' = [r \in Requests |-> AtRest]
  <2>1. \A q \in Requests : ~Has(q, x)' /\ requests'[q].stage # "insert"
    BY <1>7 DEF Has, AtRest
  <2> QED BY <1>0, <1>7, <2>1, FewerPlaces DEF Placed, WholeSince, Lists
<1>8. CASE UNCHANGED <<artifacts, files, uploads, requests>>
  BY <1>0, <1>8, FewerPlaces DEF Placed, WholeSince, Lists, Has
<1>9. ASSUME NEW r \in Requests, UploadTorn(r) \/ UploadRefused(r) \/ Drop(r)
      PROVE  Placed(x)'
  <2>1. UNCHANGED <<artifacts, files, uploads>> /\ requests[r].stage # "idle"
    BY <1>9 DEF UploadTorn, UploadRefused, Drop, shelf
  <2>2. \E stage : GoesTo(r, stage) /\ stage # "insert"
    <3>1. CASE UploadTorn(r)
      <4>1. GoesTo(r, "idle")
        BY <3>1, Rests DEF UploadTorn
      <4> QED BY <4>1
    <3>2. CASE UploadRefused(r)
      <4>1. GoesTo(r, "unlink")
        BY <3>2, StageMoves DEF UploadRefused, Stages
      <4> QED BY <4>1
    <3>3. CASE Drop(r)
      BY <3>3, DropMoves
    <3> QED BY <1>9, <3>1, <3>2, <3>3
  <2> QED BY <1>2, <2>1, <2>2
<1> QED BY <1>1, <1>3, <1>4, <1>5, <1>6, <1>7, <1>8, <1>9
        DEF Step, Campaign, Anchoring, DropAnchor, Crash, releaseVars, shelf

LEMMA UndamagedKept ==
  ASSUME ShelfTyped, Undamaged, Step \/ UNCHANGED shelfVars
  PROVE  Undamaged'
<1>0. /\ requests \in [Requests -> [stage : Stages, image : Images \cup {NoOne},
                                    id : Nat]]
      /\ uploads \in [Images -> 0 .. 2]
      /\ files \in [Images -> {"absent", "torn", "whole"}]
      /\ lastId \in Nat /\ DOMAIN artifacts \subseteq 1 .. lastId
      /\ failures \in Nat
  BY DEF ShelfTyped, Undamaged
<1> DEFINE Fine(x) == uploads[x] = 0 \/ Writers(x) # {} \/ files[x] = "whole"
<1>1. ASSUME failures' = failures, lost' = lost, Undisturbed' => Undisturbed,
             Undisturbed' => \A r \in Requests : ~Removes(r)',
             Undisturbed' => \A x \in Images : Fine(x)'
      PROVE  Undamaged'
  BY <1>1 DEF Undamaged
<1>2. CASE failures' = failures + 1
  BY <1>0, <1>2 DEF Undamaged, Undisturbed
<1>3. Undisturbed => (\A r \in Requests : ~Removes(r)) /\ \A x \in Images : Fine(x)
  BY DEF Undamaged
<1>4. ASSUME UNCHANGED <<failures, lost, shelf, files, uploads, requests>>
      PROVE  Undamaged'
  BY <1>4 DEF Undamaged, Undisturbed, Writers, Removes, shelf
<1>5. ASSUME NEW event, Record(event) PROVE failures' = failures + 1 \/ UNCHANGED <<failures, lost>>
  BY <1>5 DEF Record
<1>6. ASSUME NEW r \in Requests, NEW y \in Images, UploadBegin(r, y)
      PROVE  Undamaged'
  <2>1. /\ requests' = [requests EXCEPT ![r] =
                          [stage |-> "write", image |-> y, id |-> 0]]
        /\ requests[r].stage = "idle"
        /\ files' = [files EXCEPT ![y] = "torn"]
        /\ uploads' = [uploads EXCEPT ![y] = IF @ = 2 THEN 2 ELSE @ + 1]
        /\ UNCHANGED <<failures, lost, shelf>>
    BY <1>6 DEF UploadBegin, evidenceVars
  <2>2. /\ requests'[r] = [stage |-> "write", image |-> y, id |-> 0]
        /\ \A q \in Requests \ {r} : requests'[q] = requests[q]
    BY <1>0, <2>1
  <2>3. Undisturbed' <=> Undisturbed
    BY <2>1 DEF Undisturbed, shelf
  <2>4. Undisturbed' => \A q \in Requests : ~Removes(q)'
    BY <1>3, <2>2, <2>3 DEF Removes
  <2>5. ASSUME NEW x \in Images, Undisturbed' PROVE Fine(x)'
    <3>1. CASE x = y
      <4>1. r \in Writers(x)'
        BY <2>2, <3>1 DEF Writers
      <4> QED BY <4>1
    <3>2. CASE x # y
      <4>1. uploads'[x] = uploads[x] /\ files'[x] = files[x]
        BY <1>0, <2>1, <3>2
      <4>2. Writers(x) \subseteq Writers(x)'
        BY <2>1, <2>2 DEF Writers
      <4> QED BY <1>3, <2>3, <2>5, <4>1, <4>2
    <3> QED BY <3>1, <3>2
  <2> HIDE DEF Fine
  <2> QED BY <1>1, <2>1, <2>3, <2>4, <2>5
<1>7. ASSUME NEW r \in Requests, UploadWritten(r) PROVE Undamaged'
  <2> DEFINE y == requests[r].image
  <2>1. GoesTo(r, IF requests[r].stage = "write" THEN "insert" ELSE "idle")
    BY <1>7, WrittenMoves
  <2>2. /\ requests[r].stage \in {"write", "strayWrite"}
        /\ UNCHANGED <<failures, lost, shelf, uploads>>
        /\ files' = [files EXCEPT ![y] = IF Writers(y) = {r} THEN "whole" ELSE @]
    BY <1>7 DEF UploadWritten, evidenceVars
  <2>3. y \in Images /\ r \in Writers(y)
    BY <2>2 DEF ShelfTyped, Writers
  <2>4. Undisturbed' <=> Undisturbed
    BY <2>2 DEF Undisturbed, shelf
  <2>5. requests'[r].stage \in {"insert", "idle"} /\ \A q \in Requests \ {r} : requests'[q] = requests[q]
    BY <2>1 DEF GoesTo
  <2>6. Undisturbed' => \A q \in Requests : ~Removes(q)'
    BY <1>3, <2>4, <2>5 DEF Removes
  <2>7. ASSUME NEW x \in Images, Undisturbed' PROVE Fine(x)'
    <3>0. Fine(x) /\ uploads'[x] = uploads[x]
      BY <1>3, <2>2, <2>4, <2>7
    <3>1. Writers(x) \ {r} \subseteq Writers(x)'
      BY <2>5 DEF Writers
    <3>2. CASE Writers(x) \ {r} # {}
      BY <3>1, <3>2
    <3>3. CASE x = y /\ Writers(x) \ {r} = {}
      <4>1. Writers(y) = {r}
        BY <2>3, <3>3
      <4> QED BY <1>0, <2>2, <3>3, <4>1
    <3>4. CASE x # y
      <4>1. r \notin Writers(x)
        BY <3>4 DEF Writers
      <4>2. files'[x] = files[x]
        BY <1>0, <2>2, <3>4
      <4> QED BY <3>0, <3>1, <4>1, <4>2
    <3> QED BY <3>2, <3>3, <3>4
  <2> HIDE DEF Fine
  <2> QED BY <1>1, <2>2, <2>4, <2>6, <2>7
<1>8. ASSUME NEW r \in Requests, UploadInsert(r) PROVE Undamaged'
  <2>1. GoesTo(r, "idle") /\ requests[r].stage = "insert"
    BY <1>8, Rests DEF UploadInsert
  <2>2. /\ lastId' = lastId + 1 /\ DOMAIN artifacts' = DOMAIN artifacts \cup {lastId'}
        /\ UNCHANGED <<files, uploads>>
    BY <1>8 DEF UploadInsert
  <2>3. PICK event : Record(event)
    BY <1>8 DEF UploadInsert
  <2>4. failures' = failures => (Undisturbed' => Undisturbed)
    <3>1. ASSUME DOMAIN artifacts' = 1 .. lastId' PROVE DOMAIN artifacts = 1 .. lastId
      <4>1. ASSUME NEW j \in 1 .. lastId PROVE j \in DOMAIN artifacts
        <5>1. j \in 1 .. lastId' /\ j # lastId'
          BY <1>0, <2>2
        <5> QED BY <2>2, <3>1, <5>1
      <4> QED BY <1>0, <4>1
    <3> QED BY <3>1 DEF Undisturbed
  <2>5. \A q \in Requests : requests'[q].stage # "idle" => requests'[q] = requests[q]
    BY <2>1 DEF GoesTo
  <2>6. \A q \in Requests : Removes(q)' => Removes(q)
    BY <2>5 DEF Removes
  <2>7. \A x : Writers(x) \subseteq Writers(x)'
    BY <2>1 DEF Writers, GoesTo
  <2>8. CASE UNCHANGED <<failures, lost>>
    <3>1. Undisturbed' => \A x \in Images : Fine(x)'
      BY <1>3, <2>2, <2>4, <2>7, <2>8
    <3> HIDE DEF Fine
    <3> QED BY <1>1, <1>3, <2>4, <2>6, <2>8, <3>1
  <2> QED BY <1>2, <1>5, <2>3, <2>8
<1>9. ASSUME NEW r \in Requests, NEW id \in Ids, DeleteBegin(r, id) PROVE Undamaged'
  <2>1. /\ id \in DOMAIN artifacts /\ DOMAIN artifacts' = DOMAIN artifacts \ {id}
        /\ UNCHANGED <<failures, lost, lastId>>
    BY <1>9 DEF DeleteBegin, evidenceVars
  <2>2. ~Undisturbed'
    BY <1>0, <2>1 DEF Undisturbed
  <2> QED BY <2>1, <2>2 DEF Undamaged
<1>10. ASSUME NEW r \in Requests, Unlinked(r) PROVE Undamaged'
  <2>1. Removes(r) /\ UNCHANGED <<shelf, uploads>>
    BY <1>10 DEF Unlinked, Removes
  <2>2. failures' = failures + 1 \/ UNCHANGED <<failures, lost>>
    BY <1>10 DEF Unlinked, Record
  <2>3. ~Undisturbed
    BY <1>3, <2>1
  <2>4. CASE UNCHANGED <<failures, lost>>
    <3>1. ~Undisturbed'
      BY <2>1, <2>3, <2>4 DEF Undisturbed, shelf
    <3> QED BY <2>4, <3>1 DEF Undamaged
  <2> QED BY <1>2, <2>2, <2>4
<1>11. ASSUME NEW id \in Ids, Campaign(id) PROVE Undamaged'
  <2>1. UNCHANGED <<artifacts, lastId, files, requests, uploads>>
        /\ (failures' = failures + 1 \/ UNCHANGED <<failures, lost>>)
    BY <1>5, <1>11 DEF Campaign
  <2>2. CASE UNCHANGED <<failures, lost>>
    BY <2>1, <2>2 DEF Undamaged, Undisturbed, Writers, Removes
  <2> QED BY <1>2, <2>1, <2>2
<1>12. CASE Anchoring
  <2>1. UNCHANGED <<lost, releaseVars>> /\ failures' \in {failures, failures + 1}
    BY <1>12 DEF Anchoring, AnchorBegin, AnchorSend, AnchorEnd
  <2> QED BY <1>2, <1>4, <2>1 DEF releaseVars
<1>13. ASSUME NEW r \in Requests, UploadTorn(r) \/ UploadRefused(r) \/ Drop(r)
       PROVE  Undamaged'
  BY <1>2, <1>13 DEF UploadTorn, UploadRefused, Drop, Fault
<1>14. ASSUME NEW a \in Anchorers, DropAnchor(a) PROVE Undamaged'
  BY <1>2, <1>14 DEF DropAnchor, Fault
<1>15. CASE Crash
  BY <1>2, <1>15 DEF Crash, Fault
<1>16. CASE UNCHANGED shelfVars
  BY <1>4, <1>16 DEF shelfVars, evidenceVars, releaseVars
<1> QED BY <1>6, <1>7, <1>8, <1>9, <1>10, <1>11, <1>12, <1>13, <1>14, <1>15, <1>16
        DEF Step

-----------------------------------------------------------------------------
(* LogTellsShelf.                                                          *)

Deletes(r, id) == requests[r].stage = "unlink" /\ requests[r].id = id

InLog(i, event) == i \in DOMAIN log /\ log[i].event = event

(* An entry tells of a row that was inserted; one that tells of a deletion *)
(* tells of a row that is gone, and comes after the other; and a row whose *)
(* file is being removed is gone.                                          *)
EntriesTrue ==
  /\ \A i, id : InLog(i, Uploaded(id)) => id \in 1 .. lastId
  /\ \A i, id : InLog(i, Deleted(id)) => id \in 1 .. lastId /\ id \notin DOMAIN artifacts
  /\ \A i, j, id : InLog(i, Uploaded(id)) /\ InLog(j, Deleted(id)) => i < j
  /\ \A r \in Requests : \A id : Deletes(r, id) /\ id # 0
                               => id \in 1 .. lastId /\ id \notin DOMAIN artifacts

(* No row came or went without an entry, a lost one or one to come.        *)
RowsTold ==
  \A id \in 1 .. lastId :
    /\ Happened(Uploaded(id)) \/ Uploaded(id) \in lost
    /\ \/ id \in DOMAIN artifacts
       \/ Happened(Deleted(id)) \/ Deleted(id) \in lost
       \/ \E r \in Requests : Deletes(r, id)

LEMMA EventKinds ==
  /\ \A id : Uploaded(id).kind = "uploaded" /\ Uploaded(id).subject = id
  /\ \A id : Deleted(id).kind = "deleted" /\ Deleted(id).subject = id
  /\ \A id : Created(id).kind = "campaign"
  BY DEF Uploaded, Deleted, Created

LEMMA ToldTells == Undamaged /\ EntriesTrue /\ RowsTold => LogTellsShelf
<1> SUFFICES ASSUME Undamaged, EntriesTrue, RowsTold, NEW id \in 1 .. lastId,
                    Happened(Deleted(id))
             PROVE  /\ id \notin DOMAIN artifacts
                    /\ Happened(Uploaded(id)) => At(Uploaded(id)) < At(Deleted(id))
  BY DEF LogTellsShelf, RowsTold, Deletes, Undamaged
<1>1. \A e : Happened(e) => InLog(At(e), e)
  BY DEF Happened, At, InLog
<1> QED BY <1>1 DEF EntriesTrue

(* The log as it was, with no entry more than one for that event.          *)
Extends(event) ==
  /\ lost \subseteq lost'
  /\ \A i, e : InLog(i, e) => InLog(i, e)'
  /\ \A i, e : InLog(i, e)' => \/ InLog(i, e)
                               \/ e = event /\ \A j, f : InLog(j, f) => j < i

LEMMA QuietExtends ==
  ASSUME UNCHANGED log, lost \subseteq lost', NEW event
  PROVE  Extends(event)
  BY DEF Extends, InLog

LEMMA WrittenExtends ==
  ASSUME Chained, NEW e, e.kind # Changed.kind, Written(e), UNCHANGED lost
  PROVE  Extends(e) /\ Happened(e)'
<1>1. /\ Len(log) \in Nat /\ DOMAIN log = 1 .. Len(log)
      /\ DOMAIN log' = 1 .. (Len(log) + 1)
      /\ \A j \in DOMAIN log : log'[j] = log[j]
      /\ log'[Len(log) + 1].event = e
  BY LogGrows
<1>2. \A i \in DOMAIN log' : i \in DOMAIN log \/ i = Len(log) + 1
  BY <1>1
<1>3. \A j \in DOMAIN log : j < Len(log) + 1 /\ j \in DOMAIN log'
  BY <1>1
<1>4. Len(log) + 1 \in DOMAIN log'
  BY <1>1
<1> QED BY <1>1, <1>2, <1>3, <1>4 DEF Extends, InLog, Happened

LEMMA RecordExtends ==
  ASSUME Chained, NEW e, e.kind # Changed.kind, Record(e)
  PROVE  Extends(e) /\ (Happened(e)' \/ e \in lost')
<1>1. CASE Written(e) /\ UNCHANGED lost
  BY <1>1, WrittenExtends
<1>2. CASE UNCHANGED log /\ lost' = lost \cup {e}
  BY <1>2, QuietExtends
<1> QED BY <1>1, <1>2 DEF Record

LEMMA StillHappened ==
  ASSUME NEW event, Extends(event)
  PROVE  \A e : (Happened(e) => Happened(e)') /\ (e \in lost => e \in lost')
  BY DEF Extends, Happened, InLog

(* A step that neither inserts nor deletes a row: what it writes is of     *)
(* another kind, and a deletion that ends unrecorded is lost.              *)
LEMMA ToldElsewhere ==
  ASSUME EntriesTrue, RowsTold, UNCHANGED <<artifacts, lastId>>,
         NEW event, Extends(event), event.kind \notin {"uploaded", "deleted"},
         \A r \in Requests : \A id : Deletes(r, id)' /\ id # 0 => Deletes(r, id),
         \A r \in Requests : \A id : Deletes(r, id) /\ id # 0 =>
            Deletes(r, id)' \/ Deleted(id) \in lost'
  PROVE  EntriesTrue' /\ RowsTold'
<1>1. \A i, id : /\ InLog(i, Uploaded(id))' => InLog(i, Uploaded(id))
                 /\ InLog(i, Deleted(id))' => InLog(i, Deleted(id))
  BY EventKinds DEF Extends
<1>2. EntriesTrue'
  BY <1>1 DEF EntriesTrue
<1>3. RowsTold'
  BY StillHappened DEF RowsTold
<1> QED BY <1>2, <1>3

LEMMA ToldKept ==
  ASSUME ShelfTyped, Chained, EntriesTrue, RowsTold, Step \/ UNCHANGED shelfVars
  PROVE  EntriesTrue' /\ RowsTold'
<1>0. lastId \in Nat /\ DOMAIN artifacts \subseteq 1 .. lastId
  BY DEF ShelfTyped
<1>1. \A id : /\ Uploaded(id).kind # Changed.kind
              /\ Deleted(id).kind # Changed.kind
              /\ Created(id).kind # Changed.kind
  BY EventKinds DEF Changed
<1>2. ASSUME UNCHANGED <<log, artifacts, lastId>>, lost \subseteq lost',
             \A r \in Requests : \A id : Deletes(r, id)' /\ id # 0 => Deletes(r, id),
             \A r \in Requests : \A id : Deletes(r, id) /\ id # 0 =>
               Deletes(r, id)' \/ Deleted(id) \in lost'
      PROVE  EntriesTrue' /\ RowsTold'
  BY <1>2, QuietExtends, ToldElsewhere, EventKinds
<1>3. ASSUME NEW r \in Requests, NEW x \in Images, UploadBegin(r, x)
      PROVE  EntriesTrue' /\ RowsTold'
  <2>1. \A q \in Requests : \A id : Deletes(q, id)' <=> Deletes(q, id)
    BY <1>3 DEF UploadBegin, ShelfTyped, Deletes
  <2> QED BY <1>2, <1>3, <2>1 DEF UploadBegin, evidenceVars, shelf
<1>4. ASSUME NEW r \in Requests, NEW stage, GoesTo(r, stage),
             requests[r].stage # "unlink",
             stage = "unlink" => requests[r].id = 0
      PROVE  /\ \A q \in Requests : \A id : Deletes(q, id)' /\ id # 0 => Deletes(q, id)
             /\ \A q \in Requests : \A id : Deletes(q, id) => Deletes(q, id)'
  BY <1>4 DEF GoesTo, Deletes
<1>5. ASSUME NEW r \in Requests, UploadWritten(r) \/ UploadTorn(r)
      PROVE  EntriesTrue' /\ RowsTold'
  <2>1. \E stage : GoesTo(r, stage) /\ stage # "unlink"
    <3>1. CASE UploadWritten(r)
      BY <3>1, WrittenMoves
    <3>2. CASE UploadTorn(r)
      <4>1. GoesTo(r, "idle")
        BY <3>2, Rests DEF UploadTorn
      <4> QED BY <4>1
    <3> QED BY <1>5, <3>1, <3>2
  <2>2. requests[r].stage # "unlink" /\ UNCHANGED <<log, lost, artifacts, lastId>>
    BY <1>5 DEF UploadWritten, UploadTorn, evidenceVars, shelf
  <2> QED BY <1>2, <1>4, <2>1, <2>2
<1>6. ASSUME NEW r \in Requests, UploadInsert(r)
      PROVE  EntriesTrue' /\ RowsTold'
  <2>0. PICK new : new = lastId + 1
    OBVIOUS
  <2>1. GoesTo(r, "idle") /\ requests[r].stage = "insert"
    BY <1>6, Rests DEF UploadInsert
  <2>2. Record(Uploaded(new)) /\ lastId' = new /\ DOMAIN artifacts' = DOMAIN artifacts \cup {new}
    BY <1>6, <2>0 DEF UploadInsert
  <2>3. Extends(Uploaded(new)) /\ (Happened(Uploaded(new))' \/ Uploaded(new) \in lost')
    BY <1>1, <2>2, RecordExtends
  <2>4. \A q \in Requests : \A id : Deletes(q, id)' <=> Deletes(q, id)
    BY <2>1 DEF GoesTo, Deletes
  <2>5. new \notin 1 .. lastId /\ 1 .. lastId' = (1 .. lastId) \cup {new}
    BY <1>0, <2>0, <2>2
  <2>6. \A i, id : InLog(i, Deleted(id))' => InLog(i, Deleted(id))
    BY <2>3, EventKinds DEF Extends
  <2>7. \A i, id : InLog(i, Uploaded(id))' => InLog(i, Uploaded(id)) \/ id = new
    BY <2>3, EventKinds DEF Extends
  <2>8. EntriesTrue'
    BY <2>2, <2>4, <2>5, <2>6, <2>7 DEF EntriesTrue
  <2>9. RowsTold'
    BY <2>2, <2>3, <2>4, <2>5, StillHappened DEF RowsTold
  <2> QED BY <2>8, <2>9
<1>7. ASSUME NEW r \in Requests, UploadRefused(r)
      PROVE  EntriesTrue' /\ RowsTold'
  <2>1. GoesTo(r, "unlink")
    BY <1>7, StageMoves DEF UploadRefused, Stages
  <2>2. requests[r].stage = "insert" /\ requests[r].id = 0
        /\ UNCHANGED <<log, lost, artifacts, lastId>>
    BY <1>7 DEF UploadRefused, ShelfTyped, shelf
  <2> QED BY <1>2, <1>4, <2>1, <2>2
<1>8. ASSUME NEW r \in Requests, NEW id \in Ids, DeleteBegin(r, id)
      PROVE  EntriesTrue' /\ RowsTold'
  <2>1. /\ requests[r].stage = "idle" /\ id \in DOMAIN artifacts
        /\ requests' = [requests EXCEPT ![r] =
                          [stage |-> "unlink", image |-> artifacts[id], id |-> id]]
        /\ DOMAIN artifacts' = DOMAIN artifacts \ {id}
        /\ UNCHANGED <<log, lost, lastId>>
    BY <1>8 DEF DeleteBegin, evidenceVars
  <2>2. \A q \in Requests : \A j : Deletes(q, j)' <=> Deletes(q, j) \/ (q = r /\ j = id)
    BY <2>1 DEF ShelfTyped, Deletes
  <2>3. id \in 1 .. lastId
    BY <1>0, <2>1
  <2>4. \A i, e : InLog(i, e)' <=> InLog(i, e)
    BY <2>1 DEF InLog
  <2>5. \A e : Happened(e)' <=> Happened(e)
    BY <2>1 DEF Happened
  <2>6. EntriesTrue'
    BY <2>1, <2>2, <2>3, <2>4 DEF EntriesTrue
  <2>7. RowsTold'
    BY <2>1, <2>2, <2>5 DEF RowsTold
  <2> QED BY <2>6, <2>7
<1>9. ASSUME NEW r \in Requests, Unlinked(r)
      PROVE  EntriesTrue' /\ RowsTold'
  <2>1. GoesTo(r, "idle") /\ UNCHANGED <<artifacts, lastId>>
    BY <1>9, Rests DEF Unlinked, shelf
  <2>2. \A q \in Requests : \A j : Deletes(q, j)' <=> Deletes(q, j) /\ q # r
    BY <2>1 DEF GoesTo, Deletes
  <2>3. CASE ~(requests[r].stage = "unlink" /\ requests[r].id # 0)
    <3>1. UNCHANGED <<log, lost>>
      BY <1>9, <2>3 DEF Unlinked
    <3>2. \A j : Deletes(r, j) => j = 0
      BY <2>3 DEF Deletes
    <3> QED BY <1>2, <2>1, <2>2, <3>1, <3>2
  <2>4. CASE requests[r].stage = "unlink" /\ requests[r].id # 0
    <3>1. PICK id : id = requests[r].id /\ Deletes(r, id) /\ id # 0
      BY <2>4 DEF Deletes
    <3>2. Record(Deleted(id))
      BY <1>9, <2>4, <3>1 DEF Unlinked
    <3>3. Extends(Deleted(id)) /\ (Happened(Deleted(id))' \/ Deleted(id) \in lost')
      BY <1>1, <3>2, RecordExtends
    <3>4. id \in 1 .. lastId /\ id \notin DOMAIN artifacts
      BY <3>1 DEF EntriesTrue
    <3>5. \A i, j : InLog(i, Uploaded(j))' => InLog(i, Uploaded(j))
      BY <3>3, EventKinds DEF Extends
    <3>6. \A i, j : InLog(i, Deleted(j))' =>
            \/ InLog(i, Deleted(j))
            \/ j = id /\ \A k, f : InLog(k, f) => k < i
      BY <3>3, EventKinds DEF Extends
    <3>7. EntriesTrue'
      BY <2>1, <2>2, <3>4, <3>5, <3>6 DEF EntriesTrue
    <3>8. \A j : Deletes(r, j) => j = id
      BY <3>1 DEF Deletes
    <3>9. RowsTold'
      BY <2>1, <2>2, <3>3, <3>8, StillHappened DEF RowsTold
    <3> QED BY <3>7, <3>9
  <2> QED BY <2>3, <2>4
<1>10. ASSUME NEW r \in Requests, Drop(r) PROVE EntriesTrue' /\ RowsTold'
  <2>1. GoesTo(r, CASE requests[r].stage = "write" -> "strayWrite"
                    [] requests[r].stage = "unlink" -> "strayUnlink"
                    [] OTHER -> "idle")
    BY <1>10, DropMoves
  <2>2. UNCHANGED <<log, artifacts, lastId>> /\ lost' = lost \cup Unrecorded({r})
    BY <1>10 DEF Drop, shelf
  <2>3. \A q \in Requests : \A j : Deletes(q, j)' <=> Deletes(q, j) /\ q # r
    BY <2>1 DEF GoesTo, Deletes
  <2>4. \A j : Deletes(r, j) /\ j # 0 => Deleted(j) \in lost'
    BY <2>2 DEF Deletes, Unrecorded
  <2> QED BY <1>2, <2>2, <2>3, <2>4
<1>11. CASE Crash
  <2>1. /\ UNCHANGED <<log, artifacts, lastId>>
        /\ lost' = lost \cup Unrecorded(Requests)
        /\ requests' = [r \in Requests |-> AtRest]
    BY <1>11 DEF Crash, shelf
  <2>2. \A q \in Requests : \A j : ~Deletes(q, j)'
    BY <2>1 DEF Deletes, AtRest
  <2>3. \A q \in Requests : \A j : Deletes(q, j) /\ j # 0 => Deleted(j) \in lost'
    BY <2>1 DEF Deletes, Unrecorded
  <2> QED BY <1>2, <2>1, <2>2, <2>3
<1>12. ASSUME UNCHANGED <<artifacts, lastId, requests>>, NEW event, Extends(event),
              event.kind \notin {"uploaded", "deleted"}
       PROVE  EntriesTrue' /\ RowsTold'
  BY <1>12, ToldElsewhere DEF Deletes
<1>13. ASSUME NEW id \in Ids, Campaign(id) PROVE EntriesTrue' /\ RowsTold'
  BY <1>1, <1>12, <1>13, RecordExtends, EventKinds DEF Campaign
<1>14. CASE UNCHANGED <<artifacts, lastId, requests, log, lost>>
  BY <1>12, <1>14, QuietExtends, EventKinds
<1>15. CASE Anchoring
  <2>1. UNCHANGED <<artifacts, lastId, requests>>
    BY <1>15 DEF Anchoring, releaseVars, shelf
  <2>2. PICK a \in Anchorers : AnchorBegin(a) \/ AnchorSend(a) \/ AnchorEnd(a)
    BY <1>15 DEF Anchoring
  <2>3. CASE UNCHANGED <<log, lost>>
    BY <1>14, <2>1, <2>3
  <2>4. CASE AnchorEnd(a) /\ anchor[a].got # {}
    <3> DEFINE e == [kind |-> AnchorKind, subject |-> anchor[a].head,
                     got |-> anchor[a].got]
    <3>1. Written(e) /\ UNCHANGED lost /\ e.kind = AnchorKind
      BY <2>4 DEF AnchorEnd
    <3>2. PICK event : event = e
      OBVIOUS
    <3> QED BY <1>12, <2>1, <3>1, <3>2, WrittenExtends DEF AnchorKind, Changed
  <2> QED BY <2>2, <2>3, <2>4 DEF AnchorBegin, AnchorSend, AnchorEnd
<1> QED BY <1>3, <1>5, <1>6, <1>7, <1>8, <1>9, <1>10, <1>11, <1>13, <1>14, <1>15
        DEF Step, DropAnchor, shelfVars, evidenceVars, releaseVars, shelf

-----------------------------------------------------------------------------
(* Every step of the log, of its anchors and of the shelf.                 *)

LEMMA LogKept ==
  ASSUME LogInv, Step \/ UNCHANGED shelfVars
  PROVE  LogInv'
<1>1. \A id : /\ Uploaded(id).kind \notin {Changed.kind, AnchorKind}
              /\ Deleted(id).kind \notin {Changed.kind, AnchorKind}
              /\ Created(id).kind \notin {Changed.kind, AnchorKind}
  BY EventKinds DEF Changed, AnchorKind
<1>2. CASE UNCHANGED <<log, anchor, sinks>>
  BY <1>1, <1>2, RecordKeepsLog
<1>3. ASSUME NEW r \in Requests, UploadInsert(r) PROVE LogInv'
  <2>1. PICK id : id = lastId'
    OBVIOUS
  <2>2. Record(Uploaded(id)) /\ UNCHANGED <<anchor, sinks>>
    BY <1>3, <2>1 DEF UploadInsert
  <2> QED BY <1>1, <2>2, RecordKeepsLog
<1>4. ASSUME NEW r \in Requests, Unlinked(r) PROVE LogInv'
  <2>1. PICK id : id = requests[r].id
    OBVIOUS
  <2>2. (Record(Deleted(id)) \/ UNCHANGED log) /\ UNCHANGED <<anchor, sinks>>
    BY <1>4, <2>1 DEF Unlinked
  <2> QED BY <1>1, <2>2, RecordKeepsLog
<1>5. ASSUME NEW id \in Ids, Campaign(id) PROVE LogInv'
  BY <1>1, <1>5, RecordKeepsLog DEF Campaign
<1>6. CASE Anchoring
  BY <1>6, AnchorBeginKeepsLog, AnchorSendKeepsLog, AnchorEndKeepsLog DEF Anchoring
<1>7. ASSUME NEW a \in Anchorers, DropAnchor(a) PROVE LogInv'
  <2>1. /\ anchor' = [b \in Anchorers |-> anchor'[b]]
        /\ \A b \in Anchorers : anchor'[b] \in {anchor[b], Idle}
        /\ UNCHANGED <<log, sinks>>
    BY <1>7 DEF DropAnchor, LogInv, AnchorsUnderway
  <2> QED BY <2>1, AnchorStopsKeepsLog
<1>8. CASE Crash
  <2>1. /\ anchor' = [b \in Anchorers |-> anchor'[b]]
        /\ \A b \in Anchorers : anchor'[b] \in {anchor[b], Idle}
        /\ UNCHANGED <<log, sinks>>
    BY <1>8 DEF Crash
  <2> QED BY <2>1, AnchorStopsKeepsLog
<1> QED BY <1>2, <1>3, <1>4, <1>5, <1>6, <1>7, <1>8
        DEF Step, shelfVars, evidenceVars, UploadBegin, UploadWritten, UploadTorn,
            UploadRefused, DeleteBegin, Drop

ShelfInv ==
  /\ LogInv /\ ShelfTyped /\ Undamaged
  /\ \A x \in Images : Placed(x)
  /\ EntriesTrue /\ RowsTold

LEMMA ShelfInvInit == ReleasesInit => ShelfInv
<1> SUFFICES ASSUME ReleasesInit PROVE ShelfInv
  OBVIOUS
<1>1. log = << >> /\ DOMAIN log = {} /\ \A S : log \in Seq(S)
  BY DEF ReleasesInit, EvidenceInit
<1>2. LogInv
  <2>1. Chained
    BY <1>1 DEF Chained, ChainValid
  <2>2. HeadsHeld
    BY DEF HeadsHeld, ReleasesInit, EvidenceInit
  <2>3. AnchorsUnderway
    BY DEF AnchorsUnderway, AnchorTrue, ReleasesInit, EvidenceInit
  <2> QED BY <1>1, <2>1, <2>2, <2>3 DEF LogInv
<1>3. lastId = 0 /\ DOMAIN artifacts = {} /\ campaigned = {}
  BY DEF ReleasesInit
<1>4. ShelfTyped
  BY <1>3, ReleasesAssumption DEF ShelfTyped, ReleasesInit, AtRest, Stages
<1>5. \A x \in Images : Placed(x)
  BY <1>3 DEF Placed, NoPlace, Has, Lists, ReleasesInit, AtRest
<1>6. EntriesTrue
  BY <1>1, <1>3 DEF EntriesTrue, InLog, Deletes, ReleasesInit, AtRest
<1>7. RowsTold
  <2>1. 1 .. lastId = {}
    BY <1>3
  <2> QED BY <2>1 DEF RowsTold
<1>8. Undamaged
  BY DEF Undamaged, Undisturbed, Removes, ReleasesInit, EvidenceInit, AtRest
<1> QED BY <1>2, <1>4, <1>5, <1>6, <1>7, <1>8 DEF ShelfInv

LEMMA ShelfInvKept == ShelfInv /\ [ReleasesNext]_shelfVars => ShelfInv'
<1> SUFFICES ASSUME ShelfInv, [ReleasesNext]_shelfVars PROVE ShelfInv'
  OBVIOUS
<1>1. Step \/ UNCHANGED shelfVars
  BY DEF ReleasesNext
<1>2. Step \/ UNCHANGED releaseVars
  BY <1>1 DEF shelfVars
<1> QED BY <1>1, <1>2, LogKept, TypedKept, PlacedKept, UndamagedKept, ToldKept
        DEF ShelfInv, LogInv

LEMMA ShelfInvHolds == ReleasesSpec => []ShelfInv
  BY ShelfInvInit, ShelfInvKept, PTL DEF ReleasesSpec

(* evidence.rs, evidence_anchor.rs: for every length of the log and every  *)
(* number of anchors under way, a log that was tampered with shows it, in  *)
(* its chain or at the sinks, and an anchor entry claims no more than the  *)
(* sinks have.                                                             *)
THEOREM LogTrustedHolds == ReleasesSpec => []LogTrusted
<1>1. ShelfInv => LogTrusted
  BY LogInvTells DEF ShelfInv
<1> QED BY <1>1, ShelfInvHolds, PTL

(* ota.rs: for every number of images and requests, through interrupted    *)
(* and dropped uploads, failed writes and crashes, the file of a listed    *)
(* image is whole unless uploads of it share the file and one is writing,  *)
(* something failed or a row was deleted, and the log tells what became of *)
(* every row.                                                              *)
THEOREM ShelfToldHolds == ReleasesSpec => []ShelfTold
<1>1. ShelfInv => ShelfTold
  BY PlacedTells, ToldTells DEF ShelfInv, ShelfTold
<1> QED BY <1>1, ShelfInvHolds, PTL

(* ota.rs, the store's mutex and its foreign keys: at any moment at most   *)
(* one request removes a file, and it holds the lock; a row that a         *)
(* campaign refers to stays.                                               *)
THEOREM ShelfTypedHolds == ReleasesSpec => []ShelfTyped
<1>1. ShelfInv => ShelfTyped
  BY DEF ShelfInv
<1> QED BY <1>1, ShelfInvHolds, PTL

-----------------------------------------------------------------------------
(* A manifest that is whole was written by `sign', for the image it is of. *)
ManifestSigned ==
  manifest \in Signed => <<manifest.key, manifest.image>> \in signings

(* What DeskTold needs besides itself: a key is in checked only as long as *)
(* the files are the ones that were found good by it.                      *)
DeskInv ==
  /\ DeskTypeOK
  /\ ManifestSigned
  /\ \A key \in checked : Matches(key)
  /\ DeskTold

LEMMA DeskInvKept == DeskInv /\ [DeskNext]_deskVars => DeskInv'
<1> SUFFICES ASSUME DeskInv, [DeskNext]_deskVars PROVE DeskInv'
  OBVIOUS
<1> USE DeskAssumption DEF DeskInv, DeskTypeOK
<1> DEFINE Files == <<image, manifest, anchors, signings, checked, answer>>
           Silent == /\ answer' = "none" /\ checked' = checked
                     /\ signings' = signings
                     /\ manifest' = manifest /\ UNCHANGED image
<1>1. ASSUME DeskTypeOK', Silent PROVE DeskInv'
  BY <1>1 DEF Matches, DeskTold, VerifiedIsTaken, SignedIsTaken, ManifestSigned, image
<1>2. ASSUME DeskTypeOK', UNCHANGED Files PROVE DeskInv'
  BY <1>2 DEF Matches, DeskTold, VerifiedIsTaken, SignedIsTaken, ManifestSigned, image
<1>3. ASSUME DeskTypeOK', checked' = {}, answer' = "none", ManifestSigned' PROVE DeskInv'
  BY <1>3 DEF Matches, DeskTold, VerifiedIsTaken, SignedIsTaken
<1>4. CASE KeygenSecret \/ RemoveKey
  <2>1. DeskTypeOK' /\ Silent
    BY <1>4 DEF KeygenSecret, RemoveKey, image
  <2> QED BY <2>1, <1>1
<1>5. CASE KeygenPublic \/ KeygenStops
  <2>1. DeskTypeOK' /\ UNCHANGED Files
    BY <1>5 DEF KeygenPublic, KeygenStops, image
  <2> QED BY <2>1, <1>2
<1>6. CASE Build
  BY <1>6, <1>3 DEF Build, keyVars, ManifestSigned
<1>7. ASSUME NEW version \in Version, Sign(version) PROVE DeskInv'
  <2>1. SignedNow(version) \in Signed /\ <<secret, built>> \in Pairs \X (1 .. MaxBuilds)
    BY <1>7 DEF Sign, HasSeed, SignedNow, Signed
  <2>2. DeskTypeOK'
    BY <1>7, <2>1 DEF Sign, keyVars, image
  <2>3. ManifestSigned'
    <3>1. CASE manifest' = Blank
      <4>1. Blank \notin Signed
        OBVIOUS
      <4> QED BY <3>1, <4>1 DEF ManifestSigned
    <3>2. CASE manifest' = SignedNow(version) /\ signings' = signings \cup {<<secret, built>>}
      <4>1. SignedNow(version).key = secret /\ SignedNow(version).image = built
        BY DEF SignedNow
      <4> QED BY <3>2, <4>1 DEF ManifestSigned
    <3> QED BY <1>7, <3>1, <3>2 DEF Sign
  <2> QED BY <1>7, <2>2, <2>3, <1>3 DEF Sign
<1>8. ASSUME NEW keys \in SUBSET Pairs, Configure(keys) PROVE DeskInv'
  <2>1. DeskTypeOK' /\ Silent
    BY <1>8 DEF Configure, keyVars, image
  <2> QED BY <2>1, <1>1
<1>9. ASSUME NEW key \in Pairs, Verify(key) PROVE DeskInv'
  <2>1. DeskTypeOK' /\ answer' = "none" /\ ManifestSigned'
    BY <1>9 DEF Verify, Given, keyVars, image, ManifestSigned
  <2>2. \A k \in checked' : Matches(k)'
    BY <1>9 DEF Verify, Matches, image
  <2> QED BY <2>1, <2>2 DEF DeskTold, VerifiedIsTaken, SignedIsTaken
<1>10. ASSUME NEW version \in Version, PostImage(version) PROVE DeskInv'
  <2>1. /\ DeskTypeOK' /\ ManifestSigned'
        /\ UNCHANGED <<built, size, manifest, anchors, checked, signings>>
    BY <1>10 DEF PostImage, keyVars, image, ManifestSigned
  <2>2. manifest \in Signed \cup {NoFile}
    BY <1>10 DEF PostImage, Sent
  <2>3. VerifiedIsTaken'
    <3> SUFFICES ASSUME answer' = "refused", checked \cap anchors # {}, size = "fits"
                 PROVE  manifest.version = "odd"
      BY <2>1 DEF VerifiedIsTaken
    <3>1. PICK key \in checked \cap anchors : Matches(key)
      OBVIOUS
    <3>2. manifest \in Signed /\ manifest # NoFile /\ TakesSigned
      BY <3>1, <2>2 DEF Matches, TakesSigned, Signed
    <3>3. ~Storable(manifest.version)
      BY <1>10, <3>2 DEF PostImage, Accepts, TakesSize
    <3> QED BY <3>2, <3>3 DEF Storable, Signed, Version
  <2>4. SignedIsTaken'
    <3> SUFFICES ASSUME answer' = "taken", manifest # NoFile \/ anchors # {}
                 PROVE  \E key \in Pairs : <<key, built>> \in signings
                                           /\ (anchors # {} => key \in anchors)
      BY <2>1 DEF SignedIsTaken
    <3>1. Accepts(version)
      BY <1>10 DEF PostImage
    <3>2. manifest # NoFile /\ TakesSigned
      BY <3>1 DEF Accepts, TakesUnsigned
    <3>3. manifest \in Signed /\ manifest.image = built /\ manifest.key \in Pairs
          /\ (anchors # {} => manifest.key \in anchors)
      BY <2>2, <3>2 DEF TakesSigned, Matches, Signed
    <3>4. <<manifest.key, built>> \in signings
      BY <3>3 DEF ManifestSigned
    <3> QED BY <3>3, <3>4
  <2> QED BY <2>1, <2>3, <2>4 DEF DeskTold, Matches
<1>11. CASE UNCHANGED deskVars
  <2>1. UNCHANGED Files /\ UNCHANGED keyVars
    BY <1>11 DEF deskVars
  <2>2. DeskTypeOK'
    BY <2>1 DEF keyVars, image
  <2> QED BY <2>1, <2>2, <1>2
<1> QED BY <1>4, <1>5, <1>6, <1>7, <1>8, <1>9, <1>10, <1>11 DEF DeskNext

(* commands/ota.rs and the server's upload_firmware: for every number of   *)
(* key pairs and builds, and whatever is generated, removed, built, signed *)
(* and configured in between, what verify found good is not refused but    *)
(* for its size or version, and what is taken was signed, as it is, with a *)
(* key the server trusts.                                                  *)
THEOREM DeskToldCorrect == DeskSpec => []DeskTold
<1>1. DeskInit => DeskInv
  BY DeskAssumption DEF DeskInit, DeskInv, DeskTypeOK, DeskTold, Size,
     VerifiedIsTaken, SignedIsTaken, ManifestSigned
<1>2. DeskInv => DeskTold
  BY DEF DeskInv
<1> QED BY <1>1, <1>2, DeskInvKept, PTL DEF DeskSpec

-----------------------------------------------------------------------------
(* The runs of MCReleases: one of the parts takes steps, and each step is  *)
(* one of that part's.                                                     *)

LEMMA PartsRun == AllSpec => ReleasesSpec /\ DeskSpec
<1>1. AllInit => ReleasesInit /\ DeskInit
  BY DEF AllInit
<1>2. [AllNext]_allVars => [ReleasesNext]_shelfVars
  BY DEF AllNext, AtDesk, OnShelf, OnDevices, allVars
<1>3. [AllNext]_allVars => [DeskNext]_deskVars
  BY DEF AllNext, AtDesk, OnShelf, OnDevices, allVars
<1> QED BY <1>1, <1>2, <1>3, PTL DEF AllSpec, ReleasesSpec, DeskSpec

(* commands/ota.rs, ota.rs: what is taken was signed as it is, what is     *)
(* listed can be fetched, with what may go wrong where uploads share a     *)
(* file, and the log knows of it, for all values of the constants.         *)
THEOREM ReleasesToldHolds == AllSpec => []ReleasesTold
  BY PartsRun, ShelfToldHolds, DeskToldCorrect, PTL DEF ReleasesTold

-----------------------------------------------------------------------------
(* Campaigns and rollouts. *)

(* A campaign that does not exist has no devices and no life, and one that *)
(* was never activated has touched none of its devices.                    *)
Lifecycle ==
  \A c \in CampaignIds :
    /\ plan[c] \in Plans \cup {None}
    /\ plan[c] = None => status[c] = "created" /\ Members(c) = {}
    /\ status[c] = "created" => \A d \in Members(c) : progress[c][d] = "pending"

(* What a device is offered comes from a campaign or from an operator.     *)
Offered == \A d \in Devices : target[d] \in Offers \cup {None}

CampaignInv == TypeOK /\ Lifecycle /\ Offered

LEMMA PlanFacts ==
  ASSUME NEW p \in Plans
  PROVE  /\ p \in Plan /\ p # None
         /\ p.firmware \in Firmware /\ p.version \in Versions
         /\ p.threshold \in 0 .. 100
         /\ Offer(p) \in Target /\ Offer(p) # None
<1>1. p \in Plan /\ p # None
  BY CampaignsAssumption
<1>2. p.firmware \in Firmware /\ p.version \in Versions
      /\ p.threshold \in 0 .. 100
  BY <1>1 DEF Plan
<1>3. BuildOf[p.firmware] \in Builds
  BY <1>2, CampaignsAssumption
<1>4. Offer(p) \in Target
  BY <1>2, <1>3 DEF Offer, Target
<1> QED BY <1>1, <1>2, <1>4, CampaignsAssumption

LEMMA SelectedAreMembers ==
  ASSUME NEW c \in CampaignIds
  PROVE  Selected(c) \subseteq In(c, "pending") /\ In(c, "pending") \subseteq Members(c)
BY DEF Selected, FirstOf, In

LEMMA MarkedProgress ==
  ASSUME TypeOK, NEW C, NEW d \in Devices, NEW s \in Progress,
         \A c \in C : d \in Members(c), NEW c \in CampaignIds
  PROVE  /\ DOMAIN Marked(C, d, s) = CampaignIds
         /\ DOMAIN (Marked(C, d, s)[c]) = Members(c)
         /\ Marked(C, d, s)[c] \in [Members(c) -> Progress]
         /\ c \notin C => Marked(C, d, s)[c] = progress[c]
         /\ \A e \in Members(c) :
              Marked(C, d, s)[c][e] = IF c \in C /\ e = d THEN s ELSE progress[c][e]
BY DEF Marked, TypeOK, Members

-----------------------------------------------------------------------------
(* Every step keeps the types. *)

LEMMA TypeStep == TypeOK /\ Lifecycle /\ Offered /\ [Next]_vars => TypeOK'
<1> SUFFICES ASSUME TypeOK, Lifecycle, Offered, [Next]_vars PROVE TypeOK'
  OBVIOUS
<1>1. ASSUME NEW c \in CampaignIds, NEW p \in Plans, NEW G \in Groups,
             Create(c, p, G)
      PROVE  TypeOK'
  <2>1. G \subseteq Devices /\ p \in Plan
    BY CampaignsAssumption
  <2>2. [d \in G |-> "pending"] \in [G -> Progress]
    BY DEF Progress
  <2>3. plan' \in [CampaignIds -> Plan \cup {None}]
    BY <1>1, <2>1 DEF Create, TypeOK
  <2>4. ASSUME NEW k \in CampaignIds
        PROVE  /\ DOMAIN progress'[k] \subseteq Devices
               /\ progress'[k] \in [DOMAIN progress'[k] -> Progress]
    BY <1>1, <2>1, <2>2 DEF Create, TypeOK, Members
  <2>5. DOMAIN progress' = CampaignIds
    BY <1>1 DEF Create, TypeOK
  <2> QED BY <1>1, <2>3, <2>4, <2>5 DEF Create, TypeOK, Members, history
<1>2. ASSUME NEW c \in CampaignIds, Activate(c) PROVE TypeOK'
  <2>1. plan[c] \in Plans
    BY <1>2 DEF Activate, Exists, Lifecycle
  <2>2. target' \in [Devices -> Target \cup {None}]
    BY <1>2, <2>1, PlanFacts DEF Activate, TypeOK
  <2>3. ASSUME NEW k \in CampaignIds
        PROVE  /\ DOMAIN progress'[k] \subseteq Devices
               /\ progress'[k] \in [DOMAIN progress'[k] -> Progress]
    <3>1. CASE k = c
      <4>1. progress'[k] = [d \in Members(c) |->
               IF d \in Selected(c) THEN "downloading" ELSE progress[c][d]]
        BY <1>2, <3>1 DEF Activate, TypeOK
      <4> QED BY <4>1 DEF TypeOK, Members, Progress
    <3>2. CASE k # c
      BY <1>2, <3>2 DEF Activate, TypeOK, Members
    <3> QED BY <3>1, <3>2
  <2>4. DOMAIN progress' = CampaignIds
    BY <1>2 DEF Activate, TypeOK
  <2>5. status' \in [CampaignIds -> Status] /\ resumed' \subseteq CampaignIds
    BY <1>2 DEF Activate, TypeOK, Status
  <2> QED BY <1>2, <2>2, <2>3, <2>4, <2>5 DEF Activate, TypeOK, Members
<1>3. ASSUME NEW c \in CampaignIds, Pause(c) PROVE TypeOK'
  BY <1>3 DEF Pause, TypeOK, Status, Members, history
<1>4. ASSUME NEW c \in CampaignIds, Rollback(c) PROVE TypeOK'
  <2>1. target' \in [Devices -> Target \cup {None}]
    BY <1>4 DEF Rollback, Without, TypeOK
  <2> QED BY <1>4, <2>1 DEF Rollback, TypeOK, Status, Members, history
<1>5. ASSUME NEW d \in Devices, NEW t \in DirectTargets, SetTarget(d, t)
      PROVE  TypeOK'
  <2>1. t \in Target
    BY CampaignsAssumption
  <2> QED BY <1>5, <2>1 DEF SetTarget, TypeOK, Members, campaigns, history
<1>6. ASSUME NEW d \in Devices, DeleteTarget(d) PROVE TypeOK'
  BY <1>6 DEF DeleteTarget, TypeOK, Members, campaigns, history
<1>7. ASSUME NEW d \in Devices, NEW b \in Builds, ReportBuild(d, b)
      PROVE  TypeOK'
  <2> DEFINE C == Installing(d)
  <2>1. \A c \in C : d \in Members(c)
    BY DEF Installing, ActiveFor
  <2> HIDE DEF C
  <2>2. "installed" \in Progress /\ "completed" \in Status
    BY DEF Progress, Status
  <2>3. confirmed' \subseteq Devices \X Target
    BY <1>7 DEF ReportBuild, Confirmed, TypeOK
  <2>4. CASE target[d] # None /\ target[d].build = b
    <3>1. progress' = Marked(C, d, "installed")
      BY <1>7, <2>4 DEF ReportBuild, C
    <3>2. status' \in [CampaignIds -> Status]
      BY <1>7, <2>2, <2>4 DEF ReportBuild, TypeOK
    <3>3. ASSUME NEW c \in CampaignIds
          PROVE  /\ DOMAIN progress'[c] = Members(c)
                 /\ progress'[c] \in [Members(c) -> Progress]
      <4> DEFINE P == Marked(C, d, "installed")
      <4>1. /\ DOMAIN P[c] = Members(c)
            /\ P[c] \in [Members(c) -> Progress]
        BY ONLY TypeOK, <2>1, <2>2, MarkedProgress
      <4> QED BY <3>1, <4>1
    <3>4. DOMAIN progress' = CampaignIds
      BY <3>1 DEF Marked
    <3> QED BY <1>7, <2>3, <3>2, <3>3, <3>4 DEF ReportBuild, TypeOK, Members
  <2>5. CASE ~(target[d] # None /\ target[d].build = b)
    BY <1>7, <2>3, <2>5 DEF ReportBuild, TypeOK, Members
  <2> QED BY <2>4, <2>5
<1>8. ASSUME NEW d \in Devices, NEW b \in Builds, ReportRollback(d, b)
      PROVE  TypeOK'
  <2> DEFINE C == {c \in ActiveFor(d) :
                     progress[c][d] \in {"pending", "downloading"}}
  <2>1. \A c \in C : d \in Members(c)
    BY DEF ActiveFor
  <2> HIDE DEF C
  <2>2. "failed" \in Progress /\ "paused" \in Status
    BY DEF Progress, Status
  <2>3. progress' = Marked(C, d, "failed")
    BY <1>8 DEF ReportRollback, C
  <2>4. status' \in [CampaignIds -> Status]
    BY <1>8, <2>2 DEF ReportRollback, TypeOK
  <2>5. target' \in [Devices -> Target \cup {None}]
    BY <1>8 DEF ReportRollback, Without, TypeOK
  <2>6. ASSUME NEW c \in CampaignIds
        PROVE  /\ DOMAIN progress'[c] = Members(c)
               /\ progress'[c] \in [Members(c) -> Progress]
    <3>1. /\ DOMAIN (Marked(C, d, "failed")[c]) = Members(c)
          /\ Marked(C, d, "failed")[c] \in [Members(c) -> Progress]
      BY <2>1, <2>2, MarkedProgress
    <3> QED BY <2>3, <3>1
  <2>7. DOMAIN progress' = CampaignIds
    BY <2>3 DEF Marked
  <2> QED BY <1>8, <2>4, <2>5, <2>6, <2>7 DEF ReportRollback, TypeOK, Members
<1>9. CASE UNCHANGED vars
  BY <1>9 DEF vars, campaigns, history, TypeOK, Members
<1> QED
  BY <1>1, <1>2, <1>3, <1>4, <1>5, <1>6, <1>7, <1>8, <1>9
  DEF Next, Operator, Report

LEMMA LifecycleStep == TypeOK /\ Lifecycle /\ [Next]_vars => Lifecycle'
<1> SUFFICES ASSUME TypeOK, Lifecycle, [Next]_vars, NEW k \in CampaignIds
             PROVE  /\ plan'[k] \in Plans \cup {None}
                    /\ plan'[k] = None =>
                         status'[k] = "created" /\ DOMAIN progress'[k] = {}
                    /\ status'[k] = "created" =>
                         \A d \in DOMAIN progress'[k] : progress'[k][d] = "pending"
  BY DEF Lifecycle, Members
<1>0. /\ plan[k] \in Plans \cup {None}
      /\ plan[k] = None => status[k] = "created" /\ DOMAIN progress[k] = {}
      /\ status[k] = "created" =>
           \A d \in DOMAIN progress[k] : progress[k][d] = "pending"
  BY DEF Lifecycle, Members
<1>1. ASSUME NEW c \in CampaignIds, NEW p \in Plans, NEW G \in Groups,
             Create(c, p, G)
      PROVE  /\ plan'[k] \in Plans \cup {None}
             /\ plan'[k] = None =>
                  status'[k] = "created" /\ DOMAIN progress'[k] = {}
             /\ status'[k] = "created" =>
                  \A d \in DOMAIN progress'[k] : progress'[k][d] = "pending"
  <2>1. p # None
    BY PlanFacts
  <2> QED BY <1>0, <1>1, <2>1 DEF Create, TypeOK
<1>2. ASSUME NEW c \in CampaignIds, Activate(c)
      PROVE  /\ plan' = plan
             /\ k = c => plan[c] # None /\ status'[c] = "active"
             /\ k # c => status'[k] = status[k] /\ progress'[k] = progress[k]
  BY <1>2 DEF Activate, Exists, TypeOK
<1>3. ASSUME NEW c \in CampaignIds, Pause(c) \/ Rollback(c)
      PROVE  /\ plan' = plan
             /\ progress' = progress
             /\ k = c => plan[c] # None /\ status'[c] \in {"paused", "rolled_back"}
             /\ k # c => status'[k] = status[k]
  BY <1>3 DEF Pause, Rollback, Exists, TypeOK
<1>4. ASSUME NEW d \in Devices,
             DeleteTarget(d) \/ \E t \in DirectTargets : SetTarget(d, t)
      PROVE  UNCHANGED campaigns
  BY <1>4 DEF DeleteTarget, SetTarget
<1>5. ASSUME NEW d \in Devices, NEW b \in Builds,
             ReportBuild(d, b) \/ ReportRollback(d, b)
      PROVE  /\ plan' = plan
             /\ status[k] # "active" =>
                  status'[k] = status[k] /\ progress'[k] = progress[k]
             /\ status[k] = "active" => status'[k] # "created"
  <2>1. ActiveFor(d) \subseteq {c \in CampaignIds : status[c] = "active"}
    BY DEF ActiveFor
  <2>2. CASE ReportBuild(d, b)
    BY <2>1, <2>2 DEF ReportBuild, Installing, Marked
  <2>3. CASE ReportRollback(d, b)
    BY <2>1, <2>3 DEF ReportRollback, Marked
  <2> QED BY <1>5, <2>2, <2>3
<1>6. CASE UNCHANGED vars
  BY <1>0, <1>6 DEF vars, campaigns
<1> QED
  BY <1>0, <1>1, <1>2, <1>3, <1>4, <1>5, <1>6
  DEF Next, Operator, Report, campaigns

(* No campaign changes what it offers. *)
LEMMA OffersGrow == TypeOK /\ [Next]_vars => Offers \subseteq Offers'
<1> SUFFICES ASSUME TypeOK, [Next]_vars PROVE Offers \subseteq Offers'
  OBVIOUS
<1>1. ASSUME NEW e \in CampaignIds, Exists(e) PROVE plan'[e] = plan[e]
  <2>1. ASSUME NEW c \in CampaignIds, NEW p \in Plans, NEW G \in Groups, Create(c, p, G)
        PROVE  plan'[e] = plan[e]
    BY <1>1, <2>1 DEF Create, TypeOK, Exists
  <2>2. CASE plan' = plan
    BY <2>2
  <2> QED
    BY <2>1, <2>2 DEF Next, Operator, Report, Activate, Pause, Rollback, SetTarget,
      DeleteTarget, ReportBuild, ReportRollback, campaigns, vars
<1>2. \A e \in CampaignIds : Exists(e) => Offer(plan'[e]) = Offer(plan[e]) /\ Exists(e)'
  BY <1>1 DEF Exists, Offer
<1> QED BY <1>2 DEF Offers

LEMMA OfferedStep == TypeOK /\ Lifecycle /\ Offered /\ [Next]_vars => Offered'
<1> SUFFICES ASSUME TypeOK, Lifecycle, Offered, [Next]_vars, NEW e \in Devices
             PROVE  target'[e] \in Offers \cup {None}
  BY OffersGrow DEF Offered
<1>0. target[e] \in Offers \cup {None}
  BY DEF Offered
<1>1. ASSUME NEW c \in CampaignIds, Activate(c)
      PROVE  target'[e] \in Offers \cup {None}
  <2>1. Offer(plan[c]) \in Offers
    BY <1>1 DEF Activate, Offers
  <2> QED BY <1>0, <1>1, <2>1 DEF Activate
<1>2. ASSUME NEW d \in Devices, NEW t \in DirectTargets, SetTarget(d, t)
      PROVE  target'[e] \in Offers \cup {None}
  BY <1>0, <1>2 DEF SetTarget, Offers, TypeOK
<1>3. ASSUME NEW S, target' = Without(target, S)
      PROVE  target'[e] \in Offers \cup {None}
  BY <1>0, <1>3 DEF Without
<1>4. ASSUME NEW d \in Devices, DeleteTarget(d)
      PROVE  target'[e] \in Offers \cup {None}
  BY <1>0, <1>4 DEF DeleteTarget, TypeOK
<1>5. ASSUME NEW d \in Devices, NEW b \in Builds,
             ReportBuild(d, b) \/ ReportRollback(d, b)
      PROVE  target'[e] \in Offers \cup {None}
  BY <1>0, <1>3, <1>5 DEF ReportBuild, ReportRollback
<1>6. ASSUME NEW c \in CampaignIds,
             Pause(c) \/ Rollback(c)
                \/ \E p \in Plans, G \in Groups : Create(c, p, G)
      PROVE  target'[e] \in Offers \cup {None}
  BY <1>0, <1>3, <1>6 DEF Pause, Rollback, Create
<1>7. CASE UNCHANGED vars
  BY <1>0, <1>7 DEF vars
<1> QED
  BY <1>1, <1>2, <1>4, <1>5, <1>6, <1>7 DEF Next, Operator, Report

LEMMA CampaignInvInit == Init => CampaignInv
<1> SUFFICES ASSUME Init PROVE CampaignInv
  OBVIOUS
<1>1. TypeOK
  BY DEF Init, TypeOK, Members, NoDevices, Status, Progress
<1>2. Lifecycle /\ Offered
  BY DEF Init, Lifecycle, Offered, Members, NoDevices
<1> QED BY <1>1, <1>2 DEF CampaignInv

LEMMA CampaignInvStep == CampaignInv /\ [Next]_vars => CampaignInv'
  BY TypeStep, LifecycleStep, OfferedStep DEF CampaignInv

LEMMA CampaignInvAlways == Spec => []CampaignInv
  BY CampaignInvInit, CampaignInvStep, PTL DEF Spec

(* Every campaign, target and report has its type, for any number of       *)
(* devices, campaigns, plans and artifacts.                                *)
THEOREM TypeCorrect == Spec => []TypeOK
<1>1. CampaignInv => TypeOK
  BY DEF CampaignInv
<1> QED BY <1>1, CampaignInvAlways, PTL

-----------------------------------------------------------------------------
(* A campaign that is over. *)

(* No operator and no late report changes a campaign that completed or was *)
(* rolled back, nor the progress of its devices: every handler that writes *)
(* them asks for another status first (campaigns.rs, store.rs).            *)
THEOREM OverIsOverCorrect == Spec => OverIsOver
<1>1. CampaignInv /\ [Next]_vars => [OverRests]_vars
  <2> SUFFICES ASSUME CampaignInv, Next, NEW k \in CampaignIds, Over(k)
               PROVE  status'[k] = status[k] /\ progress'[k] = progress[k]
    BY DEF OverRests, Rest
  <2>0. TypeOK /\ Lifecycle /\ plan[k] # None
    BY DEF CampaignInv, Lifecycle, Over
  <2>1. ASSUME NEW c \in CampaignIds, NEW p \in Plans, NEW G \in Groups,
               Create(c, p, G)
        PROVE  status'[k] = status[k] /\ progress'[k] = progress[k]
    BY <2>0, <2>1 DEF Create, Exists, TypeOK
  <2>2. ASSUME NEW c \in CampaignIds, Activate(c) \/ Pause(c) \/ Rollback(c)
        PROVE  status'[k] = status[k] /\ progress'[k] = progress[k]
    BY <2>0, <2>2 DEF Activate, Startable, Pause, Rollback, Over, TypeOK
  <2>3. ASSUME NEW d \in Devices,
               DeleteTarget(d) \/ \E t \in DirectTargets : SetTarget(d, t)
        PROVE  status'[k] = status[k] /\ progress'[k] = progress[k]
    BY <2>3 DEF DeleteTarget, SetTarget, campaigns
  <2>4. ASSUME NEW d \in Devices, NEW b \in Builds,
               ReportBuild(d, b) \/ ReportRollback(d, b)
        PROVE  status'[k] = status[k] /\ progress'[k] = progress[k]
    <3>1. k \notin ActiveFor(d)
      BY DEF ActiveFor, Over
    <3>2. CASE ReportBuild(d, b)
      BY <3>1, <3>2 DEF ReportBuild, Installing, Marked
    <3>3. CASE ReportRollback(d, b)
      BY <3>1, <3>3 DEF ReportRollback, Marked
    <3> QED BY <2>4, <3>2, <3>3
  <2> QED BY <2>1, <2>2, <2>3, <2>4 DEF Next, Operator, Report
<1> QED BY <1>1, CampaignInvAlways, PTL DEF Spec, OverIsOver

-----------------------------------------------------------------------------
(* What completes a campaign. *)

(* A campaign is completed by the report after which none of its devices   *)
(* is pending or downloading, and none becomes so later.                   *)
THEOREM CompletedIsDoneCorrect == Spec => []CompletedIsDone
<1>1. Init => CompletedIsDone
  BY DEF Init, CompletedIsDone
<1>2. CampaignInv /\ CompletedIsDone /\ [Next]_vars /\ [OverRests]_vars
        => CompletedIsDone'
  <2> SUFFICES ASSUME CampaignInv, CompletedIsDone, [Next]_vars, [OverRests]_vars,
                      NEW k \in CampaignIds, status'[k] = "completed",
                      NEW e \in DOMAIN progress'[k]
               PROVE  progress'[k][e] \notin {"pending", "downloading"}
    BY DEF CompletedIsDone, In, Members
  <2>0. TypeOK /\ Lifecycle
    BY DEF CampaignInv
  <2>1. CASE status[k] = "completed"
    <3>1. progress'[k] = progress[k]
      BY <2>1 DEF OverRests, Rest, Over, vars, campaigns
    <3> QED BY <2>1, <3>1 DEF CompletedIsDone, In, Members
  <2>2. CASE status[k] # "completed"
    <3>1. ASSUME NEW d \in Devices, NEW b \in Builds, ReportBuild(d, b)
          PROVE  progress'[k][e] \notin {"pending", "downloading"}
      BY <2>2, <3>1 DEF ReportBuild, Completes
    <3>2. \E d \in Devices, b \in Builds : ReportBuild(d, b)
      <4>1. ~ UNCHANGED status
        BY <2>2
      <4>2. ASSUME NEW c \in CampaignIds, Activate(c) \/ Pause(c) \/ Rollback(c)
            PROVE  FALSE
        BY <2>0, <2>2, <4>2 DEF Activate, Pause, Rollback, TypeOK
      <4>3. ASSUME NEW d \in Devices, NEW b \in Builds, ReportRollback(d, b)
            PROVE  FALSE
        BY <2>2, <4>3 DEF ReportRollback
      <4> QED BY <4>1, <4>2, <4>3
              DEF Next, Operator, Report, Create, SetTarget, DeleteTarget,
                  campaigns, vars
    <3> QED BY <3>1, <3>2
  <2> QED BY <2>1, <2>2
<1> QED
  BY <1>1, <1>2, CampaignInvAlways, OverIsOverCorrect, PTL DEF Spec, OverIsOver

-----------------------------------------------------------------------------
(* The failure threshold. *)

LEMMA MembersFinite ==
  ASSUME TypeOK, NEW c \in CampaignIds, NEW s
  PROVE  /\ IsFiniteSet(In(c, s))
         /\ Cardinality(In(c, s)) \in Nat
         /\ Cardinality(Members(c)) \in Nat
<1>1. Members(c) \subseteq Devices /\ In(c, s) \subseteq Devices
  BY DEF TypeOK, In
<1> QED BY <1>1, FS_Subset, FS_CardinalityType, CampaignsAssumption

Within(c) ==
  Cardinality(In(c, "failed")) * 100 <= plan[c].threshold * Cardinality(Members(c))

(* An active campaign no operator resumed is within its failure threshold: *)
(* a first activation starts from devices that are all pending, a build    *)
(* report only turns failures into installations, and the rollback report  *)
(* that exceeds the threshold pauses the campaign (store.rs).              *)
THEOREM ActiveWithinThresholdCorrect == Spec => []ActiveWithinThreshold
<1>1. Init => ActiveWithinThreshold
  BY DEF Init, ActiveWithinThreshold
<1>2. CampaignInv /\ CampaignInv' /\ ActiveWithinThreshold /\ [Next]_vars
        => ActiveWithinThreshold'
  <2> SUFFICES ASSUME CampaignInv, CampaignInv', ActiveWithinThreshold, [Next]_vars,
                      NEW k \in CampaignIds,
                      status'[k] = "active", k \notin resumed'
               PROVE  Within(k)'
    BY DEF ActiveWithinThreshold, Within
  <2>0. TypeOK /\ Lifecycle /\ TypeOK' /\ Lifecycle'
    BY DEF CampaignInv
  <2>1. status[k] = "active" /\ k \notin resumed => Within(k)
    BY DEF ActiveWithinThreshold, Within
  <2>2. ASSUME plan'[k] = plan[k], progress'[k] = progress[k], Within(k)
        PROVE  Within(k)'
    BY <2>2 DEF Within, In, Members
  <2>3. ASSUME NEW c \in CampaignIds, NEW p \in Plans, NEW G \in Groups,
               Create(c, p, G)
        PROVE  Within(k)'
    <3>1. c # k
      BY <2>0, <2>3 DEF Create, Exists, Lifecycle, TypeOK
    <3> QED BY <2>0, <2>1, <2>2, <2>3, <3>1 DEF Create, TypeOK, history
  <2>4. ASSUME NEW c \in CampaignIds, Activate(c)
        PROVE  Within(k)'
    <3>1. CASE c # k
      BY <2>0, <2>1, <2>2, <2>4, <3>1 DEF Activate, TypeOK
    <3>2. CASE c = k
      <4>1. status[k] = "created"
        BY <2>4, <3>2 DEF Activate, Startable
      <4>2. In(k, "failed")' = {}
        BY <2>0, <2>4, <3>2, <4>1 DEF Activate, Lifecycle, In, Members, TypeOK
      <4>3. Cardinality(In(k, "failed")') = 0
        BY <4>2, FS_EmptySet
      <4>4. plan'[k].threshold \in Nat
        BY <2>0, <2>4, <3>2, PlanFacts DEF Activate, Exists, Lifecycle
      <4>5. Cardinality(Members(k)') \in Nat
        BY <2>0, MembersFinite, FS_Subset, FS_CardinalityType, CampaignsAssumption
           DEF TypeOK
      <4>6. plan'[k].threshold * Cardinality(Members(k)') >= 0
        BY <4>4, <4>5
      <4> QED BY <4>3, <4>6 DEF Within
    <3> QED BY <3>1, <3>2
  <2>5. ASSUME NEW c \in CampaignIds, Pause(c) \/ Rollback(c)
        PROVE  Within(k)'
    <3>1. c # k
      BY <2>0, <2>5 DEF Pause, Rollback, TypeOK
    <3> QED BY <2>0, <2>1, <2>2, <2>5, <3>1 DEF Pause, Rollback, TypeOK, history
  <2>6. ASSUME NEW d \in Devices, NEW b \in Builds, ReportBuild(d, b)
        PROVE  Within(k)'
    <3>1. Within(k) /\ plan'[k] = plan[k]
      BY <2>1, <2>6 DEF ReportBuild, ActiveFor
    <3>2. CASE progress'[k] = progress[k]
      BY <2>2, <3>1, <3>2
    <3>3. CASE progress'[k] = [progress[k] EXCEPT ![d] = "installed"]
      <4>1. In(k, "failed")' \subseteq In(k, "failed") /\ Members(k)' = Members(k)
        BY <3>3 DEF In, Members
      <4>2. Cardinality(In(k, "failed")') <= Cardinality(In(k, "failed"))
        BY <2>0, <4>1, MembersFinite, FS_Subset
      <4>3. /\ Cardinality(In(k, "failed")') \in Nat
            /\ Cardinality(In(k, "failed")) \in Nat
            /\ Cardinality(Members(k)) \in Nat
        BY <2>0, <4>1, MembersFinite, FS_Subset, FS_CardinalityType
      <4>4. plan[k].threshold \in Nat
        BY <2>0, <3>1, PlanFacts, <2>6 DEF ReportBuild, Lifecycle
      <4>5. plan[k].threshold * Cardinality(Members(k)) \in Nat
        BY <4>3, <4>4
      <4> QED BY <3>1, <4>1, <4>2, <4>3, <4>5 DEF Within
    <3> QED BY <2>6, <3>2, <3>3 DEF ReportBuild, Marked
  <2>7. ASSUME NEW d \in Devices, NEW b \in Builds, ReportRollback(d, b)
        PROVE  Within(k)'
    <3> DEFINE C == {c \in ActiveFor(d) :
                       progress[c][d] \in {"pending", "downloading"}}
    <3>1. plan' = plan /\ resumed' = resumed /\ progress' = Marked(C, d, "failed")
      BY <2>7 DEF ReportRollback
    <3>2. k \in C => ~TooMany(plan[k], Marked(C, d, "failed")[k])
      BY <2>7 DEF ReportRollback
    <3>3. k \notin C => status[k] = "active"
      BY <2>7 DEF ReportRollback
    <3> HIDE DEF C
    <3>4. CASE k \notin C
      BY <2>1, <2>2, <3>1, <3>3, <3>4 DEF Marked
    <3>5. CASE k \in C
      <4>1. ~TooMany(plan'[k], progress'[k])
        BY <3>1, <3>2, <3>5
      <4>2. Failed(progress'[k]) = In(k, "failed")'
        BY DEF Failed, In, Members
      <4>3. /\ Cardinality(In(k, "failed")') \in Nat
            /\ Cardinality(Members(k)') \in Nat
        <5>1. In(k, "failed")' \subseteq Devices /\ Members(k)' \subseteq Devices
          BY <2>0 DEF TypeOK, In
        <5> QED BY <5>1, FS_Subset, FS_CardinalityType, CampaignsAssumption
      <4>4. plan'[k].threshold \in Nat
        <5>1. plan[k] # None
          BY <2>0, <3>1 DEF Lifecycle
        <5> QED BY <2>0, <3>1, <5>1, PlanFacts DEF Lifecycle
      <4>5. plan'[k].threshold * Cardinality(Members(k)') \in Nat
        BY <4>3, <4>4
      <4> QED BY <4>1, <4>2, <4>3, <4>5 DEF Within, TooMany, Members
    <3> QED BY <3>4, <3>5
  <2>8. ASSUME NEW d \in Devices,
               DeleteTarget(d) \/ \E t \in DirectTargets : SetTarget(d, t)
        PROVE  Within(k)'
    BY <2>1, <2>2, <2>8 DEF DeleteTarget, SetTarget, campaigns, history
  <2>9. CASE UNCHANGED vars
    BY <2>1, <2>2, <2>9 DEF vars, campaigns, history
  <2> QED
    BY <2>3, <2>4, <2>5, <2>6, <2>7, <2>8, <2>9 DEF Next, Operator, Report
<1> QED BY <1>1, <1>2, CampaignInvAlways, PTL DEF Spec

-----------------------------------------------------------------------------
(* What a campaign's progress stands for. *)

Backed(c) ==
  /\ \A d \in In(c, "installed") :
       \E t \in OfferedFor(c) : <<d, t>> \in confirmed
  /\ In(c, "failed") \subseteq rolled

(* A device marked installed has confirmed, as its own target, a build     *)
(* that was offered under the campaign's version, and one marked failed    *)
(* has reported a rollback, whatever the other campaigns and targets did.  *)
THEOREM ProgressReportedCorrect == Spec => []ProgressReported
<1>1. Init => ProgressReported
  BY DEF Init, ProgressReported, In, Members, NoDevices
<1>2. CampaignInv /\ ProgressReported /\ [Next]_vars => ProgressReported'
  <2> SUFFICES ASSUME CampaignInv, ProgressReported, [Next]_vars,
                      NEW k \in CampaignIds
               PROVE  Backed(k)'
    BY DEF ProgressReported, Backed
  <2>0. TypeOK /\ Lifecycle /\ Offered
    BY DEF CampaignInv
  <2>1. Backed(k)
    BY DEF ProgressReported, Backed
  <2>10. Offers \subseteq Offers'
    BY <2>0, OffersGrow
  <2>11. ASSUME plan'[k] = plan[k] PROVE OfferedFor(k) \subseteq OfferedFor(k)'
    BY <2>10, <2>11 DEF OfferedFor
  <2>2. ASSUME plan'[k] = plan[k], progress'[k] = progress[k],
               confirmed \subseteq confirmed', rolled \subseteq rolled'
        PROVE  Backed(k)'
    BY <2>1, <2>2, <2>11 DEF Backed, In, Members
  <2>3. ASSUME NEW c \in CampaignIds, NEW p \in Plans, NEW G \in Groups,
               Create(c, p, G)
        PROVE  Backed(k)'
    <3>1. CASE c # k
      BY <2>0, <2>2, <2>3, <3>1 DEF Create, TypeOK, history
    <3>2. CASE c = k
      BY <2>0, <2>3, <3>2 DEF Create, TypeOK, Backed, In, Members
    <3> QED BY <3>1, <3>2
  <2>4. ASSUME NEW c \in CampaignIds, Activate(c)
        PROVE  Backed(k)'
    <3>1. CASE c # k
      BY <2>0, <2>2, <2>4, <3>1 DEF Activate, TypeOK
    <3>2. CASE c = k
      <4>1. /\ In(k, "installed")' \subseteq In(k, "installed")
            /\ In(k, "failed")' \subseteq In(k, "failed")
        BY <2>0, <2>4, <3>2 DEF Activate, In, Members, TypeOK
      <4>2. plan' = plan /\ confirmed' = confirmed /\ rolled' = rolled
        BY <2>4 DEF Activate
      <4> QED BY <2>1, <2>11, <4>1, <4>2 DEF Backed
    <3> QED BY <3>1, <3>2
  <2>5. ASSUME NEW c \in CampaignIds, Pause(c) \/ Rollback(c)
        PROVE  Backed(k)'
    BY <2>2, <2>5 DEF Pause, Rollback, history
  <2>6. ASSUME NEW d \in Devices, NEW b \in Builds, ReportBuild(d, b)
        PROVE  Backed(k)'
    <3>1. plan' = plan /\ rolled' = rolled /\ confirmed \subseteq confirmed'
      BY <2>6 DEF ReportBuild, Confirmed
    <3>2. CASE progress'[k] = progress[k]
      BY <2>2, <3>1, <3>2
    <3>3. CASE /\ k \in Installing(d)
               /\ target[d] # None /\ target[d].build = b
               /\ progress'[k] = [progress[k] EXCEPT ![d] = "installed"]
      <4>1. target[d] \in OfferedFor(k)
        BY <2>0, <3>3 DEF Installing, Offered, OfferedFor
      <4>2. target[d] \in OfferedFor(k)'
        BY <2>11, <3>1, <4>1
      <4>3. <<d, target[d]>> \in confirmed'
        BY <2>6, <3>3 DEF ReportBuild, Confirmed
      <4>4. /\ In(k, "installed")' \subseteq In(k, "installed") \cup {d}
            /\ In(k, "failed")' \subseteq In(k, "failed")
        BY <3>3 DEF In, Members
      <4> QED BY <2>1, <2>11, <3>1, <4>2, <4>3, <4>4 DEF Backed
    <3> QED BY <2>6, <3>2, <3>3 DEF ReportBuild, Marked
  <2>7. ASSUME NEW d \in Devices, NEW b \in Builds, ReportRollback(d, b)
        PROVE  Backed(k)'
    <3>1. plan' = plan /\ confirmed' = confirmed /\ rolled' = rolled \cup {d}
      BY <2>7 DEF ReportRollback
    <3>2. CASE progress'[k] = progress[k]
      BY <2>2, <3>1, <3>2
    <3>3. CASE progress'[k] = [progress[k] EXCEPT ![d] = "failed"]
      <4>1. /\ In(k, "installed")' \subseteq In(k, "installed")
            /\ In(k, "failed")' \subseteq In(k, "failed") \cup {d}
        BY <3>3 DEF In, Members
      <4> QED BY <2>1, <2>11, <3>1, <4>1 DEF Backed
    <3> QED BY <2>7, <3>2, <3>3 DEF ReportRollback, Marked
  <2>8. ASSUME NEW d \in Devices,
               DeleteTarget(d) \/ \E t \in DirectTargets : SetTarget(d, t)
        PROVE  Backed(k)'
    BY <2>2, <2>8 DEF DeleteTarget, SetTarget, campaigns, history
  <2>9. CASE UNCHANGED vars
    BY <2>2, <2>9 DEF vars, campaigns, history
  <2> QED
    BY <2>3, <2>4, <2>5, <2>6, <2>7, <2>8, <2>9 DEF Next, Operator, Report
<1> QED BY <1>1, <1>2, CampaignInvAlways, PTL DEF Spec

-----------------------------------------------------------------------------
(* Why a device has no target any more. *)

(* A target goes only by an operator, by its device's own rollback or with *)
(* a campaign of the device that is halted in the same step (store.rs).    *)
THEOREM WithdrawnForCauseCorrect == Spec => WithdrawnForCause
<1>1. CampaignInv /\ [Next]_vars => [AllCaused]_vars
  <2> SUFFICES ASSUME CampaignInv, Next, NEW d \in Devices, Withdrawn(d)
               PROVE  Caused(d)
    BY DEF AllCaused
  <2>0. TypeOK /\ Lifecycle /\ target[d] # None /\ target'[d] = None
    BY DEF CampaignInv, Withdrawn
  <2>1. ASSUME NEW c \in CampaignIds, Activate(c) PROVE Caused(d)
    <3>1. Offer(plan[c]) # None
      BY <2>0, <2>1, PlanFacts DEF Activate, Exists, Lifecycle
    <3> QED BY <2>0, <2>1, <3>1 DEF Activate
  <2>2. ASSUME NEW c \in CampaignIds, Rollback(c) PROVE Caused(d)
    <3>1. d \in Members(c)
      BY <2>0, <2>2 DEF Rollback, Without
    <3>2. Halted(c)
      BY <2>0, <2>2 DEF Rollback, Halted, TypeOK
    <3> QED BY <3>1, <3>2 DEF Caused
  <2>3. ASSUME NEW e \in Devices, NEW t \in DirectTargets, SetTarget(e, t)
        PROVE  Caused(d)
    <3>1. t # None
      BY CampaignsAssumption
    <3> QED BY <2>0, <2>3, <3>1 DEF SetTarget, TypeOK
  <2>4. ASSUME NEW e \in Devices, DeleteTarget(e) PROVE Caused(d)
    <3>1. e = d
      BY <2>0, <2>4 DEF DeleteTarget, TypeOK
    <3> QED BY <2>4, <3>1 DEF Caused
  <2>5. ASSUME NEW e \in Devices, NEW b \in Builds, ReportRollback(e, b)
        PROVE  Caused(d)
    <3> DEFINE C == {c \in ActiveFor(e) :
                       progress[c][e] \in {"pending", "downloading"}}
               halted == {c \in C : TooMany(plan[c], Marked(C, e, "failed")[c])}
               gone == UNION {Members(c) : c \in halted}
               own == IF target[e] # None /\ target[e].build # b THEN {e} ELSE {}
    <3>1. /\ target' = Without(target, gone \cup own)
          /\ status' = [c \in CampaignIds |->
                          IF c \in halted THEN "paused" ELSE status[c]]
      BY <2>5 DEF ReportRollback
    <3>2. \A c \in halted : c \in CampaignIds /\ status[c] = "active"
      BY DEF ActiveFor
    <3> HIDE DEF halted, gone, own
    <3>3. d \in gone \/ d \in own
      BY <2>0, <3>1 DEF Without
    <3>4. CASE d \in own
      BY <2>5, <3>4 DEF Caused, own
    <3>5. CASE d \in gone
      <4>1. PICK c \in halted : d \in Members(c)
        BY <3>5 DEF gone
      <4>2. Halted(c)
        BY <3>1, <3>2, <4>1 DEF Halted
      <4> QED BY <3>2, <4>1, <4>2 DEF Caused
    <3> QED BY <3>3, <3>4, <3>5
  <2>6. ASSUME UNCHANGED target PROVE Caused(d)
    BY <2>0, <2>6
  <2> QED
    BY <2>1, <2>2, <2>3, <2>4, <2>5, <2>6
    DEF Next, Operator, Report, Create, Pause, ReportBuild
<1> QED BY <1>1, CampaignInvAlways, PTL DEF Spec, WithdrawnForCause

-----------------------------------------------------------------------------
(* The devices (OtaRollout).  Every step of a rollout is a step of the     *)
(* campaigns or leaves them alone.                                         *)

DevicesTyped ==
  /\ running \in [Devices -> Builds]
  /\ previous \in [Devices -> Builds]
  /\ boot \in [Devices -> {"boot", "swap", "revert"}]
  /\ fetching \in [Devices -> Builds \cup {None}]
  /\ path \in Paths
  /\ held \subseteq Message
  /\ resets \in 0 .. MaxResets
  /\ tried \in [Devices -> SUBSET Builds]

(* A device that posts to the server itself: while it fetches a build or   *)
(* has one on trial it has rolled nothing back since its last offer, and   *)
(* after a rollback that was reported it is offered nothing else.          *)
DirectHonest(d) ==
  path[d] = "direct" =>
    /\ fetching[d] # None \/ boot[d] = "swap" => tried[d] = {}
    /\ boot[d] = "boot" /\ tried[d] # {} =>
         target[d] = None \/ target[d].build = running[d]

RolloutInv ==
  /\ CampaignInv /\ DevicesTyped
  /\ \A d \in Devices : DirectHonest(d)

LEMMA ProcessIsReport ==
  ASSUME NEW m \in Message, Process(m)
  PROVE  Next
<1>1. m.device \in Devices /\ m.build \in Builds
  BY DEF Message
<1> QED BY <1>1 DEF Process, Next, Report

LEMMA RequestIsMessage ==
  ASSUME DevicesTyped, NEW d \in Devices
  PROVE  Request(d) \in Message
  BY DEF DevicesTyped, Request, Message

LEMMA RolloutStepMaps ==
  ASSUME DevicesTyped, [RolloutNext]_rolloutVars
  PROVE  [Next]_vars
<1>1. CASE Operate
  BY <1>1 DEF Operate, Next, Operator
<1>2. ASSUME NEW d \in Devices, Device(d) PROVE [Next]_vars
  <2>1. CASE Post(d)
    BY <2>1, RequestIsMessage, ProcessIsReport DEF Post
  <2>2. CASE UNCHANGED vars
    BY <2>2
  <2> QED BY <1>2, <2>1, <2>2
          DEF Device, Upload, UploadUnanswered, Check, Swap, DownloadFails,
              Reset, Watchdog, Restart
<1>3. ASSUME NEW m \in held, Forward(m) \/ Lose(m) PROVE [Next]_vars
  BY <1>3, ProcessIsReport DEF Forward, Lose, DevicesTyped
<1>4. CASE UNCHANGED rolloutVars
  BY <1>4 DEF rolloutVars
<1> QED BY <1>1, <1>2, <1>3, <1>4 DEF RolloutNext

LEMMA DevicesTypedStep ==
  ASSUME CampaignInv, DevicesTyped, [RolloutNext]_rolloutVars
  PROVE  DevicesTyped'
<1> USE DEF DevicesTyped
<1>1. CASE Operate
  BY <1>1 DEF Operate, device
<1>2. ASSUME NEW d \in Devices, Upload(d) \/ UploadUnanswered(d) PROVE DevicesTyped'
  <2>1. held' \subseteq Message
    BY <1>2, RequestIsMessage DEF Upload, UploadUnanswered, Post
  <2> QED BY <1>2, <2>1 DEF Upload, UploadUnanswered, device
<1>3. ASSUME NEW d \in Devices, Check(d) PROVE DevicesTyped'
  <2>1. target[d].build \in Builds
    BY <1>3 DEF Check, CampaignInv, TypeOK, Target
  <2> QED BY <1>3, <2>1 DEF Check
<1>4. ASSUME NEW d \in Devices, Swap(d) PROVE DevicesTyped'
  BY <1>4 DEF Swap
<1>5. ASSUME NEW d \in Devices, DownloadFails(d) PROVE DevicesTyped'
  BY <1>5 DEF DownloadFails
<1>6. ASSUME NEW d \in Devices, Reset(d) \/ Watchdog(d) PROVE DevicesTyped'
  <2>1. resets' \in 0 .. MaxResets
    BY <1>6, OtaRolloutAssumption DEF Reset, Watchdog
  <2>2. Restart(d)
    BY <1>6 DEF Reset, Watchdog
  <2> QED BY <2>1, <2>2 DEF Restart
<1>7. ASSUME NEW m \in held, Forward(m) \/ Lose(m) PROVE DevicesTyped'
  BY <1>7 DEF Forward, Lose, device
<1>8. CASE UNCHANGED rolloutVars
  BY <1>8 DEF rolloutVars, device
<1> QED BY <1>1, <1>2, <1>3, <1>4, <1>5, <1>6, <1>7, <1>8 DEF RolloutNext, Device

(* A report only ever withdraws an offer.                                  *)
LEMMA ReportWithdraws ==
  ASSUME CampaignInv, NEW m, Process(m), NEW d \in Devices
  PROVE  target'[d] \in {target[d], None}
  BY DEF Process, ReportBuild, ReportRollback, Without

(* The server withdraws what the device rolled back.                       *)
LEMMA RollbackWithdraws ==
  ASSUME CampaignInv, NEW d \in Devices, NEW b, ReportRollback(d, b)
  PROVE  target'[d] = None \/ target'[d].build = b
<1>1. \/ target'[d] = None
      \/ target'[d] = target[d] /\ (target[d] # None => target[d].build = b)
  BY DEF ReportRollback, Without, CampaignInv, TypeOK
<1> QED BY <1>1

LEMMA HonestStep ==
  ASSUME RolloutInv, [RolloutNext]_rolloutVars, NEW d \in Devices
  PROVE  DirectHonest(d)'
<1> USE DEF DirectHonest
<1>1. DirectHonest(d) /\ DevicesTyped /\ CampaignInv
  BY DEF RolloutInv
<1>2. ASSUME UNCHANGED <<running, boot, fetching, path, tried>>,
             target'[d] \in {target[d], None}
      PROVE  DirectHonest(d)'
  BY <1>1, <1>2
<1>3. CASE Operate
  BY <1>1, <1>3 DEF Operate, device
<1>4. ASSUME NEW e \in Devices, Post(e) PROVE target'[d] \in {target[d], None}
  BY <1>1, <1>4, ReportWithdraws DEF Post, vars
<1>5. ASSUME NEW e \in Devices, Upload(e) PROVE DirectHonest(d)'
  <2>1. target'[d] \in {target[d], None}
    BY <1>4, <1>5 DEF Upload
  <2>2. UNCHANGED <<running, fetching, path, tried>>
        /\ boot' = [boot EXCEPT ![e] = "boot"]
        /\ fetching[e] = None
    BY <1>5 DEF Upload, Running
  <2>3. CASE e # d
    BY <1>1, <1>2, <2>1, <2>2, <2>3 DEF DevicesTyped
  <2>4. CASE e = d /\ boot[d] # "revert"
    BY <1>1, <2>1, <2>2, <2>4 DEF DevicesTyped
  <2>5. CASE e = d /\ boot[d] = "revert"
    <3>1. path[d] = "direct" => ReportRollback(d, running[d])
      BY <1>5, <2>5 DEF Upload, Post, Process, Request
    <3>2. path[d] = "direct" => target'[d] = None \/ target'[d].build = running[d]
      BY <1>1, <3>1, RollbackWithdraws
    <3> QED BY <1>1, <2>2, <2>5, <3>2 DEF DevicesTyped
  <2> QED BY <1>1, <2>3, <2>4, <2>5 DEF DevicesTyped
<1>6. ASSUME NEW e \in Devices, UploadUnanswered(e) PROVE DirectHonest(d)'
  BY <1>2, <1>4, <1>6 DEF UploadUnanswered, device
<1>7. ASSUME NEW e \in Devices, Check(e) PROVE DirectHonest(d)'
  BY <1>1, <1>7 DEF Check, DevicesTyped, vars
<1>8. ASSUME NEW e \in Devices, Swap(e) PROVE DirectHonest(d)'
  BY <1>1, <1>8 DEF Swap, DevicesTyped, vars
<1>9. ASSUME NEW e \in Devices, DownloadFails(e) PROVE DirectHonest(d)'
  BY <1>1, <1>9 DEF DownloadFails, DevicesTyped, vars
<1>10. ASSUME NEW e \in Devices, Restart(e) PROVE DirectHonest(d)'
  BY <1>1, <1>10 DEF Restart, DevicesTyped, vars
<1>11. ASSUME NEW m \in held, Forward(m) \/ Lose(m) PROVE DirectHonest(d)'
  <2>1. target'[d] \in {target[d], None}
    BY <1>1, <1>11, ReportWithdraws DEF Forward, Lose, vars
  <2> QED BY <1>2, <1>11, <2>1 DEF Forward, Lose, device
<1>12. CASE UNCHANGED rolloutVars
  BY <1>2, <1>12 DEF rolloutVars, device, vars
<1> QED BY <1>3, <1>5, <1>6, <1>7, <1>8, <1>9, <1>10, <1>11, <1>12
        DEF RolloutNext, Device, Reset, Watchdog

LEMMA RolloutInvInit == RolloutInit => RolloutInv
<1> SUFFICES ASSUME RolloutInit PROVE RolloutInv
  OBVIOUS
<1>1. CampaignInv
  BY CampaignInvInit DEF RolloutInit
<1>2. DevicesTyped
  BY OtaRolloutAssumption DEF RolloutInit, DevicesTyped
<1> QED BY <1>1, <1>2 DEF RolloutInv, RolloutInit, DirectHonest

LEMMA RolloutInvHolds == RolloutSpec => []RolloutInv
<1>1. RolloutInv /\ [RolloutNext]_rolloutVars => RolloutInv'
  BY RolloutStepMaps, CampaignInvStep, DevicesTypedStep, HonestStep DEF RolloutInv
<1> QED BY <1>1, RolloutInvInit, PTL DEF RolloutSpec

(* ota.rs of the example and ferrite-sdk/src/ota.rs: a device whose        *)
(* success is the server's does not fetch again a build it rolled back,    *)
(* for any number of devices, builds and campaigns and any bad builds.     *)
THEOREM DirectNoReinstallCorrect == RolloutSpec => []DirectNoReinstall
<1>1. RolloutInv => DirectNoReinstall
  BY DEF RolloutInv, DirectHonest, DirectNoReinstall
<1> QED BY <1>1, RolloutInvHolds, PTL

(* Whatever devices and gateways do, with reports late, repeated and lost: *)
(* for the server it is a behaviour of Campaigns, so that what is proved   *)
(* of those holds of every rollout.                                        *)
THEOREM RolloutIsCampaigns == RolloutSpec => Spec
<1>1. RolloutInit => Init
  BY DEF RolloutInit
<1>2. RolloutInv /\ [RolloutNext]_rolloutVars => [Next]_vars
  BY RolloutStepMaps DEF RolloutInv
<1> QED BY <1>1, <1>2, RolloutInvHolds, PTL DEF RolloutSpec, Spec
=============================================================================
