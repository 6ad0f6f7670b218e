---------------------------- MODULE RegistryProofs ----------------------------
(***************************************************************************)
(* Proofs about what the server knows of devices and clients.              *)
(*                                                                         *)
(* Provision: a key that a run of the tool appended is in the file, whose  *)
(* first line is the header unless a run found the file created and empty. *)
(*                                                                         *)
(* Reach: the history of a device only grows, and only with rows of now, so *)
(* what it says of a time that has passed does not change; and the times   *)
(* that a campaign's report measures are those of rows of the history.     *)
(*                                                                         *)
(* RateLimit: the buckets implement the meter, for any rate at which a     *)
(* bucket is full again when it is dropped, and any clients and addresses. *)
(***************************************************************************)
EXTENDS Provision, Reach, RateLimit, FiniteSetTheorems, TLAPS

-----------------------------------------------------------------------------
(* Provision *)

Lines(f) == IF f = Nothing THEN {} ELSE {f[i] : i \in 1 .. Len(f)}

(* A run has its board while it asks for the key, and its key from then on. *)
Busy ==
  \A t \in Benches :
    /\ At(t, "open") => bench[t].board \in Boards
    /\ bench[t].stage \in {"keyed", "listed", "looked", "opened"} => bench[t].key \in Key

(* Unless a run found the file created and empty, the first line is the    *)
(* header, and a run that will not write one found a line in it.           *)
Headed ==
  ~torn =>
    /\ file # Nothing /\ file # <<>> => file[1] = Header
    /\ \A t \in Benches :
         bench[t].stage \in {"looked", "opened"} /\ ~bench[t].new =>
           file # Nothing /\ file # <<>>

(* A key whose line was written is a line of the file. *)
Listed ==
  /\ exported \subseteq Lines(file)
  /\ \A t \in Benches : At(t, "opened") => file # Nothing

ProvisionInv == ProvisionTypeOK /\ Busy /\ Headed /\ Listed

LEMMA KeyIsNoHeader == Header \notin Key /\ Nothing \notin Seq(Key \cup {Header})
<1>1. Key \subseteq Owners \X Nat
  BY ProvisionAssumption DEF Key
<1>2. Seq(Key \cup {Header}) \subseteq Seq((Owners \X Nat) \cup {Header})
  BY <1>1
<1> QED
  BY <1>1, <1>2, ProvisionAssumption

(* What is imported is every key of the file but the first line.           *)
LEMMA ImportedLines ==
  ASSUME ProvisionTypeOK, file # Nothing
  PROVE  /\ file \in Seq(Key \cup {Header})
         /\ Imported = {file[i] : i \in 2 .. Len(file)} \ {Header}
<1>1. PICK f \in Seq(Key \cup {Header}) : f = file
  BY DEF ProvisionTypeOK
<1>2. PICK g : g = SubSeq(f, 2, Len(f))
  OBVIOUS
<1>3. g \in Seq(Key \cup {Header}) /\ Len(g) = (IF Len(f) = 0 THEN 0 ELSE Len(f) - 1)
      /\ \A i \in 1 .. Len(g) : g[i] = f[i + 1]
  BY <1>2
<1>4. ToSet(g) = {g[i] : i \in 1 .. Len(g)}
  BY <1>3 DEF ToSet
<1>5. {g[i] : i \in 1 .. Len(g)} = {f[i] : i \in 2 .. Len(f)}
  <2>1. ASSUME NEW i \in 1 .. Len(g) PROVE i + 1 \in 2 .. Len(f) /\ g[i] = f[i + 1]
    BY <1>3
  <2>2. ASSUME NEW i \in 2 .. Len(f) PROVE i - 1 \in 1 .. Len(g) /\ g[i - 1] = f[i]
    BY <1>3
  <2> QED BY <2>1, <2>2
<1>6. Imported = ToSet(g) \ {Header}
  BY <1>1, <1>2 DEF Imported
<1> QED
  BY <1>1, <1>4, <1>5, <1>6

LEMMA ListedImported == ProvisionInv => ExportsAreImported
<1> SUFFICES ASSUME ProvisionInv PROVE ExportsAreImported
  OBVIOUS
<1>1. CASE file = Nothing
  BY <1>1 DEF ProvisionInv, Listed, Lines, ExportsAreImported
<1>2. CASE file # Nothing
  <2>1. \A k \in exported : k \in Key /\ k # Header
    BY KeyIsNoHeader DEF ProvisionInv, ProvisionTypeOK
  <2>2. file \in Seq(Key \cup {Header})
        /\ Imported = {file[i] : i \in 2 .. Len(file)} \ {Header}
    BY <1>2, ImportedLines DEF ProvisionInv
  <2>3. \A k \in exported : k \in Imported \/ k = file[1]
    <3>1. ASSUME NEW k \in exported PROVE k \in Imported \/ k = file[1]
      <4>1. PICK i \in 1 .. Len(file) : k = file[i]
        BY <1>2, <3>1 DEF ProvisionInv, Listed, Lines
      <4>2. i = 1 \/ i \in 2 .. Len(file)
        BY <2>2
      <4> QED
        BY <2>1, <2>2, <4>1, <4>2
    <3> QED BY <3>1
  <2>4. ~torn => exported \subseteq Imported
    <3>1. CASE file = <<>>
      BY <1>2, <3>1 DEF ProvisionInv, Listed, Lines
    <3>2. CASE file # <<>>
      BY <1>2, <3>2, <2>1, <2>3 DEF ProvisionInv, Headed
    <3> QED BY <3>1, <3>2
  <2> QED
    BY <2>3, <2>4 DEF ExportsAreImported
<1> QED BY <1>1, <1>2

LEMMA ProvisionInvInit == ProvisionInit => ProvisionInv
<1> SUFFICES ASSUME ProvisionInit PROVE ProvisionInv
  OBVIOUS
<1>1. Rest \in Bench
  BY DEF Rest, Bench
<1>2. ProvisionTypeOK
  <2>1. 0 \in 0 .. MaxSeconds /\ 0 \in 0 .. MaxMishaps
    BY ProvisionAssumption
  <2> QED
    BY <1>1, <2>1 DEF ProvisionInit, ProvisionTypeOK
<1>3. Busy /\ Headed /\ Listed
  BY DEF ProvisionInit, Busy, Headed, Listed, At, Rest, Lines
<1> QED
  BY <1>2, <1>3 DEF ProvisionInv

(* A run does one step: what the rest must know of it. *)
Becomes(t, r) == r \in Bench /\ bench' = [bench EXCEPT ![t] = r]

LEMMA RunMoves ==
  ASSUME ProvisionTypeOK, NEW t \in Benches,
         NEW s \in {"rest", "open", "keyed", "listed", "looked", "opened"}, Moves(t, s)
  PROVE  \E r : /\ Becomes(t, r) /\ r.stage = s /\ r.key = bench[t].key
                /\ r.board = bench[t].board /\ r.new = bench[t].new
<1>1. bench[t] \in Bench
  BY DEF ProvisionTypeOK
<1>2. PICK r : r = [bench[t] EXCEPT !.stage = s]
  OBVIOUS
<1>3. r \in Bench
  BY <1>1, <1>2 DEF Bench
<1>4. /\ r.stage = s /\ r.key = bench[t].key
      /\ r.board = bench[t].board /\ r.new = bench[t].new
  BY <1>1, <1>2 DEF Bench
<1>5. bench' = [bench EXCEPT ![t] = r]
  BY <1>2 DEF Moves
<1> QED
  BY <1>3, <1>4, <1>5 DEF Becomes

LEMMA RunRests ==
  ASSUME NEW t, Stops(t)
  PROVE  Becomes(t, Rest) /\ Rest.stage = "rest"
BY DEF Becomes, Rest, Bench, Stops

LEMMA Became ==
  ASSUME ProvisionTypeOK, NEW t \in Benches, NEW r, Becomes(t, r)
  PROVE  /\ bench' \in [Benches -> Bench] /\ bench'[t] = r
         /\ \A o \in Benches \ {t} : bench'[o] = bench[o]
BY DEF Becomes, ProvisionTypeOK

(* A run that leaves the file alone, and is not about to write to it. *)
LEMMA UnfiledRun ==
  ASSUME ProvisionInv, NEW t \in Benches, NEW r, Becomes(t, r),
         r.stage \in {"rest", "open", "keyed", "listed"},
         r.stage = "open" => r.board \in Boards,
         r.stage \in {"keyed", "listed"} => r.key \in Key,
         UNCHANGED <<file, exported, torn, second>>, mishaps' \in 0 .. MaxMishaps,
         retained' \in [Boards -> Key \cup {Nothing}], registered' \subseteq Key
  PROVE  ProvisionInv'
<1>1. /\ bench' \in [Benches -> Bench] /\ bench'[t] = r
      /\ \A o \in Benches \ {t} : bench'[o] = bench[o]
  BY Became DEF ProvisionInv
<1>2. ProvisionTypeOK'
  BY <1>1 DEF ProvisionInv, ProvisionTypeOK
<1>3. Busy'
  BY <1>1 DEF ProvisionInv, Busy, At
<1>4. Headed'
  BY <1>1 DEF ProvisionInv, Headed
<1>5. Listed'
  BY <1>1 DEF ProvisionInv, Listed, Lines, At
<1> QED
  BY <1>2, <1>3, <1>4, <1>5 DEF ProvisionInv

LEMMA KeyForTyped ==
  ASSUME ProvisionTypeOK, NEW b \in Boards, NEW owner \in Owners
  PROVE  KeyFor(b, owner, second) \in Key
<1>1. second % Span \in 0 .. Span - 1
  BY ProvisionAssumption DEF ProvisionTypeOK
<1> QED
  BY <1>1 DEF KeyFor, ProvisionTypeOK, Key

(* A run without the file. *)
LEMMA UnfiledStep ==
  ASSUME ProvisionInv, NEW t \in Benches,
         \/ \E b \in Boards : OpenPort(t, b)
         \/ \E o \in Owners : Provide(t, o) \/ Unanswered(t, o)
         \/ RegisterKey(t) \/ Unregistered(t) \/ Leave(t) \/ Stop(t)
  PROVE  ProvisionInv'
<1>0. /\ ProvisionTypeOK /\ bench[t] \in Bench
      /\ retained \in [Boards -> Key \cup {Nothing}] /\ registered \subseteq Key
      /\ mishaps \in 0 .. MaxMishaps
      /\ mishaps < MaxMishaps => mishaps + 1 \in 0 .. MaxMishaps
  BY ProvisionAssumption DEF ProvisionInv, ProvisionTypeOK
<1>1. ASSUME NEW b \in Boards, OpenPort(t, b) PROVE ProvisionInv'
  <2>1. PICK r : r = [bench[t] EXCEPT !.stage = "open", !.board = b]
    OBVIOUS
  <2>2. r \in Bench /\ r.stage = "open" /\ r.board = b
    BY <1>0, <2>1 DEF Bench
  <2>3. bench' = [bench EXCEPT ![t] = r]
    BY <1>1, <2>1 DEF OpenPort
  <2>4. Becomes(t, r)
    BY <2>2, <2>3 DEF Becomes
  <2> QED
    BY <1>0, <1>1, <2>2, <2>4, UnfiledRun DEF OpenPort
<1>2. ASSUME NEW o \in Owners, Provide(t, o) PROVE ProvisionInv'
  <2>1. PICK b \in Boards : b = bench[t].board
    BY <1>2 DEF ProvisionInv, Busy, Provide
  <2>2. PICK k \in Key : k = KeyFor(b, o, second)
    BY <1>0, KeyForTyped
  <2>3. PICK r : r = [bench[t] EXCEPT !.stage = "keyed", !.key = k]
    OBVIOUS
  <2>4. r \in Bench /\ r.stage = "keyed" /\ r.key = k
    BY <1>0, <2>3 DEF Bench
  <2>5. /\ bench' = [bench EXCEPT ![t] = r] /\ retained' = [retained EXCEPT ![b] = k]
        /\ UNCHANGED <<second, file, registered, mishaps, exported, torn>>
    BY <1>2, <2>1, <2>2, <2>3 DEF Provide
  <2>6. Becomes(t, r) /\ retained' \in [Boards -> Key \cup {Nothing}]
    BY <1>0, <2>4, <2>5 DEF Becomes
  <2> QED
    BY <1>0, <2>4, <2>5, <2>6, UnfiledRun
<1>3. ASSUME NEW o \in Owners, Unanswered(t, o) PROVE ProvisionInv'
  <2>1. PICK b \in Boards : b = bench[t].board
    BY <1>3 DEF ProvisionInv, Busy, Unanswered
  <2>2. PICK k \in Key : k = KeyFor(b, o, second)
    BY <1>0, KeyForTyped
  <2>3. /\ Stops(t) /\ retained' = [retained EXCEPT ![b] = k]
        /\ mishaps' \in 0 .. MaxMishaps
        /\ UNCHANGED <<second, file, registered, exported, torn>>
    BY <1>0, <1>3, <2>1, <2>2 DEF Unanswered
  <2>4. retained' \in [Boards -> Key \cup {Nothing}]
    BY <1>0, <2>3
  <2> QED
    BY <1>0, <2>3, <2>4, RunRests, UnfiledRun
<1>4. ASSUME RegisterKey(t) \/ Unregistered(t) PROVE ProvisionInv'
  <2>1. bench[t].key \in Key
    BY <1>4 DEF ProvisionInv, Busy, RegisterKey, Unregistered, At
  <2>2. /\ Moves(t, "listed") /\ registered' \subseteq Key
        /\ UNCHANGED <<second, retained, file, mishaps, exported, torn>>
    BY <1>0, <1>4, <2>1 DEF RegisterKey, Unregistered
  <2>3. PICK r : Becomes(t, r) /\ r.stage = "listed" /\ r.key = bench[t].key
    BY <1>0, <2>2, RunMoves
  <2> QED
    BY <1>0, <2>1, <2>2, <2>3, UnfiledRun
<1>5. ASSUME Leave(t) PROVE ProvisionInv'
  BY <1>0, <1>5, RunRests, UnfiledRun DEF Leave
<1>6. ASSUME Stop(t) PROVE ProvisionInv'
  <2>1. At(t, "keyed") => bench[t].key \in Key
    BY DEF ProvisionInv, Busy, At
  <2>2. /\ Stops(t) /\ registered' \subseteq Key /\ mishaps' \in 0 .. MaxMishaps
        /\ UNCHANGED <<second, retained, file, exported, torn>>
    BY <1>0, <1>6, <2>1 DEF Stop
  <2> QED
    BY <1>0, <2>2, RunRests, UnfiledRun
<1> QED
  BY <1>1, <1>2, <1>3, <1>4, <1>5, <1>6

(* A run looks for the file, opens it and writes. *)
LEMMA LookStep ==
  ASSUME ProvisionInv, NEW t \in Benches, LookForFile(t)
  PROVE  ProvisionInv'
<1>0. ProvisionTypeOK /\ bench[t] \in Bench
  BY DEF ProvisionInv, ProvisionTypeOK
<1>1. PICK r : r = [bench[t] EXCEPT !.stage = "looked", !.new = (file = Nothing)]
  OBVIOUS
<1>2. r \in Bench /\ r.stage = "looked" /\ r.key = bench[t].key
      /\ r.new = (file = Nothing)
  BY <1>0, <1>1 DEF Bench
<1>3. /\ bench' = [bench EXCEPT ![t] = r] /\ torn' = (torn \/ file = <<>>)
      /\ bench[t].stage = "listed"
      /\ UNCHANGED <<second, retained, file, registered, mishaps, exported>>
  BY <1>1 DEF LookForFile, At
<1>4. /\ bench' \in [Benches -> Bench] /\ bench'[t] = r
      /\ \A o \in Benches \ {t} : bench'[o] = bench[o]
  BY <1>0, <1>2, <1>3, Became DEF Becomes
<1>5. ProvisionTypeOK'
  BY <1>0, <1>3, <1>4 DEF ProvisionTypeOK
<1>6. Busy'
  BY <1>2, <1>3, <1>4 DEF ProvisionInv, Busy, At
<1>7. Headed'
  BY <1>2, <1>3, <1>4 DEF ProvisionInv, Headed
<1>8. Listed'
  BY <1>2, <1>3, <1>4 DEF ProvisionInv, Listed, Lines, At
<1> QED
  BY <1>5, <1>6, <1>7, <1>8 DEF ProvisionInv

LEMMA OpenStep ==
  ASSUME ProvisionInv, NEW t \in Benches, OpenFile(t)
  PROVE  ProvisionInv'
<1>0. ProvisionTypeOK /\ bench[t] \in Bench
  BY DEF ProvisionInv, ProvisionTypeOK
<1>1. /\ Moves(t, "opened") /\ bench[t].stage = "looked"
      /\ file' = IF file = Nothing THEN <<>> ELSE file
      /\ UNCHANGED <<second, retained, registered, mishaps, exported, torn>>
  BY DEF OpenFile, At
<1>2. PICK r : /\ Becomes(t, r) /\ r.stage = "opened" /\ r.key = bench[t].key
               /\ r.new = bench[t].new
  BY <1>0, <1>1, RunMoves
<1>3. /\ bench' \in [Benches -> Bench] /\ bench'[t] = r
      /\ \A o \in Benches \ {t} : bench'[o] = bench[o]
  BY <1>0, <1>2, Became
<1>4. /\ file' # Nothing /\ file' \in Seq(Key \cup {Header})
      /\ file # Nothing => file' = file
      /\ file = Nothing => file' = <<>>
  <2>1. <<>> \in Seq(Key \cup {Header})
    OBVIOUS
  <2> QED
    BY <1>0, <1>1, <2>1, KeyIsNoHeader DEF ProvisionTypeOK
<1>5. ProvisionTypeOK'
  BY <1>0, <1>1, <1>3, <1>4 DEF ProvisionTypeOK
<1>6. Busy'
  BY <1>1, <1>2, <1>3 DEF ProvisionInv, Busy, At
<1>7. Headed'
  BY <1>1, <1>2, <1>3, <1>4 DEF ProvisionInv, Headed
<1>8. Listed'
  BY <1>1, <1>2, <1>3, <1>4 DEF ProvisionInv, Listed, Lines, At
<1> QED
  BY <1>5, <1>6, <1>7, <1>8 DEF ProvisionInv

LEMMA WriteStep ==
  ASSUME ProvisionInv, NEW t \in Benches, WriteLines(t)
  PROVE  ProvisionInv'
<1>0. ProvisionTypeOK /\ bench[t] \in Bench
  BY DEF ProvisionInv, ProvisionTypeOK
<1>1. PICK k \in Key : k = bench[t].key
  BY DEF ProvisionInv, Busy, WriteLines, At
<1>2. PICK w \in Seq(Key \cup {Header}) :
        /\ w = (IF bench[t].new THEN <<Header>> ELSE <<>>) \o <<k>>
        /\ Len(w) >= 1 /\ w[Len(w)] = k
        /\ bench[t].new => w[1] = Header
  <2>1. PICK h \in Seq(Key \cup {Header}) : h = IF bench[t].new THEN <<Header>> ELSE <<>>
    <3>1. <<Header>> \in Seq(Key \cup {Header}) /\ <<>> \in Seq(Key \cup {Header})
      OBVIOUS
    <3>2. CASE bench[t].new
      BY <3>1, <3>2
    <3>3. CASE ~bench[t].new
      BY <3>1, <3>3
    <3> QED BY <3>2, <3>3
  <2>2. bench[t].new => Len(h) = 1 /\ h[1] = Header
    BY <2>1
  <2>3. /\ h \o <<k>> \in Seq(Key \cup {Header})
        /\ Len(h \o <<k>>) = Len(h) + 1 /\ (h \o <<k>>)[Len(h) + 1] = k
        /\ \A i \in 1 .. Len(h) : (h \o <<k>>)[i] = h[i]
    OBVIOUS
  <2>4. PICK z \in Seq(Key \cup {Header}) : z = h \o <<k>>
    BY <2>3
  <2>5. Len(z) >= 1 /\ z[Len(z)] = k /\ (bench[t].new => z[1] = Header)
    BY <2>2, <2>3, <2>4
  <2>6. z = (IF bench[t].new THEN <<Header>> ELSE <<>>) \o <<k>>
    BY <2>1, <2>4
  <2> QED
    BY <2>5, <2>6
<1>3. PICK f \in Seq(Key \cup {Header}) : f = file
  BY <1>0, KeyIsNoHeader DEF ProvisionInv, Listed, WriteLines, ProvisionTypeOK
<1>4. /\ file' = f \o w /\ exported' = exported \cup {k} /\ Stops(t)
      /\ bench[t].stage = "opened"
      /\ UNCHANGED <<second, retained, registered, mishaps, torn>>
  BY <1>1, <1>2, <1>3 DEF WriteLines, At
<1>5. /\ bench' \in [Benches -> Bench] /\ bench'[t] = Rest /\ Rest.stage = "rest"
      /\ \A o \in Benches \ {t} : bench'[o] = bench[o]
  BY <1>0, <1>4, RunRests, Became
<1>6. /\ f \o w \in Seq(Key \cup {Header}) /\ Len(f \o w) = Len(f) + Len(w)
      /\ Len(w) >= 1 /\ Len(f \o w) >= 1
      /\ \A i \in 1 .. Len(f) : (f \o w)[i] = f[i]
      /\ (f \o w)[Len(f) + Len(w)] = k
      /\ f = <<>> => (f \o w)[1] = w[1]
  BY <1>2
<1>7. ProvisionTypeOK'
  BY <1>0, <1>4, <1>5, <1>6 DEF ProvisionTypeOK
<1>8. Busy'
  BY <1>4, <1>5 DEF ProvisionInv, Busy, At
<1>9. file' # Nothing /\ file' # <<>> /\ file # Nothing
  <2>1. f \o w # <<>>
    BY <1>6
  <2> QED
    BY <1>3, <1>4, <1>6, <2>1, KeyIsNoHeader
<1>10. Headed'
  <2>1. SUFFICES ASSUME ~torn PROVE file'[1] = Header
    BY <1>4, <1>9 DEF Headed
  <2>2. CASE f = <<>>
    <3>1. bench[t].new
      BY <1>3, <1>4, <2>1, <2>2 DEF ProvisionInv, Headed
    <3> QED
      BY <1>2, <1>4, <1>6, <2>2, <3>1
  <2>3. CASE f # <<>>
    <3>1. f[1] = Header
      BY <1>3, <1>9, <2>1, <2>3 DEF ProvisionInv, Headed
    <3>2. 1 \in 1 .. Len(f)
      BY <2>3
    <3> QED
      BY <1>4, <1>6, <3>1, <3>2
  <2> QED BY <2>2, <2>3
<1>11. Listed'
  <2>1. ASSUME NEW x \in exported PROVE \E i \in 1 .. Len(f \o w) : (f \o w)[i] = x
    <3>1. PICK i \in 1 .. Len(f) : f[i] = x
      BY <1>3, <1>9 DEF ProvisionInv, Listed, Lines
    <3> QED
      BY <1>6, <3>1
  <2>2. \E i \in 1 .. Len(f \o w) : (f \o w)[i] = k
    BY <1>6
  <2>3. exported' \subseteq Lines(file)'
    BY <1>4, <1>9, <2>1, <2>2 DEF Lines
  <2> QED
    BY <2>3, <1>9 DEF Listed
<1> QED
  BY <1>7, <1>8, <1>10, <1>11 DEF ProvisionInv

(* Boards lose their keys, time passes, and the file is imported. *)
LEMMA AroundStep ==
  ASSUME ProvisionInv,
         \/ \E b \in Boards : Clear(b) \/ PowerLoss(b)
         \/ NextSecond
         \/ Import
         \/ UNCHANGED provisionVars
  PROVE  ProvisionInv'
<1>0. ProvisionTypeOK
  BY DEF ProvisionInv
<1>1. /\ UNCHANGED <<bench, file, exported, torn>>
      /\ retained' \in [Boards -> Key \cup {Nothing}]
      /\ second' \in 0 .. MaxSeconds /\ mishaps' \in 0 .. MaxMishaps
  BY <1>0, ProvisionAssumption
     DEF Clear, PowerLoss, NextSecond, Import, provisionVars, ProvisionTypeOK
<1>2. registered' \subseteq Key
  <2>1. CASE Import
    BY <1>0, <2>1, ImportedLines DEF Import, ProvisionTypeOK
  <2>2. CASE UNCHANGED registered
    BY <1>0, <2>2 DEF ProvisionTypeOK
  <2> QED
    BY <2>1, <2>2 DEF Clear, PowerLoss, NextSecond, provisionVars
<1>3. ProvisionTypeOK'
  BY <1>0, <1>1, <1>2 DEF ProvisionTypeOK
<1> QED
  BY <1>1, <1>3 DEF ProvisionInv, Busy, Headed, Listed, Lines, At

(* A key that a run appended to the file is imported from it, however many *)
(* runs share the file or stop (ferrite-provision/src/export.rs).          *)
THEOREM ExportsAreImportedCorrect == ProvisionSpec => []ExportsAreImported
<1>1. ProvisionInv /\ [ProvisionNext]_provisionVars => ProvisionInv'
  BY UnfiledStep, LookStep, OpenStep, WriteStep, AroundStep DEF ProvisionNext, Run
<1>2. ProvisionSpec => []ProvisionInv
  BY <1>1, ProvisionInvInit, PTL DEF ProvisionSpec
<1> QED
  BY <1>2, ListedImported, PTL

-----------------------------------------------------------------------------
(* Reach *)

(* The history is of the past, and a campaign was activated in it. *)
Dated ==
  /\ now \in 0 .. MaxTime
  /\ observed \in Seq(Observation)
  /\ \A i \in 1 .. Len(observed) : observed[i].at <= now
  /\ campaign \in [Campaigns -> Campaign \cup {Absent}]

(* When a device came to run build b. *)
Arrivals(b, d) ==
  {h.at : h \in {observed[i] : i \in DOMAIN observed} \cap
            [device : {d}, runs : {f \in Firmware : f.build = b}, at : 0 .. MaxTime]}

Installed(c, d) ==
  Earliest({t \in Arrivals(campaign[c].target, d) : t >= Since(c)})

ReachSays ==
  \A c, d : d \in campaign[c].devices =>
    /\ ReachOf(c)[d].installed_at = Installed(c, d)
    /\ ReachOf(c)[d].time_to_patch =
         IF Installed(c, d) = Absent THEN Absent ELSE Installed(c, d) - Since(c)

LEMMA ReachTells == ReachSays
BY DEF ReachSays, ReachOf, Installed, Arrivals

LEMMA LeastOfNat ==
  ASSUME NEW S \in SUBSET Nat, S # {}
  PROVE  \E m \in S : \A n \in S : m <= n
<1> DEFINE R == OpToRel(<, Nat)
<1>1. IsWellFoundedOn(R, Nat)
  BY NatLessThanWellFounded
<1>2. PICK m \in S : \A n \in S : ~ (<<n, m>> \in R)
  <2> HIDE DEF R
  <2> QED BY <1>1, WFMin
<1>3. \A n \in S : ~ (n < m)
  BY <1>2 DEF OpToRel
<1> QED
  BY <1>3

LEMMA EarliestIsLeast ==
  ASSUME NEW S \in SUBSET Nat, NEW m \in S, \A n \in S : m <= n
  PROVE  Earliest(S) = m
<1>1. Earliest(S) = CHOOSE t \in S : \A u \in S : t <= u
  BY DEF Earliest
<1>2. PICK e : e = CHOOSE t \in S : \A u \in S : t <= u
  OBVIOUS
<1>3. e \in S /\ \A u \in S : e <= u
  BY <1>2
<1>4. e <= m /\ m <= e /\ e \in Nat /\ m \in Nat
  BY <1>3
<1> QED
  BY <1>1, <1>2, <1>4

(* A later time does not change the earliest one. *)
LEMMA EarliestStays ==
  ASSUME NEW S \in SUBSET Nat, NEW T \in SUBSET Nat, S \subseteq T, S # {},
         \A t \in T : t \in S \/ \A s \in S : s <= t
  PROVE  Earliest(T) = Earliest(S)
<1>1. PICK m \in S : \A n \in S : m <= n
  BY LeastOfNat
<1>2. \A n \in T : m <= n
  BY <1>1
<1> QED
  BY <1>1, <1>2, EarliestIsLeast

(* Every step but of the clock and of a report leaves the history, and a   *)
(* report adds a row of now.                                               *)
LEMMA HistoryGrows ==
  ASSUME Dated, [ReachNext]_reachVars
  PROVE  /\ \/ observed' = observed
            \/ /\ now' = now
               /\ \E h \in [device : Ids, runs : Firmware, at : {now}] :
                    observed' = Append(observed, h)
         /\ now' = now \/ (now < MaxTime /\ now' = now + 1)
         /\ \A c \in Campaigns : campaign[c] # Absent =>
              \/ campaign'[c] = campaign[c]
              \/ /\ campaign[c].activated = Absent
                 /\ campaign'[c] = [campaign[c] EXCEPT !.activated = now]
<1>1. ASSUME NEW d \in Ids, NEW f \in Firmware
      PROVE  \/ Observed(d, f) = observed
             \/ \E h \in [device : Ids, runs : Firmware, at : {now}] :
                  Observed(d, f) = Append(observed, h)
  BY DEF Observed
<1>2. ASSUME NEW d \in Ids, Upload(d)
      PROVE  /\ UNCHANGED <<now, campaign>>
             /\ \/ observed' = observed
                \/ \E h \in [device : Ids, runs : Firmware, at : {now}] :
                     observed' = Append(observed, h)
  BY <1>1, <1>2 DEF Upload, Report, ReportFails, Touch
<1>3. ASSUME NEW d \in Ids, Registry(d)
      PROVE  UNCHANGED <<now, campaign, observed>>
  BY <1>3 DEF Registry, Edit, Delete, AddToGroup, RemoveFromGroup
<1>4. ASSUME NEW c \in Campaigns,
             \E b \in Targets, g \in Groups \cup {Absent} : Create(c, b, g)
      PROVE  /\ UNCHANGED <<now, observed>>
             /\ \A e \in Campaigns : campaign[e] # Absent => campaign'[e] = campaign[e]
  BY <1>4 DEF Create, Dated
<1>5. ASSUME NEW c \in Campaigns, Activate(c)
      PROVE  /\ UNCHANGED <<now, observed>>
             /\ \A e \in Campaigns : campaign[e] # Absent =>
                  \/ campaign'[e] = campaign[e]
                  \/ /\ campaign[e].activated = Absent
                     /\ campaign'[e] = [campaign[e] EXCEPT !.activated = now]
  <2>1. PICK a : a = IF campaign[c].activated = Absent THEN now ELSE campaign[c].activated
    OBVIOUS
  <2>2. campaign' = [campaign EXCEPT ![c] = [campaign[c] EXCEPT !.activated = a]]
    BY <1>5, <2>1 DEF Activate
  <2>3. campaign[c] \in Campaign
    BY <1>5 DEF Activate, Dated
  <2>4. campaign[c].activated # Absent => [campaign[c] EXCEPT !.activated = a] = campaign[c]
    BY <2>1, <2>3 DEF Campaign
  <2>5. campaign[c].activated = Absent => a = now
    BY <2>1
  <2>6. campaign'[c] = [campaign[c] EXCEPT !.activated = a]
        /\ \A e \in Campaigns \ {c} : campaign'[e] = campaign[e]
    BY <2>2 DEF Dated
  <2> QED
    BY <1>5, <2>4, <2>5, <2>6 DEF Activate
<1>6. ASSUME \/ \E ds \in (SUBSET Ids) \ {{}}, t \in (SUBSET Tags) \cup {Absent} : Register(ds, t)
             \/ \E g \in Groups : CreateGroup(g) \/ DeleteGroup(g)
             \/ UNCHANGED reachVars
      PROVE  UNCHANGED <<now, campaign, observed>>
  BY <1>6 DEF Register, CreateGroup, DeleteGroup, reachVars
<1>7. ASSUME NextTick
      PROVE  now < MaxTime /\ now' = now + 1 /\ UNCHANGED <<campaign, observed>>
  BY <1>7 DEF NextTick
<1> QED
  BY <1>2, <1>3, <1>4, <1>5, <1>6, <1>7 DEF ReachNext

LEMMA ArrivalsGrow ==
  ASSUME Dated, [ReachNext]_reachVars, NEW b, NEW d
  PROVE  /\ Arrivals(b, d) \subseteq Nat /\ Arrivals(b, d)' \subseteq Nat
         /\ Arrivals(b, d) \subseteq Arrivals(b, d)'
         /\ \A t \in Arrivals(b, d)' : t \in Arrivals(b, d) \/ t = now
         /\ \A t \in Arrivals(b, d) : t <= now
<1> DEFINE W == [device : {d}, runs : {f \in Firmware : f.build = b}, at : 0 .. MaxTime]
<1>1. /\ Arrivals(b, d) = {h.at : h \in {observed[i] : i \in DOMAIN observed} \cap W}
      /\ Arrivals(b, d)' = {h.at : h \in {observed'[i] : i \in DOMAIN observed'} \cap W}
  BY DEF Arrivals
<1>2. PICK o \in Seq(Observation) : o = observed
  BY DEF Dated
<1>3. PICK p : p = observed'
  OBVIOUS
<1>4. \/ p = o
      \/ \E h : h.at = now /\ p = Append(o, h)
  BY <1>2, <1>3, HistoryGrows
<1>5. /\ \A i \in DOMAIN o : i \in DOMAIN p /\ p[i] = o[i]
      /\ \A i \in DOMAIN p : i \in DOMAIN o \/ p[i].at = now
  <2>1. CASE p = o
    BY <2>1
  <2>2. ASSUME NEW h, h.at = now, p = Append(o, h)
        PROVE  /\ \A i \in DOMAIN o : i \in DOMAIN p /\ p[i] = o[i]
               /\ \A i \in DOMAIN p : i \in DOMAIN o \/ p[i].at = now
    <3>1. DOMAIN o = 1 .. Len(o) /\ DOMAIN p = 1 .. Len(o) + 1 /\ p[Len(o) + 1] = h
          /\ \A i \in 1 .. Len(o) : p[i] = o[i]
      BY <2>2
    <3> QED
      BY <2>2, <3>1
  <2> QED
    BY <1>4, <2>1, <2>2
<1>6. \A i \in DOMAIN o : o[i].at <= now
  BY <1>2 DEF Dated
<1>7. \A h \in W : h.at \in Nat
  OBVIOUS
<1> HIDE DEF W
<1> QED
  BY <1>1, <1>2, <1>3, <1>5, <1>6, <1>7

LEMMA DatedInit == ReachInit => Dated
BY ReachAssumption DEF ReachInit, Dated

LEMMA DatedStep == Dated /\ [ReachNext]_reachVars => Dated'
<1> SUFFICES ASSUME Dated, [ReachNext]_reachVars PROVE Dated'
  OBVIOUS
<1>1. now' \in 0 .. MaxTime /\ now' >= now
  BY HistoryGrows, ReachAssumption DEF Dated
<1>2. observed' \in Seq(Observation) /\ \A i \in 1 .. Len(observed') : observed'[i].at <= now'
  <2>1. PICK o \in Seq(Observation) : o = observed
    BY DEF Dated
  <2>2. CASE observed' = observed
    <3>1. \A i \in 1 .. Len(o) : o[i].at \in 0 .. MaxTime /\ o[i].at <= now
      <4>1. \A i \in 1 .. Len(o) : o[i] \in Observation
        OBVIOUS
      <4> QED
        BY <2>1, <4>1 DEF Dated, Observation
    <3> QED
      BY <1>1, <2>1, <2>2, <3>1, ReachAssumption DEF Dated
  <2>3. ASSUME NEW h \in [device : Ids, runs : Firmware, at : {now}],
               observed' = Append(o, h)
        PROVE  observed' \in Seq(Observation) /\ \A i \in 1 .. Len(observed') : observed'[i].at <= now'
    <3>1. h \in Observation /\ h.at = now
      BY DEF Dated, Observation
    <3>2. PICK p \in Seq(Observation) : p = Append(o, h)
      <4>1. PICK g \in Observation : g = h
        BY <3>1
      <4>2. Append(o, g) \in Seq(Observation)
        OBVIOUS
      <4> QED
        BY <4>1, <4>2
    <3>3. Len(p) = Len(o) + 1 /\ p[Len(o) + 1] = h /\ \A i \in 1 .. Len(o) : p[i] = o[i]
      BY <3>2
    <3>4. \A i \in 1 .. Len(o) : o[i] \in Observation /\ o[i].at <= now
      BY <2>1 DEF Dated
    <3>5. \A i \in 1 .. Len(p) : p[i].at <= now'
      <4>1. \A i \in 1 .. Len(p) : p[i].at \in 0 .. MaxTime /\ p[i].at <= now
        <5>1. \A i \in 1 .. Len(p) : p[i] = h \/ (p[i].at \in 0 .. MaxTime /\ p[i].at <= now)
          BY <3>3, <3>4 DEF Observation
        <5>2. h.at \in 0 .. MaxTime /\ h.at <= now
          BY <3>1, ReachAssumption DEF Dated
        <5> QED
          BY <5>1, <5>2
      <4> QED
        BY <1>1, <4>1, ReachAssumption DEF Dated
    <3> QED
      BY <2>3, <3>2, <3>5
  <2>4. \/ observed' = observed
        \/ \E h \in [device : Ids, runs : Firmware, at : {now}] : observed' = Append(o, h)
    BY <2>1, HistoryGrows
  <2> QED
    BY <2>2, <2>3, <2>4
<1>3. campaign' \in [Campaigns -> Campaign \cup {Absent}]
  <2>1. ASSUME NEW c \in Campaigns, NEW b \in Targets,
               NEW g \in Groups \cup {Absent}, Create(c, b, g)
        PROVE  campaign' \in [Campaigns -> Campaign \cup {Absent}]
    <3>1. NewCampaign(b, g, MembersOf(g)) \in Campaign
      BY DEF NewCampaign, MembersOf, Known, Campaign, Dated
    <3> QED
      BY <2>1, <3>1 DEF Create, Dated
  <2>2. ASSUME NEW c \in Campaigns, Activate(c)
        PROVE  campaign' \in [Campaigns -> Campaign \cup {Absent}]
    <3>1. PICK a : a = IF campaign[c].activated = Absent THEN now ELSE campaign[c].activated
      OBVIOUS
    <3>2. campaign' = [campaign EXCEPT ![c] = [campaign[c] EXCEPT !.activated = a]]
      BY <2>2, <3>1 DEF Activate
    <3>3. campaign[c] \in Campaign
      BY <2>2 DEF Activate, Dated
    <3>4. a \in (0 .. MaxTime) \cup {Absent}
      BY <3>1, <3>3 DEF Campaign, Dated
    <3>5. [campaign[c] EXCEPT !.activated = a] \in Campaign
      BY <3>3, <3>4 DEF Campaign
    <3> QED
      BY <3>2, <3>5 DEF Dated
  <2>3. ASSUME \/ NextTick \/ UNCHANGED reachVars
               \/ \E d \in Ids : Upload(d) \/ Registry(d)
               \/ \E ds \in (SUBSET Ids) \ {{}}, t \in (SUBSET Tags) \cup {Absent} : Register(ds, t)
               \/ \E g \in Groups : CreateGroup(g) \/ DeleteGroup(g)
        PROVE  UNCHANGED campaign
    BY <2>3
       DEF NextTick, Upload, Report, ReportFails, Touch, Registry, Edit, Delete, AddToGroup,
           RemoveFromGroup, Register, CreateGroup, DeleteGroup, reachVars
  <2> QED
    BY <2>1, <2>2, <2>3 DEF ReachNext, Dated
<1> QED
  BY <1>1, <1>2, <1>3 DEF Dated

LEMMA EvidenceStep == Dated /\ [ReachNext]_reachVars => EvidenceStays
<1> SUFFICES ASSUME Dated, [ReachNext]_reachVars PROVE EvidenceStays
  OBVIOUS
<1>1. SubSeq(observed', 1, Len(observed)) = observed
  <2>1. PICK o \in Seq(Observation) : o = observed
    BY DEF Dated
  <2>2. SubSeq(o, 1, Len(o)) = o
    OBVIOUS
  <2>3. ASSUME NEW h \in [device : Ids, runs : Firmware, at : {now}]
        PROVE  SubSeq(Append(o, h), 1, Len(o)) = o
    <3>1. h \in Observation
      BY DEF Dated, Observation
    <3>2. PICK g \in Observation : g = h
      BY <3>1
    <3>3. SubSeq(Append(o, g), 1, Len(o)) = o
      OBVIOUS
    <3> QED
      BY <3>2, <3>3
  <2>4. observed' = o \/ \E h \in [device : Ids, runs : Firmware, at : {now}] : observed' = Append(o, h)
    BY <2>1, HistoryGrows
  <2> QED
    BY <2>1, <2>2, <2>3, <2>4
<1>2. ASSUME NEW c \in Campaigns, campaign[c] # Absent, campaign[c].activated # Absent,
             NEW d \in campaign[c].devices, Installed(c, d) # Absent
      PROVE  /\ Installed(c, d)' = Installed(c, d)
             /\ Since(c)' = Since(c)
             /\ campaign'[c] = campaign[c]
  <2>1. campaign'[c] = campaign[c] /\ campaign[c].activated \in 0 .. MaxTime
    BY <1>2, HistoryGrows DEF Dated, Campaign
  <2>2. Since(c)' = Since(c) /\ Since(c) \in Nat
    BY <1>2, <2>1 DEF Since
  <2>3. PICK since \in Nat : since = Since(c)
    BY <2>2
  <2>12. PICK b : b = campaign[c].target
    OBVIOUS
  <2>4. PICK A : A = Arrivals(b, d)
    OBVIOUS
  <2>5. PICK B : B = Arrivals(b, d)'
    OBVIOUS
  <2>6. PICK S : S = {t \in A : t >= since}
    OBVIOUS
  <2>7. PICK T : T = {t \in B : t >= since}
    OBVIOUS
  <2>8. Installed(c, d) = Earliest(S) /\ Installed(c, d)' = Earliest(T)
    BY <2>1, <2>2, <2>3, <2>4, <2>5, <2>6, <2>7, <2>12 DEF Installed
  <2>9. S # {}
    BY <1>2, <2>8 DEF Earliest
  <2>10. /\ A \subseteq Nat /\ B \subseteq Nat /\ A \subseteq B
         /\ \A t \in B : t \in A \/ t = now
         /\ \A t \in A : t <= now
    BY <2>4, <2>5, ArrivalsGrow
  <2>11. Earliest(T) = Earliest(S)
    BY <2>6, <2>7, <2>9, <2>10, EarliestStays
  <2> QED
    BY <2>1, <2>2, <2>8, <2>11
<1>3. ASSUME NEW c \in Campaigns, campaign[c] # Absent, campaign[c].activated # Absent,
             NEW d \in campaign[c].devices, ReachOf(c)[d].installed_at # Absent
      PROVE  /\ ReachOf(c)'[d].installed_at = ReachOf(c)[d].installed_at
             /\ ReachOf(c)'[d].time_to_patch = ReachOf(c)[d].time_to_patch
  <2>1. ReachSays /\ ReachSays'
    BY ReachTells, PTL
  <2>2. Installed(c, d) # Absent
    BY <1>3, <2>1 DEF ReachSays
  <2>3. /\ Installed(c, d)' = Installed(c, d) /\ Since(c)' = Since(c)
        /\ campaign'[c] = campaign[c]
    BY <1>2, <1>3, <2>2
  <2> QED
    BY <1>3, <2>1, <2>2, <2>3 DEF ReachSays
<1> QED
  BY <1>1, <1>3 DEF EvidenceStays

THEOREM EvidenceKeptCorrect == ReachSpec => EvidenceKept
<1>1. ReachSpec => []Dated
  BY DatedInit, DatedStep, PTL DEF ReachSpec
<1> QED
  BY <1>1, EvidenceStep, PTL DEF ReachSpec, EvidenceKept

(* The build a device runs is in the history, unless it never reported. *)
Recorded ==
  \A d \in Known : device[d].runs # Unreported =>
    \E i \in 1 .. Len(observed) : observed[i].device = d /\ observed[i].runs = device[d].runs

Rows == device \in [Ids -> DeviceRow \cup {Absent}]

(* A row stays, goes, keeps its build, is new, or a report wrote its build. *)
LEMMA TouchedRow ==
  ASSUME Dated, Rows, NEW d \in Ids
  PROVE  /\ Touched(d) \in [Ids -> DeviceRow \cup {Absent}]
         /\ \A x \in Ids \ {d} : Touched(d)[x] = device[x]
         /\ Touched(d)[d] \in DeviceRow
         /\ d \in Known => Touched(d)[d].runs = device[d].runs
         /\ d \notin Known => Touched(d)[d].runs = Unreported
<1>1. CASE d \in Known
  BY <1>1 DEF Touched, Known, DeviceRow, Dated, Rows
<1>2. CASE d \notin Known
  BY <1>2 DEF Touched, Known, DeviceRow, Dated, Rows
<1> QED BY <1>1, <1>2

LEMMA RowsStep ==
  ASSUME Dated, Rows, [ReachNext]_reachVars
  PROVE  /\ DOMAIN device' = Ids /\ device' = [x \in Ids |-> device'[x]]
         /\ \A x \in Ids :
              \/ device'[x] = device[x] \/ device'[x] = Absent
              \/ /\ device'[x] \in DeviceRow
                 /\ \/ x \in Known /\ device'[x].runs = device[x].runs
                    \/ device'[x].runs = Unreported
                    \/ \E f \in Firmware : device'[x].runs = f /\ observed' = Observed(x, f)
<1> DEFINE Fine ==
      /\ DOMAIN device' = Ids /\ device' = [x \in Ids |-> device'[x]]
      /\ \A x \in Ids :
           \/ device'[x] = device[x] \/ device'[x] = Absent
           \/ /\ device'[x] \in DeviceRow
              /\ \/ x \in Known /\ device'[x].runs = device[x].runs
                 \/ device'[x].runs = Unreported
                 \/ \E f \in Firmware : device'[x].runs = f /\ observed' = Observed(x, f)
<1>1. ASSUME NEW r \in DeviceRow, NEW tags \in (SUBSET Tags) \cup {Absent}
      PROVE  Tagged(r, tags) \in DeviceRow /\ Tagged(r, tags).runs = r.runs
  <2>1. CASE tags = Absent
    BY <2>1 DEF Tagged
  <2>2. CASE tags # Absent
    <3>1. tags \subseteq Tags /\ Tagged(r, tags) = [r EXCEPT !.tags = tags]
      BY <2>2 DEF Tagged
    <3>2. [r EXCEPT !.tags = tags] \in DeviceRow /\ [r EXCEPT !.tags = tags].runs = r.runs
      BY <3>1 DEF DeviceRow
    <3> QED BY <3>1, <3>2
  <2> QED BY <2>1, <2>2
<1>2. ASSUME NEW d \in Ids, NEW f \in Firmware, Report(d, f)
      PROVE  Fine
  <2>1. PICK T \in [Ids -> DeviceRow \cup {Absent}] : T = Touched(d)
    BY TouchedRow
  <2>2. T[d] \in DeviceRow /\ \A x \in Ids \ {d} : T[x] = device[x]
    BY <2>1, TouchedRow
  <2>3. [T[d] EXCEPT !.runs = f] \in DeviceRow /\ [T[d] EXCEPT !.runs = f].runs = f
    BY <2>2 DEF DeviceRow
  <2>4. device' = [T EXCEPT ![d] = [T[d] EXCEPT !.runs = f]] /\ observed' = Observed(d, f)
    BY <1>2, <2>1 DEF Report
  <2> QED
    BY <2>2, <2>3, <2>4
<1>3. ASSUME NEW d \in Ids, device' = device \/ device' = Touched(d)
      PROVE  Fine
  <2>1. CASE device' = device
    BY <2>1 DEF Rows
  <2>2. CASE device' = Touched(d)
    <3>1. \A x \in Ids :
            \/ device'[x] = device[x]
            \/ /\ x = d /\ device'[x] \in DeviceRow
               /\ \/ x \in Known /\ device'[x].runs = device[x].runs
                  \/ device'[x].runs = Unreported
      BY <2>2, TouchedRow
    <3>2. device' \in [Ids -> DeviceRow \cup {Absent}]
      BY <2>2, TouchedRow
    <3> QED BY <3>1, <3>2
  <2> QED BY <1>3, <2>1, <2>2
<1>4. ASSUME NEW ds \in SUBSET Ids, NEW tags \in (SUBSET Tags) \cup {Absent}, Register(ds, tags)
      PROVE  Fine
  <2>1. ASSUME NEW x \in ds
        PROVE  /\ Tagged(Touched(x)[x], tags) \in DeviceRow
               /\ \/ x \in Known /\ Tagged(Touched(x)[x], tags).runs = device[x].runs
                  \/ Tagged(Touched(x)[x], tags).runs = Unreported
    <3>1. PICK r \in DeviceRow : r = Touched(x)[x]
      BY TouchedRow
    <3> QED
      BY <3>1, <1>1, TouchedRow
  <2>2. \A x \in Ids : device'[x] = IF x \in ds THEN Tagged(Touched(x)[x], tags) ELSE device[x]
    BY <1>4 DEF Register
  <2>3. DOMAIN device' = Ids /\ device' = [x \in Ids |-> device'[x]]
    BY <1>4 DEF Register
  <2> QED BY <2>1, <2>2, <2>3
<1>5. ASSUME NEW d \in Ids, NEW tags \in (SUBSET Tags) \cup {Absent}, Edit(d, tags)
      PROVE  Fine
  <2>1. PICK r \in DeviceRow : r = Touched(d)[d]
    BY TouchedRow
  <2>2. PICK q \in DeviceRow : q = Tagged(r, tags) /\ q.runs = r.runs
    BY <1>1
  <2>3. device' = [device EXCEPT ![d] = q] /\ r.runs = device[d].runs /\ d \in Known
    BY <1>5, <2>1, <2>2, TouchedRow DEF Edit
  <2> QED
    BY <2>2, <2>3 DEF Rows
<1>6. ASSUME NEW d \in Ids, Delete(d)
      PROVE  Fine
  BY <1>6 DEF Delete, Rows
<1>7. ASSUME NEW d \in Ids, Upload(d)
      PROVE  Fine
  <2> HIDE DEF Fine
  <2> QED
    BY <1>2, <1>3, <1>7 DEF Upload, ReportFails, Touch
<1>8. ASSUME NEW d \in Ids, Registry(d)
      PROVE  Fine
  <2>1. (\E g \in Groups : AddToGroup(g, d) \/ RemoveFromGroup(g, d)) => device' = device
    BY DEF AddToGroup, RemoveFromGroup
  <2> HIDE DEF Fine
  <2> QED
    BY <1>3, <1>5, <1>6, <1>8, <2>1 DEF Registry
<1>9. ASSUME device' = device
      PROVE  Fine
  BY <1>9 DEF Rows
<1>10. \/ NextTick \/ UNCHANGED reachVars
       \/ \E g \in Groups : CreateGroup(g) \/ DeleteGroup(g)
       \/ \E c \in Campaigns :
            \/ \E b \in Targets, g \in Groups \cup {Absent} : Create(c, b, g)
            \/ Activate(c)
       => device' = device
  BY DEF NextTick, reachVars, CreateGroup, DeleteGroup, Create, Activate
<1> HIDE DEF Fine
<1>11. Fine
  BY <1>4, <1>7, <1>8, <1>9, <1>10 DEF ReachNext
<1> QED
  BY <1>11 DEF Fine

ReachInv == Dated /\ Rows /\ Recorded

LEMMA RecordedStep ==
  ASSUME ReachInv, [ReachNext]_reachVars
  PROVE  Recorded'
<1>1. Dated /\ Rows /\ Recorded
  BY DEF ReachInv
<1>2. PICK o \in Seq(Observation) : o = observed
  BY <1>1 DEF Dated
<1>3. /\ Len(observed') \in Nat /\ Len(observed') >= Len(o)
      /\ \A i \in 1 .. Len(o) : observed'[i] = o[i]
  <2>1. ASSUME NEW h \in [device : Ids, runs : Firmware, at : {now}]
        PROVE  /\ Len(Append(o, h)) \in Nat /\ Len(Append(o, h)) >= Len(o)
               /\ \A i \in 1 .. Len(o) : Append(o, h)[i] = o[i]
    OBVIOUS
  <2>2. \/ observed' = o
        \/ \E h \in [device : Ids, runs : Firmware, at : {now}] : observed' = Append(o, h)
    BY <1>1, <1>2, HistoryGrows
  <2> QED
    BY <2>1, <2>2
<1>4. ASSUME NEW d \in Known, device[d].runs # Unreported
      PROVE  \E i \in 1 .. Len(observed') :
                observed'[i].device = d /\ observed'[i].runs = device[d].runs
  <2>1. PICK i \in 1 .. Len(o) : o[i].device = d /\ o[i].runs = device[d].runs
    BY <1>1, <1>2, <1>4 DEF Recorded
  <2>2. i \in 1 .. Len(observed')
    BY <1>3
  <2> QED
    BY <1>3, <2>1, <2>2
<1>5. ASSUME NEW d \in Ids, NEW f \in Firmware, observed' = Observed(d, f), f # Unreported
      PROVE  \E i \in 1 .. Len(observed') :
                observed'[i].device = d /\ observed'[i].runs = f
  <2>1. CASE d \in Known /\ device[d].runs = f
    BY <1>4, <1>5, <2>1
  <2>2. CASE ~(d \in Known /\ device[d].runs = f)
    <3>1. PICK h : h = [device |-> d, runs |-> f, at |-> now]
      OBVIOUS
    <3>2. observed' = Append(o, h) /\ h.device = d /\ h.runs = f
      BY <1>2, <1>5, <2>2, <3>1 DEF Observed
    <3>3. Len(observed') = Len(o) + 1 /\ observed'[Len(o) + 1] = h
      BY <3>2
    <3> QED
      BY <3>2, <3>3
  <2> QED BY <2>1, <2>2
<1>6. ASSUME NEW d \in Ids, device'[d] # Absent, device'[d].runs # Unreported
      PROVE  \E i \in 1 .. Len(observed') :
                observed'[i].device = d /\ observed'[i].runs = device'[d].runs
  <2>1. \/ d \in Known /\ device'[d].runs = device[d].runs
        \/ \E f \in Firmware : device'[d].runs = f /\ observed' = Observed(d, f)
    BY <1>1, <1>6, RowsStep DEF Known
  <2> QED
    BY <1>4, <1>5, <1>6, <2>1
<1> QED
  BY <1>6 DEF Recorded, Known

LEMMA ReachInvHolds == ReachSpec => []ReachInv
<1>1. ReachInit => ReachInv
  <2>1. ReachInit => Rows /\ Recorded
    BY DEF ReachInit, Rows, Recorded, Known
  <2> QED
    BY <2>1, DatedInit DEF ReachInv
<1>2. ReachInv /\ [ReachNext]_reachVars => ReachInv'
  <2> SUFFICES ASSUME ReachInv, [ReachNext]_reachVars PROVE ReachInv'
    OBVIOUS
  <2>1. Rows'
    BY RowsStep DEF ReachInv, Rows
  <2> QED
    BY <2>1, DatedStep, RecordedStep DEF ReachInv
<1> QED
  BY <1>1, <1>2, PTL DEF ReachSpec

(* Who is on target and has reported has arrived at it.                    *)
LEMMA Explained ==
  ASSUME ReachInv
  PROVE  PatchesExplained
<1> SUFFICES ASSUME NEW c \in Campaigns, campaign[c] # Absent,
                    NEW d \in campaign[c].devices, d \notin Presumed(c),
                    ReachOf(c)[d].on_target
             PROVE  ReachOf(c)[d].patched_before_campaign <=> ReachOf(c)[d].time_to_patch = Absent
  BY DEF PatchesExplained
<1>1. PICK since : since = Since(c)
  OBVIOUS
<1>12. PICK b : b = campaign[c].target
  OBVIOUS
<1>2. PICK A : A = Arrivals(b, d)
  OBVIOUS
<1>3. PICK S : S = {t \in A : t >= since}
  OBVIOUS
<1>4. PICK B : B = {t \in A : t < since}
  OBVIOUS
<1>5. /\ RunsBuild(d, b)
      /\ ReachOf(c)[d].patched_before_campaign <=> Earliest(B) # Absent /\ Earliest(S) = Absent
      /\ ReachOf(c)[d].time_to_patch =
           IF Earliest(S) = Absent THEN Absent ELSE Earliest(S) - since
  BY <1>1, <1>2, <1>3, <1>4, <1>12 DEF ReachOf, Arrivals
<1>6. since \in Nat
  BY <1>1 DEF ReachInv, Dated, Since, Campaign
<1>7. A \subseteq Nat
  BY <1>2 DEF Arrivals
<1>8. A # {}
  <2>1. d \in Ids /\ d \in Known /\ device[d].runs.build = b
    BY <1>5 DEF RunsBuild, Known
  <2>2. device[d].runs # Unreported
    BY DEF Presumed
  <2>3. PICK o \in Seq(Observation) : o = observed
    BY DEF ReachInv, Dated
  <2>4. PICK i \in 1 .. Len(o) : o[i].device = d /\ o[i].runs = device[d].runs
    BY <2>1, <2>2, <2>3 DEF ReachInv, Recorded
  <2>5. o[i] \in Observation /\ i \in DOMAIN o
    BY <2>3
  <2>6. o[i] \in [device : {d}, runs : {f \in Firmware : f.build = b}, at : 0 .. MaxTime]
    BY <2>1, <2>4, <2>5 DEF Observation
  <2> QED
    BY <1>2, <2>3, <2>5, <2>6 DEF Arrivals
<1>9. ASSUME NEW T \in SUBSET Nat, T # {}
      PROVE  Earliest(T) \in T /\ Earliest(T) # Absent
  <2>1. PICK m \in T : \A n \in T : m <= n
    BY <1>9, LeastOfNat
  <2> QED
    BY <2>1, EarliestIsLeast, ReachAssumption
<1>10. CASE S = {}
  <2>1. B # {} /\ B \subseteq Nat
    <3>1. PICK t \in A : t \in Nat
      BY <1>7, <1>8
    <3>2. ~(t >= since)
      BY <1>3, <1>10, <3>1
    <3>3. t \in B
      BY <1>4, <1>6, <3>1, <3>2
    <3> QED BY <1>4, <1>7, <3>3
  <2>2. Earliest(B) # Absent /\ Earliest(S) = Absent
    BY <1>9, <1>10, <2>1 DEF Earliest
  <2> QED
    BY <1>5, <2>2
<1>11. CASE S # {}
  <2>1. Earliest(S) \in S /\ Earliest(S) # Absent
    BY <1>3, <1>7, <1>9, <1>11
  <2>2. PICK t \in Nat : t = Earliest(S) /\ t >= since
    BY <1>3, <1>7, <2>1
  <2>3. t - since \in Nat
    BY <1>6, <2>2
  <2> QED
    BY <1>5, <2>1, <2>2, <2>3, ReachAssumption
<1> QED BY <1>10, <1>11

Sorts(s, n, D, f) ==
  /\ s \in Bijection(1 .. n, D)
  /\ \A i, j \in 1 .. n : i <= j => f[s[i]] <= f[s[j]]

(* A finite set is in some order of the numbers of its elements.           *)
LEMMA PutFirst ==
  ASSUME NEW D, NEW f, \A x \in D : f[x] \in Nat, NEW n \in Nat,
         NEW d \in D, \A x \in D : f[d] <= f[x],
         NEW s, Sorts(s, n, D \ {d}, f)
  PROVE  \E z : Sorts(z, n + 1, D, f)
<1> DEFINE z == [i \in 1 .. n + 1 |-> IF i = 1 THEN d ELSE s[i - 1]]
<1>1. /\ s \in [1 .. n -> D \ {d}]
      /\ \A i, j \in 1 .. n : s[i] = s[j] => i = j
      /\ \A x \in D \ {d} : \E i \in 1 .. n : s[i] = x
      /\ \A i, j \in 1 .. n : i <= j => f[s[i]] <= f[s[j]]
  BY DEF Sorts, Bijection, Injection, Surjection, IsInjective
<1>2. /\ DOMAIN z = 1 .. n + 1 /\ 1 \in 1 .. n + 1 /\ z[1] = d
      /\ \A i \in 1 .. n : i + 1 \in 1 .. n + 1 /\ z[i + 1] = s[i]
      /\ \A i \in 1 .. n + 1 : i = 1 \/ (i - 1 \in 1 .. n /\ z[i] = s[i - 1])
  OBVIOUS
<1>3. z \in [1 .. n + 1 -> D]
  BY <1>1, <1>2
<1> HIDE DEF z
<1>4. \A i, j \in 1 .. n + 1 : z[i] = z[j] => i = j
  <2> SUFFICES ASSUME NEW i \in 1 .. n + 1, NEW j \in 1 .. n + 1, z[i] = z[j]
               PROVE  i = j
    OBVIOUS
  <2>1. CASE i = 1 \/ j = 1
    BY <1>1, <1>2, <2>1
  <2>2. CASE i # 1 /\ j # 1
    <3>1. s[i - 1] = s[j - 1] /\ i - 1 \in 1 .. n /\ j - 1 \in 1 .. n
      BY <1>2, <2>2
    <3>2. i - 1 = j - 1
      BY <1>1, <3>1
    <3> QED BY <3>2
  <2> QED BY <2>1, <2>2
<1>5. \A x \in D : \E i \in 1 .. n + 1 : z[i] = x
  BY <1>1, <1>2
<1>6. \A i, j \in 1 .. n + 1 : i <= j => f[z[i]] <= f[z[j]]
  <2> SUFFICES ASSUME NEW i \in 1 .. n + 1, NEW j \in 1 .. n + 1, i <= j
               PROVE  f[z[i]] <= f[z[j]]
    OBVIOUS
  <2>1. CASE i = 1
    BY <1>2, <1>3, <2>1
  <2>2. CASE i # 1
    <3>1. /\ i - 1 \in 1 .. n /\ j - 1 \in 1 .. n /\ i - 1 <= j - 1
          /\ z[i] = s[i - 1] /\ z[j] = s[j - 1]
      BY <1>2, <2>2
    <3> QED BY <1>1, <3>1
  <2> QED BY <2>1, <2>2
<1> QED BY <1>3, <1>4, <1>5, <1>6 DEF Sorts, Bijection, Injection, Surjection, IsInjective

LEMMA SortExists ==
  ASSUME NEW D, IsFiniteSet(D), NEW f, \A x \in D : f[x] \in Nat
  PROVE  \E s : Sorts(s, Cardinality(D), D, f)
<1> DEFINE Unsorted == {n \in Nat : \E S \in SUBSET D : /\ Cardinality(S) = n
                                                        /\ ~ \E s : Sorts(s, n, S, f)}
<1>1. SUFFICES Unsorted = {}
  <2>1. Cardinality(D) \in Nat
    BY FS_CardinalityType
  <2> QED BY <1>1, <2>1
<1>2. SUFFICES ASSUME Unsorted # {} PROVE FALSE
  OBVIOUS
<1>3. PICK m \in Unsorted : \A n \in Unsorted : m <= n
  <2>1. Unsorted \in SUBSET Nat
    OBVIOUS
  <2> HIDE DEF Unsorted
  <2> QED BY <1>2, <2>1, LeastOfNat
<1>4. PICK S \in SUBSET D : Cardinality(S) = m /\ ~ \E s : Sorts(s, m, S, f)
  OBVIOUS
<1>5. IsFiniteSet(S) /\ m \in Nat
  BY FS_Subset
<1>6. S # {}
  <2> SUFFICES ASSUME S = {} PROVE FALSE
    OBVIOUS
  <2>1. m = 0
    BY <1>4, FS_EmptySet
  <2>2. [i \in 1 .. 0 |-> i] \in Bijection(1 .. 0, {})
    BY DEF Bijection, Injection, Surjection, IsInjective
  <2>3. Sorts([i \in 1 .. 0 |-> i], 0, {}, f)
    BY <2>2 DEF Sorts
  <2> QED BY <1>4, <2>1, <2>3
<1>7. PICK d \in S : \A x \in S : f[d] <= f[x]
  <2> DEFINE V == {f[x] : x \in S}
  <2>1. V \in SUBSET Nat /\ V # {}
    BY <1>6
  <2>2. PICK v \in V : \A w \in V : v <= w
    <3> HIDE DEF V
    <3> QED BY <2>1, LeastOfNat
  <2> QED BY <2>2
<1>8. PICK k \in Nat : m = k + 1 /\ Cardinality(S \ {d}) = k
  <2>1. Cardinality(S \ {d}) = m - 1 /\ Cardinality(S \ {d}) \in Nat
    <3>1. IsFiniteSet(S \ {d})
      BY <1>5, FS_Subset
    <3> QED BY <1>4, <1>5, <3>1, FS_RemoveElement, FS_CardinalityType
  <2> QED BY <1>5, <2>1
<1>9. k \notin Unsorted
  BY <1>3, <1>5, <1>8
<1>10. \E s : Sorts(s, k, S \ {d}, f)
  <2>1. S \ {d} \in SUBSET D
    OBVIOUS
  <2> QED BY <1>8, <1>9, <2>1
<1>11. \A x \in S : f[x] \in Nat
  OBVIOUS
<1> HIDE DEF Unsorted
<1>12. \E z : Sorts(z, k + 1, S, f)
  BY <1>7, <1>8, <1>10, <1>11, PutFirst
<1> QED BY <1>4, <1>8, <1>12

(* Half of the times or more are on either side of the median.             *)
LEMMA MedianMiddle ==
  ASSUME NEW n \in Nat \ {0}, NEW t \in [1 .. n -> Nat],
         \A i, j \in 1 .. n : i <= j => t[i] <= t[j]
  PROVE  \E k \in 1 .. n :
           /\ 2 * k >= n
           /\ \A i \in 1 .. k : t[i] <= Median(t)
           /\ \A i \in 1 .. k : t[n - k + i] >= Median(t)
<1>1. Len(t) = n
  OBVIOUS
<1>2. CASE n % 2 = 1
  <2>1. PICK k \in 1 .. n : n = 2 * k - 1 /\ n \div 2 + 1 = k
    BY <1>2
  <2>2. Median(t) = t[k]
    BY <1>1, <1>2, <2>1 DEF Median
  <2>3. \A i \in 1 .. k : i \in 1 .. n /\ n - k + i \in 1 .. n /\ k <= n - k + i
    BY <2>1
  <2>4. ASSUME NEW i \in 1 .. k PROVE t[i] <= t[k] /\ t[n - k + i] >= t[k]
    BY <2>1, <2>3
  <2>5. PICK m : m = Median(t)
    OBVIOUS
  <2>6. 2 * k >= n /\ \A i \in 1 .. k : t[i] <= m /\ t[n - k + i] >= m
    BY <2>1, <2>2, <2>4, <2>5
  <2> QED BY <2>5, <2>6
<1>3. CASE n % 2 = 0
  <2>1. PICK k \in 1 .. n : n = 2 * k /\ n \div 2 = k /\ k + 1 \in 1 .. n
    BY <1>3
  <2>2. Median(t) = (t[k] + t[k + 1] + 1) \div 2
    BY <1>1, <1>3, <2>1 DEF Median
  <2>3. PICK a \in Nat, b \in Nat : a = t[k] /\ b = t[k + 1] /\ a <= b
    BY <2>1
  <2>4. a <= (a + b + 1) \div 2 /\ (a + b + 1) \div 2 <= b
    BY <2>3
  <2>5. \A i \in 1 .. k : i \in 1 .. n /\ n - k + i \in 1 .. n /\ k + 1 <= n - k + i
    BY <2>1
  <2>6. \A i \in 1 .. n : t[i] \in Nat
    OBVIOUS
  <2>7. PICK m \in Nat : m = (a + b + 1) \div 2
    BY <2>3
  <2>8. ASSUME NEW i \in 1 .. k PROVE t[i] <= m /\ t[n - k + i] >= m
    <3>1. t[i] <= a /\ b <= t[n - k + i] /\ t[i] \in Nat /\ t[n - k + i] \in Nat
      BY <2>1, <2>3, <2>5, <2>6
    <3>2. a <= m /\ m <= b
      BY <2>4, <2>7
    <3>3. PICK x \in Nat, y \in Nat : x = t[i] /\ y = t[n - k + i] /\ x <= a /\ b <= y
      BY <3>1
    <3>4. x <= m /\ y >= m
      BY <2>7, <3>2, <3>3
    <3> QED BY <3>3, <3>4
  <2>9. Median(t) = m
    BY <2>2, <2>3, <2>7
  <2>10. 2 * k >= n
    BY <2>1
  <2> QED BY <2>8, <2>9, <2>10
<1> QED BY <1>2, <1>3

(* What each device is told of.                                            *)
LEMMA ReachRows ==
  ASSUME ReachInv, NEW c \in Campaigns, campaign[c] # Absent
  PROVE  /\ DOMAIN ReachOf(c) = campaign[c].devices
         /\ campaign[c].devices \subseteq Ids
         /\ \A d \in campaign[c].devices :
              ReachOf(c)[d].time_to_patch \in Nat \cup {Absent}
<1>1. campaign[c].devices \subseteq Ids /\ Since(c) \in Nat
  BY DEF ReachInv, Dated, Since, Campaign
<1>2. ASSUME NEW d \in campaign[c].devices
      PROVE  ReachOf(c)[d].time_to_patch \in Nat \cup {Absent}
  <2> DEFINE S == {t \in Arrivals(campaign[c].target, d) : t >= Since(c)}
  <2>1. S \in SUBSET Nat
    BY DEF Arrivals
  <2>2. ReachOf(c)[d].time_to_patch = IF Earliest(S) = Absent THEN Absent ELSE Earliest(S) - Since(c)
    BY DEF ReachOf, Arrivals
  <2>3. CASE S = {}
    BY <2>2, <2>3 DEF Earliest
  <2>4. CASE S # {}
    <3> HIDE DEF S
    <3>1. PICK m \in S : \A n \in S : m <= n
      BY <2>1, <2>4, LeastOfNat
    <3>2. Earliest(S) = m
      BY <2>1, <3>1, EarliestIsLeast
    <3>3. m \in Nat /\ m >= Since(c)
      BY <2>1, <3>1 DEF S
    <3>4. m - Since(c) \in Nat
      BY <1>1, <3>3
    <3> QED BY <2>2, <3>2, <3>4
  <2> QED BY <2>3, <2>4
<1> QED BY <1>1, <1>2 DEF ReachOf

(* A number of the devices that s sorts.                                   *)
LEMMA Picked ==
  ASSUME NEW D, IsFiniteSet(D), NEW n \in Nat, NEW s \in Bijection(1 .. n, D),
         NEW k \in Nat, NEW l \in Nat, l + k <= n,
         NEW P \in SUBSET D, \A i \in 1 .. k : s[l + i] \in P
  PROVE  Cardinality(P) \in Nat /\ Cardinality(P) >= k
<1> DEFINE Q == {s[l + i] : i \in 1 .. k}
           f == [i \in 1 .. k |-> s[l + i]]
<1>1. /\ s \in [1 .. n -> D]
      /\ \A i, j \in 1 .. n : s[i] = s[j] => i = j
  BY DEF Bijection, Injection, IsInjective
<1>2. \A i \in 1 .. k : l + i \in 1 .. n
  OBVIOUS
<1>3. f \in [1 .. k -> Q] /\ \A x \in Q : \E i \in 1 .. k : f[i] = x
  OBVIOUS
<1>4. \A i, j \in 1 .. k : f[i] = f[j] => i = j
  <2> SUFFICES ASSUME NEW i \in 1 .. k, NEW j \in 1 .. k, f[i] = f[j] PROVE i = j
    OBVIOUS
  <2>1. s[l + i] = s[l + j]
    OBVIOUS
  <2>2. l + i = l + j
    BY <1>1, <1>2, <2>1
  <2> QED BY <2>2
<1>5. Q \subseteq P
  OBVIOUS
<1> HIDE DEF Q, f
<1>6. f \in Bijection(1 .. k, Q)
  BY <1>3, <1>4 DEF Bijection, Injection, Surjection, IsInjective
<1>7. Cardinality(Q) = k
  <2>1. IsFiniteSet(1 .. k) /\ Cardinality(1 .. k) = k
    BY FS_Interval
  <2> QED BY <1>6, <2>1, FS_Bijection DEF ExistsBijection
<1>8. IsFiniteSet(P)
  BY FS_Subset
<1> QED BY <1>5, <1>7, <1>8, FS_Subset, FS_CardinalityType

LEMMA UnionAtMost ==
  ASSUME NEW X, NEW Y, IsFiniteSet(X), IsFiniteSet(Y)
  PROVE  /\ IsFiniteSet(X \cup Y)
         /\ Cardinality(X \cup Y) <= Cardinality(X) + Cardinality(Y)
<1>1. /\ Cardinality(X) \in Nat /\ Cardinality(Y) \in Nat
      /\ IsFiniteSet(X \cap Y) /\ Cardinality(X \cap Y) \in Nat
  BY FS_Subset, FS_CardinalityType
<1>2. /\ IsFiniteSet(X \cup Y)
      /\ Cardinality(X \cup Y)
           = Cardinality(X) + Cardinality(Y) - Cardinality(X \cap Y)
  BY FS_Union
<1> QED BY <1>1, <1>2

LEMMA SummariesAgree ==
  ASSUME ReachInv, PatchesExplained, NEW c \in Campaigns, campaign[c] # Absent
  PROVE  SummaryAgrees(c)
<1> DEFINE D == campaign[c].devices
<1>1. PICK of : of = ReachOf(c)
  OBVIOUS
<1>2. /\ DOMAIN of = D /\ D \subseteq Ids
      /\ \A d \in D : of[d].time_to_patch \in Nat \cup {Absent}
      /\ Presumed(c) \subseteq D
      /\ \A d \in D \ Presumed(c) : of[d].on_target =>
           (of[d].patched_before_campaign <=> of[d].time_to_patch = Absent)
  BY <1>1, ReachRows DEF PatchesExplained, Presumed
<1>3. IsFiniteSet(D)
  BY <1>2, ReachAssumption, FS_Subset
<1> HIDE DEF D
<1> DEFINE T == Timed(of)
           s == ByTime(of)
           n == Cardinality(T)
           On == {x \in DOMAIN of : of[x].on_target}
           Away == {x \in DOMAIN of : ~of[x].on_target /\ ~of[x].reachable}
           Before == {d \in DOMAIN of : of[d].patched_before_campaign}
           Pre == Presumed(c)
           times == [i \in DOMAIN s |-> of[s[i]].time_to_patch]
           median == Median(times)
           Below == {d \in T : of[d].time_to_patch <= median}
           Above == {d \in T : of[d].time_to_patch >= median}
<1>4. /\ T \subseteq D /\ \A d \in T : of[d].time_to_patch \in Nat
      /\ T = {d \in D : of[d].time_to_patch # Absent}
  BY <1>2, ReachAssumption DEF Timed
<1>5. IsFiniteSet(T) /\ n \in Nat
  BY <1>3, <1>4, FS_Subset, FS_CardinalityType
<1>6. Cardinality(On) <= n + Cardinality(Pre) + Cardinality(Before)
  <2>1. On \subseteq (T \cup Before) \cup Pre
    BY <1>2, <1>4
  <2>2. Before \subseteq D /\ On \subseteq D /\ Pre \subseteq D
    BY <1>2
  <2> HIDE DEF T, On, Before, Pre
  <2>3. /\ IsFiniteSet(Before) /\ Cardinality(Before) \in Nat
        /\ IsFiniteSet(Pre) /\ Cardinality(Pre) \in Nat
        /\ Cardinality(On) \in Nat
    BY <1>3, <2>2, FS_Subset, FS_CardinalityType
  <2>4. /\ IsFiniteSet(T \cup Before)
        /\ Cardinality(T \cup Before) <= n + Cardinality(Before)
    BY <1>5, <2>3, UnionAtMost DEF n
  <2>5. /\ IsFiniteSet((T \cup Before) \cup Pre)
        /\ Cardinality((T \cup Before) \cup Pre)
             <= Cardinality(T \cup Before) + Cardinality(Pre)
    BY <2>3, <2>4, UnionAtMost
  <2>6. Cardinality(On) <= Cardinality((T \cup Before) \cup Pre)
    BY <2>1, <2>5, FS_Subset
  <2>7. /\ Cardinality(T \cup Before) \in Nat
        /\ Cardinality((T \cup Before) \cup Pre) \in Nat
    BY <2>4, <2>5, FS_CardinalityType
  <2> QED BY <1>5, <2>3, <2>4, <2>5, <2>6, <2>7
<1>7. Cardinality(Away) <= Cardinality(DOMAIN of) - Cardinality(On)
  <2>1. Away \subseteq D \ On /\ On \subseteq D /\ D \cap On = On
    BY <1>2
  <2> HIDE DEF On, Away
  <2>2. IsFiniteSet(D \ On) /\ Cardinality(D \ On) = Cardinality(D) - Cardinality(On)
    BY <1>3, <2>1, FS_Difference
  <2> QED BY <1>2, <2>1, <2>2, FS_Subset
<1>8. n > 0 => 2 * Cardinality(Below) >= n /\ 2 * Cardinality(Above) >= n
  <2> SUFFICES ASSUME n > 0 PROVE 2 * Cardinality(Below) >= n /\ 2 * Cardinality(Above) >= n
    OBVIOUS
  <2> DEFINE f == [x \in T |-> of[x].time_to_patch]
  <2>1. \A x \in T : f[x] = of[x].time_to_patch /\ f[x] \in Nat
    BY <1>4
  <2> HIDE DEF f, T, n
  <2>2. \E z : Sorts(z, n, T, f)
    BY <1>5, <2>1, SortExists DEF n
  <2>3. \E z \in Bijection(1 .. n, T) :
          \A i, j \in DOMAIN z : i <= j => of[z[i]].time_to_patch <= of[z[j]].time_to_patch
    <3>1. PICK z : Sorts(z, n, T, f)
      BY <2>2
    <3>2. z \in Bijection(1 .. n, T) /\ z \in [1 .. n -> T]
      BY <3>1 DEF Sorts, Bijection, Injection
    <3>3. \A i, j \in DOMAIN z : i <= j => of[z[i]].time_to_patch <= of[z[j]].time_to_patch
      BY <2>1, <3>1, <3>2 DEF Sorts
    <3> QED BY <3>2, <3>3
  <2>4. /\ s \in Bijection(1 .. n, T)
        /\ \A i, j \in DOMAIN s : i <= j => of[s[i]].time_to_patch <= of[s[j]].time_to_patch
    BY <2>3 DEF ByTime, T, n
  <2> HIDE DEF s
  <2>5. s \in [1 .. n -> T] /\ DOMAIN s = 1 .. n
    BY <2>4 DEF Bijection, Injection
  <2>6. /\ times \in [1 .. n -> Nat]
        /\ \A i \in 1 .. n : times[i] = of[s[i]].time_to_patch
        /\ \A i, j \in 1 .. n : i <= j => times[i] <= times[j]
    BY <1>4, <2>4, <2>5 DEF T
  <2> HIDE DEF times
  <2>7. PICK k \in 1 .. n :
           /\ 2 * k >= n
           /\ \A i \in 1 .. k : times[i] <= median
           /\ \A i \in 1 .. k : times[n - k + i] >= median
    <3>1. n \in Nat \ {0}
      BY <1>5
    <3> QED BY <2>6, <3>1, MedianMiddle DEF median
  <2> HIDE DEF median
  <2>8. PICK l \in Nat : l = n - k /\ l + k <= n
    BY <1>5
  <2>14. n \in Nat /\ k \in Nat
    BY <1>5
  <2>9. \A i \in 1 .. k : s[0 + i] \in Below
    <3> SUFFICES ASSUME NEW i \in 1 .. k PROVE s[0 + i] \in Below
      OBVIOUS
    <3>1. 0 + i = i /\ i \in 1 .. n
      BY <2>14
    <3> QED BY <2>5, <2>6, <2>7, <3>1
  <2>10. \A i \in 1 .. k : s[l + i] \in Above
    <3> SUFFICES ASSUME NEW i \in 1 .. k PROVE s[l + i] \in Above
      OBVIOUS
    <3>1. l + i = n - k + i /\ l + i \in 1 .. n
      BY <2>8, <2>14
    <3> QED BY <2>5, <2>6, <2>7, <3>1
  <2>11. Below \in SUBSET T /\ Above \in SUBSET T
    OBVIOUS
  <2> HIDE DEF Below, Above
  <2>12. Cardinality(Below) \in Nat /\ Cardinality(Below) >= k
    BY <1>5, <2>4, <2>9, <2>11, Picked
  <2>13. Cardinality(Above) \in Nat /\ Cardinality(Above) >= k
    <3>1. l + k <= n
      BY <2>8
    <3> QED BY <1>5, <2>4, <2>10, <2>11, <2>14, <3>1, Picked
  <2> QED BY <1>5, <2>7, <2>12, <2>13
<1>9. /\ Summary(c).on_target = Cardinality(On)
      /\ Summary(c).unreachable = Cardinality(Away)
      /\ Summary(c).targeted = Cardinality(DOMAIN of)
      /\ Summary(c).count = n
      /\ Summary(c).median = median
  BY <1>1 DEF Summary
<1> QED BY <1>1, <1>6, <1>7, <1>8, <1>9 DEF SummaryAgrees

LEMMA CountsInHistory ==
  ASSUME ReachInv
  PROVE  CountsAgree
<1> SUFFICES ASSUME NEW f \in DOMAIN Distribution(Absent, Absent) \ {Unreported}
             PROVE  Distribution(Absent, Absent)[f].devices
                      <= Cardinality({d \in Known : \E i \in DOMAIN FirmwareHistory(d) :
                                                      FirmwareHistory(d)[i].runs = f})
  BY DEF CountsAgree
<1> DEFINE Runs == {d \in Known : device[d].runs = f}
           Once == {d \in Known : \E i \in DOMAIN FirmwareHistory(d) :
                                   FirmwareHistory(d)[i].runs = f}
<1>1. Distribution(Absent, Absent)[f].devices = Cardinality(Runs)
  <2>1. MembersOf(Absent) = Known
    BY DEF MembersOf
  <2>2. {d \in MembersOf(Absent) : Absent = Absent \/ Absent \in device[d].tags} = Known
    BY <2>1
  <2> QED BY <2>2 DEF Distribution
<1>2. Runs \subseteq Once
  <2> SUFFICES ASSUME NEW d \in Runs PROVE d \in Once
    OBVIOUS
  <2>1. PICK i \in 1 .. Len(observed) : observed[i].device = d /\ observed[i].runs = f
    BY DEF ReachInv, Recorded
  <2>2. i \in DOMAIN observed
    BY DEF ReachInv, Dated
  <2>3. i \in DOMAIN FirmwareHistory(d) /\ FirmwareHistory(d)[i] = observed[i]
    BY <2>1, <2>2 DEF FirmwareHistory
  <2> QED BY <2>1, <2>3
<1>3. IsFiniteSet(Once)
  BY ReachAssumption, FS_Subset DEF Known
<1> QED BY <1>1, <1>2, <1>3, FS_Subset

(* Whatever was registered, deleted, regrouped or failed, and whatever     *)
(* builds campaigns roll out, the three reports tell the same, and half of *)
(* the times are on either side of the median; the devices that never      *)
(* reported, which a campaign for build 0 counts as on target, are told    *)
(* apart (store.rs:486, 1680, 1725).                                       *)
THEOREM ReportsAgreeCorrect == ReachSpec => []ReportsAgree
<1>1. ReachInv => ReportsAgree
  BY Explained, CountsInHistory, SummariesAgree DEF ReportsAgree
<1> QED
  BY <1>1, ReachInvHolds, PTL

-----------------------------------------------------------------------------
(* RateLimit *)

USE DEF AtMost, Refilled, Left, Bucket

(* Time that passes in two parts fills as much as in one (rate_limit.rs:51). *)
LEMMA FillsOn ==
  ASSUME NEW t \in Nat, NEW g \in Nat
  PROVE  AtMost(Burst, t + (g + 1) * Rate)
           = AtMost(Burst, AtMost(Burst, t + g * Rate) + Rate)
<1>1. /\ Rate \in Nat /\ Burst \in Nat
      /\ g * Rate \in Nat
  BY RateLimitAssumption
<1>2. (g + 1) * Rate = g * Rate + Rate
  BY <1>1
<1> QED
  BY <1>1, <1>2

(* A bucket that is dropped is full (rate_limit.rs:67).                    *)
LEMMA DroppedIsFull ==
  ASSUME NEW b \in Bucket, b.age >= StaleAfter
  PROVE  Refilled(b) = Burst
<1>1. /\ b.age \in Nat /\ b.tokens \in Nat /\ b # NoBucket
  BY RateLimitAssumption
<1>2. b.age * Rate >= StaleAfter * Rate
  <2>1. PICK d \in Nat : b.age = StaleAfter + d
    <3>1. b.age - StaleAfter \in Nat
      BY <1>1, RateLimitAssumption
    <3> QED
      BY <3>1, <1>1, RateLimitAssumption
  <2>2. b.age * Rate = StaleAfter * Rate + d * Rate
    BY <2>1, RateLimitAssumption
  <2>3. d * Rate \in Nat /\ StaleAfter * Rate \in Nat
    BY <2>1, RateLimitAssumption
  <2> QED
    BY <2>2, <2>3
<1>3. b.age * Rate \in Nat
  BY <1>1, RateLimitAssumption
<1> QED
  BY <1>1, <1>2, <1>3, RateLimitAssumption

(* Buckets hold no more than a burst.                                      *)
THEOREM LimitTypes == LimitSpec => []LimitTypeOK
<1>1. LimitInit => LimitTypeOK
  BY RateLimitAssumption DEF LimitInit, LimitTypeOK
<1>2. LimitTypeOK /\ [LimitNext]_limitVars => LimitTypeOK'
  <2> SUFFICES ASSUME LimitTypeOK, [LimitNext]_limitVars
               PROVE  LimitTypeOK'
    OBVIOUS
  <2>1. CASE Pass
    BY <2>1, RateLimitAssumption DEF Pass, LimitTypeOK
  <2>2. CASE Cleanup
    BY <2>2 DEF Cleanup, LimitTypeOK
  <2>3. ASSUME NEW c \in Clients, TryAcquire(c) PROVE LimitTypeOK'
    <3> DEFINE a == AddressOf[c]
    <3>1. a \in Addresses
      BY RateLimitAssumption DEF AddressOf
    <3>2. Left[a] \in 0 .. Burst
      <4>1. CASE bucket[a] = NoBucket
        BY <4>1, <3>1, RateLimitAssumption
      <4>2. CASE bucket[a] # NoBucket
        <5>1. bucket[a].tokens \in Nat /\ bucket[a].age \in Nat
          BY <4>2, <3>1, RateLimitAssumption DEF LimitTypeOK
        <5>2. bucket[a].age * Rate \in Nat
          BY <5>1, RateLimitAssumption
        <5> QED
          BY <4>2, <3>1, <5>1, <5>2, RateLimitAssumption
      <4> QED
        BY <4>1, <4>2
    <3>3. Spent(Left[a]) \in 0 .. Burst
      BY <3>2, RateLimitAssumption DEF Spent
    <3>4. [tokens |-> Spent(Left[a]), age |-> 0] \in Bucket
      BY <3>3, RateLimitAssumption
    <3>5. bucket' \in [Addresses -> Bucket \cup {NoBucket}]
      BY <2>3, <3>1, <3>4 DEF TryAcquire, LimitTypeOK
    <3>6. own' \in [Clients -> 0 .. Burst]
      BY <2>3, RateLimitAssumption DEF TryAcquire, LimitTypeOK, Spent
    <3> QED
      BY <3>5, <3>6 DEF LimitTypeOK
  <2>4. CASE UNCHANGED limitVars
    BY <2>4 DEF limitVars, LimitTypeOK
  <2> QED
    BY <2>1, <2>2, <2>3, <2>4 DEF LimitNext
<1> QED
  BY <1>1, <1>2, PTL DEF LimitSpec

(* Filling lazily and forgetting cannot be told from an allowance that     *)
(* grows all the time (rate_limit.rs:41, 67).                              *)
THEOREM MeteredHolds == LimitSpec => Metered
<1>1. LimitInit => M!MeterInit
  BY DEF LimitInit, M!MeterInit
<1>2. LimitTypeOK /\ [LimitNext]_limitVars => [M!MeterNext]_<<Left, answer>>
  <2> SUFFICES ASSUME LimitTypeOK, [LimitNext]_limitVars
               PROVE  [M!MeterNext]_<<Left, answer>>
    OBVIOUS
  <2>1. CASE Pass
    <3>1. ASSUME NEW a \in Addresses
          PROVE  Left'[a] = AtMost(Burst, Left[a] + Rate)
      <4>1. CASE bucket[a] = NoBucket
        BY <4>1, <2>1, RateLimitAssumption DEF Pass
      <4>2. CASE bucket[a] # NoBucket
        <5>1. bucket[a] \in Bucket
          BY <4>2 DEF LimitTypeOK
        <5>2. bucket'[a] = [bucket[a] EXCEPT !.age = @ + 1]
          BY <4>2, <2>1 DEF Pass
        <5>3. /\ bucket'[a].tokens = bucket[a].tokens
              /\ bucket'[a].age = bucket[a].age + 1
              /\ bucket'[a] # NoBucket
          BY <5>1, <5>2, RateLimitAssumption
        <5>4. bucket[a].tokens \in Nat /\ bucket[a].age \in Nat
          BY <5>1, RateLimitAssumption
        <5> QED
          BY <5>3, <5>4, <4>2, FillsOn
      <4> QED
        BY <4>1, <4>2
    <3>2. M!Grow
      BY <3>1, <2>1 DEF M!Grow, M!Least, Pass
    <3> QED
      BY <3>2 DEF M!MeterNext
  <2>2. CASE Cleanup
    <3>1. ASSUME NEW a \in Addresses PROVE Left'[a] = Left[a]
      BY <2>2, DroppedIsFull, RateLimitAssumption DEF Cleanup, LimitTypeOK
    <3> QED
      BY <3>1, <2>2 DEF Cleanup
  <2>3. ASSUME NEW c \in Clients, TryAcquire(c) PROVE M!MeterNext
    <3> DEFINE a == AddressOf[c]
    <3>1. a \in Addresses
      BY RateLimitAssumption DEF AddressOf
    <3>2. Left[a] \in 0 .. Burst
      <4>1. CASE bucket[a] = NoBucket
        BY <4>1, <3>1, RateLimitAssumption
      <4>2. CASE bucket[a] # NoBucket
        <5>1. bucket[a].tokens \in Nat /\ bucket[a].age \in Nat
          BY <4>2, <3>1, RateLimitAssumption DEF LimitTypeOK
        <5>2. bucket[a].age * Rate \in Nat
          BY <5>1, RateLimitAssumption
        <5> QED
          BY <4>2, <3>1, <5>1, <5>2, RateLimitAssumption
      <4> QED
        BY <4>1, <4>2
    <3>3. bucket'[a] = [tokens |-> Spent(Left[a]), age |-> 0]
      BY <2>3, <3>1 DEF TryAcquire, LimitTypeOK
    <3>4. Left'[a] = Spent(Left[a])
      <4>1. Spent(Left[a]) \in 0 .. Burst
        BY <3>2, RateLimitAssumption DEF Spent
      <4>2. bucket'[a] \in [tokens : Nat, age : Nat] /\ bucket'[a] # NoBucket
        BY <3>3, <4>1, RateLimitAssumption
      <4>3. Left'[a] = AtMost(Burst, Spent(Left[a]) + 0 * Rate)
        BY <3>1, <3>3, <4>2
      <4> QED
        BY <4>1, <4>3, RateLimitAssumption
    <3>5. \A o \in Addresses \ {a} : Left'[o] = Left[o]
      BY <2>3 DEF TryAcquire, LimitTypeOK
    <3>6. Left' = IF Left[a] >= Cost THEN [Left EXCEPT ![a] = @ - Cost] ELSE Left
      BY <3>1, <3>4, <3>5 DEF Spent
    <3>7. M!Ask(c)
      BY <3>6, <2>3 DEF M!Ask, TryAcquire
    <3> QED
      BY <3>7 DEF M!MeterNext
  <2>4. CASE UNCHANGED limitVars
    BY <2>4 DEF limitVars
  <2> QED
    BY <2>1, <2>2, <2>3, <2>4 DEF LimitNext
<1> QED
  BY <1>1, <1>2, LimitTypes, PTL DEF LimitSpec, Metered, M!MeterSpec
=============================================================================
