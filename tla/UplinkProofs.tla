---------------------------- MODULE UplinkProofs ----------------------------
(***************************************************************************)
(* First the agent on its own: proofs for every spool size and every       *)
(* number of reports, boots and faults, and whatever it is answered.       *)
(*                                                                         *)
(* Then the whole chain: the agent in it still behaves as the agent of     *)
(* module Agent does, since module Uplink only restricts which answers it  *)
(* is given and when; what is proved of the agent holds on every route.    *)
(* What is sealed stays with its device, beside the Bluetooth scanner;     *)
(* reports arrive oldest first; and the chain implements module Delivery.  *)
(*                                                                         *)
(* The last argument goes step by step.  Each step of the gateway keeps a  *)
(* chunk, gives it to the server or wrecks it (Carries); each step of the  *)
(* agent keeps a report, drops it, or could send it (Keeps); a POST ties   *)
(* the two, because while it is out the report being sent is in the        *)
(* gateway or has come to its end there (PostInv).                         *)
(***************************************************************************)
EXTENDS MCUplink, FiniteSetTheorems, WellFoundedInduction, TLAPS


(* What SpoolInOrder needs besides itself: file numbers have a bound, so   *)
(* that a last file exists when the spool is opened; a report in hand is   *)
(* the last one made; and flush only sends files that are there.           *)
HandInv ==
  /\ \E bound \in Nat : \A i \in Files : i < bound
  /\ agent.hand # None => agent.hand = Len(reports)
  /\ agent.stage \in {"idle", "off"} <=> agent.hand = None
  /\ agent.left \subseteq Files

(* What RebootOnce needs: boot.json runs ahead of every reboot found, so   *)
(* the next one found has a number nobody has used.                        *)
SequenceInv ==
  /\ saved = None => found = {}
  /\ saved # None => /\ saved.sequence < saved.boot
                     /\ saved.boot <= boot
                     /\ found \subseteq 1 .. saved.sequence
  /\ unsaid \subseteq found
  /\ agent.stage = "off" => agent.pending = 0

AgentInv == AgentTypeOK /\ HandInv /\ SequenceInv /\ SpoolInOrder /\ RebootOnce

-----------------------------------------------------------------------------
(* A non-empty set of numbers with an upper bound has a greatest element.  *)
LEMMA LastIsLast ==
  ASSUME NEW S, S \subseteq Nat, S # {},
         NEW bound \in Nat, \A i \in S : i < bound
  PROVE  Last(S) \in S /\ \A j \in S : j <= Last(S)
<1> DEFINE R == OpToRel(<, Nat)
           T == {bound - i : i \in S}
<1>1. IsWellFoundedOn(R, Nat)
  BY NatLessThanWellFounded
<1>2. T \subseteq Nat /\ T # {}
  <2>1. \A i \in S : i \in Nat /\ i < bound /\ bound - i \in Nat
    OBVIOUS
  <2> QED BY <2>1
<1>3. PICK t \in T : \A u \in T : ~ (<<u, t>> \in R)
  <2> HIDE DEF R, T
  <2> QED BY <1>1, <1>2, WFMin
<1>4. \A u \in T : ~ (u < t)
  BY <1>2, <1>3 DEF OpToRel
<1>5. PICK m \in S : t = bound - m
  OBVIOUS
<1>6. \A j \in S : j <= m
  <2> TAKE j \in S
  <2>1. bound - j \in T
    OBVIOUS
  <2>2. ~ (bound - j < bound - m)
    BY <1>4, <1>5, <2>1
  <2>3. j \in Nat /\ m \in Nat
    BY <1>5
  <2> QED BY <2>2, <2>3
<1> QED BY <1>5, <1>6 DEF Last

(* A non-empty set of numbers has a least element.                         *)
LEMMA FirstIsFirst ==
  ASSUME NEW S, S \subseteq Nat, S # {}
  PROVE  First(S) \in S /\ \A j \in S : First(S) <= j
<1> DEFINE R == OpToRel(<, Nat)
<1>1. IsWellFoundedOn(R, Nat)
  BY NatLessThanWellFounded
<1>2. PICK m \in S : \A j \in S : ~ (<<j, m>> \in R)
  <2> HIDE DEF R
  <2> QED BY <1>1, WFMin
<1>3. \A j \in S : ~ (j < m)
  BY <1>2 DEF OpToRel
<1>4. \A j \in S : m <= j
  BY <1>3
<1> QED BY <1>4 DEF First

(* The number of the next file is above those of all files. *)
LEMMA NextFileIsNext ==
  ASSUME Files \subseteq Nat,
         \E bound \in Nat : \A i \in Files : i < bound
  PROVE  NextFile \in Nat /\ \A i \in Files : i < NextFile
<1>1. CASE Files = {}
  BY <1>1 DEF NextFile
<1>2. CASE Files # {}
  <2>1. PICK bound \in Nat : \A i \in Files : i < bound
    OBVIOUS
  <2>2. Last(Files) \in Files /\ \A j \in Files : j <= Last(Files)
    <3> DEFINE S == Files
    <3>1. S \subseteq Nat /\ S # {} /\ \A i \in S : i < bound
      BY <1>2, <2>1
    <3> HIDE DEF S
    <3>2. Last(S) \in S /\ \A j \in S : j <= Last(S)
      BY <2>1, <3>1, LastIsLast
    <3> QED BY <3>2 DEF S
  <2>3. Last(Files) \in Nat /\ \A i \in Files : i \in Nat
    BY <2>2
  <2>4. NextFile = Last(Files) + 1
    BY <1>2 DEF NextFile
  <2> HIDE DEF Files
  <2>5. \A i \in Files : i < Last(Files) + 1
    BY <2>2, <2>3
  <2> QED BY <2>3, <2>4, <2>5
<1> QED BY <1>1, <1>2

-----------------------------------------------------------------------------
(* The parts of a step that several actions share. *)

LEMMA GiveUpKeeps ==
  ASSUME AgentInv, agent.stage # "off", GiveUp
  PROVE  AgentInv'
<1> USE DEF AgentInv
<1>1. AgentTypeOK'
  <2>1. agent' \in [stage : Stages, next : Nat, pending : 0 .. MaxBoots,
                    left : SUBSET Nat, hand : Report \cup {None}]
    BY DEF GiveUp, Rest, AgentTypeOK, Stages
  <2>2. faults' \in 0 .. MaxFaults
    BY AgentAssumption DEF GiveUp, AgentTypeOK
  <2> QED BY <2>1, <2>2 DEF GiveUp, AgentTypeOK, disk, aHistory, Files
<1>2. HandInv' /\ SequenceInv' /\ SpoolInOrder' /\ RebootOnce'
  BY DEF GiveUp, Rest, AgentTypeOK, HandInv, SequenceInv, SpoolInOrder,
     RebootOnce, disk, aHistory, Files
<1> QED BY <1>1, <1>2

LEMMA PushKeeps ==
  ASSUME AgentInv, agent.hand # None, Push
  PROVE  AgentInv'
<1> USE DEF AgentInv
<1>1. PICK trims \in BOOLEAN :
        LET files  == Files \cup {agent.next}
            excess == {i \in files : trims /\
                         Cardinality({j \in files : j >= i}) > MaxSpooled}
            all    == [i \in files |-> IF i = agent.next THEN agent.hand
                                                         ELSE spool[i]]
        IN /\ spool' = [i \in files \ excess |-> all[i]]
           /\ dropped' = dropped \cup {all[i] : i \in excess}
           /\ faults' = IF trims THEN faults ELSE faults + 1
           /\ trims \/ (faults < MaxFaults /\ Cardinality(files) > MaxSpooled)
  BY DEF Push
<1> DEFINE files  == Files \cup {agent.next}
           excess == {i \in files : trims /\
                        Cardinality({j \in files : j >= i}) > MaxSpooled}
           all    == [i \in files |-> IF i = agent.next THEN agent.hand
                                                        ELSE spool[i]]
<1>2. /\ excess \subseteq files
      /\ spool' = [i \in files \ excess |-> all[i]]
      /\ dropped' = dropped \cup {all[i] : i \in excess}
      /\ faults' \in 0 .. MaxFaults
  BY <1>1, AgentAssumption DEF AgentTypeOK
<1>3. /\ agent' = [Rest EXCEPT !.next = agent.next + 1]
      /\ UNCHANGED <<boot, saved, reports, found, unsaid>>
  BY DEF Push
<1> HIDE DEF excess
<1>4. /\ Files \subseteq Nat /\ agent.next \in Nat
      /\ agent.stage # "off"
      /\ agent.hand \in Report /\ agent.hand = Len(reports)
      /\ \A i \in Files : i < agent.next /\ spool[i] \in Report
                        /\ spool[i] < agent.hand
  BY DEF AgentTypeOK, HandInv, SpoolInOrder
<1>5. /\ files \subseteq Nat
      /\ \A i \in files : all[i] \in Report /\ all[i] <= Len(reports)
                        /\ i < agent.next + 1
  <2>1. files \subseteq Nat
    BY <1>4
  <2> SUFFICES ASSUME NEW i \in files
               PROVE  all[i] \in Report /\ all[i] <= Len(reports)
                        /\ i < agent.next + 1
    BY <2>1
  <2>2. CASE i = agent.next
    <3>1. all[i] = agent.hand
      BY <2>2
    <3> QED BY <1>4, <2>2, <3>1, AgentAssumption DEF Report
  <2>3. CASE i # agent.next
    <3>1. i \in Files /\ all[i] = spool[i]
      BY <2>3
    <3>2. i \in Nat /\ i < agent.next /\ spool[i] \in Report
            /\ spool[i] < agent.hand
      BY <1>4, <3>1
    <3> QED BY <1>4, <3>1, <3>2, AgentAssumption DEF Report
  <2> QED BY <2>2, <2>3
<1>6. \A i, j \in files : i < j => all[i] < all[j]
  BY <1>4 DEF SpoolInOrder
<1>7. /\ Files' = files \ excess
      /\ \A i \in Files' : spool'[i] = all[i]
  BY <1>2 DEF Files
<1>8. agent' = [stage |-> "idle", next |-> agent.next + 1,
                pending |-> agent.pending, left |-> {}, hand |-> None]
  BY <1>3 DEF Rest, AgentTypeOK
<1> HIDE DEF files, all
<1>9. AgentTypeOK'
  <2>1. /\ Files' \subseteq Nat
        /\ \A i \in Files' : spool'[i] \in Report
        /\ dropped' \subseteq Report
    BY <1>2, <1>5, <1>7 DEF AgentTypeOK
  <2>2. agent' \in [stage : Stages, next : Nat, pending : 0 .. MaxBoots,
                    left : SUBSET Nat, hand : Report \cup {None}]
    BY <1>4, <1>8 DEF AgentTypeOK, Stages
  <2> QED BY <1>2, <1>3, <2>1, <2>2 DEF AgentTypeOK, Report
<1>10. HandInv'
  <2>1. \A i \in Files' : i < agent.next + 1
    BY <1>5, <1>7
  <2>2. agent.next + 1 \in Nat
    BY <1>4
  <2>3. agent'.hand = None /\ agent'.stage = "idle" /\ agent'.left = {}
    BY <1>8
  <2> QED BY <2>1, <2>2, <2>3 DEF HandInv
<1>11. SequenceInv' /\ RebootOnce'
  BY <1>3, <1>8 DEF SequenceInv, RebootOnce
<1>12. SpoolInOrder'
  BY <1>3, <1>5, <1>6, <1>7, <1>8 DEF SpoolInOrder
<1> QED BY <1>9, <1>10, <1>11, <1>12

-----------------------------------------------------------------------------
LEMMA AgentInvInit == AgentInit => AgentInv
<1> SUFFICES ASSUME AgentInit PROVE AgentInv
  OBVIOUS
<1>1. reports \in Seq(0 .. MaxBoots) /\ Len(reports) = 0
  BY DEF AgentInit
<1>2. Files = {}
  BY DEF AgentInit, Files
<1>3. AgentTypeOK
  <2>1. boot \in 1 .. MaxBoots
    BY AgentAssumption DEF AgentInit
  <2> QED BY <1>1, <1>2, <2>1, AgentAssumption
          DEF AgentInit, AgentTypeOK, Off, Stages
<1>4. HandInv
  BY <1>2 DEF AgentInit, HandInv, Off
<1>5. SequenceInv /\ SpoolInOrder /\ RebootOnce
  BY <1>1, <1>2 DEF AgentInit, SequenceInv, SpoolInOrder, RebootOnce, Off
<1> QED BY <1>3, <1>4, <1>5 DEF AgentInv

LEMMA StartKeeps ==
  ASSUME AgentInv, Start
  PROVE  AgentInv'
<1> USE DEF AgentInv
<1> DEFINE rebooted == saved # None /\ saved.boot # boot
           sequence == IF saved = None THEN 0
                       ELSE IF rebooted THEN saved.sequence + 1
                                        ELSE saved.sequence
           pending  == IF rebooted THEN sequence ELSE 0
<1>1. /\ saved' = [boot |-> boot, sequence |-> sequence]
      /\ found' = IF rebooted THEN found \cup {sequence} ELSE found
      /\ agent' = [stage |-> "idle", next |-> NextFile, pending |-> pending,
                   left |-> {}, hand |-> None]
      /\ UNCHANGED <<boot, spool, reports, dropped, unsaid, faults>>
      /\ Files' = Files
  BY DEF Start, Off, Files
<1>2. NextFile \in Nat /\ \A i \in Files : i < NextFile
  BY NextFileIsNext DEF AgentTypeOK, HandInv
<1>3. /\ boot \in Nat /\ boot >= 1 /\ boot <= MaxBoots
      /\ saved # None => saved.boot \in Nat /\ saved.sequence \in Nat
  BY AgentAssumption DEF AgentTypeOK
<1>4. /\ sequence \in Nat /\ sequence < boot
      /\ pending \in 0 .. MaxBoots
      /\ rebooted => sequence \in 1 .. MaxBoots /\ sequence \notin found
  <2>1. CASE saved = None
    BY <1>3, <2>1, AgentAssumption
  <2>2. CASE saved # None /\ ~rebooted
    BY <1>3, <2>2, AgentAssumption DEF SequenceInv
  <2>3. CASE rebooted
    BY <1>3, <2>3, AgentAssumption DEF SequenceInv
  <2> QED BY <2>1, <2>2, <2>3
<1>5. found' \subseteq 1 .. sequence
  <2>1. CASE saved = None
    BY <1>1, <2>1 DEF SequenceInv
  <2>2. CASE saved # None
    BY <1>1, <1>3, <2>2 DEF SequenceInv
  <2> QED BY <2>1, <2>2
<1>6. pending # 0 => rebooted /\ pending = sequence
  OBVIOUS
<1> HIDE DEF rebooted, sequence, pending
<1>7. AgentTypeOK'
  <2>1. agent' \in [stage : Stages, next : Nat, pending : 0 .. MaxBoots,
                    left : SUBSET Nat, hand : Report \cup {None}]
    BY <1>1, <1>2, <1>4 DEF Stages
  <2>2. saved' \in [boot : 1 .. MaxBoots, sequence : 0 .. MaxBoots]
    BY <1>1, <1>3, <1>4, AgentAssumption
  <2>3. found' \subseteq 1 .. MaxBoots
    BY <1>1, <1>4 DEF AgentTypeOK
  <2> QED BY <1>1, <2>1, <2>2, <2>3 DEF AgentTypeOK
<1>8. HandInv'
  BY <1>1, <1>2 DEF HandInv
<1>9. SequenceInv'
  <2>1. saved' # None /\ saved'.boot = boot /\ saved'.sequence = sequence
    <3>1. saved' \in [boot : Nat, sequence : Nat]
      BY <1>1, <1>3, <1>4
    <3> QED BY <1>1, <3>1, AgentAssumption
  <2> QED BY <1>1, <1>3, <1>4, <1>5, <2>1 DEF SequenceInv
<1>10. SpoolInOrder'
  BY <1>1, <1>2 DEF SpoolInOrder
<1>11. RebootOnce'
  <2>1. pending # 0 => /\ pending \in found' /\ pending \notin unsaid
                       /\ \A n \in DOMAIN reports : reports[n] # pending
    BY <1>1, <1>4, <1>6 DEF SequenceInv, RebootOnce
  <2> QED BY <1>1, <2>1 DEF RebootOnce
<1> QED BY <1>7, <1>8, <1>9, <1>10, <1>11

LEMMA TickKeeps ==
  ASSUME AgentInv, NEW readable \in BOOLEAN, Tick(readable)
  PROVE  AgentInv'
<1> USE DEF AgentInv
<1>1. /\ reports' = Append(reports, agent.pending)
      /\ UNCHANGED <<boot, saved, spool, found, dropped, unsaid>>
      /\ Files' = Files
      /\ Len(reports) < MaxReports
      /\ agent.stage = "idle"
  BY DEF Tick, disk, Files
<1>2. /\ reports \in Seq(0 .. MaxBoots) /\ agent.pending \in 0 .. MaxBoots
      /\ Files \subseteq Nat
  BY DEF AgentTypeOK
<1>3. /\ reports' \in Seq(0 .. MaxBoots)
      /\ Len(reports') = Len(reports) + 1
      /\ DOMAIN reports' = DOMAIN reports \cup {Len(reports) + 1}
      /\ \A n \in DOMAIN reports : reports'[n] = reports[n]
      /\ reports'[Len(reports) + 1] = agent.pending
      /\ Len(reports) \in Nat
      /\ Len(reports) + 1 \notin DOMAIN reports
  BY <1>1, <1>2
<1>4. /\ agent'.stage \in {"fresh", "flush", "blind"}
      /\ agent'.hand = Len(reports) + 1 /\ agent'.pending = 0
      /\ agent'.next = agent.next
      /\ agent'.left \subseteq Files
      /\ agent' \in [stage : Stages, next : Nat, pending : 0 .. MaxBoots,
                      left : SUBSET Nat, hand : Nat \cup {None}]
  <2>1. agent \in [stage : Stages, next : Nat, pending : 0 .. MaxBoots,
                   left : SUBSET Nat, hand : Report \cup {None}]
          /\ agent.hand = None /\ agent.left \subseteq Files
    BY <1>1 DEF AgentTypeOK, HandInv
  <2>2. CASE readable
    <3>1. agent' = [agent EXCEPT
                      !.stage = IF Files = {} THEN "fresh" ELSE "flush",
                      !.left = Files, !.pending = 0,
                      !.hand = Len(reports) + 1]
      BY <2>2 DEF Tick
    <3>2. agent' = [stage |-> IF Files = {} THEN "fresh" ELSE "flush",
                    next |-> agent.next, pending |-> 0, left |-> Files,
                    hand |-> Len(reports) + 1]
      BY <2>1, <3>1
    <3> HIDE DEF Files
    <3> QED BY <1>2, <1>3, <2>1, <3>2, AgentAssumption DEF Stages
  <2>3. CASE ~readable
    <3>1. agent' = [agent EXCEPT !.stage = "blind", !.pending = 0,
                                 !.hand = Len(reports) + 1]
      BY <2>3 DEF Tick
    <3>2. agent' = [stage |-> "blind", next |-> agent.next, pending |-> 0,
                    left |-> agent.left, hand |-> Len(reports) + 1]
      BY <2>1, <3>1
    <3> QED BY <1>2, <1>3, <2>1, <3>2, AgentAssumption DEF Stages
  <2> QED BY <2>2, <2>3
<1>5. agent'.hand \in Report
  BY <1>1, <1>3, <1>4, AgentAssumption DEF Report
<1>6. faults' \in 0 .. MaxFaults
  BY AgentAssumption DEF Tick, AgentTypeOK
<1>7. AgentTypeOK'
  BY <1>1, <1>3, <1>4, <1>5, <1>6, AgentAssumption DEF AgentTypeOK
<1>8. HandInv'
  BY <1>1, <1>3, <1>4, AgentAssumption DEF HandInv
<1>9. SequenceInv'
  BY <1>1, <1>4 DEF SequenceInv
<1>10. SpoolInOrder'
  <2>1. \A i \in Files : spool[i] \in Nat /\ spool[i] <= Len(reports)
    BY AgentAssumption DEF AgentTypeOK, SpoolInOrder, Report
  <2>2. \A i \in Files : spool[i] < Len(reports) + 1
    BY <1>3, <2>1
  <2> QED BY <1>1, <1>3, <1>4, <2>1, <2>2 DEF SpoolInOrder
<1>11. RebootOnce'
  BY <1>1, <1>2, <1>3, <1>4 DEF RebootOnce
<1> QED BY <1>7, <1>8, <1>9, <1>10, <1>11

LEMMA FlushAnsweredKeeps ==
  ASSUME AgentInv, NEW answer, FlushAnswered(answer)
  PROVE  AgentInv'
<1> USE DEF AgentInv
<1> DEFINE i == First(agent.left)
<1>1. /\ agent.stage = "flush" /\ agent.left # {}
      /\ agent \in [stage : Stages, next : Nat, pending : 0 .. MaxBoots,
                    left : SUBSET Nat, hand : Report \cup {None}]
      /\ agent.left \subseteq Files /\ Files \subseteq Nat
      /\ agent.hand # None
  BY DEF FlushAnswered, AgentTypeOK, HandInv
<1>2. i \in Files
  <2> DEFINE S == agent.left
  <2>1. S \subseteq Nat /\ S # {}
    BY <1>1
  <2> HIDE DEF S
  <2>2. First(S) \in S
    BY <2>1, FirstIsFirst
  <2> QED BY <1>1, <2>2 DEF S
<1> HIDE DEF i
<1>3. CASE /\ agent' = [agent EXCEPT !.left = {}]
           /\ UNCHANGED <<boot, disk, aHistory, faults>>
  <2>1. agent' = [stage |-> "flush", next |-> agent.next,
                  pending |-> agent.pending, left |-> {}, hand |-> agent.hand]
    BY <1>1, <1>3
  <2>2. AgentTypeOK'
    BY <1>1, <1>3, <2>1 DEF AgentTypeOK, disk, aHistory, Files
  <2> QED BY <1>1, <1>3, <2>1, <2>2 DEF HandInv, SequenceInv, SpoolInOrder,
             RebootOnce, disk, aHistory, Files
<1>4. CASE /\ spool' = [j \in Files \ {i} |-> spool[j]]
           /\ dropped' = IF answer = "Rejected"
                         THEN dropped \cup {spool[i]} ELSE dropped
           /\ agent' = [agent EXCEPT !.left = @ \ {i}]
           /\ UNCHANGED <<boot, saved, reports, found, unsaid, faults>>
  <2>1. agent' = [stage |-> "flush", next |-> agent.next,
                  pending |-> agent.pending, left |-> agent.left \ {i},
                  hand |-> agent.hand]
    BY <1>1, <1>4
  <2>2. /\ Files' = Files \ {i}
        /\ \A j \in Files' : spool'[j] = spool[j]
    BY <1>4 DEF Files
  <2>3. dropped' \subseteq Report
    BY <1>2, <1>4 DEF AgentTypeOK
  <2>4. AgentTypeOK'
    BY <1>1, <1>4, <2>1, <2>2, <2>3 DEF AgentTypeOK
  <2>5. HandInv'
    BY <1>1, <1>4, <2>1, <2>2 DEF HandInv
  <2>6. SequenceInv' /\ RebootOnce'
    BY <1>1, <1>4, <2>1 DEF SequenceInv, RebootOnce
  <2>7. SpoolInOrder'
    BY <1>1, <1>4, <2>1, <2>2 DEF SpoolInOrder
  <2> QED BY <2>4, <2>5, <2>6, <2>7
<1>5. CASE GiveUp
  BY <1>1, <1>5, GiveUpKeeps
<1> QED BY <1>3, <1>4, <1>5 DEF FlushAnswered, i

LEMMA FlushDoneKeeps ==
  ASSUME AgentInv, FlushDone
  PROVE  AgentInv'
<1> USE DEF AgentInv
<1>1. /\ agent.stage = "flush" /\ agent.hand # None
      /\ agent \in [stage : Stages, next : Nat, pending : 0 .. MaxBoots,
                    left : SUBSET Nat, hand : Report \cup {None}]
  BY DEF FlushDone, AgentTypeOK, HandInv
<1>2. CASE Files # {}
  BY <1>1, <1>2, PushKeeps DEF FlushDone
<1>3. CASE Files = {}
  <2>1. agent' = [agent EXCEPT !.stage = "fresh"]
        /\ UNCHANGED <<boot, disk, aHistory, faults>>
    BY <1>3 DEF FlushDone
  <2>2. agent' = [stage |-> "fresh", next |-> agent.next,
                  pending |-> agent.pending, left |-> agent.left,
                  hand |-> agent.hand]
    BY <1>1, <2>1
  <2>3. AgentTypeOK'
    BY <1>1, <2>1, <2>2 DEF AgentTypeOK, disk, aHistory, Files, Stages
  <2> QED BY <1>1, <2>1, <2>2, <2>3 DEF HandInv, SequenceInv, SpoolInOrder,
             RebootOnce, disk, aHistory, Files
<1> QED BY <1>2, <1>3

LEMMA FreshAnsweredKeeps ==
  ASSUME AgentInv, NEW answer, FreshAnswered(answer)
  PROVE  AgentInv'
<1> USE DEF AgentInv
<1>1. /\ agent.stage \in {"fresh", "blind"} /\ agent.hand # None
      /\ agent \in [stage : Stages, next : Nat, pending : 0 .. MaxBoots,
                    left : SUBSET Nat, hand : Report \cup {None}]
  BY DEF FreshAnswered, AgentTypeOK, HandInv
<1>2. CASE Push
  BY <1>1, <1>2, PushKeeps
<1>3. CASE GiveUp
  BY <1>1, <1>3, GiveUpKeeps
<1>4. CASE /\ agent' = Rest
           /\ dropped' = IF answer = "Rejected"
                         THEN dropped \cup {agent.hand} ELSE dropped
           /\ UNCHANGED <<boot, disk, reports, found, unsaid, faults>>
  <2>1. agent' = [stage |-> "idle", next |-> agent.next,
                  pending |-> agent.pending, left |-> {}, hand |-> None]
    BY <1>1, <1>4 DEF Rest
  <2>2. AgentTypeOK'
    BY <1>1, <1>4, <2>1 DEF AgentTypeOK, disk, Files, Stages
  <2> QED BY <1>1, <1>4, <2>1, <2>2 DEF HandInv, SequenceInv, SpoolInOrder,
             RebootOnce, disk, Files
<1> QED BY <1>2, <1>3, <1>4 DEF FreshAnswered

(* The process goes, with all it has in memory. *)
LEMMA OffKeeps ==
  ASSUME AgentInv, agent' = Off,
         UNCHANGED <<boot, disk, reports, found, dropped>>,
         unsaid' \subseteq found, unsaid \subseteq unsaid',
         faults' \in 0 .. MaxFaults
  PROVE  AgentInv'
<1> USE DEF AgentInv
<1>1. AgentTypeOK'
  BY AgentAssumption DEF AgentTypeOK, disk, Files, Off, Stages
<1>2. HandInv' /\ SequenceInv' /\ SpoolInOrder' /\ RebootOnce'
  BY DEF HandInv, SequenceInv, SpoolInOrder, RebootOnce, disk, Files, Off
<1> QED BY <1>1, <1>2

LEMMA FlushBlindKeeps ==
  ASSUME AgentInv, FlushBlind
  PROVE  AgentInv'
<1> USE DEF AgentInv
<1>1. /\ agent.stage = "flush" /\ agent.hand # None
      /\ agent \in [stage : Stages, next : Nat, pending : 0 .. MaxBoots,
                    left : SUBSET Nat, hand : Report \cup {None}]
      /\ faults' \in 0 .. MaxFaults
  BY AgentAssumption DEF FlushBlind, AgentTypeOK, HandInv
<1>2. agent' = [stage |-> "blind", next |-> agent.next,
                pending |-> agent.pending, left |-> agent.left,
                hand |-> agent.hand]
  BY <1>1 DEF FlushBlind
<1>3. UNCHANGED <<boot, disk, aHistory>>
  BY DEF FlushBlind
<1>4. AgentTypeOK'
  BY <1>1, <1>2, <1>3 DEF AgentTypeOK, disk, aHistory, Files, Stages
<1> QED BY <1>1, <1>2, <1>3, <1>4 DEF HandInv, SequenceInv, SpoolInOrder,
           RebootOnce, disk, aHistory, Files

LEMMA RebootKeeps ==
  ASSUME AgentInv, Reboot
  PROVE  AgentInv'
<1> USE DEF AgentInv
<1>1. AgentTypeOK'
  <2>1. boot' \in 1 .. MaxBoots
    BY AgentAssumption DEF Reboot, AgentTypeOK
  <2> QED BY <2>1 DEF Reboot, AgentTypeOK, disk, aHistory, Files
<1>2. SequenceInv'
  BY AgentAssumption DEF Reboot, AgentTypeOK, SequenceInv, disk, aHistory
<1>3. HandInv' /\ SpoolInOrder' /\ RebootOnce'
  BY DEF Reboot, HandInv, SpoolInOrder, RebootOnce, disk, aHistory, Files
<1> QED BY <1>1, <1>2, <1>3

LEMMA AgentInvStep == AgentInv /\ [AgentNext]_agentVars => AgentInv'
<1> SUFFICES ASSUME AgentInv, [AgentNext]_agentVars PROVE AgentInv'
  OBVIOUS
<1>1. CASE Start
  BY <1>1, StartKeeps
<1>2. CASE \E readable \in BOOLEAN : Tick(readable)
  BY <1>2, TickKeeps
<1>3. CASE FlushDone \/ FlushBlind
  BY <1>3, FlushDoneKeeps, FlushBlindKeeps
<1>4. CASE PushFails \/ FlushFails
  BY <1>4, GiveUpKeeps DEF PushFails, FlushFails
<1>5. CASE Stop
  <2>1. unsaid' \subseteq found /\ unsaid \subseteq unsaid'
    BY <1>5 DEF Stop, AgentInv, SequenceInv, RebootOnce
  <2>2. faults' \in 0 .. MaxFaults
    BY <1>5 DEF Stop, AgentInv, AgentTypeOK
  <2> QED BY <1>5, <2>1, <2>2, OffKeeps DEF Stop
<1>6. CASE Kill
  <2>1. faults' \in 0 .. MaxFaults
    BY <1>6, AgentAssumption DEF Kill, AgentInv, AgentTypeOK
  <2>2. unsaid' \subseteq found /\ unsaid' = unsaid
    BY <1>6 DEF Kill, AgentInv, SequenceInv, aHistory
  <2> QED BY <1>6, <2>1, <2>2, OffKeeps DEF Kill, aHistory
<1>7. CASE Reboot
  BY <1>7, RebootKeeps
<1>8. CASE \E answer \in {"Accepted", "Rejected", "Failed"} : Answered(answer)
  BY <1>8, FlushAnsweredKeeps, FreshAnsweredKeeps DEF Answered
<1>9. CASE UNCHANGED agentVars
  BY <1>9 DEF agentVars, disk, aHistory, AgentInv, AgentTypeOK, HandInv,
     SequenceInv, SpoolInOrder, RebootOnce, Files
<1> QED BY <1>1, <1>2, <1>3, <1>4, <1>5, <1>6, <1>7, <1>8, <1>9
        DEF AgentNext, AgentStep

LEMMA AgentInvAlways == AgentSpec => []AgentInv
<1> QED BY AgentInvInit, AgentInvStep, PTL DEF AgentSpec
(* Every reachable state of the agent, whatever answers it is given and    *)
(* wherever it is killed, has the state the code's types allow.            *)
THEOREM AgentTypeCorrect == AgentSpec => []AgentTypeOK
<1>1. AgentInv => AgentTypeOK
  BY DEF AgentInv
<1> QED BY <1>1, AgentInvAlways, PTL

(* uplink.rs:101, 131-147: the spool's files hold the reports in the order *)
(* they were made, through every restart, trim and half-done flush, and    *)
(* the next push writes a new file, never over an old one.                 *)
THEOREM SpoolInOrderCorrect == AgentSpec => []SpoolInOrder
<1>1. AgentInv => SpoolInOrder
  BY DEF AgentInv
<1> QED BY <1>1, AgentInvAlways, PTL

(* boot.rs:88-140: however often the agent is restarted and the device     *)
(* rebooted, no reboot goes into two reports.                              *)
THEOREM RebootOnceCorrect == AgentSpec => []RebootOnce
<1>1. AgentInv => RebootOnce
  BY DEF AgentInv
<1> QED BY <1>1, AgentInvAlways, PTL

-----------------------------------------------------------------------------
(* The whole chain. *)

(* Whatever the server or the gateway answers, the agent is answered with  *)
(* one of the three outcomes of classify_status (uplink.rs).               *)
LEMMA ClassifyIsAnswer ==
  ASSUME NEW status
  PROVE  Classify(status) \in {"Accepted", "Rejected", "Failed"}
<1> QED BY DEF Classify

LEMMA AgentStepInUplink == [Next]_vars => [AgentNext]_agentVars
<1> SUFFICES ASSUME [Next]_vars PROVE AgentNext \/ UNCHANGED agentVars
  OBVIOUS
<1>1. ASSUME NEW status, Answered(Classify(status)) PROVE AgentNext
  BY <1>1, ClassifyIsAnswer DEF AgentNext
<1>2. CASE AgentStep \/ FlushFails
  BY <1>2 DEF AgentNext
<1>3. CASE SendToServer
  BY <1>1, <1>3 DEF SendToServer
<1>4. CASE SendToGateway
  <2>1. CASE Answered("Failed")
    BY <2>1 DEF AgentNext
  <2> QED BY <1>4, <2>1 DEF SendToGateway
<1>5. CASE GatewayReplies
  BY <1>5 DEF GatewayReplies, AgentNext
<1>6. CASE AgentGivesUp
  BY <1>6 DEF AgentGivesUp, AgentNext
<1>7. CASE AgentKilled
  BY <1>7 DEF AgentKilled, AgentNext
<1>8. CASE GatewayCrashes
  BY <1>8 DEF GatewayCrashes, AgentNext
<1>9. CASE UNCHANGED vars
  BY <1>9 DEF vars
<1>10. CASE Next /\ UNCHANGED agentVars
  BY <1>10
<1> QED BY <1>2, <1>3, <1>4, <1>5, <1>6, <1>7, <1>8, <1>9, <1>10 DEF Next

(* main.rs, uplink.rs: sending to a gateway or to the server, with every   *)
(* failure on the way, shows the agent nothing it would not meet alone.    *)
THEOREM UplinkImplementsAgent == Spec => AgentSpec
<1>1. Init => AgentInit
  BY DEF Init
<1> QED BY <1>1, AgentStepInUplink, PTL DEF Spec, AgentSpec

(* uplink.rs:101, 131-147, on either route and for every number of         *)
(* reports, boots, faults and spooled files: the spool stays in order.     *)
THEOREM UplinkSpoolInOrder == Spec => []SpoolInOrder
<1> QED BY UplinkImplementsAgent, SpoolInOrderCorrect, PTL

(* boot.rs:88-140, on either route: no reboot is reported twice. *)
THEOREM UplinkRebootOnce == Spec => []RebootOnce
<1> QED BY UplinkImplementsAgent, RebootOnceCorrect, PTL

-----------------------------------------------------------------------------
(* What is sealed stays with its device.                                   *)

(* A step stores nothing, or what open_and_group makes of some request.    *)
LEMMA StoredFromRequests ==
  ASSUME [Next]_vars
  PROVE  /\ auth' = auth
         /\ stored' = stored \/ \E body : stored' = stored \cup Ownership(body)
<1>1. ASSUME NEW body, NEW status, Exchange(body, status)
      PROVE  stored' = stored \/ stored' = stored \cup Ownership(body)
  BY <1>1 DEF Exchange, Ingest, server
<1>2. ASSUME NEW body, Verdict(body)
      PROVE  stored' = stored \/ stored' = stored \cup Ownership(body)
  BY <1>1, <1>2 DEF Verdict
<1>3. CASE Attempt \/ DrainVerdict \/ BatchVerdict
  BY <1>1, <1>2, <1>3 DEF Attempt, DrainVerdict, BatchVerdict
<1>4. CASE SendToServer
  BY <1>1, <1>4 DEF SendToServer
<1>5. CASE UNCHANGED gatewayVars
  BY <1>5 DEF gatewayVars, server
<1>6. CASE SendToGateway
  BY <1>5, <1>6 DEF SendToGateway, Accept, server
<1>7. CASE AgentKilled
  BY <1>5, <1>7 DEF AgentKilled, Abandon, server
<1>8. CASE GatewayReplies \/ AgentGivesUp \/ GatewayCrashes
  BY <1>8 DEF GatewayReplies, Reply, AgentGivesUp, Abandon, GatewayCrashes,
              Crash, server
<1>9. CASE GatewayStep
  BY <1>3, <1>9 DEF GatewayStep, StartGateway, DrainAgain, DrainStops, Receive,
     Close, BufferBatch, BoardSends, Feed, Reply, server
<1>10. CASE UNCHANGED vars
  BY <1>5, <1>10 DEF vars
<1> QED BY <1>3, <1>4, <1>5, <1>6, <1>7, <1>8, <1>9, <1>10 DEF Next

LEMMA SealedIsOwnKept == SealedIsOwn /\ [Next]_vars => SealedIsOwn'
<1> SUFFICES ASSUME SealedIsOwn, [Next]_vars PROVE SealedIsOwn'
  OBVIOUS
<1>1. ASSUME NEW body, NEW pair \in Ownership(body)
      PROVE  /\ Sealed(pair[1]) => pair[2] = pair[1].of
             /\ HasCredential(pair[2]) => Sealed(pair[1])
  BY <1>1 DEF Ownership, Admitted, Sealed, HasCredential
<1>2. \A pair \in stored' : /\ Sealed(pair[1]) => pair[2] = pair[1].of
                            /\ HasCredential(pair[2]) => Sealed(pair[1])
  BY <1>1, StoredFromRequests DEF SealedIsOwn
<1> QED BY <1>2, StoredFromRequests DEF SealedIsOwn, Sealed, HasCredential

-----------------------------------------------------------------------------
(* The Bluetooth scanner: the claims of a scan and its handlers are the    *)
(* same things, one of each for a peripheral, because a scan claims only   *)
(* what it has not claimed and only the handler of a claim gives it up.    *)
BleInv ==
  /\ BleTypeOK
  /\ looking # NoPeer => scanning
  /\ scanning => scan \in Scans
  /\ \A h \in handlers : h.of \in active[h.scan]
  /\ \A g, h \in handlers : g.scan = h.scan /\ g.of = h.of => g = h
  /\ \A s \in Scans : \A p \in active[s] :
       \E h \in handlers : h.scan = s /\ h.of = p

LEMMA BleInvInit == BleInit => BleInv
<1> SUFFICES ASSUME BleInit PROVE BleInv
  OBVIOUS
<1>1. scan \in 0 .. MaxScans /\ ~scanning /\ looking = NoPeer
  BY BleAssumption DEF BleInit
<1>2. active \in [Scans -> SUBSET Peripherals]
  BY DEF BleInit
<1>3. BleTypeOK
  BY <1>1, <1>2 DEF BleInit, BleTypeOK
<1> QED BY <1>1, <1>3 DEF BleInit, BleInv

LEMMA ClaimKeeps == BleInv /\ Claim => BleInv'
<1> SUFFICES ASSUME BleInv, Claim PROVE BleInv'
  OBVIOUS
<1> USE DEF BleInv
<1>1. /\ looking \in Peripherals /\ scanning /\ scan \in Scans /\ looking' = NoPeer
      /\ UNCHANGED <<scan, scanning, delay, linked, listened>>
  BY DEF Claim, BleTypeOK
<1>2. CASE looking \in active[scan]
  BY <1>1, <1>2 DEF Claim, BleTypeOK
<1>3. CASE looking \notin active[scan]
  <2>1. /\ active' = [active EXCEPT ![scan] = @ \cup {looking}]
        /\ handlers' = handlers \cup {Started(looking)}
    BY <1>3 DEF Claim
  <2>2. /\ Started(looking) \in Handler
        /\ Started(looking).of = looking /\ Started(looking).scan = scan
    BY <1>1 DEF Started, Handler
  <2>3. /\ \A s \in Scans : active'[s] = IF s = scan THEN active[s] \cup {looking}
                                                   ELSE active[s]
        /\ active' \in [Scans -> SUBSET Peripherals]
    <3>1. active \in [Scans -> SUBSET Peripherals]
      BY DEF BleTypeOK
    <3> QED BY ONLY <3>1, <1>1, <2>1
  <2>4. \A h \in handlers : h.scan \in Scans
    BY DEF BleTypeOK, Handler
  <2>5. BleTypeOK'
    BY <1>1, <2>1, <2>2, <2>3 DEF BleTypeOK
  <2>6. \A h \in handlers' : h.of \in active'[h.scan]
    BY <1>1, <2>1, <2>2, <2>3, <2>4
  <2>7. \A g, h \in handlers' : g.scan = h.scan /\ g.of = h.of => g = h
    BY <1>3, <2>1, <2>2
  <2>8. \A s \in Scans : \A p \in active'[s] :
          \E h \in handlers' : h.scan = s /\ h.of = p
    BY <2>1, <2>2, <2>3
  <2> QED BY <1>1, <2>5, <2>6, <2>7, <2>8
<1> QED BY <1>2, <1>3

(* A handler goes on to what is next for it. *)
LEMMA MovesKeeps ==
  ASSUME BleInv, NEW h \in handlers,
         NEW at \in {"connecting", "listening", "over", "cut"}, Moves(h, at),
         linked' \subseteq Peripherals,
         UNCHANGED <<scan, scanning, delay, looking, active, listened>>
  PROVE  BleInv'
<1> USE DEF BleInv
<1> DEFINE moved == [h EXCEPT !.at = at]
<1>1. /\ h \in Handler /\ moved \in Handler
      /\ moved.of = h.of /\ moved.scan = h.scan
  BY DEF BleTypeOK, Handler
<1>2. handlers' = (handlers \ {h}) \cup {moved}
  BY DEF Moves
<1> HIDE DEF moved
<1>3. BleTypeOK'
  BY <1>1, <1>2 DEF BleTypeOK
<1>4. \A g \in handlers' : g.of \in active[g.scan]
  BY <1>1, <1>2
<1>5. \A f, g \in handlers' : f.scan = g.scan /\ f.of = g.of => f = g
  BY <1>1, <1>2
<1>6. \A s \in Scans : \A p \in active[s] :
        \E g \in handlers' : g.scan = s /\ g.of = p
  BY <1>1, <1>2
<1> QED BY <1>3, <1>4, <1>5, <1>6

LEMMA ReleaseKeeps ==
  ASSUME BleInv, NEW h \in handlers, Release(h)
  PROVE  BleInv'
<1> USE DEF BleInv
<1>1. /\ handlers' = handlers \ {h}
      /\ active' = [active EXCEPT ![h.scan] = @ \ {h.of}]
      /\ UNCHANGED <<scan, scanning, delay, looking, linked, listened>>
  BY DEF Release
<1>2. /\ active' \in [Scans -> SUBSET Peripherals]
      /\ h.scan \in Scans
      /\ \A s \in Scans : active'[s] = IF s = h.scan THEN active[s] \ {h.of}
                                                   ELSE active[s]
  <2>1. active \in [Scans -> SUBSET Peripherals] /\ h.scan \in Scans
    BY DEF BleTypeOK, Handler
  <2> QED BY ONLY <2>1, <1>1
<1>3. \A g \in handlers : g.scan \in Scans
  BY DEF BleTypeOK, Handler
<1>4. BleTypeOK'
  BY <1>1, <1>2 DEF BleTypeOK
<1>5. \A g \in handlers' : g.of \in active'[g.scan]
  BY <1>1, <1>2, <1>3
<1>6. \A s \in Scans : \A p \in active'[s] :
        \E g \in handlers' : g.scan = s /\ g.of = p
  BY <1>1, <1>2
<1> QED BY <1>1, <1>4, <1>5, <1>6

LEMMA BleInvStep == BleInv /\ [BleNext]_bleVars => BleInv'
<1> SUFFICES ASSUME BleInv, [BleNext]_bleVars PROVE BleInv'
  OBVIOUS
<1> USE DEF BleInv
<1>1. CASE UNCHANGED bleVars
  BY <1>1 DEF bleVars, BleTypeOK
<1>2. CASE ScanFails \/ ScanStarts \/ ScanEnds
  <2>1. delay' \in {2, 4, 8, 16, 32, 60}
    BY <1>2 DEF ScanFails, ScanStarts, ScanEnds, BackOff, Recovered, BleTypeOK
  <2>2. scan' \in 0 .. MaxScans
    BY <1>2, BleAssumption DEF ScanFails, ScanStarts, ScanEnds, BleTypeOK
  <2>3. scanning' \in BOOLEAN
    BY <1>2, Zenon DEF ScanFails, ScanStarts, ScanEnds, BleTypeOK
  <2>4. scanning' => scan' \in Scans
    <3>1. CASE ScanStarts
      BY <2>2, <3>1, BleAssumption DEF ScanStarts, BleTypeOK, Scans
    <3>2. CASE ScanFails \/ ScanEnds
      BY <3>2 DEF ScanFails, ScanEnds
    <3> QED BY <1>2, <3>1, <3>2
  <2>5. looking' # NoPeer => scanning'
    BY <1>2 DEF ScanFails, ScanStarts, ScanEnds
  <2>6. UNCHANGED <<looking, active, handlers, linked, listened>>
    BY <1>2 DEF ScanFails, ScanStarts, ScanEnds
  <2>7. BleTypeOK'
    BY <2>1, <2>2, <2>3, <2>6 DEF BleTypeOK
  <2>8. /\ \A h \in handlers' : h.of \in active'[h.scan]
        /\ \A g, h \in handlers' : g.scan = h.scan /\ g.of = h.of => g = h
        /\ \A s \in Scans : \A p \in active'[s] :
             \E h \in handlers' : h.scan = s /\ h.of = p
    BY <2>6
  <2> QED BY ONLY <2>4, <2>5, <2>7, <2>8 DEF BleInv
<1>3. CASE PassOver \/ ChannelCloses \/ \E p \in Peripherals : Consider(p)
  <2>1. CASE PassOver
    BY <2>1 DEF PassOver, BleTypeOK
  <2>2. CASE ChannelCloses
    <3>1. listened' \in BOOLEAN
      BY <2>2, Zenon DEF ChannelCloses
    <3>2. UNCHANGED <<scan, scanning, delay, looking, active, handlers, linked>>
      BY <2>2 DEF ChannelCloses
    <3> QED BY <3>1, <3>2 DEF BleTypeOK
  <2>3. CASE \E p \in Peripherals : Consider(p)
    BY <2>3 DEF Consider, BleTypeOK
  <2> QED BY <1>3, <2>1, <2>2, <2>3
<1>4. CASE \E p \in Peripherals : LinkDrops(p)
  BY <1>4 DEF LinkDrops, BleTypeOK
<1>5. CASE Claim
  BY <1>5, ClaimKeeps
<1>6. ASSUME NEW h \in handlers, Connect(h) \/ Ends(h) \/ Disconnect(h)
      PROVE  BleInv'
  <2>1. h.of \in Peripherals /\ linked \subseteq Peripherals
    BY DEF BleTypeOK, Handler
  <2>2. linked' \subseteq Peripherals
    BY <1>6, <2>1 DEF Connect, Ends, Disconnect
  <2>3. \E at \in {"connecting", "listening", "over", "cut"} : Moves(h, at)
    BY <1>6 DEF Connect, Ends, Disconnect
  <2>4. UNCHANGED <<scan, scanning, delay, looking, active, listened>>
    BY <1>6 DEF Connect, Ends, Disconnect
  <2> QED BY <2>2, <2>3, <2>4, MovesKeeps
<1>7. ASSUME NEW h \in handlers, Release(h) PROVE BleInv'
  BY <1>7, ReleaseKeeps
<1> QED BY <1>1, <1>2, <1>3, <1>4, <1>5, <1>6, <1>7 DEF BleNext

LEMMA BleInvClaims == BleInv => ClaimsAreHandled
<1> SUFFICES ASSUME BleInv, NEW s \in Scans, NEW p \in Peripherals
             PROVE  /\ Cardinality(Served(s, p)) <= 1
                    /\ p \in active[s] => Served(s, p) # {}
  BY DEF ClaimsAreHandled
<1>1. CASE Served(s, p) = {}
  <2>1. Cardinality(Served(s, p)) = 0
    BY <1>1, FS_EmptySet
  <2>2. p \notin active[s]
    BY <1>1 DEF Served, BleInv
  <2> QED BY <2>1, <2>2
<1>2. CASE Served(s, p) # {}
  <2>1. PICK h \in Served(s, p) : TRUE
    BY <1>2
  <2>2. Served(s, p) = {h}
    BY <2>1 DEF Served, BleInv
  <2>3. Cardinality(Served(s, p)) = 1
    BY <2>2, FS_Singleton
  <2> QED BY <1>2, <2>3
<1> QED BY <1>1, <1>2

(* ble_scanner.rs:41-49, ingest.rs:644-652: for any number of peripherals, *)
(* scans and chunks, a peripheral has one handler of a scan, which ends    *)
(* with its claim; and what a device seals is stored as its own.           *)
THEOREM ReceivedAsOwnHolds == AllSpec => []ReceivedAsOwn
<1> DEFINE Inv == BleInv /\ SealedIsOwn
<1>1. AllInit => Inv
  BY BleInvInit DEF AllInit, Init, GatewayInit, SealedIsOwn
<1>2. Inv /\ [AllNext]_allVars => Inv'
  <2> SUFFICES ASSUME Inv, [AllNext]_allVars PROVE Inv'
    OBVIOUS
  <2>1. [Next]_vars /\ [BleNext]_bleVars
    BY DEF AllNext, allVars, BleDone
  <2> QED BY <2>1, BleInvStep, SealedIsOwnKept
<1>3. Inv => ReceivedAsOwn
  BY BleInvClaims DEF ReceivedAsOwn
<1> QED BY <1>1, <1>2, <1>3, PTL DEF AllSpec

-----------------------------------------------------------------------------
(* Oldest first: flush sends from all that is spooled or stops, and deliver *)
(* sends the new batch only when nothing is.                               *)
OrderInv ==
  /\ agent.stage = "flush" /\ agent.left # {} => agent.left = Files
  /\ agent.stage = "fresh" => Files = {}

LEMMA OrderInvStep ==
  ASSUME AgentInv, OrderInv, [AgentNext]_agentVars
  PROVE  OrderInv'
<1>1. agent \in [stage : Stages, next : Nat, pending : 0 .. MaxBoots,
                 left : SUBSET Nat, hand : Report \cup {None}]
  BY DEF AgentInv, AgentTypeOK
<1>2. CASE GiveUp \/ Push
  <2>1. agent'.stage = "idle"
    BY <1>1, <1>2 DEF GiveUp, Push, Rest
  <2> QED BY <2>1 DEF OrderInv
<1>3. CASE Start \/ Stop \/ Kill \/ Reboot
  <2>1. CASE Start
    BY <2>1 DEF Start, Off, OrderInv
  <2>2. CASE Stop \/ Kill \/ Reboot
    BY <2>2 DEF Stop, Kill, Reboot, Off, OrderInv, disk, Files
  <2> QED BY <1>3, <2>1, <2>2
<1>4. ASSUME NEW readable \in BOOLEAN, Tick(readable) PROVE OrderInv'
  <2>1. /\ Files' = Files
        /\ agent'.stage = "fresh" => Files = {}
        /\ agent'.stage = "flush" => agent'.left = Files
    BY <1>1, <1>4 DEF Tick, disk, Files
  <2> QED BY <2>1 DEF OrderInv
<1>5. CASE FlushDone \/ FlushBlind
  <2>1. CASE FlushDone /\ Files # {}
    BY <1>2, <1>5, <2>1 DEF FlushDone
  <2>2. CASE FlushDone /\ Files = {}
    <3>1. agent'.stage = "fresh" /\ Files' = Files
      BY <1>1, <1>5, <2>2 DEF FlushDone, disk, Files
    <3> QED BY <2>2, <3>1 DEF OrderInv
  <2>3. CASE FlushBlind
    <3>1. agent'.stage = "blind"
      BY <1>1, <2>3 DEF FlushBlind
    <3> QED BY <3>1 DEF OrderInv
  <2> QED BY <1>5, <2>1, <2>2, <2>3
<1>6. ASSUME NEW answer, FlushAnswered(answer) PROVE OrderInv'
  <2>1. CASE agent' = [agent EXCEPT !.left = {}]
    <3>1. agent'.stage = "flush" /\ agent'.left = {}
      BY <1>1, <1>6, <2>1 DEF FlushAnswered
    <3> QED BY <3>1 DEF OrderInv
  <2>2. CASE /\ spool' = [j \in Files \ {First(agent.left)} |-> spool[j]]
             /\ agent' = [agent EXCEPT !.left = @ \ {First(agent.left)}]
    <3>1. /\ agent'.stage = "flush"
          /\ agent'.left = agent.left \ {First(agent.left)}
      BY <1>1, <1>6, <2>2 DEF FlushAnswered
    <3>2. Files' = Files \ {First(agent.left)}
      BY <2>2 DEF Files
    <3>3. agent.left = Files
      BY <1>6 DEF FlushAnswered, OrderInv
    <3> QED BY <3>1, <3>2, <3>3 DEF OrderInv
  <2> QED BY <1>2, <1>6, <2>1, <2>2 DEF FlushAnswered
<1>7. ASSUME NEW answer, FreshAnswered(answer) PROVE OrderInv'
  <2>1. CASE agent' = Rest
    <3>1. agent'.stage = "idle"
      BY <1>1, <2>1 DEF Rest
    <3> QED BY <3>1 DEF OrderInv
  <2> QED BY <1>2, <1>7, <2>1 DEF FreshAnswered
<1>8. CASE UNCHANGED agentVars
  BY <1>8 DEF agentVars, disk, OrderInv, Files
<1> QED BY <1>2, <1>3, <1>4, <1>5, <1>6, <1>7, <1>8
        DEF AgentNext, AgentStep, PushFails, FlushFails, Answered

(* What is being sent is the oldest file, or the batch behind none. *)
LEMMA SendingIsOldest ==
  ASSUME AgentInv, OrderInv, agent.stage # "blind", Sending # None
  PROVE  \A i \in Files : ~ (spool[i] < Sending)
<1>1. CASE agent.stage = "flush" /\ agent.left # {}
  <2>1. Sending = spool[First(agent.left)] /\ agent.left = Files
    BY <1>1 DEF Sending, OrderInv
  <2>2. agent.left \subseteq Nat
    BY DEF AgentInv, AgentTypeOK
  <2>3. /\ First(agent.left) \in agent.left
        /\ \A j \in agent.left : First(agent.left) <= j
    <3> DEFINE S == agent.left
    <3>1. S \subseteq Nat /\ S # {}
      BY <1>1, <2>2
    <3> HIDE DEF S
    <3>2. First(S) \in S /\ \A j \in S : First(S) <= j
      BY <3>1, FirstIsFirst
    <3> QED BY <3>2 DEF S
  <2> SUFFICES ASSUME NEW i \in Files PROVE ~ (spool[i] < Sending)
    OBVIOUS
  <2>4. spool[i] \in Nat /\ spool[First(agent.left)] \in Nat
    BY <2>1, <2>3, AgentAssumption DEF AgentInv, AgentTypeOK, Report
  <2>5. CASE i = First(agent.left)
    BY <2>1, <2>4, <2>5
  <2>6. CASE i # First(agent.left)
    <3>1. First(agent.left) < i
      BY <2>1, <2>2, <2>3, <2>6
    <3>2. spool[First(agent.left)] < spool[i]
      BY <2>1, <2>3, <3>1 DEF AgentInv, SpoolInOrder
    <3> QED BY <2>1, <2>4, <3>2
  <2> QED BY <2>5, <2>6
<1>2. CASE agent.stage = "fresh"
  BY <1>2 DEF OrderInv
<1> QED BY <1>1, <1>2 DEF Sending

(* Straight to the server, a report is stored by being sent. *)
LEMMA StoredFromSending ==
  ASSUME [Next]_vars, route = "server", NEW n,
         ReportStored(n)', ~ReportStored(n)
  PROVE  Sending # None /\ n = Sending
<1>1. ASSUME UNCHANGED stored PROVE FALSE
  BY <1>1 DEF ReportStored, IsStored
<1>2. CASE SendToServer
  <2>1. PICK status : Exchange(SentBatch, status)
    BY <1>2 DEF SendToServer
  <2>2. stored' = stored \cup Ownership(SentBatch)
    BY <1>1, <2>1 DEF Exchange, Ingest, server
  <2>3. PICK d \in Sources : <<Payload(Box, n), d>> \in stored' \ stored
    BY DEF ReportStored, IsStored
  <2>4. Payload(Box, n) \in ElementsOf(SentBatch)
    BY <2>2, <2>3 DEF Ownership
  <2>5. n = Sending
    BY <2>4 DEF ElementsOf, SentBatch, Batch, Payload
  <2> QED BY <1>2, <2>5 DEF SendToServer
<1> QED BY <1>1, <1>2 DEF Next, vars, gatewayVars, server, SendToGateway,
           Accept, AgentKilled, GatewayReplies, Reply, AgentGivesUp, Abandon,
           GatewayCrashes, Crash

(* uplink.rs:3-5, 149-186: for any number of reports, boots, faults and    *)
(* spooled files, a report arrives for the first time only when the server *)
(* has every report spooled before it.                                     *)
THEOREM OldestFirstHolds == Spec => OldestFirst
<1> DEFINE Inv == AgentInv /\ OrderInv
<1>1. Init => Inv
  <2>1. Init => OrderInv
    BY DEF Init, AgentInit, OrderInv, Off
  <2> QED BY <2>1, AgentInvInit DEF Init
<1>2. Inv /\ [Next]_vars => Inv'
  BY AgentStepInUplink, AgentInvStep, OrderInvStep
<1>3. Inv /\ [Next]_vars =>
        [\A n \in Report :
           /\ route = "server" /\ agent.stage # "blind"
           /\ ReportStored(n)' /\ ~ReportStored(n)
           => \A i \in Files : spool[i] < n => ReportStored(spool[i])]_vars
  BY StoredFromSending, SendingIsOldest
<1> QED BY <1>1, <1>2, <1>3, PTL DEF Spec, OldestFirst

-----------------------------------------------------------------------------
(* What the gateway has on the way.                                        *)

LEMMA AppendElements ==
  ASSUME NEW S, NEW s \in Seq(S), NEW e \in S
  PROVE  ElementsOf(Append(s, e)) = ElementsOf(s) \cup {e}
<1>1. /\ DOMAIN s = 1 .. Len(s) /\ Len(s) \in Nat
      /\ DOMAIN Append(s, e) = 1 .. Len(s) + 1
      /\ \A i \in 1 .. Len(s) : Append(s, e)[i] = s[i]
      /\ Append(s, e)[Len(s) + 1] = e
  OBVIOUS
<1> QED BY <1>1 DEF ElementsOf

LEMMA HeadTailElements ==
  ASSUME NEW S, NEW s \in Seq(S), s # << >>
  PROVE  /\ Head(s) \in S /\ Tail(s) \in Seq(S)
         /\ ElementsOf(s) = {Head(s)} \cup ElementsOf(Tail(s))
<1>1. /\ DOMAIN s = 1 .. Len(s) /\ Len(s) \in Nat \ {0}
      /\ Head(s) = s[1] /\ Head(s) \in S /\ Tail(s) \in Seq(S)
      /\ DOMAIN Tail(s) = 1 .. Len(s) - 1
      /\ \A i \in 1 .. Len(s) - 1 : Tail(s)[i] = s[i + 1]
  OBVIOUS
<1>2. \A i \in 1 .. Len(s) : i = 1 \/ i - 1 \in 1 .. Len(s) - 1
  BY <1>1
<1>3. \A i \in 1 .. Len(s) - 1 : i + 1 \in 1 .. Len(s)
  BY <1>1
<1>4. ElementsOf(s) \subseteq {Head(s)} \cup ElementsOf(Tail(s))
  <2> SUFFICES ASSUME NEW i \in 1 .. Len(s), i # 1
               PROVE  s[i] \in ElementsOf(Tail(s))
    BY <1>1 DEF ElementsOf
  <2>1. i - 1 \in 1 .. Len(s) - 1 /\ Tail(s)[i - 1] = s[i]
    BY <1>1, <1>2
  <2> QED BY <1>1, <2>1 DEF ElementsOf
<1>5. {Head(s)} \cup ElementsOf(Tail(s)) \subseteq ElementsOf(s)
  BY <1>1, <1>3 DEF ElementsOf
<1> QED BY <1>1, <1>4, <1>5

LEMMA WithoutElements ==
  ASSUME NEW S, NEW s \in Seq(S), NEW i \in 1 .. Len(s)
  PROVE  /\ Without(s, i) \in Seq(S)
         /\ ElementsOf(s) = ElementsOf(Without(s, i)) \cup {s[i]}
<1> DEFINE before == SubSeq(s, 1, i - 1)
           after  == SubSeq(s, i + 1, Len(s))
           w      == Without(s, i)
<1>1. /\ before \in Seq(S) /\ Len(before) = i - 1
      /\ \A j \in 1 .. i - 1 : before[j] = s[j]
      /\ after \in Seq(S) /\ Len(after) = Len(s) - i
      /\ \A j \in 1 .. Len(s) - i : after[j] = s[i + j]
  OBVIOUS
<1>2. w = before \o after
  BY DEF Without
<1> HIDE DEF before, after, w
<1>3. /\ w \in Seq(S) /\ DOMAIN w = 1 .. Len(s) - 1
      /\ \A j \in 1 .. i - 1 : w[j] = s[j]
      /\ \A j \in 1 .. Len(s) - i : w[i - 1 + j] = s[i + j]
  BY <1>1, <1>2
<1>4. \A j \in 1 .. Len(s) : j # i => s[j] \in ElementsOf(w)
  <2> TAKE j \in 1 .. Len(s)
  <2>1. CASE j < i
    <3>1. j \in 1 .. i - 1 /\ j \in 1 .. Len(s) - 1
      BY <2>1
    <3> QED BY <1>3, <3>1 DEF ElementsOf
  <2>2. CASE j > i
    <3>1. j - i \in 1 .. Len(s) - i /\ i - 1 + (j - i) = j - 1
            /\ i + (j - i) = j /\ j - 1 \in 1 .. Len(s) - 1
      BY <2>2
    <3>2. w[j - 1] = s[j]
      BY <1>3, <3>1
    <3> QED BY <1>3, <3>1, <3>2 DEF ElementsOf
  <2> QED BY <2>1, <2>2
<1>5. \A j \in 1 .. Len(s) - 1 : w[j] \in ElementsOf(s)
  <2> TAKE j \in 1 .. Len(s) - 1
  <2>1. CASE j < i
    BY <1>3, <2>1 DEF ElementsOf
  <2>2. CASE j >= i
    <3>1. j - i + 1 \in 1 .. Len(s) - i /\ i - 1 + (j - i + 1) = j
            /\ i + (j - i + 1) = j + 1 /\ j + 1 \in 1 .. Len(s)
      BY <2>2
    <3>2. w[j] = s[j + 1]
      BY <1>3, <3>1
    <3> QED BY <3>1, <3>2 DEF ElementsOf
  <2> QED BY <2>1, <2>2
<1>6. ElementsOf(s) \subseteq ElementsOf(w) \cup {s[i]}
  BY <1>4 DEF ElementsOf
<1>7. ElementsOf(w) \cup {s[i]} \subseteq ElementsOf(s)
  <2>1. ElementsOf(w) = {w[j] : j \in 1 .. Len(s) - 1}
    BY <1>3 DEF ElementsOf
  <2>2. s[i] \in ElementsOf(s)
    BY DEF ElementsOf
  <2> QED BY <1>5, <2>1, <2>2
<1> QED BY <1>3, <1>6, <1>7 DEF w

(* A chunk is in the gateway in one of four places. *)
LEMMA RowsOf ==
  ASSUME NEW rows, NEW c
  PROVE  (\E i \in DOMAIN rows : c \in ElementsOf(rows[i]))
           <=> \E row \in ElementsOf(rows) : c \in ElementsOf(row)
<1> QED BY DEF ElementsOf

(* The state of the gateway, its chunks taken from a set S. *)
Loop(S) == [stage : {"off", "draining", "waiting", "gathering", "forwarding"},
            body : Seq(S), attempt : Nat, at : Nat \ {0}]
Shape(S) ==
  /\ gateway \in Loop(S)
  /\ gateway.stage \in {"off", "draining"} => gateway.body = << >>
  /\ channel \in Seq(S)
  /\ buffer \in Seq(Seq(S))
  /\ DOMAIN posts \subseteq {"asked", "left"}
  /\ \A k \in DOMAIN posts : posts[k] \in Seq(S)
  /\ \A pair \in stored : pair[1] \in S

(* What a step of the gateway does to the chunks, when the chunks new are   *)
(* handed to it: it keeps them, or the server has them or turned them down, *)
(* or they are wrecked; and the server gets what the gateway had.          *)
Carries(new) ==
  /\ stored \subseteq stored'
  /\ refused \subseteq refused'
  /\ wrecked \subseteq wrecked'
  /\ \A c : /\ InGateway(c) => \/ InGateway(c)' \/ IsStored(c)'
                               \/ c \in refused' \cup wrecked'
            /\ InGateway(c)' => InGateway(c) \/ c \in new
            /\ c \in new => InGateway(c)'
            /\ IsStored(c)' => IsStored(c) \/ InGateway(c)

(* What the server does with a request, and with one it answers. *)
Takes(body) ==
  /\ stored \subseteq stored'
  /\ refused \subseteq refused'
  /\ \A pair \in stored' : pair \in stored \/ pair[1] \in ElementsOf(body)
Places(body) ==
  /\ Takes(body)
  /\ \A c \in ElementsOf(body) : IsStored(c)' \/ c \in refused'

LEMMA IngestPlaces ==
  ASSUME NEW body, Ingest(body)
  PROVE  Places(body)
<1>1. /\ stored' = stored \cup Ownership(body)
      /\ refused' = refused \cup
           {c \in ElementsOf(body) :
              \A d \in Sources : <<c, d>> \notin Ownership(body)}
  BY DEF Ingest
<1>2. \A pair \in Ownership(body) : pair[1] \in ElementsOf(body)
  BY DEF Ownership
<1>3. \A c \in ElementsOf(body) : IsStored(c)' \/ c \in refused'
  BY <1>1 DEF IsStored
<1> QED BY <1>1, <1>2, <1>3 DEF Places, Takes

LEMMA ExchangeTakes ==
  ASSUME NEW body, NEW status, Exchange(body, status)
  PROVE  /\ Takes(body)
         /\ status = "2xx" => Places(body)
<1>1. CASE Ingest(body)
  BY <1>1, IngestPlaces DEF Places
<1>2. CASE status \in {"429", "400", "none"} /\ UNCHANGED server
  BY <1>2 DEF server, Takes
<1> QED BY <1>1, <1>2 DEF Exchange

LEMMA VerdictPlaces ==
  ASSUME NEW body, Verdict(body)
  PROVE  Places(body)
<1>1. CASE Exchange(body, "2xx")
  BY <1>1, ExchangeTakes
<1>2. CASE refused' = refused \cup ElementsOf(body) /\ UNCHANGED stored
  BY <1>2 DEF Places, Takes
<1> QED BY <1>1, <1>2 DEF Verdict

-----------------------------------------------------------------------------
(* The steps of the gateway, one by one.                                   *)

LEMMA ShapeGrows ==
  ASSUME NEW S, NEW T, S \subseteq T, Shape(S)
  PROVE  Shape(T)
<1>1. \A s \in Seq(S) : s \in Seq(T)
  OBVIOUS
<1>2. \A s \in Seq(Seq(S)) : s \in Seq(Seq(T))
  BY <1>1
<1>3. Loop(S) \subseteq Loop(T)
  BY <1>1 DEF Loop
<1>4. gateway \in Loop(T) /\ buffer \in Seq(Seq(T)) /\ channel \in Seq(T)
  BY <1>1, <1>2, <1>3 DEF Shape
<1> QED BY <1>1, <1>4 DEF Shape

(* A chunk on its way, wherever: Body is some of what the gateway has. *)
LEMMA BodyInGateway ==
  ASSUME NEW S, Shape(S), Forwarding
  PROVE  /\ Body \in Seq(S)
         /\ \A c \in ElementsOf(Body) : c \in S /\ InGateway(c)
<1>1. Body \in Seq(S) /\ \A c \in ElementsOf(Body) : InGateway(c)
  <2>1. CASE gateway.stage = "draining" /\ gateway.at <= Len(buffer)
    <3>1. gateway.at \in 1 .. Len(buffer) /\ buffer \in Seq(Seq(S))
      BY <2>1 DEF Shape, Loop
    <3>2. Body = buffer[gateway.at] /\ gateway.at \in DOMAIN buffer
            /\ buffer[gateway.at] \in Seq(S)
      BY <2>1, <3>1 DEF Body
    <3> QED BY <3>2 DEF InGateway
  <2>2. CASE gateway.stage = "forwarding"
    <3>1. Body = gateway.body /\ gateway.body \in Seq(S)
      BY <2>2 DEF Body, Shape, Loop
    <3> QED BY <3>1 DEF InGateway, InFlight
  <2> QED BY <2>1, <2>2 DEF Forwarding
<1>2. \A c \in ElementsOf(Body) : c \in S
  BY <1>1 DEF ElementsOf
<1> QED BY <1>1, <1>2

(* While a request is out, nothing in the gateway moves. *)
LEMMA AttemptCarries ==
  ASSUME NEW S, Shape(S), Attempt
  PROVE  Shape(S)' /\ Carries({})
<1>1. /\ Forwarding /\ Takes(Body)
      /\ gateway' = [gateway EXCEPT !.attempt = @ + 1]
      /\ UNCHANGED <<channel, buffer, posts, wrecked>>
  BY ExchangeTakes DEF Attempt, ruin
<1>2. \A c \in ElementsOf(Body) : c \in S /\ InGateway(c)
  BY <1>1, BodyInGateway
<1>3. /\ gateway' \in Loop(S)
      /\ gateway'.body = gateway.body /\ gateway'.stage = gateway.stage
  <2>1. gateway \in Loop(S)
    BY DEF Shape
  <2> QED BY ONLY <2>1, <1>1 DEF Loop
<1>4. Shape(S)'
  BY <1>1, <1>2, <1>3 DEF Shape, Takes
<1>5. \A c : InGateway(c)' <=> InGateway(c)
  BY <1>1, <1>3 DEF InGateway, InFlight
<1>6. \A c : IsStored(c)' => IsStored(c) \/ InGateway(c)
  BY <1>1, <1>2 DEF Takes, IsStored
<1> QED BY <1>1, <1>4, <1>5, <1>6 DEF Carries, Takes

LEMMA DrainVerdictCarries ==
  ASSUME NEW S, Shape(S), DrainVerdict
  PROVE  Shape(S)' /\ Carries({})
<1>1. /\ Forwarding /\ Places(Body)
      /\ gateway.at \in 1 .. Len(buffer)
      /\ Body = buffer[gateway.at]
      /\ buffer \in Seq(Seq(S))
      /\ UNCHANGED <<channel, posts, wrecked>>
  BY VerdictPlaces DEF DrainVerdict, Shape, Loop, Forwarding, Body, ruin
<1>2. \A c \in ElementsOf(Body) : c \in S /\ InGateway(c)
  BY <1>1, BodyInGateway
<1>3. /\ gateway' \in Loop(S)
      /\ gateway'.body = gateway.body /\ gateway'.stage = gateway.stage
  <2>1. gateway \in Loop(S)
    BY DEF Shape
  <2>2. CASE gateway' = [gateway EXCEPT !.attempt = 0]
    BY ONLY <2>1, <2>2 DEF Loop
  <2>3. CASE gateway' = [gateway EXCEPT !.attempt = 0, !.at = @ + 1]
    <3>1. gateway' = [stage |-> gateway.stage, body |-> gateway.body,
                      attempt |-> 0, at |-> gateway.at + 1]
      BY ONLY <2>1, <2>3 DEF Loop
    <3> QED BY ONLY <2>1, <3>1 DEF Loop
  <2> QED BY <2>2, <2>3 DEF DrainVerdict
<1>4. \/ UNCHANGED buffer
      \/ /\ buffer' \in Seq(Seq(S))
         /\ ElementsOf(buffer) = ElementsOf(buffer') \cup {Body}
  <2>1. CASE buffer' = Without(buffer, gateway.at)
    <3>1. PICK T : T = Seq(S)
      OBVIOUS
    <3>2. buffer \in Seq(T)
      BY <1>1, <3>1
    <3>3. /\ Without(buffer, gateway.at) \in Seq(T)
          /\ ElementsOf(buffer) =
               ElementsOf(Without(buffer, gateway.at)) \cup {buffer[gateway.at]}
      BY <1>1, <3>2, WithoutElements
    <3> QED BY <1>1, <2>1, <3>1, <3>3
  <2> QED BY <2>1 DEF DrainVerdict
<1>5. Shape(S)'
  BY <1>1, <1>2, <1>3, <1>4 DEF Shape, Takes, Places
<1>6. \A c : InGateway(c)' => InGateway(c)
  BY <1>1, <1>3, <1>4, RowsOf DEF InGateway, InFlight
<1>7. \A c : InGateway(c) => InGateway(c)' \/ c \in ElementsOf(Body)
  <2> SUFFICES ASSUME NEW c, InGateway(c)
               PROVE  InGateway(c)' \/ c \in ElementsOf(Body)
    OBVIOUS
  <2>1. CASE c \in InFlight
    BY <1>1, <1>3, <2>1 DEF InGateway, InFlight
  <2>2. CASE \E i \in DOMAIN buffer : c \in ElementsOf(buffer[i])
    <3>1. PICK row \in ElementsOf(buffer) : c \in ElementsOf(row)
      BY <2>2, RowsOf
    <3>2. row \in ElementsOf(buffer') \/ row = Body
      BY <1>4, <3>1
    <3>3. CASE row \in ElementsOf(buffer')
      <4>1. \E i \in DOMAIN buffer' : c \in ElementsOf(buffer'[i])
        BY <3>1, <3>3, RowsOf
      <4> QED BY <4>1 DEF InGateway
    <3> QED BY <3>1, <3>2, <3>3
  <2> QED BY <2>1, <2>2 DEF InGateway
<1>8. \A c : IsStored(c)' => IsStored(c) \/ InGateway(c)
  BY <1>1, <1>2 DEF Takes, Places, IsStored
<1> QED BY <1>1, <1>5, <1>6, <1>7, <1>8 DEF Carries, Takes, Places

(* The loop turns to something else, with what it has in hand. *)
LEMMA LoopTurns ==
  ASSUME NEW S, Shape(S), StartGateway \/ DrainAgain \/ DrainStops \/ Close
  PROVE  Shape(S)' /\ Carries({})
<1>1. UNCHANGED <<channel, buffer, posts, stored, refused, wrecked>>
  BY DEF StartGateway, DrainAgain, DrainStops, Close, server, ruin
<1>2. /\ gateway' \in Loop(S)
      /\ gateway'.body = gateway.body
      /\ gateway'.stage \in {"off", "draining"} => gateway'.body = << >>
  <2>1. CASE Close
    <3>1. gateway \in Loop(S)
      BY DEF Shape
    <3>2. gateway' = [gateway EXCEPT !.stage = "forwarding"]
      BY <2>1 DEF Close
    <3> QED BY ONLY <3>1, <3>2 DEF Loop
  <2>2. CASE StartGateway \/ DrainAgain \/ DrainStops
    <3>1. \E stage \in {"draining", "waiting"} : gateway' = At(stage)
      BY <2>2 DEF StartGateway, DrainAgain, DrainStops
    <3>2. << >> \in Seq(S) /\ gateway.body = << >>
      BY <2>2 DEF StartGateway, DrainAgain, DrainStops, Shape
    <3> QED BY <3>1, <3>2 DEF At, Loop
  <2> QED BY <2>1, <2>2
<1>3. Shape(S)'
  BY <1>1, <1>2 DEF Shape
<1> QED BY <1>1, <1>2, <1>3 DEF Carries, InGateway, InFlight, IsStored

LEMMA ReceiveCarries ==
  ASSUME NEW S, Shape(S), Receive
  PROVE  Shape(S)' /\ Carries({})
<1>1. /\ UNCHANGED <<buffer, posts, stored, refused, wrecked>>
      /\ channel' = Tail(channel) /\ channel \in Seq(S) /\ channel # << >>
  BY DEF Receive, server, ruin, Shape
<1>2. /\ Head(channel) \in S /\ channel' \in Seq(S)
      /\ ElementsOf(channel) = {Head(channel)} \cup ElementsOf(channel')
  BY <1>1, HeadTailElements
<1>3. gateway.body \in Seq(S)
  BY DEF Shape, Loop
<1>4. /\ gateway' \in Loop(S) /\ gateway'.stage = "gathering"
      /\ gateway'.body = Append(gateway.body, Head(channel))
  <2>1. gateway \in Loop(S)
    BY DEF Shape
  <2>2. gateway' = [gateway EXCEPT !.stage = "gathering",
                                   !.body = Append(@, Head(channel))]
    BY DEF Receive
  <2>3. gateway' = [stage |-> "gathering",
                    body |-> Append(gateway.body, Head(channel)),
                    attempt |-> gateway.attempt, at |-> gateway.at]
    BY ONLY <2>1, <2>2 DEF Loop
  <2>4. Append(gateway.body, Head(channel)) \in Seq(S)
    BY <1>2, <1>3
  <2> QED BY ONLY <2>1, <2>3, <2>4 DEF Loop
<1>5. ElementsOf(gateway'.body) = ElementsOf(gateway.body) \cup {Head(channel)}
  BY <1>2, <1>3, <1>4, AppendElements
<1>6. Shape(S)'
  BY <1>1, <1>2, <1>4 DEF Shape
<1>7. \A c : InGateway(c)' <=> InGateway(c)
  BY <1>1, <1>2, <1>5 DEF InGateway, InFlight
<1> QED BY <1>1, <1>6, <1>7 DEF Carries, IsStored

LEMMA BatchVerdictCarries ==
  ASSUME NEW S, Shape(S), BatchVerdict
  PROVE  Shape(S)' /\ Carries({})
<1>1. /\ Forwarding /\ Places(Body)
      /\ Body = gateway.body
      /\ gateway' = At("waiting")
      /\ UNCHANGED <<channel, buffer, posts, wrecked>>
  BY VerdictPlaces DEF BatchVerdict, Forwarding, Body, ruin
<1>2. \A c \in ElementsOf(Body) : c \in S /\ InGateway(c)
  BY <1>1, BodyInGateway
<1>3. gateway' \in Loop(S) /\ gateway'.body = << >>
  BY <1>1 DEF At, Loop
<1>4. Shape(S)'
  BY <1>1, <1>2, <1>3 DEF Shape, Takes, Places
<1>5. ElementsOf(<< >>) = {}
  BY DEF ElementsOf
<1>6. \A c : InGateway(c)' => InGateway(c)
  BY <1>1, <1>3, <1>5 DEF InGateway, InFlight
<1>7. \A c : InGateway(c) => InGateway(c)' \/ c \in ElementsOf(Body)
  BY <1>1, <1>3, <1>5 DEF InGateway, InFlight
<1>8. \A c : IsStored(c)' => IsStored(c) \/ InGateway(c)
  BY <1>1, <1>2 DEF Takes, Places, IsStored
<1> QED BY <1>1, <1>4, <1>6, <1>7, <1>8 DEF Carries, Takes, Places

LEMMA BufferBatchCarries ==
  ASSUME NEW S, Shape(S), BufferBatch
  PROVE  Shape(S)' /\ Carries({})
<1>1. /\ Forwarding /\ Body = gateway.body
      /\ gateway' = At("waiting")
      /\ UNCHANGED <<channel, posts, stored, refused>>
  BY DEF BufferBatch, Forwarding, Body, server
<1>2. Body \in Seq(S) /\ buffer \in Seq(Seq(S))
  BY <1>1, BodyInGateway DEF Shape
<1>3. gateway' \in Loop(S) /\ gateway'.body = << >>
  BY <1>1 DEF At, Loop
<1>4. ElementsOf(<< >>) = {}
  BY DEF ElementsOf
<1>5. CASE buffer' = Append(buffer, Body) /\ UNCHANGED ruin
  <2>1. PICK T : T = Seq(S)
    OBVIOUS
  <2>2. buffer' \in Seq(T) /\ ElementsOf(buffer') = ElementsOf(buffer) \cup {Body}
    <3>1. buffer \in Seq(T) /\ Body \in T
      BY <1>2, <2>1
    <3> QED BY ONLY <1>5, <3>1, AppendElements
  <2>3. Shape(S)'
    BY <1>1, <1>3, <2>1, <2>2 DEF Shape
  <2>4. \A c : InGateway(c) => InGateway(c)'
    <3> SUFFICES ASSUME NEW c, InGateway(c) PROVE InGateway(c)'
      OBVIOUS
    <3>1. CASE c \in InFlight
      BY <1>1, <2>2, <3>1, RowsOf DEF InGateway, InFlight
    <3>2. CASE \E i \in DOMAIN buffer : c \in ElementsOf(buffer[i])
      <4>1. \E row \in ElementsOf(buffer') : c \in ElementsOf(row)
        BY <2>2, <3>2, RowsOf
      <4>2. \E i \in DOMAIN buffer' : c \in ElementsOf(buffer'[i])
        BY <4>1, RowsOf
      <4> QED BY <4>2 DEF InGateway
    <3> QED BY <3>1, <3>2 DEF InGateway
  <2>5. \A c : InGateway(c)' => InGateway(c)
    <3> SUFFICES ASSUME NEW c, InGateway(c)' PROVE InGateway(c)
      OBVIOUS
    <3>1. CASE c \in InFlight'
      BY <1>1, <1>3, <1>4, <3>1 DEF InGateway, InFlight
    <3>2. CASE \E i \in DOMAIN buffer' : c \in ElementsOf(buffer'[i])
      <4>1. PICK row \in ElementsOf(buffer') : c \in ElementsOf(row)
        BY <3>2, RowsOf
      <4>2. CASE row = Body
        BY <1>1, <4>1, <4>2 DEF InGateway, InFlight
      <4>3. CASE row \in ElementsOf(buffer)
        <5>1. \E i \in DOMAIN buffer : c \in ElementsOf(buffer[i])
          BY <4>1, <4>3, RowsOf
        <5> QED BY <5>1 DEF InGateway
      <4> QED BY <2>2, <4>1, <4>2, <4>3
    <3> QED BY <3>1, <3>2 DEF InGateway
  <2> QED BY <1>1, <1>5, <2>3, <2>4, <2>5 DEF Carries, IsStored, ruin
<1>6. CASE /\ wrecked' = wrecked \cup ElementsOf(Body)
           /\ UNCHANGED buffer
  <2>1. Shape(S)'
    BY <1>1, <1>3, <1>6 DEF Shape
  <2>2. \A c : InGateway(c)' => InGateway(c)
    BY <1>1, <1>3, <1>4, <1>6 DEF InGateway, InFlight
  <2>3. \A c : InGateway(c) => InGateway(c)' \/ c \in wrecked'
    BY <1>1, <1>3, <1>4, <1>6 DEF InGateway, InFlight
  <2> QED BY <1>1, <1>6, <2>1, <2>2, <2>3 DEF Carries, IsStored
<1> QED BY <1>5, <1>6 DEF BufferBatch

(* A crash wrecks what is in memory, and only that. *)
LEMMA CrashCarries ==
  ASSUME NEW S, Shape(S), Crash
  PROVE  Shape(S)' /\ Carries({})
<1>1. /\ gateway' = At("off") /\ channel' = << >> /\ posts' = << >>
      /\ wrecked' = wrecked \cup InFlight
      /\ UNCHANGED <<buffer, stored, refused>>
  BY DEF Crash, server
<1>2. gateway' \in Loop(S) /\ gateway'.body = << >>
  BY <1>1 DEF At, Loop
<1>3. ElementsOf(<< >>) = {} /\ DOMAIN posts' = {}
  BY <1>1 DEF ElementsOf
<1>4. Shape(S)'
  BY <1>1, <1>2, <1>3 DEF Shape
<1>5. \A c : InGateway(c)' => InGateway(c)
  BY <1>1, <1>2, <1>3 DEF InGateway, InFlight
<1>6. \A c : InGateway(c) => InGateway(c)' \/ c \in wrecked'
  BY <1>1 DEF InGateway
<1> QED BY <1>1, <1>4, <1>5, <1>6 DEF Carries, IsStored

(* The chunk the board sends next. *)
BoardChunk == Batch(Board, (board \div 2) + 1)[(board % 2) + 1]

LEMMA BoardSendsCarries ==
  ASSUME NEW S, Shape(S), BoardSends, BoardChunk \in S
  PROVE  Shape(S)' /\ Carries({BoardChunk})
<1>1. /\ UNCHANGED <<gateway, buffer, posts, stored, refused, wrecked>>
      /\ channel' = Append(channel, BoardChunk) /\ channel \in Seq(S)
  BY DEF BoardSends, server, ruin, Shape, BoardChunk
<1>2. /\ channel' \in Seq(S)
      /\ ElementsOf(channel') = ElementsOf(channel) \cup {BoardChunk}
  BY <1>1, AppendElements
<1>3. Shape(S)'
  BY <1>1, <1>2 DEF Shape
<1>4. \A c : InGateway(c)' <=> InGateway(c) \/ c = BoardChunk
  BY <1>1, <1>2 DEF InGateway, InFlight
<1> QED BY <1>1, <1>3, <1>4 DEF Carries, IsStored

LEMMA AcceptCarries ==
  ASSUME NEW S, Shape(S), NEW batch \in Seq(S), Accept(batch)
  PROVE  Shape(S)' /\ Carries(ElementsOf(batch))
<1>1. /\ UNCHANGED <<gateway, channel, buffer, stored, refused, wrecked>>
      /\ "asked" \notin DOMAIN posts
      /\ DOMAIN posts' = DOMAIN posts \cup {"asked"}
      /\ posts'["asked"] = batch
      /\ \A k \in DOMAIN posts : posts'[k] = posts[k]
  BY DEF Accept, server, ruin
<1>2. Shape(S)'
  <2>1. \A k \in DOMAIN posts' : posts'[k] \in Seq(S)
    BY <1>1 DEF Shape
  <2> QED BY <1>1, <2>1 DEF Shape
<1>3. \A c : InGateway(c)' <=> InGateway(c) \/ c \in ElementsOf(batch)
  BY <1>1 DEF InGateway, InFlight
<1> QED BY <1>1, <1>2, <1>3 DEF Carries, IsStored

LEMMA FeedCarries ==
  ASSUME NEW S, Shape(S), NEW k, Feed(k)
  PROVE  Shape(S)' /\ Carries({})
<1>1. /\ UNCHANGED <<gateway, buffer, stored, refused, wrecked>>
      /\ k \in DOMAIN posts /\ posts[k] # << >>
      /\ channel' = Append(channel, Head(posts[k]))
      /\ DOMAIN posts' = DOMAIN posts
      /\ posts'[k] = Tail(posts[k])
      /\ \A j \in DOMAIN posts : j # k => posts'[j] = posts[j]
  BY DEF Feed, server, ruin
<1>2. posts[k] \in Seq(S) /\ channel \in Seq(S)
  BY <1>1 DEF Shape
<1>3. /\ Head(posts[k]) \in S /\ posts'[k] \in Seq(S)
      /\ ElementsOf(posts[k]) = {Head(posts[k])} \cup ElementsOf(posts'[k])
  BY <1>1, <1>2, HeadTailElements
<1>4. /\ channel' \in Seq(S)
      /\ ElementsOf(channel') = ElementsOf(channel) \cup {Head(posts[k])}
  BY <1>1, <1>2, <1>3, AppendElements
<1>5. Shape(S)'
  <2>1. \A j \in DOMAIN posts' : posts'[j] \in Seq(S)
    BY <1>1, <1>3 DEF Shape
  <2> QED BY <1>1, <1>4, <2>1 DEF Shape
<1>6. \A c : (\E j \in DOMAIN posts : c \in ElementsOf(posts[j])) <=>
               \/ \E j \in DOMAIN posts' : c \in ElementsOf(posts'[j])
               \/ c = Head(posts[k])
  BY <1>1, <1>3
<1>7. \A c : InGateway(c)' <=> InGateway(c)
  BY <1>1, <1>4, <1>6 DEF InGateway, InFlight
<1> QED BY <1>1, <1>5, <1>7 DEF Carries, IsStored

LEMMA ReplyCarries ==
  ASSUME NEW S, Shape(S), NEW k, Reply(k)
  PROVE  Shape(S)' /\ Carries({})
<1>1. /\ UNCHANGED <<gateway, channel, buffer, stored, refused, wrecked>>
      /\ posts[k] = << >>
      /\ DOMAIN posts' = DOMAIN posts \ {k}
      /\ \A j \in DOMAIN posts' : posts'[j] = posts[j]
  BY DEF Reply, Drop, server, ruin
<1>2. ElementsOf(posts[k]) = {}
  BY <1>1 DEF ElementsOf
<1>3. Shape(S)'
  BY <1>1 DEF Shape
<1>4. \A c : InGateway(c)' <=> InGateway(c)
  BY <1>1, <1>2 DEF InGateway, InFlight
<1> QED BY <1>1, <1>3, <1>4 DEF Carries, IsStored

(* The connection's task carries on with what the sender left it. *)
LEMMA AbandonCarries ==
  ASSUME NEW S, Shape(S), Abandon
  PROVE  Shape(S)' /\ Carries({})
<1>1. /\ UNCHANGED <<gateway, channel, buffer, stored, refused, wrecked>>
      /\ DOMAIN posts = {"asked"}
      /\ DOMAIN posts' = {"left"}
      /\ posts'["left"] = posts["asked"]
  BY DEF Abandon, Shape, server, ruin
<1>2. Shape(S)'
  BY <1>1 DEF Shape
<1>3. \A c : InGateway(c)' <=> InGateway(c)
  BY <1>1 DEF InGateway, InFlight
<1> QED BY <1>1, <1>2, <1>3 DEF Carries, IsStored

-----------------------------------------------------------------------------
(* The chunks that exist so far: those of the reports made, and the data   *)
(* of the board's sessions that are complete.                              *)
Sent ==
  {c \in [of : Sources, n : Nat, kind : {"info", "data"}] :
     /\ c.of = Box => c.n \in DOMAIN reports
     /\ c.of = Board /\ c.kind = "data" => c.n \in 1 .. board \div 2}

(* While a POST is out, its report is being sent, and is in the gateway or *)
(* has come to its end there.                                              *)
PostInv ==
  Asked =>
    /\ route = "gateway" /\ Running
    /\ Sending # None
    /\ LET c == Payload(Box, Sending)
       IN InGateway(c) \/ IsStored(c) \/ c \in refused \cup wrecked

ChainInv == AgentInv /\ board \in Nat /\ Shape(Sent) /\ PostInv

LEMMA SentGrows ==
  ASSUME AgentInv, board \in Nat,
         board' = board \/ board' = board + 1,
         reports' = reports \/ \E k : reports' = Append(reports, k)
  PROVE  Sent \subseteq Sent' /\ board' \in Nat
<1>1. reports \in Seq(0 .. MaxBoots)
  BY DEF AgentInv, AgentTypeOK
<1>2. DOMAIN reports \subseteq DOMAIN reports'
  BY <1>1
<1>3. 1 .. board \div 2 \subseteq 1 .. board' \div 2
  OBVIOUS
<1> QED BY <1>2, <1>3 DEF Sent

LEMMA SentBatchSent ==
  ASSUME AgentInv, Sending # None
  PROVE  /\ Sending \in DOMAIN reports /\ Sending \in Report
         /\ SentBatch \in Seq(Sent)
         /\ Payload(Box, Sending) \in ElementsOf(SentBatch)
         /\ \A n : Payload(Box, n) \in ElementsOf(SentBatch) => n = Sending
         /\ \A n : Payload(Board, n) \notin ElementsOf(SentBatch)
<1>1. DOMAIN reports = 1 .. Len(reports) /\ Len(reports) \in Nat
        /\ Len(reports) <= MaxReports
  BY DEF AgentInv, AgentTypeOK
<1>2. \/ Sending = agent.hand /\ agent.hand # None
      \/ \E i \in Files : Sending = spool[i]
  <2>1. CASE agent.stage = "flush" /\ agent.left # {}
    <3> DEFINE S == agent.left
    <3>1. S \subseteq Nat /\ S # {} /\ S \subseteq Files
      BY <2>1 DEF AgentInv, AgentTypeOK, HandInv
    <3>2. Sending = spool[First(S)]
      BY <2>1 DEF Sending
    <3> HIDE DEF S
    <3>3. First(S) \in Files
      BY <3>1, FirstIsFirst
    <3> QED BY <3>2, <3>3
  <2>2. CASE agent.stage \in {"fresh", "blind"}
    BY <2>2 DEF Sending, AgentInv, HandInv
  <2> QED BY <2>1, <2>2 DEF Sending
<1>3. Sending \in Report /\ Sending <= Len(reports)
  <2>1. CASE Sending = agent.hand /\ agent.hand # None
    BY <1>1, <2>1, AgentAssumption DEF AgentInv, AgentTypeOK, HandInv, Report
  <2>2. CASE \E i \in Files : Sending = spool[i]
    BY <2>2 DEF AgentInv, AgentTypeOK, SpoolInOrder
  <2> QED BY <1>2, <2>1, <2>2
<1>4. Sending \in DOMAIN reports /\ Sending \in Nat
  BY <1>1, <1>3, AgentAssumption DEF Report
<1>5. \A c \in {[of |-> Box, n |-> Sending, kind |-> "info"],
                [of |-> Box, n |-> Sending, kind |-> "data"]} : c \in Sent
  BY <1>4, GatewayAssumption DEF Sent, Sources
<1>6. SentBatch \in Seq(Sent) /\ DOMAIN SentBatch = {1, 2}
  BY <1>5 DEF SentBatch, Batch
<1>7. ElementsOf(SentBatch) = {[of |-> Box, n |-> Sending, kind |-> "info"],
                               [of |-> Box, n |-> Sending, kind |-> "data"]}
  BY <1>6 DEF ElementsOf, SentBatch, Batch
<1> QED BY <1>3, <1>4, <1>6, <1>7, GatewayAssumption DEF Payload

-----------------------------------------------------------------------------
(* What the agent has, and what becomes of it.                             *)
AgentHas(n) == agent.hand = n \/ \E i \in Files : spool[i] = n

(* A step of the agent in which nothing fails keeps its reports, except    *)
(* those it drops and those it could send; and those it makes no copy of   *)
(* again.                                                                  *)
Keeps(answered) ==
  /\ \A n \in Report :
       faults' = faults /\ AgentHas(n)
         => AgentHas(n)' \/ n \in dropped' \cup answered
  /\ \A n \in Report : AgentHas(n)' => AgentHas(n) \/ n \notin DOMAIN reports

LEMMA GiveUpHas ==
  ASSUME AgentInv, GiveUp
  PROVE  Keeps({})
<1>1. faults' # faults
  BY DEF GiveUp, AgentInv, AgentTypeOK
<1>2. Files' = Files /\ spool' = spool
  BY DEF GiveUp, disk, Files
<1>3. agent'.hand = None
  BY DEF GiveUp, Rest, AgentInv, AgentTypeOK
<1>4. None \notin Report
  BY AgentAssumption DEF Report
<1> QED BY <1>1, <1>2, <1>3, <1>4 DEF Keeps, AgentHas

LEMMA PushHas ==
  ASSUME AgentInv, agent.hand # None, Push
  PROVE  Keeps({})
<1>1. PICK trims \in BOOLEAN :
        LET files  == Files \cup {agent.next}
            excess == {i \in files : trims /\
                         Cardinality({j \in files : j >= i}) > MaxSpooled}
            all    == [i \in files |-> IF i = agent.next THEN agent.hand
                                                         ELSE spool[i]]
        IN /\ spool' = [i \in files \ excess |-> all[i]]
           /\ dropped' = dropped \cup {all[i] : i \in excess}
  BY DEF Push
<1> DEFINE files  == Files \cup {agent.next}
           excess == {i \in files : trims /\
                        Cardinality({j \in files : j >= i}) > MaxSpooled}
           all    == [i \in files |-> IF i = agent.next THEN agent.hand
                                                        ELSE spool[i]]
<1>2. /\ excess \subseteq files
      /\ spool' = [i \in files \ excess |-> all[i]]
      /\ dropped' = dropped \cup {all[i] : i \in excess}
  BY <1>1
<1>3. /\ \A i \in files : all[i] = IF i = agent.next THEN agent.hand ELSE spool[i]
      /\ agent.next \in files /\ Files \subseteq files
      /\ \A i \in files : i # agent.next => i \in Files
  OBVIOUS
<1>4. agent.next \notin Files
  BY DEF AgentInv, AgentTypeOK, HandInv, SpoolInOrder
<1> HIDE DEF excess, files, all
<1>5. /\ Files' = files \ excess
      /\ \A i \in Files' : spool'[i] = all[i]
  BY <1>2 DEF Files
<1>6. agent'.hand = None
  BY DEF Push, Rest, AgentInv, AgentTypeOK
<1>7. \A n : AgentHas(n) => \E i \in files : all[i] = n
  BY <1>3, <1>4 DEF AgentHas
<1>8. \A n \in Report : AgentHas(n) => AgentHas(n)' \/ n \in dropped'
  <2> SUFFICES ASSUME NEW n \in Report, AgentHas(n)
               PROVE  AgentHas(n)' \/ n \in dropped'
    OBVIOUS
  <2>1. PICK i \in files : all[i] = n
    BY <1>7
  <2>2. CASE i \in excess
    BY <1>2, <2>1, <2>2
  <2>3. CASE i \notin excess
    BY <1>5, <2>1, <2>3 DEF AgentHas
  <2> QED BY <2>2, <2>3
<1>9. \A n \in Report : AgentHas(n)' => AgentHas(n)
  <2>1. None \notin Report
    BY AgentAssumption DEF Report
  <2> QED BY <1>3, <1>5, <1>6, <2>1 DEF AgentHas
<1> QED BY <1>8, <1>9 DEF Keeps

(* On an answer, only what was being sent can go, and only when the answer *)
(* is that it arrived.                                                     *)
LEMMA AnsweredHas ==
  ASSUME AgentInv, NEW answer \in {"Accepted", "Rejected", "Failed"},
         Answered(answer)
  PROVE  Keeps(IF answer = "Accepted" THEN {Sending} ELSE {})
<1>1. /\ agent \in [stage : Stages, next : Nat, pending : 0 .. MaxBoots,
                    left : SUBSET Nat, hand : Report \cup {None}]
      /\ None \notin Report
  BY AgentAssumption DEF AgentInv, AgentTypeOK, Report
<1>2. CASE GiveUp
  BY <1>2, GiveUpHas DEF Keeps
<1>3. CASE FlushAnswered(answer)
  <2>1. agent.stage = "flush" /\ agent.left # {}
    BY <1>3 DEF FlushAnswered
  <2>2. Sending = spool[First(agent.left)]
    BY <2>1 DEF Sending
  <2>3. CASE agent' = [agent EXCEPT !.left = {}] /\ UNCHANGED disk
    <3>1. agent'.hand = agent.hand /\ UNCHANGED <<spool, Files>>
      BY <1>1, <2>3 DEF disk, Files
    <3> QED BY <3>1 DEF Keeps, AgentHas
  <2>4. CASE /\ answer # "Failed"
             /\ spool' = [j \in Files \ {First(agent.left)} |-> spool[j]]
             /\ dropped' = IF answer = "Rejected"
                           THEN dropped \cup {spool[First(agent.left)]}
                           ELSE dropped
             /\ agent' = [agent EXCEPT !.left = @ \ {First(agent.left)}]
    <3>1. /\ agent'.hand = agent.hand
          /\ Files' = Files \ {First(agent.left)}
          /\ \A j \in Files' : spool'[j] = spool[j]
      BY <1>1, <2>4 DEF Files
    <3>2. CASE answer = "Accepted"
      BY <2>2, <3>1, <3>2 DEF Keeps, AgentHas
    <3>3. CASE answer = "Rejected"
      BY <2>4, <3>1, <3>3 DEF Keeps, AgentHas
    <3> QED BY <2>4, <3>2, <3>3
  <2> QED BY <1>2, <1>3, <2>3, <2>4 DEF FlushAnswered
<1>4. CASE FreshAnswered(answer)
  <2>1. agent.stage \in {"fresh", "blind"} /\ agent.hand # None
    BY <1>4 DEF FreshAnswered, AgentInv, HandInv
  <2>2. Sending = agent.hand
    BY <2>1 DEF Sending
  <2>3. CASE Push
    BY <2>1, <2>3, PushHas DEF Keeps
  <2>4. CASE /\ answer # "Failed"
             /\ agent' = Rest
             /\ dropped' = IF answer = "Rejected"
                           THEN dropped \cup {agent.hand} ELSE dropped
             /\ UNCHANGED disk
    <3>1. agent'.hand = None /\ UNCHANGED <<spool, Files>>
      BY <1>1, <2>4 DEF Rest, disk, Files
    <3>2. CASE answer = "Accepted"
      BY <1>1, <2>2, <3>1, <3>2 DEF Keeps, AgentHas
    <3>3. CASE answer = "Rejected"
      BY <1>1, <2>4, <3>1, <3>3 DEF Keeps, AgentHas
    <3> QED BY <2>4, <3>2, <3>3
  <2> QED BY <1>2, <1>4, <2>3, <2>4 DEF FreshAnswered
<1> QED BY <1>3, <1>4 DEF Answered

LEMMA OwnStepsHave ==
  ASSUME AgentInv, AgentStep \/ FlushFails \/ Kill
  PROVE  Keeps({})
<1>1. /\ agent \in [stage : Stages, next : Nat, pending : 0 .. MaxBoots,
                    left : SUBSET Nat, hand : Report \cup {None}]
      /\ None \notin Report
      /\ agent.stage \in {"idle", "off"} => agent.hand = None
  BY AgentAssumption DEF AgentInv, AgentTypeOK, HandInv, Report
<1>2. CASE PushFails \/ FlushFails
  BY <1>2, GiveUpHas DEF PushFails, FlushFails
<1>3. CASE Start \/ Stop \/ Reboot
  <2>1. UNCHANGED <<spool, Files>> /\ agent'.hand = None
    <3>1. CASE Start
      BY <3>1 DEF Start, Off, Files
    <3>2. CASE Stop
      BY <3>2 DEF Stop, Off, disk, Files
    <3>3. CASE Reboot
      BY <1>1, <3>3 DEF Reboot, disk, Files
    <3> QED BY <1>3, <3>1, <3>2, <3>3
  <2> QED BY <1>1, <1>3, <2>1 DEF Keeps, AgentHas, Start, Stop, Reboot
<1>4. CASE Kill
  <2>1. faults' # faults /\ UNCHANGED <<spool, Files>> /\ agent'.hand = None
    BY <1>4 DEF Kill, Off, disk, Files, AgentInv, AgentTypeOK
  <2> QED BY <1>1, <2>1 DEF Keeps, AgentHas
<1>5. ASSUME NEW readable \in BOOLEAN, Tick(readable) PROVE Keeps({})
  <2>1. /\ UNCHANGED <<spool, Files>> /\ agent.hand = None
        /\ agent'.hand = Len(reports) + 1
    BY <1>1, <1>5 DEF Tick, disk, Files
  <2>2. Len(reports) + 1 \notin DOMAIN reports
    BY DEF AgentInv, AgentTypeOK
  <2> QED BY <1>1, <2>1, <2>2 DEF Keeps, AgentHas
<1>6. CASE FlushDone \/ FlushBlind
  <2>1. agent.stage = "flush" /\ agent.hand # None
    BY <1>6 DEF FlushDone, FlushBlind, AgentInv, HandInv
  <2>2. CASE Push
    BY <2>1, <2>2, PushHas
  <2>3. CASE /\ \E stage \in {"fresh", "blind"} :
                  agent' = [agent EXCEPT !.stage = stage]
             /\ UNCHANGED disk
    <3>1. agent'.hand = agent.hand /\ UNCHANGED <<spool, Files>>
      BY <1>1, <2>3 DEF disk, Files
    <3> QED BY <3>1 DEF Keeps, AgentHas
  <2> QED BY <1>6, <2>2, <2>3 DEF FlushDone, FlushBlind
<1> QED BY <1>2, <1>3, <1>4, <1>5, <1>6 DEF AgentStep

(* The records only grow, and a reboot found is in memory, in the report   *)
(* made in this step, on record as not said, or lost in a fault.           *)
Records ==
  /\ dropped \subseteq dropped'
  /\ unsaid \subseteq unsaid'
  /\ found \subseteq found'
  /\ found' \subseteq found \cup {agent'.pending}
  /\ reports' = reports \/ reports' = Append(reports, agent.pending)
  /\ reports' # reports => agent'.hand = Len(reports) + 1
  /\ faults' = faults \/ faults' > faults
  /\ agent'.pending # 0 => \/ agent'.pending = agent.pending
                           \/ agent'.pending \notin found
  /\ agent.pending # 0 /\ faults' = faults =>
       \/ agent'.pending = agent.pending
       \/ reports' = Append(reports, agent.pending)
       \/ agent.pending \in unsaid'

LEMMA PushRecords == AgentInv /\ Push => Records
<1> SUFFICES ASSUME AgentInv, Push PROVE Records
  OBVIOUS
<1>1. agent'.pending = agent.pending
  BY DEF Push, Rest, AgentInv, AgentTypeOK
<1>2. faults' = faults \/ faults' > faults
  BY DEF Push, AgentInv, AgentTypeOK
<1> QED BY <1>1, <1>2 DEF Push, Records

LEMMA GiveUpRecords == AgentInv /\ GiveUp => Records
<1> SUFFICES ASSUME AgentInv, GiveUp PROVE Records
  OBVIOUS
<1>1. agent'.pending = agent.pending
  BY DEF GiveUp, Rest, AgentInv, AgentTypeOK
<1>2. faults' > faults
  BY DEF GiveUp, AgentInv, AgentTypeOK
<1> QED BY <1>1, <1>2 DEF GiveUp, Records, aHistory

LEMMA StartRecords == AgentInv /\ Start => Records
<1> SUFFICES ASSUME AgentInv, Start PROVE Records
  OBVIOUS
<1> DEFINE rebooted == saved # None /\ saved.boot # boot
           sequence == IF saved = None THEN 0
                       ELSE IF rebooted THEN saved.sequence + 1
                                        ELSE saved.sequence
<1>1. /\ found' = IF rebooted THEN found \cup {sequence} ELSE found
      /\ agent'.pending = IF rebooted THEN sequence ELSE 0
      /\ agent.pending = 0
      /\ UNCHANGED <<reports, dropped, unsaid, faults>>
  BY DEF Start, Off, AgentInv, SequenceInv
<1>2. rebooted => sequence \notin found
  BY DEF AgentInv, AgentTypeOK, SequenceInv
<1> HIDE DEF rebooted, sequence
<1> QED BY <1>1, <1>2 DEF Records

LEMMA AgentRecords ==
  ASSUME AgentInv, [AgentNext]_agentVars
  PROVE  Records
<1>1. /\ agent \in [stage : Stages, next : Nat, pending : 0 .. MaxBoots,
                    left : SUBSET Nat, hand : Report \cup {None}]
      /\ faults \in Nat
  BY DEF AgentInv, AgentTypeOK
<1>2. CASE Push \/ GiveUp
  BY <1>2, PushRecords, GiveUpRecords
<1>3. CASE Start
  BY <1>3, StartRecords
<1>4. CASE Stop
  BY <1>4 DEF Stop, Off, Records
<1>5. CASE Kill
  <2>1. faults' > faults
    BY <1>1, <1>5 DEF Kill
  <2> QED BY <1>5, <2>1 DEF Kill, Off, Records, aHistory
<1>6. CASE Reboot \/ UNCHANGED agentVars
  BY <1>6 DEF Reboot, agentVars, aHistory, Records
<1>7. ASSUME NEW readable \in BOOLEAN, Tick(readable) PROVE Records
  <2>1. agent'.pending = 0 /\ agent'.hand = Len(reports) + 1
    BY <1>1, <1>7 DEF Tick
  <2>2. faults' = faults \/ faults' > faults
    BY <1>1, <1>7 DEF Tick
  <2> QED BY <1>7, <2>1, <2>2 DEF Tick, Records
<1>8. CASE FlushDone \/ FlushBlind
  <2>1. CASE agent' = [agent EXCEPT !.stage = "fresh"]
             /\ UNCHANGED <<aHistory, faults>>
    <3>1. agent'.pending = agent.pending
      BY <1>1, <2>1
    <3> QED BY <2>1, <3>1 DEF Records, aHistory
  <2>2. CASE FlushBlind
    <3>1. /\ agent'.pending = agent.pending /\ UNCHANGED aHistory
          /\ faults' > faults
      BY <1>1, <2>2 DEF FlushBlind
    <3> QED BY <3>1 DEF Records, aHistory
  <2> QED BY <1>2, <1>8, <2>1, <2>2 DEF FlushDone
<1>9. ASSUME NEW answer, Answered(answer) PROVE Records
  <2>1. CASE /\ agent'.pending = agent.pending
             /\ dropped \subseteq dropped'
             /\ UNCHANGED <<reports, found, unsaid, faults>>
    BY <2>1 DEF Records
  <2>2. CASE FlushAnswered(answer)
    BY <1>1, <1>2, <2>1, <2>2 DEF FlushAnswered, aHistory
  <2>3. CASE FreshAnswered(answer)
    BY <1>1, <1>2, <2>1, <2>3 DEF FreshAnswered, Rest
  <2> QED BY <1>9, <2>2, <2>3 DEF Answered
<1> QED BY <1>2, <1>3, <1>4, <1>5, <1>6, <1>7, <1>8, <1>9
        DEF AgentNext, AgentStep, PushFails, FlushFails

-----------------------------------------------------------------------------
(* One step of the whole chain.                                            *)

(* What becomes of reports and sessions, wherever in the chain they are.   *)
Flow ==
  /\ stored \subseteq stored' /\ refused \subseteq refused'
  /\ wrecked \subseteq wrecked'
  /\ \A n \in Report :
       /\ faults' = faults /\ ReportHeld(n)
            => ReportHeld(n)' \/ ReportStored(n)' \/ ReportExcused(n)'
       /\ ReportHeld(n)' => ReportHeld(n) \/ n \notin DOMAIN reports
       /\ ReportStored(n)' => ReportStored(n) \/ ReportHeld(n)
  /\ \A n \in 1 .. MaxSessions :
       /\ InGateway(Payload(Board, n))
            => \/ InGateway(Payload(Board, n))' \/ IsStored(Payload(Board, n))'
               \/ Payload(Board, n) \in refused' \cup wrecked'
       /\ InGateway(Payload(Board, n))'
            => InGateway(Payload(Board, n)) \/ n \notin 1 .. board \div 2
       /\ IsStored(Payload(Board, n))'
            => IsStored(Payload(Board, n)) \/ InGateway(Payload(Board, n))

(* A session is complete when its data has been put on the channel. *)
Sessions ==
  \/ board' = board
  \/ /\ board' = board + 1
     /\ \A n \in 1 .. board' \div 2 :
          \/ n \in 1 .. board \div 2
          \/ n \in 1 .. MaxSessions /\ InGateway(Payload(Board, n))'

LEMMA JointFlow ==
  ASSUME NEW answered, NEW new, Keeps(answered), Carries(new),
         \A n \in Report : n \in answered =>
           \/ InGateway(Payload(Box, n))' \/ IsStored(Payload(Box, n))'
           \/ Payload(Box, n) \in refused' \cup wrecked',
         \A n \in Report : Payload(Box, n) \in new => ReportHeld(n),
         \A n \in 1 .. MaxSessions :
           Payload(Board, n) \in new => n \notin 1 .. board \div 2
  PROVE  Flow
<1>1. \A n : /\ ReportHeld(n) <=> AgentHas(n) \/ InGateway(Payload(Box, n))
             /\ ReportHeld(n)' <=> AgentHas(n)' \/ InGateway(Payload(Box, n))'
             /\ ReportStored(n) <=> IsStored(Payload(Box, n))
             /\ ReportStored(n)' <=> IsStored(Payload(Box, n))'
             /\ ReportExcused(n)' <=>
                  n \in dropped' \/ Payload(Box, n) \in refused' \cup wrecked'
  BY DEF ReportHeld, ReportStored, ReportExcused, AgentHas, Payload
<1>2. ASSUME NEW n \in Report
      PROVE  /\ faults' = faults /\ ReportHeld(n)
                  => ReportHeld(n)' \/ ReportStored(n)' \/ ReportExcused(n)'
             /\ ReportHeld(n)' => ReportHeld(n) \/ n \notin DOMAIN reports
             /\ ReportStored(n)' => ReportStored(n) \/ ReportHeld(n)
  <2>1. PICK c : c = Payload(Box, n)
    OBVIOUS
  <2>2. /\ InGateway(c) => \/ InGateway(c)' \/ IsStored(c)'
                           \/ c \in refused' \cup wrecked'
        /\ InGateway(c)' => InGateway(c) \/ c \in new
        /\ IsStored(c)' => IsStored(c) \/ InGateway(c)
    BY DEF Carries
  <2>3. /\ faults' = faults /\ AgentHas(n)
             => AgentHas(n)' \/ n \in dropped' \cup answered
        /\ AgentHas(n)' => AgentHas(n) \/ n \notin DOMAIN reports
    BY DEF Keeps
  <2> QED BY <1>1, <2>1, <2>2, <2>3
<1>3. ASSUME NEW n \in 1 .. MaxSessions, NEW c, c = Payload(Board, n)
      PROVE  /\ InGateway(c) => \/ InGateway(c)' \/ IsStored(c)'
                                \/ c \in refused' \cup wrecked'
             /\ InGateway(c)' => InGateway(c) \/ n \notin 1 .. board \div 2
             /\ IsStored(c)' => IsStored(c) \/ InGateway(c)
  BY <1>3 DEF Carries
<1> QED BY <1>2, <1>3 DEF Flow, Carries

(* Nothing moves in the gateway. *)
LEMMA StillCarries ==
  ASSUME UNCHANGED gatewayVars
  PROVE  Carries({}) /\ board' = board /\ (Asked' <=> Asked)
         /\ \A S : Shape(S) => Shape(S)'
<1>1. UNCHANGED <<gateway, channel, buffer, posts, board, stored, refused, wrecked>>
  BY DEF gatewayVars, server, ruin
<1> QED BY <1>1 DEF Carries, InGateway, InFlight, IsStored, Asked, Shape

(* Nothing moves in the agent. *)
LEMMA StillKeeps ==
  ASSUME UNCHANGED agentVars
  PROVE  Keeps({}) /\ reports' = reports /\ Sending' = Sending
<1>1. UNCHANGED <<agent, spool, reports, dropped, Files>>
  BY DEF agentVars, disk, aHistory, Files
<1> QED BY <1>1 DEF Keeps, AgentHas, Sending

LEMMA BoardChunkIs ==
  ASSUME board \in Nat, board < 2 * MaxSessions
  PROVE  /\ BoardChunk.of = Board
         /\ BoardChunk \in [of : Sources, n : Nat, kind : {"info", "data"}]
         /\ BoardChunk.kind = "data" => BoardChunk.n \in 1 .. (board + 1) \div 2
         /\ \A n \in 1 .. (board + 1) \div 2 :
              \/ n \in 1 .. board \div 2
              \/ n \in 1 .. MaxSessions /\ BoardChunk = Payload(Board, n)
         /\ \A n : Payload(Board, n) = BoardChunk => n \notin 1 .. board \div 2
<1> DEFINE k == board \div 2
<1>1. k \in Nat /\ (board % 2 = 0 \/ board % 2 = 1)
        /\ board = 2 * k + (board % 2)
  OBVIOUS
<1>2. MaxSessions \in Nat
  BY GatewayAssumption
<1>3. CASE board % 2 = 0
  <2>1. (board + 1) \div 2 = k
    BY <1>1, <1>3
  <2>2. BoardChunk = [of |-> Board, n |-> k + 1, kind |-> "info"]
    BY <1>3 DEF BoardChunk, Batch
  <2> HIDE DEF k
  <2> QED BY <1>1, <2>1, <2>2 DEF Payload, Sources, k
<1>4. CASE board % 2 = 1
  <2>1. (board + 1) \div 2 = k + 1 /\ k + 1 \in 1 .. MaxSessions
    BY <1>1, <1>2, <1>4
  <2>2. BoardChunk = [of |-> Board, n |-> k + 1, kind |-> "data"]
    BY <1>4 DEF BoardChunk, Batch
  <2>3. \A n \in 1 .. k + 1 : n \in 1 .. k \/ n = k + 1
    BY <1>1
  <2>4. k + 1 \notin 1 .. k
    BY <1>1
  <2> HIDE DEF k
  <2> QED BY <1>1, <2>1, <2>2, <2>3, <2>4 DEF Payload, Sources, k
<1> QED BY <1>1, <1>3, <1>4

LEMMA SendingIsHad ==
  ASSUME AgentInv, Sending # None
  PROVE  AgentHas(Sending)
<1>1. CASE agent.stage = "flush" /\ agent.left # {}
  <2> DEFINE S == agent.left
  <2>1. S \subseteq Nat /\ S # {} /\ S \subseteq Files
    BY <1>1 DEF AgentInv, AgentTypeOK, HandInv
  <2>2. Sending = spool[First(S)]
    BY <1>1 DEF Sending
  <2> HIDE DEF S
  <2>3. First(S) \in Files
    BY <2>1, FirstIsFirst
  <2> QED BY <2>2, <2>3 DEF AgentHas
<1>2. CASE agent.stage \in {"fresh", "blind"}
  BY <1>2 DEF Sending, AgentHas
<1> QED BY <1>1, <1>2 DEF Sending

(* With a POST out, the agent does nothing of its own: it waits.           *)
LEMMA OwnStepsIdle ==
  ASSUME AgentStep
  PROVE  Sending = None
<1> QED BY DEF AgentStep, Start, Tick, FlushDone, FlushBlind, PushFails, Stop,
           Reboot, Sending

(* The chunks that exist do not go away, and a report's keep their number. *)
LEMMA SentStep ==
  ASSUME ChainInv, [Next]_vars, board' = board \/ board' = board + 1
  PROVE  Sent \subseteq Sent' /\ board' \in Nat /\ Shape(Sent')
<1>1. Records
  BY AgentStepInUplink, AgentRecords DEF ChainInv
<1>2. Sent \subseteq Sent' /\ board' \in Nat
  BY <1>1, SentGrows DEF ChainInv, Records
<1> QED BY <1>2, ShapeGrows DEF ChainInv

StepHolds ==
  /\ AgentInv' /\ board' \in Nat /\ Shape(Sent)' /\ PostInv'
  /\ Records /\ Flow /\ Sessions

LEMMA AgentStepHolds ==
  ASSUME ChainInv, [Next]_vars
  PROVE  AgentInv' /\ Records
<1> QED BY AgentStepInUplink, AgentInvStep, AgentRecords DEF ChainInv

(* The agent alone. *)
LEMMA AloneHolds ==
  ASSUME ChainInv, [Next]_vars, UNCHANGED <<route, gatewayVars>>,
         AgentStep \/ (~Asked /\ FlushFails) \/ (~Running /\ Answered("Failed"))
  PROVE  StepHolds
<1>1. Carries({}) /\ board' = board /\ (Asked' <=> Asked)
        /\ \A S : Shape(S) => Shape(S)'
  BY StillCarries
<1>2. Shape(Sent)'
  <2>1. PICK S : S = Sent'
    OBVIOUS
  <2>2. Shape(S)
    BY <1>1, <2>1, SentStep
  <2>3. Shape(S)'
    BY <1>1, <2>2
  <2> QED BY <2>1, <2>3 DEF Shape
<1>3. Keeps({})
  BY OwnStepsHave, AnsweredHas DEF ChainInv
<1>4. Flow
  BY <1>1, <1>3, JointFlow
<1>5. ~Asked
  BY OwnStepsIdle DEF ChainInv, PostInv
<1>6. PostInv'
  BY <1>1, <1>5 DEF PostInv
<1> QED BY <1>1, <1>2, <1>4, <1>6, AgentStepHolds, SentStep DEF StepHolds, Sessions

(* The gateway alone. *)
LEMMA GatewayAloneHolds ==
  ASSUME ChainInv, [Next]_vars, UNCHANGED <<route, agentVars>>, GatewayStep
  PROVE  StepHolds
<1>1. Keeps({}) /\ reports' = reports /\ Sending' = Sending
  BY StillKeeps
<1>2. CASE BoardSends
  <2>1. board' = board + 1 /\ board \in Nat /\ board < 2 * MaxSessions
    BY <1>2 DEF BoardSends, ChainInv
  <2>2. PICK S : S = Sent'
    OBVIOUS
  <2>3. BoardChunk \in S
    BY <2>1, <2>2, BoardChunkIs, GatewayAssumption DEF Sent
  <2>4. Shape(S)
    BY <2>1, <2>2, SentStep
  <2>5. Shape(S)' /\ Carries({BoardChunk})
    BY <1>2, <2>3, <2>4, BoardSendsCarries
  <2>6. PICK c : c = BoardChunk
    OBVIOUS
  <2>7. Sessions
    <3>1. InGateway(c)'
      BY <2>5, <2>6 DEF Carries
    <3>2. \A n : c = Payload(Board, n) => InGateway(Payload(Board, n))'
      BY <3>1
    <3> QED BY <2>1, <2>6, <3>2, BoardChunkIs DEF Sessions
  <2>8. Flow
    <3>1. \A n : Payload(Box, n) # BoardChunk
      BY <2>1, BoardChunkIs, GatewayAssumption DEF Payload
    <3> QED BY <1>1, <2>1, <2>5, <3>1, BoardChunkIs, JointFlow
  <2>9. Shape(Sent)'
    BY <2>2, <2>5 DEF Shape
  <2>10. PostInv'
    <3>1. UNCHANGED <<gateway, posts, stored, refused, wrecked, route>>
      BY <1>2 DEF BoardSends, server, ruin
    <3>2. PICK d : d = Payload(Box, Sending)
      OBVIOUS
    <3>3. InGateway(d) \/ IsStored(d) \/ d \in refused \cup wrecked
            => InGateway(d)' \/ IsStored(d)' \/ d \in refused' \cup wrecked'
      BY <2>5 DEF Carries, IsStored
    <3> QED BY <1>1, <3>1, <3>2, <3>3 DEF PostInv, Asked, Running, ChainInv, Payload
  <2> QED BY <2>1, <2>7, <2>8, <2>9, <2>10, AgentStepHolds, SentStep DEF StepHolds
<1>3. CASE ~BoardSends
  <2>1. board' = board
    BY <1>3 DEF GatewayStep, StartGateway, Attempt, DrainVerdict, DrainAgain,
       DrainStops, Receive, Close, BatchVerdict, BufferBatch, Feed, Reply
  <2>2. PICK S : S = Sent'
    OBVIOUS
  <2>3. Shape(S)
    BY <2>1, <2>2, SentStep
  <2>4. Shape(S)' /\ Carries({})
    BY <1>3, <2>3, AttemptCarries, DrainVerdictCarries, LoopTurns,
       ReceiveCarries, BatchVerdictCarries, BufferBatchCarries, FeedCarries,
       ReplyCarries DEF GatewayStep
  <2>5. Flow
    BY <1>1, <2>4, JointFlow
  <2>6. Shape(Sent)'
    BY <2>2, <2>4 DEF Shape
  <2>7. PostInv'
    <3>1. Asked' => Asked
      BY <1>3 DEF GatewayStep, StartGateway, Attempt, DrainVerdict, DrainAgain,
         DrainStops, Receive, Close, BatchVerdict, BufferBatch, Feed, Reply,
         Drop, Asked
    <3>2. Running => Running'
      <4>1. gateway \in Loop(Sent)
        BY DEF ChainInv, Shape
      <4>2. CASE Attempt
        BY ONLY <4>1, <4>2 DEF Attempt, Running, Loop
      <4>3. CASE DrainVerdict
        BY ONLY <4>1, <4>3 DEF DrainVerdict, Running, Loop
      <4>4. CASE Receive
        BY ONLY <4>1, <4>4 DEF Receive, Running, Loop
      <4>5. CASE Close
        BY ONLY <4>1, <4>5 DEF Close, Running, Loop
      <4> QED BY <1>3, <4>2, <4>3, <4>4, <4>5
              DEF GatewayStep, StartGateway, DrainAgain, DrainStops,
                  BatchVerdict, BufferBatch, Feed, Reply, Running, At
    <3>3. PICK d : d = Payload(Box, Sending)
      OBVIOUS
    <3>4. InGateway(d) \/ IsStored(d) \/ d \in refused \cup wrecked
            => InGateway(d)' \/ IsStored(d)' \/ d \in refused' \cup wrecked'
      BY <2>4 DEF Carries, IsStored
    <3>5. Payload(Box, Sending)' = d
      BY <1>1, <3>3 DEF Payload
    <3> QED BY <1>1, <3>1, <3>2, <3>3, <3>4, <3>5 DEF PostInv, ChainInv
  <2> QED BY <2>1, <2>5, <2>6, <2>7, AgentStepHolds, SentStep
          DEF StepHolds, Sessions
<1> QED BY <1>2, <1>3

(* A request to the server, and its answer. *)
LEMMA SendToServerHolds ==
  ASSUME ChainInv, [Next]_vars, UNCHANGED route, SendToServer
  PROVE  StepHolds
<1>1. PICK status \in {"2xx", "400", "429", "none"} :
        Exchange(SentBatch, status) /\ Answered(Classify(status))
  BY DEF SendToServer
<1>2. /\ Takes(SentBatch)
      /\ status = "2xx" => Places(SentBatch)
  BY <1>1, ExchangeTakes
<1>3. /\ UNCHANGED <<gateway, channel, buffer, posts, board, wrecked>>
      /\ Sending # None /\ route = "server"
  BY DEF SendToServer, ruin
<1>4. Keeps(IF Classify(status) = "Accepted" THEN {Sending} ELSE {})
  BY <1>1, ClassifyIsAnswer, AnsweredHas DEF ChainInv
<1>5. Classify(status) = "Accepted" => status = "2xx"
  BY DEF Classify
<1>6. /\ SentBatch \in Seq(Sent)
      /\ Payload(Box, Sending) \in ElementsOf(SentBatch)
      /\ \A n : Payload(Box, n) \in ElementsOf(SentBatch) => n = Sending
      /\ \A n : Payload(Board, n) \notin ElementsOf(SentBatch)
      /\ AgentHas(Sending)
  BY <1>3, SentBatchSent, SendingIsHad DEF ChainInv
<1>7. /\ \A c : InGateway(c)' <=> InGateway(c)
      /\ \A c : IsStored(c)' => IsStored(c) \/ c \in ElementsOf(SentBatch)
      /\ \A c : IsStored(c) => IsStored(c)'
  BY <1>2, <1>3 DEF InGateway, InFlight, Takes, IsStored
<1>8. \A n : AgentHas(n) => ReportHeld(n)
  BY DEF AgentHas, ReportHeld
<1>9. ASSUME NEW n \in Report
      PROVE  /\ faults' = faults /\ ReportHeld(n)
                  => ReportHeld(n)' \/ ReportStored(n)' \/ ReportExcused(n)'
             /\ ReportHeld(n)' => ReportHeld(n) \/ n \notin DOMAIN reports
             /\ ReportStored(n)' => ReportStored(n) \/ ReportHeld(n)
  <2>1. PICK c : c = Payload(Box, n)
    OBVIOUS
  <2>2. /\ ReportHeld(n) <=> AgentHas(n) \/ InGateway(c)
        /\ ReportHeld(n)' <=> AgentHas(n)' \/ InGateway(c)'
        /\ ReportStored(n) <=> IsStored(c)
        /\ ReportStored(n)' <=> IsStored(c)'
        /\ ReportExcused(n)' <=> n \in dropped' \/ c \in refused' \cup wrecked'
    BY <2>1 DEF ReportHeld, ReportStored, ReportExcused, AgentHas, Payload
  <2>3. ReportStored(n)' => ReportStored(n) \/ ReportHeld(n)
    BY <1>6, <1>7, <1>8, <2>1, <2>2
  <2>4. ReportHeld(n)' => ReportHeld(n) \/ n \notin DOMAIN reports
    BY <1>4, <1>7, <2>2 DEF Keeps
  <2>5. ASSUME faults' = faults, ReportHeld(n)
        PROVE  ReportHeld(n)' \/ ReportStored(n)' \/ ReportExcused(n)'
    <3>1. CASE InGateway(c)
      BY <1>7, <2>2, <3>1
    <3>2. CASE AgentHas(n)
      <4>1. \/ AgentHas(n)' \/ n \in dropped'
            \/ status = "2xx" /\ n = Sending
        BY <1>4, <1>5, <2>5, <3>2 DEF Keeps
      <4>2. CASE status = "2xx" /\ n = Sending
        <5>1. c \in ElementsOf(SentBatch)
          BY <1>6, <2>1, <4>2
        <5>2. IsStored(c)' \/ c \in refused'
          BY <1>2, <4>2, <5>1 DEF Places
        <5> QED BY <2>2, <5>2
      <4> QED BY <2>2, <4>1, <4>2
    <3> QED BY <2>2, <2>5, <3>1, <3>2
  <2> QED BY <2>3, <2>4, <2>5
<1>10. ASSUME NEW n \in 1 .. MaxSessions, NEW c, c = Payload(Board, n)
       PROVE  /\ InGateway(c) => InGateway(c)'
              /\ InGateway(c)' => InGateway(c)
              /\ IsStored(c)' => IsStored(c)
  BY <1>6, <1>7, <1>10
<1>11. Flow
  BY <1>2, <1>3, <1>9, <1>10 DEF Flow, Takes
<1>12. Shape(Sent)'
  <2>1. PICK S : S = Sent'
    OBVIOUS
  <2>2. Shape(S) /\ Sent \subseteq S
    BY <1>3, <2>1, SentStep
  <2>3. \A c \in ElementsOf(SentBatch) : c \in S
    BY <1>6, <2>2 DEF ElementsOf
  <2>4. Shape(S)'
    BY <1>2, <1>3, <2>2, <2>3 DEF Shape, Takes
  <2> QED BY <2>1, <2>4 DEF Shape
<1>13. PostInv'
  BY <1>3 DEF PostInv, ChainInv, Asked
<1> QED BY <1>3, <1>11, <1>12, <1>13, AgentStepHolds, SentStep
        DEF StepHolds, Sessions

(* A POST to the gateway is under way. *)
LEMMA AcceptHolds ==
  ASSUME ChainInv, [Next]_vars, UNCHANGED <<route, agentVars>>,
         route = "gateway", Sending # None, Accept(SentBatch)
  PROVE  StepHolds
<1>1. Keeps({}) /\ reports' = reports /\ Sending' = Sending
  BY StillKeeps
<1>2. /\ UNCHANGED <<gateway, board>> /\ Running
      /\ "asked" \in DOMAIN posts'
  BY DEF Accept
<1>3. PICK S : S = Sent'
  OBVIOUS
<1>4. Shape(S) /\ Sent \subseteq S
  BY <1>2, <1>3, SentStep
<1>5. /\ SentBatch \in Seq(Sent)
      /\ Payload(Box, Sending) \in ElementsOf(SentBatch)
      /\ \A n : Payload(Box, n) \in ElementsOf(SentBatch) => n = Sending
      /\ \A n : Payload(Board, n) \notin ElementsOf(SentBatch)
      /\ AgentHas(Sending)
  BY SentBatchSent, SendingIsHad DEF ChainInv
<1>6. PICK batch : batch = SentBatch
  OBVIOUS
<1>7. batch \in Seq(S)
  BY <1>4, <1>5, <1>6
<1>8. Shape(S)' /\ Carries(ElementsOf(batch))
  BY <1>4, <1>6, <1>7, AcceptCarries
<1>9. Flow
  <2>1. \A n : AgentHas(n) => ReportHeld(n)
    BY DEF AgentHas, ReportHeld
  <2> QED BY <1>1, <1>5, <1>6, <1>8, <2>1, JointFlow
<1>10. Shape(Sent)'
  BY <1>3, <1>8 DEF Shape
<1>11. PostInv'
  <2>1. PICK c : c = Payload(Box, Sending)
    OBVIOUS
  <2>2. InGateway(c)'
    BY <1>5, <1>6, <1>8, <2>1 DEF Carries
  <2>3. Payload(Box, Sending)' = c
    BY <1>1, <2>1 DEF Payload
  <2> QED BY <1>1, <1>2, <2>2, <2>3 DEF PostInv, Running
<1> QED BY <1>2, <1>9, <1>10, <1>11, AgentStepHolds, SentStep
        DEF StepHolds, Sessions

(* The POST is over, whatever the agent makes of it. *)
LEMMA PostOverHolds ==
  ASSUME ChainInv, [Next]_vars,
         NEW answered, Keeps(answered), UNCHANGED board, ~Asked',
         Reply("asked") \/ Abandon \/ Crash,
         \A n \in Report : n \in answered => Asked /\ n = Sending
  PROVE  StepHolds
<1>1. PICK S : S = Sent'
  OBVIOUS
<1>2. Shape(S)
  BY <1>1, SentStep
<1>3. Shape(S)' /\ Carries({})
  BY <1>2, ReplyCarries, AbandonCarries, CrashCarries
<1>4. ASSUME NEW n \in Report, n \in answered
      PROVE  \/ InGateway(Payload(Box, n))' \/ IsStored(Payload(Box, n))'
             \/ Payload(Box, n) \in refused' \cup wrecked'
  <2>1. PICK c : c = Payload(Box, n)
    OBVIOUS
  <2>2. n = Sending /\ Asked
    BY <1>4
  <2>3. InGateway(c) \/ IsStored(c) \/ c \in refused \cup wrecked
    BY <2>1, <2>2 DEF ChainInv, PostInv
  <2>4. InGateway(c)' \/ IsStored(c)' \/ c \in refused' \cup wrecked'
    BY <1>3, <2>3 DEF Carries, IsStored
  <2> QED BY <2>1, <2>4
<1>5. Flow
  BY <1>3, <1>4, JointFlow
<1>6. Shape(Sent)'
  BY <1>1, <1>3 DEF Shape
<1>7. PostInv'
  BY DEF PostInv
<1> QED BY <1>5, <1>6, <1>7, AgentStepHolds, SentStep DEF StepHolds, Sessions

LEMMA StepKeepsAndFlows ==
  ASSUME ChainInv, [Next]_vars
  PROVE  StepHolds
<1> USE DEF ChainInv
<1>1. CASE UNCHANGED vars
  <2>1. UNCHANGED <<route, agentVars>> /\ UNCHANGED gatewayVars
    BY <1>1 DEF vars
  <2>2. Flow
    BY <2>1, StillKeeps, StillCarries, JointFlow
  <2>3. Shape(Sent)'
    BY <2>1 DEF Shape, Sent, gatewayVars, agentVars, aHistory, server
  <2>4. PostInv'
    BY <2>1, StillKeeps DEF PostInv, gatewayVars, server, ruin, Asked, Running,
       InGateway, InFlight, IsStored
  <2> QED BY <2>1, <2>2, <2>3, <2>4, StillCarries, SentStep, AgentStepHolds
          DEF StepHolds, Sessions
<1>2. CASE \/ AgentStep /\ UNCHANGED <<route, gatewayVars>>
           \/ ~Asked /\ FlushFails /\ UNCHANGED <<route, gatewayVars>>
  BY <1>2, AloneHolds
<1>3. CASE route = "gateway" /\ GatewayStep /\ UNCHANGED <<route, agentVars>>
  BY <1>3, GatewayAloneHolds
<1>4. CASE SendToServer /\ UNCHANGED route
  BY <1>4, SendToServerHolds
<1>5. CASE SendToGateway /\ UNCHANGED route
  BY <1>5, AcceptHolds, AloneHolds DEF SendToGateway
<1>6. CASE GatewayReplies
  <2>1. Asked /\ ~Asked' /\ UNCHANGED board
    BY <1>6 DEF GatewayReplies, Reply, Drop, Asked
  <2>2. Keeps({Sending})
    BY <1>6, AnsweredHas DEF GatewayReplies
  <2> QED BY <1>6, <2>1, <2>2, PostOverHolds DEF GatewayReplies
<1>7. CASE AgentGivesUp
  <2>1. ~Asked' /\ UNCHANGED board
    BY <1>7 DEF AgentGivesUp, Abandon, Asked
  <2>2. Keeps({})
    BY <1>7, AnsweredHas DEF AgentGivesUp
  <2> QED BY <1>7, <2>1, <2>2, PostOverHolds DEF AgentGivesUp
<1>8. CASE AgentKilled /\ UNCHANGED route
  <2>1. Keeps({})
    BY <1>8, OwnStepsHave DEF AgentKilled
  <2>2. CASE Asked
    <3>1. Abandon /\ ~Asked' /\ UNCHANGED board
      BY <1>8, <2>2 DEF AgentKilled, Abandon, Asked
    <3> QED BY <2>1, <3>1, PostOverHolds
  <2>3. CASE ~Asked
    <3>1. UNCHANGED gatewayVars
      BY <1>8, <2>3 DEF AgentKilled
    <3>2. Flow
      BY <2>1, <3>1, StillCarries, JointFlow
    <3>3. Shape(Sent)'
      <4>1. PICK S : S = Sent'
        OBVIOUS
      <4>2. Shape(S)
        BY <3>1, <4>1, StillCarries, SentStep
      <4>3. Shape(S)'
        BY <3>1, <4>2, StillCarries
      <4> QED BY <4>1, <4>3 DEF Shape
    <3>4. PostInv'
      BY <2>3, <3>1, StillCarries DEF PostInv
    <3> QED BY <3>1, <3>2, <3>3, <3>4, StillCarries, SentStep, AgentStepHolds
            DEF StepHolds, Sessions
  <2> QED BY <2>2, <2>3
<1>9. CASE GatewayCrashes
  <2>1. ~Asked' /\ UNCHANGED board
    BY <1>9 DEF GatewayCrashes, Crash, Asked
  <2>2. Keeps({})
    <3>1. CASE UNCHANGED agentVars
      BY <3>1, StillKeeps
    <3>2. CASE Answered("Failed")
      BY <3>2, AnsweredHas
    <3> QED BY <1>9, <3>1, <3>2 DEF GatewayCrashes
  <2> QED BY <1>9, <2>1, <2>2, PostOverHolds DEF GatewayCrashes
<1> QED BY <1>1, <1>2, <1>3, <1>4, <1>5, <1>6, <1>7, <1>8, <1>9 DEF Next

-----------------------------------------------------------------------------
(* Delivery.                                                               *)

(* Reports, sessions and reboots, in one set. *)
Cargo(R, S, B) == Item("report", R) \cup Item("session", S) \cup Item("reboot", B)

LEMMA CargoIs ==
  ASSUME NEW R, NEW S, NEW B, NEW x
  PROVE  x \in Cargo(R, S, B) <=>
           \/ \E n \in R : x = [what |-> "report", n |-> n]
           \/ \E n \in S : x = [what |-> "session", n |-> n]
           \/ \E n \in B : x = [what |-> "reboot", n |-> n]
<1>1. \A what, T : x \in Item(what, T) <=> \E n \in T : x = [what |-> what, n |-> n]
  <2> SUFFICES ASSUME NEW what, NEW T
               PROVE  x \in [what : {what}, n : T] <=>
                        \E n \in T : x = [what |-> what, n |-> n]
    BY DEF Item
  <2> QED OBVIOUS
<1> QED BY <1>1 DEF Cargo

(* An item is of one kind. *)
LEMMA CargoHas ==
  ASSUME NEW R, NEW S, NEW B, NEW x
  PROVE  x \in Cargo(R, S, B) =>
           \/ x.what = "report" /\ x.n \in R /\ x = [what |-> "report", n |-> x.n]
           \/ x.what = "session" /\ x.n \in S
                /\ x = [what |-> "session", n |-> x.n]
           \/ x.what = "reboot" /\ x.n \in B /\ x = [what |-> "reboot", n |-> x.n]
<1> QED BY CargoIs

(* What exists is on record, wherever it is. *)
RecordInv ==
  /\ \A n \in Report : ReportHeld(n) \/ ReportStored(n) => n \in DOMAIN reports
  /\ \A n \in 1 .. MaxSessions :
       InGateway(Payload(Board, n)) => n \in 1 .. board \div 2

LEMMA OnRecord == ChainInv => RecordInv
<1> SUFFICES ASSUME ChainInv PROVE RecordInv
  OBVIOUS
<1>1. \A c : InGateway(c) => c \in Sent
  <2>1. \A s \in Seq(Sent) : \A c \in ElementsOf(s) : c \in Sent
    BY DEF ElementsOf
  <2>2. gateway.body \in Seq(Sent) /\ channel \in Seq(Sent)
    BY DEF ChainInv, Shape, Loop
  <2>3. \A k \in DOMAIN posts : posts[k] \in Seq(Sent)
    BY DEF ChainInv, Shape
  <2>4. \A i \in DOMAIN buffer : buffer[i] \in Seq(Sent)
    <3>1. buffer \in Seq(Seq(Sent))
      BY DEF ChainInv, Shape
    <3> QED BY <3>1
  <2> QED BY <2>1, <2>2, <2>3, <2>4 DEF InGateway, InFlight
<1>2. \A c : IsStored(c) => c \in Sent
  BY DEF ChainInv, Shape, IsStored
<1>3. \A n : Payload(Box, n) \in Sent => n \in DOMAIN reports
  BY DEF Sent, Payload
<1>4. \A n : Payload(Board, n) \in Sent => n \in 1 .. board \div 2
  BY DEF Sent, Payload
<1>5. \A n \in Report : AgentHas(n) => n \in DOMAIN reports
  <2>1. DOMAIN reports = 1 .. Len(reports) /\ Len(reports) \in Nat
          /\ None \notin Report
    BY AgentAssumption DEF ChainInv, AgentInv, AgentTypeOK, Report
  <2> SUFFICES ASSUME NEW n \in Report, AgentHas(n) PROVE n <= Len(reports)
    BY <2>1 DEF Report
  <2>2. CASE agent.hand = n
    <3>1. n = Len(reports)
      BY <2>1, <2>2 DEF ChainInv, AgentInv, HandInv
    <3> QED BY <2>1, <3>1
  <2>3. CASE \E i \in Files : spool[i] = n
    BY <2>3 DEF ChainInv, AgentInv, SpoolInOrder
  <2> QED BY <2>2, <2>3 DEF AgentHas
<1>6. \A n : ReportHeld(n) => AgentHas(n) \/ InGateway(Payload(Box, n))
  BY DEF ReportHeld, AgentHas
<1> QED BY <1>1, <1>2, <1>3, <1>4, <1>5, <1>6 DEF ReportStored, RecordInv

(* The three sets of each kind, by name. *)
HeldReports  == {n \in Report : ReportHeld(n)}
HeldSessions == {n \in 1 .. MaxSessions : InGateway(Payload(Board, n))}
HeldReboots  == {k \in found : \/ agent.pending = k
                               \/ \E n \in Carrier(k) : ReportHeld(n)}
HasReports   == {n \in Report : ReportStored(n)}
HasSessions  == {n \in 1 .. MaxSessions : IsStored(Payload(Board, n))}
HasReboots   == {k \in found : \E n \in Carrier(k) : ReportStored(n)}
LetReports   == {n \in Report : ReportExcused(n)}
LetSessions  == {n \in 1 .. MaxSessions : Payload(Board, n) \in refused \cup wrecked}
LetReboots   == {k \in found : \/ k \in unsaid
                               \/ \E n \in Carrier(k) : ReportExcused(n)}

CargoInv ==
  /\ Taken = Cargo(DOMAIN reports, 1 .. board \div 2, found)
  /\ Held = Cargo(HeldReports, HeldSessions, HeldReboots)
  /\ AtServer = Cargo(HasReports, HasSessions, HasReboots)
  /\ Excused = Cargo(LetReports, LetSessions, LetReboots)
  /\ Items = Cargo(Report, 1 .. MaxSessions, 1 .. MaxBoots)

LEMMA CargoNames == CargoInv
<1> QED BY DEF CargoInv, Taken, Held, AtServer, Excused, Items, Cargo, HeldReports,
               HeldSessions, HeldReboots, HasReports, HasSessions, HasReboots,
               LetReports, LetSessions, LetReboots

LEMMA ReportsDelivered ==
  ASSUME ChainInv, ChainInv', StepHolds
  PROVE  /\ DOMAIN reports' = DOMAIN reports \cup HeldReports'
         /\ HeldReports' \ HeldReports \subseteq Report \ DOMAIN reports
         /\ HasReports \subseteq HasReports'
         /\ HasReports' \ HasReports \subseteq HeldReports
         /\ LetReports \subseteq LetReports'
         /\ faults' = faults =>
              HeldReports \ HeldReports' \subseteq HasReports' \cup LetReports'
<1>1. /\ reports \in Seq(0 .. MaxBoots)
      /\ reports' = reports \/ reports' = Append(reports, agent.pending)
      /\ reports' # reports => agent'.hand = Len(reports) + 1
      /\ agent.pending \in 0 .. MaxBoots
      /\ agent'.hand \in Report \cup {None}
      /\ None \notin Nat
  BY AgentAssumption
     DEF ChainInv, AgentInv, AgentTypeOK, StepHolds, Records
<1>2. \A n \in DOMAIN reports' : n \in DOMAIN reports \/ n \in HeldReports'
  <2> SUFFICES ASSUME NEW n \in DOMAIN reports', n \notin DOMAIN reports
               PROVE  n \in HeldReports'
    OBVIOUS
  <2>1. n = Len(reports) + 1 /\ agent'.hand = n /\ n \in Nat
    BY <1>1
  <2>2. n \in Report
    BY <1>1, <2>1
  <2> QED BY <2>1, <2>2 DEF HeldReports, ReportHeld
<1>3. DOMAIN reports \subseteq DOMAIN reports'
  BY <1>1
<1>4. HeldReports' \subseteq DOMAIN reports'
  <2>1. RecordInv'
    BY OnRecord, PTL
  <2> QED BY <2>1 DEF HeldReports, RecordInv
<1>5. \A n \in Report : ReportHeld(n)' => ReportHeld(n) \/ n \notin DOMAIN reports
  BY DEF StepHolds, Flow
<1>6. \A n \in Report : ReportStored(n)' => ReportStored(n) \/ ReportHeld(n)
  BY DEF StepHolds, Flow
<1>7. \A n \in Report : ReportStored(n) => ReportStored(n)'
  BY DEF StepHolds, Flow, ReportStored, IsStored, Payload
<1>8. \A n \in Report : ReportExcused(n) => ReportExcused(n)'
  BY DEF StepHolds, Flow, Records, ReportExcused, Payload
<1>9. faults' = faults => \A n \in Report : ReportHeld(n) =>
        ReportHeld(n)' \/ ReportStored(n)' \/ ReportExcused(n)'
  BY DEF StepHolds, Flow
<1> QED BY <1>2, <1>3, <1>4, <1>5, <1>6, <1>7, <1>8, <1>9
        DEF HeldReports, HasReports, LetReports

LEMMA SessionsDelivered ==
  ASSUME ChainInv, ChainInv', StepHolds
  PROVE  /\ 1 .. board' \div 2 = (1 .. board \div 2) \cup HeldSessions'
         /\ HeldSessions' \ HeldSessions
              \subseteq (1 .. MaxSessions) \ (1 .. board \div 2)
         /\ HasSessions \subseteq HasSessions'
         /\ HasSessions' \ HasSessions \subseteq HeldSessions
         /\ LetSessions \subseteq LetSessions'
         /\ HeldSessions \ HeldSessions' \subseteq HasSessions' \cup LetSessions'
<1>1. 1 .. board \div 2 \subseteq 1 .. board' \div 2
  <2>1. board \in Nat /\ (board' = board \/ board' = board + 1)
    BY DEF StepHolds, Sessions, ChainInv
  <2> QED BY ONLY <2>1
<1>2. \A n \in 1 .. board' \div 2 : n \in 1 .. board \div 2 \/ n \in HeldSessions'
  BY DEF StepHolds, Sessions, HeldSessions, Payload
<1>3. HeldSessions' \subseteq 1 .. board' \div 2
  <2>1. RecordInv'
    BY OnRecord, PTL
  <2> QED BY <2>1 DEF HeldSessions, RecordInv, Payload
<1>4. \A n \in 1 .. MaxSessions :
        /\ InGateway(Payload(Board, n))
             => \/ InGateway(Payload(Board, n))' \/ IsStored(Payload(Board, n))'
                \/ Payload(Board, n) \in refused' \cup wrecked'
        /\ InGateway(Payload(Board, n))'
             => InGateway(Payload(Board, n)) \/ n \notin 1 .. board \div 2
        /\ IsStored(Payload(Board, n))'
             => IsStored(Payload(Board, n)) \/ InGateway(Payload(Board, n))
  BY DEF StepHolds, Flow
<1>5. \A n \in 1 .. MaxSessions :
        IsStored(Payload(Board, n)) => IsStored(Payload(Board, n))'
  BY DEF StepHolds, Flow, IsStored, Payload
<1>6. refused \subseteq refused' /\ wrecked \subseteq wrecked'
  BY DEF StepHolds, Flow
<1>7. \A n : Payload(Board, n)' = Payload(Board, n)
  BY DEF Payload
<1> QED BY <1>1, <1>2, <1>3, <1>4, <1>5, <1>6, <1>7
        DEF HeldSessions, HasSessions, LetSessions

LEMMA RebootsDelivered ==
  ASSUME ChainInv, ChainInv', StepHolds
  PROVE  /\ found' = found \cup HeldReboots'
         /\ HeldReboots' \ HeldReboots \subseteq (1 .. MaxBoots) \ found
         /\ HasReboots \subseteq HasReboots'
         /\ HasReboots' \ HasReboots \subseteq HeldReboots
         /\ LetReboots \subseteq LetReboots'
         /\ faults' = faults =>
              HeldReboots \ HeldReboots' \subseteq HasReboots' \cup LetReboots'
<1>1. /\ Records /\ Flow
      /\ reports \in Seq(0 .. MaxBoots) /\ Len(reports) <= MaxReports
      /\ Len(reports') <= MaxReports
      /\ found \subseteq 1 .. MaxBoots /\ found' \subseteq 1 .. MaxBoots
      /\ agent.pending \in 0 .. MaxBoots
      /\ \A n \in DOMAIN reports : reports[n] # 0 => reports[n] \in found
      /\ agent.pending # 0 => agent.pending \in found
  BY DEF ChainInv, AgentInv, AgentTypeOK, StepHolds, RebootOnce
<1>2. /\ DOMAIN reports \subseteq DOMAIN reports'
      /\ \A n \in DOMAIN reports : reports'[n] = reports[n]
      /\ \A n \in DOMAIN reports' : n \in DOMAIN reports \/
           (n = Len(reports) + 1 /\ reports'[n] = agent.pending /\ agent'.hand = n)
      /\ DOMAIN reports' \subseteq Report
  <2>1. reports' \in Seq(0 .. MaxBoots)
    BY DEF ChainInv, AgentInv, AgentTypeOK
  <2>2. DOMAIN reports' \subseteq Report
    BY <1>1, <2>1, AgentAssumption DEF Report
  <2>3. CASE reports' = reports
    BY <2>2, <2>3
  <2>4. CASE reports' = Append(reports, agent.pending) /\ reports' # reports
    <3>1. agent'.hand = Len(reports) + 1
      BY <1>1, <2>4 DEF Records
    <3> QED BY <1>1, <2>2, <2>4, <3>1
  <2> QED BY <1>1, <2>3, <2>4 DEF Records
<1>3. \A k : /\ Carrier(k) = {n \in DOMAIN reports : reports[n] = k}
             /\ Carrier(k)' = {n \in DOMAIN reports' : reports'[n] = k}
             /\ Carrier(k) \subseteq Carrier(k)'
             /\ Carrier(k)' \subseteq Report
  BY <1>2 DEF Carrier
<1>4. \A n \in Report : ReportHeld(n) \/ ReportStored(n) => n \in DOMAIN reports
  BY OnRecord DEF RecordInv
<1>5. \A n \in Report :
        /\ ReportHeld(n)' => ReportHeld(n) \/ n \notin DOMAIN reports
        /\ ReportStored(n)' => ReportStored(n) \/ ReportHeld(n)
        /\ ReportStored(n) => ReportStored(n)'
        /\ ReportExcused(n) => ReportExcused(n)'
        /\ faults' = faults /\ ReportHeld(n) =>
             ReportHeld(n)' \/ ReportStored(n)' \/ ReportExcused(n)'
  BY <1>1 DEF Flow, Records, ReportStored, ReportExcused, IsStored, Payload
<1>6. found \subseteq found' /\ \A k \in found' \ found : agent'.pending = k
  BY <1>1 DEF Records
<1>7. found' = found \cup HeldReboots'
  BY <1>6 DEF HeldReboots
<1>8. \A k \in found : k \in HeldReboots' => k \in HeldReboots
  <2> SUFFICES ASSUME NEW k \in found, k \in HeldReboots' PROVE k \in HeldReboots
    OBVIOUS
  <2>1. CASE agent'.pending = k
    <3>1. agent.pending = k
      BY <1>1, <2>1 DEF Records
    <3> QED BY <3>1 DEF HeldReboots
  <2>2. CASE agent'.pending # k
    <3>1. PICK n \in Carrier(k)' : ReportHeld(n)'
      BY <2>2 DEF HeldReboots
    <3>2. CASE n \in DOMAIN reports
      BY <1>2, <1>3, <1>5, <3>1, <3>2 DEF HeldReboots
    <3>3. CASE n \notin DOMAIN reports
      BY <1>2, <1>3, <3>1, <3>3 DEF HeldReboots
    <3> QED BY <3>2, <3>3
  <2> QED BY <2>1, <2>2
<1>9. HasReboots \subseteq HasReboots'
  BY <1>3, <1>5, <1>6 DEF HasReboots
<1>10. \A k \in HasReboots' : k \in HasReboots \cup HeldReboots
  <2> SUFFICES ASSUME NEW k \in HasReboots'
               PROVE  k \in HasReboots \cup HeldReboots
    OBVIOUS
  <2>1. PICK n \in Carrier(k)' : ReportStored(n)'
    BY DEF HasReboots
  <2>2. k \in found' /\ k # 0
    BY <1>1 DEF HasReboots
  <2>3. n \in Report /\ (ReportStored(n) \/ ReportHeld(n))
    BY <1>3, <1>5, <2>1
  <2>4. n \in DOMAIN reports /\ n \in Carrier(k)
    BY <1>2, <1>3, <1>4, <2>1, <2>3
  <2>5. k \in found
    BY <1>1, <1>3, <2>2, <2>4
  <2> QED BY <2>3, <2>4, <2>5 DEF HasReboots, HeldReboots
<1>11. LetReboots \subseteq LetReboots'
  BY <1>1, <1>3, <1>5, <1>6 DEF LetReboots, Records
<1>12. ASSUME faults' = faults, NEW k \in HeldReboots, k \notin HeldReboots'
       PROVE  k \in HasReboots' \cup LetReboots'
  <2>1. k \in found /\ k \in found' /\ k # 0
    BY <1>1, <1>6 DEF HeldReboots
  <2>2. CASE agent.pending = k
    <3>1. CASE agent'.pending = k
      BY <1>12, <2>1, <3>1 DEF HeldReboots
    <3>2. CASE reports' = Append(reports, agent.pending)
      <4>1. PICK n : n = Len(reports) + 1
        OBVIOUS
      <4>2. n \in DOMAIN reports' /\ n \notin DOMAIN reports
        BY <1>1, <3>2, <4>1
      <4>3. n \in Carrier(k)' /\ agent'.hand = n
        BY <1>2, <1>3, <2>2, <4>2
      <4>4. ReportHeld(n)'
        BY <4>3 DEF ReportHeld
      <4> QED BY <1>12, <2>1, <4>3, <4>4 DEF HeldReboots
    <3>3. CASE k \in unsaid'
      BY <2>1, <3>3 DEF LetReboots
    <3> QED BY <1>1, <1>12, <2>1, <2>2, <3>1, <3>2, <3>3 DEF Records
  <2>3. CASE \E n \in Carrier(k) : ReportHeld(n)
    <3>1. PICK n \in Carrier(k) : ReportHeld(n)
      BY <2>3
    <3>2. n \in Carrier(k)' /\ n \in Report
      BY <1>3, <3>1
    <3>3. ReportHeld(n)' \/ ReportStored(n)' \/ ReportExcused(n)'
      BY <1>5, <1>12, <3>1, <3>2
    <3> QED BY <1>12, <2>1, <3>2, <3>3 DEF HeldReboots, HasReboots, LetReboots
  <2> QED BY <2>2, <2>3 DEF HeldReboots
<1>13. HeldReboots' \ HeldReboots \subseteq (1 .. MaxBoots) \ found
  BY <1>1, <1>8 DEF HeldReboots
<1> QED BY <1>7, <1>9, <1>10, <1>11, <1>12, <1>13

LEMMA ChainInvInit == Init => ChainInv
<1> SUFFICES ASSUME Init PROVE ChainInv
  OBVIOUS
<1>1. AgentInv
  BY AgentInvInit DEF Init
<1>2. /\ gateway = At("off") /\ channel = << >> /\ buffer = << >>
      /\ posts = << >> /\ board = 0 /\ stored = {}
  BY DEF Init, GatewayInit
<1>3. Shape(Sent)
  BY <1>2 DEF Shape, Loop, At
<1>4. PostInv
  BY <1>2 DEF PostInv, Asked
<1> QED BY <1>1, <1>2, <1>3, <1>4 DEF ChainInv

LEMMA ChainInvStep == ChainInv /\ [Next]_vars => ChainInv' /\ StepHolds
<1> QED BY StepKeepsAndFlows DEF ChainInv, StepHolds

LEMMA DeliveryInit == Init => D!Init
<1> SUFFICES ASSUME Init PROVE D!Init
  OBVIOUS
<1>1. /\ gateway = At("off") /\ channel = << >> /\ buffer = << >>
      /\ posts = << >> /\ board = 0
      /\ stored = {} /\ refused = {} /\ wrecked = {}
      /\ agent.hand = None /\ spool = << >> /\ reports = << >>
      /\ found = {} /\ dropped = {} /\ faults = 0
  BY DEF Init, GatewayInit, AgentInit, Off
<1>2. /\ DOMAIN reports = {} /\ Files = {} /\ 1 .. board \div 2 = {}
      /\ None \notin Report
  BY <1>1, AgentAssumption DEF Files, Report
<1>3. \A c : ~InGateway(c) /\ ~IsStored(c)
  BY <1>1 DEF InGateway, InFlight, ElementsOf, At, IsStored
<1>4. \A n \in Report : ~ReportHeld(n) /\ ~ReportStored(n) /\ ~ReportExcused(n)
  BY <1>1, <1>2, <1>3 DEF ReportHeld, ReportStored, ReportExcused
<1>5. /\ HeldReports = {} /\ HeldSessions = {} /\ HeldReboots = {}
      /\ HasReports = {} /\ HasSessions = {} /\ HasReboots = {}
      /\ LetReports = {} /\ LetSessions = {} /\ LetReboots = {}
  BY <1>1, <1>3, <1>4 DEF HeldReports, HeldSessions, HeldReboots, HasReports,
     HasSessions, HasReboots, LetReports, LetSessions, LetReboots
<1>6. Cargo({}, {}, {}) = {}
  BY CargoIs
<1>7. Taken = {} /\ Held = {} /\ AtServer = {} /\ Excused = {}
  BY <1>1, <1>2, <1>5, <1>6, CargoNames DEF CargoInv
<1> QED BY <1>1, <1>7 DEF D!Init

LEMMA DeliveryStep ==
  ASSUME ChainInv, ChainInv', StepHolds
  PROVE  D!Next
<1>1. CargoInv /\ CargoInv'
  BY CargoNames, PTL
<1>2. Taken' = Taken \cup Held'
  <2>1. PICK R, S, B, R1, S1, B1, R2, S2, B2 :
          /\ R = DOMAIN reports' /\ R1 = DOMAIN reports /\ R2 = HeldReports'
          /\ S = 1 .. board' \div 2 /\ S1 = 1 .. board \div 2
          /\ S2 = HeldSessions'
          /\ B = found' /\ B1 = found /\ B2 = HeldReboots'
    OBVIOUS
  <2>2. /\ Taken' = Cargo(R, S, B)
        /\ Taken = Cargo(R1, S1, B1)
        /\ Held' = Cargo(R2, S2, B2)
    BY <1>1, <2>1 DEF CargoInv
  <2>3. R = R1 \cup R2 /\ S = S1 \cup S2 /\ B = B1 \cup B2
    BY <2>1, ReportsDelivered, SessionsDelivered, RebootsDelivered
  <2>4. Cargo(R, S, B) = Cargo(R1, S1, B1) \cup Cargo(R2, S2, B2)
    BY ONLY <2>3, CargoIs
  <2> QED BY <2>2, <2>4
<1>3. Held' \ Held \subseteq Items \ Taken
  <2> SUFFICES ASSUME NEW x \in Held', x \notin Held
               PROVE  x \in Items /\ x \notin Taken
    OBVIOUS
  <2>1. \/ /\ x.what = "report" /\ x.n \in HeldReports' \ HeldReports
           /\ x = [what |-> "report", n |-> x.n]
        \/ /\ x.what = "session" /\ x.n \in HeldSessions' \ HeldSessions
           /\ x = [what |-> "session", n |-> x.n]
        \/ /\ x.what = "reboot" /\ x.n \in HeldReboots' \ HeldReboots
           /\ x = [what |-> "reboot", n |-> x.n]
    <3>1. x \in Cargo(HeldReports', HeldSessions', HeldReboots')
            /\ x \notin Cargo(HeldReports, HeldSessions, HeldReboots)
      BY <1>1 DEF CargoInv
    <3> QED BY <3>1, CargoHas, CargoIs
  <2>2. x \in Items
    <3>1. Items = Cargo(Report, 1 .. MaxSessions, 1 .. MaxBoots)
      BY <1>1 DEF CargoInv
    <3>2. x \in Cargo(Report, 1 .. MaxSessions, 1 .. MaxBoots)
      <4>1. /\ HeldReports' \ HeldReports \subseteq Report
            /\ HeldSessions' \ HeldSessions \subseteq 1 .. MaxSessions
            /\ HeldReboots' \ HeldReboots \subseteq 1 .. MaxBoots
        BY ReportsDelivered, SessionsDelivered, RebootsDelivered
      <4> QED BY <2>1, <4>1, CargoIs
    <3> QED BY <3>1, <3>2
  <2>3. x \in Taken => \/ x.what = "report" /\ x.n \in DOMAIN reports
                       \/ x.what = "session" /\ x.n \in 1 .. board \div 2
                       \/ x.what = "reboot" /\ x.n \in found
    <3>1. Taken = Cargo(DOMAIN reports, 1 .. board \div 2, found)
      BY <1>1 DEF CargoInv
    <3>2. x \in Cargo(DOMAIN reports, 1 .. board \div 2, found) =>
            \/ x.what = "report" /\ x.n \in DOMAIN reports
            \/ x.what = "session" /\ x.n \in 1 .. board \div 2
            \/ x.what = "reboot" /\ x.n \in found
      BY CargoHas
    <3> QED BY <3>1, <3>2
  <2> QED BY <2>1, <2>2, <2>3, ReportsDelivered, SessionsDelivered,
             RebootsDelivered
<1>4. AtServer \subseteq AtServer' /\ Excused \subseteq Excused'
  BY <1>1, CargoIs, ReportsDelivered, SessionsDelivered, RebootsDelivered
     DEF CargoInv
<1>5. AtServer' \ AtServer \subseteq Held
  BY <1>1, CargoIs, ReportsDelivered, SessionsDelivered, RebootsDelivered
     DEF CargoInv
<1>6. ASSUME faults' = faults, NEW x \in Held, x \notin Held'
      PROVE  x \in AtServer' \cup Excused'
  <2>1. /\ x \in Cargo(HeldReports, HeldSessions, HeldReboots)
        /\ x \notin Cargo(HeldReports', HeldSessions', HeldReboots')
    BY <1>1, <1>6 DEF CargoInv
  <2>2. \/ x \in Cargo(HasReports', HasSessions', HasReboots')
        \/ x \in Cargo(LetReports', LetSessions', LetReboots')
    BY <1>6, <2>1, CargoIs, ReportsDelivered, SessionsDelivered,
       RebootsDelivered
  <2> QED BY <1>1, <2>2 DEF CargoInv
<1>7. faults' = faults \/ faults' > faults
  BY DEF StepHolds, Records
<1> QED BY <1>2, <1>3, <1>4, <1>5, <1>6, <1>7
        DEF D!Next, D!TakeOver, D!Deliver, D!LetGo, D!Break

(* main.rs:155, uplink.rs, http_ingest.rs, buffer.rs: for any number of    *)
(* reports, sessions, boots, retries and crashes and any size of spool and *)
(* channel, the chain implements Delivery: what is handed over is held     *)
(* until the server has it or it is let go for a reason on record, unless  *)
(* the agent is killed or cannot write in that step.                       *)
THEOREM NothingLostHolds == Spec => NothingLost
<1>1. Init => ChainInv /\ D!Init
  BY ChainInvInit, DeliveryInit
<1>2. ChainInv /\ [Next]_vars => ChainInv' /\ [D!Next]_D!vars
  <2> SUFFICES ASSUME ChainInv, [Next]_vars PROVE ChainInv' /\ D!Next
    OBVIOUS
  <2>1. ChainInv' /\ StepHolds
    BY ChainInvStep
  <2> QED BY <2>1, DeliveryStep
<1> QED BY <1>1, <1>2, PTL DEF Spec, NothingLost, D!Spec
=============================================================================
