------------------------------- MODULE Agent -------------------------------
(***************************************************************************)
(* The Linux agent (ferrite-agent): what it remembers across boots         *)
(* (boot.rs), and its reports with their spool on disk (uplink.rs, tick    *)
(* and run in main.rs).                                                    *)
(*                                                                         *)
(* One thread, but it may be killed and the device may go down between any *)
(* two steps.  Files are written beside and renamed, so a file is there or *)
(* not.  What an attempt to send comes to is the parameter of the sending  *)
(* steps: module Uplink says what the server or the gateway does meanwhile.*)
(***************************************************************************)
EXTENDS Naturals, Sequences, FiniteSets

CONSTANTS
  MaxSpooled,  \* max_spooled_reports
  MaxReports,  \* bound: reports made in a behaviour
  MaxBoots,    \* bound: boots of the device
  MaxFaults,   \* bound: kills, power cuts and failed file operations
  None

ASSUME AgentAssumption ==
  /\ MaxSpooled \in Nat
  /\ MaxReports \in Nat
  /\ MaxBoots \in Nat \ {0}
  /\ MaxFaults \in Nat
  /\ None \notin Nat
  /\ None \notin [boot : Nat, sequence : Nat]

VARIABLES
  boot,      \* the kernel's boot_id
  saved,     \* boot.json, or None
  spool,     \* the files NNN.chunks: number -> report
  agent,     \* the process
  reports,   \* the reboot each report made so far carries, 0 for none
  found,     \* history: reboots BootTracker::start found
  dropped,   \* history: reports rejected or pushed out of the spool
  unsaid,    \* history: reboots an agent that was stopped had not reported
  faults

disk      == <<saved, spool>>
aHistory  == <<reports, found, dropped, unsaid>>
agentVars == <<boot, saved, spool, agent, aHistory, faults>>

Report == 1 .. MaxReports
Files  == DOMAIN spool
Stages == {"off", "idle", "flush", "fresh", "blind"}

(* next: Spool.next.  pending: Agent.pending_reboot, 0 for none.  left:    *)
(* the files flush has still to send.  hand: the batch of this tick.       *)
Off == [stage |-> "off", next |-> 0, pending |-> 0, left |-> {},
        hand |-> None]

AgentTypeOK ==
  /\ boot \in 1 .. MaxBoots
  /\ saved \in {None} \cup [boot : 1 .. MaxBoots, sequence : 0 .. MaxBoots]
  /\ Files \subseteq Nat
  /\ \A i \in Files : spool[i] \in Report
  /\ agent \in [stage : Stages, next : Nat, pending : 0 .. MaxBoots,
                left : SUBSET Nat, hand : Report \cup {None}]
  /\ reports \in Seq(0 .. MaxBoots)
  /\ Len(reports) <= MaxReports
  /\ found \subseteq 1 .. MaxBoots
  /\ dropped \subseteq Report
  /\ unsaid \subseteq 1 .. MaxBoots
  /\ faults \in 0 .. MaxFaults

AgentInit ==
  /\ boot = 1
  /\ saved = None
  /\ spool = << >>
  /\ agent = Off
  /\ reports = << >>
  /\ found = {} /\ dropped = {} /\ unsaid = {}
  /\ faults = 0

First(S) == CHOOSE i \in S : \A j \in S : i <= j
Last(S)  == CHOOSE i \in S : \A j \in S : j <= i

(* Mutation of NextFile: number from zero at every start. *)
NextFromZero == 0

(* Spool::open: number on from the last file. *)
NextFile == IF Files = {} THEN 0 ELSE Last(Files) + 1

-----------------------------------------------------------------------------
(* Mutation of Start: boot.json is saved on the first start only, and later *)
(* by those who record something in it.                                     *)
StartUnsaved ==
  LET rebooted == saved # None /\ saved.boot # boot
      sequence == IF saved = None THEN 0
                  ELSE IF rebooted THEN saved.sequence + 1 ELSE saved.sequence
  IN /\ agent.stage = "off"
     /\ saved' = IF saved = None
                 THEN [boot |-> boot, sequence |-> 0]
                 ELSE saved
     /\ agent' = [Off EXCEPT !.stage = "idle", !.next = NextFile,
                             !.pending = IF rebooted THEN sequence ELSE 0]
     /\ found' = IF rebooted THEN found \cup {sequence} ELSE found
     /\ UNCHANGED <<boot, spool, reports, dropped, unsaid, faults>>

(* Agent::new: BootTracker::start compares the boot with boot.json and     *)
(* saves at once; a reboot it finds waits in memory for the first tick.    *)
Start ==
  LET rebooted == saved # None /\ saved.boot # boot
      sequence == IF saved = None THEN 0
                  ELSE IF rebooted THEN saved.sequence + 1 ELSE saved.sequence
  IN /\ agent.stage = "off"
     /\ saved' = [boot |-> boot, sequence |-> sequence]
     /\ agent' = [Off EXCEPT !.stage = "idle", !.next = NextFile,
                             !.pending = IF rebooted THEN sequence ELSE 0]
     /\ found' = IF rebooted THEN found \cup {sequence} ELSE found
     /\ UNCHANGED <<boot, spool, reports, dropped, unsaid, faults>>

(* tick: the reboot goes into the batch, and deliver looks at the spool.   *)
(* A directory that cannot be read counts as empty (len in uplink.rs).     *)
Tick(readable) ==
  /\ agent.stage = "idle"
  /\ Len(reports) < MaxReports
  /\ reports' = Append(reports, agent.pending)
  /\ \/ /\ readable
        /\ agent' = [agent EXCEPT
                       !.stage = IF Files = {} THEN "fresh" ELSE "flush",
                       !.left = Files, !.pending = 0,
                       !.hand = Len(reports) + 1]
        /\ UNCHANGED faults
     \/ /\ ~readable /\ Files # {}
        /\ faults < MaxFaults
        /\ agent' = [agent EXCEPT !.stage = "blind", !.pending = 0,
                                  !.hand = Len(reports) + 1]
        /\ faults' = faults + 1
  /\ UNCHANGED <<boot, disk, found, dropped, unsaid>>

(* The tick is over; what was in hand is spooled, sent or gone. *)
Rest == [agent EXCEPT !.stage = "idle", !.left = {}, !.hand = None]

(* Spool::push: write, rename, and let go of the oldest above the maximum; *)
(* files that cannot be listed or removed stay.                            *)
Push ==
  \E trims \in BOOLEAN :
  LET files  == Files \cup {agent.next}
      excess == {i \in files :
                   trims /\ Cardinality({j \in files : j >= i}) > MaxSpooled}
      all    == [i \in files |-> IF i = agent.next THEN agent.hand
                                                   ELSE spool[i]]
  IN /\ spool' = [i \in files \ excess |-> all[i]]
     /\ dropped' = dropped \cup {all[i] : i \in excess}
     /\ agent' = [Rest EXCEPT !.next = agent.next + 1]
     /\ faults' = IF trims THEN faults ELSE faults + 1
     /\ trims \/ (faults < MaxFaults /\ Cardinality(files) > MaxSpooled)
     /\ UNCHANGED <<boot, saved, reports, found, unsaid>>

(* A file operation fails: tick returns the error, and forgets its batch. *)
GiveUp ==
  /\ faults < MaxFaults
  /\ faults' = faults + 1
  /\ agent' = Rest
  /\ UNCHANGED <<boot, disk, aHistory>>

(* The report being sent: flush sends the oldest file, deliver the batch. *)
Sending ==
  CASE agent.stage = "flush" /\ agent.left # {} -> spool[First(agent.left)]
    [] agent.stage \in {"fresh", "blind"} -> agent.hand
    [] OTHER -> None

(* flush has the server's answer for the oldest file, and stops, or removes *)
(* the file, or fails to.                                                   *)
FlushAnswered(answer) ==
  LET i == First(agent.left)
  IN /\ agent.stage = "flush" /\ agent.left # {}
     /\ \/ /\ answer = "Failed"
           /\ agent' = [agent EXCEPT !.left = {}]
           /\ UNCHANGED <<boot, disk, aHistory, faults>>
        \/ /\ answer # "Failed"
           /\ spool' = [j \in Files \ {i} |-> spool[j]]
           /\ dropped' = IF answer = "Rejected"
                         THEN dropped \cup {spool[i]} ELSE dropped
           /\ agent' = [agent EXCEPT !.left = @ \ {i}]
           /\ UNCHANGED <<boot, saved, reports, found, unsaid,
                          faults>>
        \/ answer # "Failed" /\ GiveUp

(* The oldest file cannot be read. *)
FlushFails == agent.stage = "flush" /\ agent.left # {} /\ GiveUp

(* Mutation of FlushDone: the batch is sent although a backlog remains. *)
FlushDoneRegardless ==
  /\ agent.stage = "flush" /\ agent.left = {}
  /\ agent' = [agent EXCEPT !.stage = "fresh"]
  /\ UNCHANGED <<boot, disk, aHistory, faults>>

(* deliver after flush: behind a backlog the batch is queued. *)
FlushDone ==
  /\ agent.stage = "flush" /\ agent.left = {}
  /\ IF Files # {} THEN Push
     ELSE /\ agent' = [agent EXCEPT !.stage = "fresh"]
          /\ UNCHANGED <<boot, disk, aHistory, faults>>

(* ... and one that cannot be listed the second time is passed over too. *)
FlushBlind ==
  /\ agent.stage = "flush" /\ agent.left = {} /\ Files # {}
  /\ faults < MaxFaults
  /\ faults' = faults + 1
  /\ agent' = [agent EXCEPT !.stage = "blind"]
  /\ UNCHANGED <<boot, disk, aHistory>>

PushFails ==
  /\ agent.stage = "flush" /\ agent.left = {} /\ Files # {}
  /\ GiveUp

(* deliver has the server's answer for the batch of this tick. *)
FreshAnswered(answer) ==
  /\ agent.stage \in {"fresh", "blind"}
  /\ \/ answer = "Failed" /\ Push
     \/ answer = "Failed" /\ GiveUp
     \/ /\ answer # "Failed"
        /\ agent' = Rest
        /\ dropped' = IF answer = "Rejected"
                      THEN dropped \cup {agent.hand} ELSE dropped
        /\ UNCHANGED <<boot, disk, reports, found, unsaid, faults>>

Answered(answer) == FlushAnswered(answer) \/ FreshAnswered(answer)

-----------------------------------------------------------------------------
(* SIGTERM: the loop of run sees the flag between two ticks. What it saves *)
(* then bears on the reason the next boot reports, which is left out.      *)
Stop ==
  /\ agent.stage = "idle"
  /\ agent' = Off
  /\ unsaid' = unsaid \cup ({agent.pending} \ {0})
  /\ UNCHANGED <<boot, disk, reports, found, dropped, faults>>

Kill ==
  /\ agent.stage # "off"
  /\ faults < MaxFaults
  /\ faults' = faults + 1
  /\ agent' = Off
  /\ UNCHANGED <<boot, disk, aHistory>>

(* The device comes up again: after an orderly stop, or after its power    *)
(* was cut while the agent ran.                                            *)
Reboot ==
  /\ boot < MaxBoots
  /\ agent.stage = "off"
  /\ boot' = boot + 1
  /\ UNCHANGED <<disk, agent, aHistory, faults>>

(* The steps that need nobody else. *)
AgentStep ==
  \/ Start
  \/ \E readable \in BOOLEAN : Tick(readable)
  \/ FlushDone \/ FlushBlind \/ PushFails
  \/ Stop \/ Reboot

(* The agent alone, whatever it is answered. *)
AgentNext ==
  \/ AgentStep
  \/ FlushFails \/ Kill
  \/ \E answer \in {"Accepted", "Rejected", "Failed"} : Answered(answer)

AgentSpec == AgentInit /\ [][AgentNext]_agentVars

-----------------------------------------------------------------------------
(* The spool keeps its reports in the order they were made, across         *)
(* restarts, trims and flushes that stop half-way, and the next file is    *)
(* numbered above all others, so nothing spooled is overwritten            *)
(* (uplink.rs:101, 131-147).                                               *)
SpoolInOrder ==
  /\ \A i, j \in Files : i < j => spool[i] < spool[j]
  /\ \A i \in Files : spool[i] <= Len(reports)
  /\ agent.stage # "off" => \A i \in Files : i < agent.next
  /\ agent.hand # None => \A i \in Files : spool[i] < agent.hand

(* A reboot is found and reported at most once, under a sequence number of *)
(* its own, and never by a boot that has already been looked at, however   *)
(* often the agent is restarted (boot.rs:88-140).                          *)
RebootOnce ==
  /\ \A m, n \in DOMAIN reports :
       m # n /\ reports[m] = reports[n] => reports[m] = 0
  /\ \A n \in DOMAIN reports : reports[n] # 0 => reports[n] \in found
  /\ agent.pending # 0 => /\ agent.pending \in found \ unsaid
                          /\ \A n \in DOMAIN reports :
                               reports[n] # agent.pending
=============================================================================
