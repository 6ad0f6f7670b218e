----------------------------- MODULE MCRegistry -----------------------------
(* What the server knows of devices and clients, and how devices get their *)
(* keys, for TLC: Reach, RateLimit and Provision.  They share nothing, so  *)
(* one of them runs in a behaviour, which adds their states instead of     *)
(* multiplying them.                                                       *)
EXTENDS Reach, RateLimit, Provision, TLC

(* A build with an ID and one without: either may be a target.             *)
MCFirmware == {[build |-> 0, version |-> "1"], [build |-> 2, version |-> "2"]}

(* The devices of Reach are alike, and no property here is about liveness. *)
Alike == Permutations(Ids)

-----------------------------------------------------------------------------
VARIABLE part  \* which of the three runs

allVars == <<reachVars, limitVars, provisionVars, part>>

AllInit ==
  /\ part \in {"reach", "limit", "provision"}
  /\ ReachInit /\ LimitInit /\ ProvisionInit

AllNext ==
  /\ UNCHANGED part
  /\ \/ /\ part = "reach" /\ ReachNext
        /\ UNCHANGED <<limitVars, provisionVars>>
     \/ /\ part = "limit" /\ LimitNext
        /\ UNCHANGED <<reachVars, provisionVars>>
     \/ /\ part = "provision" /\ ProvisionNext
        /\ UNCHANGED <<reachVars, limitVars>>

AllSpec == AllInit /\ [][AllNext]_allVars
=============================================================================
