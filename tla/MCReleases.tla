----------------------------- MODULE MCReleases -----------------------------
(* How a build gets to the devices, for TLC: the commands that sign and    *)
(* upload it (SigningDesk), the shelf of firmware with the evidence log    *)
(* (Releases) and the rollout (OtaRollout).  They share nothing here, so   *)
(* one of them runs in a behaviour, which adds their states instead of     *)
(* multiplying them.                                                       *)
EXTENDS OtaRollout, Releases, SigningDesk

MCBuildOf == [f \in Firmware |-> 2]
All == {Devices}
Strict ==
  {[firmware |-> "f2", version |-> "v2", threshold |-> 0, percent |-> None]}

(* Build 2 runs on device 1 and hangs on device 2. *)
BadOnTwo == {<<2, 2>>}

(* One device of each kind, either way round. *)
OneOfEach == {[d \in Devices |-> IF d = g THEN "gateway" ELSE "direct"] :
                g \in Devices}

-----------------------------------------------------------------------------
VARIABLE part  \* which of the three runs

allVars == <<rolloutVars, shelfVars, deskVars, part>>

AllInit ==
  /\ part \in {"desk", "shelf", "devices"}
  /\ RolloutInit /\ ReleasesInit /\ DeskInit
  /\ part # "devices" => path[1] = "direct"

AtDesk(A) == part = "desk" /\ A /\ UNCHANGED <<rolloutVars, shelfVars, part>>
OnShelf(A) == part = "shelf" /\ A /\ UNCHANGED <<rolloutVars, deskVars, part>>
OnDevices(A) == part = "devices" /\ A /\ UNCHANGED <<shelfVars, deskVars, part>>

AllNext == AtDesk(DeskNext) \/ OnShelf(ReleasesNext) \/ OnDevices(RolloutNext)

AllSpec == AllInit /\ [][AllNext]_allVars

(* The fairness of the two (FairRollout, FairReleases), each while it runs.*)
(* One device posts through a gateway here and no other has its messages   *)
(* held, so fairness to some held message is fairness to each device's.    *)
FairAllSpec ==
  /\ AllSpec
  /\ WF_shelfVars(OnShelf(Anchoring /\ Bounded'))
  /\ WF_shelfVars(OnShelf(Working /\ Bounded'))
  /\ \A d \in Devices :
       /\ WF_rolloutVars(OnDevices(Upload(d) \/ Watchdog(d)))
       /\ WF_rolloutVars(OnDevices(Check(d)))
       /\ SF_rolloutVars(OnDevices(Swap(d)))
  /\ SF_rolloutVars(OnDevices(
       \E d \in Devices : Request(d) \in held /\ Forward(Request(d))))
  /\ SF_rolloutVars(OnDevices(\E m \in held : m.rolledBack /\ Forward(m)))

(* A build that was found good is refused only for its size or version,    *)
(* what is taken was signed as it is, and what is on the shelf can be      *)
(* fetched and was logged (ctl ota.rs, server ota.rs).                     *)
ReleasesTold == DeskTold /\ ShelfTold
=============================================================================
