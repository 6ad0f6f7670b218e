----------------------------- MODULE MCCampaigns -----------------------------
(* Instances of Campaigns for TLC.                                          *)
EXTENDS Campaigns, TLC

(* Nothing orders campaigns. *)
Symmetry == Permutations(CampaignIds)

MCBuildOf == [f \in Firmware |-> IF f = "f2" THEN 2 ELSE 3]

Immediate(f, v, t) ==
  [firmware |-> f, version |-> v, threshold |-> t, percent |-> None]
Canary(f, v, t, p) == [Immediate(f, v, t) EXCEPT !.percent = p]

Overlapping == {Devices, {1}}

(* Two canaries of one half for two versions, and targets set by hand that  *)
(* have the version of the first and the build of the second.               *)
TwoPlans == {Canary("f2", "v2", 40, 50), Canary("f3", "v3", 0, 50)}
ByHand == {[version |-> "v2", build |-> 3]}
=============================================================================
