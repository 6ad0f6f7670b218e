----------------------------- MODULE TrialBoot ------------------------------
(***************************************************************************)
(* What updating in the field promises for a device with two slots: it     *)
(* moves only to what has been approved, keeps it only if it works, and    *)
(* until then has what worked before in the other slot.                    *)
(***************************************************************************)
CONSTANTS
  Contents,       \* what a slot may hold
  Approved(_, _), \* what the holder of the first may move to
  Works(_)

VARIABLES
  running, \* the slot that runs
  other,   \* the slot beside it
  state    \* "boot", "swap" (on trial) or "revert"

vars == <<running, other, state>>

Init == running \in Contents /\ Works(running) /\ other \in Contents
        /\ state = "boot"

(* The other slot is free for the next update once nothing is on trial. *)
Prepare ==
  /\ state # "swap"
  /\ other' \in Contents
  /\ UNCHANGED <<running, state>>

Exchange == running' = other /\ other' = running

Install ==
  /\ state = "boot"
  /\ Approved(running, other)
  /\ Exchange
  /\ state' = "swap"

Restore == state = "swap" /\ Exchange /\ state' = "revert"

Keep == state = "swap" /\ Works(running) /\ state' = "boot"
        /\ UNCHANGED <<running, other>>

Resume == state = "revert" /\ state' = "boot" /\ UNCHANGED <<running, other>>

Next == Prepare \/ Install \/ Restore \/ Keep \/ Resume

Spec == Init /\ [][Next]_vars

(* Whatever happens, what runs works, or a reset brings back what does. *)
Recoverable == IF state = "swap" THEN Works(other) ELSE Works(running)
=============================================================================
