------------------------------ MODULE Delivery ------------------------------
(***************************************************************************)
(* What store-and-forward promises, wherever it is done: whatever has been *)
(* taken over is held until the server has it, unless it was given up for  *)
(* a stated reason or something broke.  The server may get it more than    *)
(* once; nothing that is gone comes back.                                  *)
(***************************************************************************)
EXTENDS Naturals

CONSTANT Items

VARIABLES
  taken,    \* items somebody took over
  held,     \* items of which somebody holds a copy
  stored,   \* items the server has
  excused,  \* items given up for a reason on record
  faults    \* crashes and failed writes so far

vars == <<taken, held, stored, excused, faults>>

Init ==
  /\ taken = {} /\ held = {} /\ stored = {} /\ excused = {}
  /\ faults = 0

TakeOver == held' \ held \subseteq Items \ taken

Deliver == stored' \ stored \subseteq held

LetGo == held \ held' \subseteq stored' \cup excused'

Break == faults' > faults

Next ==
  /\ taken' = taken \cup held'
  /\ TakeOver
  /\ stored \subseteq stored'
  /\ Deliver
  /\ excused \subseteq excused'
  /\ LetGo \/ Break

Spec == Init /\ [][Next]_vars
=============================================================================
