-------------------------------- MODULE Meter --------------------------------
(***************************************************************************)
(* What the server's rate limit promises of an address: an allowance that  *)
(* grows by Rate with every tick up to Burst, and that nothing but the     *)
(* address's own requests uses up.  A request passes exactly when the      *)
(* allowance covers its Cost.  No address is ever forgotten.               *)
(***************************************************************************)
EXTENDS Naturals

CONSTANTS Clients, Addresses, AddressOf, Rate, Burst, Cost

VARIABLES
  level,   \* what is left of each address's allowance
  answer   \* the last request, and whether it passed

Least(m, n) == IF m <= n THEN m ELSE n

MeterInit ==
  /\ level = [a \in Addresses |-> Burst]
  /\ answer = <<>>

Grow ==
  /\ level' = [a \in Addresses |-> Least(Burst, level[a] + Rate)]
  /\ UNCHANGED answer

Ask(c) ==
  LET passes == level[AddressOf[c]] >= Cost IN
  /\ level' = IF passes THEN [level EXCEPT ![AddressOf[c]] = @ - Cost] ELSE level
  /\ answer' = <<c, passes>>

MeterNext == Grow \/ \E c \in Clients : Ask(c)

MeterSpec == MeterInit /\ [][MeterNext]_<<level, answer>>
=============================================================================
