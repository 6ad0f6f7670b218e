------------------------------- MODULE MCIngest -------------------------------
(* Instances of Ingest for TLC: a device that calls itself a and carries   *)
(* the key whose row is k, and one that calls itself k.                    *)
EXTENDS Ingest, TLC

CONSTANTS a, k

MCKeyRow == (a :> k) @@ (k :> None)

GroupOf(head, i, kinds) ==
  <<[what |-> head, of |-> i]>> \o
  [n \in DOMAIN kinds |-> [what |-> kinds[n], of |-> i]]

Of(i, kinds)       == GroupOf("touch", i, kinds)
Nameless(i, kinds) == GroupOf("nameless", i, kinds)

(* Each device alone, what a gateway batches of both, and sealed chunks of *)
(* one before chunks in clear that do not say whose they are.              *)
MCUploads ==
  {Of(a, <<"beat">>), Of(k, <<"fault", "beat">>),
   Of(a, <<"fault">>) \o Of(k, <<"fault">>),
   Of(k, <<"fault">>) \o Nameless(a, <<"fault">>)}
=============================================================================
