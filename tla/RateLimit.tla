------------------------------ MODULE RateLimit ------------------------------
(***************************************************************************)
(* The rate limit of uploads and logins: the buckets of ferrite-server/    *)
(* src/rate_limit.rs, and the layer in ingest.rs that asks for a token.    *)
(*                                                                         *)
(* A bucket is filled up when it is asked, for the time since it last was, *)
(* and a task drops the buckets that nobody has asked for a while.  Each   *)
(* handler holds the lock on the map from its first step to its last.      *)
(* Time is in ticks, and tokens in the unit that makes Rate, what a tick   *)
(* brings, and Cost, what a request takes, whole numbers.                  *)
(***************************************************************************)
EXTENDS Naturals

CONSTANTS
  Clients,      \* those who send requests
  Addresses,
  Unspecified,  \* 0.0.0.0
  Rate, Burst, Cost,
  StaleAfter,   \* ticks after which cleanup drops a bucket (300 s)
  MaxAge,       \* bound: ticks for which no bucket is dropped
  NoBucket

(* With Burst ten times the rate, or ten requests, a bucket is full again  *)
(* when it is dropped as long as RATE_LIMIT_RPS is at least 1/30.          *)
ASSUME RateLimitAssumption ==
  /\ Unspecified \in Addresses
  /\ Rate \in Nat /\ Burst \in Nat /\ Cost \in Nat \ {0} /\ Cost <= Burst
  /\ StaleAfter \in Nat /\ MaxAge \in Nat
  /\ StaleAfter * Rate >= Burst
  /\ NoBucket \notin [tokens : Nat, age : Nat]

VARIABLES
  bucket,   \* address -> its tokens and the time since they were counted
  answer,   \* the last request, and whether it passed
  own       \* history: what would be left of an allowance of each client's own

limitVars == <<bucket, answer, own>>

Bucket == [tokens : 0 .. Burst, age : 0 .. MaxAge]

LimitTypeOK ==
  /\ bucket \in [Addresses -> Bucket \cup {NoBucket}]
  /\ own \in [Clients -> 0 .. Burst]

(* The layer looks for the peer's address where only a server that was     *)
(* started with connect info puts it, and main.rs starts one without.      *)
AddressOf == [c \in Clients |-> Unspecified]

AtMost(m, n) == IF m <= n THEN m ELSE n

Refilled(b) == IF b = NoBucket THEN Burst ELSE AtMost(Burst, b.tokens + b.age * Rate)

Left == [a \in Addresses |-> Refilled(bucket[a])]

LimitInit ==
  /\ bucket = [a \in Addresses |-> NoBucket]
  /\ answer = <<>>
  /\ own = [c \in Clients |-> Burst]

Pass ==
  /\ \A a \in Addresses : bucket[a] # NoBucket => bucket[a].age < MaxAge
  /\ bucket' = [a \in Addresses |->
                  IF bucket[a] = NoBucket THEN NoBucket ELSE [bucket[a] EXCEPT !.age = @ + 1]]
  /\ own' = [c \in Clients |-> AtMost(Burst, own[c] + Rate)]
  /\ UNCHANGED answer

Spent(tokens) == IF tokens >= Cost THEN tokens - Cost ELSE tokens

(* Mutation of TryAcquire: the time of the last refill is kept. *)
TryAcquireAged(c) ==
  LET a == AddressOf[c] IN
  /\ bucket' = [bucket EXCEPT ![a] =
                  [tokens |-> Spent(Left[a]), age |-> IF @ = NoBucket THEN 0 ELSE @.age]]
  /\ answer' = <<c, Left[a] >= Cost>>
  /\ own' = [own EXCEPT ![c] = Spent(@)]

TryAcquire(c) ==
  LET a == AddressOf[c] IN
  /\ bucket' = [bucket EXCEPT ![a] = [tokens |-> Spent(Left[a]), age |-> 0]]
  /\ answer' = <<c, Left[a] >= Cost>>
  /\ own' = [own EXCEPT ![c] = Spent(@)]

Cleanup ==
  /\ bucket' = [a \in Addresses |->
                  IF bucket[a] # NoBucket /\ bucket[a].age >= StaleAfter THEN NoBucket
                  ELSE bucket[a]]
  /\ UNCHANGED <<answer, own>>

LimitNext == Pass \/ Cleanup \/ \E c \in Clients : TryAcquire(c)

LimitSpec == LimitInit /\ [][LimitNext]_limitVars

-----------------------------------------------------------------------------
(* Filling a bucket when it is asked, and forgetting it, cannot be told    *)
(* from an allowance that grows all the time: the map implements Meter     *)
(* (rate_limit.rs:41, 67).                                                 *)
M == INSTANCE Meter WITH level <- Left

Metered == M!MeterSpec

(* Not met: "Limits requests per IP address" (rate_limit.rs:3): a client   *)
(* is refused only if its own requests used up an allowance.               *)
PerAddress ==
  [][\A c \in Clients : TryAcquire(c) /\ ~answer'[2] => own[c] < Cost]_limitVars
=============================================================================
