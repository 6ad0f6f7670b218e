------------------------------ MODULE KeyCache ------------------------------
(***************************************************************************)
(* How the server tells whether a bearer token is good (ferrite-server/    *)
(* src/auth.rs): it checks the token with the keys Keycloak publishes,     *)
(* which it keeps for a while, and asks Keycloak when no key fits.         *)
(*                                                                         *)
(* Requests run at once, and nothing is locked while Keycloak is asked:    *)
(* keys may be replaced while they are fetched, and several requests fetch *)
(* them and store what they got in any order.                              *)
(***************************************************************************)
EXTENDS Naturals

CONSTANTS
  Logins,       \* requests that carry a bearer token
  SigningKeys,  \* keys of the realm
  Ttl,          \* JWKS_TTL_SECS, in ticks
  MaxOutages,   \* bound on calls to Keycloak that fail
  NoKeys

ASSUME KeyCacheAssumption ==
  /\ Ttl \in Nat /\ MaxOutages \in Nat
  /\ NoKeys \notin SigningKeys

VARIABLES
  published,  \* the keys Keycloak publishes; it refuses tokens of any other
  cached,     \* JWKS_CACHE: the keys and their age, or NoKeys
  login,      \* what each request is doing
  outages,
  excused     \* history: requests whose token's key was withdrawn on the way,
              \* or that Keycloak did not answer when it was asked

keyVars == <<published, cached, login, outages, excused>>

Away == [stage |-> "idle", key |-> NoKeys, keys |-> {}]

Login == [stage : {"idle", "look", "fetch", "fetched", "check", "ask", "good", "bad"},
          key : SigningKeys \cup {NoKeys}, keys : SUBSET SigningKeys]

KeyTypeOK ==
  /\ published \in SUBSET SigningKeys
  /\ cached \in [keys : SUBSET SigningKeys, age : 0 .. Ttl] \cup {NoKeys}
  /\ login \in [Logins -> Login]
  /\ outages \in 0 .. MaxOutages
  /\ excused \subseteq Logins

KeyInit ==
  /\ published = {}
  /\ cached = NoKeys
  /\ login = [r \in Logins |-> Away]
  /\ outages = 0
  /\ excused = {}

Goes(r, stage) == login' = [login EXCEPT ![r].stage = stage]

-----------------------------------------------------------------------------
(* Keycloak, and time. *)

Publish(k) ==
  /\ published' = published \cup {k}
  /\ UNCHANGED <<cached, login, outages, excused>>

Withdraw(k) ==
  /\ published' = published \ {k}
  /\ excused' = excused \cup {r \in Logins : login[r].key = k}
  /\ UNCHANGED <<cached, login, outages>>

(* Past Ttl, older is all the same. *)
Age ==
  /\ cached # NoKeys /\ cached.age < Ttl
  /\ cached' = [cached EXCEPT !.age = @ + 1]
  /\ UNCHANGED <<published, login, outages, excused>>

-----------------------------------------------------------------------------
(* A request: get_jwks_keys, then validate_keycloak_token. *)

(* Its token was signed with a key that is still published. *)
Arrive(r, k) ==
  /\ login[r].stage \in {"idle", "good", "bad"}
  /\ k \in published
  /\ login' = [login EXCEPT ![r] = [stage |-> "look", key |-> k, keys |-> {}]]
  /\ excused' = excused \ {r}
  /\ UNCHANGED <<published, cached, outages>>

(* The lock is held to look, and given up before anything is fetched. *)
LookUp(r) ==
  /\ login[r].stage = "look"
  /\ IF cached # NoKeys /\ cached.age < Ttl
     THEN login' = [login EXCEPT ![r].stage = "check", ![r].keys = cached.keys]
     ELSE Goes(r, "fetch")
  /\ UNCHANGED <<published, cached, outages, excused>>

(* Keycloak's answer leaves. *)
FetchKeys(r) ==
  /\ login[r].stage = "fetch"
  /\ login' = [login EXCEPT ![r].stage = "fetched", ![r].keys = published]
  /\ UNCHANGED <<published, cached, outages, excused>>

(* It arrives, is stored as of now, and is what this request checks with. *)
StoreKeys(r) ==
  /\ login[r].stage = "fetched"
  /\ cached' = [keys |-> login[r].keys, age |-> 0]
  /\ Goes(r, "check")
  /\ UNCHANGED <<published, outages, excused>>

(* Mutation of CheckToken: a token that no cached key fits is refused. *)
CheckTokenOnly(r) ==
  /\ login[r].stage = "check"
  /\ Goes(r, IF login[r].key \in login[r].keys THEN "good" ELSE "bad")
  /\ UNCHANGED <<published, cached, outages, excused>>

CheckToken(r) ==
  /\ login[r].stage = "check"
  /\ Goes(r, IF login[r].key \in login[r].keys THEN "good" ELSE "ask")
  /\ UNCHANGED <<published, cached, outages, excused>>

(* The userinfo endpoint. *)
AskKeycloak(r) ==
  /\ login[r].stage = "ask"
  /\ Goes(r, IF login[r].key \in published THEN "good" ELSE "bad")
  /\ UNCHANGED <<published, cached, outages, excused>>

(* A call fails: without keys, Keycloak is asked; without an answer, the   *)
(* request is refused.                                                     *)
Outage(r) ==
  /\ outages < MaxOutages
  /\ login[r].stage \in {"fetch", "fetched", "ask"}
  /\ outages' = outages + 1
  /\ Goes(r, IF login[r].stage = "ask" THEN "bad" ELSE "ask")
  /\ excused' = IF login[r].stage = "ask" THEN excused \cup {r} ELSE excused
  /\ UNCHANGED <<published, cached>>

Serve(r) ==
  \/ \E k \in SigningKeys : Arrive(r, k)
  \/ LookUp(r) \/ FetchKeys(r) \/ StoreKeys(r) \/ CheckToken(r) \/ AskKeycloak(r) \/ Outage(r)

KeyNext ==
  \/ \E k \in SigningKeys : Publish(k) \/ Withdraw(k)
  \/ Age
  \/ \E r \in Logins : Serve(r)

KeySpec == KeyInit /\ [][KeyNext]_keyVars

-----------------------------------------------------------------------------
(* A good token is taken: while its key stays published and Keycloak       *)
(* answers, a request is not refused, however old the cached keys are and  *)
(* whichever request stored them (auth.rs:93, 168).  A call for keys that  *)
(* fails does not refuse it either: Keycloak is still asked.               *)
GoodIsTaken ==
  \A r \in Logins : login[r].stage = "bad" => r \in excused
=============================================================================
