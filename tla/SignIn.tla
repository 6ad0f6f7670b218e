------------------------------- MODULE SignIn -------------------------------
(***************************************************************************)
(* How a user of the dashboard signs in (ferrite-dashboard/src/main.rs,    *)
(* auth/oidc.rs, auth/state.rs, pages/login.rs, pages/callback.rs and      *)
(* components/navbar.rs), in one tab of a browser.                         *)
(*                                                                         *)
(* The tab shows the application under its guard (AppLayout), the callback *)
(* page, or the identity provider.  Loading a page starts what App does on *)
(* mount and, on the callback page, the exchange of the code; leaving the  *)
(* document ends both, while a change of route within the application ends *)
(* neither App's.  sessionStorage outlives the documents.  A sign-in is    *)
(* known by the number of the click that began it, which stands for its    *)
(* verifier, its challenge, its code and its token alike.  The user goes   *)
(* back from the provider to the application, and no further.              *)
(***************************************************************************)
EXTENDS Naturals, FiniteSets

CONSTANTS
  MaxClicks,  \* bound: clicks on "Sign in with SSO"
  NoOne       \* no token, no sign-in

ASSUME SignInAssumption == MaxClicks \in Nat \ {0} /\ NoOne \notin Nat

VARIABLES
  mode,      \* what the server answers to GET /auth/mode
  tab,       \* [page, of]: where the tab is, and for which sign-in
  authState,     \* the AuthState signal
  kept,      \* sessionStorage: the session's token, the verifier, the client
  asking,    \* App awaits the answer to GET /auth/mode
  digesting, \* sign-ins whose challenge is being computed
  going,     \* the sign-in to whose authorize page the tab is on its way
  exchange,  \* the callback's request for a token, and its answer
  entering,  \* the basic form awaits its answer
  failed,    \* the callback page shows an error
  redeemed,  \* the provider: codes for which it gave a token
  clicks     \* sign-ins begun so far

signVars == <<mode, tab, authState, kept, asking, digesting, going, exchange,
              entering, failed, redeemed, clicks>>

(* AuthState.  The token of a basic session is 0. *)
Loading == [is |-> "loading", by |-> NoOne]
SignedIn(token) == [is |-> "in", by |-> token]
LoginWith(m) == [is |-> m, by |-> NoOne]

Pending(code, verifier) ==
  [code |-> code, verifier |-> verifier, answer |-> "none"]

(* The effects of a page's mount.  App takes a stored session as it is, or *)
(* else asks for the mode; the callback page exchanges its code, unless    *)
(* the client or the verifier it needs is not there.                       *)
Load(page, of, stored) ==
  /\ tab' = [page |-> page, of |-> of]
  /\ kept' = stored
  /\ authState' = IF stored.token # NoOne THEN SignedIn(stored.token) ELSE Loading
  /\ asking' = (stored.token = NoOne)
  /\ digesting' = {} /\ going' = NoOne /\ entering' = FALSE
  /\ LET ready == stored.client /\ stored.verifier # NoOne IN
     /\ exchange' = IF page = "callback" /\ ready
                    THEN Pending(of, stored.verifier) ELSE NoOne
     /\ failed' = (page = "callback" /\ ~ready)

SignInInit ==
  /\ mode \in {"keycloak", "basic"}
  /\ tab = [page |-> "app", of |-> NoOne]
  /\ authState = Loading
  /\ kept = [token |-> NoOne, verifier |-> NoOne, client |-> FALSE]
  /\ asking = TRUE
  /\ digesting = {} /\ going = NoOne /\ exchange = NoOne
  /\ entering = FALSE /\ failed = FALSE
  /\ redeemed = {} /\ clicks = 0

-----------------------------------------------------------------------------
(* The answer to GET /auth/mode; without one the mode is taken to be basic.*)
(* Whatever has happened since it was asked, the login page is authState.      *)
Discovered ==
  /\ asking
  /\ asking' = FALSE
  /\ \E m \in {mode, "basic"} : authState' = LoginWith(m)
  /\ UNCHANGED <<mode, tab, kept, digesting, going, exchange, entering,
                 failed, redeemed, clicks>>

ShowsLogin(m) == tab.page = "app" /\ authState = LoginWith(m)

(* "Sign in with SSO": the client is stored for the callback page, and     *)
(* start_login makes a verifier and awaits its digest.                     *)
ClickSso ==
  /\ ShowsLogin("keycloak") /\ clicks < MaxClicks
  /\ clicks' = clicks + 1
  /\ kept' = [kept EXCEPT !.client = TRUE]
  /\ digesting' = digesting \cup {clicks'}
  /\ UNCHANGED <<mode, tab, authState, asking, going, exchange, entering, failed,
                 redeemed>>

(* Mutation of Digested: a verifier that is there is not stored over.      *)
DigestedOnce(n) ==
  /\ n \in digesting
  /\ digesting' = digesting \ {n}
  /\ kept' = IF kept.verifier = NoOne THEN [kept EXCEPT !.verifier = n] ELSE kept
  /\ going' = n
  /\ UNCHANGED <<mode, tab, authState, asking, exchange, entering, failed,
                 redeemed, clicks>>

(* The digest is there: the verifier is stored and the tab sent away, in   *)
(* one go.                                                                 *)
Digested(n) ==
  /\ n \in digesting
  /\ digesting' = digesting \ {n}
  /\ kept' = [kept EXCEPT !.verifier = n]
  /\ going' = n
  /\ UNCHANGED <<mode, tab, authState, asking, exchange, entering, failed,
                 redeemed, clicks>>

(* The navigation last begun is the one that ends this document. *)
Leave ==
  /\ going # NoOne
  /\ tab' = [page |-> "provider", of |-> going]
  /\ going' = NoOne /\ asking' = FALSE /\ digesting' = {}
  /\ exchange' = NoOne /\ entering' = FALSE
  /\ UNCHANGED <<mode, authState, kept, failed, redeemed, clicks>>

(* At the provider the user signs in and is sent to /callback, or goes     *)
(* back to the application.                                                *)
Authorize ==
  /\ tab.page = "provider"
  /\ Load("callback", tab.of, kept)
  /\ UNCHANGED <<mode, redeemed, clicks>>

GoBack ==
  /\ tab.page = "provider"
  /\ Load("app", NoOne, kept)
  /\ UNCHANGED <<mode, redeemed, clicks>>

(* The provider gives a token for a code once, to who has its verifier.    *)
ProviderAnswers ==
  /\ exchange # NoOne /\ exchange.answer = "none"
  /\ LET good == exchange.code = exchange.verifier
                 /\ exchange.code \notin redeemed IN
     /\ redeemed' = IF good THEN redeemed \cup {exchange.code} ELSE redeemed
     /\ exchange' = [exchange EXCEPT !.answer =
                       IF good THEN "token" ELSE "refused"]
  /\ UNCHANGED <<mode, tab, authState, kept, asking, digesting, going, entering,
                 failed, clicks>>

(* The token arrives: the session is stored, what was kept for the         *)
(* callback is removed, and the route changes in the same document.        *)
Exchanged ==
  /\ exchange # NoOne /\ exchange.answer = "token"
  /\ kept' = [token |-> exchange.code, verifier |-> NoOne, client |-> FALSE]
  /\ authState' = SignedIn(exchange.code)
  /\ tab' = [page |-> "app", of |-> NoOne]
  /\ exchange' = NoOne
  /\ UNCHANGED <<mode, asking, digesting, going, entering, failed, redeemed,
                 clicks>>

(* A refusal, or no answer: the page says so and keeps everything. *)
ExchangeFails ==
  /\ exchange # NoOne
  /\ exchange' = NoOne
  /\ failed' = TRUE
  /\ UNCHANGED <<mode, tab, authState, kept, asking, digesting, going, entering,
                 redeemed, clicks>>

(* "Back to Login", a change of route. *)
BackToLogin ==
  /\ tab.page = "callback" /\ failed
  /\ tab' = [page |-> "app", of |-> NoOne]
  /\ failed' = FALSE
  /\ UNCHANGED <<mode, authState, kept, asking, digesting, going, exchange,
                 entering, redeemed, clicks>>

-----------------------------------------------------------------------------
(* The basic form tries the user's name and password on GET /devices.      *)
SubmitBasic ==
  /\ ShowsLogin("basic") /\ ~entering
  /\ entering' = TRUE
  /\ UNCHANGED <<mode, tab, authState, kept, asking, digesting, going, exchange,
                 failed, redeemed, clicks>>

(* A server in basic mode may take them; any other answer is an error.     *)
BasicAnswered ==
  /\ entering
  /\ entering' = FALSE
  /\ \/ /\ mode = "basic"
        /\ kept' = [kept EXCEPT !.token = 0]
        /\ authState' = SignedIn(0)
     \/ UNCHANGED <<kept, authState>>
  /\ UNCHANGED <<mode, tab, asking, digesting, going, exchange, failed,
                 redeemed, clicks>>

(* The user reloads the page. *)
Reload ==
  /\ tab.page \in {"app", "callback"}
  /\ Load(tab.page, tab.of, kept)
  /\ UNCHANGED <<mode, redeemed, clicks>>

(* "Sign out" removes the session and reloads. *)
SignOut ==
  /\ tab.page = "app" /\ authState.is = "in"
  /\ Load("app", NoOne, [kept EXCEPT !.token = NoOne])
  /\ UNCHANGED <<mode, redeemed, clicks>>

SignInNext ==
  \/ Discovered \/ ClickSso \/ (\E n \in digesting : Digested(n)) \/ Leave
  \/ Authorize \/ GoBack \/ ProviderAnswers \/ Exchanged \/ ExchangeFails
  \/ BackToLogin \/ SubmitBasic \/ BasicAnswered \/ Reload \/ SignOut

SignInSpec == SignInInit /\ [][SignInNext]_signVars

-----------------------------------------------------------------------------
(* Properties. *)

Stored == 0 .. MaxClicks \cup {NoOne}

SignInTypeOK ==
  /\ mode \in {"keycloak", "basic"}
  /\ tab \in [page : {"app", "callback", "provider"}, of : Stored]
  /\ authState \in [is : {"loading", "in", "keycloak", "basic"},
                by : Stored]
  /\ kept \in [token : Stored, verifier : Stored, client : BOOLEAN]
  /\ digesting \subseteq 1 .. MaxClicks /\ redeemed \subseteq 1 .. MaxClicks
  /\ {asking, entering, failed} \subseteq BOOLEAN
  /\ clicks \in 0 .. MaxClicks

(* Whichever of several clicks' digests ends last, and whatever the user   *)
(* reloads or goes back from, a code is exchanged with the verifier its    *)
(* challenge was made of (oidc.rs:70-91).                                  *)
OwnVerifier == exchange # NoOne => exchange.code = exchange.verifier

(* The token the dashboard works with is the one the tab would find again  *)
(* after a reload (callback.rs:56-74, login.rs:154-170, main.rs:231-256).  *)
TokenIsKept == authState.is = "in" => kept.token = authState.by

(* A sign-in goes wrong only where the network or the user ends it.        *)
SignInSound == OwnVerifier /\ TokenIsKept

(* The login page is for who is not signed in (auth/state.rs:25,           *)
(* main.rs:53).                                                            *)
LoginMeansNoSession ==
  ShowsLogin("keycloak") \/ ShowsLogin("basic") => kept.token = NoOne
=============================================================================
