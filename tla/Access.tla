------------------------------- MODULE Access -------------------------------
(***************************************************************************)
(* Who gets an answer from the server (ferrite-server/src/auth_middleware, *)
(* auth.rs, config.rs and the routes of ingest.rs).                        *)
(*                                                                         *)
(* A path is its segments, with "x" for what names one thing; a role comes *)
(* from the list of users in the environment, or from a token, whose roles *)
(* the server reads in the token or in Keycloak's userinfo.  How it tells  *)
(* that a token is good is KeyCache.                                       *)
(***************************************************************************)
EXTENDS Naturals, Sequences, FiniteSets

CONSTANTS
  Accounts,   \* BASIC_AUTH_USERS: entries, each its fields; no two alike in
              \* name and password
  Chief,      \* the fields of BASIC_AUTH_USER and BASIC_AUTH_PASS
  RealmRoles, \* roles of the realm
  Nobody      \* no header, key, role or answer

Field == STRING
Roles == {"admin", "provisioner", "auditor", "viewer"}

(* The entries are as the documentation writes them (configuration.md:45,  *)
(* security.md:100), or of one field, which the server skips.              *)
ASSUME AccessAssumption ==
  /\ Accounts \subseteq Seq(Field)
  /\ \A e \in Accounts : /\ Len(e) <= 3
                         /\ Len(e) = 3 => e[3] \in Roles
  /\ \A e, f \in Accounts :
       Len(e) > 1 /\ Len(f) > 1 /\ SubSeq(e, 1, 2) = SubSeq(f, 1, 2) => e = f
  /\ Nobody \notin Roles \cup {"key"}

VARIABLES
  setup,  \* the server's mode, and whether it has an ingest key
  ask,    \* the request
  answer  \* "served", "401" or "403"

accessVars == <<setup, ask, answer>>

-----------------------------------------------------------------------------
(* The routes, by the users the documentation names for them.              *)
Public == {<<"GET", <<"health">>>>, <<"GET", <<"auth", "mode">>>>,
           <<"GET", <<"metrics", "prometheus">>>>}

IngestChunks == <<"POST", <<"ingest", "chunks">>>>
IngestElf    == <<"POST", <<"ingest", "elf">>>>

DeviceOrUser ==
  {"GET"} \X {<<"ota", "targets", "x">>, <<"ota", "firmware", "x", "download">>,
              <<"ota", "firmware", "x", "manifest">>}

UserReads ==
  {"GET"} \X
  {<<"events", "stream">>, <<"devices">>, <<"devices", "x">>, <<"devices", "x", "credential">>,
   <<"devices", "x", "faults">>, <<"devices", "x", "metrics">>, <<"faults">>, <<"metrics">>,
   <<"crashes">>, <<"crashes", "x">>, <<"groups">>, <<"groups", "x">>, <<"groups", "x", "devices">>,
   <<"ota", "targets">>, <<"ota", "firmware">>, <<"ota", "firmware", "x">>, <<"ota", "campaigns">>,
   <<"ota", "campaigns", "x">>, <<"ota", "campaigns", "x", "devices">>,
   <<"reports", "fleet", "builds">>, <<"reports", "campaigns", "x">>,
   <<"reports", "devices", "x", "firmware-history">>}

ProvisionerUp ==
  {<<"POST", <<"devices", "register">>>>, <<"POST", <<"devices", "register", "bulk">>>>,
   <<"PUT", <<"devices", "x">>>>, <<"POST", <<"devices", "x", "credential">>>>}

AdminOnly ==
  {"DELETE"} \X {<<"devices", "x">>, <<"devices", "x", "credential">>, <<"groups", "x">>,
                 <<"groups", "x", "devices", "x">>, <<"ota", "targets", "x">>,
                 <<"ota", "firmware", "x">>, <<"admin", "devices", "x">>}
  \cup
  {"POST"} \X {<<"ota", "targets">>, <<"ota", "firmware">>, <<"ota", "campaigns">>,
               <<"ota", "campaigns", "x", "activate">>, <<"ota", "campaigns", "x", "pause">>,
               <<"ota", "campaigns", "x", "rollback">>, <<"evidence", "anchor">>}

GroupWrites == {<<"POST", <<"groups">>>>, <<"PUT", <<"groups", "x">>>>,
                <<"POST", <<"groups", "x", "devices", "x">>>>}

EvidenceReads == {"GET"} \X {<<"evidence">>, <<"evidence", "verify">>}

AdminReads == {"GET"} \X {<<"admin", "backup">>, <<"admin", "retention">>}

Routes == Public \cup {IngestChunks, IngestElf} \cup DeviceOrUser \cup UserReads
          \cup ProvisionerUp \cup AdminOnly \cup GroupWrites \cup EvidenceReads \cup AdminReads

-----------------------------------------------------------------------------
(* Roles. *)

(* parse *)
RoleNamed(field) == IF field \in {"admin", "provisioner", "auditor"} THEN field ELSE "viewer"

(* parse_basic_auth_users: an entry needs a name and a password.           *)
Listed ==
  {[login |-> SubSeq(e, 1, 2), role |-> IF Len(e) > 2 THEN RoleNamed(e[3]) ELSE "viewer"] :
     e \in {f \in Accounts : Len(f) > 1}}

(* validate_basic_auth *)
RoleOfLogin(login) ==
  IF login = Chief THEN "admin"
  ELSE IF \E u \in Listed : u.login = login THEN (CHOOSE u \in Listed : u.login = login).role
  ELSE Nobody

(* Mutation of RoleOfRealm: the auditor ranks above the provisioner.       *)
RoleOfRealmMixed(roles) ==
  IF "ferrite-admin" \in roles THEN "admin"
  ELSE IF "ferrite-auditor" \in roles THEN "auditor"
  ELSE IF "ferrite-provisioner" \in roles THEN "provisioner"
  ELSE "viewer"

(* role_from_realm_roles, of a token or of the userinfo.                   *)
RoleOfRealm(roles) ==
  IF "ferrite-admin" \in roles THEN "admin"
  ELSE IF "ferrite-provisioner" \in roles THEN "provisioner"
  ELSE IF "ferrite-auditor" \in roles THEN "auditor"
  ELSE "viewer"

(* extract_keycloak_role, and the fallback to the userinfo: one that does  *)
(* not carry the realm's roles makes a viewer of its user.                 *)
RoleOfToken(user) == IF user.shown THEN RoleOfRealm(user.roles) ELSE "viewer"

CanWrite(role) == role \in {"provisioner", "admin"}
CanReadEvidence(role) == role \in {"admin", "auditor"}

(* validate_request: the role of the request's user, or Nobody.            *)
RoleOf(user) ==
  CASE user.kind = "basic" /\ setup.mode = "basic" -> RoleOfLogin(user.login)
    [] user.kind = "good token" /\ setup.mode = "keycloak" -> RoleOfToken(user)
    [] OTHER -> Nobody

-----------------------------------------------------------------------------
(* require_auth *)

KeyFits(key) == setup.key # Nobody /\ key = setup.key

(* is_device_ota_path *)
IsDeviceOtaPath(path) ==
  \/ Len(path) = 3 /\ SubSeq(path, 1, 2) = <<"ota", "targets">>
  \/ Len(path) = 4 /\ SubSeq(path, 1, 2) = <<"ota", "firmware">> /\ path[4] \in {"download", "manifest"}

(* Whether a role may make the request, where a user is asked for.         *)
RoleMay(role, method, path) ==
  LET evidence == path[1] = "evidence"
      adminPath == path[1] \in {"admin", "groups", "ota", "evidence"}
      write == method \in {"POST", "PUT", "PATCH"}
  IN  /\ evidence => CanReadEvidence(role)
      /\ role = "auditor" => evidence /\ method = "GET"
      /\ method = "DELETE" \/ (write /\ adminPath) => role = "admin"
      /\ write => CanWrite(role)

Answer(method, path, key, user) ==
  LET role == RoleOf(user)
      open == \/ method = "OPTIONS"
              \/ path \in {<<"auth", "mode">>, <<"health">>, <<"metrics", "prometheus">>}
              \/ path[1] = "ingest" /\ path # IngestElf[2] /\ setup.key = Nobody
      byKey == /\ \/ path[1] = "ingest"
                  \/ method = "GET" /\ IsDeviceOtaPath(path)
               /\ KeyFits(key)
      byUser == path[1] # "ingest" \/ path = IngestElf[2]
      may == IF path = IngestElf[2] THEN CanWrite(role) ELSE RoleMay(role, method, path)
  IN  IF open \/ byKey THEN "served"
      ELSE IF ~byUser \/ role = Nobody THEN "401"
      ELSE IF may THEN "served" ELSE "403"

-----------------------------------------------------------------------------
(* What the header may hold: any name with any password, or a token, of a  *)
(* user with these realm roles.  Keycloak may show them in the token, or   *)
(* in the userinfo where no key settles the token, or not.                 *)
Pairs == {Chief} \cup {SubSeq(e, 1, 2) : e \in {f \in Accounts : Len(f) > 1}}

Tried == {<<p[1], q[2]>> : p, q \in Pairs}

Users == [kind : {"none", "malformed", "bad token"}]
         \cup [kind : {"basic"}, login : Tried]
         \cup [kind : {"good token"}, roles : SUBSET RealmRoles, shown : BOOLEAN]

AccessInit ==
  /\ setup \in [mode : {"basic", "keycloak"}, key : {"key", Nobody}]
  /\ ask = Nobody /\ answer = Nobody

(* One request to a server; the next one is no different.                  *)
Ask(route, method, key, user) ==
  /\ ask' = [route |-> route, method |-> method, key |-> key, user |-> user]
  /\ answer' = Answer(method, route[2], key, user)
  /\ UNCHANGED setup

AccessNext ==
  /\ ask = Nobody
  /\ \E route \in Routes, key \in {"key", "other", Nobody}, user \in Users :
       \E method \in {route[1], "OPTIONS"} : Ask(route, method, key, user)

AccessSpec == AccessInit /\ [][AccessNext]_accessVars

-----------------------------------------------------------------------------
(* What the documentation says: security.md:88-117, the Auth column of     *)
(* configuration.md:84-182, and the roles of docs/dashboard/sso.md:46-51.  *)

Outranked(role) ==
  CASE role = "provisioner" -> {"ferrite-admin"}
    [] role = "auditor" -> {"ferrite-admin", "ferrite-provisioner"}
    [] role = "viewer" -> {"ferrite-admin", "ferrite-provisioner", "ferrite-auditor"}
    [] OTHER -> {}

RealmName == [admin |-> "ferrite-admin", provisioner |-> "ferrite-provisioner",
              auditor |-> "ferrite-auditor"]

(* The role the list of accounts or the realm gives a user.                *)
Is(user, role) ==
  \/ /\ setup.mode = "basic" /\ user.kind = "basic"
     /\ \/ role = "admin" /\ user.login = Chief
        \/ Append(user.login, role) \in Accounts
        \/ role = "viewer" /\ user.login \in Accounts
  \/ /\ setup.mode = "keycloak" /\ user.kind = "good token"
     /\ user.roles \cap Outranked(role) = {}
     /\ role # "viewer" => RealmName[role] \in user.roles

(* The server is not shown the roles that the realm gives this user.       *)
Unseen(user) == user.kind = "good token" /\ ~user.shown

(* Whoever it is may make this request, or the key lets them.              *)
OpenTo(route, method, key) ==
  \/ method = "OPTIONS" \/ route \in Public
  \/ route = IngestChunks /\ setup.key = Nobody
  \/ /\ route \in DeviceOrUser \cup {IngestChunks, IngestElf}
     /\ setup.key # Nobody /\ key = setup.key

(* Every page that speaks of the route lets the user make it.              *)
MayAsTold(route, user) ==
  \/ /\ route \in UserReads \cup DeviceOrUser
     /\ Is(user, "viewer") \/ Is(user, "provisioner") \/ Is(user, "admin")
  \/ /\ route \in ProvisionerUp \cup {IngestElf}
     /\ Is(user, "provisioner") \/ Is(user, "admin")
  \/ route \in EvidenceReads /\ (Is(user, "auditor") \/ Is(user, "admin"))
  \/ route \in AdminOnly \cup GroupWrites \cup AdminReads /\ Is(user, "admin")

(* Some page does: the pages differ on who writes groups.                  *)
MightAsTold(route, user) ==
  MayAsTold(route, user) \/ (route \in GroupWrites /\ Is(user, "provisioner"))

(* Who every page lets make a request is answered, if the server is shown  *)
(* their roles.  Who no page lets make it is not; the reads under /admin,  *)
(* which are other than told (AdminReadsAsTold), nobody and no auditor     *)
(* gets.  Who is not shown to have a role only reads.  401 is for who is   *)
(* nobody, 403 for who is somebody else.                                   *)
AnsweredAsTold ==
  ask # Nobody =>
    LET open == OpenTo(ask.route, ask.method, ask.key)
    IN  /\ open \/ (MayAsTold(ask.route, ask.user) /\ ~Unseen(ask.user)) => answer = "served"
        /\ answer = "served" =>
             \/ open
             \/ MightAsTold(ask.route, ask.user)
             \/ Unseen(ask.user) /\ ask.route \in UserReads \cup DeviceOrUser
             \/ /\ ask.route \in AdminReads
                /\ Unseen(ask.user) \/ Is(ask.user, "viewer") \/ Is(ask.user, "provisioner")
        /\ answer = "403" => \E role \in Roles : Is(ask.user, role)
        /\ answer = "401" => ask.route = IngestChunks \/ \A role \in Roles : ~Is(ask.user, role)

(* Not met.  "GET /admin/backup | Admin", "GET /admin/retention | Admin"   *)
(* (docs/server/configuration.md:181-182): viewers and provisioners get    *)
(* them, for a read is not a write.                                        *)
AdminReadsAsTold ==
  ask # Nobody /\ ask.route \in AdminReads /\ ask.method = "GET" /\ answer = "served" =>
    Is(ask.user, "admin")

(* Not met.  "Read the evidence log (/evidence) only; no dashboard data"   *)
(* (docs/dashboard/sso.md:50): an auditor whose roles the userinfo does    *)
(* not carry reads as a viewer does.                                       *)
AuditorsReadTheLogOnly ==
  ask # Nobody /\ ask.method = "GET" /\ answer = "served" /\ Is(ask.user, "auditor") =>
    \/ OpenTo(ask.route, ask.method, ask.key)
    \/ ask.route \in EvidenceReads

(* Not met.  "Read + create/update devices and groups"                     *)
(* (docs/dashboard/sso.md:49): only admins write groups, as                *)
(* docs/server/configuration.md:132-135 has it.                            *)
ProvisionersWriteGroups ==
  ask # Nobody /\ ask.route \in GroupWrites /\ Is(ask.user, "provisioner")
    /\ ~Unseen(ask.user) => answer = "served"
=============================================================================
