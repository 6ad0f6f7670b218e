-------------------------------- MODULE Fleet --------------------------------
(***************************************************************************)
(* The server's tables of devices, fault events and crash groups           *)
(* (ferrite-server/src/store.rs), as one record, and the statements that   *)
(* ingest, the registration handlers and the background tasks run on it.   *)
(*                                                                         *)
(* Times are kept as ages: how many ticks ago a row was last seen or       *)
(* inserted, up to one tick beyond the longest time any statement tells    *)
(* apart.                                                                  *)
(***************************************************************************)
EXTENDS Naturals, FiniteSets

CONSTANTS
  Ids,            \* device_id: what devices call themselves, and the ids
                  \* the server forms of registered keys
  KeyRow,         \* device -> the id of its key's row, or None: unprovisioned
  Signatures,     \* (fault type, program counter)
  OfflineAfter,   \* alert_offline_minutes, in ticks
  RetainFor,      \* retention_days, in ticks
  MaxFaults,      \* bound: faults ever reported
  None

ASSUME FleetAssumption ==
  /\ KeyRow \in [Ids -> Ids \cup {None}]
  /\ IsFiniteSet(Ids)
  /\ OfflineAfter \in Nat /\ RetainFor \in Nat /\ MaxFaults \in Nat
  /\ None \notin Ids \cup Signatures

Status == {"unknown", "provisioned", "online", "offline"}
Faults == 1 .. MaxFaults

Device == [status : Status, seen : 0 .. OfflineAfter + 1, keyed : BOOLEAN]
Fault  == [of : Ids, sig : Signatures \cup {None}, age : 0 .. RetainFor + 1]
Group  == [count : 0 .. MaxFaults, devices : 0 .. Cardinality(Ids)]

(* devices and faults hold the rows there are; groups[s].count is 0 while  *)
(* crash_groups has no row for s.  Every fault has its device.             *)
IsDatabase(db) ==
  /\ DOMAIN db = {"devices", "faults", "groups"}
  /\ DOMAIN db.devices \subseteq Ids
  /\ \A i \in DOMAIN db.devices : db.devices[i] \in Device
  /\ DOMAIN db.faults \subseteq Faults
  /\ \A f \in DOMAIN db.faults : /\ db.faults[f] \in Fault
                                 /\ db.faults[f].of \in DOMAIN db.devices
  /\ db.groups \in [Signatures -> Group]

Empty == [devices |-> [i \in {} |-> None], faults |-> [f \in {} |-> None],
          groups |-> [s \in Signatures |-> [count |-> 0, devices |-> 0]]]

-----------------------------------------------------------------------------
(* Statements on the devices table *)

Put(db, i, row) ==
  [db EXCEPT !.devices = [j \in DOMAIN @ \cup {i} |->
                            IF j = i THEN row ELSE @[j]]]

(* upsert_device and touch_device: a report makes the row, or is seen. *)
Touch(db, i) ==
  Put(db, i, IF i \in DOMAIN db.devices
               THEN [db.devices[i] EXCEPT !.seen = 0]
               ELSE [status |-> "unknown", seen |-> 0, keyed |-> FALSE])

(* register_device, of every device of S: a row is made or reset. *)
Register(db, S) ==
  [db EXCEPT !.devices = [j \in DOMAIN @ \cup S |->
     IF j \in S THEN [status |-> "provisioned", seen |-> 0, keyed |-> TRUE]
                ELSE @[j]]]

(* update_device: the row is found by its key. *)
Keyed(db, i) == i \in DOMAIN db.devices /\ db.devices[i].keyed

Update(db, i) == [db EXCEPT !.devices[i].seen = 0]

(* Mutation of SetStatus: found by its key, as update_device finds it. *)
SetStatusKeyed(db, S, status) ==
  [db EXCEPT !.devices = [j \in DOMAIN @ |->
     IF j \in S /\ @[j].keyed THEN [@[j] EXCEPT !.status = status] ELSE @[j]]]

(* update_device_status *)
SetStatus(db, S, status) ==
  [db EXCEPT !.devices = [j \in DOMAIN @ |->
     IF j \in S THEN [@[j] EXCEPT !.status = status] ELSE @[j]]]

(* A heartbeat: touch_device_by_key for the key it carries, if that key is *)
(* registered, then update_device_status_by_id.                            *)
Beating(db, i) ==
  {i} \cup {k \in {KeyRow[i]} : k # None /\ Keyed(db, k)}

Heartbeat(db, i) ==
  LET S == Beating(db, i)
  IN  [db EXCEPT !.devices = [j \in DOMAIN @ |->
         IF j \in S THEN [@[j] EXCEPT !.status = "online", !.seen = 0]
                    ELSE @[j]]]

KeepFaults(db, F) == [db EXCEPT !.faults = [f \in F |-> @[f]]]

(* Faults go with their device (ON DELETE CASCADE), crash groups stay. *)
Delete(db, i) ==
  KeepFaults([db EXCEPT !.devices = [j \in DOMAIN @ \ {i} |-> @[j]]],
             {f \in DOMAIN db.faults : db.faults[f].of # i})

(* Mutation of Stale: whoever was not seen, whatever its status. *)
StaleAny(db) ==
  {i \in DOMAIN db.devices : db.devices[i].seen > OfflineAfter}

(* check_offline_devices: online, and not seen since the cutoff. *)
Stale(db) ==
  {i \in DOMAIN db.devices : /\ db.devices[i].status = "online"
                             /\ db.devices[i].seen > OfflineAfter}

-----------------------------------------------------------------------------
(* Statements on faults and crash groups *)

FaultsOf(db, s) == {f \in DOMAIN db.faults : db.faults[f].sig = s}

(* COUNT(DISTINCT device_rowid) *)
Affected(db, s) == Cardinality({db.faults[f].of : f \in FaultsOf(db, s)})

(* Mutation of Group1: ON CONFLICT DO NOTHING. *)
Group1Once(db, s) ==
  [db EXCEPT !.groups[s] = IF @.count = 0 THEN [count |-> 1, devices |-> 1]
                                          ELSE @]

(* find_or_create_crash_group: a new group starts at one occurrence of one *)
(* device.                                                                 *)
Group1(db, s) ==
  [db EXCEPT !.groups[s] =
     [count   |-> @.count + 1,
      devices |-> IF @.count = 0 THEN 1 ELSE @.devices]]

InsertFault(db, f, i, s) ==
  [db EXCEPT !.faults = [g \in DOMAIN @ \cup {f} |->
     IF g = f THEN [of |-> i, sig |-> s, age |-> 0] ELSE @[g]]]

CountDevices(db, s) == [db EXCEPT !.groups[s].devices = Affected(db, s)]

(* A fault as it is stored: group, fault, number of devices.  Any of the   *)
(* three may fail; the others are tried all the same, except that the      *)
(* devices are counted only for a fault that was inserted into a group.    *)
Stored(db, f, i, s, grouped, inserted, counted) ==
  LET d1 == IF grouped THEN Group1(db, s) ELSE db
      d2 == IF inserted THEN InsertFault(d1, f, i, IF grouped THEN s ELSE None)
                        ELSE d1
  IN  IF grouped /\ inserted /\ counted THEN CountDevices(d2, s) ELSE d2

(* purge_old_faults: crash_groups is left as it is. *)
Expired(db) == {f \in DOMAIN db.faults : db.faults[f].age > RetainFor}
Purge(db)   == KeepFaults(db, DOMAIN db.faults \ Expired(db))

-----------------------------------------------------------------------------
(* Time passes *)

Older(age, limit) == IF age > limit THEN age ELSE age + 1

OlderDevice(row) == [row EXCEPT !.seen = Older(@, OfflineAfter)]
OlderFault(row)  == [row EXCEPT !.age = Older(@, RetainFor)]

Age(db) ==
  [db EXCEPT !.devices = [i \in DOMAIN @ |-> OlderDevice(@[i])],
             !.faults  = [f \in DOMAIN @ |-> OlderFault(@[f])]]
=============================================================================
