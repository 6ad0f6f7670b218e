------------------------------ MODULE Provision ------------------------------
(***************************************************************************)
(* Giving boards their device keys: the tool ferrite-provision (main.rs,   *)
(* client.rs, uart.rs, export.rs), and the key a board keeps in retained   *)
(* RAM (ferrite-sdk/src/device_key.rs).                                    *)
(*                                                                         *)
(* A run of the tool makes a board build its key, registers the key with   *)
(* the server and appends it to a CSV file, in that order, and may stop    *)
(* between any two steps; runs at several benches share the file.  What is *)
(* in the file is registered later, in bulk.  The firmware that answers    *)
(* the tool is not in the repository: it calls device_key.rs.              *)
(***************************************************************************)
EXTENDS Naturals, Sequences, SequencesExt

CONSTANTS
  Boards,
  Benches,     \* runs of the tool at once
  Owners,      \* owner prefixes: the first byte of a user's hash
  Span,        \* values of the 24 bits that are left of an entropy seed
  MaxSeconds,  \* bound on the clock the seed is taken from
  MaxLines,    \* bound on the file
  MaxMishaps,  \* bound on lost answers, crashes and power losses
  Header,      \* device_key,name,tags
  Nothing

ASSUME ProvisionAssumption ==
  /\ Owners \subseteq Nat /\ Span \in Nat \ {0}
  /\ MaxSeconds \in Nat /\ MaxLines \in Nat /\ MaxMishaps \in Nat
  /\ Header \notin Owners \X Nat
  /\ Nothing # Header /\ Nothing \notin Seq((Owners \X Nat) \cup {Header})

Key == Owners \X (0 .. Span - 1)

VARIABLES
  second,      \* the workstation's clock
  retained,    \* board -> the key in its retained RAM, or Nothing
  bench,       \* what each run of the tool is doing
  file,        \* the lines of the CSV file, or Nothing
  registered,  \* keys in the server's devices
  mishaps,
  exported,    \* history: keys whose line a run wrote
  torn         \* history: a run found the file created and still empty

provisionVars == <<second, retained, bench, file, registered, mishaps, exported, torn>>

Rest == [stage |-> "rest", board |-> Nothing, key |-> Nothing, new |-> FALSE]

Bench == [stage : {"rest", "open", "keyed", "listed", "looked", "opened"},
          board : Boards \cup {Nothing}, key : Key \cup {Nothing}, new : BOOLEAN]

ProvisionTypeOK ==
  /\ second \in 0 .. MaxSeconds
  /\ retained \in [Boards -> Key \cup {Nothing}]
  /\ bench \in [Benches -> Bench]
  /\ file \in Seq(Key \cup {Header}) \cup {Nothing}
  /\ registered \subseteq Key
  /\ mishaps \in 0 .. MaxMishaps
  /\ exported \subseteq Key
  /\ torn \in BOOLEAN

ProvisionInit ==
  /\ second = 0
  /\ retained = [b \in Boards |-> Nothing]
  /\ bench = [t \in Benches |-> Rest]
  /\ file = Nothing
  /\ registered = {}
  /\ mishaps = 0
  /\ exported = {}
  /\ torn = FALSE

At(t, stage) == bench[t].stage = stage

Moves(t, stage) == bench' = [bench EXCEPT ![t].stage = stage]

Stops(t) == bench' = [bench EXCEPT ![t] = Rest]

-----------------------------------------------------------------------------
(* The board *)

(* A key that is there stays, whatever it is asked for. *)
KeyFor(b, owner, seed) ==
  IF retained[b] # Nothing THEN retained[b] ELSE <<owner, seed % Span>>

(* clear-key *)
Clear(b) ==
  /\ \A t \in Benches : bench[t].board # b
  /\ retained' = [retained EXCEPT ![b] = Nothing]
  /\ UNCHANGED <<second, bench, file, registered, mishaps, exported, torn>>

PowerLoss(b) ==
  /\ mishaps < MaxMishaps
  /\ mishaps' = mishaps + 1
  /\ retained' = [retained EXCEPT ![b] = Nothing]
  /\ UNCHANGED <<second, bench, file, registered, exported, torn>>

NextSecond ==
  /\ second < MaxSeconds
  /\ second' = second + 1
  /\ UNCHANGED <<retained, bench, file, registered, mishaps, exported, torn>>

-----------------------------------------------------------------------------
(* ferrite-provision provision *)

(* The board answers the ping on a port that no other run has open. *)
OpenPort(t, b) ==
  /\ At(t, "rest") /\ \A o \in Benches : bench[o].board # b
  /\ bench' = [bench EXCEPT ![t].stage = "open", ![t].board = b]
  /\ UNCHANGED <<second, retained, file, registered, mishaps, exported, torn>>

(* The board builds the key or repeats it. *)
Provide(t, owner) ==
  LET b == bench[t].board
      k == KeyFor(b, owner, second)
  IN  /\ At(t, "open")
      /\ retained' = [retained EXCEPT ![b] = k]
      /\ bench' = [bench EXCEPT ![t].stage = "keyed", ![t].key = k]
      /\ UNCHANGED <<second, file, registered, mishaps, exported, torn>>

(* It does, and its answer does not come in three seconds. *)
Unanswered(t, owner) ==
  LET b == bench[t].board IN
  /\ At(t, "open") /\ mishaps < MaxMishaps
  /\ mishaps' = mishaps + 1
  /\ retained' = [retained EXCEPT ![b] = KeyFor(b, owner, second)]
  /\ Stops(t)
  /\ UNCHANGED <<second, file, registered, exported, torn>>

(* With --server; an error in the answer is only printed. *)
RegisterKey(t) ==
  /\ At(t, "keyed")
  /\ registered' = registered \cup {bench[t].key}
  /\ Moves(t, "listed")
  /\ UNCHANGED <<second, retained, file, mishaps, exported, torn>>

Unregistered(t) ==
  /\ At(t, "keyed")
  /\ Moves(t, "listed")
  /\ UNCHANGED <<second, retained, file, registered, mishaps, exported, torn>>

(* Without --output. *)
Leave(t) ==
  /\ At(t, "listed")
  /\ Stops(t)
  /\ UNCHANGED <<second, retained, file, registered, mishaps, exported, torn>>

(* append_csv: whether the file is there decides on the header. *)
LookForFile(t) ==
  /\ At(t, "listed")
  /\ bench' = [bench EXCEPT ![t].stage = "looked", ![t].new = (file = Nothing)]
  /\ torn' = (torn \/ file = <<>>)
  /\ UNCHANGED <<second, retained, file, registered, mishaps, exported>>

(* Mutation of OpenFile: the file is looked for once it is open. *)
OpenFileFirst(t) ==
  /\ At(t, "looked")
  /\ file' = IF file = Nothing THEN <<>> ELSE file
  /\ bench' = [bench EXCEPT ![t].stage = "opened", ![t].new = FALSE]
  /\ UNCHANGED <<second, retained, registered, mishaps, exported, torn>>

OpenFile(t) ==
  /\ At(t, "looked")
  /\ file' = IF file = Nothing THEN <<>> ELSE file
  /\ Moves(t, "opened")
  /\ UNCHANGED <<second, retained, registered, mishaps, exported, torn>>

(* Both lines leave the writer's buffer in one write. *)
WriteLines(t) ==
  LET lines == (IF bench[t].new THEN <<Header>> ELSE <<>>) \o <<bench[t].key>> IN
  /\ At(t, "opened") /\ Len(file) + Len(lines) <= MaxLines
  /\ file' = file \o lines
  /\ exported' = exported \cup {bench[t].key}
  /\ Stops(t)
  /\ UNCHANGED <<second, retained, registered, mishaps, torn>>

(* A run stops: the port, the server or the disk fails, or it is killed.   *)
(* The server may have registered the key all the same.                    *)
Stop(t) ==
  /\ ~At(t, "rest") /\ mishaps < MaxMishaps
  /\ mishaps' = mishaps + 1
  /\ registered' \in {registered} \cup
       (IF At(t, "keyed") THEN {registered \cup {bench[t].key}} ELSE {})
  /\ Stops(t)
  /\ UNCHANGED <<second, retained, file, exported, torn>>

-----------------------------------------------------------------------------
(* ferrite-provision import: the first line is taken for the header; a     *)
(* later line that is no key is an error, and the others are registered.   *)
Imported == IF file = Nothing THEN {} ELSE ToSet(SubSeq(file, 2, Len(file))) \ {Header}

Import ==
  /\ file # Nothing
  /\ registered' = registered \cup Imported
  /\ UNCHANGED <<second, retained, bench, file, mishaps, exported, torn>>

Run(t) ==
  \/ \E b \in Boards : OpenPort(t, b)
  \/ \E o \in Owners : Provide(t, o) \/ Unanswered(t, o)
  \/ RegisterKey(t) \/ Unregistered(t) \/ Leave(t)
  \/ LookForFile(t) \/ OpenFile(t) \/ WriteLines(t) \/ Stop(t)

ProvisionNext ==
  \/ \E b \in Boards : Clear(b) \/ PowerLoss(b)
  \/ NextSecond
  \/ \E t \in Benches : Run(t)
  \/ Import

ProvisionSpec == ProvisionInit /\ [][ProvisionNext]_provisionVars

-----------------------------------------------------------------------------
(* A key that a run says it appended is registered by the next import,     *)
(* whichever runs shared the file or stopped, unless one found the file    *)
(* another had created and not written to; then one key at most is missed, *)
(* that of the line that is taken for the header (export.rs:12, 40).       *)
ExportsAreImported ==
  /\ torn \/ exported \subseteq Imported
  /\ \A k, l \in exported \ Imported : k = l

(* Not met: "each device is assigned a unique device key"                  *)
(* (docs/DEVICE_REGISTRATION_SPEC.md:5); boards that one owner provisions  *)
(* in one second, or 2^24 seconds apart, get the same key.                 *)
UniqueKeys ==
  \A b, c \in Boards : b # c /\ retained[b] # Nothing => retained[b] # retained[c]
=============================================================================
