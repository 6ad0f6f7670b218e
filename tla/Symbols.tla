------------------------------- MODULE Symbols -------------------------------
(***************************************************************************)
(* Which ELF file the server reads a fault's program counter with          *)
(* (ferrite-server/src/symbolicate.rs; ingest_elf and the faults of        *)
(* process_device_chunks in ingest.rs).                                    *)
(*                                                                         *)
(* A file is the set of the builds its bytes may come from: one that is    *)
(* being written over is as good as the new one or unreadable, and two     *)
(* uploads of one version at once leave a file that may be either.  What   *)
(* addr2line makes of a file is a symbol of such a build, or nothing,      *)
(* which also stands for its ten seconds being over.                       *)
(***************************************************************************)
EXTENDS Naturals, FiniteSets

CONSTANTS
  Versions,     \* firmware versions that pass is_safe_version, "unknown" too
  Posters,      \* clients that upload ELF files
  MaxBuilds,    \* bound on the uploads
  MaxReboots,   \* bound on restarts of the server
  NoElf         \* no version, file or symbol

ASSUME SymbolsAssumption ==
  /\ MaxBuilds \in Nat /\ MaxReboots \in Nat
  /\ NoElf \notin Versions /\ NoElf \notin Nat

VARIABLES
  elfs,     \* elf_dir: the file of each version
  symbols,  \* the Symbolicator: the versions in elfs_by_version, current_elf
  posts,    \* what each client's upload is doing
  lookup,   \* the fault that is being read, which has the Symbolicator's lock
  builds,   \* the version each upload so far was for
  stale,    \* history: for each upload, those its file was written over
  answered, \* history: the upload the running server answered last
  shown,    \* the symbol stored last, and what the fault was of
  reboots

symbolVars == <<elfs, symbols, posts, lookup, builds, stale, answered, shown, reboots>>

Builds == 1 .. MaxBuilds
NoLookup == [of |-> NoElf, elf |-> NoElf, due |-> NoElf, known |-> FALSE]

SymbolsTypeOK ==
  /\ elfs \in [Versions -> SUBSET Builds]
  /\ symbols \in [known : SUBSET Versions, current : Versions \cup {NoElf}]
  /\ posts \in [Posters -> [stage : {"idle", "write", "left", "lock"}, build : Builds \cup {NoElf}]]
  /\ lookup \in [of : Versions \cup {NoElf}, elf : Versions \cup {NoElf},
                 due : Builds \cup {NoElf}, known : BOOLEAN]
  /\ answered \in Builds \cup {NoElf}
  /\ reboots \in 0 .. MaxReboots

NoPost == [stage |-> "idle", build |-> NoElf]

SymbolsInit ==
  /\ elfs = [v \in Versions |-> {}]
  /\ symbols = [known |-> {}, current |-> NoElf]
  /\ posts = [p \in Posters |-> NoPost]
  /\ lookup = NoLookup
  /\ builds = <<>> /\ stale = <<>>
  /\ answered = NoElf
  /\ shown = [symbol |-> NoElf, of |-> NoElf, due |-> NoElf, known |-> FALSE]
  /\ reboots = 0

-----------------------------------------------------------------------------
(* ingest_elf *)

Extended(f, x) == [i \in 1 .. Cardinality(DOMAIN f) + 1 |-> IF i \in DOMAIN f THEN f[i] ELSE x]

(* The uploads of a version that are being written, also for nobody.       *)
Writing(v) ==
  {b \in {posts[p].build : p \in {q \in Posters : posts[q].stage \in {"write", "left"}}} :
     builds[b] = v}

(* The file is cut to nothing and written, with no lock.                   *)
PostElf(p, v) ==
  /\ posts[p].stage = "idle" /\ Cardinality(DOMAIN builds) < MaxBuilds
  /\ builds' = Extended(builds, v)
  /\ LET b == Cardinality(DOMAIN builds) + 1
     IN  /\ posts' = [posts EXCEPT ![p] = [stage |-> "write", build |-> b]]
         /\ elfs' = [elfs EXCEPT ![v] = {b} \cup Writing(v)]
         /\ stale' = Extended(stale, elfs[v] \ Writing(v))
  /\ UNCHANGED <<symbols, lookup, answered, shown, reboots>>

ElfWritten(p) ==
  /\ posts[p].stage = "write"
  /\ posts' = [posts EXCEPT ![p].stage = "lock"]
  /\ UNCHANGED <<elfs, symbols, lookup, builds, stale, answered, shown, reboots>>

(* Mutation of Registered: an ELF that is registered becomes the current   *)
(* one only if there is none.                                              *)
RegisteredFirst(v) ==
  [known |-> symbols.known \cup {v},
   current |-> IF symbols.current = NoElf THEN v ELSE symbols.current]

(* register_elf *)
Registered(v) == [known |-> symbols.known \cup {v}, current |-> v]

RegisterElf(p) ==
  /\ posts[p].stage = "lock" /\ lookup = NoLookup
  /\ symbols' = Registered(builds[posts[p].build])
  /\ answered' = posts[p].build
  /\ posts' = [posts EXCEPT ![p] = NoPost]
  /\ UNCHANGED <<elfs, lookup, builds, stale, shown, reboots>>

(* The client is gone: a write that has begun goes on in its own thread.   *)
LeavePost(p) ==
  /\ posts[p].stage = "write"
  /\ posts' = [posts EXCEPT ![p].stage = "left"]
  /\ UNCHANGED <<elfs, symbols, lookup, builds, stale, answered, shown, reboots>>

(* The write fails, or nobody waits for it, or for the lock, any more.     *)
EndPost(p) ==
  /\ posts[p].stage # "idle"
  /\ posts' = [posts EXCEPT ![p] = NoPost]
  /\ UNCHANGED <<elfs, symbols, lookup, builds, stale, answered, shown, reboots>>

-----------------------------------------------------------------------------
(* A fault of a device whose row has a version arrives. *)

(* elf_for_version *)
ElfForVersion(v) == IF v \in symbols.known THEN v ELSE symbols.current

(* symbolize asks for no version.                                          *)
LookUpFault(v) ==
  /\ lookup = NoLookup
  /\ lookup' = [of |-> v, elf |-> ElfForVersion(NoElf), due |-> answered,
                known |-> v \in symbols.known]
  /\ UNCHANGED <<elfs, symbols, posts, builds, stale, answered, shown, reboots>>

(* addr2line has run, and what it said is stored with the fault.           *)
SymbolStored ==
  /\ lookup # NoLookup
  /\ \E symbol \in {NoElf} \cup (IF lookup.elf = NoElf THEN {} ELSE elfs[lookup.elf]) :
       shown' = [symbol |-> symbol, of |-> lookup.of, due |-> lookup.due,
                 known |-> lookup.known]
  /\ lookup' = NoLookup
  /\ UNCHANGED <<elfs, symbols, posts, builds, stale, answered, reboots>>

-----------------------------------------------------------------------------
(* Symbolicator::new: every file is found, in the order of the directory.  *)
Reboot ==
  /\ reboots < MaxReboots
  /\ reboots' = reboots + 1
  /\ LET found == {v \in Versions : elfs[v] # {}}
     IN  \E last \in IF found = {} THEN {NoElf} ELSE found :
           symbols' = [known |-> found, current |-> last]
  /\ posts' = [p \in Posters |-> NoPost]
  /\ lookup' = NoLookup
  /\ answered' = NoElf
  /\ UNCHANGED <<elfs, builds, stale, shown>>

SymbolsNext ==
  \/ \E p \in Posters : \/ \E v \in Versions : PostElf(p, v)
                        \/ ElfWritten(p) \/ RegisterElf(p) \/ LeavePost(p) \/ EndPost(p)
  \/ \E v \in Versions : LookUpFault(v)
  \/ SymbolStored \/ Reboot

SymbolsSpec == SymbolsInit /\ [][SymbolsNext]_symbolVars

-----------------------------------------------------------------------------
(* A fault of the version that was uploaded last, or of one that has no    *)
(* file, is read with the file of the upload answered last, also while     *)
(* others are written and their clients leave: never with one that it      *)
(* replaced (docs/server/symbolication.md:8, and 55: "If no ELF file       *)
(* matches the device's firmware version, the server falls back to the     *)
(* most recently uploaded ELF").  Of the other faults it says nothing:     *)
(* MatchingIsRead.                                                         *)
AnsweredIsRead ==
  /\ shown.symbol # NoElf /\ shown.due # NoElf
  /\ shown.known => builds[shown.due] = shown.of
  => /\ builds[shown.symbol] = builds[shown.due]
     /\ shown.symbol \notin stale[shown.due]

(* Not met: addr2line runs "against the matching ELF file"                 *)
(* (docs/server/symbolication.md:8), where the version of the device has one.          *)
MatchingIsRead ==
  shown.symbol # NoElf /\ shown.known => builds[shown.symbol] = shown.of
=============================================================================
