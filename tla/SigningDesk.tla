---------------------------- MODULE SigningDesk ----------------------------
(***************************************************************************)
(* Signing and uploading a build by hand: `ferrite ota keygen, sign,       *)
(* verify' and `upload' (ferrite-ctl/src/commands/ota.rs), and what the    *)
(* server's checks make of the upload (ferrite-server/src/ota.rs).         *)
(*                                                                         *)
(* The commands meet in four files, and each reads or writes them as they  *)
(* stand: the secret key, `<out>.pub', the image and `<image>.manifest'.   *)
(* Any of them may be older than the others, missing, or blank, which is   *)
(* what a command leaves that ends in the middle of a write.  An image is  *)
(* known by its number, and "fits", or is "empty" or "huge": more than the *)
(* server takes.  A version is "plain", or "odd": one that can be signed   *)
(* and is no safe file name.                                               *)
(***************************************************************************)
EXTENDS Naturals

CONSTANTS
  Pairs,      \* key pairs that keygen may come up with
  MaxBuilds,  \* bound: images built
  NoFile,
  Blank       \* what is in a file whose writing was cut off

Version == {"plain", "odd"}
Size == {"empty", "fits", "huge"}
Signed == [key : Pairs, image : 1 .. MaxBuilds, version : Version]

ASSUME DeskAssumption ==
  /\ MaxBuilds \in Nat
  /\ NoFile # Blank /\ {NoFile, Blank} \cap (Pairs \cup Signed) = {}

VARIABLES
  secret,    \* the secret file: a key pair, NoFile or Blank
  public,    \* `<out>.pub'
  pending,   \* the pair whose public half keygen has still to write
  made,      \* the pairs generated
  published, \* those whose public key was told
  built,     \* the image, 0 before the first
  size,      \* its size
  manifest,  \* its manifest
  anchors,   \* the server's OTA_TRUSTED_KEYS
  signings,  \* history: <<key, image>> when `sign' wrote a manifest
  checked,   \* history: the keys by which `verify' found these files good
  answer     \* the server's answer, if the last command was an upload

keyVars  == <<secret, public, pending, made, published>>
image    == <<built, size>>
deskVars == <<keyVars, image, manifest, anchors, signings, checked, answer>>

DeskTypeOK ==
  /\ secret \in Pairs \cup {NoFile, Blank}
  /\ public \in Pairs \cup {NoFile, Blank}
  /\ pending \in made \cup {NoFile}
  /\ made \subseteq Pairs /\ published \subseteq made
  /\ built \in 0 .. MaxBuilds /\ size \in Size
  /\ manifest \in Signed \cup {NoFile, Blank}
  /\ anchors \subseteq published /\ checked \subseteq published
  /\ signings \subseteq Pairs \X (1 .. MaxBuilds)
  /\ answer \in {"none", "taken", "refused", "failed"}

DeskInit ==
  /\ secret = NoFile /\ public = NoFile /\ pending = NoFile
  /\ made = {} /\ published = {}
  /\ built = 0 /\ size = "empty" /\ manifest = NoFile
  /\ anchors = {} /\ signings = {} /\ checked = {}
  /\ answer = "none"

-----------------------------------------------------------------------------
(* Keys.  write_new_file creates a file that must not exist: keygen never  *)
(* replaces a key, and one that is refused changes nothing.                *)

KeygenSecret ==
  /\ pending = NoFile /\ secret = NoFile
  /\ \E pair \in Pairs \ made :
       /\ made' = made \cup {pair}
       /\ \/ secret' = pair /\ pending' = pair
          \/ secret' = Blank /\ pending' = NoFile  \* cut off
  /\ answer' = "none"
  /\ UNCHANGED <<public, published, image, manifest, anchors, signings, checked>>

(* The public key is told, for OTA_TRUSTED_KEYS and for the firmware, once *)
(* its file is written.                                                    *)
KeygenPublic ==
  /\ pending # NoFile /\ public = NoFile
  /\ pending' = NoFile
  /\ \/ public' = pending /\ published' = published \cup {pending}
     \/ public' = Blank /\ UNCHANGED published    \* cut off
  /\ UNCHANGED <<secret, made, image, manifest, anchors, signings, checked,
                 answer>>

(* There is a public file already, or keygen ends here: the secret key is  *)
(* left, and what is beside it is not its public key.                      *)
KeygenStops ==
  /\ pending # NoFile
  /\ pending' = NoFile
  /\ UNCHANGED <<secret, public, made, published, image, manifest, anchors,
                 signings, checked, answer>>

(* The operator makes room for another pair. *)
RemoveKey ==
  /\ pending = NoFile
  /\ \/ secret # NoFile /\ secret' = NoFile /\ UNCHANGED public
     \/ public # NoFile /\ public' = NoFile /\ UNCHANGED secret
  /\ answer' = "none"
  /\ UNCHANGED <<pending, made, published, image, manifest, anchors, signings,
                 checked>>

-----------------------------------------------------------------------------
(* Another image of the same name; the manifest stays where it is. *)
Build ==
  /\ built < MaxBuilds
  /\ built' = built + 1 /\ size' \in Size
  /\ checked' = {} /\ answer' = "none"
  /\ UNCHANGED <<keyVars, manifest, anchors, signings>>

HasSeed == secret \in Pairs

(* sign_image: a manifest of the image as it is now. *)
SignedNow(version) == [key |-> secret, image |-> built, version |-> version]

(* `sign', of an image of any size: fs::write replaces the manifest there  *)
(* is, or ends halfway.                                                    *)
Sign(version) ==
  /\ HasSeed /\ built > 0
  /\ \/ /\ manifest' = SignedNow(version)
        /\ signings' = signings \cup {<<secret, built>>}
     \/ manifest' = Blank /\ UNCHANGED signings
  /\ checked' = {} /\ answer' = "none"
  /\ UNCHANGED <<keyVars, image, anchors>>

(* verify_image: the signature by this key, then the image's size and hash.*)
Matches(key) ==
  manifest \in Signed /\ manifest.key = key /\ manifest.image = built

(* A key that was told is given in hex; `<out>.pub' holds such a key too,  *)
(* or is not readable.                                                     *)
Given(key) == key \in published

(* `verify' *)
Verify(key) ==
  /\ Given(key)
  /\ checked' = IF Matches(key) THEN checked \cup {key} ELSE checked
  /\ answer' = "none"
  /\ UNCHANGED <<keyVars, image, manifest, anchors, signings>>

-----------------------------------------------------------------------------
(* The server is started with these keys; a blank one stops its start. *)
Configure(keys) ==
  /\ keys \subseteq published /\ keys # anchors
  /\ anchors' = keys
  /\ answer' = "none"
  /\ UNCHANGED <<keyVars, image, manifest, signings, checked>>

(* upload_firmware's checks: first of the image's size.  The router reads  *)
(* 2 MB of a body where it sets no other limit, and sets none here, so     *)
(* that more is refused before the handler would refuse more than 20 MB.   *)
TakesSize == size = "fits"

(* Then without the X-Firmware-Manifest header and with it.  Without keys  *)
(* the server takes a manifest unverified, and compares it with the image  *)
(* all the same.                                                           *)
TakesUnsigned == anchors = {}

(* Mutation of TakesSigned: without keys, a manifest is stored as it comes.*)
TakesAnySigned == anchors = {} \/ \E key \in anchors : Matches(key)

TakesSigned ==
  \/ anchors = {} /\ manifest.image = built
  \/ \E key \in anchors : Matches(key)

Storable(version) == version = "plain"

Accepts(version) ==
  /\ TakesSize
  /\ IF manifest = NoFile THEN TakesUnsigned /\ Storable(version)
                         ELSE TakesSigned /\ Storable(manifest.version)

(* `upload' takes the manifest beside the image if there is one, and sends *)
(* nothing if that is no manifest.  The version is the manifest's, or else *)
(* the one of the command line.  What passes the checks may still fail: a  *)
(* file or a row cannot be written, or no answer arrives.                  *)
Sent == built > 0 /\ manifest # Blank
PostImage(version) ==
  /\ Sent
  /\ IF Accepts(version) THEN answer' \in {"taken", "failed"}
                         ELSE answer' = "refused"
  /\ UNCHANGED <<keyVars, image, manifest, anchors, signings, checked>>

DeskNext ==
  \/ KeygenSecret \/ KeygenPublic \/ KeygenStops \/ RemoveKey
  \/ Build
  \/ \E version \in Version : Sign(version) \/ PostImage(version)
  \/ \E key \in Pairs : Verify(key)
  \/ \E keys \in SUBSET Pairs : Configure(keys)

DeskSpec == DeskInit /\ [][DeskNext]_deskVars

-----------------------------------------------------------------------------
(* What `verify' has found good by a key that the server trusts, the       *)
(* server does not refuse, whatever was built, signed or configured before *)
(* or in between, unless the image is empty or larger than it takes, or    *)
(* the version is one it cannot store.                                     *)
VerifiedIsTaken ==
  answer = "refused" /\ checked \cap anchors # {} =>
    size # "fits" \/ manifest.version = "odd"

(* A server with keys takes an image only if somebody has signed this very *)
(* image with one of them, and one without keys takes a manifest only of   *)
(* this image, whatever was signed, built, cut off, removed or configured  *)
(* before: neither a manifest that is left of another build, nor one by a  *)
(* key the server has not been told of.                                    *)
SignedIsTaken ==
  answer = "taken" =>
    \/ manifest = NoFile /\ anchors = {}
    \/ \E key \in Pairs :
         /\ <<key, built>> \in signings
         /\ anchors # {} => key \in anchors

DeskTold == VerifiedIsTaken /\ SignedIsTaken

(* Not met.  `sign' and `verify' are content with a version such as "1 0", *)
(* which the server refuses to store (is_safe_version), and with an image  *)
(* of any size, of which it takes some.                                    *)
VerifiedIsTakenAlways == answer = "refused" => checked \cap anchors = {}

(* Not met.  The public file is the secret key's: keygen leaves a secret   *)
(* key beside the public key of another pair (KeygenStops).                *)
PairsMatch == {secret, public} \subseteq Pairs => secret = public \/ pending # NoFile
=============================================================================
