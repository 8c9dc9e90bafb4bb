-------------------------- MODULE PackagePublication --------------------------
(***************************************************************************)
(* From a clean repository to a delivered package                          *)
(* (src/quality/native-snapshot.mjs, native-package.mjs,                   *)
(* native-package-publication.mjs, native-fs-bound.c, native-fs-tree.c).   *)
(*                                                                         *)
(* A package is built from a snapshot of the head, its entries are opened  *)
(* once, what the descriptors hold is validated, and the helper copies     *)
(* from the same descriptors into a staging directory, checks that nothing *)
(* moved, and exchanges the staging directory for the delivery.  Files of  *)
(* the package may be written, replaced, added and removed in between, the *)
(* repository may move, and the helper may be killed.                      *)
(*                                                                         *)
(* The metadata of an inode is a stamp: every write, and every rename or   *)
(* removal of its name, leaves another one (ctime).                        *)
(***************************************************************************)
EXTENDS Naturals, Sequences, FiniteSets, SequencesExt, Functions

CONSTANTS
  AppFiles,     \* the closed files of the application
  MaxMeddling   \* bound: what happens to the package and the repository

ASSUME PublicationAssumption ==
  /\ IsFiniteSet(AppFiles) /\ AppFiles \cap {".", "manifest"} = {}
  /\ MaxMeddling \in Nat

VARIABLES
  repo,        \* the repository: its head, and whether its status is empty
  captured,    \* the head the snapshot was taken of
  inodes,      \* the files of the package and what was written to them
  names,       \* the names in the package directory, and its stamp
  bound,       \* the descriptors that were opened, with their metadata
  content,     \* what was read from them
  dest,        \* the delivery, the staging directory and the retained delivery
  original,    \* history: the delivery there was
  phase,       \* what is done next
  place,       \* the entry it is done to
  meddled      \* how much of MaxMeddling is used

publicationVars ==
  <<repo, captured, inodes, names, bound, content, dest, original, phase, place, meddled>>

Manifest == "manifest"
Files == AppFiles \cup {Manifest}

(* The reviewed entries, the root first.                                   *)
Entries == <<".">> \o SetToSeq(Files)

Absent == [f \in {} |-> 0]
OldDelivery == [f \in Files |-> 0]

Extended(f, e, value) == [x \in {e} \cup DOMAIN f |-> IF x = e THEN value ELSE f[x]]

(* A manifest names the revision and the bytes of every file.              *)
ManifestOf(revision, bytes) == [revision |-> revision, inventory |-> [f \in AppFiles |-> bytes[f]]]

PublicationInit ==
  /\ repo = [head |-> 1, clean |-> TRUE]
  /\ captured = 0
  /\ inodes = << >> /\ names = [entry |-> << >>, stamp |-> 0]
  /\ bound = << >> /\ content = << >>
  /\ original \in {Absent, OldDelivery}
  /\ dest = [leaf |-> original, stage |-> Absent, kept |-> Absent]
  /\ phase = "capture" /\ place = 1
  /\ meddled = 0

-----------------------------------------------------------------------------
(* What happens meanwhile.                                                 *)

Meddle ==
  /\ meddled < MaxMeddling
  /\ meddled' = meddled + 1
  /\ UNCHANGED <<captured, bound, content, dest, original, phase, place>>

MoveRepository ==
  /\ Meddle
  /\ phase \in {"capture", "build", "assert"}
  /\ \/ repo' = [repo EXCEPT !.head = @ + 1]
     \/ repo' = [repo EXCEPT !.clean = ~@]
  /\ UNCHANGED <<inodes, names>>

Building == phase \in {"capture", "build"}
Finished == phase \in {"done", "failed", "stranded", "dead", "halfway"}

Bytes(ino) == inodes[ino].bytes

(* Other bytes; a manifest is rewritten to name the files that are there.  *)
Written(f) ==
  IF f = Manifest
  THEN ManifestOf(captured, [g \in AppFiles |-> IF g \in DOMAIN names.entry THEN Bytes(names.entry[g]) ELSE 0])
  ELSE meddled + 2

Touched(ino) == [inodes EXCEPT ![ino].stamp = @ + 1]

WriteFile ==
  /\ Meddle /\ ~Building /\ ~Finished
  /\ \E f \in DOMAIN names.entry \cap Files :
       inodes' = [Touched(names.entry[f]) EXCEPT ![names.entry[f]].bytes = Written(f)]
  /\ UNCHANGED <<repo, names>>

(* Another inode takes the name, of the closed type and mode or not.       *)
ReplaceFile ==
  /\ Meddle /\ ~Building /\ ~Finished
  /\ \E f \in DOMAIN names.entry \cap Files, closed \in BOOLEAN :
       /\ inodes' = Append(Touched(names.entry[f]),
                           [bytes |-> Written(f), stamp |-> 0, closed |-> closed])
       /\ names' = [entry |-> [names.entry EXCEPT ![f] = Len(inodes) + 1], stamp |-> names.stamp + 1]
  /\ UNCHANGED repo

AddFile ==
  /\ Meddle /\ ~Building /\ ~Finished
  /\ "extra" \notin DOMAIN names.entry
  /\ inodes' = Append(inodes, [bytes |-> 1, stamp |-> 0, closed |-> TRUE])
  /\ names' = [entry |-> Extended(names.entry, "extra", Len(inodes) + 1), stamp |-> names.stamp + 1]
  /\ UNCHANGED repo

RemoveFile ==
  /\ Meddle /\ ~Building /\ ~Finished
  /\ \E f \in DOMAIN names.entry :
       /\ inodes' = Touched(names.entry[f])
       /\ names' = [entry |-> Restrict(names.entry, DOMAIN names.entry \ {f}), stamp |-> names.stamp + 1]
  /\ UNCHANGED repo

-----------------------------------------------------------------------------
(* The publisher.                                                          *)

Quiet == UNCHANGED <<repo, inodes, names, original, meddled>>

Go(next) == phase' = next /\ place' = 1

(* One entry of a pass over all of them.                                   *)
Pass(this, next) ==
  /\ phase = this
  /\ IF place < Len(Entries) THEN phase' = this /\ place' = place + 1 ELSE Go(next)

Entry == Entries[place]

RepositoryMatches(head) == repo = [head |-> head, clean |-> TRUE]

CaptureRepository ==
  /\ phase = "capture"
  /\ RepositoryMatches(repo.head)
  /\ captured' = repo.head
  /\ Go("build")
  /\ UNCHANGED <<bound, content, dest>> /\ Quiet

PackageNative ==
  LET order == SetToSeq(AppFiles)
      bytes == [f \in AppFiles |-> 1] IN
  /\ phase = "build"
  /\ inodes' = [i \in DOMAIN order |-> [bytes |-> 1, stamp |-> 0, closed |-> TRUE]]
                 \o <<[bytes |-> ManifestOf(captured, bytes), stamp |-> 0, closed |-> TRUE]>>
  /\ names' = [entry |-> [f \in Files |-> IF f = Manifest THEN Len(order) + 1
                                          ELSE CHOOSE i \in DOMAIN order : order[i] = f],
               stamp |-> 0]
  /\ Go("assert")
  /\ UNCHANGED <<repo, captured, bound, content, dest, original, meddled>>

AssertRepository ==
  /\ phase = "assert"
  /\ RepositoryMatches(captured)
  /\ Go("list")
  /\ UNCHANGED <<captured, bound, content, dest>> /\ Quiet

AssertInventory ==
  /\ phase = "list"
  /\ DOMAIN names.entry = Files
  /\ \A f \in Files : inodes[names.entry[f]].closed
  /\ Go("bind")
  /\ UNCHANGED <<captured, bound, content, dest>> /\ Quiet

Metadata(e) ==
  IF e = "." THEN [ino |-> 0, stamp |-> names.stamp]
  ELSE [ino |-> names.entry[e], stamp |-> inodes[names.entry[e]].stamp]

BindEntry ==
  /\ Pass("bind", "read")
  /\ Entry # "." => Entry \in DOMAIN names.entry /\ inodes[names.entry[Entry]].closed
  /\ bound' = Extended(bound, Entry, Metadata(Entry))
  /\ UNCHANGED <<captured, content, dest>> /\ Quiet

(* What fstat of a descriptor says.                                        *)
SameMetadata(e) ==
  bound[e].stamp = IF e = "." THEN names.stamp ELSE inodes[bound[e].ino].stamp

ReadBound ==
  /\ phase = "read"
  /\ Entry # "." /\ Entry \notin DOMAIN content
  /\ content' = Extended(content, Entry, Bytes(bound[Entry].ino))
  /\ UNCHANGED <<captured, bound, dest, phase, place>> /\ Quiet

CheckDrift ==
  /\ Pass("read", "validate")
  /\ Entry # "." => Entry \in DOMAIN content /\ SameMetadata(Entry)
  /\ UNCHANGED <<captured, bound, content, dest>> /\ Quiet

ValidatePackage ==
  /\ phase = "validate"
  /\ content[Manifest] = ManifestOf(captured, content)
  /\ Go("inventory")
  /\ UNCHANGED <<captured, bound, content, dest>> /\ Quiet

-----------------------------------------------------------------------------
(* The helper.                                                             *)

(* Not the code: the names are compared and nothing else.                  *)
MatchesNames(e) == e = "." => DOMAIN names.entry = Files

(* The entry is the one that was bound; the directory holds these only.    *)
MatchesRecord(e) ==
  /\ SameMetadata(e)
  /\ e = "." =>
       /\ DOMAIN names.entry = Files
       /\ \A f \in Files : names.entry[f] = bound[f].ino /\ SameMetadata(f)

ValidateInventory(this, next) ==
  /\ Pass(this, next)
  /\ MatchesRecord(Entry)
  /\ UNCHANGED <<captured, bound, content, dest>> /\ Quiet

CopyFile ==
  /\ Pass("copy", "recheck")
  /\ dest' = IF Entry = "." THEN dest
             ELSE [dest EXCEPT !.stage = Extended(@, Entry, Bytes(bound[Entry].ino))]
  /\ UNCHANGED <<captured, bound, content>> /\ Quiet

(* The staging directory takes the place of the delivery: by an exchange,  *)
(* or by its name when there is none.                                      *)
PublishStaged ==
  /\ phase = "swap"
  /\ dest' = [dest EXCEPT !.leaf = dest.stage, !.stage = dest.leaf]
  /\ Go(IF dest.leaf = Absent THEN "confirm" ELSE "retain")
  /\ UNCHANGED <<captured, bound, content>> /\ Quiet

Retain ==
  /\ phase = "retain"
  /\ \/ dest' = [dest EXCEPT !.kept = dest.stage, !.stage = Absent] /\ Go("confirm")
     \/ Go("rollback") /\ UNCHANGED dest
  /\ UNCHANGED <<captured, bound, content>> /\ Quiet

(* The parent directory is read and synchronised again.                    *)
Confirm ==
  /\ phase = "confirm"
  /\ Go("clean") \/ Go("rollback")
  /\ UNCHANGED <<captured, bound, content, dest>> /\ Quiet

(* The retained delivery is removed; what cannot be removed stays.         *)
CleanUp ==
  /\ phase = "clean"
  /\ \E kept \in {Absent, dest.kept} : dest' = [dest EXCEPT !.kept = kept]
  /\ Go("verify")
  /\ UNCHANGED <<captured, bound, content>> /\ Quiet

(* The directories on the way to the delivery are the ones opened first.   *)
CloseChain ==
  /\ phase = "verify"
  /\ Go("done")
  /\ UNCHANGED <<captured, bound, content, dest>> /\ Quiet

(* The parent cannot be read after the exchange, or a directory on the way *)
(* has changed: the attempt is refused and nothing is put back.            *)
RefuseExchanged ==
  /\ phase \in {"confirm", "verify"}
  /\ Go("stranded")
  /\ UNCHANGED <<captured, bound, content, dest>> /\ Quiet

RollBack ==
  /\ phase = "rollback"
  /\ IF dest.leaf # Absent
     THEN /\ \E f \in DOMAIN dest.leaf : dest' = [dest EXCEPT !.leaf = Restrict(@, DOMAIN @ \ {f})]
          /\ UNCHANGED <<phase, place>>
     ELSE /\ dest' = [leaf |-> IF dest.kept # Absent THEN dest.kept ELSE dest.stage,
                      stage |-> Absent, kept |-> Absent]
          /\ Go("failed")
  /\ UNCHANGED <<captured, bound, content>> /\ Quiet

(* A check that fails, or a call that does, ends the attempt; before the   *)
(* exchange an orderly exit removes the staging directory.                 *)
Refuse ==
  /\ phase \in {"capture", "build", "assert", "list", "bind", "read", "validate", "inventory", "copy",
                "recheck", "swap"}
  /\ dest' = [dest EXCEPT !.stage = Absent]
  /\ Go("failed")
  /\ UNCHANGED <<captured, bound, content>> /\ Quiet

(* The helper is killed, or a rollback cannot remove or rename.            *)
Kill ==
  /\ phase \in {"inventory", "copy", "recheck", "swap", "retain", "confirm", "clean", "verify",
               "rollback"}
  /\ Go(IF phase = "rollback" THEN "halfway" ELSE "dead")
  /\ UNCHANGED <<captured, bound, content, dest>> /\ Quiet

PublicationNext ==
  \/ MoveRepository \/ WriteFile \/ ReplaceFile \/ AddFile \/ RemoveFile
  \/ CaptureRepository \/ PackageNative \/ AssertRepository
  \/ AssertInventory \/ BindEntry \/ ReadBound \/ CheckDrift \/ ValidatePackage
  \/ ValidateInventory("inventory", "copy") \/ CopyFile \/ ValidateInventory("recheck", "swap")
  \/ PublishStaged \/ Retain \/ Confirm \/ CleanUp \/ CloseChain \/ RollBack
  \/ Refuse \/ RefuseExchanged \/ Kill

PublicationSpec == PublicationInit /\ [][PublicationNext]_publicationVars

-----------------------------------------------------------------------------
(* Whatever is written to the package while it is published, and wherever  *)
(* the helper is killed or fails, the delivery is the one there was or,    *)
(* file by file, the package that was validated: the bytes its manifest    *)
(* names, of the captured head.  A refusal before the exchange, or one     *)
(* that rolled the exchange back, leaves the former; a success, and a      *)
(* refusal that puts nothing back, leaves the latter.  Only a rollback     *)
(* passes through less, and stays there when it is killed; the former      *)
(* delivery is then whole beside it (publishValidatedPackage,              *)
(* run_publish_bound).                                                     *)
DeliveryIsWhole ==
  /\ phase \notin {"rollback", "halfway"} =>
       \/ dest.leaf = original
       \/ dest.leaf = content /\ content[Manifest] = ManifestOf(captured, dest.leaf)
  /\ phase \in {"rollback", "halfway"} => original \in {dest.stage, dest.kept}
  /\ phase = "failed" => dest.leaf = original
  /\ phase \in {"stranded", "done"} => dest.leaf = content
=============================================================================
