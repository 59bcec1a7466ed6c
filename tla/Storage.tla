------------------------------- MODULE Storage -------------------------------
(***************************************************************************)
(* Stored files: upload intent, direct upload through a signed URL,         *)
(* finalize, attachment, download, operator quarantine and the cleanup job  *)
(* (storage/service.ts, policy.ts, provider.ts, supabase.ts and             *)
(* jobs/index.ts).  Calls to the store happen outside transactions, so two  *)
(* finalizers, the uploader and the job interleave between them, and a      *)
(* finalizer may stop half-way.  Bytes are abstracted to what the checks    *)
(* tell apart: "good", of another size, or of another type.                 *)
(***************************************************************************)
EXTENDS Naturals, FiniteSets

CONSTANTS Files,        \* upload intents (an asset has the id of its intent)
          Uses,         \* the <<purpose, mime>> pairs declared
          Finalizers,   \* finalize calls in flight
          MaxCrashes    \* bound on finalizers and transactions that fail half-way

ASSUME StorageAssumption == MaxCrashes \in Nat

VARIABLES intent,      \* intent[f]: [state, use, phase]; phase: the upload URL is valid, the finalize grace runs, or it is past
          object,      \* object[f][bucket]: the content stored under the key of f, or "none"
          asset,       \* storage_assets: [state, attached, aged]
          finalizer,   \* finalizer[w]: [at, file, verdict]
          orphans,     \* the assets the cleanup job selected and has not handled
          removals,    \* the objects whose row the cleanup job has closed and that it still has to remove
          orderOpen,   \* the order still accepts files of these purposes
          crashes

storageVars == <<intent, object, asset, finalizer, orphans, removals, orderOpen, crashes>>

----------------------------------------------------------------------------
(* policy.ts *)

KindOf(mime) == CASE mime \in {"image/png", "image/jpeg", "image/gif", "image/webp"} -> "image"
                  [] mime \in {"application/pdf", "docx"} -> "document"
                  [] mime \in {"video/mp4", "video/quicktime", "video/webm"} -> "video"
                  [] mime = "application/zip" -> "archive"
                  [] OTHER -> "refused"

KindsFor(purpose) == CASE purpose \in {"DELIVERY", "DISPUTE", "SAMPLE"} -> {"image", "document", "video"}
                       [] purpose = "BRIEF" -> {"image", "document"}
                       [] purpose = "DIGITAL" -> {"image", "document", "video", "archive"}
                       [] purpose \in {"AVATAR", "REQUEST_IMAGE", "ITEM_IMAGE"} -> {"image"}
                       [] OTHER -> {}

\* validateDeclaredUpload: the extension and the size fit the declared type as well.
ValidDeclaredUpload(use) == KindOf(use[2]) \in KindsFor(use[1])

OrderPurposes == {"DELIVERY", "BRIEF", "DISPUTE"}

\* assertOrderUpload: an order file needs its order in a state that takes it.
MayUpload(use) == use[1] \in OrderPurposes => orderOpen

\* verifySignature
SignatureMatches(content) == content # "othertype"

----------------------------------------------------------------------------
NoIntent == [state |-> "NONE", use |-> <<"none", "none">>, phase |-> "URL"]
NoAsset == [state |-> "NONE", attached |-> FALSE, aged |-> FALSE]
Resting == [at |-> "IDLE", file |-> "none", verdict |-> "none"]

StorageInit == /\ intent = [f \in Files |-> NoIntent]
               /\ object = [f \in Files |-> [main |-> "none", quarantine |-> "none"]]
               /\ asset = [f \in Files |-> NoAsset]
               /\ finalizer = [w \in Finalizers |-> Resting]
               /\ orphans = {} /\ removals = {} /\ orderOpen = TRUE /\ crashes = 0

CreateUploadIntent(f, use) ==
    /\ intent[f].state = "NONE" /\ ValidDeclaredUpload(use) /\ MayUpload(use)
    /\ intent' = [intent EXCEPT ![f] = [state |-> "OPEN", use |-> use, phase |-> "URL"]]
    /\ UNCHANGED <<object, asset, finalizer, orphans, removals, orderOpen, crashes>>

\* The browser puts its bytes; the store refuses to overwrite, whatever became of the intent meanwhile.
Upload(f, content) ==
    /\ intent[f].state # "NONE" /\ intent[f].phase = "URL" /\ object[f].main = "none"
    /\ object' = [object EXCEPT ![f].main = content]
    /\ UNCHANGED <<intent, asset, finalizer, orphans, removals, orderOpen, crashes>>

\* Fifteen minutes, then an hour.
StorageTime(f) ==
    /\ intent[f].state # "NONE" /\ intent[f].phase # "PAST"
    /\ intent' = [intent EXCEPT ![f].phase = IF @ = "URL" THEN "GRACE" ELSE "PAST"]
    /\ UNCHANGED <<object, asset, finalizer, orphans, removals, orderOpen, crashes>>

OrderCloses == /\ orderOpen /\ orderOpen' = FALSE
               /\ UNCHANGED <<intent, object, asset, finalizer, orphans, removals, crashes>>

----------------------------------------------------------------------------
(* finalizeUpload: look, act on the object, hash it, commit, remove what the commit refused. *)

Stat(w, f) ==
    /\ finalizer[w] = Resting /\ intent[f].state = "OPEN" /\ intent[f].phase # "PAST"
    /\ \E found \in {b \in {"main", "quarantine"} : object[f][b] # "none"} :
          /\ found = "quarantine" => object[f].main = "none"
          /\ finalizer' = [finalizer EXCEPT ![w] =
                CASE found = "quarantine"             -> [at |-> "COMMIT", file |-> f, verdict |-> "QUARANTINED"]
                  [] object[f].main = "othersize"     -> [at |-> "REMOVE", file |-> f, verdict |-> "REJECTED"]
                  [] OTHER                            -> [at |-> "CHECK", file |-> f, verdict |-> "none"]]
    /\ UNCHANGED <<intent, object, asset, orphans, removals, orderOpen, crashes>>

RemoveMismatch(w) ==
    /\ finalizer[w].at = "REMOVE"
    /\ object' = [object EXCEPT ![finalizer[w].file].main = "none"]
    /\ finalizer' = [finalizer EXCEPT ![w].at = "COMMIT"]
    /\ UNCHANGED <<intent, asset, orphans, removals, orderOpen, crashes>>

CheckSignature(w) ==
    LET f == finalizer[w].file IN
    /\ finalizer[w].at = "CHECK"
    /\ finalizer' = [finalizer EXCEPT ![w] =
          IF object[f].main = "none" THEN Resting
          ELSE IF SignatureMatches(object[f].main) THEN [@ EXCEPT !.at = "COMMIT", !.verdict = "FINALIZED"]
          ELSE [@ EXCEPT !.at = "MOVE", !.verdict = "QUARANTINED"]]
    /\ UNCHANGED <<intent, object, asset, orphans, removals, orderOpen, crashes>>

MoveToQuarantine(w) ==
    LET f == finalizer[w].file IN
    /\ finalizer[w].at = "MOVE"
    /\ IF object[f].main = "none" THEN finalizer' = [finalizer EXCEPT ![w] = Resting] /\ UNCHANGED object
       ELSE /\ object' = [object EXCEPT ![f] = [main |-> "none", quarantine |-> object[f].main]]
            /\ finalizer' = [finalizer EXCEPT ![w].at = "COMMIT"]
    /\ UNCHANGED <<intent, asset, orphans, removals, orderOpen, crashes>>

\* The transaction: a closed intent keeps its outcome, and the order is asked again.
CommitFinalize(w) ==
    LET f == finalizer[w].file
        verdict == finalizer[w].verdict
        outcome == IF verdict = "FINALIZED" /\ ~MayUpload(intent[f].use) THEN "REJECTED" ELSE verdict
    IN  /\ finalizer[w].at = "COMMIT"
        /\ IF intent[f].state # "OPEN" \/ intent[f].phase = "PAST"
           THEN UNCHANGED <<intent, asset>> /\ finalizer' = [finalizer EXCEPT ![w] = Resting]
           ELSE /\ intent' = [intent EXCEPT ![f].state = outcome]
                /\ asset' = IF outcome = "REJECTED" THEN asset
                            ELSE [asset EXCEPT ![f].state = IF outcome = "FINALIZED" THEN "READY" ELSE "QUARANTINED"]
                /\ finalizer' = [finalizer EXCEPT ![w] = IF outcome # verdict THEN [@ EXCEPT !.at = "UNDO"] ELSE Resting]
        /\ UNCHANGED <<object, orphans, removals, orderOpen, crashes>>

RemoveRefused(w) ==
    /\ finalizer[w].at = "UNDO"
    /\ object' = [object EXCEPT ![finalizer[w].file].main = "none"]
    /\ finalizer' = [finalizer EXCEPT ![w] = Resting]
    /\ UNCHANGED <<intent, asset, orphans, removals, orderOpen, crashes>>

FinalizeStops(w) == /\ finalizer[w] # Resting /\ crashes < MaxCrashes /\ crashes' = crashes + 1
                    /\ finalizer' = [finalizer EXCEPT ![w] = Resting]
                    /\ UNCHANGED <<intent, object, asset, orphans, removals, orderOpen>>

----------------------------------------------------------------------------
(* Use of a finished file. *)

\* lockDeliveryAssets, lockSampleAsset and their like: READY, under a share lock, and not used elsewhere.
Attachable(f) == asset[f].state = "READY" /\ ~asset[f].attached

Attach(f) == /\ Attachable(f)
             /\ intent[f].use[1] \in OrderPurposes => orderOpen
             /\ asset' = [asset EXCEPT ![f].attached = TRUE]
             /\ UNCHANGED <<intent, object, finalizer, orphans, removals, orderOpen, crashes>>

\* A profile or a campaign drops the picture; what is delivered or sold stays.
Detach(f) == /\ asset[f].attached /\ intent[f].use[1] \in {"AVATAR", "REQUEST_IMAGE"}
             /\ asset' = [asset EXCEPT ![f].attached = FALSE]
             /\ UNCHANGED <<intent, object, finalizer, orphans, removals, orderOpen, crashes>>

\* quarantineAsset: the row and the move in one transaction, which may fail after the move.
QuarantineAsset(f) ==
    /\ asset[f].state = "READY" /\ object[f].main # "none"
    /\ object' = [object EXCEPT ![f] = [main |-> "none", quarantine |-> object[f].main]]
    /\ \/ asset' = [asset EXCEPT ![f].state = "QUARANTINED"] /\ UNCHANGED crashes
       \/ crashes < MaxCrashes /\ crashes' = crashes + 1 /\ UNCHANGED asset
    /\ UNCHANGED <<intent, finalizer, orphans, removals, orderOpen>>

\* createDownloadUrl: who is asking decides, by purpose; a held or deleted file has no URL.
MayDownload(f, asking) ==
    /\ asset[f].state = "READY"
    /\ CASE intent[f].use[1] \in {"AVATAR", "REQUEST_IMAGE", "ITEM_IMAGE"} -> asking = "owner" \/ asset[f].attached
         [] intent[f].use[1] = "DIGITAL" -> asking = "owner"
         [] intent[f].use[1] = "SAMPLE" -> asking \in {"owner", "moderator"} \/ asset[f].attached
         [] OTHER -> asking \in {"participant", "operator"}

----------------------------------------------------------------------------
(* cleanupStorage *)

\* closed_at first, under the row lock; the object afterwards.
AbandonUploads ==
    LET late == {f \in Files : intent[f].state = "OPEN" /\ intent[f].phase = "PAST"} IN
    /\ late # {}
    /\ intent' = [f \in Files |-> IF f \in late THEN [intent[f] EXCEPT !.state = "ABANDONED"] ELSE intent[f]]
    /\ removals' = removals \union late
    /\ UNCHANGED <<object, asset, finalizer, orphans, orderOpen, crashes>>

AssetAges(f) == /\ asset[f].state # "NONE" /\ ~asset[f].aged /\ asset' = [asset EXCEPT ![f].aged = TRUE]
                /\ UNCHANGED <<intent, object, finalizer, orphans, removals, orderOpen, crashes>>

\* The selection holds no lock.
SelectOrphans ==
    /\ orphans = {} /\ removals = {}
    /\ orphans' = {f \in Files : asset[f].state = "READY" /\ ~asset[f].attached /\ asset[f].aged
                                 /\ intent[f].use[1] \notin {"BRIEF", "DISPUTE"}}
    /\ orphans' # {}
    /\ UNCHANGED <<intent, object, asset, finalizer, removals, orderOpen, crashes>>

\* storage_asset_guard refuses a file that became referenced, the update one that is no longer READY.
Deletable(f) == asset[f].state = "READY" /\ ~asset[f].attached

\* Mutant: the object is removed although the row refused.
DeleteOrphanAnyway(f) ==
    /\ f \in orphans /\ orphans' = orphans \ {f}
    /\ asset' = IF Deletable(f) THEN [asset EXCEPT ![f].state = "DELETED"] ELSE asset
    /\ removals' = removals \union {f}
    /\ UNCHANGED <<intent, object, finalizer, orderOpen, crashes>>

DeleteOrphan(f) ==
    /\ f \in orphans /\ orphans' = orphans \ {f}
    /\ IF Deletable(f) THEN asset' = [asset EXCEPT ![f].state = "DELETED"] /\ removals' = removals \union {f}
       ELSE UNCHANGED <<asset, removals>>
    /\ UNCHANGED <<intent, object, finalizer, orderOpen, crashes>>

\* The object goes after the row; a failure of the store leaves it behind.
RemoveObject(f) ==
    /\ f \in removals /\ removals' = removals \ {f}
    /\ \/ object' = [object EXCEPT ![f].main = "none"] /\ UNCHANGED crashes
       \/ crashes < MaxCrashes /\ crashes' = crashes + 1 /\ UNCHANGED object
    /\ UNCHANGED <<intent, asset, finalizer, orphans, orderOpen>>

StorageNext ==
    \/ \E f \in Files : \/ \E use \in Uses : CreateUploadIntent(f, use)
                        \/ \E content \in {"good", "othersize", "othertype"} : Upload(f, content)
                        \/ StorageTime(f) \/ Attach(f) \/ Detach(f) \/ QuarantineAsset(f) \/ AssetAges(f)
                        \/ DeleteOrphan(f) \/ RemoveObject(f)
                        \/ \E w \in Finalizers : Stat(w, f)
    \/ \E w \in Finalizers : \/ RemoveMismatch(w) \/ CheckSignature(w) \/ MoveToQuarantine(w)
                             \/ CommitFinalize(w) \/ RemoveRefused(w) \/ FinalizeStops(w)
    \/ OrderCloses \/ AbandonUploads \/ SelectOrphans

----------------------------------------------------------------------------
\* What a step may do to a file that is READY, and who may fetch it before.
FileKept(f) ==
    /\ asset[f].state = "READY" =>
          /\ asset[f].attached => asset'[f].state # "DELETED"
          /\ object[f].main # "none" /\ object'[f].main # object[f].main =>
                \/ QuarantineAsset(f)
                \/ \E w \in Finalizers : finalizer[w].at \in {"REMOVE", "MOVE"} /\ finalizer[w].file = f /\ finalizer'[w] # finalizer[w]
    /\ (\E asking \in {"owner", "participant", "operator", "moderator"} : MayDownload(f, asking)) => intent[f].state = "FINALIZED"
StorageStep == \A f \in Files : FileKept(f)

\* A file that something shows or delivers is never deleted under it, and neither the cleanup job nor a finalizer whose
\* commit was refused ever takes the stored object of a READY file, however they interleave with its attachment.  Besides
\* the operator, whose quarantine takes it also when the transaction then fails, only a finalizer that looked at the object
\* before another one finished can: it removes or moves it unasked.  Nobody can fetch a file whose upload was rejected or
\* abandoned, or that is held (finalizeUpload, lockDeliveryAssets, quarantineAsset, cleanupStorage, createDownloadUrl).
AttachedKept == [][StorageStep]_storageVars
=============================================================================
