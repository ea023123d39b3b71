----------------------------- MODULE MediaLibrary -----------------------------
(***************************************************************************)
(* Two protocols of the media library around files in storage.  The        *)
(* versions of an asset (media_library/views.py, services.py, tasks.py):   *)
(* an edit gets a version row that names the asset's own file until a task *)
(* of the worker has written the edited one.  And uploads that go straight *)
(* to storage (mcp/handlers.py, services.py, tasks.py): any number of      *)
(* finalize calls turn the object into one asset, while expired uploads    *)
(* are swept.                                                              *)
(***************************************************************************)
EXTENDS Naturals, FiniteSets, FiniteSetsExt

CONSTANTS
    LastVersion,     \* bound: version numbers of the asset
    LastFile,        \* bound: files written
    Finalizers       \* finalize calls for one upload

ASSUME MediaAssumption ==
    LastVersion \in Nat \ {0} /\ LastFile \in Nat \ {0} /\ IsFiniteSet(Finalizers)

VARIABLES
    media,        \* the MediaAsset: its file, its current_version (0: none)
    version,      \* version[n]: the file of version n, 0 if there is no such row
    task,         \* task[n]: the queued edit of version n
    files,        \* files in storage
    written,      \* files written so far
    crossed,      \* an edit or a restore was asked for while an edit was pending
    again,        \* an edit that was already shown ran a second time
    upload,       \* the PendingUpload row
    object,       \* what was uploaded under its key
    space,        \* assets of its size that the quota still has room for
    assets,       \* assets registered for the upload
    finalizer,    \* finalizer[f]: where the call is
    uploadSweep   \* the sweep of expired uploads

versionVars == <<media, version, task, files, written, crossed, again>>
uploadVars == <<upload, object, space, assets, finalizer, uploadSweep>>
mediaVars == <<versionVars, uploadVars>>

Versions == 1..LastVersion
NoFile == 0
Original == 1
NoTask == [step |-> "none", source |-> NoFile, shown |-> NoFile]

MediaTypeOK ==
    /\ media \in [file : 1..LastFile, current : 0..LastVersion]
    /\ version \in [Versions -> 0..LastFile]
    /\ task \in [Versions -> [step : {"none", "queued", "loaded", "saved", "shown"},
                              source : 0..LastFile, shown : 0..LastFile]]
    /\ files \subseteq 1..LastFile /\ written \in 1..LastFile
    /\ {crossed, again} \subseteq BOOLEAN
    /\ upload \in [state : {"open", "finalized", "swept"}, expired : BOOLEAN]
    /\ object \in {"awaited", "good", "bad", "deleted"}
    /\ space \in 1..2 /\ assets \in 0..Cardinality(Finalizers)
    /\ finalizer \in [Finalizers -> {"idle", "looked", "inspected"}]
    /\ uploadSweep \in {"idle", "listed", "emptied"}

MediaInit ==
    /\ media = [file |-> Original, current |-> NoFile]
    /\ version = [n \in Versions |-> NoFile] /\ task = [n \in Versions |-> NoTask]
    /\ files = {Original} /\ written = Original
    /\ crossed = FALSE /\ again = FALSE
    /\ upload = [state |-> "open", expired |-> FALSE]
    /\ object = "awaited" /\ space \in 1..2 /\ assets = 0
    /\ finalizer = [f \in Finalizers |-> "idle"] /\ uploadSweep = "idle"

-----------------------------------------------------------------------------
(* Versions.                                                               *)

Kept(table) == {n \in Versions : table[n] # NoFile}
Newest(table) == Max(Kept(table) \cup {NoFile})
Pending == \E n \in Versions : task[n].step # "none"

\* create_version numbers the row after the newest and makes it current.
NextVersion(table) == Newest(table) + 1

\* asset_edit: the untouched upload becomes version 1 before the first edit;
\* the edit's own version starts as another name of the asset's file.
RequestEdit ==
    LET before == IF Kept(version) = {} THEN [version EXCEPT ![Original] = media.file] ELSE version
        n == NextVersion(before)
    IN  /\ n \in Versions
        /\ version' = [before EXCEPT ![n] = media.file]
        /\ task' = [task EXCEPT ![n] = [NoTask EXCEPT !.step = "queued"]]
        /\ media' = [media EXCEPT !.current = n]
        /\ crossed' = (crossed \/ Pending)
        /\ UNCHANGED <<files, written, again>>

\* process_image_edit, process_video_trim: the task loads version and asset ...
LoadEdit(n) ==
    /\ task[n].step = "queued" /\ version[n] # NoFile
    /\ task' = [task EXCEPT ![n] = [step |-> "loaded", source |-> version[n], shown |-> media.file]]
    /\ UNCHANGED <<media, version, files, written, crossed, again>>

\* ... writes the edited file under a name of its own ...
SaveEdit(n) ==
    /\ task[n].step = "loaded" /\ written < LastFile
    /\ written' = written + 1 /\ files' = files \cup {written'}
    /\ version' = [version EXCEPT ![n] = written']
    /\ task' = [task EXCEPT ![n].step = "saved"]
    /\ UNCHANGED <<media, crossed, again>>

\* ... and makes it the file that everybody reads.
ShowEdit(n) ==
    /\ task[n].step = "saved"
    /\ media' = [media EXCEPT !.file = version[n]]
    /\ task' = [task EXCEPT ![n].step = "shown"]
    /\ UNCHANGED <<version, files, written, crossed, again>>

EditEnds(n) ==
    /\ task[n].step = "shown" /\ task' = [task EXCEPT ![n] = NoTask]
    /\ UNCHANGED <<media, version, files, written, crossed, again>>

\* The file that a failed edit must not delete: an image too large remembers what
\* the version named when it was loaded, every other failure asks the asset.
Spared(n, tooLarge) == IF tooLarge THEN task[n].source ELSE task[n].shown

\* The branch for ImageTooLargeError, and _discard_failed_version: the version is
\* dropped and the newest that remains becomes current.
EditFails(n) ==
    /\ task[n].step \in {"loaded", "saved"}
    /\ \E tooLarge \in BOOLEAN : files' = files \ ({version[n]} \ {Spared(n, tooLarge)})
    /\ version' = [version EXCEPT ![n] = NoFile]
    /\ media' = [media EXCEPT !.current = Newest(version')]
    /\ task' = [task EXCEPT ![n] = NoTask]
    /\ UNCHANGED <<written, crossed, again>>

\* The worker dies and the task is run from the start.
EditorDies(n) ==
    /\ task[n].step \in {"loaded", "saved", "shown"}
    /\ again' = (again \/ task[n].step = "shown")
    /\ task' = [task EXCEPT ![n] = [NoTask EXCEPT !.step = "queued"]]
    /\ UNCHANGED <<media, version, files, written, crossed>>

\* restore_version: a new version of an old file.
Restore(n) ==
    /\ version[n] # NoFile /\ NextVersion(version) \in Versions
    /\ version' = [version EXCEPT ![NextVersion(version)] = version[n]]
    /\ media' = [file |-> version[n], current |-> NextVersion(version)]
    /\ crossed' = (crossed \/ Pending)
    /\ UNCHANGED <<task, files, written, again>>

EditorMoves(n) == LoadEdit(n) \/ SaveEdit(n) \/ ShowEdit(n) \/ EditEnds(n) \/ EditFails(n)

VersionsNext ==
    /\ \/ RequestEdit
       \/ \E n \in Versions : EditorMoves(n) \/ EditorDies(n) \/ Restore(n)
    /\ UNCHANGED uploadVars

-----------------------------------------------------------------------------
(* Uploads.                                                                *)

\* The presigned request: the file, or something that will not pass validation.
AgentUploads ==
    /\ object = "awaited" /\ ~upload.expired /\ object' \in {"good", "bad"}
    /\ UNCHANGED <<upload, space, assets, finalizer, uploadSweep>>

UploadExpires ==
    /\ ~upload.expired /\ upload' = [upload EXCEPT !.expired = TRUE]
    /\ UNCHANGED <<object, space, assets, finalizer, uploadSweep>>

CallGoes(f, step) == finalizer' = [finalizer EXCEPT ![f] = step]

\* finalize_media_upload looks without a lock: a finished upload is replayed,
\* an expired one refused.
LookAtUpload(f) ==
    /\ finalizer[f] = "idle" /\ upload = [state |-> "open", expired |-> FALSE]
    /\ CallGoes(f, "looked")
    /\ UNCHANGED <<upload, object, space, assets, uploadSweep>>

Rejected == object = "bad" \/ assets >= space

\* inspect_uploaded_object, outside any lock, deletes what does not pass.
InspectObject(f) ==
    /\ finalizer[f] = "looked"
    /\ IF object \in {"awaited", "deleted"}
       THEN CallGoes(f, "idle") /\ UNCHANGED object
       ELSE IF Rejected
       THEN CallGoes(f, "idle") /\ object' = "deleted"
       ELSE CallGoes(f, "inspected") /\ UNCHANGED object
    /\ UNCHANGED <<upload, space, assets, uploadSweep>>

\* (Mutant of FinalizedMeanwhile: the look before the inspection is enough.)
NotLookedAgain == FALSE

FinalizedMeanwhile == upload.state = "finalized"

\* The upload's row is locked: the finalize that won the race still wins.
RegisterAsset(f) ==
    /\ finalizer[f] = "inspected" /\ CallGoes(f, "idle")
    /\ IF FinalizedMeanwhile \/ upload.state = "swept"
       THEN UNCHANGED <<upload, assets>>
       ELSE /\ upload' = [upload EXCEPT !.state = "finalized"]
            /\ assets' = assets + 1
    /\ UNCHANGED <<object, space, uploadSweep>>

\* sweep_pending_uploads: listed first, then its object, then its row.
ListExpired ==
    /\ uploadSweep = "idle" /\ upload.state = "open" /\ upload.expired /\ uploadSweep' = "listed"
    /\ UNCHANGED <<upload, object, space, assets, finalizer>>

DeleteObject ==
    /\ uploadSweep = "listed" /\ uploadSweep' = "emptied" /\ object' = "deleted"
    /\ UNCHANGED <<upload, space, assets, finalizer>>

DeleteUpload ==
    /\ uploadSweep = "emptied" /\ uploadSweep' = "idle"
    /\ upload' = [upload EXCEPT !.state = "swept"]
    /\ UNCHANGED <<object, space, assets, finalizer>>

UploadsNext ==
    /\ \/ AgentUploads \/ UploadExpires \/ ListExpired \/ DeleteObject \/ DeleteUpload
       \/ \E f \in Finalizers : LookAtUpload(f) \/ InspectObject(f) \/ RegisterAsset(f)
    /\ UNCHANGED versionVars

MediaSpec == MediaInit /\ [][VersionsNext \/ UploadsNext]_mediaVars

-----------------------------------------------------------------------------
\* The asset and every version of it have their file in storage.
FilesAreKept == {media.file} \cup {version[n] : n \in Kept(version)} \subseteq files

\* The untouched upload can be restored, whatever becomes of the edits ("the
\* original needs a version row of its own to be restorable", says the docstring
\* of _keep_original_version, which writes that row).
OriginalIsRestorable == version[Original] # NoFile => version[Original] \in files

\* People who wait for an edit before they ask for the next keep all files,
\* whatever fails or dies, and see the version that is marked current, unless
\* the edit ran twice.  An upload becomes one asset however many calls finalize
\* it, and the asset keeps its object as long as the upload has not expired and
\* the quota has room for another of its size.  (Past either, the sweep, or a
\* late inspection, may delete the object of an asset.)
MediaKept ==
    /\ ~crossed => FilesAreKept
    /\ ~crossed /\ ~again /\ ~Pending /\ media.current # NoFile => version[media.current] = media.file
    /\ assets <= 1
    /\ assets = 1 /\ ~upload.expired /\ assets < space => object = "good"
===============================================================================
