---------------------------- MODULE StoredFiles ----------------------------
(***************************************************************************)
(* Uploads: FilesService over PrismaFilesRepository and the object storage *)
(* (apps/api/src/files).  The row is written here, the bytes by the client *)
(* straight to the storage, with a signed URL.                             *)
(***************************************************************************)
EXTENDS Requests

CONSTANT File   \* rows of stored_files, and the object under each one's key

VARIABLES
    file,       \* stored_files: status, and whether uploaded_at is set
    object      \* what the storage has under the key

NoFile == [status |-> "none", confirmed |-> FALSE]

Uploaded == [status |-> "UPLOADED", confirmed |-> TRUE]

\* Where nobody uploads, the files are there already.
FilesInit ==
    /\ file = [f \in File |-> IF "upload" \in calls THEN NoFile ELSE Uploaded]
    /\ object = [f \in File |-> IF "upload" \in calls THEN "absent" ELSE "declared"]

\* initiateUpload: the object key is fresh.
InitiateUpload == \E f \in File :
    /\ file[f] = NoFile
    /\ file' = [file EXCEPT ![f].status = "PENDING"]
    /\ UNCHANGED <<object, requests>>

\* The client uses its URL, before or after anything else happens here.
PutObject == \E f \in File, fits \in {"declared", "other"} :
    /\ file[f] # NoFile /\ object[f] # fits
    /\ object' = [object EXCEPT ![f] = fits]
    /\ UNCHANGED <<file, requests>>

-----------------------------------------------------------------------------
(* completeUpload *)

BeginComplete(h) == \E f \in File :
    /\ file[f].status = "PENDING"
    /\ Receive(h, [step |-> "head", f |-> f])
    /\ UNCHANGED <<file, object>>

\* headObject: absent, or of another size or type, is refused.
HeadObject(h) ==
    /\ At(h, "head")
    /\ IF object[handler[h].f] = "declared"
         THEN Goto(h, "confirm") ELSE Finish(h)
    /\ UNCHANGED <<file, object>>

\* The update is by id: a file archived meanwhile comes back.
Confirm(h) ==
    /\ At(h, "confirm")
    /\ file' = [file EXCEPT ![handler[h].f] = Uploaded]
    /\ Commit(h)
    /\ UNCHANGED object

-----------------------------------------------------------------------------
(* activate, archive *)

AllowedFileTransition(from, to) ==
    \/ from = "UPLOADED" /\ to = "ACTIVE"
    \/ from \in {"PENDING", "UPLOADED", "ACTIVE"} /\ to = "ARCHIVED"

BeginMove(h) == \E f \in File, to \in {"ACTIVE", "ARCHIVED"} :
    /\ AllowedFileTransition(file[f].status, to)
    /\ Receive(h, [step |-> "file status", f |-> f, to |-> to])
    /\ UNCHANGED <<file, object>>

MoveFile(h) ==
    /\ At(h, "file status")
    /\ file' = [file EXCEPT ![handler[h].f].status = handler[h].to]
    /\ Commit(h)
    /\ UNCHANGED object

HandleFile(h) == \/ BeginComplete(h) \/ HeadObject(h) \/ Confirm(h)
                 \/ BeginMove(h) \/ MoveFile(h)

FileRequest ==
    [step: {"head", "confirm"}, f: File]
    \cup [step: {"file status"}, f: File, to: {"ACTIVE", "ARCHIVED"}]

FilesTypeOK ==
    /\ file \in [File -> [status: {"none", "PENDING", "UPLOADED", "ACTIVE",
                                   "ARCHIVED"}, confirmed: BOOLEAN]]
    /\ object \in [File -> {"absent", "declared", "other"}]
=============================================================================
