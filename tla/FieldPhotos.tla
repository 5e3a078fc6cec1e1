---------------------------- MODULE FieldPhotos -----------------------------
(***************************************************************************)
(* The photos of the reports on a job. An intent makes the row; the bytes  *)
(* follow into the database or into an object store, as configured at that *)
(* time. Both ways read the photo and its report first and write later.    *)
(***************************************************************************)
EXTENDS Integers, FiniteSets

CONSTANTS
  Reports,
  Photos,     \* field_job_photos
  MaxPhotos,  \* MAX_PHOTOS_PER_REPORT
  None

VARIABLES
  expected,   \* the reports whose employee is assigned to the job, which can be worked on
  submitted,  \* the reports that are submitted or approved
  photo,      \* field_job_photos: report, storage provider, whether it is uploaded
  object,     \* the photos whose bytes are in the object store
  upload      \* the requests that have read their photo

vars == <<expected, submitted, photo, object, upload>>

NoPhoto == [report |-> None, provider |-> None, uploaded |-> FALSE]

Init ==
  /\ expected \in SUBSET Reports
  /\ submitted = {}
  /\ photo = [p \in Photos |-> NoPhoto]
  /\ object = {}
  /\ upload = {}

\* The office assigns and schedules; reports are submitted and rejected.
Assign(f) ==
  /\ expected' = IF f \in expected THEN expected \ {f} ELSE expected \union {f}
  /\ UNCHANGED <<submitted, photo, object, upload>>

Report(f) ==
  /\ \/ f \in expected /\ submitted' = submitted \union {f}
     \/ submitted' = submitted \ {f}
  /\ UNCHANGED <<expected, photo, object, upload>>

PhotosOf(f) == {p \in Photos : photo[p].report = f}

\* The work order and the report are locked.
NewPhotoIntent(p, f, provider) ==
  /\ photo[p].report = None /\ f \in expected \ submitted
  /\ Cardinality(PhotosOf(f)) < MaxPhotos
  /\ photo' = [photo EXCEPT ![p] = [report |-> f, provider |-> provider, uploaded |-> FALSE]]
  /\ UNCHANGED <<expected, submitted, object, upload>>

PutObject(p) ==
  /\ photo[p].provider = "object_storage"
  /\ object' = object \union {p}
  /\ UNCHANGED <<expected, submitted, photo, upload>>

\* getEmployeeScopedPhoto, and for an object that it is there
UploadRead(p) ==
  /\ p \notin upload /\ photo[p].report \in expected \ submitted /\ ~photo[p].uploaded
  /\ photo[p].provider = "object_storage" => p \in object
  /\ upload' = upload \union {p}
  /\ UNCHANGED <<expected, submitted, photo, object>>

StoreWriteUnchecked(p) ==
  /\ p \in upload /\ upload' = upload \ {p}
  /\ photo' = [photo EXCEPT ![p].uploaded = TRUE]
  /\ UNCHANGED <<expected, submitted, object>>

\* The report is read again: locked, or by the statement that marks the photo.
StoreWrite(p) ==
  /\ p \in upload /\ upload' = upload \ {p}
  /\ photo' = [photo EXCEPT ![p].uploaded = @ \/ photo[p].report \notin submitted]
  /\ UNCHANGED <<expected, submitted, object>>

Next ==
  \/ \E f \in Reports :
       \/ Assign(f)
       \/ Report(f)
       \/ \E p \in Photos, provider \in {"database", "object_storage"} : NewPhotoIntent(p, f, provider)
  \/ \E p \in Photos : PutObject(p) \/ UploadRead(p) \/ StoreWrite(p)

Spec == Init /\ [][Next]_vars

\* No photo is added to a report once it is submitted, though an upload may have
\* begun before: what the manager approves is what was submitted. What counts as
\* uploaded is stored (storeEmployeePhotoContent, confirmPhoto).
SubmittedStands ==
  [][\A p \in Photos :
       photo'[p].uploaded /\ ~photo[p].uploaded =>
         /\ photo[p].report \notin submitted'
         /\ photo[p].provider = "object_storage" => p \in object]_vars
=============================================================================
