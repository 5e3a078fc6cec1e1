----------------------------- MODULE Attachments -----------------------------
(***************************************************************************)
(* The file of one attachment in the books, kept in the database or in the  *)
(* object storage, from the intent to upload it to its deletion. Content    *)
(* and mark, attachment and file, are written by statements of their own,   *)
(* and the administration of files writes back what it read of one.         *)
(***************************************************************************)
EXTENDS Integers, FiniteSets

CONSTANTS Requests, None

VARIABLES
  attachment,  \* bookkeeping_attachments with files: both statuses, where the content is kept, its mark
  content,     \* bookkeeping_attachment_contents or, external, the object: whether there is one
  handling,    \* requests under way, and how they ended
  stopped      \* history: an archiving stopped between its statements, or was undone by an edit of the file

attachments == <<attachment, content, handling, stopped>>

NotBegun == [pc |-> "none"]
Ended(answer) == [pc |-> "ended", answer |-> answer]

Init ==
  /\ attachment = None
  /\ content = FALSE
  /\ handling = [r \in Requests |-> NotBegun]
  /\ stopped = FALSE

Active == attachment # None /\ attachment.status = "active" /\ attachment.file = "active"
InDatabase == attachment.kept = "database"

\* createBookkeepingAttachmentUploadIntent
Intend(kept) ==
  /\ attachment = None /\ \A r \in Requests : handling[r] = NotBegun
  /\ attachment' = [status |-> "active", file |-> "active", kept |-> kept, uploaded |-> FALSE]
  /\ UNCHANGED <<content, handling, stopped>>

Begin(r, pc) ==
  /\ handling[r] = NotBegun
  /\ handling' = [handling EXCEPT ![r] = [pc |-> pc]]
  /\ UNCHANGED <<attachment, content, stopped>>

To(r, pc) == handling' = [handling EXCEPT ![r].pc = pc]
End(r, answer) == handling' = [handling EXCEPT ![r] = Ended(answer)]

\* storeBookkeepingAttachmentContent checks the attachment, ...
BeginStore(r) == Active /\ InDatabase /\ Begin(r, "store")

\* ... inserts the content, refused where the file has been deleted, ...
Store(r) ==
  /\ handling[r].pc = "store" /\ attachment # None
  /\ content' = TRUE /\ To(r, "mark")
  /\ UNCHANGED <<attachment, stopped>>

\* ... and marks the file as uploaded.
Mark(r) ==
  /\ handling[r].pc = "mark"
  /\ attachment' = IF attachment = None THEN None ELSE [attachment EXCEPT !.uploaded = TRUE]
  /\ End(r, "stored") /\ UNCHANGED <<content, stopped>>

\* The browser puts the object itself, for as long as its address is valid.
Put ==
  /\ attachment # None /\ ~InDatabase /\ ~content
  /\ content' = TRUE
  /\ UNCHANGED <<attachment, handling, stopped>>

CompleteUnseen(r) ==
  /\ handling[r] = NotBegun /\ Active /\ InDatabase
  /\ End(r, "complete") /\ UNCHANGED <<attachment, content, stopped>>

\* completeBookkeepingAttachment looks for content in the database, and takes the
\* browser's word for an object.
Complete(r) ==
  /\ handling[r] = NotBegun /\ Active /\ InDatabase /\ content
  /\ End(r, "complete") /\ UNCHANGED <<attachment, content, stopped>>

BeginTrust(r) == Active /\ ~InDatabase /\ Begin(r, "mark")

\* archiveBookkeepingAttachment: the attachment, then its file. An attachment archived
\* already is left as it is.
BeginArchive(r) == attachment # None /\ attachment.status = "active" /\ Begin(r, "archive")

Archive(r) ==
  /\ handling[r].pc = "archive"
  /\ attachment' = IF attachment = None THEN None ELSE [attachment EXCEPT !.status = "archived"]
  /\ To(r, "file") /\ UNCHANGED <<content, stopped>>

ArchiveFile(r) ==
  /\ handling[r].pc = "file"
  /\ attachment' = IF attachment = None THEN None ELSE [attachment EXCEPT !.file = "archived"]
  /\ End(r, "archived") /\ UNCHANGED <<content, stopped>>

\* updateFile reads the file, with the status it was given or has read ...
EditRead(r, file) ==
  /\ handling[r] = NotBegun /\ attachment # None
  /\ handling' = [handling EXCEPT ![r] = [pc |-> "edit", file |-> file, uploaded |-> attachment.uploaded]]
  /\ UNCHANGED <<attachment, content, stopped>>

\* ... and writes back status and metadata, which hold the mark.
EditWrite(r) ==
  /\ handling[r].pc = "edit"
  /\ attachment' = IF attachment = None THEN None
                   ELSE [attachment EXCEPT !.file = handling[r].file, !.uploaded = handling[r].uploaded]
  /\ stopped' = (stopped \/ (handling[r].file = "active" /\ attachment # None
                             /\ attachment.status = "archived" /\ attachment.file = "archived"))
  /\ End(r, "edited") /\ UNCHANGED content

\* deleteBookkeepingAttachment, in one transaction; the content goes with the file, an
\* object stays.
Delete ==
  /\ attachment # None
  /\ attachment' = None
  /\ content' = (content /\ ~InDatabase)
  /\ UNCHANGED <<handling, stopped>>

Fail(r) ==
  /\ handling[r].pc \notin {"none", "ended"}
  /\ stopped' = (stopped \/ handling[r].pc = "file")
  /\ End(r, "failed") /\ UNCHANGED <<attachment, content>>

Next ==
  \/ \E kept \in {"database", "objects"} : Intend(kept)
  \/ Put \/ Delete
  \/ \E r \in Requests :
       \/ BeginStore(r) \/ Store(r) \/ Mark(r)
       \/ Complete(r) \/ BeginTrust(r)
       \/ BeginArchive(r) \/ Archive(r) \/ ArchiveFile(r)
       \/ \E file \in {"active", "archived"} : EditRead(r, file)
       \/ EditWrite(r) \/ Fail(r)

Spec == Init /\ [][Next]_attachments

---------------------------------------------------------------------------
(* Properties.                                                              *)

\* A file in the database that is marked as uploaded, or whose upload was answered as
\* complete, has its content, whatever stopped, was deleted or was written back in
\* between, and the file of an archived attachment is archived unless that request is
\* under way or stopped, or an edit of the file made it active again
\* (storeBookkeepingAttachmentContent, completeBookkeepingAttachment,
\* archiveBookkeepingAttachment, updateFile).
FileIsThere ==
  attachment # None =>
    /\ InDatabase /\ (attachment.uploaded \/ \E r \in Requests : handling[r] = Ended("complete"))
       => content
    /\ attachment.status = "archived" /\ attachment.file = "active" /\ ~stopped =>
         \E r \in Requests : handling[r].pc = "file"
=============================================================================
