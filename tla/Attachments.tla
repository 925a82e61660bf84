---------------------------- MODULE Attachments ----------------------------
(***************************************************************************)
(* Attachments of tickets: the bytes go to a file of the storage, chunk by *)
(* chunk, and then a row that names the file is committed.  The two stores *)
(* share no transaction.  An upload that fails takes its file away again,  *)
(* and the cleanup may fail as well; one whose COMMIT raised takes it away *)
(* without knowing whether the database committed.  Downloads read the     *)
(* row, look for the file and open it only when the answer is under way.   *)
(*                                                                         *)
(* Every upload has a fresh object key, so an upload, its file and its row *)
(* go by one name.  Sizes are in chunks.                                   *)
(***************************************************************************)
EXTENDS Naturals

CONSTANTS
  Uploads,
  Downloads,     \* the handlers of downloads
  Absent,        \* the size of a file or a row that is not there
  NoUpload,      \* what an idle download is of
  MaxSize,       \* max_attachment_size_bytes
  MaxFaults      \* bound: failures and lost processes

ASSUME SizeAssumption == MaxSize \in Nat \ {0} /\ MaxFaults \in Nat
ASSUME AbsentAssumption == Absent \notin Nat
ASSUME NoUploadAssumption == NoUpload \notin Uploads

VARIABLES
  file,       \* the storage: how much of an upload's file is written
  row,        \* ticket_attachments: the committed size_bytes
  pc,         \* where the handler of an upload is
  answer,     \* what it told its client
  inDoubt,    \* history: uploads whose COMMIT took effect and raised
  abandoned,  \* history: uploads whose cleanup raised
  download,   \* the downloads being handled
  faults      \* failures still to come

vars == <<file, row, pc, answer, inDoubt, abandoned, download, faults>>
uploadVars == <<file, row, pc, answer, inDoubt, abandoned>>
-----------------------------------------------------------------------------
Size == Nat \cup {Absent}
\* Where a handler takes its file away: of a refused upload, after a failed write,
\* after a commit that raised.
Cleaning == {"reject", "unlink", "delete"}
Steps == {"open", "write", "commit", "committed", "refresh"} \cup Cleaning
Answers == {"none", "created", "refused", "failed"}

\* A download keeps the row it read.  A body that was served has delivered `got`; for
\* another there was no file, or it failed.
Over == {"idle", "served", "missing", "broken"}
Download == [pc : {"exists", "stream"} \cup Over,
             of : Uploads \cup {NoUpload}, size : Size, got : Size]
Idle == [pc |-> "idle", of |-> NoUpload, size |-> Absent, got |-> Absent]

TypeOK ==
  /\ file \in [Uploads -> 0 .. MaxSize \cup {Absent}]
  /\ row \in [Uploads -> 1 .. MaxSize \cup {Absent}]
  /\ pc \in [Uploads -> Steps \cup {"new", "ended"}]
  /\ answer \in [Uploads -> Answers]
  /\ inDoubt \in SUBSET Uploads /\ abandoned \in SUBSET Uploads
  /\ download \in [Downloads -> Download]
  /\ faults \in Nat

Init ==
  /\ file = [u \in Uploads |-> Absent]
  /\ row = [u \in Uploads |-> Absent]
  /\ pc = [u \in Uploads |-> "new"]
  /\ answer = [u \in Uploads |-> "none"]
  /\ inDoubt = {} /\ abandoned = {}
  /\ download = [d \in Downloads |-> Idle]
  /\ faults = MaxFaults

At(u, step) == pc[u] = step
Goto(u, step) == pc' = [pc EXCEPT ![u] = step]
End(u, told) == Goto(u, "ended") /\ answer' = [answer EXCEPT ![u] = told]
Fault == faults > 0 /\ faults' = faults - 1
-----------------------------------------------------------------------------
(* The upload (TicketCollaborationService.upload_attachment) *)

\* The ticket, the name, the declared type and the first chunk are looked at before
\* anything is written.
Refuse(u) ==
  /\ At(u, "new") /\ End(u, "refused")
  /\ UNCHANGED <<file, row, inDoubt, abandoned, download, faults>>
Admit(u) ==
  /\ At(u, "new") /\ Goto(u, "open")
  /\ UNCHANGED <<file, row, answer, inDoubt, abandoned, download, faults>>

\* open(..., "xb") in a thread.
Open(u) ==
  /\ At(u, "open") /\ Goto(u, "write")
  /\ file' = [file EXCEPT ![u] = 0]
  /\ UNCHANGED <<row, answer, inDoubt, abandoned, download, faults>>
\* A look-up, mkdir or open raises: there is no file yet.
OpenRaises(u) ==
  /\ pc[u] \in {"new", "open"} /\ Fault /\ End(u, "failed")
  /\ UNCHANGED <<file, row, inDoubt, abandoned, download>>
\* Cancelled meanwhile: the thread goes on, and `created` is still false.
CancelOpen(u) ==
  /\ At(u, "open") /\ Fault /\ End(u, "none")
  /\ \E size \in {0, Absent} : file' = [file EXCEPT ![u] = size]
  /\ UNCHANGED <<row, inDoubt, abandoned, download>>

\* Mutant of Fits: the limit is compared before the chunk is counted.
FitsBefore(u) == file[u] <= MaxSize
Fits(u) == file[u] + 1 <= MaxSize
\* bounded_chunks counts a chunk and checks it before the storage gets it.
Write(u) ==
  /\ At(u, "write") /\ Fits(u)
  /\ file' = [file EXCEPT ![u] = @ + 1]
  /\ UNCHANGED <<row, pc, answer, inDoubt, abandoned, download, faults>>
\* Too large, or not the content its type promises.
RejectChunk(u) ==
  /\ At(u, "write") /\ Goto(u, "reject")
  /\ UNCHANGED <<file, row, answer, inDoubt, abandoned, download, faults>>
\* An error of the disk, or a cancelled handler.
FailWrite(u) ==
  /\ At(u, "write") /\ Fault /\ Goto(u, "unlink")
  /\ UNCHANGED <<file, row, answer, inDoubt, abandoned, download>>
\* The first chunk is never empty.
Close(u) ==
  /\ At(u, "write") /\ file[u] > 0 /\ Goto(u, "commit")
  /\ UNCHANGED <<file, row, answer, inDoubt, abandoned, download, faults>>

\* Mutant of Unlinked: what was written stays where it is.
LeftBehind(u) == UNCHANGED file
Unlinked(u) == file' = [file EXCEPT ![u] = Absent]
\* The file is closed and taken away, and what had been raised goes on to the client.
Unlink(u) ==
  /\ \/ At(u, "reject") /\ End(u, "refused")
     \/ At(u, "unlink") /\ End(u, "failed")
  /\ Unlinked(u)
  /\ UNCHANGED <<row, inDoubt, abandoned, download, faults>>

\* The cleanup raises or is cancelled, before the file is taken away or after: the close
\* that comes first flushes again what could not be written, a rollback finds no
\* connection, the unlink itself fails.  Nobody tries again.
CleanupRaises(u) ==
  /\ pc[u] \in Cleaning /\ Fault /\ End(u, "failed")
  /\ UNCHANGED file \/ Unlinked(u)
  /\ abandoned' = abandoned \cup {u}
  /\ UNCHANGED <<row, inDoubt, download>>

\* Mutant of Recorded: the size without the last chunk.
AllButLast(u) == IF file[u] > 1 THEN file[u] - 1 ELSE file[u]
Recorded(u) == file[u]
\* The database commits; its answer is on its way.
Commit(u) ==
  /\ At(u, "commit") /\ Goto(u, "committed")
  /\ row' = [row EXCEPT ![u] = Recorded(u)]
  /\ UNCHANGED <<file, answer, inDoubt, abandoned, download, faults>>
\* The commit raises, before it took effect or after: a lost connection, a cancelled
\* handler.
CommitRaises(u) ==
  /\ \/ At(u, "commit") /\ UNCHANGED inDoubt
     \/ At(u, "committed") /\ inDoubt' = inDoubt \cup {u}
  /\ Fault /\ Goto(u, "delete")
  /\ UNCHANGED <<file, row, answer, abandoned, download>>
\* Rolled back, which changes nothing that is committed, and the file deleted.
Delete(u) ==
  /\ At(u, "delete") /\ Unlinked(u) /\ End(u, "failed")
  /\ UNCHANGED <<row, inDoubt, abandoned, download, faults>>

Committed(u) ==
  /\ At(u, "committed") /\ Goto(u, "refresh")
  /\ UNCHANGED <<file, row, answer, inDoubt, abandoned, download, faults>>
Refresh(u) ==
  /\ At(u, "refresh") /\ End(u, "created")
  /\ UNCHANGED <<file, row, inDoubt, abandoned, download, faults>>
\* Mutant of AfterRefreshError: the refresh is inside the try that deletes the file.
Compensate(u) == Goto(u, "delete") /\ UNCHANGED answer
AfterRefreshError(u) == End(u, "failed")
RefreshRaises(u) ==
  /\ At(u, "refresh") /\ Fault /\ AfterRefreshError(u)
  /\ UNCHANGED <<file, row, inDoubt, abandoned, download>>

\* The process is lost, in a cleanup before the file is gone or after; nothing runs
\* afterwards that would look for its files.
Crash(u) ==
  /\ pc[u] \in Steps /\ Fault /\ End(u, "none")
  /\ UNCHANGED file \/ (pc[u] \in Cleaning /\ Unlinked(u))
  /\ UNCHANGED <<row, inDoubt, abandoned, download>>
-----------------------------------------------------------------------------
(* The download (download_attachment, LocalAttachmentStorage.read) *)

Look(d, u) ==
  /\ download[d].pc \in Over /\ row[u] # Absent
  /\ download' = [download EXCEPT ![d] =
                    [pc |-> "exists", of |-> u, size |-> row[u], got |-> Absent]]
  /\ UNCHANGED <<uploadVars, faults>>
\* 404 without the file; with it the answer starts.
Exists(d) ==
  /\ download[d].pc = "exists"
  /\ download' = [download EXCEPT ![d].pc =
                    IF file[download[d].of] = Absent THEN "missing" ELSE "stream"]
  /\ UNCHANGED <<uploadVars, faults>>
\* The body opens the file when it is asked for; an open file is read to its end
\* even if it is unlinked.  Without the file the body breaks off after the 200.
Stream(d) ==
  LET size == file[download[d].of] IN
  /\ download[d].pc = "stream"
  /\ download' = [download EXCEPT ![d] =
                    [pc |-> IF size = Absent THEN "missing" ELSE "served",
                     of |-> @.of, size |-> @.size, got |-> size]]
  /\ UNCHANGED <<uploadVars, faults>>
\* Looking for the file, opening or reading it raises, or the process is lost: before
\* the 200 or after, whatever the file is.
Breaks(d) ==
  /\ download[d].pc \in {"exists", "stream"} /\ Fault
  /\ download' = [download EXCEPT ![d].pc = "broken"]
  /\ UNCHANGED uploadVars
-----------------------------------------------------------------------------
Step(u) == \/ Open(u) \/ Write(u) \/ RejectChunk(u) \/ Close(u) \/ Unlink(u)
           \/ Commit(u) \/ Committed(u) \/ Refresh(u) \/ Delete(u)
Failure(u) == \/ OpenRaises(u) \/ CancelOpen(u) \/ FailWrite(u) \/ CommitRaises(u)
              \/ RefreshRaises(u) \/ CleanupRaises(u) \/ Crash(u)

Next ==
  \/ \E u \in Uploads : Refuse(u) \/ Admit(u) \/ Step(u) \/ Failure(u)
  \/ \E d \in Downloads :
       Exists(d) \/ Stream(d) \/ Breaks(d) \/ \E u \in Uploads : Look(d, u)

Spec == Init /\ [][Next]_vars
-----------------------------------------------------------------------------
(* Correctness *)

\* What the client was told is so and stays so: an attachment that was created has
\* its row and the whole of its file, of a size within the limit; one that was
\* refused left neither, as 413 and 415 are told only after the cleanup; after an
\* error there is a file without its row only if the cleanup raised as well
\* (upload_attachment, LocalAttachmentStorage.write).
AnswersTrue ==
  \A u \in Uploads :
    /\ answer[u] = "created" => row[u] # Absent /\ file[u] = row[u] /\ row[u] <= MaxSize
    /\ answer[u] = "refused" => row[u] = Absent /\ file[u] = Absent
    /\ answer[u] = "failed" /\ row[u] = Absent => file[u] = Absent \/ u \in abandoned

\* Whatever fails or is lost, a committed row has its file, whole, but for an upload
\* whose COMMIT took effect and raised all the same: upload_attachment deletes the
\* file of that one (`except BaseException`).
RowHasFile ==
  \A u \in Uploads \ inDoubt : row[u] # Absent => file[u] = row[u]

\* A body that ends without an error is as large as the row said; the file of a
\* committed row is found missing, before the 200 or after it, only for an upload that
\* was in doubt.  A disk that fails and a process that is lost may break off any body
\* (download_attachment, LocalAttachmentStorage.read).
ServedWhole ==
  \A d \in Downloads :
    /\ download[d].pc = "served" => download[d].got = download[d].size
    /\ download[d].pc = "missing" => download[d].of \in inDoubt
=============================================================================
