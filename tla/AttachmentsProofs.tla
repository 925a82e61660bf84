-------------------------- MODULE AttachmentsProofs --------------------------
(***************************************************************************)
(* The invariants of Attachments, for any number of uploads and downloads, *)
(* any limit of size and any number of faults.  What makes them inductive  *)
(* is where a handler is: until it commits there is no row, and from the   *)
(* commit on the row and the file agree or the upload is in doubt.  A file *)
(* without its row is left only by a lost process or a cleanup that raised.*)
(***************************************************************************)
EXTENDS Attachments, TLAPS

USE SizeAssumption, AbsentAssumption, NoUploadAssumption
-----------------------------------------------------------------------------
(* Where a handler is, and what it has done by then *)

\* There is no row before the commit, and no file before it is opened.
Before(u) ==
  /\ pc[u] \in {"new", "open", "write", "reject", "unlink", "commit"} => row[u] = Absent
  /\ pc[u] \in {"new", "open"} => file[u] = Absent
  /\ pc[u] \in {"write", "commit"} => file[u] # Absent
  /\ pc[u] = "commit" => file[u] # 0
\* The handler deletes the file of a committed row only in doubt.
After(u) ==
  /\ pc[u] \in {"committed", "refresh"} => row[u] # Absent /\ u \notin inDoubt
  /\ pc[u] = "delete" /\ row[u] # Absent => u \in inDoubt
  /\ u \in inDoubt => pc[u] \in {"delete", "ended"} /\ answer[u] \in {"none", "failed"}
  /\ row[u] # Absent => file[u] = row[u] \/ (u \in inDoubt /\ file[u] = Absent)
Told(u) ==
  /\ answer[u] # "none" => pc[u] = "ended"
  /\ answer[u] = "created" => row[u] # Absent
  /\ answer[u] = "refused" => row[u] = Absent /\ file[u] = Absent
  /\ answer[u] = "failed" /\ row[u] = Absent => file[u] = Absent \/ u \in abandoned
UploadInv == \A u \in Uploads : Before(u) /\ After(u) /\ Told(u)

\* A download has the row of its upload as it is; what it served was the file, and a file
\* it missed was one in doubt.
Reading(d) ==
  /\ download[d].pc # "idle" => /\ download[d].of \in Uploads
                                /\ row[download[d].of] = download[d].size
                                /\ download[d].size # Absent
  /\ download[d].pc = "served" => download[d].got = download[d].size
  /\ download[d].pc = "missing" => download[d].of \in inDoubt
DownloadInv == \A d \in Downloads : Reading(d)

-----------------------------------------------------------------------------
(* Types *)

LEMMA TypeInit == Init => TypeOK
  BY DEF Init, TypeOK, Steps, Answers, Download, Over, Idle, Size

\* Every step of an upload keeps the types; it touches no download.
LEMMA UploadTypes ==
  ASSUME NEW u \in Uploads, TypeOK, Before(u),
         Refuse(u) \/ Admit(u) \/ Step(u) \/ Failure(u)
  PROVE  TypeOK'
<1> USE DEF TypeOK, Steps, Cleaning, Answers
<1>1. CASE Refuse(u)
  BY <1>1 DEF Refuse, End, Goto, At
<1>2. CASE Admit(u)
  BY <1>2 DEF Admit, Goto, At
<1>3. CASE Open(u)
  BY <1>3 DEF Open, Goto, At
<1>4. CASE CancelOpen(u)
  BY <1>4 DEF CancelOpen, End, Goto, At, Fault
<1>5. CASE Write(u)
  <2>1. file[u] \in Nat /\ file[u] + 1 \in 0 .. MaxSize
    BY <1>5 DEF Write, At, Fits, Before
  <2> QED  BY <1>5, <2>1 DEF Write
<1>6. CASE RejectChunk(u)
  BY <1>6 DEF RejectChunk, Goto, At
<1>7. CASE FailWrite(u)
  BY <1>7 DEF FailWrite, Goto, At, Fault
<1>8. CASE Close(u)
  BY <1>8 DEF Close, Goto, At
<1>9. CASE Unlink(u)
  BY <1>9 DEF Unlink, Unlinked, End, Goto, At
<1>10. CASE Commit(u)
  <2>1. file[u] \in 1 .. MaxSize
    BY <1>10 DEF Commit, At, Before
  <2>2. row' = [row EXCEPT ![u] = file[u]] /\ pc' = [pc EXCEPT ![u] = "committed"]
        /\ pc[u] = "commit" /\ UNCHANGED <<file, answer, inDoubt, abandoned, download, faults>>
    BY <1>10 DEF Commit, Goto, At, Recorded
  <2> QED  BY <2>1, <2>2
<1>11. CASE CommitRaises(u)
  BY <1>11 DEF CommitRaises, Goto, At, Fault
<1>12. CASE Delete(u)
  BY <1>12 DEF Delete, Unlinked, End, Goto, At
<1>13. CASE Committed(u)
  BY <1>13 DEF Committed, Goto, At
<1>14. CASE Refresh(u)
  BY <1>14 DEF Refresh, End, Goto, At
<1>15. CASE RefreshRaises(u)
  BY <1>15 DEF RefreshRaises, AfterRefreshError, End, Goto, At, Fault
<1>16. CASE Crash(u)
  BY <1>16 DEF Crash, Unlinked, End, Goto, Fault
<1>17. CASE OpenRaises(u)
  BY <1>17 DEF OpenRaises, End, Goto, Fault
<1>18. CASE CleanupRaises(u)
  BY <1>18 DEF CleanupRaises, Unlinked, End, Goto, Fault
<1> QED  BY <1>1, <1>2, <1>3, <1>4, <1>5, <1>6, <1>7, <1>8, <1>9, <1>10, <1>11, <1>12, <1>13, <1>14, <1>15, <1>16, <1>17, <1>18 DEF Step, Failure

LEMMA DownloadTypes ==
  ASSUME TypeOK, NEW d \in Downloads, Reading(d),
         Exists(d) \/ Stream(d) \/ Breaks(d) \/ \E u \in Uploads : Look(d, u)
  PROVE  TypeOK'
<1> USE DEF TypeOK, Download, Over, Size, uploadVars
<1>1. CASE Exists(d)
  BY <1>1 DEF Exists
<1>2. CASE Stream(d)
  <2>1. file[download[d].of] \in Size
    BY <1>2 DEF Stream, Reading
  <2>2. \E step \in {"missing", "served"} :
          download' = [download EXCEPT ![d] = [pc |-> step, of |-> @.of, size |-> @.size,
                                               got |-> file[download[d].of]]]
    BY <1>2 DEF Stream
  <2> QED  BY <1>2, <2>1, <2>2 DEF Stream
<1>3. ASSUME NEW u \in Uploads, Look(d, u)
      PROVE  TypeOK'
  BY <1>3 DEF Look
<1>4. CASE Breaks(d)
  BY <1>4 DEF Breaks, Fault
<1> QED  BY <1>1, <1>2, <1>3, <1>4

LEMMA TypeStep == TypeOK /\ UploadInv /\ DownloadInv /\ [Next]_vars => TypeOK'
<1> SUFFICES ASSUME TypeOK, UploadInv, DownloadInv, [Next]_vars
             PROVE  TypeOK'
  OBVIOUS
<1>0. (\A u \in Uploads : Before(u)) /\ \A d \in Downloads : Reading(d)
  BY DEF UploadInv, DownloadInv
<1>1. CASE UNCHANGED vars
  BY <1>1 DEF vars, TypeOK
<1> QED  BY <1>0, <1>1, UploadTypes, DownloadTypes DEF Next
-----------------------------------------------------------------------------
(* Files, rows and answers *)

LEMMA UploadInit == Init => UploadInv
  BY DEF Init, UploadInv, Before, After, Told

\* A step of one upload leaves the others' files, rows and handlers as they are, and
\* a row that is there stays as it is.
Others(u) ==
  \A v \in Uploads \ {u} :
    /\ file'[v] = file[v] /\ row'[v] = row[v] /\ pc'[v] = pc[v] /\ answer'[v] = answer[v]
    /\ v \in inDoubt' <=> v \in inDoubt
    /\ v \in abandoned' <=> v \in abandoned
Kept(u) == row[u] # Absent => row'[u] = row[u]

LEMMA UploadStep ==
  ASSUME NEW u \in Uploads, TypeOK, UploadInv,
         Refuse(u) \/ Admit(u) \/ Step(u) \/ Failure(u)
  PROVE  Before(u)' /\ After(u)' /\ Told(u)' /\ Others(u) /\ Kept(u)
         /\ inDoubt \subseteq inDoubt' /\ UNCHANGED download
<1>0. Before(u) /\ After(u) /\ Told(u)
  BY DEF UploadInv
<1> USE <1>0 DEF TypeOK, Steps, Cleaning, Answers, Before, After, Told, Others, Kept
<1>1. CASE Refuse(u)
  BY <1>1 DEF Refuse, End, Goto, At
<1>2. CASE Admit(u)
  BY <1>2 DEF Admit, Goto, At
<1>3. CASE Open(u)
  BY <1>3 DEF Open, Goto, At
<1>4. CASE CancelOpen(u)
  BY <1>4 DEF CancelOpen, End, Goto, At, Fault
<1>5. CASE Write(u)
  BY <1>5 DEF Write, At, Fits
<1>6. CASE RejectChunk(u)
  BY <1>6 DEF RejectChunk, Goto, At
<1>7. CASE FailWrite(u)
  BY <1>7 DEF FailWrite, Goto, At, Fault
<1>8. CASE Close(u)
  BY <1>8 DEF Close, Goto, At
<1>9. CASE Unlink(u)
  BY <1>9 DEF Unlink, Unlinked, End, Goto, At
<1>10. CASE Commit(u)
  BY <1>10 DEF Commit, Goto, At, Recorded
<1>11. CASE CommitRaises(u)
  BY <1>11 DEF CommitRaises, Goto, At, Fault
<1>12. CASE Delete(u)
  BY <1>12 DEF Delete, Unlinked, End, Goto, At
<1>13. CASE Committed(u)
  BY <1>13 DEF Committed, Goto, At
<1>14. CASE Refresh(u)
  BY <1>14 DEF Refresh, End, Goto, At
<1>15. CASE RefreshRaises(u)
  BY <1>15 DEF RefreshRaises, AfterRefreshError, End, Goto, At, Fault
<1>16. CASE Crash(u)
  BY <1>16 DEF Crash, Unlinked, End, Goto, Fault
<1>17. CASE OpenRaises(u)
  BY <1>17 DEF OpenRaises, End, Goto, Fault
<1>18. CASE CleanupRaises(u)
  BY <1>18 DEF CleanupRaises, Unlinked, End, Goto, Fault
<1> QED  BY ONLY <1>1, <1>2, <1>3, <1>4, <1>5, <1>6, <1>7, <1>8, <1>9, <1>10, <1>11, <1>12, <1>13, <1>14, <1>15, <1>16, <1>17, <1>18, Refuse(u) \/ Admit(u) \/ Step(u) \/ Failure(u) DEF Step, Failure

LEMMA OthersInv ==
  ASSUME NEW u \in Uploads, UploadInv, Others(u), Before(u)' /\ After(u)' /\ Told(u)'
  PROVE  UploadInv'
<1> SUFFICES ASSUME NEW v \in Uploads
             PROVE  (Before(v) /\ After(v) /\ Told(v))'
  BY DEF UploadInv
<1>1. CASE v = u
  BY <1>1
<1>2. CASE v # u
  <2>1. Before(v) /\ After(v) /\ Told(v)
    BY DEF UploadInv
  <2> QED  BY <1>2, <2>1 DEF Others, Before, After, Told
<1> QED  BY <1>1, <1>2
-----------------------------------------------------------------------------
(* Downloads *)

LEMMA DownloadInit == Init => DownloadInv
  BY DEF Init, DownloadInv, Reading, Idle

\* Uploads neither change nor take away the row a download has read.
LEMMA DownloadKept ==
  ASSUME DownloadInv, UNCHANGED download, inDoubt \subseteq inDoubt',
         \A v \in Uploads : Kept(v)
  PROVE  DownloadInv'
  BY DEF DownloadInv, Reading, Kept

LEMMA DownloadStep ==
  ASSUME TypeOK, UploadInv, DownloadInv, NEW d \in Downloads,
         Exists(d) \/ Stream(d) \/ Breaks(d) \/ \E u \in Uploads : Look(d, u)
  PROVE  DownloadInv'
<1> SUFFICES ASSUME NEW e \in Downloads
             PROVE  Reading(e)'
  BY DEF DownloadInv
<1>1. Reading(e) /\ Reading(d)
  BY DEF DownloadInv
<1>2. UNCHANGED <<row, inDoubt>> /\ (e # d => download'[e] = download[e])
  BY DEF Exists, Stream, Breaks, Look, uploadVars, TypeOK
<1>3. CASE e # d
  BY <1>1, <1>2, <1>3 DEF Reading
<1>4. CASE e = d /\ Exists(d)
  <2> DEFINE u == download[d].of
  <2>1. u \in Uploads /\ row[u] = download[d].size /\ row[u] # Absent
    BY <1>1, <1>4 DEF Exists, Reading
  <2>2. file[u] = row[u] \/ (u \in inDoubt /\ file[u] = Absent)
    BY <2>1 DEF UploadInv, After
  <2> QED  BY <1>2, <1>4, <2>1, <2>2 DEF Exists, Reading, TypeOK, Download
<1>5. CASE e = d /\ Stream(d)
  <2> DEFINE u == download[d].of
  <2>1. u \in Uploads /\ row[u] = download[d].size /\ row[u] # Absent
    BY <1>1, <1>5 DEF Stream, Reading
  <2>2. file[u] = row[u] \/ (u \in inDoubt /\ file[u] = Absent)
    BY <2>1 DEF UploadInv, After
  <2> QED  BY <1>2, <1>5, <2>1, <2>2 DEF Stream, Reading, TypeOK, Download
<1>6. ASSUME NEW u \in Uploads, Look(d, u), e = d
      PROVE  Reading(e)'
  BY <1>2, <1>6 DEF Look, Reading, TypeOK, Download
<1>7. CASE e = d /\ Breaks(d)
  BY <1>1, <1>2, <1>7 DEF Breaks, Reading, TypeOK, Download
<1> QED  BY <1>3, <1>4, <1>5, <1>6, <1>7
-----------------------------------------------------------------------------
(* The inductive invariant and what follows *)

IInv == TypeOK /\ UploadInv /\ DownloadInv

LEMMA Initially == Init => IInv
  BY TypeInit, UploadInit, DownloadInit DEF IInv

LEMMA Inductive == IInv /\ [Next]_vars => IInv'
<1> SUFFICES ASSUME TypeOK, UploadInv, DownloadInv, [Next]_vars
             PROVE  UploadInv' /\ DownloadInv'
  BY TypeStep DEF IInv
<1>1. ASSUME NEW u \in Uploads, Refuse(u) \/ Admit(u) \/ Step(u) \/ Failure(u)
      PROVE  UploadInv' /\ DownloadInv'
  <2>1. /\ Before(u)' /\ After(u)' /\ Told(u)' /\ Others(u) /\ Kept(u)
        /\ inDoubt \subseteq inDoubt' /\ UNCHANGED download
    BY <1>1, UploadStep
  <2>2. \A v \in Uploads : Kept(v)
    BY <2>1 DEF Others, Kept
  <2> QED  BY <2>1, <2>2, OthersInv, DownloadKept
<1>2. ASSUME NEW d \in Downloads,
             Exists(d) \/ Stream(d) \/ Breaks(d) \/ \E u \in Uploads : Look(d, u)
      PROVE  UploadInv' /\ DownloadInv'
  <2>1. UNCHANGED uploadVars
    BY <1>2 DEF Exists, Stream, Breaks, Look
  <2>2. UploadInv'
    BY <2>1 DEF uploadVars, UploadInv, Before, After, Told
  <2> QED  BY <1>2, <2>2, DownloadStep
<1>3. CASE UNCHANGED vars
  BY <1>3 DEF vars, UploadInv, Before, After, Told, DownloadInv, Reading
<1> QED  BY <1>1, <1>2, <1>3 DEF Next

LEMMA Follow == IInv => AnswersTrue /\ RowHasFile /\ ServedWhole
<1> SUFFICES ASSUME TypeOK, UploadInv, DownloadInv
             PROVE  AnswersTrue /\ RowHasFile /\ ServedWhole
  BY DEF IInv
<1>1. AnswersTrue
  <2> SUFFICES ASSUME NEW u \in Uploads, After(u), Told(u)
               PROVE  /\ answer[u] = "created" => row[u] # Absent /\ file[u] = row[u]
                                                  /\ row[u] <= MaxSize
                      /\ answer[u] = "refused" => row[u] = Absent /\ file[u] = Absent
                      /\ answer[u] = "failed" /\ row[u] = Absent
                           => file[u] = Absent \/ u \in abandoned
    BY DEF AnswersTrue, UploadInv
  <2> QED  BY DEF After, Told, TypeOK
<1>2. RowHasFile
  BY DEF RowHasFile, UploadInv, After
<1>3. ServedWhole
  BY DEF ServedWhole, DownloadInv, Reading
<1> QED  BY <1>1, <1>2, <1>3

\* Files, rows, handlers and downloads keep their types; no file and no row is ever
\* larger than the limit.
THEOREM TypesHold == Spec => []TypeOK
  BY Initially, Inductive, PTL DEF Spec, IInv

\* What a client was told of its upload is true and stays true: a created attachment is
\* whole, a refused one left nothing, a failed one a file without its row only if the
\* cleanup raised too.
THEOREM AnswersStayTrue == Spec => []AnswersTrue
  BY Initially, Inductive, Follow, PTL DEF Spec

\* A committed row has its file, unless its COMMIT took effect and raised.
THEOREM RowsHaveFiles == Spec => []RowHasFile
  BY Initially, Inductive, Follow, PTL DEF Spec

\* A body that ends without an error is what its row says, and a committed row's file is
\* found missing only for an upload in doubt; an error of the disk may end any body.
THEOREM DownloadsAreWhole == Spec => []ServedWhole
  BY Initially, Inductive, Follow, PTL DEF Spec
=============================================================================
