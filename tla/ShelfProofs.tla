---------------------------- MODULE ShelfProofs ----------------------------
(* What the repository stores, proved of any requests that name different   *)
(* files while they run: nothing torn, and without failures the shelf.      *)
EXTENDS RepositoryProofs

-----------------------------------------------------------------------------
(* The footprint of a step *)

\* A step of request r stays away from the locals of other requests, from the
\* files that running ones name, and from every file but its own.
Apart(r, f) ==
    /\ \A q \in Requests : q # r =>
        /\ pc'[q] = pc[q] /\ fd'[q] = fd[q] /\ file'[q] = file[q]
        /\ body'[q] = body[q] /\ sent'[q] = sent[q]
        /\ meta'[q] = meta[q] /\ old'[q] = old[q]
        /\ Busy(q) => file[q] # f
    /\ \A g \in Filenames : g # f =>
        /\ staged'[g] = staged[g]
        /\ published'[g] = published[g] /\ files'[g] = files[g]
        /\ \A d \in Dirs : disk'[d][g] = disk[d][g]

LEMMA BeginApart ==
    ASSUME ~SharedNames, TypeInv, NEW r \in Requests, NEW f \in Filenames,
           \/ \E a \in Archives : StartPublish(r, f, a) \/ StartLog(r, f, a)
           \/ StartUnpublish(r, f)
    PROVE  Apart(r, f) /\ file'[r] = f
<1>1. MayUse(r, f)
  BY DEF StartPublish, StartLog, StartUnpublish
<1>2. \A q \in Requests : Busy(q) => file[q] # f
  BY <1>1 DEF MayUse
<1>. QED
  BY <1>2 DEF Apart, StartPublish, StartLog, StartUnpublish, Goto, TypeInv,
              TypeOK, dbVars, fsVars, ingestVars

LEMMA StepApart ==
    ASSUME TypeInv, Owned, NEW r \in Requests, Receive(r) \/ Work(r) \/ Fail(r)
    PROVE  Apart(r, file[r]) /\ UNCHANGED <<file, body>> /\ file[r] \in Filenames
<1>. USE DEF TypeInv, TypeOK
<1>1. /\ UNCHANGED <<file, body>>
      /\ Busy(r)
      /\ \A q \in Requests : q # r =>
            /\ pc'[q] = pc[q] /\ sent'[q] = sent[q]
            /\ meta'[q] = meta[q] /\ old'[q] = old[q]
  BY DEF Receive, Work, Fail, WriteChunk, EndOfBody, AbortUpload, DropUpload,
         Inspect, RejectUpload, ReadPrevious, ClearPrevious, Rename,
         RenameMissing, Upsert, PutFiles, PlanIndex, ScanDir, ScanUnreadable,
         WriteIndex, Reply, DeleteRow, DeleteNothing, Unlink, PutLog, Reject,
         GiveUp, Finish, Goto, uploadVars, ingestVars, Busy, IngestSteps,
         IndexSteps, WithdrawSteps
<1>2. file[r] \in Filenames
  BY <1>1 DEF Busy, Holds
<1>3. \A q \in Requests : q # r /\ Busy(q) => file[q] # file[r]
  BY <1>1 DEF Owned
<1>4. \A q \in Requests : q # r => fd'[q] = fd[q]
  BY <1>3, ContentsFacts
     DEF Receive, Work, Fail, WriteChunk, EndOfBody, AbortUpload, DropUpload,
         Inspect, RejectUpload, ReadPrevious, ClearPrevious, Rename,
         RenameMissing, Upsert, PutFiles, PlanIndex, ScanDir, ScanUnreadable,
         WriteIndex, Reply, DeleteRow, DeleteNothing, Unlink, PutLog, Reject,
         GiveUp, RemoveStaged, CloseAt, MoveTo, uploadVars, Busy
<1>5. \A g \in Filenames : g # file[r] =>
        /\ staged'[g] = staged[g]
        /\ published'[g] = published[g] /\ files'[g] = files[g]
  BY DEF Receive, Work, Fail, WriteChunk, EndOfBody, AbortUpload, DropUpload,
         Inspect, RejectUpload, ReadPrevious, ClearPrevious, Rename,
         RenameMissing, Upsert, PutFiles, PlanIndex, ScanDir, ScanUnreadable,
         WriteIndex, Reply, DeleteRow, DeleteNothing, Unlink, PutLog, Reject,
         GiveUp, RemoveStaged, dbVars, fsVars
<1>6. \A g \in Filenames : g # file[r] => \A d \in Dirs : disk'[d][g] = disk[d][g]
  BY DEF Receive, Work, Fail, WriteChunk, EndOfBody, AbortUpload, DropUpload,
         Inspect, RejectUpload, ReadPrevious, ClearPrevious, Rename,
         RenameMissing, Upsert, PutFiles, PlanIndex, ScanDir, ScanUnreadable,
         WriteIndex, Reply, DeleteRow, DeleteNothing, Unlink, PutLog, Reject,
         GiveUp, fsVars
<1>. QED
  BY <1>1, <1>2, <1>3, <1>4, <1>5, <1>6 DEF Apart

-----------------------------------------------------------------------------
(* Nothing torn is stored *)

\* What has been written of a request's upload so far.
Pieces(r) == [i \in 1 .. NChunks |-> IF i <= sent[r] THEN body[r] ELSE None]

\* A file that passed the inspection has no writer any more and is the whole
\* archive that was sent, until it is moved.
Staging(r) ==
    /\ fd[r] # None =>
           fd[r] = Staged /\ pc[r] \in {"idle", "upload", "inspect"}
    /\ pc[r] \in {"upload", "inspect"} => staged[file[r]] = Pieces(r)
    /\ pc[r] \in {"previous", "clear", "rename"} =>
           staged[file[r]] = Whole(meta[r])
    /\ pc[r] \in IngestSteps \ {"inspect"} => body[r] = meta[r]
    /\ pc[r] \in WithdrawSteps => body[r] = None
    /\ pc[r] \in {"idle", "upload", "inspect", "previous", "delete", "log"} =>
           old[r] = None

StagingInv == TypeInv /\ Owned /\ \A r \in Requests : Staging(r)

LEMMA StagingInit == Init => StagingInv
BY TypeInit DEF Init, StagingInv, Staging, Owned, Busy, IngestSteps, WithdrawSteps

LEMMA OthersStaging ==
    ASSUME StagingInv, NEW r \in Requests, NEW f, Apart(r, f),
           NEW q \in Requests, q # r
    PROVE  Staging(q)'
<1>1. /\ pc'[q] = pc[q] /\ fd'[q] = fd[q] /\ file'[q] = file[q]
      /\ body'[q] = body[q] /\ sent'[q] = sent[q]
      /\ meta'[q] = meta[q] /\ old'[q] = old[q]
  BY DEF Apart
<1>2. Pieces(q)' = Pieces(q)
  BY <1>1 DEF Pieces
<1>3. Whole(meta[q])' = Whole(meta[q])
  BY <1>1 DEF Whole
<1>4. pc[q] # "idle" => staged'[file[q]] = staged[file[q]]
  BY DEF Apart, Busy, StagingInv, TypeInv, Holds
<1>. QED
  BY <1>1, <1>2, <1>3, <1>4
     DEF Staging, StagingInv, IngestSteps, WithdrawSteps

LEMMA BeginStaging ==
    ASSUME StagingInv, NEW r \in Requests, NEW f \in Filenames,
           \/ \E a \in Archives : StartPublish(r, f, a) \/ StartLog(r, f, a)
           \/ StartUnpublish(r, f)
    PROVE  Staging(r)'
<1>. USE DEF StagingInv, TypeInv, TypeOK
<1>1. pc[r] = "idle" /\ fd[r] = None /\ old[r] = None
  BY DEF StartPublish, StartLog, StartUnpublish, MayUse, Busy, Staging
<1>2. ASSUME NEW a \in Archives, StartPublish(r, f, a) PROVE Staging(r)'
  <2>1. /\ pc'[r] = "upload" /\ fd'[r] = Staged /\ old'[r] = None
        /\ file'[r] = f /\ sent'[r] = 0 /\ staged'[f] = Blank
    BY <1>1, <1>2 DEF StartPublish, Goto, ingestVars
  <2>2. Pieces(r)' = Blank
    BY <2>1, ContentsFacts DEF Pieces, Blank
  <2>. QED
    BY <2>1, <2>2 DEF Staging, IngestSteps, WithdrawSteps
<1>3. ASSUME NEW a \in Archives, StartLog(r, f, a) PROVE Staging(r)'
  BY <1>1, <1>3 DEF StartLog, Goto, ingestVars, Staging, IngestSteps, WithdrawSteps
<1>4. CASE StartUnpublish(r, f)
  BY <1>1, <1>4
     DEF StartUnpublish, Goto, ingestVars, Staging, IngestSteps, WithdrawSteps
<1>. QED
  BY <1>2, <1>3, <1>4

LEMMA WriteStaging ==
    ASSUME StagingInv, NEW r \in Requests, WriteChunk(r)
    PROVE  Staging(r)' /\ UNCHANGED disk
<1>. DEFINE n == sent[r] + 1
            f == file[r]
<1>. USE DEF StagingInv, TypeInv, TypeOK
<1>1. fd[r] = Staged /\ pc[r] \in {"idle", "upload", "inspect"}
  BY DEF WriteChunk, Staging
<1>2. /\ f \in Filenames /\ sent[r] < NChunks /\ n \in 1 .. NChunks
      /\ staged[f] \in Contents
  BY <1>1, ContentsFacts DEF Holds
<1>3. /\ sent'[r] = n /\ fd'[r] \in {None, Staged}
      /\ staged'[f] = [staged[f] EXCEPT ![n] = body[r]]
      /\ UNCHANGED <<disk, pc, body, file, meta, old>>
  BY <1>1, <1>2 DEF WriteChunk, ingestVars
<1>4. ASSUME staged[f] = Pieces(r) PROVE staged'[f] = Pieces(r)'
  <2>1. \A i \in 1 .. NChunks : i <= n <=> i <= sent[r] \/ i = n
    BY <1>2
  <2>2. Pieces(r)' = [i \in 1 .. NChunks |-> IF i <= n THEN body[r] ELSE None]
    BY <1>3 DEF Pieces
  <2>3. staged'[f] = [i \in 1 .. NChunks |-> IF i = n THEN body[r] ELSE staged[f][i]]
    BY <1>2, <1>3 DEF Contents
  <2>4. \A i \in 1 .. NChunks :
            staged[f][i] = IF i <= sent[r] THEN body[r] ELSE None
    BY <1>4 DEF Pieces
  <2>5. \A i \in 1 .. NChunks :
            (IF i = n THEN body[r] ELSE staged[f][i]) =
                IF i <= n THEN body[r] ELSE None
    BY <2>1, <2>4
  <2>. QED
    BY <2>2, <2>3, <2>5
<1>. QED
  BY <1>1, <1>3, <1>4 DEF Staging, IngestSteps, WithdrawSteps

LEMMA InspectStaging ==
    ASSUME StagingInv, NEW r \in Requests, Inspect(r)
    PROVE  Staging(r)' /\ UNCHANGED disk
<1>. USE DEF StagingInv, TypeInv, TypeOK
<1>1. PICK a \in Archives :
        /\ pc[r] = "inspect" /\ pc'[r] = "previous"
        /\ staged[file[r]] = Whole(a)
        /\ meta'[r] = a
        /\ UNCHANGED <<staged, disk, file, body, sent, fd, old>>
  BY DEF Inspect, Goto, fsVars, uploadVars
<1>2. Whole(a) = Pieces(r)
  BY <1>1 DEF Staging
<1>3. 1 \in 1 .. NChunks /\ NChunks \in 1 .. NChunks /\ a # None
  BY ContentsFacts
<1>4. Pieces(r)[1] = a /\ Pieces(r)[NChunks] = a
  BY <1>2, <1>3 DEF Whole
<1>5. NChunks <= sent[r]
  BY <1>3, <1>4 DEF Pieces
<1>6. body[r] = a
  BY <1>3, <1>4 DEF Pieces
<1>7. fd[r] = None
  BY <1>5, ContentsFacts DEF Holds
<1>8. Whole(meta[r])' = Whole(a)
  BY <1>1 DEF Whole
<1>. QED
  BY <1>1, <1>6, <1>7, <1>8 DEF Staging, IngestSteps, WithdrawSteps

\* A request that ends keeps no locals.
LEMMA FinishStaging ==
    ASSUME StagingInv, NEW r \in Requests, pc[r] # "idle", Finish(r),
           \/ UNCHANGED fd
           \/ fd' = [fd EXCEPT ![r] = None]
           \/ fd' = CloseAt(Staged, file[r])
    PROVE  Staging(r)'
<1>1. pc'[r] = "idle" /\ old'[r] = None /\ fd'[r] \in {None, fd[r]}
  BY DEF StagingInv, TypeInv, TypeOK, Finish, CloseAt
<1>. QED
  BY <1>1 DEF StagingInv, Staging, IngestSteps, WithdrawSteps

LEMMA EndStaging ==
    ASSUME StagingInv, NEW r \in Requests,
           \/ AbortUpload(r) \/ DropUpload(r) \/ RejectUpload(r)
           \/ RenameMissing(r) \/ ScanUnreadable(r) \/ Reply(r)
           \/ DeleteNothing(r) \/ PutLog(r) \/ Fail(r)
    PROVE  Staging(r)' /\ UNCHANGED disk
<1>1. /\ pc[r] # "idle" /\ Finish(r)
      /\ \/ UNCHANGED fd
         \/ fd' = [fd EXCEPT ![r] = None]
         \/ fd' = CloseAt(Staged, file[r])
      /\ UNCHANGED disk
  BY DEF AbortUpload, DropUpload, RejectUpload, RenameMissing, ScanUnreadable,
         Reply, DeleteNothing, PutLog, Fail, GiveUp, Reject, RemoveStaged,
         IngestSteps, IndexSteps, WithdrawSteps, fsVars, uploadVars
<1>. QED
  BY <1>1, FinishStaging

LEMMA IngestStaging ==
    ASSUME StagingInv, NEW r \in Requests,
           \/ EndOfBody(r) \/ ReadPrevious(r) \/ Upsert(r) \/ PutFiles(r)
           \/ PlanIndex(r) \/ ScanDir(r) \/ WriteIndex(r) \/ DeleteRow(r)
    PROVE  Staging(r)' /\ UNCHANGED disk
<1>. USE DEF StagingInv, TypeInv, TypeOK
<1>1. /\ UNCHANGED <<staged, file, body, sent, fd, meta, disk>>
      /\ pc'[r] \notin {"idle", "upload", "log"}
  BY DEF EndOfBody, ReadPrevious, Upsert, PutFiles, PlanIndex, ScanDir,
         WriteIndex, DeleteRow, Goto, fsVars, uploadVars, ingestVars
<1>2. Pieces(r)' = Pieces(r) /\ Whole(meta[r])' = Whole(meta[r])
  BY <1>1 DEF Pieces, Whole
<1>3. CASE EndOfBody(r)
  BY <1>1, <1>2, <1>3
     DEF EndOfBody, Goto, ingestVars, Staging, IngestSteps, WithdrawSteps
<1>4. CASE ReadPrevious(r)
  BY <1>1, <1>2, <1>4
     DEF ReadPrevious, Goto, Staging, IngestSteps, WithdrawSteps
<1>5. CASE \/ Upsert(r) \/ PutFiles(r) \/ PlanIndex(r) \/ ScanDir(r)
           \/ WriteIndex(r)
  BY <1>1, <1>5
     DEF Upsert, PutFiles, PlanIndex, ScanDir, WriteIndex, Goto, Staging,
         IngestSteps, WithdrawSteps
<1>6. CASE DeleteRow(r)
  BY <1>1, <1>6 DEF DeleteRow, Goto, Staging, IngestSteps, WithdrawSteps
<1>. QED
  BY <1>3, <1>4, <1>5, <1>6

LEMMA MoveStaging ==
    ASSUME StagingInv, NEW r \in Requests,
           ClearPrevious(r) \/ Rename(r) \/ Unlink(r)
    PROVE  Staging(r)'
<1>. USE DEF StagingInv, TypeInv, TypeOK
<1>1. /\ UNCHANGED <<file, body, meta, old>>
      /\ pc[r] \in {"clear", "rename", "unlink"}
      /\ fd[r] = None
  BY DEF ClearPrevious, Rename, Unlink, ingestVars, Staging
<1>2. Whole(meta[r])' = Whole(meta[r])
  BY <1>1 DEF Whole
<1>3. fd'[r] = None
  BY <1>1, ContentsFacts DEF ClearPrevious, Rename, Unlink, CloseAt, MoveTo
<1>. QED
  BY <1>1, <1>2, <1>3
     DEF ClearPrevious, Rename, Unlink, Goto, Staging, IngestSteps, WithdrawSteps

LEMMA StagingNext ==
    ASSUME ~SharedNames, StagingInv, [Next]_vars
    PROVE  StagingInv'
<1>1. TypeInv'
  BY TypeNext DEF StagingInv
<1>2. ASSUME NEW r \in Requests, Begin(r) PROVE StagingInv'
  <2>1. PICK f \in Filenames :
            \/ \E a \in Archives : StartPublish(r, f, a) \/ StartLog(r, f, a)
            \/ StartUnpublish(r, f)
    BY <1>2 DEF Begin
  <2>2. Apart(r, f) /\ file'[r] = f
    BY <2>1, BeginApart DEF StagingInv
  <2>3. Owned'
    BY <2>2 DEF Apart, StagingInv, Owned, Busy
  <2>. QED
    BY <1>1, <2>1, <2>2, <2>3, OthersStaging, BeginStaging DEF StagingInv
<1>3. ASSUME NEW r \in Requests, Receive(r) \/ Work(r) \/ Fail(r)
      PROVE  StagingInv'
  <2>1. Apart(r, file[r]) /\ UNCHANGED file
    BY <1>3, StepApart DEF StagingInv
  <2>2. Owned'
    BY <2>1, <1>3 DEF Apart, StagingInv, Owned, Busy
  <2>3. Staging(r)'
    BY <1>3, WriteStaging, InspectStaging, EndStaging, IngestStaging, MoveStaging
       DEF Receive, Work
  <2>. QED
    BY <1>1, <2>1, <2>2, <2>3, OthersStaging DEF StagingInv
<1>4. CASE Crash
  BY <1>1, <1>4
     DEF Crash, StagingInv, Staging, Owned, Busy, IngestSteps, WithdrawSteps
<1>5. CASE UNCHANGED vars
  <2>1. \A r \in Requests : Pieces(r)' = Pieces(r) /\ Whole(meta[r])' = Whole(meta[r])
    BY <1>5 DEF vars, Pieces, Whole
  <2>. QED
    BY <1>1, <1>5, <2>1
       DEF vars, StagingInv, Staging, Owned, Busy, IngestSteps, WithdrawSteps
<1>. QED
  BY <1>2, <1>3, <1>4, <1>5 DEF Next

LEMMA WholeNext ==
    ASSUME StagingInv, StoredWhole, [Next]_vars
    PROVE  StoredWhole'
<1>0. \A a \in Archives : Whole(a)' = Whole(a)
  BY DEF Whole
<1>1. ASSUME \A d \in Dirs, f \in Filenames : disk'[d][f] \in {disk[d][f], None}
      PROVE  StoredWhole'
  BY <1>0, <1>1 DEF StoredWhole
<1>2. ASSUME NEW r \in Requests, ClearPrevious(r) \/ Unlink(r) PROVE StoredWhole'
  <2>1. \A d \in Dirs, f \in Filenames : disk'[d][f] \in {disk[d][f], None}
    <3>1. disk' = [disk EXCEPT ![old[r]][file[r]] = None]
      BY <1>2 DEF ClearPrevious, Unlink
    <3>2. disk \in [Dirs -> [Filenames -> Contents \cup {None}]]
      BY DEF StagingInv, TypeInv, TypeOK
    <3>. QED
      BY <3>1, <3>2
  <2>. QED
    BY <1>1, <2>1
<1>3. ASSUME NEW r \in Requests, Rename(r) PROVE StoredWhole'
  <2>1. meta[r] \in Archives /\ DirOf[meta[r]] \in Dirs /\ file[r] \in Filenames
    BY <1>3, ContentsFacts DEF Rename, Holds, IngestSteps, StagingInv, TypeInv
  <2>2. \A d \in Dirs, f \in Filenames :
            disk'[d][f] = IF d = DirOf[meta[r]] /\ f = file[r]
                          THEN Whole(meta[r]) ELSE disk[d][f]
    BY <1>3, <2>1 DEF Rename, Staging, StagingInv, TypeInv, TypeOK
  <2>3. ASSUME NEW f \in Filenames, NEW d \in Dirs, disk'[d][f] # None
        PROVE  \E a \in Archives : disk'[d][f] = Whole(a) /\ DirOf[a] = d
    BY <2>1, <2>2, <2>3 DEF StoredWhole
  <2>. QED
    BY <1>0, <2>3 DEF StoredWhole
<1>4. ASSUME NEW r \in Requests, Begin(r) PROVE UNCHANGED disk
  BY <1>4 DEF Begin, StartPublish, StartLog, StartUnpublish, fsVars
<1>5. ASSUME NEW r \in Requests, Receive(r) \/ Work(r) \/ Fail(r)
      PROVE  StoredWhole'
  <2>1. \/ UNCHANGED disk
        \/ ClearPrevious(r) \/ Unlink(r) \/ Rename(r)
    BY <1>5, WriteStaging, InspectStaging, EndStaging, IngestStaging
       DEF Receive, Work
  <2>2. UNCHANGED disk => StoredWhole'
    BY <1>1
  <2>. QED
    BY <1>2, <1>3, <2>1, <2>2
<1>6. Crash \/ UNCHANGED vars => UNCHANGED disk
  BY DEF Crash, vars, fsVars
<1>. QED
  BY <1>1, <1>4, <1>5, <1>6 DEF Next

\* Whatever requests run at once, fail or are cut off by a stop, what lies in a
\* channel directory is a whole archive of that channel, as long as running
\* requests name different files.
THEOREM NothingTorn ==
    ASSUME ~SharedNames
    PROVE  Spec => []StoredWhole
<1>1. Init => StagingInv /\ StoredWhole
  BY StagingInit DEF Init, StoredWhole
<1>2. StagingInv /\ StoredWhole /\ [Next]_vars => StagingInv' /\ StoredWhole'
  BY StagingNext, WholeNext
<1>. QED
  BY <1>1, <1>2, PTL DEF Spec

-----------------------------------------------------------------------------
(* Rows, archives and file lists, when nothing fails *)

OnlyIn(f, a) ==
    \A d \in Dirs : disk[d][f] = IF d = DirOf[a] THEN Whole(a) ELSE None

\* What a request knows of its file where ingest or unpublish is half way.
Place(r) ==
    LET f == file[r] IN
    /\ pc[r] = "clear" =>
        /\ published[f] # None /\ DirOf[published[f].meta] = old[r]
        /\ old[r] # DirOf[meta[r]]
    /\ pc[r] = "rename" =>
        IF old[r] # None THEN \A d \in Dirs : disk[d][f] = None
        ELSE published[f] = None \/ DirOf[published[f].meta] = DirOf[meta[r]]
    /\ pc[r] \in {"upsert", "files"} => OnlyIn(f, meta[r])
    /\ pc[r] = "files" => published[f] = [sha |-> meta[r], meta |-> meta[r]]
    /\ pc[r] = "unlink" =>
        /\ published[f] = None /\ files[f] = None
        /\ \A d \in Dirs : d # old[r] => disk[d][f] = None

\* Everything the hub keeps of a file is of one archive, or it keeps nothing.
Consistent(f) == HoldsNothing(f) \/ \E a \in Archives : HoldsOnly(f, a)

ContentInv ==
    /\ StagingInv
    /\ \A r \in Requests : Place(r)
    /\ \A f \in Filenames : Exchanging(f) \/ Consistent(f)

LEMMA ContentInit == Init => ContentInv
BY StagingInit
   DEF Init, ContentInv, Place, Consistent, HoldsNothing

\* The state of the files that a step leaves alone.
SameFile(g) ==
    /\ published'[g] = published[g] /\ files'[g] = files[g]
    /\ \A d \in Dirs : disk'[d][g] = disk[d][g]

LEMMA SameFileKeeps ==
    ASSUME NEW g \in Filenames, SameFile(g)
    PROVE  /\ HoldsNothing(g)' <=> HoldsNothing(g)
           /\ \A a \in Archives : HoldsOnly(g, a)' <=> HoldsOnly(g, a)
           /\ \A a \in Archives : OnlyIn(g, a)' <=> OnlyIn(g, a)
           /\ Consistent(g)' <=> Consistent(g)
<1>1. \A a \in Archives : Whole(a)' = Whole(a)
  BY DEF Whole
<1>2. HoldsNothing(g)' <=> HoldsNothing(g)
  BY DEF SameFile, HoldsNothing
<1>3. \A a \in Archives : HoldsOnly(g, a)' <=> HoldsOnly(g, a)
  BY <1>1 DEF SameFile, HoldsOnly
<1>4. \A a \in Archives : OnlyIn(g, a)' <=> OnlyIn(g, a)
  BY <1>1 DEF SameFile, OnlyIn
<1>. QED
  BY <1>2, <1>3, <1>4 DEF Consistent

LEMMA OthersPlace ==
    ASSUME ContentInv, NEW r \in Requests, NEW f, Apart(r, f),
           NEW q \in Requests, q # r
    PROVE  Place(q)'
<1>1. CASE pc[q] = "idle"
  BY <1>1 DEF Apart, Place
<1>2. CASE pc[q] # "idle"
  <2>1. /\ pc'[q] = pc[q] /\ file'[q] = file[q] /\ meta'[q] = meta[q]
        /\ old'[q] = old[q] /\ SameFile(file[q]) /\ file[q] \in Filenames
    BY <1>2 DEF Apart, SameFile, Busy, ContentInv, StagingInv, TypeInv, Holds
  <2>2. pc[q] \in {"upsert", "files"} => meta[q] \in Archives
    BY DEF ContentInv, StagingInv, TypeInv, Holds, IngestSteps
  <2>3. pc[q] \in {"upsert", "files"} =>
            (OnlyIn(file[q], meta[q])' <=> OnlyIn(file[q], meta[q]))
    <3>. SUFFICES ASSUME pc[q] \in {"upsert", "files"}
                  PROVE  OnlyIn(file[q], meta[q])' <=> OnlyIn(file[q], meta[q])
      OBVIOUS
    <3>1. Whole(meta[q])' = Whole(meta[q])
      BY <2>1 DEF Whole
    <3>. QED
      BY <2>1, <3>1 DEF OnlyIn, SameFile
  <2>. QED
    BY <2>1, <2>3 DEF ContentInv, Place, SameFile
<1>. QED
  BY <1>1, <1>2

\* Only the request that names a file exchanges it.
LEMMA OwnExchange ==
    ASSUME NEW r \in Requests, NEW f \in Filenames, Apart(r, f), file'[r] = f,
           file[r] = f \/ pc[r] = "idle"
    PROVE  /\ Exchanging(f) <=> InExchange(r)
           /\ Exchanging(f)' <=> InExchange(r)'
           /\ \A g \in Filenames : g # f =>
                /\ SameFile(g)
                /\ Exchanging(g)' <=> Exchanging(g)
<1>1. \A q \in Requests : q # r =>
        /\ InExchange(q)' <=> InExchange(q)
        /\ file'[q] = file[q]
        /\ file[q] = f => ~InExchange(q)
  BY DEF Apart, InExchange, Busy
<1>2. pc[r] = "idle" => ~InExchange(r)
  BY DEF InExchange
<1>3. Exchanging(f) <=> InExchange(r)
  BY <1>1, <1>2 DEF Exchanging
<1>4. Exchanging(f)' <=> InExchange(r)'
  BY <1>1 DEF Exchanging
<1>5. \A g \in Filenames : g # f => (Exchanging(g)' <=> Exchanging(g))
  BY <1>1, <1>2 DEF Exchanging
<1>6. \A g \in Filenames : g # f => SameFile(g)
  BY DEF Apart, SameFile
<1>. QED
  BY <1>3, <1>4, <1>5, <1>6

\* To preserve the invariant a step has to look at its own file only.
LEMMA OwnFileSuffices ==
    ASSUME ContentInv, StagingInv', NEW r \in Requests, NEW f \in Filenames,
           Apart(r, f), file'[r] = f, file[r] = f \/ pc[r] = "idle",
           Place(r)', InExchange(r)' \/ Consistent(f)'
    PROVE  ContentInv'
<1>1. \A q \in Requests : Place(q)'
  BY OthersPlace
<1>2. \A g \in Filenames : (Exchanging(g) \/ Consistent(g))'
  BY OwnExchange, SameFileKeeps DEF ContentInv
<1>. QED
  BY <1>1, <1>2 DEF ContentInv

-----------------------------------------------------------------------------
(* The steps, by what they do to the file of their request *)

\* Steps that leave row, list and archives of the file, and are no part of an
\* exchange.
Aside(r) ==
    \/ WriteChunk(r) \/ EndOfBody(r) \/ AbortUpload(r) \/ DropUpload(r)
    \/ Inspect(r) \/ RejectUpload(r) \/ ReadPrevious(r)
    \/ PlanIndex(r) \/ ScanDir(r) \/ ScanUnreadable(r) \/ WriteIndex(r)
    \/ Reply(r) \/ DeleteNothing(r) \/ PutLog(r)

LEMMA AsideKeeps ==
    ASSUME ContentInv, NEW r \in Requests, Aside(r)
    PROVE  SameFile(file[r]) /\ ~InExchange(r) /\ ~InExchange(r)' /\ Place(r)'
<1>. USE DEF ContentInv, StagingInv, TypeInv, TypeOK
<1>1. UNCHANGED disk
  BY WriteStaging, InspectStaging, EndStaging, IngestStaging DEF Aside
<1>2. UNCHANGED <<published, files>>
  BY DEF Aside, WriteChunk, EndOfBody, AbortUpload, DropUpload, Inspect,
         RejectUpload, ReadPrevious, PlanIndex, ScanDir, ScanUnreadable,
         WriteIndex, Reply, DeleteNothing, PutLog, GiveUp, Reject, dbVars
<1>3. SameFile(file[r])
  BY <1>1, <1>2 DEF SameFile
<1>4. CASE ReadPrevious(r)
  <2>1. /\ pc[r] = "previous" /\ old[r] = None
        /\ UNCHANGED <<file, meta>>
    BY <1>4 DEF ReadPrevious, Staging, uploadVars
  <2>2. CASE published[file[r]] # None
             /\ DirOf[published[file[r]].meta] # DirOf[meta[r]]
    <3>1. /\ pc'[r] = "clear"
          /\ old'[r] = DirOf[published[file[r]].meta]
      BY <1>4, <2>1, <2>2 DEF ReadPrevious, Goto
    <3>2. /\ published'[file'[r]] = published[file[r]]
          /\ meta'[r] = meta[r]
      BY <1>2, <2>1
    <3>. QED
      BY <1>3, <2>1, <2>2, <3>1, <3>2 DEF Place, InExchange
  <2>3. CASE ~(published[file[r]] # None
               /\ DirOf[published[file[r]].meta] # DirOf[meta[r]])
    <3>1. pc'[r] = "rename" /\ old'[r] = None
      BY <1>4, <2>1, <2>3 DEF ReadPrevious, Goto
    <3>2. /\ published'[file'[r]] = published[file[r]]
          /\ meta'[r] = meta[r]
      BY <1>2, <2>1
    <3>. QED
      BY <1>3, <2>1, <2>3, <3>1, <3>2 DEF Place, InExchange
  <2>. QED
    BY <1>3, <2>1, <2>2, <2>3 DEF InExchange
<1>5. CASE WriteChunk(r)
  <2>1. UNCHANGED <<pc, old>> /\ pc[r] \in {"idle", "upload", "inspect"}
    BY <1>5 DEF WriteChunk, Staging, ingestVars
  <2>. QED
    BY <1>3, <2>1 DEF InExchange, Place
<1>6. CASE Aside(r) /\ ~ReadPrevious(r) /\ ~WriteChunk(r)
  <2>1. /\ pc[r] \notin {"clear", "rename", "upsert", "files", "unlink"}
        /\ pc'[r] \notin {"clear", "rename", "upsert", "files", "unlink"}
    BY <1>6
       DEF Aside, EndOfBody, AbortUpload, DropUpload, Inspect, RejectUpload,
           PlanIndex, ScanDir, ScanUnreadable, WriteIndex, Reply,
           DeleteNothing, PutLog, GiveUp, Reject, Finish, Goto
  <2>. QED
    BY <1>3, <2>1 DEF InExchange, Place
<1>. QED
  BY <1>4, <1>5, <1>6

\* At a step outside the exchange the file is consistent.
LEMMA BeforeExchange ==
    ASSUME ContentInv, NEW r \in Requests, pc[r] # "idle", ~InExchange(r)
    PROVE  Consistent(file[r])
<1>1. file[r] \in Filenames
  BY DEF ContentInv, StagingInv, TypeInv, Holds
<1>2. \A q \in Requests : file[q] = file[r] => ~InExchange(q)
  BY DEF ContentInv, StagingInv, Owned, Busy, InExchange
<1>. QED
  BY <1>1, <1>2 DEF ContentInv, Exchanging

\* A file with a row lies in the directory of that row only.
LEMMA RowFacts ==
    ASSUME NEW f \in Filenames, Consistent(f), published[f] # None
    PROVE  \E a \in Archives : HoldsOnly(f, a) /\ published[f].meta = a
<1>1. PICK a \in Archives : HoldsOnly(f, a)
  BY DEF Consistent, HoldsNothing
<1>2. published[f].meta = a
  BY <1>1 DEF HoldsOnly
<1>. QED
  BY <1>1, <1>2

LEMMA ClearTakes ==
    ASSUME ContentInv, NEW r \in Requests, ClearPrevious(r)
    PROVE  ~InExchange(r) /\ InExchange(r)' /\ Place(r)'
<1>. DEFINE f == file[r]
<1>. USE DEF ContentInv, StagingInv, TypeInv, TypeOK
<1>1. /\ pc[r] = "clear" /\ pc'[r] = "rename" /\ f \in Filenames
      /\ UNCHANGED <<published, file, meta, old>>
      /\ disk' = [disk EXCEPT ![old[r]][f] = None]
  BY DEF ClearPrevious, Goto, Holds, dbVars, ingestVars
<1>2. ~InExchange(r)
  BY <1>1 DEF InExchange
<1>3. published[f] # None /\ DirOf[published[f].meta] = old[r]
  BY <1>1 DEF Place
<1>4. PICK a \in Archives : HoldsOnly(f, a) /\ published[f].meta = a
  BY <1>1, <1>2, <1>3, BeforeExchange, RowFacts
<1>5. old[r] = DirOf[a] /\ old[r] \in Dirs /\ old[r] # None
  BY <1>3, <1>4, ContentsFacts
<1>6. \A d \in Dirs : disk'[d][f] = None
  BY <1>1, <1>4, <1>5 DEF HoldsOnly
<1>. QED
  BY <1>1, <1>2, <1>5, <1>6 DEF InExchange, Place

LEMMA RenamePlaces ==
    ASSUME ContentInv, NEW r \in Requests, Rename(r)
    PROVE  InExchange(r)' /\ Place(r)'
<1>. DEFINE f == file[r]
            a == meta[r]
<1>. USE DEF ContentInv, StagingInv, TypeInv, TypeOK
<1>1. /\ pc[r] = "rename" /\ pc'[r] = "upsert" /\ f \in Filenames
      /\ a \in Archives /\ DirOf[a] \in Dirs
      /\ UNCHANGED <<file, meta>>
      /\ disk' = [disk EXCEPT ![DirOf[a]][f] = Whole(a)]
  BY ContentsFacts
     DEF Rename, Goto, Holds, Staging, ingestVars, IngestSteps
<1>2. \A d \in Dirs : d # DirOf[a] => disk[d][f] = None
  <2>1. CASE old[r] # None
    BY <1>1, <2>1 DEF Place
  <2>2. CASE old[r] = None
    <3>1. Consistent(f)
      BY <1>1, <2>2, BeforeExchange DEF InExchange
    <3>2. CASE published[f] = None
      BY <1>1, <3>1, <3>2, ContentsFacts DEF Consistent, HoldsNothing, HoldsOnly, Rows
    <3>3. CASE published[f] # None
      <4>1. PICK b \in Archives : HoldsOnly(f, b) /\ published[f].meta = b
        BY <1>1, <3>1, <3>3, RowFacts
      <4>2. DirOf[b] = DirOf[a]
        BY <1>1, <2>2, <3>3, <4>1 DEF Place
      <4>. QED
        BY <4>1, <4>2 DEF HoldsOnly
    <3>. QED
      BY <3>2, <3>3
  <2>. QED
    BY <2>1, <2>2
<1>3. Whole(meta[r])' = Whole(a)
  BY <1>1 DEF Whole
<1>4. OnlyIn(file[r], meta[r])'
  BY <1>1, <1>2, <1>3 DEF OnlyIn
<1>. QED
  BY <1>1, <1>4 DEF InExchange, Place

LEMMA UpsertPlaces ==
    ASSUME ContentInv, NEW r \in Requests, Upsert(r)
    PROVE  InExchange(r) /\ InExchange(r)' /\ Place(r)'
<1>. USE DEF ContentInv, StagingInv, TypeInv, TypeOK
<1>1. /\ pc[r] = "upsert" /\ pc'[r] = "files" /\ file[r] \in Filenames
      /\ body[r] = meta[r]
      /\ UNCHANGED <<file, meta, disk>>
      /\ published' = [published EXCEPT ![file[r]] =
                            [sha |-> body[r], meta |-> meta[r]]]
  BY DEF Upsert, Goto, Holds, Staging, fsVars, uploadVars, ingestVars, IngestSteps
<1>2. Whole(meta[r])' = Whole(meta[r])
  BY <1>1 DEF Whole
<1>3. OnlyIn(file[r], meta[r])'
  BY <1>1, <1>2 DEF Place, OnlyIn
<1>. QED
  BY <1>1, <1>3 DEF InExchange, Place

LEMMA PutFilesSettles ==
    ASSUME ContentInv, NEW r \in Requests, PutFiles(r)
    PROVE  /\ InExchange(r) /\ ~InExchange(r)' /\ Place(r)'
           /\ body[r] \in Archives /\ HoldsOnly(file[r], body[r])'
<1>. USE DEF ContentInv, StagingInv, TypeInv, TypeOK
<1>1. /\ pc[r] = "files" /\ pc'[r] = "plan" /\ file[r] \in Filenames
      /\ body[r] = meta[r] /\ body[r] \in Archives
      /\ UNCHANGED <<file, body, meta, disk, published>>
      /\ files' = [files EXCEPT ![file[r]] = meta[r]]
  BY DEF PutFiles, Goto, Holds, Staging, fsVars, uploadVars, ingestVars, IngestSteps
<1>2. Whole(body[r])' = Whole(body[r])
  BY <1>1 DEF Whole
<1>3. /\ published'[file[r]] = [sha |-> body[r], meta |-> body[r]]
      /\ files'[file[r]] = body[r]
      /\ \A d \in Dirs : disk'[d][file[r]] =
            IF d = DirOf[body[r]] THEN Whole(body[r]) ELSE None
  <2>1. /\ OnlyIn(file[r], meta[r])
        /\ published[file[r]] = [sha |-> meta[r], meta |-> meta[r]]
    BY <1>1 DEF Place
  <2>2. OnlyIn(file[r], body[r])
    BY <1>1, <2>1
  <2>. QED
    BY <1>1, <2>1, <2>2 DEF OnlyIn
<1>4. HoldsOnly(file[r], body[r])'
  BY <1>1, <1>2, <1>3 DEF HoldsOnly
<1>. QED
  BY <1>1, <1>4 DEF InExchange, Place

LEMMA DeleteTakes ==
    ASSUME ContentInv, NEW r \in Requests, DeleteRow(r)
    PROVE  ~InExchange(r) /\ InExchange(r)' /\ Place(r)'
<1>. DEFINE f == file[r]
<1>. USE DEF ContentInv, StagingInv, TypeInv, TypeOK
<1>1. /\ pc[r] = "delete" /\ pc'[r] = "unlink" /\ f \in Filenames
      /\ published[f] # None
      /\ old'[r] = DirOf[published[f].meta]
      /\ published'[f] = None /\ files'[f] = None
      /\ UNCHANGED <<file, disk>>
  BY DEF DeleteRow, Goto, Holds, fsVars, uploadVars
<1>2. ~InExchange(r)
  BY <1>1 DEF InExchange
<1>3. PICK a \in Archives : HoldsOnly(f, a) /\ published[f].meta = a
  BY <1>1, <1>2, BeforeExchange, RowFacts
<1>4. \A d \in Dirs : d # old'[r] => disk[d][f] = None
  BY <1>1, <1>3 DEF HoldsOnly
<1>. QED
  BY <1>1, <1>2, <1>4 DEF InExchange, Place

LEMMA UnlinkSettles ==
    ASSUME ContentInv, NEW r \in Requests, Unlink(r)
    PROVE  /\ InExchange(r) /\ ~InExchange(r)' /\ Place(r)'
           /\ body[r] = None /\ HoldsNothing(file[r])'
<1>. DEFINE f == file[r]
<1>. USE DEF ContentInv, StagingInv, TypeInv, TypeOK
<1>1. /\ pc[r] = "unlink" /\ pc'[r] = "plan" /\ f \in Filenames
      /\ body[r] = None
      /\ UNCHANGED <<file, published, files>>
      /\ disk' = [disk EXCEPT ![old[r]][f] = None]
  BY DEF Unlink, Goto, Holds, Staging, dbVars, ingestVars, WithdrawSteps
<1>2. /\ published[f] = None /\ files[f] = None
      /\ \A d \in Dirs : d # old[r] => disk[d][f] = None
  BY <1>1 DEF Place
<1>3. \A d \in Dirs : disk'[d][f] = None
  BY <1>1, <1>2
<1>. QED
  BY <1>1, <1>2, <1>3 DEF InExchange, Place, HoldsNothing

LEMMA OwnStepContent ==
    ASSUME ContentInv, StagingInv', NEW r \in Requests, Receive(r) \/ Work(r)
    PROVE  ContentInv'
<1>1. Apart(r, file[r]) /\ UNCHANGED file /\ file[r] \in Filenames
  BY StepApart DEF ContentInv, StagingInv
<1>3. ASSUME Aside(r) PROVE Place(r)' /\ (InExchange(r)' \/ Consistent(file[r])')
  <2>1. SameFile(file[r]) /\ ~InExchange(r) /\ Place(r)'
    BY <1>3, AsideKeeps
  <2>2. Consistent(file[r])
    BY <1>1, <2>1, OwnExchange DEF ContentInv
  <2>. QED
    BY <1>1, <2>1, <2>2, SameFileKeeps
<1>4. ASSUME PutFiles(r) PROVE Place(r)' /\ Consistent(file[r])'
  <2>1. Place(r)' /\ body[r] \in Archives /\ HoldsOnly(file[r], body[r])'
    BY <1>4, PutFilesSettles
  <2>2. UNCHANGED body
    BY <1>4 DEF PutFiles, uploadVars
  <2>. QED
    BY <2>1, <2>2 DEF Consistent
<1>5. ASSUME Unlink(r) PROVE Place(r)' /\ Consistent(file[r])'
  BY <1>5, UnlinkSettles DEF Consistent
<1>6. ~RenameMissing(r)
  BY ContentsFacts
     DEF RenameMissing, ContentInv, StagingInv, TypeInv, Holds, Staging, IngestSteps
<1>7. Place(r)' /\ (InExchange(r)' \/ Consistent(file[r])')
  BY <1>3, <1>4, <1>5, <1>6, ClearTakes, RenamePlaces, UpsertPlaces, DeleteTakes
     DEF Receive, Work, Aside
<1>. QED
  BY <1>1, <1>7, OwnFileSuffices

LEMMA BeginContent ==
    ASSUME ~SharedNames, ContentInv, StagingInv',
           NEW r \in Requests, NEW f \in Filenames,
           \/ \E a \in Archives : StartPublish(r, f, a) \/ StartLog(r, f, a)
           \/ StartUnpublish(r, f)
    PROVE  /\ ContentInv' /\ pc[r] = "idle" /\ SameFile(f)
           /\ Apart(r, f) /\ file'[r] = f
<1>1. Apart(r, f) /\ file'[r] = f
  BY BeginApart DEF ContentInv, StagingInv
<1>2. /\ pc[r] = "idle" /\ UNCHANGED <<published, files, disk>>
      /\ pc'[r] \in {"upload", "log", "delete"}
  BY DEF StartPublish, StartLog, StartUnpublish, MayUse, Busy, Goto, dbVars,
         fsVars, ContentInv, StagingInv, TypeInv, TypeOK
<1>3. SameFile(f)
  BY <1>2 DEF SameFile
<1>4. ~InExchange(r) /\ Place(r)'
  BY <1>2 DEF InExchange, Place
<1>5. Consistent(f)
  BY <1>1, <1>2, <1>4, OwnExchange DEF ContentInv
<1>. QED
  BY <1>1, <1>2, <1>3, <1>4, <1>5, SameFileKeeps, OwnFileSuffices

LEMMA ContentNext ==
    ASSUME ~SharedNames, ~Faults, ContentInv, [Next]_vars
    PROVE  ContentInv'
<1>1. StagingInv'
  BY StagingNext DEF ContentInv
<1>2. CASE \E r \in Requests : Begin(r)
  BY <1>1, <1>2, BeginContent DEF Begin
<1>3. CASE \E r \in Requests : Receive(r) \/ Work(r)
  BY <1>1, <1>3, OwnStepContent
<1>4. CASE UNCHANGED vars
  <2>1. \A f \in Filenames : SameFile(f) /\ (Exchanging(f)' <=> Exchanging(f))
    BY <1>4 DEF vars, SameFile, Exchanging, InExchange
  <2>2. \A r \in Requests : Place(r)'
    <3>1. \A r \in Requests : Whole(meta[r])' = Whole(meta[r])
      BY <1>4 DEF vars, Whole
    <3>2. \A r \in Requests :
            OnlyIn(file[r], meta[r])' <=> OnlyIn(file[r], meta[r])
      BY <1>4, <3>1 DEF vars, OnlyIn
    <3>. QED
      BY <1>4, <3>2 DEF vars, ContentInv, Place
  <2>. QED
    BY <1>1, <2>1, <2>2, SameFileKeeps DEF ContentInv
<1>. QED
  BY <1>2, <1>3, <1>4 DEF Next, Fail, Crash

LEMMA IdleConsistent ==
    ASSUME ContentInv, NEW f \in Filenames, Idle(f)
    PROVE  Consistent(f)
BY DEF ContentInv, Idle, Exchanging, InExchange, Busy

\* Without failures, whenever no request works on a file, its row names the
\* directory where the archive of that row lies, and hash and file list are
\* that archive's.
THEOREM RowsMatch ==
    ASSUME ~SharedNames, ~Faults
    PROVE  Spec => []RowMatchesArchive
<1>1. ContentInv => RowMatchesArchive
  <2>. SUFFICES ASSUME ContentInv, NEW f \in Filenames, Idle(f),
                       published[f] # None
                PROVE  /\ disk[DirOf[published[f].meta]][f] =
                              Whole(published[f].meta)
                       /\ published[f].sha = published[f].meta
                       /\ files[f] = published[f].meta
    BY DEF RowMatchesArchive
  <2>1. PICK a \in Archives : HoldsOnly(f, a) /\ published[f].meta = a
    BY IdleConsistent, RowFacts
  <2>. QED
    BY <2>1, ContentsFacts DEF HoldsOnly
<1>. QED
  BY <1>1, ContentInit, ContentNext, PTL DEF Spec

\* Without failures, whenever no request works on a file, no directory but the
\* one of its row holds it.
THEOREM NothingLeftBehind ==
    ASSUME ~SharedNames, ~Faults
    PROVE  Spec => []OnlyPublishedStored
<1>1. ContentInv => OnlyPublishedStored
  <2>. SUFFICES ASSUME ContentInv, NEW f \in Filenames, NEW d \in Dirs,
                       Idle(f), disk[d][f] # None
                PROVE  published[f] # None /\ DirOf[published[f].meta] = d
    BY DEF OnlyPublishedStored
  <2>1. PICK a \in Archives : HoldsOnly(f, a)
    BY IdleConsistent DEF Consistent, HoldsNothing
  <2>2. [sha |-> a, meta |-> a] \in Rows
    BY DEF Rows
  <2>. QED
    BY <2>1, <2>2, ContentsFacts DEF HoldsOnly
<1>. QED
  BY <1>1, ContentInit, ContentNext, PTL DEF Spec

-----------------------------------------------------------------------------
(* The shelf *)

\* What the refinement mapping makes of the variables of Shelf.
Goal(r) == IF Progress(r) = "none" THEN None
           ELSE [file |-> file[r], archive |-> body[r]]
ShelfOf == [f \in Filenames |-> Shelved(f)]
AskOf   == [r \in Requests |-> Progress(r)]
GoalOf  == [r \in Requests |-> Goal(r)]

\* The shelf shows what the file holds, or that it is being exchanged.
LEMMA ShelvedFacts ==
    ASSUME NEW f \in Filenames
    PROVE  /\ Exchanging(f) => Shelved(f) = "moving"
           /\ ~Exchanging(f) /\ HoldsNothing(f) => Shelved(f) = None
           /\ \A a \in Archives :
                ~Exchanging(f) /\ HoldsOnly(f, a) => Shelved(f) = a
<1>1. ASSUME NEW a \in Archives, HoldsOnly(f, a)
      PROVE  ~HoldsNothing(f) /\ \A b \in Archives : HoldsOnly(f, b) => b = a
  BY <1>1, ContentsFacts DEF HoldsOnly, HoldsNothing
<1>. QED
  BY <1>1 DEF Shelved

LEMMA ShelvedFactsNext ==
    ASSUME NEW f \in Filenames
    PROVE  /\ Exchanging(f)' => Shelved(f)' = "moving"
           /\ ~Exchanging(f)' /\ HoldsNothing(f)' => Shelved(f)' = None
           /\ \A a \in Archives :
                ~Exchanging(f)' /\ HoldsOnly(f, a)' => Shelved(f)' = a
<1>1. ASSUME NEW a \in Archives, HoldsOnly(f, a)'
      PROVE  /\ ~HoldsNothing(f)'
             /\ \A b \in Archives : HoldsOnly(f, b)' => b = a
  BY <1>1, ContentsFacts DEF HoldsOnly, HoldsNothing
<1>. QED
  BY <1>1 DEF Shelved

LEMMA SameShelved ==
    ASSUME ContentInv, NEW f \in Filenames, SameFile(f),
           Exchanging(f)' <=> Exchanging(f)
    PROVE  Shelved(f)' = Shelved(f)
<1>1. CASE Exchanging(f)
  BY <1>1, ShelvedFacts, ShelvedFactsNext
<1>2. CASE ~Exchanging(f) /\ HoldsNothing(f)
  BY <1>2, ShelvedFacts, ShelvedFactsNext, SameFileKeeps
<1>3. ASSUME ~Exchanging(f), NEW a \in Archives, HoldsOnly(f, a)
      PROVE  Shelved(f)' = Shelved(f)
  BY <1>3, ShelvedFacts, ShelvedFactsNext, SameFileKeeps
<1>. QED
  BY <1>1, <1>2, <1>3 DEF ContentInv, Consistent

\* A step of request r on file f changes at most their entries.
LEMMA OwnEntries ==
    ASSUME ContentInv, NEW r \in Requests, NEW f \in Filenames, Apart(r, f),
           file'[r] = f, file[r] = f \/ pc[r] = "idle"
    PROVE  /\ ShelfOf' = [ShelfOf EXCEPT ![f] = Shelved(f)']
           /\ AskOf' = [AskOf EXCEPT ![r] = Progress(r)']
           /\ GoalOf' = [GoalOf EXCEPT ![r] = Goal(r)']
<1>1. \A g \in Filenames : g # f => Shelved(g)' = Shelved(g)
  BY OwnExchange, SameShelved
<1>2. \A q \in Requests : q # r =>
        Progress(q)' = Progress(q) /\ Goal(q)' = Goal(q)
  BY DEF Apart, Progress, Goal, InExchange
<1>. QED
  BY <1>1, <1>2 DEF ShelfOf, AskOf, GoalOf

LEMMA StutterStep ==
    ASSUME ContentInv, NEW r \in Requests, NEW f \in Filenames, Apart(r, f),
           file'[r] = f, file[r] = f \/ pc[r] = "idle",
           Shelved(f)' = Shelved(f), Progress(r)' = Progress(r),
           Progress(r) = "none" \/ UNCHANGED <<file, body>>
    PROVE  UNCHANGED Store!vars
<1>1. Goal(r)' = Goal(r)
  BY DEF Goal
<1>2. UNCHANGED <<ShelfOf, AskOf, GoalOf>>
  BY <1>1, OwnEntries DEF ShelfOf, AskOf, GoalOf
<1>. QED
  BY <1>2 DEF Store!vars, ShelfOf, AskOf, GoalOf, Goal

LEMMA AskStep ==
    ASSUME ContentInv, NEW r \in Requests, NEW f \in Filenames, Apart(r, f),
           file'[r] = f, pc[r] = "idle", body'[r] \in Archives \cup {None},
           Shelved(f)' = Shelved(f), Progress(r)' = "asked"
    PROVE  Store!Next
<1>. PICK g : g = [file |-> f, archive |-> body'[r]]
  OBVIOUS
<1>1. Progress(r) = "none" /\ AskOf[r] = "none"
  BY DEF Progress, AskOf
<1>2. Goal(r)' = g /\ g \in Store!Goals
  BY DEF Goal, Store!Goals
<1>3. ASSUME NEW q \in Requests, AskOf[q] # "none" PROVE GoalOf[q].file # f
  BY <1>1, <1>3 DEF AskOf, GoalOf, Goal, Progress, Apart, Busy
<1>4. /\ UNCHANGED ShelfOf
      /\ AskOf' = [AskOf EXCEPT ![r] = "asked"]
      /\ GoalOf' = [GoalOf EXCEPT ![r] = g]
  BY <1>2, OwnEntries DEF ShelfOf
<1>5. Store!Ask(r, g)
  BY <1>1, <1>3, <1>4 DEF Store!Ask, ShelfOf, AskOf, GoalOf, Goal
<1>. QED
  BY <1>2, <1>5 DEF Store!Next

LEMMA TakeStep ==
    ASSUME ContentInv, NEW r \in Requests, file[r] \in Filenames,
           Apart(r, file[r]), UNCHANGED <<file, body>>,
           Progress(r) = "asked", Progress(r)' = "moving", Exchanging(file[r])'
    PROVE  Store!Next
<1>1. /\ Shelved(file[r])' = "moving" /\ Goal(r)' = Goal(r)
      /\ GoalOf[r].file = file[r] /\ AskOf[r] = "asked"
  BY ShelvedFactsNext DEF Goal, GoalOf, AskOf
<1>2. /\ ShelfOf' = [ShelfOf EXCEPT ![GoalOf[r].file] = "moving"]
      /\ AskOf' = [AskOf EXCEPT ![r] = "moving"]
      /\ UNCHANGED GoalOf
  BY <1>1, OwnEntries DEF GoalOf
<1>3. Store!Take(r)
  BY <1>1, <1>2 DEF Store!Take, ShelfOf, AskOf, GoalOf, Goal
<1>. QED
  BY <1>3 DEF Store!Next

LEMMA SettleStep ==
    ASSUME ContentInv, NEW r \in Requests, file[r] \in Filenames,
           Apart(r, file[r]), UNCHANGED <<file, body>>,
           Progress(r) = "moving", Progress(r)' = "settled",
           Shelved(file[r])' = body[r]
    PROVE  Store!Next
<1>1. /\ Goal(r)' = Goal(r)
      /\ GoalOf[r].file = file[r] /\ GoalOf[r].archive = body[r]
      /\ AskOf[r] = "moving"
  BY DEF Goal, GoalOf, AskOf
<1>2. /\ ShelfOf' = [ShelfOf EXCEPT ![GoalOf[r].file] = GoalOf[r].archive]
      /\ AskOf' = [AskOf EXCEPT ![r] = "settled"]
      /\ UNCHANGED GoalOf
  <2>1. /\ ShelfOf' = [ShelfOf EXCEPT ![file[r]] = body[r]]
        /\ AskOf' = [AskOf EXCEPT ![r] = "settled"]
        /\ GoalOf' = [GoalOf EXCEPT ![r] = Goal(r)']
    BY OwnEntries
  <2>2. UNCHANGED GoalOf
    BY <1>1, <2>1 DEF GoalOf
  <2>. QED
    BY <1>1, <2>1, <2>2
<1>3. Store!Settle(r)
  BY <1>1, <1>2 DEF Store!Settle, ShelfOf, AskOf, GoalOf, Goal
<1>. QED
  BY <1>3 DEF Store!Next

LEMMA EndStep ==
    ASSUME ContentInv, NEW r \in Requests, file[r] \in Filenames,
           Apart(r, file[r]), UNCHANGED <<file, body>>,
           Progress(r) \in {"asked", "settled"}, Progress(r)' = "none",
           Shelved(file[r])' = Shelved(file[r])
    PROVE  Store!Next
<1>1. Goal(r)' = None /\ AskOf[r] \in {"asked", "settled"}
  BY DEF Goal, AskOf
<1>2. /\ UNCHANGED ShelfOf
      /\ AskOf' = [AskOf EXCEPT ![r] = "none"]
      /\ GoalOf' = [GoalOf EXCEPT ![r] = None]
  BY <1>1, OwnEntries DEF ShelfOf
<1>3. Store!End(r)
  BY <1>1, <1>2 DEF Store!End, ShelfOf, AskOf, GoalOf, Goal
<1>. QED
  BY <1>3 DEF Store!Next

\* A step beside the exchange leaves the shelf alone; it goes on, or it ends a
\* request that has not begun its exchange or has settled it.
LEMMA AsideShelf ==
    ASSUME ContentInv, NEW r \in Requests, Aside(r)
    PROVE  [Store!Next]_(Store!vars)
<1>. USE DEF ContentInv, StagingInv, TypeInv, TypeOK
<1>1. /\ Apart(r, file[r]) /\ UNCHANGED <<file, body>> /\ file[r] \in Filenames
      /\ ~InExchange(r) /\ ~InExchange(r)'
      /\ Shelved(file[r])' = Shelved(file[r])
  <2>1. Receive(r) \/ Work(r)
    BY DEF Aside, Receive, Work
  <2>. QED
    BY <2>1, StepApart, AsideKeeps, OwnExchange, SameShelved
<1>2. \/ Progress(r)' = Progress(r)
      \/ Progress(r) \in {"asked", "settled"} /\ Progress(r)' = "none"
  <2>1. CASE WriteChunk(r)
    BY <1>1, <2>1 DEF WriteChunk, Progress
  <2>2. CASE EndOfBody(r) \/ Inspect(r) \/ ReadPrevious(r)
    <3>1. /\ pc[r] \in {"upload", "inspect", "previous"}
          /\ pc'[r] \in {"inspect", "previous", "clear", "rename"}
      BY <2>2 DEF EndOfBody, Inspect, ReadPrevious, Goto
    <3>. QED
      BY <1>1, <3>1 DEF Progress, IndexSteps
  <2>3. CASE PlanIndex(r) \/ ScanDir(r) \/ WriteIndex(r)
    <3>1. /\ pc[r] \in {"plan", "scan", "write"}
          /\ pc'[r] \in {"scan", "write", "reply"}
      BY <2>3 DEF PlanIndex, ScanDir, WriteIndex, Goto
    <3>. QED
      BY <1>1, <3>1 DEF Progress, IndexSteps
  <2>4. CASE \/ AbortUpload(r) \/ DropUpload(r) \/ RejectUpload(r)
             \/ ScanUnreadable(r) \/ Reply(r) \/ DeleteNothing(r) \/ PutLog(r)
    <3>1. /\ pc[r] \in {"upload", "inspect", "scan", "reply", "delete", "log"}
          /\ pc'[r] = "idle"
      BY <2>4 DEF AbortUpload, DropUpload, RejectUpload, ScanUnreadable, Reply,
                  DeleteNothing, PutLog, GiveUp, Reject, Finish
    <3>. QED
      BY <1>1, <3>1 DEF Progress, IndexSteps
  <2>. QED
    BY <2>1, <2>2, <2>3, <2>4 DEF Aside
<1>. QED
  BY <1>1, <1>2, StutterStep, EndStep

LEMMA WorkShelf ==
    ASSUME ContentInv, ContentInv', NEW r \in Requests, Receive(r) \/ Work(r)
    PROVE  [Store!Next]_(Store!vars)
<1>1. /\ Apart(r, file[r]) /\ UNCHANGED <<file, body>> /\ file[r] \in Filenames
      /\ Exchanging(file[r]) <=> InExchange(r)
      /\ Exchanging(file[r])' <=> InExchange(r)'
  BY StepApart, OwnExchange DEF ContentInv, StagingInv
<1>2. ASSUME InExchange(r) PROVE Progress(r) = "moving"
  BY <1>2 DEF InExchange, Progress
<1>3. ASSUME InExchange(r)' PROVE Progress(r)' = "moving"
  BY <1>3 DEF InExchange, Progress
<1>4. ASSUME ~InExchange(r), pc[r] \in {"clear", "rename", "delete"}
      PROVE  Progress(r) = "asked"
  BY <1>4 DEF Progress, IndexSteps
<1>5. ASSUME InExchange(r), InExchange(r)'
      PROVE  [Store!Next]_(Store!vars)
  <2>1. Shelved(file[r])' = Shelved(file[r])
    BY <1>1, <1>5, ShelvedFacts, ShelvedFactsNext
  <2>. QED
    BY <1>1, <1>2, <1>3, <1>5, <2>1, StutterStep
<1>6. ASSUME ClearPrevious(r) \/ Rename(r) \/ Upsert(r) \/ DeleteRow(r)
      PROVE  [Store!Next]_(Store!vars)
  <2>1. InExchange(r)'
    BY <1>6, ClearTakes, RenamePlaces, UpsertPlaces, DeleteTakes
  <2>2. CASE ~InExchange(r)
    <3>1. pc[r] \in {"clear", "rename", "delete"}
      BY <1>6, <2>2, UpsertPlaces DEF ClearPrevious, Rename, DeleteRow
    <3>. QED
      BY <1>1, <1>3, <1>4, <2>1, <2>2, <3>1, TakeStep
  <2>. QED
    BY <1>5, <2>1, <2>2
<1>7. ASSUME PutFiles(r) \/ Unlink(r)
      PROVE  [Store!Next]_(Store!vars)
  <2>1. InExchange(r) /\ ~InExchange(r)'
    BY <1>7, PutFilesSettles, UnlinkSettles
  <2>2. Shelved(file[r])' = body[r]
    BY <1>1, <1>7, <2>1, PutFilesSettles, UnlinkSettles, ShelvedFactsNext
  <2>3. Progress(r)' = "settled"
    BY <1>7, <2>1
       DEF PutFiles, Unlink, Goto, Progress, IndexSteps, ContentInv, StagingInv,
           TypeInv, TypeOK
  <2>. QED
    BY <1>1, <1>2, <2>1, <2>2, <2>3, SettleStep
<1>8. ~RenameMissing(r)
  BY ContentsFacts
     DEF RenameMissing, ContentInv, StagingInv, TypeInv, Holds, Staging, IngestSteps
<1>. QED
  BY <1>6, <1>7, <1>8, AsideShelf DEF Receive, Work, Aside

LEMMA BeginShelf ==
    ASSUME ~SharedNames, ContentInv, StagingInv', NEW r \in Requests, Begin(r)
    PROVE  [Store!Next]_(Store!vars)
<1>1. PICK f \in Filenames :
        \/ \E a \in Archives : StartPublish(r, f, a) \/ StartLog(r, f, a)
        \/ StartUnpublish(r, f)
  BY DEF Begin
<1>2. /\ pc[r] = "idle" /\ SameFile(f) /\ Apart(r, f) /\ file'[r] = f
  BY <1>1, BeginContent
<1>3. ~InExchange(r) /\ Progress(r) = "none"
  BY <1>2 DEF InExchange, Progress
<1>4. CASE \E a \in Archives : StartLog(r, f, a)
  <2>1. pc'[r] = "log"
    BY <1>4 DEF StartLog, Goto, ContentInv, StagingInv, TypeInv, TypeOK
  <2>2. ~InExchange(r)' /\ Progress(r)' = "none"
    BY <2>1 DEF InExchange, Progress
  <2>3. Shelved(f)' = Shelved(f)
    BY <1>2, <1>3, <2>2, OwnExchange, SameShelved
  <2>. QED
    BY <1>2, <1>3, <2>2, <2>3, StutterStep
<1>5. CASE StartUnpublish(r, f) \/ \E a \in Archives : StartPublish(r, f, a)
  <2>1. pc'[r] \in {"upload", "delete"} /\ body'[r] \in Archives \cup {None}
    BY <1>5 DEF StartPublish, StartUnpublish, Goto, ContentInv, StagingInv,
                TypeInv, TypeOK
  <2>2. ~InExchange(r)' /\ Progress(r)' = "asked"
    BY <2>1 DEF InExchange, Progress, IndexSteps
  <2>3. Shelved(f)' = Shelved(f)
    BY <1>2, <1>3, <2>2, OwnExchange, SameShelved
  <2>. QED
    BY <1>2, <2>1, <2>2, <2>3, AskStep
<1>. QED
  BY <1>1, <1>4, <1>5

LEMMA ShelfStep ==
    ASSUME ~SharedNames, ~Faults, ContentInv, [Next]_vars
    PROVE  [Store!Next]_(Store!vars)
<1>1. ContentInv'
  BY ContentNext
<1>2. CASE \E r \in Requests : Begin(r)
  BY <1>1, <1>2, BeginShelf DEF ContentInv
<1>3. CASE \E r \in Requests : Receive(r) \/ Work(r)
  BY <1>1, <1>3, WorkShelf
<1>4. CASE UNCHANGED vars
  <2>1. \A f \in Filenames : Shelved(f)' = Shelved(f)
    BY <1>4, SameShelved DEF vars, SameFile, Exchanging, InExchange
  <2>2. \A r \in Requests : Progress(r)' = Progress(r)
    BY <1>4 DEF vars, Progress, InExchange
  <2>. QED
    BY <1>4, <2>1, <2>2 DEF Store!vars, vars
<1>. QED
  BY <1>2, <1>3, <1>4 DEF Next, Fail, Crash

\* The repository implements the shelf, for any numbers of requests, files,
\* archives, channels and pieces: as long as running requests name different
\* files and nothing fails, row, archive and file list change hands together.
THEOREM RepositoryImplementsShelf ==
    ASSUME ~SharedNames, ~Faults
    PROVE  Spec => ImplementsShelf
<1>1. Init => Store!Init
  <2>. SUFFICES ASSUME Init PROVE Store!Init
    OBVIOUS
  <2>1. \A f \in Filenames : Shelved(f) = None
    BY ShelvedFacts DEF Init, HoldsNothing, Exchanging, InExchange
  <2>2. \A r \in Requests : Progress(r) = "none"
    BY DEF Init, Progress
  <2>. QED
    BY <2>1, <2>2 DEF Store!Init
<1>2. ContentInv /\ [Next]_vars => ContentInv'
  BY ContentNext
<1>3. ContentInv /\ [Next]_vars => [Store!Next]_(Store!vars)
  BY ShelfStep
<1>. QED
  BY ContentInit, <1>1, <1>2, <1>3, PTL DEF Spec, ImplementsShelf, Store!Spec
=============================================================================
