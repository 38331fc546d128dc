---------------------------- MODULE AnswerProofs ----------------------------
(* What the answer of a request is worth when requests follow one another,  *)
(* whatever failed or was cut off by a stop before: rows, archives, file    *)
(* lists and indexes show what the answer says.                             *)
EXTENDS ShelfProofs

OneRequest == \A q, r \in Requests : q = r

-----------------------------------------------------------------------------
(* Invariants *)

Targets == {SystemDir} \cup RowDirs \cup IndexedDirs

\* The directories a rebuild has done are listed as they are, those it has still
\* to do are all the others.
Indexed(r) ==
    /\ pc[r] \in {"scan", "write"} =>
        \A d \in Targets : d \in todo[r] \/ index[d] = Scan(d)
    /\ pc[r] = "write" => listing[r] = Scan(First(todo[r]))
    /\ pc[r] = "reply" => \A d \in Targets : index[d] = Scan(d)

\* The steps at which the exchange of a request is over.
Exchanged == {"plan", "scan", "write", "reply"}

\* What a publish and a withdrawal have done so far.
Effect(r) ==
    LET f == file[r]
        a == body[r]
    IN /\ a # None =>
           /\ pc[r] \in {"upsert", "files"} \cup Exchanged =>
                disk[DirOf[a]][f] = Whole(a)
           /\ pc[r] \in {"files"} \cup Exchanged =>
                published[f] = [sha |-> a, meta |-> a]
           /\ pc[r] \in Exchanged => files[f] = a
       /\ a = None =>
           /\ pc[r] \in {"unlink"} \cup Exchanged =>
                /\ published[f] = None /\ files[f] = None /\ logs[f] = None
                /\ old[r] \in Dirs
           /\ pc[r] \in Exchanged => disk[old[r]][f] = None

EffectInv == StagingInv /\ \A r \in Requests : Effect(r)

AnswerInv == EffectInv /\ StoredWhole /\ \A r \in Requests : Indexed(r)

LEMMA EffectInit == Init => EffectInv
BY StagingInit DEF Init, EffectInv, Effect, Exchanged

LEMMA AnswerInit == Init => AnswerInv
BY EffectInit DEF Init, AnswerInv, StoredWhole, Indexed

-----------------------------------------------------------------------------
(* Steps *)

\* What a scan finds is a matter of what the directories hold.
LEMMA ScanSame ==
    ASSUME UNCHANGED disk, NEW d
    PROVE  Scan(d)' = Scan(d)
<1>. DEFINE S(D) == [f \in Filenames |->
                        IF D[d][f] = None THEN None
                        ELSE CHOOSE a \in Archives : D[d][f] = Whole(a)]
<1>1. Scan(d) = S(disk)
  BY DEF Scan
<1>2. Scan(d)' = S(disk')
  BY DEF Scan, Whole
<1>3. S(disk') = S(disk)
  OBVIOUS
<1>. QED
  BY <1>1, <1>2, <1>3

LEMMA ScanFacts ==
    ASSUME StoredWhole, NEW d \in Dirs
    PROVE  /\ Scan(d) \in Listings
           /\ \A f \in Filenames, a \in Archives :
                disk[d][f] = Whole(a) /\ Whole(a) # None => Scan(d)[f] = a
<1>1. \A a, b \in Archives : Whole(a) = Whole(b) => a = b
  BY ContentsFacts DEF Whole
<1>2. \A f \in Filenames :
        disk[d][f] # None => \E a \in Archives : disk[d][f] = Whole(a)
  BY DEF StoredWhole
<1>. QED
  BY <1>1, <1>2 DEF Scan, Listings

LEMMA PlanIndexed ==
    ASSUME AnswerInv, NEW r \in Requests, PlanIndex(r)
    PROVE  Indexed(r)'
<1>. USE DEF AnswerInv, EffectInv, StagingInv, TypeInv, TypeOK
<1>1. pc'[r] = "scan" /\ todo'[r] = Targets
  BY DEF PlanIndex, Goto, Targets
<1>2. Targets' = Targets
  BY DEF PlanIndex, Targets, RowDirs, IndexedDirs, dbVars, fsVars
<1>. QED
  BY <1>1, <1>2 DEF Indexed

LEMMA ScanIndexed ==
    ASSUME AnswerInv, NEW r \in Requests, ScanDir(r)
    PROVE  Indexed(r)'
<1>. USE DEF AnswerInv, EffectInv, StagingInv, TypeInv, TypeOK
<1>1. /\ pc[r] = "scan" /\ pc'[r] = "write"
      /\ UNCHANGED <<disk, index, todo, published>>
      /\ listing'[r] = Scan(First(todo[r]))
  BY DEF ScanDir, Goto, dbVars, fsVars
<1>2. Targets' = Targets
  BY <1>1 DEF Targets, RowDirs, IndexedDirs
<1>3. \A d : Scan(d)' = Scan(d)
  BY <1>1, ScanSame
<1>4. listing'[r] = Scan(First(todo[r]))'
  BY <1>1, <1>3
<1>. QED
  BY <1>1, <1>2, <1>3, <1>4 DEF Indexed

LEMMA WriteIndexed ==
    ASSUME AnswerInv, NEW r \in Requests, WriteIndex(r)
    PROVE  Indexed(r)'
<1>. DEFINE d == First(todo[r])
<1>. USE DEF AnswerInv, EffectInv, StagingInv, TypeInv, TypeOK
<1>1. /\ pc[r] = "write" /\ UNCHANGED <<disk, published>>
      /\ index' = [index EXCEPT ![d] = listing[r]]
      /\ todo'[r] = todo[r] \ {d}
      /\ pc'[r] = IF todo'[r] = {} THEN "reply" ELSE "scan"
  BY DEF WriteIndex, Goto, dbVars
<1>2. listing[r] = Scan(d) /\ \A e \in Targets : e \in todo[r] \/ index[e] = Scan(e)
  BY <1>1 DEF Indexed
<1>3. \A e \in Dirs : index'[e] = IF e = d THEN Scan(d) ELSE index[e]
  BY <1>1, <1>2
<1>4. \A e \in Targets' : e \in Dirs /\ (e \in Targets \/ e = d)
  <2>1. {SystemDir}' = {SystemDir} /\ RowDirs' = RowDirs
    BY <1>1 DEF RowDirs
  <2>2. \A e \in IndexedDirs' : e \in IndexedDirs \/ e = d
    BY <1>3 DEF IndexedDirs
  <2>3. SystemDir \in Dirs /\ RowDirs \subseteq Dirs /\ IndexedDirs' \subseteq Dirs
    BY ConstantsAssumption, ContentsFacts DEF RowDirs, IndexedDirs, Rows
  <2>. QED
    BY <2>1, <2>2, <2>3 DEF Targets
<1>5. \A e \in Targets' : e \in todo'[r] \/ index'[e] = Scan(e)
  BY <1>1, <1>2, <1>3, <1>4
<1>6. \A e : Scan(e)' = Scan(e)
  BY <1>1, ScanSame
<1>. QED
  BY <1>1, <1>5, <1>6 DEF Indexed

LEMMA OtherIndexed ==
    ASSUME NEW r \in Requests, pc'[r] \notin {"scan", "write", "reply"}
    PROVE  Indexed(r)'
BY DEF Indexed

LEMMA OtherEffect ==
    ASSUME NEW r \in Requests,
           pc'[r] \notin {"upsert", "files", "unlink"} \cup Exchanged
    PROVE  Effect(r)'
BY DEF Effect, Exchanged

LEMMA MoveEffect ==
    ASSUME EffectInv, NEW r \in Requests, Rename(r) \/ DeleteRow(r) \/ Unlink(r)
    PROVE  Effect(r)'
<1>. DEFINE f == file[r]
            a == body[r]
<1>. USE DEF EffectInv, StagingInv, TypeInv, TypeOK
<1>1. UNCHANGED <<file, body>> /\ f \in Filenames
  BY DEF Rename, DeleteRow, Unlink, Holds, uploadVars
<1>2. Whole(a)' = Whole(a)
  BY <1>1 DEF Whole
<1>3. CASE Rename(r)
  <2>1. /\ pc'[r] = "upsert" /\ a = meta[r] /\ a \in Archives
        /\ staged[f] = Whole(a)
        /\ disk' = [disk EXCEPT ![DirOf[a]][f] = staged[f]]
    BY <1>3 DEF Rename, Goto, Staging, Holds, IngestSteps
  <2>2. DirOf[a] \in Dirs /\ a # None
    BY <2>1, ContentsFacts
  <2>3. disk'[DirOf[a]][f] = Whole(a)
    BY <1>1, <2>1, <2>2
  <2>. QED
    BY <1>1, <1>2, <2>1, <2>2, <2>3 DEF Effect, Exchanged
<1>4. CASE DeleteRow(r)
  <2>1. /\ pc'[r] = "unlink" /\ a = None
        /\ published'[f] = None /\ files'[f] = None /\ logs'[f] = None
        /\ published[f] \in Rows /\ old'[r] = DirOf[published[f].meta]
    BY <1>1, <1>4 DEF DeleteRow, Goto, Staging, WithdrawSteps
  <2>2. old'[r] \in Dirs
    BY <2>1, ContentsFacts DEF Rows
  <2>. QED
    BY <1>1, <2>1, <2>2 DEF Effect, Exchanged
<1>5. CASE Unlink(r)
  <2>1. /\ pc[r] = "unlink" /\ pc'[r] = "plan" /\ a = None
        /\ UNCHANGED <<published, files, logs, old>>
        /\ disk' = [disk EXCEPT ![old[r]][f] = None]
    BY <1>5 DEF Unlink, Goto, Staging, WithdrawSteps, dbVars, ingestVars
  <2>2. /\ published[f] = None /\ files[f] = None /\ logs[f] = None
        /\ old[r] \in Dirs
    BY <2>1 DEF Effect
  <2>. QED
    BY <1>1, <2>1, <2>2 DEF Effect, Exchanged
<1>. QED
  BY <1>3, <1>4, <1>5

LEMMA RecordEffect ==
    ASSUME EffectInv, NEW r \in Requests, Upsert(r) \/ PutFiles(r)
    PROVE  Effect(r)'
<1>. DEFINE f == file[r]
            a == body[r]
<1>. USE DEF EffectInv, StagingInv, TypeInv, TypeOK
<1>1. /\ UNCHANGED <<file, body, disk>> /\ f \in Filenames
      /\ a = meta[r] /\ a # None
  BY ContentsFacts
     DEF Upsert, PutFiles, Holds, Staging, IngestSteps, fsVars, uploadVars
<1>2. Whole(a)' = Whole(a)
  BY <1>1 DEF Whole
<1>3. disk[DirOf[a]][f] = Whole(a)
  BY <1>1 DEF Upsert, PutFiles, Effect
<1>4. CASE Upsert(r)
  BY <1>1, <1>2, <1>3, <1>4 DEF Upsert, Goto, Effect, Exchanged
<1>5. CASE PutFiles(r)
  <2>1. published'[f] = [sha |-> a, meta |-> a]
    BY <1>1, <1>5 DEF PutFiles, Effect
  <2>2. files'[f] = a
    BY <1>1, <1>5 DEF PutFiles
  <2>. QED
    BY <1>1, <1>2, <1>3, <1>5, <2>1, <2>2 DEF Effect
<1>. QED
  BY <1>4, <1>5

LEMMA IndexEffect ==
    ASSUME EffectInv, NEW r \in Requests,
           PlanIndex(r) \/ ScanDir(r) \/ WriteIndex(r)
    PROVE  Effect(r)'
<1>1. /\ UNCHANGED <<published, files, logs, disk, file, body, old>>
      /\ pc[r] \in Exchanged /\ pc'[r] \in Exchanged
  BY DEF PlanIndex, ScanDir, WriteIndex, Goto, Exchanged, dbVars, fsVars,
         uploadVars, ingestVars, EffectInv, StagingInv, TypeInv, TypeOK
<1>2. Whole(body[r])' = Whole(body[r])
  BY <1>1 DEF Whole
<1>3. Effect(r)
  BY DEF EffectInv
<1>. QED
  BY <1>1, <1>2, <1>3 DEF Effect

\* The steps that neither exchange anything nor rebuild an index.
LEMMA ElsewhereSteps ==
    ASSUME EffectInv, NEW r \in Requests,
           \/ Begin(r) \/ Receive(r) \/ Fail(r)
           \/ Inspect(r) \/ RejectUpload(r) \/ ReadPrevious(r)
           \/ ClearPrevious(r) \/ RenameMissing(r) \/ ScanUnreadable(r)
           \/ Reply(r) \/ DeleteNothing(r) \/ PutLog(r)
    PROVE  pc'[r] \notin
               {"scan", "write", "reply", "plan", "upsert", "files", "unlink"}
<1>. USE DEF EffectInv, StagingInv, TypeInv, TypeOK
<1>1. CASE WriteChunk(r)
  BY <1>1 DEF WriteChunk, Staging
<1>2. CASE Begin(r)
  BY <1>2 DEF Begin, StartPublish, StartLog, StartUnpublish, Goto
<1>3. CASE ~WriteChunk(r) /\ ~Begin(r)
  BY <1>3
     DEF Receive, Fail, EndOfBody, AbortUpload, DropUpload, Inspect,
         RejectUpload, ReadPrevious, ClearPrevious, RenameMissing,
         ScanUnreadable, Reply, DeleteNothing, PutLog, GiveUp, Reject,
         Finish, Goto
<1>. QED
  BY <1>1, <1>2, <1>3

LEMMA OwnEffect ==
    ASSUME EffectInv, NEW r \in Requests, Begin(r) \/ Receive(r) \/ Work(r) \/ Fail(r)
    PROVE  Effect(r)'
<1>. USE DEF EffectInv, StagingInv, TypeInv, TypeOK
<1>1. CASE \/ PlanIndex(r) \/ ScanDir(r) \/ WriteIndex(r)
           \/ Rename(r) \/ DeleteRow(r) \/ Unlink(r) \/ Upsert(r) \/ PutFiles(r)
  BY <1>1, IndexEffect, MoveEffect, RecordEffect
<1>2. CASE \/ Begin(r) \/ Receive(r) \/ Fail(r)
           \/ Inspect(r) \/ RejectUpload(r) \/ ReadPrevious(r)
           \/ ClearPrevious(r) \/ RenameMissing(r) \/ ScanUnreadable(r)
           \/ Reply(r) \/ DeleteNothing(r) \/ PutLog(r)
  BY <1>2, ElsewhereSteps, OtherEffect DEF Exchanged
<1>. QED
  BY <1>1, <1>2 DEF Work

\* Logs are written and deleted under the name of the request's own file.
LEMMA LogsApart ==
    ASSUME TypeInv, NEW r \in Requests, Receive(r) \/ Work(r) \/ Fail(r),
           NEW g \in Filenames, g # file[r]
    PROVE  logs'[g] = logs[g]
BY DEF Receive, Work, Fail, WriteChunk, EndOfBody, AbortUpload, DropUpload,
       Inspect, RejectUpload, ReadPrevious, ClearPrevious, Rename, RenameMissing,
       Upsert, PutFiles, PlanIndex, ScanDir, ScanUnreadable, WriteIndex, Reply,
       DeleteRow, DeleteNothing, Unlink, PutLog, Reject, GiveUp, dbVars, TypeInv,
       TypeOK

LEMMA OthersEffect ==
    ASSUME EffectInv, NEW r \in Requests, NEW f \in Filenames, Apart(r, f),
           \A g \in Filenames : g # f => logs'[g] = logs[g],
           NEW q \in Requests, q # r
    PROVE  Effect(q)'
<1>1. CASE pc[q] = "idle"
  BY <1>1, OtherEffect DEF Apart, Exchanged
<1>2. CASE pc[q] # "idle"
  <2>1. /\ pc'[q] = pc[q] /\ file'[q] = file[q] /\ body'[q] = body[q]
        /\ old'[q] = old[q]
    BY DEF Apart
  <2>2. file[q] \in Filenames /\ file[q] # f
    BY <1>2 DEF Apart, Busy, EffectInv, StagingInv, TypeInv, Holds
  <2>3. /\ published'[file[q]] = published[file[q]]
        /\ files'[file[q]] = files[file[q]] /\ logs'[file[q]] = logs[file[q]]
        /\ \A d \in Dirs : disk'[d][file[q]] = disk[d][file[q]]
    BY <2>2 DEF Apart
  <2>4. body[q] # None => DirOf[body[q]] \in Dirs
    BY ContentsFacts DEF EffectInv, StagingInv, TypeInv, TypeOK
  <2>5. Whole(body[q])' = Whole(body[q])
    BY <2>1 DEF Whole
  <2>6. Effect(q)
    BY DEF EffectInv
  <2>. QED
    BY <2>1, <2>3, <2>4, <2>5, <2>6 DEF Effect
<1>. QED
  BY <1>1, <1>2

LEMMA EffectNext ==
    ASSUME ~SharedNames, EffectInv, [Next]_vars
    PROVE  EffectInv'
<1>1. StagingInv'
  BY StagingNext DEF EffectInv
<1>2. ASSUME NEW r \in Requests, Begin(r) PROVE EffectInv'
  <2>1. PICK f \in Filenames :
            \/ \E a \in Archives : StartPublish(r, f, a) \/ StartLog(r, f, a)
            \/ StartUnpublish(r, f)
    BY <1>2 DEF Begin
  <2>2. Apart(r, f)
    BY <2>1, BeginApart DEF EffectInv, StagingInv
  <2>3. UNCHANGED logs
    BY <2>1 DEF StartPublish, StartLog, StartUnpublish, dbVars
  <2>4. \A q \in Requests : q # r => Effect(q)'
    BY <2>2, <2>3, OthersEffect
  <2>. QED
    BY <1>1, <1>2, <2>4, OwnEffect DEF EffectInv
<1>3. ASSUME NEW r \in Requests, Receive(r) \/ Work(r) \/ Fail(r)
      PROVE  EffectInv'
  <2>1. Apart(r, file[r]) /\ file[r] \in Filenames
    BY <1>3, StepApart DEF EffectInv, StagingInv
  <2>2. \A g \in Filenames : g # file[r] => logs'[g] = logs[g]
    BY <1>3, LogsApart DEF EffectInv, StagingInv
  <2>3. \A q \in Requests : q # r => Effect(q)'
    BY <2>1, <2>2, OthersEffect
  <2>. QED
    BY <1>1, <1>3, <2>3, OwnEffect DEF EffectInv
<1>4. CASE Crash
  BY <1>1, <1>4, OtherEffect DEF EffectInv, Crash, Exchanged
<1>5. CASE UNCHANGED vars
  <2>1. \A r \in Requests : Whole(body[r])' = Whole(body[r])
    BY <1>5 DEF vars, Whole
  <2>2. ASSUME NEW r \in Requests PROVE Effect(r)'
    BY <1>5, <2>1 DEF vars, EffectInv, Effect, Exchanged
  <2>. QED
    BY <1>1, <2>2 DEF EffectInv
<1>. QED
  BY <1>2, <1>3, <1>4, <1>5 DEF Next

LEMMA OwnIndexed ==
    ASSUME AnswerInv, NEW r \in Requests, Begin(r) \/ Receive(r) \/ Work(r) \/ Fail(r)
    PROVE  Indexed(r)'
<1>. USE DEF AnswerInv, EffectInv, StagingInv, TypeInv, TypeOK
<1>1. CASE PlanIndex(r) \/ ScanDir(r) \/ WriteIndex(r)
  BY <1>1, PlanIndexed, ScanIndexed, WriteIndexed
<1>2. CASE Rename(r) \/ DeleteRow(r) \/ Unlink(r) \/ Upsert(r) \/ PutFiles(r)
  <2>1. pc'[r] \notin {"scan", "write", "reply"}
    BY <1>2 DEF Rename, DeleteRow, Unlink, Upsert, PutFiles, Goto
  <2>. QED
    BY <2>1, OtherIndexed
<1>3. CASE \/ Begin(r) \/ Receive(r) \/ Fail(r)
           \/ Inspect(r) \/ RejectUpload(r) \/ ReadPrevious(r)
           \/ ClearPrevious(r) \/ RenameMissing(r) \/ ScanUnreadable(r)
           \/ Reply(r) \/ DeleteNothing(r) \/ PutLog(r)
  BY <1>3, ElsewhereSteps, OtherIndexed
<1>. QED
  BY <1>1, <1>2, <1>3 DEF Work

LEMMA AnswerNext ==
    ASSUME ~SharedNames, OneRequest, AnswerInv, [Next]_vars
    PROVE  AnswerInv'
<1>1. EffectInv' /\ StoredWhole'
  BY EffectNext, WholeNext DEF AnswerInv, EffectInv
<1>2. ASSUME NEW r \in Requests, Begin(r) \/ Receive(r) \/ Work(r) \/ Fail(r)
      PROVE  AnswerInv'
  BY <1>1, <1>2, OwnIndexed DEF AnswerInv, OneRequest
<1>3. CASE Crash
  BY <1>1, <1>3, OtherIndexed DEF AnswerInv, Crash
<1>4. CASE UNCHANGED vars
  <2>1. \A d : Scan(d)' = Scan(d)
    BY <1>4, ScanSame DEF vars
  <2>2. Targets' = Targets
    BY <1>4 DEF vars, Targets, RowDirs, IndexedDirs
  <2>3. ASSUME NEW r \in Requests PROVE Indexed(r)'
    BY <1>4, <2>1, <2>2 DEF vars, AnswerInv, Indexed
  <2>. QED
    BY <1>1, <2>3 DEF AnswerInv
<1>. QED
  BY <1>2, <1>3, <1>4 DEF Next

-----------------------------------------------------------------------------
(* Answers *)

\* What a request that answers has done to its own file. Of a withdrawal: the
\* tables have nothing of the file, nor has the directory its row named.
AnswersStored ==
    \A r \in Requests :
        pc[r] = "reply" =>
            LET f == file[r]
                a == body[r]
            IN /\ a # None =>
                    /\ published[f] = [sha |-> a, meta |-> a]
                    /\ files[f] = a /\ disk[DirOf[a]][f] = Whole(a)
               /\ a = None =>
                    /\ published[f] = None /\ files[f] = None /\ logs[f] = None
                    /\ disk[old[r]][f] = None

\* However many requests on different files run at once, fail or were cut off by
\* a stop: when a publish answers, the row, the file list and the archive of its
\* file are the uploaded ones; when a withdrawal answers, row, file list and log
\* are gone, and the archive from the directory of the row.
THEOREM AnswersTrue ==
    ASSUME ~SharedNames
    PROVE  Spec => []AnswersStored
<1>1. EffectInv => AnswersStored
  BY DEF EffectInv, Effect, Exchanged, AnswersStored
<1>. QED
  BY <1>1, EffectInit, EffectNext, PTL DEF Spec

\* Without failures a withdrawal that answers has left nothing of its file in any
\* table or channel directory, whatever was published in which channel before and
\* whatever happens to other files meanwhile (web::unpublish_file).
THEOREM WithdrawalComplete ==
    ASSUME ~SharedNames, ~Faults
    PROVE  Spec => []WithdrawnIsGone
<1>1. ContentInv /\ EffectInv => WithdrawnIsGone
  <2>. SUFFICES ASSUME ContentInv, EffectInv, NEW r \in Requests,
                       pc[r] = "reply", body[r] = None
                PROVE  HoldsNothing(file[r]) /\ logs[file[r]] = None
    BY DEF WithdrawnIsGone
  <2>1. published[file[r]] = None /\ logs[file[r]] = None
    BY DEF EffectInv, Effect, Exchanged
  <2>2. Consistent(file[r])
    BY BeforeExchange DEF InExchange
  <2>3. \A a \in Archives : ~HoldsOnly(file[r], a)
    BY <2>1, ContentsFacts DEF HoldsOnly, Rows
  <2>. QED
    BY <2>1, <2>2, <2>3 DEF Consistent
<1>. QED
  BY <1>1, ContentInit, ContentNext, EffectInit, EffectNext, PTL DEF Spec

\* When a request answers, every index lists what its directory holds, those
\* that failed or stopped requests before it left behind included.
THEOREM IndexesRepaired ==
    ASSUME ~SharedNames, OneRequest
    PROVE  Spec => []IndexMatchesDirectories
<1>1. AnswerInv => IndexMatchesDirectories
  BY DEF AnswerInv, Indexed, Targets, IndexMatchesDirectories
<1>. QED
  BY <1>1, AnswerInit, AnswerNext, PTL DEF Spec

\* The receipt of a publish is true: the row, the archive, the file list and
\* the index of its channel are those of the uploaded archive.
THEOREM ReceiptTrue ==
    ASSUME ~SharedNames, OneRequest
    PROVE  Spec => []PublishTakesEffect
<1>1. AnswerInv => PublishTakesEffect
  <2>. SUFFICES ASSUME AnswerInv, NEW r \in Requests, pc[r] = "reply",
                       body[r] # None
                PROVE  LET f == file[r]
                           a == body[r]
                       IN /\ published[f] = [sha |-> a, meta |-> a]
                          /\ files[f] = a
                          /\ disk[DirOf[a]][f] = Whole(a)
                          /\ index[DirOf[a]] # None /\ index[DirOf[a]][f] = a
    BY DEF PublishTakesEffect
  <2>. DEFINE f == file[r]
              a == body[r]
  <2>1. /\ published[f] = [sha |-> a, meta |-> a]
        /\ files[f] = a
        /\ disk[DirOf[a]][f] = Whole(a)
    BY DEF AnswerInv, EffectInv, Effect, Exchanged
  <2>2. f \in Filenames /\ a \in Archives /\ DirOf[a] \in Dirs
    BY ContentsFacts DEF AnswerInv, EffectInv, StagingInv, TypeInv, TypeOK, Holds
  <2>3. [sha |-> a, meta |-> a] # None /\ published[f].meta = a
    BY <2>1, <2>2, ContentsFacts DEF Rows
  <2>4. DirOf[a] \in Targets
    BY <2>1, <2>2, <2>3 DEF Targets, RowDirs
  <2>5. index[DirOf[a]] = Scan(DirOf[a])
    BY <2>4 DEF AnswerInv, Indexed
  <2>6. Whole(a) # None /\ StoredWhole
    BY <2>2, ContentsFacts DEF AnswerInv
  <2>7. Scan(DirOf[a]) \in Listings /\ Scan(DirOf[a])[f] = a
    BY <2>1, <2>2, <2>6, ScanFacts
  <2>. QED
    BY <2>1, <2>5, <2>7, ContentsFacts
<1>. QED
  BY <1>1, AnswerInit, AnswerNext, PTL DEF Spec

\* Whatever failed before, a withdrawal that answers has taken row, file list and
\* log away, and the archive and its index entry from the directory of the row.
THEOREM WithdrawalTrue ==
    ASSUME ~SharedNames, OneRequest
    PROVE  Spec => []UnpublishTakesEffect
<1>1. AnswerInv => UnpublishTakesEffect
  <2>. SUFFICES ASSUME AnswerInv, NEW r \in Requests, pc[r] = "reply",
                       body[r] = None
                PROVE  LET f == file[r]
                           listed == index[old[r]]
                       IN /\ published[f] = None /\ files[f] = None
                          /\ logs[f] = None /\ disk[old[r]][f] = None
                          /\ listed # None => listed[f] = None
    BY DEF UnpublishTakesEffect
  <2>1. /\ published[file[r]] = None /\ files[file[r]] = None
        /\ logs[file[r]] = None /\ disk[old[r]][file[r]] = None
        /\ old[r] \in Dirs /\ file[r] \in Filenames
    BY DEF AnswerInv, EffectInv, StagingInv, TypeInv, TypeOK, Holds, Effect, Exchanged
  <2>2. ASSUME index[old[r]] # None PROVE index[old[r]] = Scan(old[r])
    BY <2>1, <2>2 DEF AnswerInv, Indexed, Targets, IndexedDirs
  <2>3. Scan(old[r])[file[r]] = None
    BY <2>1 DEF Scan
  <2>. QED
    BY <2>1, <2>2, <2>3
<1>. QED
  BY <1>1, AnswerInit, AnswerNext, PTL DEF Spec

\* No index lists the file of a withdrawal that answers.
WithdrawnIsUnlisted ==
    \A r \in Requests :
        pc[r] = "reply" /\ body[r] = None =>
            \A d \in IndexedDirs : index[d][file[r]] = None

\* Without failures, and with no other request to write an index meanwhile, a
\* withdrawn file is gone from every index, of whatever channel.
THEOREM WithdrawalUnlisted ==
    ASSUME ~SharedNames, ~Faults, OneRequest
    PROVE  Spec => []WithdrawnIsUnlisted
<1>1. AnswerInv /\ WithdrawnIsGone => WithdrawnIsUnlisted
  <2>. SUFFICES ASSUME AnswerInv, WithdrawnIsGone, NEW r \in Requests,
                       pc[r] = "reply", body[r] = None, NEW d \in IndexedDirs
                PROVE  index[d][file[r]] = None
    BY DEF WithdrawnIsUnlisted
  <2>1. index[d] = Scan(d) /\ d \in Dirs
    BY DEF AnswerInv, Indexed, Targets, IndexedDirs
  <2>2. disk[d][file[r]] = None /\ file[r] \in Filenames
    BY <2>1 DEF WithdrawnIsGone, HoldsNothing, AnswerInv, EffectInv, StagingInv,
                TypeInv, TypeOK, Holds
  <2>. QED
    BY <2>1, <2>2 DEF Scan
<1>. QED
  BY <1>1, WithdrawalComplete, AnswerInit, AnswerNext, PTL DEF Spec
=============================================================================
