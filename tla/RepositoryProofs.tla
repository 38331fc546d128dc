-------------------------- MODULE RepositoryProofs --------------------------
(* Theorems about Repository, checked by TLAPS. *)
EXTENDS Repository, TLAPS

\* What a running request holds: TypeOK alone does not tell that an open
\* descriptor has a file behind it and a piece left to write.
Holds(r) ==
    /\ pc[r] # "idle" => file[r] \in Filenames
    /\ pc[r] \in {"upload", "log"} \cup IngestSteps => body[r] \in Archives
    /\ pc[r] \in IngestSteps \ {"inspect"} => meta[r] \in Archives
    /\ fd[r] # None =>
        /\ file[r] \in Filenames /\ body[r] \in Archives /\ sent[r] < NChunks
        /\ fd[r] = Staged => staged[file[r]] # None
        /\ fd[r] \in Dirs => disk[fd[r]][file[r]] # None

TypeInv == TypeOK /\ \A r \in Requests : Holds(r)

LEMMA ContentsFacts ==
    /\ Blank \in Contents
    /\ \A a \in Archives : Whole(a) \in Contents
    /\ None \notin Contents /\ None \notin Listings /\ None \notin Rows
    /\ None \notin Archives /\ None \notin Dirs /\ None # Staged
    /\ Staged \notin Dirs
    /\ DirOf \in [Archives -> Dirs] /\ NChunks \in Nat \ {0}
BY ConstantsAssumption DEF Blank, Whole, Contents, Listings, Rows, Staged

LEMMA TypeInit == Init => TypeInv
BY ContentsFacts
   DEF Init, TypeInv, TypeOK, Holds, Steps, IngestSteps, Staged

\* A request ends: nothing is claimed of an idle request without a descriptor.
LEMMA FinishTypes ==
    ASSUME TypeInv, NEW r \in Requests, Finish(r)
    PROVE  /\ pc' \in [Requests -> Steps]
           /\ meta' \in [Requests -> Archives \cup {None}]
           /\ old' \in [Requests -> Dirs \cup {None}]
           /\ todo' \in [Requests -> SUBSET Dirs]
           /\ listing' \in [Requests -> Listings \cup {None}]
           /\ pc'[r] = "idle"
           /\ \A q \in Requests :
                q # r => pc'[q] = pc[q] /\ meta'[q] = meta[q]
BY DEF TypeInv, TypeOK, Finish, Steps

\* Unlinking or overwriting a file closes exactly the descriptors open on it.
LEMMA CloseAtFacts ==
    ASSUME TypeOK, NEW place, NEW f
    PROVE  /\ CloseAt(place, f) \in [Requests -> Dirs \cup {Staged, None}]
           /\ \A q \in Requests :
                CloseAt(place, f)[q] # None =>
                    /\ CloseAt(place, f)[q] = fd[q]
                    /\ fd[q] # place \/ file[q] # f
BY DEF TypeOK, CloseAt

LEMMA StartTypes ==
    ASSUME TypeInv, NEW r \in Requests, Begin(r)
    PROVE  TypeInv'
<1>. USE ContentsFacts
     DEF TypeInv, TypeOK, Holds, Goto, MayUse, Busy, dbVars, fsVars,
         uploadVars, ingestVars, Steps, IngestSteps
<1>1. ASSUME NEW f \in Filenames, NEW a \in Archives, StartPublish(r, f, a)
      PROVE  TypeInv'
  <2>1. /\ TypeOK'
        /\ \A q \in Requests : fd[q] # None => fd'[q] # None
    BY <1>1 DEF StartPublish
  <2>2. Holds(r)'
    BY <1>1 DEF StartPublish, Staged
  <2>3. ASSUME NEW q \in Requests, q # r
        PROVE  Holds(q)'
    <3>1. /\ pc'[q] = pc[q] /\ file'[q] = file[q] /\ body'[q] = body[q]
          /\ sent'[q] = sent[q] /\ fd'[q] = fd[q] /\ meta'[q] = meta[q]
          /\ disk' = disk
      BY <1>1, <2>3 DEF StartPublish
    <3>2. \A g \in Filenames : staged[g] # None => staged'[g] # None
      BY <1>1 DEF StartPublish
    <3>. QED
      BY <3>1, <3>2
  <2>. QED
    BY <2>1, <2>2, <2>3
<1>2. ASSUME NEW f \in Filenames, NEW a \in Archives, StartLog(r, f, a)
      PROVE  TypeInv'
  BY <1>2 DEF StartLog
<1>3. ASSUME NEW f \in Filenames, StartUnpublish(r, f)
      PROVE  TypeInv'
  <2>. /\ pc' = [pc EXCEPT ![r] = "delete"]
       /\ file' = [file EXCEPT ![r] = f]
       /\ body' = [body EXCEPT ![r] = None]
       /\ fd[r] = None
       /\ UNCHANGED <<published, files, logs, disk, staged, index, sent, fd,
                      meta, old, todo, listing>>
    BY <1>3 DEF StartUnpublish
  <2>1. TypeOK'
    BY DEF WithdrawSteps
  <2>2. Holds(r)'
    OBVIOUS
  <2>3. \A q \in Requests : q # r => Holds(q)'
    OBVIOUS
  <2>. QED
    BY <2>1, <2>2, <2>3
<1>. QED
  BY <1>1, <1>2, <1>3 DEF Begin

LEMMA WriteTypes ==
    ASSUME TypeInv, NEW r \in Requests, WriteChunk(r)
    PROVE  TypeInv'
<1>. DEFINE n == sent[r] + 1
            f == file[r]
<1>1. /\ f \in Filenames /\ body[r] \in Archives /\ n \in 1 .. NChunks
      /\ fd[r] \in Dirs \cup {Staged}
  BY ContentsFacts DEF WriteChunk, TypeInv, TypeOK, Holds
<1>2. /\ sent' = [sent EXCEPT ![r] = n]
      /\ fd' = [fd EXCEPT ![r] = IF n = NChunks THEN None ELSE fd[r]]
      /\ UNCHANGED <<dbVars, index, pc, file, body, ingestVars>>
  BY DEF WriteChunk
<1>3. /\ sent' \in [Requests -> 0 .. NChunks]
      /\ fd' \in [Requests -> Dirs \cup {Staged, None}]
      /\ fd'[r] # None => sent'[r] < NChunks
  <2>1. sent[r] \in 0 .. NChunks /\ NChunks \in Nat
    BY ContentsFacts DEF TypeInv, TypeOK
  <2>2. n \in 0 .. NChunks /\ (n # NChunks => n < NChunks)
    BY <1>1, <2>1
  <2>. QED
    BY <1>1, <1>2, <2>2 DEF TypeInv, TypeOK
<1>4. CASE fd[r] = Staged
  <2>1. /\ staged' = [staged EXCEPT ![f][n] = body[r]]
        /\ disk' = disk
    BY <1>4 DEF WriteChunk
  <2>2. staged[f] \in Contents
    BY <1>1, <1>4, ContentsFacts DEF TypeInv, TypeOK, Holds, WriteChunk
  <2>3. [staged[f] EXCEPT ![n] = body[r]] \in Contents
    BY <1>1, <2>2 DEF Contents
  <2>4. /\ staged' \in [Filenames -> Contents \cup {None}]
        /\ \A g \in Filenames : staged[g] # None => staged'[g] # None
    BY <1>1, <2>1, <2>3, ContentsFacts DEF TypeInv, TypeOK
  <2>. QED
    BY <1>1, <1>2, <1>3, <1>4, <2>1, <2>4, ContentsFacts
       DEF TypeInv, TypeOK, Holds, dbVars, ingestVars, Staged
<1>5. CASE fd[r] # Staged
  <2>1. /\ disk' = [disk EXCEPT ![fd[r]][f][n] = body[r]]
        /\ staged' = staged
    BY <1>5 DEF WriteChunk
  <2>2. fd[r] \in Dirs /\ disk[fd[r]][f] \in Contents
    BY <1>1, <1>5, ContentsFacts DEF TypeInv, TypeOK, Holds, WriteChunk
  <2>3. [disk[fd[r]][f] EXCEPT ![n] = body[r]] \in Contents
    BY <1>1, <2>2 DEF Contents
  <2>4. /\ disk' \in [Dirs -> [Filenames -> Contents \cup {None}]]
        /\ \A d \in Dirs, g \in Filenames :
            disk[d][g] # None => disk'[d][g] # None
    BY <1>1, <2>1, <2>2, <2>3, ContentsFacts DEF TypeInv, TypeOK
  <2>. QED
    BY <1>1, <1>2, <1>3, <1>5, <2>1, <2>4, ContentsFacts, SMTT(20)
       DEF TypeInv, TypeOK, Holds, dbVars, ingestVars
<1>. QED
  BY <1>4, <1>5

\* What a step of request r has to show about descriptors and files: the
\* descriptors that stay open keep a file behind them.
StillOpen(q) ==
    fd'[q] # None =>
        /\ fd[q] # None
        /\ fd'[q] = Staged => staged'[file[q]] # None
        /\ fd'[q] \in Dirs => disk'[fd'[q]][file[q]] # None

LEMMA LocalStep ==
    ASSUME TypeInv, TypeOK', NEW r \in Requests,
           UNCHANGED <<file, body, sent>>,
           \A q \in Requests : q # r => pc'[q] = pc[q] /\ meta'[q] = meta[q],
           pc'[r] # "idle" => file[r] \in Filenames,
           pc'[r] \in {"upload", "log"} \cup IngestSteps => body[r] \in Archives,
           pc'[r] \in IngestSteps \ {"inspect"} => meta'[r] \in Archives,
           \A q \in Requests : StillOpen(q)
    PROVE  TypeInv'
BY DEF TypeInv, Holds, StillOpen

LEMMA SameFiles ==
    ASSUME TypeInv, UNCHANGED <<fsVars, fd>>
    PROVE  \A q \in Requests : StillOpen(q)
BY DEF TypeInv, Holds, StillOpen, fsVars

\* A request ends and removes the staging name, or leaves it.
LEMMA RemoveTypes ==
    ASSUME TypeInv, NEW r \in Requests, Finish(r), file[r] \in Filenames,
           \/ /\ staged' = [staged EXCEPT ![file[r]] = None]
              /\ fd' = CloseAt(Staged, file[r])
           \/ UNCHANGED <<staged, fd>>,
           UNCHANGED <<dbVars, disk, index, file, body, sent>>
    PROVE  TypeInv'
<1>1. TypeOK'
  <2>1. /\ staged' \in [Filenames -> Contents \cup {None}]
        /\ fd' \in [Requests -> Dirs \cup {Staged, None}]
    BY CloseAtFacts DEF TypeInv, TypeOK
  <2>. QED
    BY <2>1, FinishTypes DEF TypeInv, TypeOK, dbVars
<1>2. \A q \in Requests : StillOpen(q)
  <2>1. CASE UNCHANGED <<staged, fd>>
    BY <2>1, SameFiles DEF fsVars
  <2>2. CASE /\ staged' = [staged EXCEPT ![file[r]] = None]
             /\ fd' = CloseAt(Staged, file[r])
    BY <2>2, CloseAtFacts, ContentsFacts DEF TypeInv, TypeOK, Holds, StillOpen
  <2>. QED
    BY <2>1, <2>2
<1>. QED
  BY <1>1, <1>2, FinishTypes, LocalStep DEF IngestSteps

LEMMA ReceiveTypes ==
    ASSUME TypeInv, NEW r \in Requests, Receive(r)
    PROVE  TypeInv'
<1>1. CASE WriteChunk(r)
  BY <1>1, WriteTypes
<1>2. CASE EndOfBody(r)
  <2>1. TypeOK' /\ \A q \in Requests : StillOpen(q)
    BY <1>2, SameFiles
       DEF EndOfBody, TypeInv, TypeOK, Goto, Steps, IngestSteps, dbVars,
           fsVars, uploadVars, ingestVars
  <2>. QED
    BY <1>2, <2>1, LocalStep
       DEF EndOfBody, TypeInv, TypeOK, Holds, Goto, IngestSteps, uploadVars,
           ingestVars
<1>3. CASE AbortUpload(r)
  <2>1. /\ file[r] \in Filenames
        /\ staged' = [staged EXCEPT ![file[r]] = None]
        /\ fd' = CloseAt(Staged, file[r])
        /\ UNCHANGED <<dbVars, disk, index, file, body, sent>>
    BY <1>3 DEF AbortUpload, RemoveStaged, TypeInv, Holds
  <2>. QED
    BY <1>3, <2>1, RemoveTypes DEF AbortUpload
<1>4. CASE DropUpload(r)
  <2>1. /\ Finish(r)
        /\ UNCHANGED <<published, files, logs, disk, staged, index, file, body,
                       sent>>
        /\ fd' = fd \/ fd' = [fd EXCEPT ![r] = None]
    BY <1>4 DEF DropUpload, dbVars, fsVars
  <2>2. TypeOK'
    BY <2>1, FinishTypes DEF TypeInv, TypeOK
  <2>3. \A q \in Requests : fd'[q] \in {fd[q], None}
    BY <2>1 DEF TypeInv, TypeOK
  <2>4. \A q \in Requests : StillOpen(q)
    BY <2>1, <2>3 DEF TypeInv, Holds, StillOpen
  <2>. QED
    BY <2>1, <2>2, <2>4, FinishTypes, LocalStep DEF IngestSteps
<1>. QED
  BY <1>1, <1>2, <1>3, <1>4 DEF Receive

LEMMA RejectTypes ==
    ASSUME TypeInv, NEW r \in Requests, pc[r] # "idle", Reject(r)
    PROVE  TypeInv'
<1>1. file[r] \in Filenames
  BY DEF TypeInv, Holds
<1>. QED
  BY <1>1, RemoveTypes DEF Reject, RemoveStaged

LEMMA FinishOnly ==
    ASSUME TypeInv, NEW r \in Requests, Finish(r), UNCHANGED <<fsVars, uploadVars>>,
           published' \in [Filenames -> Rows \cup {None}],
           files' \in [Filenames -> Archives \cup {None}],
           logs' \in [Filenames -> Archives \cup {None}]
    PROVE  TypeInv'
<1>1. TypeOK' /\ \A q \in Requests : StillOpen(q)
  BY FinishTypes, SameFiles DEF TypeInv, TypeOK, fsVars, uploadVars
<1>. QED
  BY <1>1, FinishTypes, LocalStep DEF uploadVars, IngestSteps

LEMMA GiveUpTypes ==
    ASSUME TypeInv, NEW r \in Requests, pc[r] # "idle", GiveUp(r)
    PROVE  TypeInv'
BY RejectTypes, FinishOnly DEF GiveUp, dbVars, TypeInv, TypeOK

\* A step of request r that touches no file: it goes on to another step, and
\* has what that step needs.
LEMMA GotoTypes ==
    ASSUME TypeInv, NEW r \in Requests, NEW step \in Steps, Goto(r, step),
           UNCHANGED <<file, body, sent>>, TypeOK',
           file[r] \in Filenames,
           step \in {"upload", "log"} \cup IngestSteps => body[r] \in Archives,
           step \in IngestSteps \ {"inspect"} => meta'[r] \in Archives,
           \A q \in Requests : q # r => meta'[q] = meta[q],
           \A q \in Requests : StillOpen(q)
    PROVE  TypeInv'
<1>1. pc'[r] = step /\ \A q \in Requests : q # r => pc'[q] = pc[q]
  BY DEF Goto, TypeInv, TypeOK
<1>. QED
  BY <1>1, LocalStep

\* Removing a file of a channel directory closes what is open on it.
LEMMA UnlinkTypes ==
    ASSUME TypeInv, NEW r \in Requests, NEW step \in Steps, Goto(r, step),
           file[r] \in Filenames,
           disk' = [disk EXCEPT ![old[r]][file[r]] = None],
           fd' = CloseAt(old[r], file[r]),
           UNCHANGED <<dbVars, staged, index, file, body, sent, ingestVars>>,
           step \in {"upload", "log"} \cup IngestSteps => body[r] \in Archives,
           step \in IngestSteps \ {"inspect"} => meta[r] \in Archives
    PROVE  TypeInv'
<1>1. disk' \in [Dirs -> [Filenames -> Contents \cup {None}]]
  BY DEF TypeInv, TypeOK
<1>2. fd' \in [Requests -> Dirs \cup {Staged, None}]
  BY CloseAtFacts DEF TypeInv
<1>3. TypeOK'
  BY <1>1, <1>2 DEF TypeInv, TypeOK, Goto, dbVars, ingestVars
<1>4. \A d \in Dirs, g \in Filenames :
        disk'[d][g] = disk[d][g] \/ (d = old[r] /\ g = file[r])
  BY DEF TypeInv, TypeOK
<1>5. ASSUME NEW q \in Requests
      PROVE  StillOpen(q)
  <2>1. fd'[q] # None =>
          fd'[q] = fd[q] /\ (fd[q] # old[r] \/ file[q] # file[r])
    BY CloseAtFacts DEF TypeInv
  <2>. QED
    BY <1>4, <2>1 DEF StillOpen, TypeInv, Holds
<1>. QED
  BY <1>3, <1>5, GotoTypes DEF ingestVars

\* The descriptor follows the inode, and the file it replaces is closed.
LEMMA RenameTypes ==
    ASSUME TypeInv, NEW r \in Requests, Rename(r), file[r] \in Filenames,
           body[r] \in Archives, meta[r] \in Archives, DirOf[meta[r]] \in Dirs
    PROVE  TypeInv'
<1>. DEFINE f == file[r]
            d == DirOf[meta[r]]
<1>1. /\ staged[f] # None
      /\ disk' = [disk EXCEPT ![d][f] = staged[f]]
      /\ staged' = [staged EXCEPT ![f] = None]
      /\ fd' = MoveTo(d, f)
      /\ Goto(r, "upsert")
      /\ UNCHANGED <<dbVars, index, file, body, sent, ingestVars>>
  BY DEF Rename
<1>2. /\ disk' \in [Dirs -> [Filenames -> Contents \cup {None}]]
      /\ staged' \in [Filenames -> Contents \cup {None}]
      /\ fd' \in [Requests -> Dirs \cup {Staged, None}]
  BY <1>1 DEF TypeInv, TypeOK, MoveTo
<1>3. TypeOK'
  BY <1>1, <1>2
     DEF TypeInv, TypeOK, Goto, Steps, IngestSteps, dbVars, ingestVars
<1>4. /\ disk'[d][f] # None
      /\ \A e \in Dirs, g \in Filenames :
            e # d \/ g # f => disk'[e][g] = disk[e][g]
      /\ \A g \in Filenames : g # f => staged'[g] = staged[g]
  BY <1>1 DEF TypeInv, TypeOK
<1>5. ASSUME NEW q \in Requests
      PROVE  StillOpen(q)
  <2>1. fd'[q] = IF file[q] # f THEN fd[q]
                 ELSE IF fd[q] = Staged THEN d
                 ELSE IF fd[q] = d THEN None ELSE fd[q]
    BY <1>1 DEF MoveTo
  <2>2. fd[q] # None =>
          /\ file[q] \in Filenames
          /\ fd[q] = Staged => staged[file[q]] # None
          /\ fd[q] \in Dirs => disk[fd[q]][file[q]] # None
    BY DEF TypeInv, Holds
  <2>3. d \in Dirs /\ d # Staged /\ d # None /\ Staged \notin Dirs
    BY ContentsFacts
  <2>4. CASE file[q] # f
    BY <1>4, <2>1, <2>2, <2>4 DEF StillOpen
  <2>5. CASE file[q] = f /\ fd[q] = Staged
    BY <1>4, <2>1, <2>3, <2>5, ContentsFacts DEF StillOpen
  <2>6. CASE file[q] = f /\ fd[q] # Staged
    BY <1>4, <2>1, <2>2, <2>3, <2>6 DEF StillOpen
  <2>. QED
    BY <2>4, <2>5, <2>6
<1>. QED
  BY <1>1, <1>3, <1>5, GotoTypes DEF ingestVars, Steps, IngestSteps

LEMMA IngestTypes ==
    ASSUME TypeInv, NEW r \in Requests,
           \/ Inspect(r) \/ RejectUpload(r) \/ ReadPrevious(r)
           \/ ClearPrevious(r) \/ Rename(r) \/ RenameMissing(r)
           \/ Upsert(r) \/ PutFiles(r)
    PROVE  TypeInv'
<1>1. CASE RejectUpload(r) \/ RenameMissing(r)
  BY <1>1, RejectTypes DEF RejectUpload, RenameMissing
<1>2. CASE Inspect(r)
  <2>1. /\ meta' \in [Requests -> Archives \cup {None}]
        /\ meta'[r] \in Archives
        /\ \A q \in Requests : q # r => meta'[q] = meta[q]
    BY <1>2 DEF Inspect, TypeInv, TypeOK
  <2>2. TypeOK'
    BY <1>2, <2>1
       DEF Inspect, TypeInv, TypeOK, Goto, Steps, IngestSteps, dbVars, fsVars,
           uploadVars
  <2>3. \A q \in Requests : StillOpen(q)
    BY <1>2, SameFiles DEF Inspect, uploadVars
  <2>4. file[r] \in Filenames /\ body[r] \in Archives
    BY <1>2 DEF Inspect, TypeInv, Holds, IngestSteps
  <2>. QED
    BY <1>2, <2>1, <2>2, <2>3, <2>4, GotoTypes
       DEF Inspect, uploadVars, Steps, IngestSteps
<1>. SUFFICES ASSUME \/ ReadPrevious(r) \/ ClearPrevious(r) \/ Rename(r)
                     \/ Upsert(r) \/ PutFiles(r)
              PROVE  TypeInv'
  BY <1>1, <1>2
<1>3. /\ file[r] \in Filenames /\ body[r] \in Archives /\ meta[r] \in Archives
      /\ DirOf[meta[r]] \in Dirs
      /\ pc[r] \in IngestSteps
  BY ContentsFacts
     DEF ReadPrevious, ClearPrevious, Rename, Upsert, PutFiles, TypeInv, Holds,
         IngestSteps
<1>4. CASE ReadPrevious(r)
  <2>1. /\ old' \in [Requests -> Dirs \cup {None}]
        /\ \E step \in {"clear", "rename"} : Goto(r, step)
        /\ UNCHANGED <<dbVars, fsVars, uploadVars, meta, todo, listing>>
    <3>1. published[file[r]] # None => DirOf[published[file[r]].meta] \in Dirs
      BY <1>3, ContentsFacts DEF TypeInv, TypeOK, Rows
    <3>. QED
      BY <1>4, <3>1 DEF ReadPrevious, TypeInv, TypeOK
  <2>2. TypeOK'
    BY <2>1
       DEF TypeInv, TypeOK, Goto, Steps, IngestSteps, dbVars, fsVars,
           uploadVars
  <2>3. \A q \in Requests : StillOpen(q)
    BY <2>1, SameFiles DEF uploadVars
  <2>. QED
    BY <1>3, <2>1, <2>2, <2>3, GotoTypes
       DEF uploadVars, Steps, IngestSteps
<1>5. CASE ClearPrevious(r)
  <2>1. /\ disk' = [disk EXCEPT ![old[r]][file[r]] = None]
        /\ fd' = CloseAt(old[r], file[r])
        /\ Goto(r, "rename")
        /\ UNCHANGED <<dbVars, staged, index, file, body, sent, ingestVars>>
    BY <1>5 DEF ClearPrevious
  <2>. QED
    BY <1>3, <2>1, UnlinkTypes DEF IngestSteps, Steps
<1>6. CASE Rename(r)
  BY <1>3, <1>6, RenameTypes
<1>7. CASE Upsert(r)
  <2>1. /\ published' \in [Filenames -> Rows \cup {None}]
        /\ Goto(r, "files")
        /\ UNCHANGED <<files, logs, fsVars, uploadVars, ingestVars>>
    <3>1. [sha |-> body[r], meta |-> meta[r]] \in Rows
      BY <1>3 DEF Rows
    <3>. QED
      BY <1>7, <3>1 DEF Upsert, TypeInv, TypeOK
  <2>2. TypeOK'
    BY <2>1
       DEF TypeInv, TypeOK, Goto, Steps, IngestSteps, fsVars, uploadVars,
           ingestVars
  <2>3. \A q \in Requests : StillOpen(q)
    BY <2>1, SameFiles DEF uploadVars
  <2>. QED
    BY <1>3, <2>1, <2>2, <2>3, GotoTypes
       DEF uploadVars, ingestVars, Steps, IngestSteps
<1>8. CASE PutFiles(r)
  <2>1. /\ files' \in [Filenames -> Archives \cup {None}]
        /\ Goto(r, "plan")
        /\ UNCHANGED <<published, logs, fsVars, uploadVars, ingestVars>>
    BY <1>3, <1>8 DEF PutFiles, TypeInv, TypeOK
  <2>2. TypeOK'
    BY <2>1
       DEF TypeInv, TypeOK, Goto, Steps, IndexSteps, fsVars, uploadVars,
           ingestVars
  <2>3. \A q \in Requests : StillOpen(q)
    BY <2>1, SameFiles DEF uploadVars
  <2>. QED
    BY <1>3, <2>1, <2>2, <2>3, GotoTypes
       DEF uploadVars, ingestVars, Steps, IngestSteps, IndexSteps
<1>. QED
  BY <1>4, <1>5, <1>6, <1>7, <1>8

\* The rebuild changes no file of a channel but its index.
LEMMA IndexTypes ==
    ASSUME TypeInv, NEW r \in Requests,
           \/ PlanIndex(r) \/ ScanDir(r) \/ ScanUnreadable(r)
           \/ WriteIndex(r) \/ Reply(r)
    PROVE  TypeInv'
<1>1. CASE ScanUnreadable(r)
  BY <1>1, GiveUpTypes DEF ScanUnreadable
<1>2. CASE Reply(r)
  BY <1>2, FinishOnly DEF Reply, dbVars, TypeInv, TypeOK
<1>. SUFFICES ASSUME PlanIndex(r) \/ ScanDir(r) \/ WriteIndex(r)
              PROVE  TypeInv'
  BY <1>1, <1>2
<1>3. file[r] \in Filenames
  BY DEF PlanIndex, ScanDir, WriteIndex, TypeInv, Holds
<1>4. /\ UNCHANGED <<dbVars, disk, staged, uploadVars, meta, old>>
      /\ \E step \in {"scan", "write", "reply"} : Goto(r, step)
  BY DEF PlanIndex, ScanDir, WriteIndex, fsVars
<1>5. TypeOK'
  <2>1. pc' \in [Requests -> Steps]
    BY <1>4 DEF Goto, TypeInv, TypeOK, Steps, IndexSteps
  <2>2. /\ todo' \in [Requests -> SUBSET Dirs]
        /\ index' \in [Dirs -> Listings \cup {None}]
        /\ listing' \in [Requests -> Listings \cup {None}]
    <3>1. CASE PlanIndex(r)
      <4>1. {SystemDir} \cup RowDirs \cup IndexedDirs \subseteq Dirs
        BY ConstantsAssumption DEF RowDirs, IndexedDirs, TypeInv, TypeOK, Rows
      <4>. QED
        BY <3>1, <4>1 DEF PlanIndex, TypeInv, TypeOK, fsVars
    <3>2. CASE ScanDir(r)
      <4>. DEFINE d == First(todo[r])
      <4>1. ASSUME NEW f \in Filenames
            PROVE  Scan(d)[f] \in Archives \cup {None}
        <5>1. disk[d][f] # None => \E a \in Archives : disk[d][f] = Whole(a)
          BY <3>2 DEF ScanDir, Readable
        <5>. QED
          BY <5>1 DEF Scan
      <4>2. Scan(d) \in Listings
        BY <4>1 DEF Scan, Listings
      <4>. QED
        BY <3>2, <4>2 DEF ScanDir, TypeInv, TypeOK, fsVars
    <3>3. CASE WriteIndex(r)
      BY <3>3 DEF WriteIndex, TypeInv, TypeOK
    <3>. QED
      BY <3>1, <3>2, <3>3
  <2>. QED
    BY <1>4, <2>1, <2>2 DEF TypeInv, TypeOK, dbVars, uploadVars
<1>6. \A q \in Requests : StillOpen(q)
  BY <1>4 DEF StillOpen, TypeInv, Holds, uploadVars
<1>. QED
  BY <1>3, <1>4, <1>5, <1>6, GotoTypes
     DEF uploadVars, Steps, IngestSteps, IndexSteps

LEMMA WithdrawTypes ==
    ASSUME TypeInv, NEW r \in Requests,
           DeleteRow(r) \/ DeleteNothing(r) \/ Unlink(r) \/ PutLog(r)
    PROVE  TypeInv'
<1>1. file[r] \in Filenames
  BY DEF DeleteRow, DeleteNothing, Unlink, PutLog, TypeInv, Holds
<1>2. CASE DeleteRow(r)
  <2>1. /\ old' \in [Requests -> Dirs \cup {None}]
        /\ published' \in [Filenames -> Rows \cup {None}]
        /\ files' \in [Filenames -> Archives \cup {None}]
        /\ logs' \in [Filenames -> Archives \cup {None}]
        /\ Goto(r, "unlink")
        /\ UNCHANGED <<fsVars, uploadVars, meta, todo, listing>>
    <3>1. DirOf[published[file[r]].meta] \in Dirs
      BY <1>1, <1>2, ContentsFacts DEF DeleteRow, TypeInv, TypeOK, Rows
    <3>. QED
      BY <1>1, <1>2, <3>1 DEF DeleteRow, TypeInv, TypeOK
  <2>2. TypeOK'
    BY <2>1
       DEF TypeInv, TypeOK, Goto, Steps, WithdrawSteps, fsVars, uploadVars
  <2>3. \A q \in Requests : StillOpen(q)
    BY <2>1, SameFiles DEF uploadVars
  <2>. QED
    BY <1>1, <2>1, <2>2, <2>3, GotoTypes
       DEF uploadVars, Steps, IngestSteps, WithdrawSteps
<1>3. CASE DeleteNothing(r)
  BY <1>3, FinishOnly DEF DeleteNothing, dbVars, TypeInv, TypeOK
<1>4. CASE Unlink(r)
  <2>1. /\ disk' = [disk EXCEPT ![old[r]][file[r]] = None]
        /\ fd' = CloseAt(old[r], file[r])
        /\ Goto(r, "plan")
        /\ UNCHANGED <<dbVars, staged, index, file, body, sent, ingestVars>>
    BY <1>4 DEF Unlink
  <2>. QED
    BY <1>1, <2>1, UnlinkTypes DEF IngestSteps, IndexSteps, Steps
<1>5. CASE PutLog(r)
  <2>1. logs' \in [Filenames -> Archives \cup {None}]
    BY <1>1, <1>5 DEF PutLog, TypeInv, TypeOK
  <2>. QED
    BY <1>5, <2>1, FinishOnly DEF PutLog, TypeInv, TypeOK
<1>. QED
  BY <1>2, <1>3, <1>4, <1>5

LEMMA CrashTypes == TypeInv /\ Crash => TypeInv'
BY ContentsFacts
   DEF Crash, TypeInv, TypeOK, Holds, Steps, IngestSteps, dbVars, fsVars

LEMMA TypeNext == TypeInv /\ [Next]_vars => TypeInv'
<1>. SUFFICES ASSUME TypeInv, [Next]_vars PROVE TypeInv'
  OBVIOUS
<1>1. ASSUME NEW r \in Requests, Begin(r) PROVE TypeInv'
  BY <1>1, StartTypes
<1>2. ASSUME NEW r \in Requests, Receive(r) PROVE TypeInv'
  BY <1>2, ReceiveTypes
<1>3. ASSUME NEW r \in Requests, Work(r) PROVE TypeInv'
  BY <1>3, IngestTypes, IndexTypes, WithdrawTypes DEF Work
<1>4. ASSUME NEW r \in Requests, Fail(r) PROVE TypeInv'
  BY <1>4, GiveUpTypes DEF Fail, IngestSteps, IndexSteps, WithdrawSteps
<1>5. CASE Crash
  BY <1>5, CrashTypes
<1>6. CASE UNCHANGED vars
  BY <1>6 DEF vars, TypeInv, TypeOK, Holds
<1>. QED
  BY <1>1, <1>2, <1>3, <1>4, <1>5, <1>6 DEF Next

\* In every state the tables, the directories and the locals of the requests
\* are what the code's types say, for any number of requests and whatever
\* fails; in particular every write goes to a file that is there.
THEOREM TypeCorrect == Spec => []TypeInv
BY TypeInit, TypeNext, PTL DEF Spec

THEOREM TypeSafe == Spec => []TypeOK
<1>1. TypeInv => TypeOK
  BY DEF TypeInv
<1>. QED
  BY TypeCorrect, <1>1, PTL

-----------------------------------------------------------------------------
(* Every file list and every log has a row, when no two running requests    *)
(* name the same file.                                                      *)

\* What makes it inductive: running requests name different files, and one
\* about to store a list or a log has seen or written the row.
Owned ==
    \A q, r \in Requests : Busy(q) /\ Busy(r) /\ file[q] = file[r] => q = r

RowThere ==
    \A r \in Requests : pc[r] \in {"files", "log"} => published[file[r]] # None

MetadataInv == TypeInv /\ Owned /\ RowThere /\ MetadataHasRow

LEMMA MetadataInit == Init => MetadataInv
BY TypeInit DEF Init, MetadataInv, Owned, RowThere, MetadataHasRow, Busy

\* A request that starts takes a file no running request names.
LEMMA StartMetadata ==
    ASSUME ~SharedNames, MetadataInv, NEW r \in Requests, Begin(r)
    PROVE  Owned' /\ RowThere' /\ MetadataHasRow'
<1>1. PICK f \in Filenames :
        /\ MayUse(r, f)
        /\ file' = [file EXCEPT ![r] = f]
        /\ \A q \in Requests : q # r => pc'[q] = pc[q] /\ fd'[q] = fd[q]
        /\ UNCHANGED dbVars
        /\ pc'[r] \in {"files", "log"} => published[f] # None
  BY DEF Begin, StartPublish, StartLog, StartUnpublish, Goto, MetadataInv,
         TypeInv, TypeOK
<1>2. \A q \in Requests : q # r /\ Busy(q) => file[q] # f
  BY <1>1 DEF MayUse
<1>3. /\ file'[r] = f
      /\ \A q \in Requests :
            q # r => file'[q] = file[q] /\ (Busy(q)' <=> Busy(q))
  BY <1>1 DEF MetadataInv, TypeInv, TypeOK, Busy
<1>4. Owned'
  BY <1>2, <1>3 DEF MetadataInv, Owned
<1>5. RowThere'
  BY <1>1, <1>3 DEF MetadataInv, RowThere, dbVars
<1>6. MetadataHasRow'
  BY <1>1 DEF MetadataInv, MetadataHasRow, dbVars
<1>. QED
  BY <1>4, <1>5, <1>6

\* A step that neither starts a request nor opens a file leaves the files
\* owned as they were.
LEMMA OwnedKept ==
    ASSUME Owned, UNCHANGED file, \A q \in Requests : Busy(q)' => Busy(q)
    PROVE  Owned'
BY DEF Owned

\* No step of a running request makes another one busy.
LEMMA StepOwned ==
    ASSUME MetadataInv, NEW r \in Requests, Receive(r) \/ Work(r) \/ Fail(r)
    PROVE  /\ Owned' /\ UNCHANGED file
           /\ \A q \in Requests : q # r => pc'[q] = pc[q]
<1>. USE DEF MetadataInv, TypeInv, TypeOK
<1>1. /\ UNCHANGED file
      /\ Busy(r)
      /\ \A q \in Requests : q # r => pc'[q] = pc[q]
  BY DEF Receive, Work, Fail, WriteChunk, EndOfBody, AbortUpload, DropUpload,
         Inspect, RejectUpload, ReadPrevious, ClearPrevious, Rename,
         RenameMissing, Upsert, PutFiles, PlanIndex, ScanDir, ScanUnreadable,
         WriteIndex, Reply, DeleteRow, DeleteNothing, Unlink, PutLog, Reject,
         GiveUp, Finish, Goto, uploadVars, Busy, IngestSteps, IndexSteps,
         WithdrawSteps
<1>2. \A q \in Requests : fd'[q] # None => fd[q] # None
  BY ContentsFacts
     DEF Receive, Work, Fail, WriteChunk, EndOfBody, AbortUpload, DropUpload,
         Inspect, RejectUpload, ReadPrevious, ClearPrevious, Rename,
         RenameMissing, Upsert, PutFiles, PlanIndex, ScanDir, ScanUnreadable,
         WriteIndex, Reply, DeleteRow, DeleteNothing, Unlink, PutLog, Reject,
         GiveUp, RemoveStaged, CloseAt, MoveTo, uploadVars
<1>3. \A q \in Requests : Busy(q)' => Busy(q)
  BY <1>1, <1>2 DEF Busy
<1>. QED
  BY <1>1, <1>3, OwnedKept

\* Steps that leave the tables alone and do not go on to store a list.
LEMMA QuietStep ==
    ASSUME MetadataInv, NEW r \in Requests, UNCHANGED <<dbVars, file>>,
           \A q \in Requests : q # r => pc'[q] = pc[q],
           pc'[r] \notin {"files", "log"}
    PROVE  RowThere' /\ MetadataHasRow'
BY DEF MetadataInv, RowThere, MetadataHasRow, dbVars

LEMMA StepMetadata ==
    ASSUME MetadataInv, NEW r \in Requests, Receive(r) \/ Work(r) \/ Fail(r)
    PROVE  RowThere' /\ MetadataHasRow'
<1>. DEFINE f == file[r]
<1>. USE DEF MetadataInv, TypeInv, TypeOK
<1>1. /\ UNCHANGED file
      /\ \A q \in Requests : q # r => pc'[q] = pc[q]
  BY StepOwned
\* Another running request does not name r's file.
<1>2. ASSUME Busy(r)
      PROVE  \A q \in Requests : q # r /\ pc[q] # "idle" => file[q] # f
  BY <1>2 DEF Owned, Busy
<1>3. CASE Upsert(r)
  <2>1. /\ f \in Filenames
        /\ [sha |-> body[r], meta |-> meta[r]] \in Rows
    BY <1>3 DEF Upsert, Holds, Rows, IngestSteps
  <2>2. /\ published' = [published EXCEPT ![f] =
                            [sha |-> body[r], meta |-> meta[r]]]
        /\ UNCHANGED <<files, logs>>
    BY <1>3 DEF Upsert
  <2>3. \A g \in Filenames : published'[g] = None => published[g] = None
    BY <2>1, <2>2, ContentsFacts
  <2>4. published'[f] # None
    BY <2>1, <2>2, ContentsFacts
  <2>5. RowThere'
    <3>1. \A q \in Requests :
            pc[q] \in {"files", "log"} => file[q] \in Filenames
      BY DEF Holds
    <3>. QED
      BY <1>1, <2>3, <2>4, <3>1 DEF RowThere
  <2>. QED
    BY <2>2, <2>3, <2>5 DEF MetadataHasRow
<1>4. CASE PutFiles(r) \/ PutLog(r)
  <2>1. /\ published[f] # None /\ f \in Filenames
        /\ pc'[r] \notin {"files", "log"}
        /\ published' = published
        /\ \A g \in Filenames :
            g # f => files'[g] = files[g] /\ logs'[g] = logs[g]
    BY <1>4 DEF PutFiles, PutLog, Goto, Finish, RowThere, Holds
  <2>. QED
    BY <1>1, <2>1 DEF RowThere, MetadataHasRow
<1>5. CASE DeleteRow(r)
  <2>1. /\ f \in Filenames /\ Busy(r)
        /\ pc'[r] \notin {"files", "log"}
        /\ published' = [published EXCEPT ![f] = None]
        /\ files' = [files EXCEPT ![f] = None]
        /\ logs' = [logs EXCEPT ![f] = None]
    BY <1>5 DEF DeleteRow, Goto, Busy, Holds
  <2>2. MetadataHasRow'
    BY <2>1 DEF MetadataHasRow
  <2>3. ASSUME NEW q \in Requests, pc'[q] \in {"files", "log"}
        PROVE  published'[file'[q]] # None
    <3>1. q # r /\ pc[q] \in {"files", "log"} /\ file'[q] = file[q]
      BY <1>1, <2>1, <2>3
    <3>2. file[q] # f
      BY <1>2, <2>1, <3>1
    <3>3. published[file[q]] # None
      BY <3>1 DEF RowThere
    <3>. QED
      BY <2>1, <3>1, <3>2, <3>3
  <2>. QED
    BY <2>2, <2>3 DEF RowThere
<1>6. CASE WriteChunk(r)
  BY <1>6 DEF WriteChunk, RowThere, MetadataHasRow, dbVars
<1>7. CASE \/ EndOfBody(r) \/ AbortUpload(r) \/ DropUpload(r) \/ Inspect(r)
           \/ RejectUpload(r) \/ ReadPrevious(r) \/ ClearPrevious(r)
           \/ Rename(r) \/ RenameMissing(r) \/ PlanIndex(r) \/ ScanDir(r)
           \/ ScanUnreadable(r) \/ WriteIndex(r) \/ Reply(r)
           \/ DeleteNothing(r) \/ Unlink(r) \/ Fail(r)
  <2>1. UNCHANGED dbVars /\ pc'[r] \notin {"files", "log"}
    BY <1>7
       DEF EndOfBody, AbortUpload, DropUpload, Inspect, RejectUpload,
           ReadPrevious, ClearPrevious, Rename, RenameMissing, PlanIndex,
           ScanDir, ScanUnreadable, WriteIndex, Reply, DeleteNothing, Unlink,
           Fail, Reject, GiveUp, Finish, Goto, dbVars
  <2>. QED
    BY <1>1, <2>1, QuietStep
<1>. QED
  BY <1>3, <1>4, <1>5, <1>6, <1>7 DEF Receive, Work

LEMMA CrashMetadata == MetadataInv /\ Crash => Owned' /\ RowThere' /\ MetadataHasRow'
BY DEF MetadataInv, Crash, Owned, RowThere, MetadataHasRow, Busy, dbVars

LEMMA MetadataNext ==
    ASSUME ~SharedNames, MetadataInv, [Next]_vars
    PROVE  MetadataInv'
<1>1. TypeInv'
  BY TypeNext DEF MetadataInv
<1>2. ASSUME NEW r \in Requests, Begin(r) PROVE MetadataInv'
  BY <1>1, <1>2, StartMetadata DEF MetadataInv
<1>3. ASSUME NEW r \in Requests, Receive(r) \/ Work(r) \/ Fail(r)
      PROVE  MetadataInv'
  BY <1>1, <1>3, StepOwned, StepMetadata DEF MetadataInv
<1>4. CASE Crash
  BY <1>1, <1>4, CrashMetadata DEF MetadataInv
<1>5. CASE UNCHANGED vars
  BY <1>1, <1>5
     DEF MetadataInv, Owned, RowThere, MetadataHasRow, Busy, vars
<1>. QED
  BY <1>2, <1>3, <1>4, <1>5 DEF Next

\* As long as no two running requests name the same file, no failure, crash or
\* interleaving leaves a file list or a build log without its row.
THEOREM MetadataSafe ==
    ASSUME ~SharedNames
    PROVE  Spec => []MetadataHasRow
<1>1. Init => MetadataInv
  BY MetadataInit
<1>2. MetadataInv /\ [Next]_vars => MetadataInv'
  BY MetadataNext
<1>3. MetadataInv => MetadataHasRow
  BY DEF MetadataInv
<1>. QED
  BY <1>1, <1>2, <1>3, PTL DEF Spec
=============================================================================
