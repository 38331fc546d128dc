----------------------------- MODULE Repository -----------------------------
(***************************************************************************)
(* The artifact side of the hub: authenticated uploads are staged,         *)
(* ingested into a channel directory, recorded in LMDB and indexed; they   *)
(* can be withdrawn, and build logs can be attached to them.               *)
(*                                                                         *)
(* Each database call of db.rs is a transaction of its own and each file   *)
(* system call is a step of its own, because the handlers of web.rs run    *)
(* concurrently and nothing in the code orders them against one another.   *)
(* The archives' bytes are kept as NChunks pieces, so that a file two      *)
(* uploads write at once, or one that is read before its last write, can   *)
(* be told from a whole archive.                                           *)
(***************************************************************************)
EXTENDS Naturals, FiniteSets

CONSTANTS
    Requests,     \* handlers that may be running at once
    Filenames,    \* package file names
    Archives,     \* the distinct archives a client may upload
    Dirs,         \* channel directories, numbered in path order
    SystemDir,    \* the directory of the "system" channel
    DirOf,        \* DirOf[a]: the directory of the channel archive a names
    NChunks,      \* pieces an archive is received in
    SharedNames,  \* may two running requests name the same file?
    Faults,       \* may I/O and database calls fail and the process stop?
    None

Staged == 0       \* the place of a file that is still `.incoming-...`

ASSUME ConstantsAssumption ==
    /\ Dirs \subseteq Nat \ {Staged} /\ IsFiniteSet(Dirs)
    /\ SystemDir \in Dirs
    /\ DirOf \in [Archives -> Dirs]
    /\ NChunks \in Nat \ {0}
    /\ SharedNames \in BOOLEAN /\ Faults \in BOOLEAN
    /\ None \notin Archives \cup Dirs \cup {Staged}
    /\ None \notin [1 .. NChunks -> Archives \cup {None}]
    /\ None \notin [Filenames -> Archives \cup {None}]
    /\ None \notin [sha : Archives, meta : Archives]

VARIABLES
    published,  \* LMDB: filename -> PublishedRow (hash, inspected manifest)
    files,      \* LMDB: filename -> file list, named by the archive it lists
    logs,       \* LMDB: filename -> build log, named by the archive it is of
    disk,       \* channel directory -> filename -> contents
    staged,     \* filename -> contents of `.incoming-<pid>-<filename>`
    index,      \* channel directory -> what its index.mdb lists
    pc, file, body, sent, fd,    \* per request: the upload
    meta, old, todo, listing     \* per request: the locals of ingest

dbVars == <<published, files, logs>>
fsVars == <<disk, staged, index>>
uploadVars == <<file, body, sent, fd>>
ingestVars == <<meta, old, todo, listing>>
vars == <<published, files, logs, disk, staged, index,
          pc, file, body, sent, fd, meta, old, todo, listing>>

Contents == [1 .. NChunks -> Archives \cup {None}]
Listings == [Filenames -> Archives \cup {None}]
Rows     == [sha : Archives, meta : Archives]

\* A file just created or truncated, and the file that holds all of archive a.
Blank    == [i \in 1 .. NChunks |-> None]
Whole(a) == [i \in 1 .. NChunks |-> a]

\* The places of ingest and unpublish that call the database or the disk.
IngestSteps   == {"inspect", "previous", "clear", "rename", "upsert", "files"}
IndexSteps    == {"plan", "scan", "write"}
WithdrawSteps == {"delete", "unlink"}
Steps == {"idle", "upload", "reply", "log"}
             \cup IngestSteps \cup IndexSteps \cup WithdrawSteps

TypeOK ==
    /\ published \in [Filenames -> Rows \cup {None}]
    /\ files \in [Filenames -> Archives \cup {None}]
    /\ logs \in [Filenames -> Archives \cup {None}]
    /\ disk \in [Dirs -> [Filenames -> Contents \cup {None}]]
    /\ staged \in [Filenames -> Contents \cup {None}]
    /\ index \in [Dirs -> Listings \cup {None}]
    /\ pc \in [Requests -> Steps]
    /\ file \in [Requests -> Filenames \cup {None}]
    /\ body \in [Requests -> Archives \cup {None}]
    /\ sent \in [Requests -> 0 .. NChunks]
    /\ fd \in [Requests -> Dirs \cup {Staged, None}]
    /\ meta \in [Requests -> Archives \cup {None}]
    /\ old \in [Requests -> Dirs \cup {None}]
    /\ todo \in [Requests -> SUBSET Dirs]
    /\ listing \in [Requests -> Listings \cup {None}]

Init ==
    /\ published = [f \in Filenames |-> None]
    /\ files = [f \in Filenames |-> None]
    /\ logs = [f \in Filenames |-> None]
    /\ disk = [d \in Dirs |-> [f \in Filenames |-> None]]
    /\ staged = [f \in Filenames |-> None]
    /\ index = [d \in Dirs |-> None]
    /\ pc = [r \in Requests |-> "idle"]
    /\ file = [r \in Requests |-> None]
    /\ body = [r \in Requests |-> None]
    /\ sent = [r \in Requests |-> 0]
    /\ fd = [r \in Requests |-> None]
    /\ meta = [r \in Requests |-> None]
    /\ old = [r \in Requests |-> None]
    /\ todo = [r \in Requests |-> {}]
    /\ listing = [r \in Requests |-> None]

-----------------------------------------------------------------------------
(* Files and descriptors *)

Busy(r) == pc[r] # "idle" \/ fd[r] # None

\* The scenario bound SharedNames: FALSE leaves a file to one request at a
\* time, as when every builder publishes its own packages.
MayUse(r, f) ==
    /\ ~Busy(r)
    /\ SharedNames \/ \A q \in Requests : Busy(q) => file[q] # f

\* An unlinked or overwritten file lives on only in the descriptors open on
\* it: what is still written through them is lost.
CloseAt(place, f) ==
    [q \in Requests |-> IF fd[q] = place /\ file[q] = f THEN None ELSE fd[q]]

\* rename(2) moves the inode: the writer's descriptor follows it from the
\* staging name to the channel directory, replacing the file that was there.
MoveTo(d, f) ==
    [q \in Requests |->
        IF file[q] # f THEN fd[q]
        ELSE IF fd[q] = Staged THEN d
        ELSE IF fd[q] = d THEN None ELSE fd[q]]

\* The request is over; its locals are dropped.
Finish(r) ==
    /\ pc' = [pc EXCEPT ![r] = "idle"]
    /\ meta' = [meta EXCEPT ![r] = None]
    /\ old' = [old EXCEPT ![r] = None]
    /\ todo' = [todo EXCEPT ![r] = {}]
    /\ listing' = [listing EXCEPT ![r] = None]

Goto(r, step) == pc' = [pc EXCEPT ![r] = step]

RemoveStaged(f) ==
    /\ staged' = [staged EXCEPT ![f] = None]
    /\ fd' = CloseAt(Staged, f)

-----------------------------------------------------------------------------
(* POST of an archive: web::publish *)

\* File::create truncates whatever already has the staging name.
StartPublish(r, f, a) ==
    /\ MayUse(r, f)
    /\ Goto(r, "upload")
    /\ staged' = [staged EXCEPT ![f] = Blank]
    /\ file' = [file EXCEPT ![r] = f]
    /\ body' = [body EXCEPT ![r] = a]
    /\ sent' = [sent EXCEPT ![r] = 0]
    /\ fd' = [fd EXCEPT ![r] = Staged]
    /\ UNCHANGED <<dbVars, disk, index, ingestVars>>

\* Mutant of WriteChunk: the descriptor is never closed.
WriteChunkForever(r) ==
    /\ fd[r] = Staged
    /\ sent' = [sent EXCEPT ![r] = @ + 1]
    /\ staged' = [staged EXCEPT ![file[r]] = Whole(body[r])]
    /\ UNCHANGED <<dbVars, disk, index, pc, file, body, fd, ingestVars>>

\* The write of the next piece reaches the file. tokio performs it on another
\* thread, so the last one may still be pending when the handler has dropped
\* the file without a flush.
WriteChunk(r) ==
    /\ fd[r] # None
    /\ LET n == sent[r] + 1
           f == file[r]
       IN /\ sent' = [sent EXCEPT ![r] = n]
          /\ fd' = [fd EXCEPT ![r] = IF n = NChunks THEN None ELSE fd[r]]
          /\ IF fd[r] = Staged
             THEN /\ staged' = [staged EXCEPT ![f][n] = body[r]]
                  /\ UNCHANGED disk
             ELSE /\ disk' = [disk EXCEPT ![fd[r]][f][n] = body[r]]
                  /\ UNCHANGED staged
    /\ UNCHANGED <<dbVars, index, pc, file, body, ingestVars>>

\* The whole body has been received and hashed; ingest runs on the blocking
\* pool.
EndOfBody(r) ==
    /\ pc[r] = "upload"
    /\ fd[r] = None \/ sent[r] >= NChunks - 1
    /\ Goto(r, "inspect")
    /\ UNCHANGED <<dbVars, fsVars, uploadVars, ingestVars>>

\* The body ends in an error: the handler removes the staged file.
AbortUpload(r) ==
    /\ pc[r] = "upload"
    /\ Finish(r)
    /\ RemoveStaged(file[r])
    /\ UNCHANGED <<dbVars, disk, index, file, body, sent>>

\* The client is gone and the handler itself is dropped: the staged file
\* stays, and the last write may still be pending.
DropUpload(r) ==
    /\ pc[r] = "upload"
    /\ Finish(r)
    /\ \/ fd' = [fd EXCEPT ![r] = None]
       \/ fd[r] # None /\ sent[r] = NChunks - 1 /\ UNCHANGED fd
    /\ UNCHANGED <<dbVars, fsVars, file, body, sent>>

\* ingest returned an error. The handler removes the staging name, unless it
\* was dropped meanwhile: the blocking task outlives it.
Reject(r) ==
    /\ Finish(r)
    /\ RemoveStaged(file[r]) \/ UNCHANGED <<staged, fd>>
    /\ UNCHANGED <<dbVars, disk, index, file, body, sent>>

\* An error after the upload: only publish has a staging name to remove.
GiveUp(r) ==
    IF body[r] # None /\ pc[r] # "log"
    THEN Reject(r)
    ELSE Finish(r) /\ UNCHANGED <<dbVars, fsVars, uploadVars>>

-----------------------------------------------------------------------------
(* repo::ingest, on the blocking pool *)

\* Mutant of Inspect: the upload is trusted to be what its client says.
InspectNothing(r) ==
    /\ pc[r] = "inspect"
    /\ meta' = [meta EXCEPT ![r] = body[r]]
    /\ Goto(r, "previous")
    /\ UNCHANGED <<dbVars, fsVars, uploadVars, old, todo, listing>>

\* inspect_package reads the staged file, which need not be what was hashed.
Inspect(r) ==
    /\ pc[r] = "inspect"
    /\ \E a \in Archives :
        /\ staged[file[r]] = Whole(a)
        /\ meta' = [meta EXCEPT ![r] = a]
    /\ Goto(r, "previous")
    /\ UNCHANGED <<dbVars, fsVars, uploadVars, old, todo, listing>>

\* An unreadable archive, or a declared hash that is not the one computed.
RejectUpload(r) ==
    /\ pc[r] = "inspect"
    /\ Reject(r)

\* Mutant of ReadPrevious: a channel change is not noticed.
ReadPreviousNever(r) ==
    /\ pc[r] = "previous"
    /\ Goto(r, "rename")
    /\ UNCHANGED <<dbVars, fsVars, uploadVars, ingestVars>>

\* The previous row of this file name matters only in another directory.
ReadPrevious(r) ==
    /\ pc[r] = "previous"
    /\ LET row == published[file[r]] IN
        IF row # None /\ DirOf[row.meta] # DirOf[meta[r]]
        THEN /\ old' = [old EXCEPT ![r] = DirOf[row.meta]]
             /\ Goto(r, "clear")
        ELSE /\ Goto(r, "rename")
             /\ UNCHANGED old
    /\ UNCHANGED <<dbVars, fsVars, uploadVars, meta, todo, listing>>

ClearPrevious(r) ==
    /\ pc[r] = "clear"
    /\ disk' = [disk EXCEPT ![old[r]][file[r]] = None]
    /\ fd' = CloseAt(old[r], file[r])
    /\ Goto(r, "rename")
    /\ UNCHANGED <<dbVars, staged, index, file, body, sent, ingestVars>>

Rename(r) ==
    /\ pc[r] = "rename"
    /\ LET f == file[r]
           d == DirOf[meta[r]]
       IN /\ staged[f] # None
          /\ disk' = [disk EXCEPT ![d][f] = staged[f]]
          /\ staged' = [staged EXCEPT ![f] = None]
          /\ fd' = MoveTo(d, f)
    /\ Goto(r, "upsert")
    /\ UNCHANGED <<dbVars, index, file, body, sent, ingestVars>>

\* Another request has taken or removed the staged file: rename fails.
RenameMissing(r) ==
    /\ pc[r] = "rename"
    /\ staged[file[r]] = None
    /\ Reject(r)

\* Mutant of Upsert: a row that is there keeps its hash.
UpsertKeepsHash(r) ==
    /\ pc[r] = "upsert"
    /\ LET row == published[file[r]] IN
        published' = [published EXCEPT ![file[r]] =
            [sha |-> IF row = None THEN body[r] ELSE row.sha, meta |-> meta[r]]]
    /\ Goto(r, "files")
    /\ UNCHANGED <<files, logs, fsVars, uploadVars, ingestVars>>

\* The hash is the one of the body, the manifest the one inspected.
Upsert(r) ==
    /\ pc[r] = "upsert"
    /\ published' = [published EXCEPT ![file[r]] =
                        [sha |-> body[r], meta |-> meta[r]]]
    /\ Goto(r, "files")
    /\ UNCHANGED <<files, logs, fsVars, uploadVars, ingestVars>>

\* Mutant of PutFiles: an insert where the code replaces.
PutFilesOnce(r) ==
    /\ pc[r] = "files"
    /\ files' = [files EXCEPT ![file[r]] = IF @ = None THEN meta[r] ELSE @]
    /\ Goto(r, "plan")
    /\ UNCHANGED <<published, logs, fsVars, uploadVars, ingestVars>>

PutFiles(r) ==
    /\ pc[r] = "files"
    /\ files' = [files EXCEPT ![file[r]] = meta[r]]
    /\ Goto(r, "plan")
    /\ UNCHANGED <<published, logs, fsVars, uploadVars, ingestVars>>

-----------------------------------------------------------------------------
(* repo::regenerate_index *)

RowDirs == {DirOf[published[f].meta] :
                f \in {g \in Filenames : published[g] # None}}
IndexedDirs == {d \in Dirs : index[d] # None}

\* Mutants of PlanIndex: the rows' directories, or the ones that have an index
\* but no row any more, are forgotten.
PlanIndexedOnly(r) ==
    /\ pc[r] = "plan"
    /\ todo' = [todo EXCEPT ![r] = {SystemDir} \cup IndexedDirs]
    /\ Goto(r, "scan")
    /\ UNCHANGED <<dbVars, fsVars, uploadVars, meta, old, listing>>

PlanRowsOnly(r) ==
    /\ pc[r] = "plan"
    /\ todo' = [todo EXCEPT ![r] = {SystemDir} \cup RowDirs]
    /\ Goto(r, "scan")
    /\ UNCHANGED <<dbVars, fsVars, uploadVars, meta, old, listing>>

\* system, the directories of all rows and those that already have an index.
PlanIndex(r) ==
    /\ pc[r] = "plan"
    /\ todo' = [todo EXCEPT ![r] = {SystemDir} \cup RowDirs \cup IndexedDirs]
    /\ Goto(r, "scan")
    /\ UNCHANGED <<dbVars, fsVars, uploadVars, meta, old, listing>>

\* BTreeSet: the directories are visited in path order.
First(dirs) == CHOOSE d \in dirs : \A e \in dirs : d <= e

Readable(d) ==
    \A f \in Filenames :
        disk[d][f] # None => \E a \in Archives : disk[d][f] = Whole(a)

\* What the indexer finds in directory d.
Scan(d) ==
    [f \in Filenames |->
        IF disk[d][f] = None THEN None
        ELSE CHOOSE a \in Archives : disk[d][f] = Whole(a)]

ScanDir(r) ==
    /\ pc[r] = "scan"
    /\ Readable(First(todo[r]))
    /\ listing' = [listing EXCEPT ![r] = Scan(First(todo[r]))]
    /\ Goto(r, "write")
    /\ UNCHANGED <<dbVars, fsVars, uploadVars, meta, old, todo>>

\* build_index returns its error for a file it cannot read.
ScanUnreadable(r) ==
    /\ pc[r] = "scan"
    /\ ~Readable(First(todo[r]))
    /\ GiveUp(r)

\* Mutants of WriteIndex: only the first directory is rebuilt; a directory is
\* never done.
WriteIndexFirst(r) ==
    /\ pc[r] = "write"
    /\ index' = [index EXCEPT ![First(todo[r])] = listing[r]]
    /\ Goto(r, "reply")
    /\ UNCHANGED <<dbVars, disk, staged, uploadVars, ingestVars>>

WriteIndexAgain(r) ==
    /\ pc[r] = "write"
    /\ index' = [index EXCEPT ![First(todo[r])] = listing[r]]
    /\ Goto(r, "scan")
    /\ UNCHANGED <<dbVars, disk, staged, uploadVars, ingestVars>>

WriteIndex(r) ==
    /\ pc[r] = "write"
    /\ LET d == First(todo[r])
           left == todo[r] \ {d}
       IN /\ index' = [index EXCEPT ![d] = listing[r]]
          /\ todo' = [todo EXCEPT ![r] = left]
          /\ Goto(r, IF left = {} THEN "reply" ELSE "scan")
    /\ listing' = [listing EXCEPT ![r] = None]
    /\ UNCHANGED <<dbVars, disk, staged, uploadVars, meta, old>>

Reply(r) ==
    /\ pc[r] = "reply"
    /\ Finish(r)
    /\ UNCHANGED <<dbVars, fsVars, uploadVars>>

-----------------------------------------------------------------------------
(* DELETE of an archive: web::unpublish_file and repo::unpublish *)

StartUnpublish(r, f) ==
    /\ MayUse(r, f)
    /\ published[f] # None
    /\ Goto(r, "delete")
    /\ file' = [file EXCEPT ![r] = f]
    /\ body' = [body EXCEPT ![r] = None]
    /\ UNCHANGED <<dbVars, fsVars, sent, fd, ingestVars>>

\* Mutant of DeleteRow: the row goes, its file list and log stay.
DeleteRowOnly(r) ==
    /\ pc[r] = "delete"
    /\ published[file[r]] # None
    /\ old' = [old EXCEPT ![r] = DirOf[published[file[r]].meta]]
    /\ published' = [published EXCEPT ![file[r]] = None]
    /\ Goto(r, "unlink")
    /\ UNCHANGED <<files, logs, fsVars, uploadVars, meta, todo, listing>>

\* One transaction removes the row, the file list and the log.
DeleteRow(r) ==
    /\ pc[r] = "delete"
    /\ LET f == file[r] IN
        /\ published[f] # None
        /\ old' = [old EXCEPT ![r] = DirOf[published[f].meta]]
        /\ published' = [published EXCEPT ![f] = None]
        /\ files' = [files EXCEPT ![f] = None]
        /\ logs' = [logs EXCEPT ![f] = None]
    /\ Goto(r, "unlink")
    /\ UNCHANGED <<fsVars, uploadVars, meta, todo, listing>>

\* Another request withdrew it first.
DeleteNothing(r) ==
    /\ pc[r] = "delete"
    /\ published[file[r]] = None
    /\ Finish(r)
    /\ UNCHANGED <<dbVars, fsVars, uploadVars>>

Unlink(r) ==
    /\ pc[r] = "unlink"
    /\ disk' = [disk EXCEPT ![old[r]][file[r]] = None]
    /\ fd' = CloseAt(old[r], file[r])
    /\ Goto(r, "plan")
    /\ UNCHANGED <<dbVars, staged, index, file, body, sent, ingestVars>>

-----------------------------------------------------------------------------
(* POST of a build log: web::upload_log *)

\* The check and the write are two transactions. a is the archive whose build
\* the log is of.
StartLog(r, f, a) ==
    /\ MayUse(r, f)
    /\ published[f] # None
    /\ Goto(r, "log")
    /\ file' = [file EXCEPT ![r] = f]
    /\ body' = [body EXCEPT ![r] = a]
    /\ UNCHANGED <<dbVars, fsVars, sent, fd, ingestVars>>

PutLog(r) ==
    /\ pc[r] = "log"
    /\ logs' = [logs EXCEPT ![file[r]] = body[r]]
    /\ Finish(r)
    /\ UNCHANGED <<published, files, fsVars, uploadVars>>

-----------------------------------------------------------------------------
(* Failures *)

\* A database or file system call of the blocking part returns an error. With
\* everything stored, ingest still reads the recipe its receipt compares with.
Fail(r) ==
    /\ Faults
    /\ \/ pc[r] \in IngestSteps \cup IndexSteps \cup WithdrawSteps \cup {"log"}
       \/ pc[r] = "reply" /\ body[r] # None
    /\ GiveUp(r)

\* The process stops and is started again: handlers are gone, LMDB and the
\* files are as they were.
Crash ==
    /\ Faults
    /\ pc' = [r \in Requests |-> "idle"]
    /\ fd' = [r \in Requests |-> None]
    /\ meta' = [r \in Requests |-> None]
    /\ old' = [r \in Requests |-> None]
    /\ todo' = [r \in Requests |-> {}]
    /\ listing' = [r \in Requests |-> None]
    /\ UNCHANGED <<dbVars, fsVars, file, body, sent>>

-----------------------------------------------------------------------------
Begin(r) ==
    \E f \in Filenames :
        \/ \E a \in Archives : StartPublish(r, f, a) \/ StartLog(r, f, a)
        \/ StartUnpublish(r, f)

Receive(r) ==
    WriteChunk(r) \/ EndOfBody(r) \/ AbortUpload(r) \/ DropUpload(r)

\* What the blocking pool and the runtime carry on with, whatever clients do.
Work(r) ==
    \/ Inspect(r) \/ RejectUpload(r) \/ ReadPrevious(r) \/ ClearPrevious(r)
    \/ Rename(r) \/ RenameMissing(r) \/ Upsert(r) \/ PutFiles(r)
    \/ PlanIndex(r) \/ ScanDir(r) \/ ScanUnreadable(r) \/ WriteIndex(r)
    \/ Reply(r)
    \/ DeleteRow(r) \/ DeleteNothing(r) \/ Unlink(r) \/ PutLog(r)

Next ==
    \/ \E r \in Requests : Begin(r) \/ Receive(r) \/ Work(r) \/ Fail(r)
    \/ Crash

Spec == Init /\ [][Next]_vars

\* The blocking pool and the runtime go on with what they have been given;
\* nothing is assumed of clients.
FairSpec == Spec /\ \A r \in Requests : WF_vars(Work(r))

-----------------------------------------------------------------------------
(* Properties *)

\* The steps of a request at which the row of its file, the archive and the
\* file list need not be of one upload.
InExchange(r) ==
    \/ pc[r] \in {"upsert", "files", "unlink"}
    \/ pc[r] = "rename" /\ old[r] # None
Exchanging(f) == \E r \in Requests : file[r] = f /\ InExchange(r)

\* Everything the hub keeps of file f is of archive a; or it keeps nothing.
HoldsOnly(f, a) ==
    /\ published[f] = [sha |-> a, meta |-> a]
    /\ files[f] = a
    /\ \A d \in Dirs : disk[d][f] = IF d = DirOf[a] THEN Whole(a) ELSE None
HoldsNothing(f) ==
    /\ published[f] = None /\ files[f] = None
    /\ \A d \in Dirs : disk[d][f] = None

\* What the shelf of the abstract specification holds, if it can be told.
Shelved(f) ==
    IF Exchanging(f) THEN "moving"
    ELSE IF HoldsNothing(f) THEN None
    ELSE IF \E a \in Archives : HoldsOnly(f, a)
    THEN CHOOSE a \in Archives : HoldsOnly(f, a)
    ELSE "broken"

Progress(r) ==
    IF pc[r] \in {"idle", "log"} THEN "none"
    ELSE IF InExchange(r) THEN "moving"
    ELSE IF pc[r] \in IndexSteps \cup {"reply"} THEN "settled"
    ELSE "asked"

Store == INSTANCE Shelf WITH
    shelf <- [f \in Filenames |-> Shelved(f)],
    ask <- [r \in Requests |-> Progress(r)],
    goal <- [r \in Requests |->
                IF Progress(r) = "none" THEN None
                ELSE [file |-> file[r], archive |-> body[r]]],
    Moving <- "moving"

Quiet == \A r \in Requests : ~Busy(r)
Idle(f) == \A r \in Requests : Busy(r) => file[r] # f

\* While requests name different files and nothing fails, the repository
\* implements the shelf: outside the exchange of a file its row, its archive in
\* one directory and its file list are always those of the upload that was
\* answered last, and a refused or aborted request leaves no trace in them.
ImplementsShelf == Store!Spec

\* Between requests the row of a file, the stored archive and the file list
\* agree: the row points at the directory of the archive it describes, and
\* the hash served as its ETag is the hash of those bytes.
RowMatchesArchive ==
    \A f \in Filenames :
        LET row == published[f] IN
        Idle(f) /\ row # None =>
            /\ disk[DirOf[row.meta]][f] = Whole(row.meta)
            /\ row.sha = row.meta
            /\ files[f] = row.meta

\* Between requests no directory holds an archive without a row: a channel
\* change removes the old copy, a withdrawal the only one.
OnlyPublishedStored ==
    \A f \in Filenames, d \in Dirs :
        Idle(f) /\ disk[d][f] # None =>
            published[f] # None /\ DirOf[published[f].meta] = d

\* At every moment, failures and restarts included, what can be downloaded
\* from a channel directory is a whole archive of that channel: ingest
\* inspects the staged file and publishes it by one rename.
StoredWhole ==
    \A f \in Filenames, d \in Dirs :
        disk[d][f] # None =>
            \E a \in Archives : disk[d][f] = Whole(a) /\ DirOf[a] = d

\* Whatever fails, and wherever the process stops, a file list or a build log
\* belongs to a file that has a row.
MetadataHasRow ==
    \A f \in Filenames :
        published[f] = None => files[f] = None /\ logs[f] = None

\* When publish answers with a receipt, the row, the stored archive, the file
\* list and the index all show the uploaded archive.
PublishTakesEffect ==
    \A r \in Requests :
        pc[r] = "reply" /\ body[r] # None =>
            LET f == file[r]
                a == body[r]
            IN /\ published[f] = [sha |-> a, meta |-> a]
               /\ files[f] = a
               /\ disk[DirOf[a]][f] = Whole(a)
               /\ index[DirOf[a]] # None /\ index[DirOf[a]][f] = a

\* When unpublish answers, whatever failed before, row, file list and log are
\* gone, and so are the archive and its index entry from the one directory the
\* row named. Other directories are not looked into: see WithdrawnIsGone.
UnpublishTakesEffect ==
    \A r \in Requests :
        pc[r] = "reply" /\ body[r] = None =>
            LET f == file[r]
                listed == index[old[r]]
            IN /\ published[f] = None /\ files[f] = None /\ logs[f] = None
               /\ disk[old[r]][f] = None
               /\ listed # None => listed[f] = None

\* "Withdraw a published artifact (token required): DB rows, build log, file,
\* re-index" (web.rs): when unpublish answers, no table and no channel directory
\* has anything of the file. It holds as long as nothing fails: a publish that
\* ends between rename and upsert leaves a copy no row points at, and once the
\* row points elsewhere the withdrawal does not look for it.
WithdrawnIsGone ==
    \A r \in Requests :
        pc[r] = "reply" /\ body[r] = None =>
            HoldsNothing(file[r]) /\ logs[file[r]] = None

\* A request that answers leaves every index equal to its directory, however
\* many requests before it failed half way: the rebuild covers the system
\* channel, every row's and every indexed directory.
IndexMatchesDirectories ==
    \A r \in Requests :
        pc[r] = "reply" =>
            \A d \in {SystemDir} \cup RowDirs \cup IndexedDirs :
                index[d] = Scan(d)

\* "Store one fully written archive and rebuild the affected Sage index"
\* (repo.rs): with no request running, every index lists what its directory holds.
IndexCurrentWhenQuiet ==
    Quiet => \A d \in IndexedDirs : index[d] = Scan(d)

\* Every accepted request is answered, even when requests for the same file
\* take files and rows away from each other.
EveryRequestAnswered ==
    \A r \in Requests : pc[r] \notin {"idle", "upload"} ~> pc[r] = "idle"
=============================================================================
