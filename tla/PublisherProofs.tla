--------------------------- MODULE PublisherProofs --------------------------
(* What the publish command may rely on, proved of any number of files and   *)
(* requests, with failures, restarts and broken connections: an archive it   *)
(* skips or reports as published is in the repository, byte for byte.        *)
EXTENDS Publisher, ShelfProofs

-----------------------------------------------------------------------------
(* The client's state *)

LEMMA CallEnds ==
    ASSUME ClientTypeOK, CallFails \/ CallSucceeds
    PROVE  ClientTypeOK'
<1>1. left \ {cur} \subseteq Filenames
  BY DEF ClientTypeOK
<1>2. CASE CallFails
  BY <1>1, <1>2 DEF ClientTypeOK, CallFails, NextFile, Calls, Commands
<1>3. CASE CallSucceeds
  BY <1>1, <1>3 DEF ClientTypeOK, CallSucceeds, NextFile, Calls, Commands
<1>. QED
  BY <1>2, <1>3

LEMMA ClientTypesNext ==
    ASSUME ClientTypeOK, [ClientNext]_allVars
    PROVE  ClientTypeOK'
<1>. USE PublisherAssumption DEF ClientTypeOK, Commands, Calls
<1>1. CASE Publish \/ Absent \/ Calm
  BY <1>1 DEF Publish, Absent, Calm
<1>2. CASE Present \/ NoLog
  <2>1. left \ {cur} \subseteq Filenames
    OBVIOUS
  <2>. QED
    BY <1>2, <2>1 DEF Present, NoLog, NextFile
<1>3. ASSUME NEW f \in Filenames, Hash(f) \/ Build(f) PROVE ClientTypeOK'
  BY <1>3 DEF Hash, Build
<1>4. ASSUME NEW r \in Requests, Post(r) \/ AttachLog(r) PROVE ClientTypeOK'
  BY <1>4 DEF Post, AttachLog
<1>5. ASSUME NEW r \in Requests, NEW f \in Filenames, Withdraw(r, f)
      PROVE  ClientTypeOK'
  BY <1>5 DEF Withdraw
<1>6. ASSUME NEW r \in Requests, HubStep(r) PROVE ClientTypeOK'
  <2>1. CASE Withdrawn(r)
    BY <2>1 DEF Withdrawn
  <2>2. CASE CallFails \/ CallSucceeds
    BY <2>2, CallEnds
  <2>3. CASE UNCHANGED clientVars
    BY <2>3 DEF clientVars
  <2>. QED
    BY <1>6, <2>1, <2>2, <2>3 DEF HubStep
<1>7. CASE HubCrash \/ Break
  <2>1. CASE CallFails
    BY <2>1, CallEnds
  <2>2. CASE UNCHANGED clientVars
    BY <2>2 DEF clientVars
  <2>. QED
    BY <1>7, <2>1, <2>2 DEF HubCrash, Break
<1>8. CASE UNCHANGED allVars
  BY <1>8 DEF allVars, clientVars
<1>. QED
  BY <1>1, <1>2, <1>3, <1>4, <1>5, <1>6, <1>7, <1>8 DEF ClientNext, Client

LEMMA ClientTypesInit == ClientInit => ClientTypeOK
BY PublisherAssumption DEF ClientInit, ClientTypeOK, Commands, Calls

\* A command waits for an answer exactly when it has a connection, whatever is
\* interrupted, refused or cut off by a stop.
THEOREM ClientTypes == ClientSpec => []ClientTypeOK
BY ClientTypesInit, ClientTypesNext, PTL DEF ClientSpec

-----------------------------------------------------------------------------
(* The order of the builds *)

\* Age numbers the archives so that every rebuild is newer than what it
\* replaces: a builder that never goes back to an earlier build.
OnlyForward(Age) ==
    /\ Age \in [Archives -> Nat]
    /\ \A a \in Archives : \A b \in BuiltAfter[a] : Age[a] < Age[b]

UpTo(Age, a, b) == a = b \/ Age[a] < Age[b]

LEMMA UpToFacts ==
    ASSUME NEW Age, OnlyForward(Age),
           NEW a \in Archives, NEW b \in Archives, NEW c \in Archives
    PROVE  /\ UpTo(Age, a, b) /\ UpTo(Age, b, c) => UpTo(Age, a, c)
           /\ UpTo(Age, a, b) /\ UpTo(Age, b, a) => a = b
           /\ Age[a] < Age[b] /\ UpTo(Age, b, c) => Age[a] < Age[c]
           /\ UpTo(Age, a, b) /\ a # b => Age[a] < Age[b]
<1>1. Age[a] \in Nat /\ Age[b] \in Nat /\ Age[c] \in Nat
  BY DEF OnlyForward
<1>. QED
  BY <1>1 DEF UpTo

-----------------------------------------------------------------------------
(* The invariant *)

\* A publish that has not recorded its upload, one that has, and one whose
\* archive is in its directory.
Uploading(r) == pc[r] = "upload" \/ pc[r] \in IngestSteps
Answering(r) == pc[r] \in IndexSteps \cup {"reply"} /\ body[r] # None
Landed(r) == pc[r] \in {"upsert", "files"} \/ Answering(r)

\* What is on its way is not older than the row it replaces and not newer than
\* what the builder has; past the inspection it is what its client announced.
RequestOrder(Age, r) ==
    LET f == file[r]
        a == body[r]
    IN /\ Uploading(r) =>
            /\ UpTo(Age, a, local[f])
            /\ published[f] # None => UpTo(Age, published[f].sha, a)
            /\ cmd = "probe" /\ cur = f /\ declared[r] = a => UpTo(Age, a, sum)
       /\ pc[r] \in {"previous", "clear", "rename"} => declared[r] = a
       /\ pc[r] = "clear" =>
            published[f] # None /\ DirOf[published[f].meta] # DirOf[a]
       /\ Landed(r) => declared[r] = a /\ disk[DirOf[a]][f] = Whole(a)
       /\ Landed(r) /\ pc[r] # "upsert" => published[f] = [sha |-> a, meta |-> a]
       /\ pc[r] = "unlink" => published[f] = None

\* A row whose archive is not there is older than what the builder has, and
\* older than the hash a running command has taken.
FileOrder(Age, f) ==
    LET a == published[f].sha IN
    published[f] # None =>
        /\ published[f].meta = a
        /\ UpTo(Age, a, local[f])
        /\ Stored(f, a) \/ Age[a] < Age[local[f]]
        /\ cmd = "probe" /\ cur = f => Stored(f, a) \/ Age[a] < Age[sum]

\* Archive a is stored as f, and an upload of f still under way brings a again.
Kept(f, a) ==
    /\ Stored(f, a)
    /\ \A r \in Requests :
        Uploading(r) /\ file[r] = f /\ declared[r] = body[r] => body[r] = a

AtHand ==
    /\ cmd \in {"probe", "post", "await", "log", "attach"} =>
            cur \in Filenames /\ sum \in Archives
    /\ cmd = "await" =>
            /\ file[conn] = cur /\ declared[conn] = sum
            /\ Uploading(conn) \/ Answering(conn)

PublishInv(Age) ==
    /\ StagingInv /\ ClientTypeOK /\ AtHand
    /\ \A r \in Requests : RequestOrder(Age, r)
    /\ \A f \in Filenames :
        FileOrder(Age, f) /\ \A a \in Archives : told[f] = a => Kept(f, a)

LEMMA PublishInit ==
    ASSUME NEW Age PROVE ClientInit => PublishInv(Age)
<1>. SUFFICES ASSUME ClientInit PROVE PublishInv(Age)
  OBVIOUS
<1>1. StagingInv /\ ClientTypeOK
  BY StagingInit, ClientTypesInit DEF ClientInit
<1>2. \A r \in Requests : pc[r] = "idle"
  BY DEF ClientInit, Init
<1>3. \A r \in Requests : RequestOrder(Age, r)
  BY <1>2 DEF RequestOrder, Uploading, Landed, Answering, IngestSteps, IndexSteps
<1>4. \A f \in Filenames : published[f] = None /\ told[f] \notin Archives
  BY ContentsFacts DEF ClientInit, Init
<1>. QED
  BY <1>1, <1>3, <1>4 DEF ClientInit, PublishInv, FileOrder, AtHand

\* The types of what the invariant compares.
LEMMA Compared ==
    ASSUME NEW Age, PublishInv(Age)
    PROVE  /\ \A f \in Filenames :
                /\ local[f] \in Archives /\ told[f] \in Archives \cup {None}
                /\ published[f] # None =>
                    /\ published[f] \in Rows
                    /\ published[f].sha \in Archives
                    /\ published[f].meta = published[f].sha
                    /\ DirOf[published[f].meta] \in Dirs
           /\ \A r \in Requests :
                /\ pc[r] # "idle" => file[r] \in Filenames
                /\ Uploading(r) \/ Landed(r) =>
                    /\ file[r] \in Filenames /\ Busy(r)
                    /\ body[r] \in Archives /\ DirOf[body[r]] \in Dirs
           /\ cmd = "probe" => cur \in Filenames /\ sum \in Archives
<1>1. ASSUME NEW f \in Filenames, published[f] # None
      PROVE  /\ published[f] \in Rows /\ published[f].sha \in Archives
             /\ published[f].meta = published[f].sha
  <2>1. published[f] \in Rows
    BY <1>1 DEF PublishInv, StagingInv, TypeInv, TypeOK
  <2>2. published[f].meta = published[f].sha
    BY <1>1 DEF PublishInv, FileOrder
  <2>. QED
    BY <2>1, <2>2 DEF Rows
<1>2. ASSUME NEW r \in Requests
      PROVE  /\ pc[r] # "idle" => file[r] \in Filenames
             /\ Uploading(r) \/ Landed(r) => Busy(r) /\ body[r] \in Archives
  BY DEF PublishInv, StagingInv, TypeInv, TypeOK, Holds, Uploading, Landed,
         Answering, IngestSteps, IndexSteps, Busy
<1>3. ASSUME NEW r \in Requests, Uploading(r) \/ Landed(r) PROVE pc[r] # "idle"
  BY <1>3 DEF Uploading, Landed, Answering, IngestSteps, IndexSteps
<1>4. \A f \in Filenames : local[f] \in Archives /\ told[f] \in Archives \cup {None}
  BY DEF PublishInv, ClientTypeOK
<1>. QED
  BY <1>1, <1>2, <1>3, <1>4, ContentsFacts DEF PublishInv, AtHand

-----------------------------------------------------------------------------
(* The client's part of a step *)

\* The repository makes a step of its own, or none.
LEMMA HubNext ==
    ASSUME ClientTypeOK, AtHand, [ClientNext]_allVars
    PROVE  [Next]_vars
<1>1. CASE Publish \/ Present \/ Absent \/ NoLog \/ Break \/ Calm \/ UNCHANGED allVars
  BY <1>1 DEF Publish, Present, Absent, NoLog, Break, Calm, allVars
<1>2. ASSUME NEW f \in Filenames, Hash(f) \/ Build(f) PROVE UNCHANGED vars
  BY <1>2 DEF Hash, Build, vars
<1>3. ASSUME NEW r \in Requests, Post(r) \/ AttachLog(r) PROVE Begin(r)
  <2>1. cur \in Filenames /\ local[cur] \in Archives
    BY <1>3 DEF Post, AttachLog, AtHand, ClientTypeOK
  <2>. QED
    BY <1>3, <2>1 DEF Post, AttachLog, Begin
<1>4. ASSUME NEW r \in Requests, NEW f \in Filenames, Withdraw(r, f)
      PROVE  Begin(r)
  BY <1>4 DEF Withdraw, Begin
<1>5. ASSUME NEW r \in Requests, HubStep(r)
      PROVE  Receive(r) \/ Work(r) \/ Fail(r)
  BY <1>5 DEF HubStep, Withdrawn, Ingest, Verify, Receive, Work
<1>6. CASE HubCrash
  BY <1>6 DEF HubCrash, Next
<1>. QED
  BY <1>1, <1>2, <1>3, <1>4, <1>5, <1>6 DEF ClientNext, Client, Next

\* What the builder has only gets newer, and a probe begins with its hash.
Steady(Age) ==
    /\ \A f \in Filenames : UpTo(Age, local[f], local'[f])
    /\ cmd' = "probe" =>
        \/ cmd = "probe" /\ cur' = cur /\ sum' = sum
        \/ sum' = local[cur']

LEMMA CallSteady ==
    ASSUME NEW Age, CallFails \/ CallSucceeds \/ UNCHANGED clientVars
    PROVE  Steady(Age) /\ UNCHANGED <<local, declared>>
BY DEF CallFails, CallSucceeds, NextFile, clientVars, Steady, UpTo

-----------------------------------------------------------------------------
(* What a step leaves alone *)

LEMMA SameStored ==
    ASSUME NEW Age, PublishInv(Age), NEW f \in Filenames,
           published'[f] = published[f],
           \A d \in Dirs : disk'[d][f] = disk[d][f],
           NEW a
    PROVE  Stored(f, a)' <=> Stored(f, a)
<1>1. published[f] # None => DirOf[published[f].meta] \in Dirs
  BY Compared
<1>2. Whole(a)' = Whole(a)
  BY DEF Whole
<1>. QED
  BY <1>1, <1>2 DEF Stored

LEMMA SameFileOrder ==
    ASSUME NEW Age, OnlyForward(Age), PublishInv(Age), Steady(Age),
           ClientTypeOK', NEW f \in Filenames,
           published'[f] = published[f],
           \A d \in Dirs : disk'[d][f] = disk[d][f]
    PROVE  FileOrder(Age, f)'
<1>. DEFINE a == published[f].sha
<1>. SUFFICES ASSUME published[f] # None
              PROVE  /\ published[f].meta = a
                     /\ UpTo(Age, a, local'[f])
                     /\ Stored(f, a)' \/ Age[a] < Age[local'[f]]
                     /\ cmd' = "probe" /\ cur' = f =>
                            Stored(f, a)' \/ Age[a] < Age[sum']
  BY DEF FileOrder, UpTo, Stored
<1>1. Stored(f, a)' <=> Stored(f, a)
  BY SameStored
<1>2. a \in Archives /\ local[f] \in Archives /\ local'[f] \in Archives
  BY Compared DEF ClientTypeOK
<1>3. /\ published[f].meta = a
      /\ UpTo(Age, a, local[f])
      /\ Stored(f, a) \/ Age[a] < Age[local[f]]
      /\ cmd = "probe" /\ cur = f => Stored(f, a) \/ Age[a] < Age[sum]
  BY DEF PublishInv, FileOrder
<1>4. UpTo(Age, local[f], local'[f])
  BY DEF Steady
<1>5. UpTo(Age, a, local'[f])
  BY <1>2, <1>3, <1>4, UpToFacts
<1>6. Age[a] < Age[local[f]] => Age[a] < Age[local'[f]]
  BY <1>2, <1>4, UpToFacts
<1>7. ASSUME cmd' = "probe", cur' = f
      PROVE  Stored(f, a) \/ Age[a] < Age[sum']
  BY <1>3, <1>7 DEF Steady
<1>. QED
  BY <1>1, <1>3, <1>5, <1>6, <1>7

LEMMA SameRequestOrder ==
    ASSUME NEW Age, OnlyForward(Age), PublishInv(Age), Steady(Age),
           ClientTypeOK', NEW q \in Requests,
           pc'[q] = pc[q], file'[q] = file[q], body'[q] = body[q],
           declared'[q] = declared[q],
           pc[q] # "idle" =>
               /\ published'[file[q]] = published[file[q]]
               /\ \A d \in Dirs : disk'[d][file[q]] = disk[d][file[q]]
    PROVE  RequestOrder(Age, q)'
<1>. DEFINE f == file[q]
            a == body[q]
<1>1. RequestOrder(Age, q)
  BY DEF PublishInv
<1>2. /\ Uploading(q)' <=> Uploading(q)
      /\ Landed(q)' <=> Landed(q)
  BY DEF Uploading, Landed, Answering, IngestSteps, IndexSteps
<1>3. ASSUME Uploading(q)
      PROVE  /\ UpTo(Age, a, local'[f])
             /\ published'[f] # None => UpTo(Age, published'[f].sha, a)
             /\ cmd' = "probe" /\ cur' = f /\ declared'[q] = a =>
                    UpTo(Age, a, sum')
  <2>1. pc[q] # "idle" /\ f \in Filenames /\ a \in Archives
    BY <1>3, Compared DEF Uploading, IngestSteps
  <2>2. local[f] \in Archives /\ local'[f] \in Archives
    BY <2>1, Compared DEF ClientTypeOK
  <2>3. /\ UpTo(Age, a, local[f])
        /\ published[f] # None => UpTo(Age, published[f].sha, a)
        /\ cmd = "probe" /\ cur = f /\ declared[q] = a => UpTo(Age, a, sum)
    BY <1>1, <1>3 DEF RequestOrder
  <2>4. UpTo(Age, local[f], local'[f])
    BY <2>1 DEF Steady
  <2>5. UpTo(Age, a, local'[f])
    BY <2>1, <2>2, <2>3, <2>4, UpToFacts
  <2>6. cmd' = "probe" /\ cur' = f /\ declared'[q] = a => UpTo(Age, a, sum')
    BY <2>3 DEF Steady
  <2>. QED
    BY <2>1, <2>3, <2>5, <2>6
<1>4. pc[q] = "clear" =>
        published'[f] # None /\ DirOf[published'[f].meta] # DirOf[a]
  BY <1>1 DEF RequestOrder
<1>5. ASSUME Landed(q)
      PROVE  /\ declared[q] = a /\ disk'[DirOf[a]][f] = Whole(a)
             /\ pc[q] # "upsert" => published'[f] = [sha |-> a, meta |-> a]
  <2>1. pc[q] # "idle" /\ DirOf[a] \in Dirs
    BY <1>5, Compared DEF Landed, Answering, IndexSteps
  <2>. QED
    BY <1>1, <1>5, <2>1 DEF RequestOrder
<1>6. Whole(body[q])' = Whole(a)
  BY DEF Whole
<1>7. /\ pc[q] \in {"previous", "clear", "rename"} => declared[q] = a
      /\ pc[q] = "unlink" => published'[f] = None
  BY <1>1 DEF RequestOrder
<1>. QED
  BY <1>2, <1>3, <1>4, <1>5, <1>6, <1>7 DEF RequestOrder, UpTo

LEMMA StillKept ==
    ASSUME NEW f, NEW a, Kept(f, a), Stored(f, a)',
           \A q \in Requests : Uploading(q)' /\ file'[q] = f =>
               /\ Uploading(q) /\ file[q] = f
               /\ body'[q] = body[q] /\ declared'[q] = declared[q]
    PROVE  Kept(f, a)'
BY DEF Kept

\* A step of the client, which the repository does not notice.
LEMMA ClientSideStep ==
    ASSUME NEW Age, OnlyForward(Age), PublishInv(Age), Steady(Age),
           ClientTypeOK', UNCHANGED <<vars, declared>>
    PROVE  /\ \A r \in Requests : RequestOrder(Age, r)'
           /\ \A f \in Filenames :
                FileOrder(Age, f)' /\ \A a : Kept(f, a) => Kept(f, a)'
<1>1. UNCHANGED <<published, disk, pc, file, body, declared>>
  BY DEF vars
<1>2. ASSUME NEW r \in Requests PROVE RequestOrder(Age, r)'
  BY <1>1, SameRequestOrder
<1>3. ASSUME NEW f \in Filenames PROVE FileOrder(Age, f)'
  BY <1>1, SameFileOrder
<1>4. ASSUME NEW f \in Filenames, NEW a, Kept(f, a) PROVE Kept(f, a)'
  <2>1. Stored(f, a)'
    BY <1>1, <1>4, SameStored DEF Kept
  <2>2. \A q \in Requests : Uploading(q)' => Uploading(q)
    BY <1>1 DEF Uploading, IngestSteps
  <2>. QED
    BY <1>1, <1>4, <2>1, <2>2, StillKept
<1>. QED
  BY <1>2, <1>3, <1>4

\* A step of a request, seen from the other requests and the other files.
LEMMA ElsewhereStep ==
    ASSUME NEW Age, OnlyForward(Age), PublishInv(Age), Steady(Age),
           ClientTypeOK', NEW r \in Requests, NEW f \in Filenames, Apart(r, f),
           file'[r] = f, \A q \in Requests : q # r => declared'[q] = declared[q]
    PROVE  /\ \A q \in Requests : q # r => RequestOrder(Age, q)'
           /\ \A g \in Filenames : g # f =>
                FileOrder(Age, g)' /\ \A a : Kept(g, a) => Kept(g, a)'
<1>1. ASSUME NEW q \in Requests, q # r PROVE RequestOrder(Age, q)'
  <2>1. /\ pc'[q] = pc[q] /\ file'[q] = file[q] /\ body'[q] = body[q]
        /\ declared'[q] = declared[q]
    BY <1>1 DEF Apart
  <2>2. ASSUME pc[q] # "idle"
        PROVE  /\ published'[file[q]] = published[file[q]]
               /\ \A d \in Dirs : disk'[d][file[q]] = disk[d][file[q]]
    <3>1. file[q] # f /\ file[q] \in Filenames
      BY <1>1, <2>2, Compared DEF Apart, Busy
    <3>. QED
      BY <3>1 DEF Apart
  <2>. QED
    BY <2>1, <2>2, SameRequestOrder
<1>2. ASSUME NEW g \in Filenames, g # f
      PROVE  /\ published'[g] = published[g]
             /\ \A d \in Dirs : disk'[d][g] = disk[d][g]
  BY <1>2 DEF Apart
<1>3. ASSUME NEW g \in Filenames, g # f PROVE FileOrder(Age, g)'
  BY <1>2, <1>3, SameFileOrder
<1>4. ASSUME NEW g \in Filenames, g # f, NEW a, Kept(g, a) PROVE Kept(g, a)'
  <2>1. Stored(g, a)'
    BY <1>2, <1>4, SameStored DEF Kept
  <2>2. ASSUME NEW q \in Requests, Uploading(q)', file'[q] = g
        PROVE  /\ Uploading(q) /\ file[q] = g
               /\ body'[q] = body[q] /\ declared'[q] = declared[q]
    <3>1. q # r
      BY <1>4, <2>2
    <3>. QED
      BY <2>2, <3>1 DEF Apart, Uploading, IngestSteps
  <2>. QED
    BY <1>4, <2>1, <2>2, StillKept
<1>. QED
  BY <1>1, <1>3, <1>4

-----------------------------------------------------------------------------
(* The steps of a request, seen from its own file *)

\* The order of the builds as a running request leaves it to its file.
OwnOrder(Age, r) ==
    /\ RequestOrder(Age, r)' /\ FileOrder(Age, file[r])'
    /\ \A a : Kept(file[r], a) => Kept(file[r], a)'

\* Nothing of the file is touched, and the request goes on or ends.
LEMMA AsideOrder ==
    ASSUME NEW Age, OnlyForward(Age), PublishInv(Age), Steady(Age),
           ClientTypeOK', NEW r \in Requests, Apart(r, file[r]),
           file[r] \in Filenames, UNCHANGED <<file, body, declared, local>>,
           published'[file[r]] = published[file[r]],
           \A d \in Dirs : disk'[d][file[r]] = disk[d][file[r]],
           Uploading(r)' => Uploading(r),
           Landed(r)' => Landed(r) /\ pc[r] # "upsert",
           pc'[r] \in {"previous", "clear", "rename"} => declared[r] = body[r],
           pc'[r] = "clear" =>
               /\ published[file[r]] # None
               /\ DirOf[published[file[r]].meta] # DirOf[body[r]],
           pc'[r] # "unlink"
    PROVE  OwnOrder(Age, r)
<1>. DEFINE f == file[r]
            a == body[r]
<1>1. FileOrder(Age, f)'
  BY SameFileOrder
<1>2. RequestOrder(Age, r)
  BY DEF PublishInv
<1>3. ASSUME Uploading(r)
      PROVE  /\ UpTo(Age, a, local'[f])
             /\ published'[f] # None => UpTo(Age, published'[f].sha, a)
             /\ cmd' = "probe" /\ cur' = f /\ declared'[r] = a =>
                    UpTo(Age, a, sum')
  BY <1>2, <1>3 DEF RequestOrder, Steady
<1>4. ASSUME Landed(r), pc[r] # "upsert"
      PROVE  /\ declared[r] = a /\ disk'[DirOf[a]][f] = Whole(a)
             /\ published'[f] = [sha |-> a, meta |-> a]
  <2>1. DirOf[a] \in Dirs
    BY <1>4, Compared
  <2>. QED
    BY <1>2, <1>4, <2>1 DEF RequestOrder
<1>5. Whole(body[r])' = Whole(a)
  BY DEF Whole
<1>6. RequestOrder(Age, r)'
  BY <1>3, <1>4, <1>5 DEF RequestOrder, UpTo
<1>7. ASSUME NEW b, Kept(f, b) PROVE Kept(f, b)'
  <2>1. Stored(f, b)'
    BY <1>7, SameStored DEF Kept
  <2>2. \A q \in Requests : Uploading(q)' => Uploading(q)
    BY DEF Apart, Uploading, IngestSteps
  <2>. QED
    BY <1>7, <2>1, <2>2, StillKept
<1>. QED
  BY <1>1, <1>6, <1>7 DEF OwnOrder

\* The steps of a running request but those that touch rows or archives.
LEMMA QuietOrder ==
    ASSUME NEW Age, OnlyForward(Age), PublishInv(Age), Steady(Age),
           ClientTypeOK', UNCHANGED <<declared, local>>, NEW r \in Requests,
           \/ WriteChunk(r) \/ EndOfBody(r) \/ ReadPrevious(r)
           \/ declared[r] = body[r] /\ Inspect(r)
           \/ PutFiles(r) \/ PlanIndex(r) \/ ScanDir(r) \/ WriteIndex(r)
    PROVE  OwnOrder(Age, r)
<1>. DEFINE f == file[r]
<1>. USE DEF StagingInv, TypeInv, TypeOK
<1>1. Receive(r) \/ Work(r)
  BY DEF Receive, Work
<1>2. /\ Apart(r, f) /\ f \in Filenames /\ UNCHANGED <<file, body>>
  BY <1>1, StepApart DEF PublishInv
<1>3. UNCHANGED <<published, disk>>
  <2>1. CASE WriteChunk(r)
    BY <2>1, WriteStaging DEF WriteChunk, PublishInv, dbVars
  <2>2. CASE ~WriteChunk(r)
    BY <2>2
       DEF EndOfBody, ReadPrevious, Inspect, PutFiles, PlanIndex, ScanDir,
           WriteIndex, dbVars, fsVars
  <2>. QED
    BY <2>1, <2>2
<1>4. RequestOrder(Age, r) /\ Staging(r)
  BY DEF PublishInv
<1>5. /\ Uploading(r)' => Uploading(r)
      /\ Landed(r)' => Landed(r) /\ pc[r] # "upsert"
      /\ pc'[r] # "unlink"
      /\ pc'[r] \in {"previous", "clear", "rename"} => declared[r] = body[r]
      /\ pc'[r] = "clear" =>
            /\ published[f] # None
            /\ DirOf[published[f].meta] # DirOf[body[r]]
  <2>. USE DEF PublishInv, Uploading, Landed, Answering, IngestSteps, IndexSteps
  <2>1. CASE WriteChunk(r)
    <3>1. pc'[r] = pc[r] /\ pc[r] \in {"idle", "upload", "inspect"}
      BY <1>4, <2>1 DEF WriteChunk, Staging
    <3>. QED
      BY <3>1
  <2>2. CASE EndOfBody(r)
    BY <2>2 DEF EndOfBody, Goto
  <2>3. CASE declared[r] = body[r] /\ Inspect(r)
    BY <2>3 DEF Inspect, Goto
  <2>4. CASE ReadPrevious(r)
    <3>1. pc[r] = "previous" /\ body[r] = meta[r] /\ declared[r] = body[r]
      BY <1>4, <2>4 DEF ReadPrevious, Staging, RequestOrder
    <3>2. /\ pc'[r] \in {"clear", "rename"}
          /\ pc'[r] = "clear" =>
                /\ published[f] # None
                /\ DirOf[published[f].meta] # DirOf[meta[r]]
      BY <2>4 DEF ReadPrevious, Goto
    <3>. QED
      BY <3>1, <3>2
  <2>5. CASE PutFiles(r)
    BY <2>5, <1>2 DEF PutFiles, Goto
  <2>6. CASE PlanIndex(r) \/ ScanDir(r) \/ WriteIndex(r)
    <3>1. pc[r] \in {"plan", "scan", "write"} /\ pc'[r] \in {"scan", "write", "reply"}
      BY <2>6 DEF PlanIndex, ScanDir, WriteIndex, Goto
    <3>. QED
      BY <1>2, <3>1
  <2>. QED
    BY <2>1, <2>2, <2>3, <2>4, <2>5, <2>6
<1>. QED
  BY <1>2, <1>3, <1>5, AsideOrder

\* However a request ends, it leaves rows and archives as they are.
LEMMA EndOrder ==
    ASSUME NEW Age, OnlyForward(Age), PublishInv(Age), Steady(Age),
           ClientTypeOK', UNCHANGED <<declared, local>>, NEW r \in Requests,
           \/ AbortUpload(r) \/ DropUpload(r) \/ RejectUpload(r)
           \/ RenameMissing(r) \/ ScanUnreadable(r) \/ Reply(r)
           \/ DeleteNothing(r) \/ PutLog(r) \/ Fail(r)
    PROVE  OwnOrder(Age, r) /\ pc'[r] = "idle" /\ UNCHANGED <<published, disk>>
<1>1. Receive(r) \/ Work(r) \/ Fail(r)
  BY DEF Receive, Work
<1>2. /\ Apart(r, file[r]) /\ file[r] \in Filenames /\ UNCHANGED <<file, body>>
  BY <1>1, StepApart DEF PublishInv, StagingInv
<1>3. /\ UNCHANGED <<published, disk>> /\ Finish(r)
  BY DEF AbortUpload, DropUpload, RejectUpload, RenameMissing, ScanUnreadable,
         Reply, DeleteNothing, PutLog, Fail, GiveUp, Reject, dbVars, fsVars
<1>4. pc'[r] = "idle"
  BY <1>3 DEF Finish, PublishInv, StagingInv, TypeInv, TypeOK
<1>5. ~Uploading(r)' /\ ~Landed(r)'
  BY <1>4 DEF Uploading, Landed, Answering, IngestSteps, IndexSteps
<1>. QED
  BY <1>2, <1>3, <1>4, <1>5, AsideOrder

\* The old archive is removed only for a newer one on its way.
LEMMA ClearOrder ==
    ASSUME NEW Age, OnlyForward(Age), PublishInv(Age), Steady(Age),
           ClientTypeOK', UNCHANGED <<declared, local>>, NEW r \in Requests,
           ClearPrevious(r)
    PROVE  OwnOrder(Age, r)
<1>. DEFINE f == file[r]
            a == body[r]
            c == published[f].sha
<1>. USE DEF StagingInv, TypeInv, TypeOK
<1>1. /\ pc[r] = "clear" /\ pc'[r] = "rename"
      /\ UNCHANGED <<published, file, body>>
  BY DEF ClearPrevious, Goto, dbVars, PublishInv
<1>2. Uploading(r) /\ Uploading(r)' /\ ~Landed(r)'
  BY <1>1 DEF Uploading, Landed, Answering, IngestSteps, IndexSteps
<1>3. f \in Filenames /\ a \in Archives /\ local[f] \in Archives
  BY <1>2, Compared
<1>4. /\ UpTo(Age, a, local[f])
      /\ published[f] # None => UpTo(Age, c, a)
      /\ cmd = "probe" /\ cur = f => UpTo(Age, a, sum)
      /\ declared[r] = a
      /\ published[f] # None /\ DirOf[published[f].meta] # DirOf[a]
  BY <1>1, <1>2 DEF PublishInv, RequestOrder
<1>5. c \in Archives /\ published[f].meta = c /\ c # a
  BY <1>3, <1>4, Compared
<1>6. Age[c] < Age[a] /\ Age[c] < Age[local[f]]
  BY <1>3, <1>4, <1>5, UpToFacts
<1>7. UpTo(Age, c, local[f])
  BY <1>6 DEF UpTo
<1>8. ASSUME cmd' = "probe", cur' = f
      PROVE  UpTo(Age, a, sum') /\ Age[c] < Age[sum']
  <2>1. CASE cmd = "probe" /\ cur' = cur /\ sum' = sum
    <3>1. sum \in Archives
      BY <2>1, Compared
    <3>. QED
      BY <1>3, <1>4, <1>5, <1>6, <1>8, <2>1, <3>1, UpToFacts
  <2>2. CASE sum' = local[cur']
    BY <1>4, <1>6, <1>8, <2>2
  <2>. QED
    BY <1>8, <2>1, <2>2 DEF Steady
<1>9. FileOrder(Age, f)'
  BY <1>1, <1>4, <1>5, <1>6, <1>7, <1>8 DEF FileOrder, UpTo
<1>10. RequestOrder(Age, r)'
  BY <1>1, <1>2, <1>4, <1>8 DEF RequestOrder, UpTo
<1>11. ASSUME NEW b PROVE ~Kept(f, b)
  BY <1>2, <1>4, <1>5 DEF Kept, Stored
<1>. QED
  BY <1>9, <1>10, <1>11 DEF OwnOrder

\* The rename puts the archive in its place; a row of another one is older.
LEMMA RenameOrder ==
    ASSUME NEW Age, OnlyForward(Age), PublishInv(Age), Steady(Age),
           ClientTypeOK', UNCHANGED <<declared, local>>, NEW r \in Requests,
           Rename(r)
    PROVE  OwnOrder(Age, r)
<1>. DEFINE f == file[r]
            a == body[r]
            c == published[f].sha
<1>. USE DEF StagingInv, TypeInv, TypeOK
<1>1. /\ pc[r] = "rename" /\ pc'[r] = "upsert"
      /\ UNCHANGED <<published, file, body>>
  BY DEF Rename, Goto, dbVars, PublishInv
<1>2. Uploading(r) /\ Uploading(r)' /\ Landed(r)'
  BY <1>1 DEF Uploading, Landed, IngestSteps
<1>3. /\ f \in Filenames /\ a \in Archives /\ local[f] \in Archives
      /\ DirOf[a] \in Dirs
  BY <1>2, Compared
<1>4. /\ UpTo(Age, a, local[f])
      /\ published[f] # None => UpTo(Age, c, a)
      /\ cmd = "probe" /\ cur = f => UpTo(Age, a, sum)
      /\ declared[r] = a
  BY <1>1, <1>2 DEF PublishInv, RequestOrder
<1>5. staged[f] = Whole(a) /\ a = meta[r]
  BY <1>1 DEF PublishInv, Staging, IngestSteps
<1>6. disk'[DirOf[a]][f] = Whole(a)
  BY <1>3, <1>5 DEF Rename, PublishInv
<1>7. Whole(a)' = Whole(a) /\ Whole(body[r])' = Whole(a)
  BY <1>1 DEF Whole
<1>8. cmd' = "probe" /\ cur' = f => UpTo(Age, a, sum')
  BY <1>4 DEF Steady
<1>9. RequestOrder(Age, r)'
  BY <1>1, <1>2, <1>4, <1>6, <1>7, <1>8 DEF RequestOrder, UpTo
<1>10. published[f] # None /\ c = a => Stored(f, a)'
  <2>1. published[f] # None => published[f].meta = c
    BY <1>3, Compared
  <2>. QED
    BY <1>1, <1>6, <1>7, <2>1 DEF Stored
<1>11. FileOrder(Age, f)'
  <2>. SUFFICES ASSUME published[f] # None
                PROVE  /\ published[f].meta = c
                       /\ UpTo(Age, c, local[f])
                       /\ Stored(f, c)' \/ Age[c] < Age[local[f]]
                       /\ cmd' = "probe" /\ cur' = f =>
                              Stored(f, c)' \/ Age[c] < Age[sum']
    BY <1>1 DEF FileOrder, UpTo, Stored
  <2>1. c \in Archives /\ published[f].meta = c /\ UpTo(Age, c, a)
    BY <1>3, <1>4, Compared
  <2>2. UpTo(Age, c, local[f])
    BY <1>3, <1>4, <2>1, UpToFacts
  <2>3. CASE c = a
    <3>1. Stored(f, c)'
      BY <1>1, <1>10, <2>3 DEF Stored
    <3>. QED
      BY <2>1, <2>2, <3>1
  <2>4. CASE c # a
    <3>1. Age[c] < Age[a] /\ Age[c] < Age[local[f]]
      BY <1>3, <1>4, <2>1, <2>4, UpToFacts
    <3>2. ASSUME cmd' = "probe", cur' = f PROVE Age[c] < Age[sum']
      <4>1. sum' \in Archives
        <5>1. cmd = "probe" => sum \in Archives
          BY Compared
        <5>. QED
          BY <1>3, <3>2, <5>1 DEF Steady
      <4>. QED
        BY <1>3, <1>8, <2>1, <3>1, <3>2, <4>1, UpToFacts
    <3>. QED
      BY <2>1, <2>2, <3>1, <3>2
  <2>. QED
    BY <2>3, <2>4
<1>12. ASSUME NEW b, Kept(f, b) PROVE Kept(f, b)'
  <2>1. a = b /\ published[f] # None /\ c = b
    BY <1>2, <1>4, <1>12 DEF Kept, Stored
  <2>2. Stored(f, b)'
    BY <1>1, <1>10, <2>1
  <2>3. /\ \A q \in Requests : Uploading(q)' => Uploading(q)
        /\ UNCHANGED <<file, body, declared>>
    BY <1>1, <1>2 DEF Rename, Goto, Uploading, IngestSteps, PublishInv
  <2>. QED
    BY <1>12, <2>2, <2>3, StillKept
<1>. QED
  BY <1>9, <1>11, <1>12 DEF OwnOrder

LEMMA UpsertOrder ==
    ASSUME NEW Age, OnlyForward(Age), PublishInv(Age), Steady(Age),
           ClientTypeOK', UNCHANGED <<declared, local>>, NEW r \in Requests,
           Upsert(r)
    PROVE  OwnOrder(Age, r)
<1>. DEFINE f == file[r]
            a == body[r]
<1>. USE DEF StagingInv, TypeInv, TypeOK
<1>1. /\ pc[r] = "upsert" /\ pc'[r] = "files"
      /\ UNCHANGED <<disk, file, body>>
  BY DEF Upsert, Goto, fsVars, uploadVars, PublishInv
<1>2. /\ Uploading(r) /\ Uploading(r)' /\ Landed(r) /\ Landed(r)'
      /\ a = meta[r]
  BY <1>1 DEF Uploading, Landed, IngestSteps, PublishInv, Staging
<1>3. /\ f \in Filenames /\ a \in Archives /\ local[f] \in Archives
      /\ DirOf[a] \in Dirs
  BY <1>2, Compared
<1>4. /\ UpTo(Age, a, local[f])
      /\ cmd = "probe" /\ cur = f => UpTo(Age, a, sum)
      /\ declared[r] = a /\ disk[DirOf[a]][f] = Whole(a)
  BY <1>1, <1>2 DEF PublishInv, RequestOrder
<1>5. /\ published'[f] = [sha |-> a, meta |-> a]
      /\ published'[f].sha = a /\ published'[f].meta = a /\ published'[f] # None
  <2>1. published'[f] = [sha |-> a, meta |-> a]
    BY <1>2, <1>3 DEF Upsert, PublishInv
  <2>2. [sha |-> a, meta |-> a] \in Rows
    BY <1>3 DEF Rows
  <2>. QED
    BY <2>1, <2>2, ContentsFacts
<1>6. Whole(a)' = Whole(a) /\ Whole(body[r])' = Whole(a)
  BY <1>1 DEF Whole
<1>7. cmd' = "probe" /\ cur' = f => UpTo(Age, a, sum')
  BY <1>4 DEF Steady
<1>8. Stored(f, a)'
  BY <1>1, <1>4, <1>5, <1>6 DEF Stored
<1>9. RequestOrder(Age, r)'
  BY <1>1, <1>2, <1>4, <1>5, <1>6, <1>7 DEF RequestOrder, UpTo
<1>10. FileOrder(Age, f)'
  <2>1. published'[f].meta = a /\ UpTo(Age, a, local'[f])
    BY <1>4, <1>5
  <2>2. Stored(f, published[f].sha)'
    BY <1>1, <1>5, <1>8
  <2>. QED
    BY <1>1, <1>5, <2>1, <2>2 DEF FileOrder, UpTo
<1>11. ASSUME NEW b, Kept(f, b) PROVE Kept(f, b)'
  <2>1. a = b
    BY <1>2, <1>4, <1>11 DEF Kept
  <2>2. /\ \A q \in Requests : Uploading(q)' => Uploading(q)
        /\ UNCHANGED <<file, body, declared>>
    BY <1>1, <1>2 DEF Upsert, Goto, Uploading, IngestSteps, PublishInv
  <2>. QED
    BY <1>8, <1>11, <2>1, <2>2, StillKept
<1>. QED
  BY <1>9, <1>10, <1>11 DEF OwnOrder

\* A withdrawal removes the archive once the row is gone.
LEMMA UnlinkOrder ==
    ASSUME NEW Age, PublishInv(Age), NEW r \in Requests, Unlink(r)
    PROVE  OwnOrder(Age, r)
<1>. USE DEF StagingInv, TypeInv, TypeOK
<1>1. /\ pc[r] = "unlink" /\ pc'[r] = "plan" /\ UNCHANGED <<published, file, body>>
  BY DEF Unlink, Goto, dbVars, PublishInv
<1>2. published[file[r]] = None /\ body[r] = None
  BY <1>1 DEF PublishInv, RequestOrder, Staging, WithdrawSteps
<1>3. ~Uploading(r)' /\ ~Landed(r)'
  BY <1>1, <1>2 DEF Uploading, Landed, Answering, IngestSteps, IndexSteps
<1>4. RequestOrder(Age, r)' /\ FileOrder(Age, file[r])'
  BY <1>1, <1>2, <1>3 DEF RequestOrder, FileOrder
<1>5. \A b : ~Kept(file[r], b)
  BY <1>2 DEF Kept, Stored
<1>. QED
  BY <1>4, <1>5 DEF OwnOrder

LEMMA DeleteOrder ==
    ASSUME NEW Age, PublishInv(Age), NEW r \in Requests, DeleteRow(r)
    PROVE  RequestOrder(Age, r)' /\ FileOrder(Age, file[r])'
<1>. USE DEF StagingInv, TypeInv, TypeOK
<1>1. /\ pc[r] = "delete" /\ pc'[r] = "unlink" /\ UNCHANGED <<file, body>>
      /\ file[r] \in Filenames
  BY DEF DeleteRow, Goto, uploadVars, PublishInv, Holds
<1>2. published'[file[r]] = None
  BY <1>1 DEF DeleteRow, PublishInv
<1>3. ~Uploading(r)' /\ ~Landed(r)'
  BY <1>1 DEF Uploading, Landed, Answering, IngestSteps, IndexSteps
<1>. QED
  BY <1>1, <1>2, <1>3 DEF RequestOrder, FileOrder

-----------------------------------------------------------------------------
(* Steps of the hub and of the client *)

\* What the hub does for a request, but the row a withdrawal deletes.
Serves(r) == Reply(r) \/ PutLog(r) \/ Ingest(r) \/ DeleteNothing(r) \/ Fail(r)

LEMMA ServedKinds ==
    ASSUME NEW r, Serves(r)
    PROVE  \/ \/ WriteChunk(r) \/ EndOfBody(r) \/ ReadPrevious(r)
              \/ declared[r] = body[r] /\ Inspect(r)
              \/ PutFiles(r) \/ PlanIndex(r) \/ ScanDir(r) \/ WriteIndex(r)
           \/ \/ AbortUpload(r) \/ DropUpload(r) \/ RejectUpload(r)
              \/ RenameMissing(r) \/ ScanUnreadable(r) \/ Reply(r)
              \/ DeleteNothing(r) \/ PutLog(r) \/ Fail(r)
           \/ ClearPrevious(r) \/ Rename(r) \/ Upsert(r) \/ Unlink(r)
BY DEF Serves, Ingest, Verify, Work, Inspect, DeleteRow

LEMMA ServedOrder ==
    ASSUME NEW Age, OnlyForward(Age), PublishInv(Age), Steady(Age),
           ClientTypeOK', UNCHANGED <<declared, local>>, NEW r \in Requests,
           Serves(r)
    PROVE  OwnOrder(Age, r)
BY ServedKinds, QuietOrder, EndOrder, ClearOrder, RenameOrder, UpsertOrder,
   UnlinkOrder

\* A client that waits is served by a request that uploads or answers.
LEMMA WaitedFor ==
    ASSUME NEW Age, PublishInv(Age), NEW r \in Requests, Serves(r),
           Uploading(r) \/ Answering(r), pc'[r] # "idle"
    PROVE  Uploading(r)' \/ Answering(r)'
<1>. USE DEF PublishInv, StagingInv, TypeInv, TypeOK
<1>1. Staging(r) /\ Holds(r)
  OBVIOUS
<1>2. body' = body
  BY StepApart DEF Serves, Ingest, Verify, Receive, Work
<1>3. CASE WriteChunk(r)
  BY <1>2, <1>3 DEF WriteChunk, Uploading, Answering, IngestSteps, IndexSteps
<1>4. CASE \/ EndOfBody(r) \/ ReadPrevious(r) \/ Inspect(r) \/ ClearPrevious(r)
           \/ Rename(r) \/ Upsert(r)
  BY <1>4
     DEF EndOfBody, ReadPrevious, Inspect, ClearPrevious, Rename, Upsert, Goto,
         Uploading, IngestSteps
<1>5. CASE PutFiles(r) \/ PlanIndex(r) \/ ScanDir(r) \/ WriteIndex(r)
  <2>1. /\ pc[r] \in {"files", "plan", "scan", "write"}
        /\ pc'[r] \in IndexSteps \cup {"reply"}
    BY <1>5 DEF PutFiles, PlanIndex, ScanDir, WriteIndex, Goto, IndexSteps
  <2>2. body[r] # None
    BY <1>1, <2>1, ContentsFacts DEF Uploading, Answering, Holds, IngestSteps
  <2>. QED
    BY <1>2, <2>1, <2>2 DEF Answering
<1>6. CASE Unlink(r)
  BY <1>6 DEF Unlink, Uploading, Answering, IngestSteps, IndexSteps
<1>7. CASE \/ AbortUpload(r) \/ DropUpload(r) \/ RejectUpload(r)
           \/ RenameMissing(r) \/ ScanUnreadable(r) \/ Reply(r)
           \/ DeleteNothing(r) \/ PutLog(r) \/ Fail(r)
  BY <1>7
     DEF AbortUpload, DropUpload, RejectUpload, RenameMissing, ScanUnreadable,
         Reply, DeleteNothing, PutLog, Fail, GiveUp, Reject, Finish
<1>. QED
  BY <1>3, <1>4, <1>5, <1>6, <1>7, ServedKinds

\* The answer to an upload is true when the client hears it.
LEMMA AnswerIsTrue ==
    ASSUME NEW Age, PublishInv(Age), NEW r \in Requests, Apart(r, file[r]),
           UNCHANGED <<file, published, disk>>, pc'[r] = "idle",
           Reply(r) \/ PutLog(r), cmd = "await", conn = r,
           NEW f, NEW a, f = cur, a = sum
    PROVE  Kept(f, a)'
<1>1. /\ file[r] = f /\ declared[r] = a /\ f \in Filenames
      /\ Answering(r)
  BY DEF PublishInv, AtHand, Reply, PutLog, Uploading, Answering, IngestSteps,
         IndexSteps
<1>2. Landed(r) /\ pc[r] # "upsert"
  BY <1>1 DEF Landed, Answering, IndexSteps
<1>3. body[r] = a /\ published[f] = [sha |-> a, meta |-> a]
      /\ disk[DirOf[a]][f] = Whole(a)
  <2>1. RequestOrder(Age, r)
    BY DEF PublishInv
  <2>. QED
    BY <1>1, <1>2, <2>1 DEF RequestOrder
<1>4. a \in Archives /\ published[f] # None
  <2>1. a \in Archives
    BY <1>2, <1>3, Compared
  <2>2. [sha |-> a, meta |-> a] \in Rows
    BY <2>1 DEF Rows
  <2>. QED
    BY <1>3, <2>1, <2>2, ContentsFacts
<1>5. Stored(f, a)
  BY <1>3, <1>4 DEF Stored
<1>6. Stored(f, a)'
  BY <1>1, <1>5, SameStored
<1>7. ASSUME NEW q \in Requests, Uploading(q)' PROVE file'[q] # f
  <2>1. q # r /\ Busy(q)
    BY <1>7 DEF Apart, Uploading, IngestSteps, Busy
  <2>. QED
    BY <1>1, <2>1 DEF Apart
<1>. QED
  BY <1>6, <1>7 DEF Kept

LEMMA CallAtHand == AtHand /\ (CallFails \/ CallSucceeds) => AtHand'
BY DEF AtHand, CallFails, CallSucceeds, NextFile

LEMMA WaitAtHand ==
    ASSUME NEW Age, PublishInv(Age), NEW r \in Requests, Apart(r, file[r]),
           UNCHANGED <<file, body, cmd, cur, sum, conn, declared>>,
           cmd = "await" /\ conn = r => Uploading(r)' \/ Answering(r)'
    PROVE  AtHand'
<1>1. cmd = "await" => conn \in Requests
  BY DEF PublishInv, ClientTypeOK, Calls
<1>2. ASSUME cmd = "await", conn # r PROVE Uploading(conn)' \/ Answering(conn)'
  <2>1. pc'[conn] = pc[conn]
    BY <1>1, <1>2 DEF Apart
  <2>2. Uploading(conn) \/ Answering(conn)
    BY <1>2 DEF PublishInv, AtHand
  <2>. QED
    BY <2>1, <2>2 DEF Uploading, Answering, IngestSteps, IndexSteps
<1>3. cmd = "await" => Uploading(conn)' \/ Answering(conn)'
  BY <1>2
<1>4. AtHand
  BY DEF PublishInv
<1>. QED
  BY <1>3, <1>4 DEF AtHand, Uploading, Answering

LEMMA HubStepOrder ==
    ASSUME ~SharedNames, NEW Age, OnlyForward(Age), PublishInv(Age),
           ClientTypeOK', StagingInv', NEW r \in Requests, HubStep(r)
    PROVE  PublishInv(Age)'
<1>. DEFINE f == file[r]
<1>. USE DEF StagingInv
<1>1. Receive(r) \/ Work(r) \/ Fail(r)
  BY DEF HubStep, Withdrawn, Ingest, Verify, Receive, Work
<1>2. /\ Apart(r, f) /\ f \in Filenames /\ UNCHANGED <<file, body>>
  BY <1>1, StepApart DEF PublishInv
<1>3. Withdrawn(r) => Steady(Age) /\ UNCHANGED <<local, declared>>
  BY DEF Withdrawn, Steady, UpTo
<1>4. Steady(Age) /\ UNCHANGED <<local, declared>>
  BY <1>3, CallSteady DEF HubStep
<1>5. /\ \A q \in Requests : q # r => RequestOrder(Age, q)'
      /\ \A g \in Filenames : g # f =>
            FileOrder(Age, g)' /\ \A a : Kept(g, a) => Kept(g, a)'
  BY <1>2, <1>4, ElsewhereStep
<1>6. ~Withdrawn(r) => Serves(r)
  BY DEF HubStep, Serves
<1>7. Serves(r) => OwnOrder(Age, r)
  BY <1>4, ServedOrder
<1>8. RequestOrder(Age, r)' /\ FileOrder(Age, f)'
  <2>1. CASE Withdrawn(r)
    BY <2>1, DeleteOrder DEF Withdrawn
  <2>2. CASE Serves(r)
    BY <1>7, <2>2 DEF OwnOrder
  <2>. QED
    BY <1>6, <2>1, <2>2
<1>9. ASSUME NEW g \in Filenames PROVE FileOrder(Age, g)'
  BY <1>2, <1>5, <1>8, <1>9
<1>10. AtHand'
  <2>1. CASE CallFails \/ CallSucceeds
    BY <2>1, CallAtHand DEF PublishInv
  <2>2. CASE Withdrawn(r)
    <3>1. UNCHANGED <<cmd, cur, sum, conn, declared>> /\ pc[r] = "delete"
      BY <2>2 DEF Withdrawn, DeleteRow
    <3>2. ~(Uploading(r) \/ Answering(r))
      BY <3>1 DEF Uploading, Answering, IngestSteps, IndexSteps
    <3>3. ~(cmd = "await" /\ conn = r)
      BY <3>2 DEF PublishInv, AtHand
    <3>. QED
      BY <1>2, <3>1, <3>3, WaitAtHand
  <2>3. CASE UNCHANGED clientVars /\ Serves(r) /\ (conn = r => pc'[r] # "idle")
    <3>1. UNCHANGED <<cmd, cur, sum, conn, declared>>
      BY <2>3 DEF clientVars
    <3>2. ASSUME cmd = "await", conn = r PROVE Uploading(r)' \/ Answering(r)'
      <4>1. Uploading(r) \/ Answering(r)
        BY <3>2 DEF PublishInv, AtHand
      <4>. QED
        BY <2>3, <3>2, <4>1, WaitedFor
    <3>. QED
      BY <1>2, <3>1, <3>2, WaitAtHand
  <2>. QED
    BY <2>1, <2>2, <2>3 DEF HubStep, Serves
<1>11. ASSUME NEW g \in Filenames, NEW a \in Archives, told'[g] = a
       PROVE  Kept(g, a)'
  <2>1. CASE Withdrawn(r)
    <3>1. told'[f] = None /\ (g # f => told'[g] = told[g])
      BY <1>2, <2>1 DEF Withdrawn, PublishInv, ClientTypeOK
    <3>2. g # f /\ Kept(g, a)
      BY <1>11, <3>1, ContentsFacts DEF PublishInv
    <3>. QED
      BY <1>5, <3>2
  <2>2. CASE ~Withdrawn(r) /\ Serves(r) /\ told[g] = a
    <3>1. Kept(g, a)
      BY <2>2 DEF PublishInv
    <3>2. CASE g # f
      BY <1>5, <3>1, <3>2
    <3>3. CASE g = f
      <4>1. Kept(f, a)'
        BY <1>7, <2>2, <3>1, <3>3 DEF OwnOrder
      <4>. QED
        BY <1>2, <3>3, <4>1
    <3>. QED
      BY <3>2, <3>3
  <2>3. CASE ~Withdrawn(r) /\ told[g] # a
    <3>1. /\ Reply(r) \/ PutLog(r)
          /\ conn = r /\ cmd = "await"
          /\ told' = [told EXCEPT ![cur] = sum]
      <4>1. told' # told
        BY <1>11, <2>3
      <4>2. ~CallFails /\ ~UNCHANGED clientVars
        BY <4>1 DEF CallFails, clientVars
      <4>3. (Reply(r) \/ PutLog(r)) /\ conn = r /\ CallSucceeds
        BY <2>3, <4>2 DEF HubStep
      <4>. QED
        BY <4>1, <4>3 DEF CallSucceeds
    <3>2. g = cur /\ a = sum
      BY <1>11, <2>3, <3>1 DEF PublishInv, ClientTypeOK
    <3>3. pc'[r] = "idle" /\ UNCHANGED <<published, disk>>
      BY <1>4, <3>1, EndOrder
    <3>. QED
      BY <1>2, <3>1, <3>2, <3>3, AnswerIsTrue
  <2>. QED
    BY <1>6, <2>1, <2>2, <2>3
<1>12. \A q \in Requests : RequestOrder(Age, q)'
  BY <1>5, <1>8
<1>. QED
  BY <1>9, <1>10, <1>11, <1>12 DEF PublishInv

\* What a client's request begins with: the newest archive the builder has.
LEMMA BeginOrder ==
    ASSUME ~SharedNames, NEW Age, OnlyForward(Age), PublishInv(Age),
           ClientTypeOK', StagingInv', NEW r \in Requests, NEW f \in Filenames,
           \/ (Post(r) \/ AttachLog(r)) /\ f = cur
           \/ Withdraw(r, f)
    PROVE  PublishInv(Age)'
<1>. USE DEF StagingInv, TypeInv, TypeOK, ClientTypeOK
<1>1. \/ StartPublish(r, f, local[f]) \/ StartLog(r, f, local[f])
      \/ StartUnpublish(r, f)
  BY DEF Post, AttachLog, Withdraw
<1>2. local[f] \in Archives
  BY DEF PublishInv
<1>3. Apart(r, f) /\ file'[r] = f
  BY <1>1, <1>2, BeginApart DEF PublishInv
<1>4. /\ UNCHANGED <<published, disk, local>>
      /\ \A q \in Requests : q # r => declared'[q] = declared[q]
      /\ cmd' # "probe"
  BY DEF Post, AttachLog, Withdraw, StartPublish, StartLog, StartUnpublish, dbVars,
         fsVars, PublishInv
<1>5. Steady(Age)
  BY <1>4 DEF Steady, UpTo
<1>. HIDE DEF StagingInv, TypeInv, TypeOK, ClientTypeOK
<1>6. /\ \A q \in Requests : q # r => RequestOrder(Age, q)'
      /\ \A g \in Filenames : g # f =>
            FileOrder(Age, g)' /\ \A a : Kept(g, a) => Kept(g, a)'
  BY <1>3, <1>4, <1>5, ElsewhereStep
<1>7. FileOrder(Age, f)'
  BY <1>4, <1>5, SameFileOrder
<1>8. CASE Post(r) /\ f = cur
  <2>1. /\ pc'[r] = "upload" /\ body'[r] = local[f] /\ cmd' = "await"
        /\ declared'[r] = sum /\ conn' = r /\ told' = [told EXCEPT ![f] = None]
        /\ UNCHANGED <<cur, sum>> /\ cmd = "post"
    BY <1>8
       DEF Post, StartPublish, Goto, PublishInv, StagingInv, TypeInv, TypeOK,
           ClientTypeOK
  <2>2. Uploading(r)' /\ ~Landed(r)'
    BY <2>1 DEF Uploading, Landed, Answering, IngestSteps, IndexSteps
  <2>3. published[f] # None => UpTo(Age, published[f].sha, local[f])
    BY DEF PublishInv, FileOrder
  <2>4. RequestOrder(Age, r)'
    BY <1>3, <1>4, <2>1, <2>2, <2>3 DEF RequestOrder, UpTo
  <2>5. AtHand'
    BY <1>3, <1>8, <2>1, <2>2 DEF PublishInv, AtHand
  <2>6. ASSUME NEW g \in Filenames, NEW a \in Archives, told'[g] = a
        PROVE  Kept(g, a)'
    <3>1. g # f /\ told[g] = a
      BY <2>1, <2>6, ContentsFacts DEF PublishInv, ClientTypeOK
    <3>. QED
      BY <1>6, <3>1 DEF PublishInv
  <2>. QED
    BY <1>6, <1>7, <2>4, <2>5, <2>6 DEF PublishInv
<1>9. CASE (AttachLog(r) /\ f = cur) \/ Withdraw(r, f)
  <2>1. /\ pc'[r] \in {"log", "delete"} /\ cmd' \in {"attach", "withdraw"}
        /\ cmd' = "attach" => cmd = "log"
        /\ UNCHANGED <<cur, sum, told>>
    BY <1>9
       DEF AttachLog, Withdraw, StartLog, StartUnpublish, Goto, PublishInv,
           StagingInv, TypeInv, TypeOK
  <2>2. ~Uploading(r)' /\ ~Landed(r)'
    BY <2>1 DEF Uploading, Landed, Answering, IngestSteps, IndexSteps
  <2>3. RequestOrder(Age, r)'
    BY <2>1, <2>2 DEF RequestOrder
  <2>4. AtHand'
    BY <2>1 DEF PublishInv, AtHand
  <2>5. ASSUME NEW a, Kept(f, a) PROVE Kept(f, a)'
    <3>1. Stored(f, a)'
      BY <1>4, <2>5, SameStored DEF Kept
    <3>2. ASSUME NEW q \in Requests, Uploading(q)' PROVE file'[q] # f
      <4>1. q # r /\ Busy(q)
        BY <2>2, <3>2, <1>3 DEF Apart, Uploading, IngestSteps, Busy
      <4>. QED
        BY <1>3, <4>1 DEF Apart
    <3>. QED
      BY <3>1, <3>2 DEF Kept
  <2>6. \A g \in Filenames : \A a \in Archives : told'[g] = a => Kept(g, a)'
    BY <1>6, <2>1, <2>5 DEF PublishInv
  <2>. QED
    BY <1>6, <1>7, <2>3, <2>4, <2>6 DEF PublishInv
<1>. QED
  BY <1>8, <1>9

\* A stop drops the requests and the connection; rows and archives stay.
LEMMA StopOrder ==
    ASSUME NEW Age, OnlyForward(Age), PublishInv(Age), ClientTypeOK', StagingInv',
           HubCrash
    PROVE  PublishInv(Age)'
<1>1. /\ UNCHANGED <<published, disk>>
      /\ \A q \in Requests : pc'[q] = "idle"
  BY DEF HubCrash, Crash, dbVars, fsVars
<1>2. CallFails \/ (conn = None /\ UNCHANGED clientVars)
  BY DEF HubCrash
<1>3. Steady(Age) /\ UNCHANGED <<local, declared, told>>
  <2>1. Steady(Age) /\ UNCHANGED <<local, declared>>
    BY <1>2, CallSteady
  <2>2. UNCHANGED told
    BY <1>2 DEF CallFails, clientVars
  <2>. QED
    BY <2>1, <2>2
<1>4. \A q \in Requests : ~Uploading(q)' /\ ~Landed(q)'
  BY <1>1 DEF Uploading, Landed, Answering, IngestSteps, IndexSteps
<1>5. \A q \in Requests : RequestOrder(Age, q)'
  BY <1>1, <1>4 DEF RequestOrder
<1>6. \A f \in Filenames : FileOrder(Age, f)'
  BY <1>1, <1>3, SameFileOrder
<1>7. ASSUME NEW f \in Filenames, NEW a \in Archives, told'[f] = a
      PROVE  Kept(f, a)'
  <2>1. Kept(f, a)
    BY <1>3, <1>7 DEF PublishInv
  <2>2. Stored(f, a)'
    BY <1>1, <2>1, SameStored DEF Kept
  <2>. QED
    BY <1>4, <2>2 DEF Kept
<1>8. AtHand'
  <2>1. CASE CallFails
    BY <2>1, CallAtHand DEF PublishInv
  <2>2. CASE conn = None /\ UNCHANGED clientVars
    <3>1. cmd # "await"
      BY <2>2 DEF PublishInv, ClientTypeOK, Calls
    <3>. QED
      BY <2>2, <3>1 DEF PublishInv, AtHand, clientVars
  <2>. QED
    BY <1>2, <2>1, <2>2
<1>. QED
  BY <1>5, <1>6, <1>7, <1>8 DEF PublishInv

\* An archive the client finds at the hub is stored there.
LEMMA PresentIsKept ==
    ASSUME NEW Age, OnlyForward(Age), PublishInv(Age), Present,
           NEW f, NEW a, f = cur, a = sum
    PROVE  Kept(f, a)
<1>1. /\ cmd = "probe" /\ published[f] # None /\ published[f].sha = a
      /\ f \in Filenames /\ a \in Archives
  BY DEF Present, PublishInv, AtHand
<1>2. ~(Age[a] < Age[a])
  <2>1. Age[a] \in Nat
    BY <1>1 DEF OnlyForward
  <2>. QED
    BY <2>1
<1>3. FileOrder(Age, f)
  BY <1>1 DEF PublishInv
<1>4. Stored(f, a)
  BY <1>1, <1>2, <1>3 DEF FileOrder
<1>5. ASSUME NEW q \in Requests, Uploading(q), file[q] = f, declared[q] = body[q]
      PROVE  body[q] = a
  <2>1. RequestOrder(Age, q) /\ body[q] \in Archives
    BY <1>5, Compared DEF PublishInv
  <2>2. UpTo(Age, a, body[q]) /\ UpTo(Age, body[q], a)
    BY <1>1, <1>5, <2>1 DEF RequestOrder
  <2>. QED
    BY <1>1, <2>1, <2>2, UpToFacts
<1>. QED
  BY <1>4, <1>5 DEF Kept

LEMMA ClientStepOrder ==
    ASSUME NEW Age, OnlyForward(Age), PublishInv(Age), ClientTypeOK', StagingInv',
           \/ Publish \/ Present \/ Absent \/ NoLog \/ Break \/ Calm
           \/ UNCHANGED allVars
           \/ \E f \in Filenames : Hash(f) \/ Build(f)
    PROVE  PublishInv(Age)'
<1>. USE DEF ClientTypeOK
<1>1. UNCHANGED <<vars, declared>>
  BY DEF Publish, Present, Absent, NoLog, Break, Calm, Hash, Build, CallFails,
         allVars, clientVars
<1>2. Steady(Age)
  <2>1. CASE \/ Publish \/ Present \/ Absent \/ NoLog \/ Calm \/ UNCHANGED allVars
    BY <2>1
       DEF Publish, Present, Absent, NoLog, Calm, allVars, clientVars, NextFile,
           Steady, UpTo
  <2>2. CASE Break
    BY <2>2, CallSteady DEF Break
  <2>3. ASSUME NEW f \in Filenames, Hash(f) PROVE Steady(Age)
    BY <2>3 DEF Hash, Steady, UpTo
  <2>4. ASSUME NEW f \in Filenames, Build(f) PROVE Steady(Age)
    <3>1. PICK b \in BuiltAfter[local[f]] : local' = [local EXCEPT ![f] = b]
      BY <2>4 DEF Build
    <3>2. local[f] \in Archives /\ Age[local[f]] < Age[b]
      BY <3>1 DEF PublishInv, OnlyForward
    <3>3. \A g \in Filenames : UpTo(Age, local[g], local'[g])
      BY <3>1, <3>2 DEF PublishInv, UpTo
    <3>. QED
      BY <2>4, <3>3 DEF Build, Steady
  <2>. QED
    BY <2>1, <2>2, <2>3, <2>4
<1>3. /\ \A r \in Requests : RequestOrder(Age, r)'
      /\ \A f \in Filenames :
            FileOrder(Age, f)' /\ \A a : Kept(f, a) => Kept(f, a)'
  BY <1>1, <1>2, ClientSideStep
<1>4. AtHand'
  <2>1. CASE Break
    BY <2>1, CallAtHand DEF Break, PublishInv
  <2>2. CASE Publish \/ Present \/ NoLog
    BY <2>2 DEF Publish, Present, NoLog, NextFile, AtHand
  <2>3. CASE Absent
    BY <2>3 DEF Absent, AtHand, PublishInv
  <2>4. CASE UNCHANGED <<vars, cmd, cur, sum, conn, declared>>
    BY <2>4
       DEF vars, AtHand, PublishInv, Uploading, Answering, IngestSteps, IndexSteps
  <2>5. ASSUME NEW f \in Filenames, Hash(f) PROVE AtHand'
    BY <2>5 DEF Hash, AtHand, PublishInv
  <2>. QED
    BY <2>1, <2>2, <2>3, <2>4, <2>5 DEF Calm, Build, allVars, clientVars
<1>5. ASSUME NEW f \in Filenames, NEW a \in Archives, told'[f] = a
      PROVE  Kept(f, a)'
  <2>1. CASE told[f] = a
    BY <1>3, <2>1 DEF PublishInv
  <2>2. CASE told[f] # a
    <3>1. told' # told
      BY <1>5, <2>2
    <3>2. Present
      BY <3>1
         DEF Publish, Absent, NoLog, Break, Calm, Hash, Build, CallFails, allVars,
             clientVars
    <3>3. f = cur /\ a = sum
      BY <1>5, <2>2, <3>2 DEF Present, PublishInv
    <3>4. Kept(f, a)
      BY <3>2, <3>3, PresentIsKept
    <3>. QED
      BY <1>3, <3>4
  <2>. QED
    BY <2>1, <2>2
<1>. QED
  BY <1>3, <1>4, <1>5 DEF PublishInv

LEMMA PublishNext ==
    ASSUME ~SharedNames, NEW Age, OnlyForward(Age), PublishInv(Age),
           [ClientNext]_allVars
    PROVE  PublishInv(Age)'
<1>1. ClientTypeOK'
  BY ClientTypesNext DEF PublishInv
<1>2. StagingInv'
  BY HubNext, StagingNext DEF PublishInv
<1>3. CASE \/ Publish \/ Present \/ Absent \/ NoLog \/ Break \/ Calm
           \/ UNCHANGED allVars
           \/ \E f \in Filenames : Hash(f) \/ Build(f)
  BY <1>1, <1>2, <1>3, ClientStepOrder
<1>4. ASSUME NEW r \in Requests, Post(r) \/ AttachLog(r) PROVE PublishInv(Age)'
  <2>1. cur \in Filenames
    BY <1>4 DEF Post, AttachLog, PublishInv, AtHand
  <2>. QED
    BY <1>1, <1>2, <1>4, <2>1, BeginOrder
<1>5. ASSUME NEW r \in Requests, NEW f \in Filenames, Withdraw(r, f)
      PROVE  PublishInv(Age)'
  BY <1>1, <1>2, <1>5, BeginOrder
<1>6. ASSUME NEW r \in Requests, HubStep(r) PROVE PublishInv(Age)'
  BY <1>1, <1>2, <1>6, HubStepOrder
<1>7. CASE HubCrash
  BY <1>1, <1>2, <1>7, StopOrder
<1>. QED
  BY <1>3, <1>4, <1>5, <1>6, <1>7 DEF ClientNext, Client

\* What a publish command reports as uploaded or as already published is in the
\* repository, byte for byte, and stays there: whatever fails, is cut off or is
\* built meanwhile, as long as running requests name different files and the
\* builder never goes back to an earlier build.
THEOREM ReportIsTrue ==
    ASSUME ~SharedNames, NEW Age, OnlyForward(Age)
    PROVE  ClientSpec => []ToldIsStored
<1>1. ClientInit => PublishInv(Age)
  BY PublishInit
<1>2. PublishInv(Age) /\ [ClientNext]_allVars => PublishInv(Age)'
  BY PublishNext
<1>3. PublishInv(Age) => ToldIsStored
  <2>. SUFFICES ASSUME PublishInv(Age), NEW f \in Filenames, told[f] # None
                PROVE  Stored(f, told[f])
    BY DEF ToldIsStored
  <2>1. told[f] \in Archives
    BY DEF PublishInv, ClientTypeOK
  <2>. QED
    BY <2>1 DEF PublishInv, Kept
<1>. QED
  BY <1>1, <1>2, <1>3, PTL DEF ClientSpec
=============================================================================
