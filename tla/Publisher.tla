----------------------------- MODULE Publisher -----------------------------
(***************************************************************************)
(* A builder with the command line client, beside the repository. The      *)
(* client asks for the hash the hub has of each of its archives, uploads   *)
(* the ones the hub does not have and attaches their build logs; it can    *)
(* also withdraw a file. The builder may build while the client runs, and  *)
(* a connection may break at any time: the client then ends, while what    *)
(* the hub has been given goes on. Trouble of every kind may end for good  *)
(* at a moment nobody knows (calm).                                        *)
(***************************************************************************)
EXTENDS Repository

CONSTANTS
    BuiltAfter,  \* BuiltAfter[a]: the archives a rebuild may replace a by
    MayBreak     \* may connections break and commands be interrupted?

ASSUME PublisherAssumption ==
    /\ BuiltAfter \in [Archives -> SUBSET Archives]
    /\ MayBreak \in BOOLEAN
    /\ None \notin Filenames \cup Requests

VARIABLES
    local,     \* filename -> the archive the builder has of that name
    cmd,       \* where the command of the client is
    left,      \* files the command has still to deal with
    cur, sum,  \* the file at hand, and the hash taken of it
    conn,      \* the request that serves the call under way
    declared,  \* per request: the hash its client announced
    told,      \* filename -> archive reported as published, until the
               \* builder uploads another or its withdrawal takes effect
    calm       \* trouble has ended

clientVars == <<local, cmd, left, cur, sum, conn, declared, told, calm>>
allVars == <<vars, clientVars>>

Calls == {"await", "attach", "withdraw"}
Commands == {"off", "hash", "probe", "post", "log"} \cup Calls

ClientTypeOK ==
    /\ local \in [Filenames -> Archives]
    /\ cmd \in Commands
    /\ left \subseteq Filenames
    /\ cur \in Filenames \cup {None} /\ sum \in Archives \cup {None}
    /\ conn \in Requests \cup {None} /\ (conn # None <=> cmd \in Calls)
    /\ declared \in [Requests -> Archives \cup {None}]
    /\ told \in [Filenames -> Archives \cup {None}]
    /\ calm \in BOOLEAN

ClientInit ==
    /\ Init
    /\ local \in [Filenames -> Archives]
    /\ cmd = "off" /\ left = {} /\ cur = None /\ sum = None /\ conn = None
    /\ declared = [r \in Requests |-> None]
    /\ told = [f \in Filenames |-> None]
    /\ calm = FALSE

-----------------------------------------------------------------------------
(* The builder and the commands: bin/recipedia.rs *)

Build(f) ==
    /\ \E a \in BuiltAfter[local[f]] : local' = [local EXCEPT ![f] = a]
    /\ UNCHANGED <<vars, cmd, left, cur, sum, conn, declared, told, calm>>

\* The files of the directory, in the order of their names; symmetric here.
Publish ==
    /\ cmd = "off"
    /\ cmd' = "hash"
    /\ left' = Filenames
    /\ UNCHANGED <<vars, local, cur, sum, conn, declared, told, calm>>

Hash(f) ==
    /\ cmd = "hash"
    /\ f \in left
    /\ cur' = f /\ sum' = local[f]
    /\ cmd' = "probe"
    /\ UNCHANGED <<vars, local, left, conn, declared, told, calm>>

\* The command is done with the file at hand.
NextFile ==
    /\ left' = left \ {cur}
    /\ cmd' = IF left = {cur} THEN "off" ELSE "hash"
    /\ cur' = None /\ sum' = None

\* Mutant of Present: any published file of the name will do.
PresentByName ==
    /\ cmd = "probe"
    /\ published[cur] # None
    /\ told' = [told EXCEPT ![cur] = sum]
    /\ NextFile
    /\ UNCHANGED <<vars, local, conn, declared, calm>>

\* The ETag is the hash at hand: "already published".
Present ==
    /\ cmd = "probe"
    /\ published[cur] # None /\ published[cur].sha = sum
    /\ told' = [told EXCEPT ![cur] = sum]
    /\ NextFile
    /\ UNCHANGED <<vars, local, conn, declared, calm>>

\* Any other answer, an error included, means that the file is uploaded.
Absent ==
    /\ cmd = "probe"
    /\ \/ published[cur] = None
       \/ published[cur] # None /\ published[cur].sha # sum
       \/ ~calm /\ (Faults \/ MayBreak)
    /\ cmd' = "post"
    /\ UNCHANGED <<vars, local, left, cur, sum, conn, declared, told, calm>>

\* The file is opened again for the upload; the hash is the one taken before.
Post(r) ==
    /\ cmd = "post"
    /\ StartPublish(r, cur, local[cur])
    /\ declared' = [declared EXCEPT ![r] = sum]
    /\ told' = [told EXCEPT ![cur] = None]
    /\ conn' = r
    /\ cmd' = "await"
    /\ UNCHANGED <<local, left, cur, sum, calm>>

\* attach_build_log reads the log that lies beside the archive by then.
AttachLog(r) ==
    /\ cmd = "log"
    /\ StartLog(r, cur, local[cur])
    /\ conn' = r
    /\ cmd' = "attach"
    /\ UNCHANGED <<local, left, cur, sum, declared, told, calm>>

\* There is no log, it is too long, or the upload is refused.
NoLog ==
    /\ cmd = "log"
    /\ NextFile
    /\ UNCHANGED <<vars, local, conn, declared, told, calm>>

Withdraw(r, f) ==
    /\ cmd = "off"
    /\ StartUnpublish(r, f)
    /\ conn' = r
    /\ cmd' = "withdraw"
    /\ UNCHANGED <<local, left, cur, sum, declared, told, calm>>

-----------------------------------------------------------------------------
(* The hub, with a client that waits or has gone *)

\* Mutant of CallFails: a command that ends holds on to its connection.
CallFailsConnected ==
    /\ \/ cmd = "attach" /\ NextFile
       \/ /\ cmd \in {"await", "withdraw"}
          /\ cmd' = "off" /\ left' = {} /\ cur' = None /\ sum' = None
    /\ UNCHANGED <<local, conn, declared, told, calm>>

\* A failed upload or withdrawal ends the command; a failed log does not.
CallFails ==
    /\ conn' = None
    /\ \/ cmd = "attach" /\ NextFile
       \/ /\ cmd \in {"await", "withdraw"}
          /\ cmd' = "off" /\ left' = {} /\ cur' = None /\ sum' = None
    /\ UNCHANGED <<local, declared, told, calm>>

CallSucceeds ==
    /\ conn' = None
    /\ \/ /\ cmd = "await" /\ cmd' = "log"
          /\ told' = [told EXCEPT ![cur] = sum]
          /\ UNCHANGED <<left, cur, sum>>
       \/ cmd = "attach" /\ NextFile /\ UNCHANGED told
       \/ cmd = "withdraw" /\ cmd' = "off" /\ UNCHANGED <<left, cur, sum, told>>
    /\ UNCHANGED <<local, declared, calm>>

\* Mutant of Verify: the announced hash is ignored.
VerifyNothing(r) ==
    /\ pc[r] = "inspect"
    /\ \/ Inspect(r)
       \/ staged[file[r]] # Whole(body[r]) /\ RejectUpload(r)

\* The first thing ingest does is to compare the announced hash with the one
\* computed. The builder's archives are packages Sage can read.
Verify(r) ==
    /\ pc[r] = "inspect"
    /\ \/ declared[r] = body[r] /\ Inspect(r)
       \/ /\ declared[r] # body[r] \/ staged[file[r]] # Whole(body[r])
          /\ RejectUpload(r)

\* A client that waits sends its whole body; in calm times its last piece is
\* in the file when ingest starts.
Ingest(r) ==
    \/ WriteChunk(r) \/ Verify(r)
    \/ EndOfBody(r) /\ (calm => fd[r] = None)
    \/ AbortUpload(r) /\ (conn # r \/ (Faults /\ ~calm))
    \/ DropUpload(r) /\ conn # r
    \/ Work(r) /\ pc[r] \notin {"inspect", "delete", "reply", "log"}

\* A withdrawal takes effect, the client may be there or gone.
Withdrawn(r) ==
    /\ DeleteRow(r)
    /\ told' = [told EXCEPT ![file[r]] = None]
    /\ UNCHANGED <<local, cmd, left, cur, sum, conn, declared, calm>>

HubStep(r) ==
    \/ Withdrawn(r)
    \/ /\ Reply(r) \/ PutLog(r)
       /\ IF conn = r THEN CallSucceeds ELSE UNCHANGED clientVars
    \/ /\ Ingest(r) \/ DeleteNothing(r) \/ (~calm /\ Fail(r))
       /\ IF conn = r /\ pc'[r] = "idle" THEN CallFails ELSE UNCHANGED clientVars

HubCrash ==
    /\ ~calm
    /\ Crash
    /\ IF conn = None THEN UNCHANGED clientVars ELSE CallFails

\* The connection breaks or the command is interrupted.
Break ==
    /\ MayBreak /\ ~calm
    /\ conn # None
    /\ CallFails
    /\ UNCHANGED vars

Calm ==
    /\ ~calm
    /\ calm' = TRUE
    /\ UNCHANGED <<vars, local, cmd, left, cur, sum, conn, declared, told>>

-----------------------------------------------------------------------------
Client ==
    \/ Publish \/ Present \/ Absent \/ NoLog
    \/ \E f \in Filenames : Hash(f)
    \/ \E r \in Requests : Post(r) \/ AttachLog(r)

ClientNext ==
    \/ Client
    \/ \E f \in Filenames : Build(f) \/ \E r \in Requests : Withdraw(r, f)
    \/ \E r \in Requests : HubStep(r)
    \/ HubCrash \/ Break \/ Calm

ClientSpec == ClientInit /\ [][ClientNext]_allVars

\* The builder runs the command again and again; the hub goes on with what it
\* has been given.
FairClientSpec ==
    ClientSpec /\ WF_allVars(Client) /\ \A r \in Requests : WF_allVars(HubStep(r))

-----------------------------------------------------------------------------
(* Properties *)

Stored(f, a) ==
    /\ published[f] # None /\ published[f].sha = a
    /\ disk[DirOf[published[f].meta]][f] = Whole(a)

\* What a publish command reports as uploaded or as already published is in
\* the repository, byte for byte, when the command goes on and when it ends.
ToldIsStored ==
    \A f \in Filenames : told[f] # None => Stored(f, told[f])

\* "Server ETag is the stored sha256; matching means it already has this exact
\* file" (recipedia.rs): an archive the client skips is stored.
SkippedIsStored == [][Present => Stored(cur, sum)]_allVars

\* A builder that keeps running the command gets its archive published once
\* trouble ends, whatever interrupted and failed commands left behind.
GetsThrough ==
    \A f \in Filenames, a \in Archives :
        <>[](calm /\ local[f] = a /\ cmd # "withdraw") => <>[]Stored(f, a)
=============================================================================
