----------------------------- MODULE RecipeSync -----------------------------
(***************************************************************************)
(* How the hub follows the recipe repository: the boot sync, the poll loop *)
(* and the webhook each run the same synchronization on a thread of the    *)
(* blocking pool, over one git mirror and one database. The atomic flag    *)
(* `syncing` is what keeps two of them apart.                              *)
(*                                                                         *)
(* A commit is its number on the remote branch. The work tree is kept file *)
(* by file, because a sync reads it while nothing but the flag stops       *)
(* another one from resetting it.                                          *)
(***************************************************************************)
EXTENDS Naturals, FiniteSets

CONSTANTS
    Hooks,         \* webhook deliveries that may be running
    Paths,         \* recipe files of the source tree
    MaxCommit,     \* bound: commits pushed to the remote
    Bad,           \* commits whose recipes do not load
    BootOverlaps,  \* may a trigger arrive while the boot sync runs?
    MayCancel,     \* may a webhook client go away before the answer?
    MaxFaults,     \* bound: failed calls and restarts
    None

Boot == "boot"
Poll == "poll"
Triggers == {Poll} \cup Hooks
Workers == {Boot} \cup Triggers
Commits == 1 .. MaxCommit

ASSUME ConstantsAssumption ==
    /\ MaxCommit \in Nat \ {0}
    /\ Bad \subseteq Commits
    /\ BootOverlaps \in BOOLEAN /\ MayCancel \in BOOLEAN
    /\ MaxFaults \in Nat
    /\ Boot \notin Triggers /\ Poll \notin Hooks
    /\ None \notin Commits
    /\ None \notin [src : [Paths -> Commits], label : Commits]

VARIABLES
    head,          \* the remote branch
    origin, tree, checkout,  \* mirror: remote-tracking ref, files, HEAD
    syncing,       \* AppState.syncing
    awaited,       \* per worker: a handler waits to clear the flag
    poll, stored,  \* the poll loop: where it is, the commit it compares
    pc, prev, commit, changed, todo, records,  \* per worker: sync_inner
    catalog,       \* LMDB recipes: the commit of each file, and git_commit
    lastCommit, lastArches,  \* LMDB meta
    logged,        \* commits the sync log reports as synced
    faults

mirrorVars == <<origin, tree, checkout>>
handlerVars == <<syncing, awaited, poll, stored>>
localVars == <<prev, commit, changed, todo, records>>
dbVars == <<catalog, lastCommit, lastArches, logged>>
vars == <<head, origin, tree, checkout, syncing, awaited, poll, stored, pc,
          prev, commit, changed, todo, records, catalog, lastCommit,
          lastArches, logged, faults>>

SyncSteps == {"previous", "fetch", "reset", "head", "collect", "rebuild",
              "last", "arches", "log"}
Catalogs == [src : [Paths -> Commits], label : Commits]

TypeOK ==
    /\ head \in Commits
    /\ origin \in Commits \cup {None} /\ checkout \in Commits \cup {None}
    /\ tree \in [Paths -> Commits \cup {None}]
    /\ syncing \in BOOLEAN /\ awaited \in [Workers -> BOOLEAN]
    /\ poll \in {"wait", "read", "probe", "sync"} /\ stored \in Commits \cup {None}
    /\ pc \in [Workers -> SyncSteps \cup {"idle", "done"}]
    /\ prev \in [Workers -> Commits \cup {None}]
    /\ commit \in [Workers -> Commits \cup {None}]
    /\ changed \in [Workers -> SUBSET Commits]
    /\ todo \in [Workers -> SUBSET Paths]
    /\ records \in [Workers -> [Paths -> Commits \cup {None}]]
    /\ catalog \in Catalogs \cup {None}
    /\ lastCommit \in Commits \cup {None} /\ lastArches \subseteq Commits
    /\ logged \subseteq Commits
    /\ faults \in 0 .. MaxFaults

NoRecords == [p \in Paths |-> None]

\* What a start of the process sets up: the boot sync is spawned, the flag is
\* down, the poll loop waits for its first real tick.
Started ==
    [pc |-> [w \in Workers |-> IF w = Boot THEN "previous" ELSE "idle"],
     awaited |-> [w \in Workers |-> FALSE],
     prev |-> [w \in Workers |-> None],
     commit |-> [w \in Workers |-> None],
     changed |-> [w \in Workers |-> {}],
     todo |-> [w \in Workers |-> {}],
     records |-> [w \in Workers |-> NoRecords]]

Init ==
    /\ head = 1
    /\ origin = None /\ checkout = None /\ tree = [p \in Paths |-> None]
    /\ syncing = FALSE /\ awaited = Started.awaited
    /\ poll = "wait" /\ stored = None
    /\ pc = Started.pc
    /\ prev = Started.prev /\ commit = Started.commit
    /\ changed = Started.changed
    /\ todo = Started.todo /\ records = Started.records
    /\ catalog = None /\ lastCommit = None /\ lastArches = {} /\ logged = {}
    /\ faults = 0

Goto(w, step) == pc' = [pc EXCEPT ![w] = step]

Push ==
    /\ head < MaxCommit
    /\ head' = head + 1
    /\ UNCHANGED <<mirrorVars, handlerVars, pc, localVars, dbVars, faults>>

-----------------------------------------------------------------------------
(* sync::run_sync on the blocking pool *)

\* The sync returns; a handler still waiting has to clear the flag.
EndSync(w) ==
    /\ Goto(w, IF awaited[w] THEN "done" ELSE "idle")
    /\ prev' = [prev EXCEPT ![w] = None]
    /\ commit' = [commit EXCEPT ![w] = None]
    /\ changed' = [changed EXCEPT ![w] = {}]
    /\ todo' = [todo EXCEPT ![w] = {}]
    /\ records' = [records EXCEPT ![w] = NoRecords]

ReadPrevious(w) ==
    /\ pc[w] = "previous"
    /\ prev' = [prev EXCEPT ![w] = lastCommit]
    /\ Goto(w, "fetch")
    /\ UNCHANGED <<head, mirrorVars, handlerVars, commit, changed, todo,
                   records, dbVars, faults>>

\* git clone the first time, git fetch afterwards.
Clone(w) ==
    /\ pc[w] = "fetch"
    /\ origin = None
    /\ origin' = head /\ checkout' = head
    /\ tree' = [p \in Paths |-> head]
    /\ Goto(w, "head")
    /\ UNCHANGED <<head, handlerVars, localVars, dbVars, faults>>

Fetch(w) ==
    /\ pc[w] = "fetch"
    /\ origin # None
    /\ origin' = head
    /\ Goto(w, "reset")
    /\ UNCHANGED <<head, tree, checkout, handlerVars, localVars, dbVars,
                   faults>>

Reset(w) ==
    /\ pc[w] = "reset"
    /\ checkout' = origin
    /\ tree' = [p \in Paths |-> origin]
    /\ Goto(w, "head")
    /\ UNCHANGED <<head, origin, handlerVars, localVars, dbVars, faults>>

\* The commits whose changes are reported: the diff of two commits, or all of
\* the tree when there is no previous one.
Changed(before, now) ==
    IF before = None THEN 1 .. now
    ELSE (before + 1 .. now) \cup (now + 1 .. before)

\* Mutant of RevParse: the table is cleared in a transaction of its own.
RevParseClears(w) ==
    /\ pc[w] = "head"
    /\ commit' = [commit EXCEPT ![w] = checkout]
    /\ changed' = [changed EXCEPT ![w] = Changed(prev[w], checkout)]
    /\ todo' = [todo EXCEPT ![w] = Paths]
    /\ Goto(w, "collect")
    /\ catalog' = None
    /\ UNCHANGED <<head, mirrorVars, handlerVars, prev, records, lastCommit,
                   lastArches, logged, faults>>

\* rev-parse HEAD, and the diff between two fixed commits.
RevParse(w) ==
    /\ pc[w] = "head"
    /\ commit' = [commit EXCEPT ![w] = checkout]
    /\ changed' = [changed EXCEPT ![w] = Changed(prev[w], checkout)]
    /\ todo' = [todo EXCEPT ![w] = Paths]
    /\ Goto(w, "collect")
    /\ UNCHANGED <<head, mirrorVars, handlerVars, prev, records, dbVars,
                   faults>>

\* Mutant of Collect: the walk ends at the first recipe.
CollectFirst(w) ==
    /\ pc[w] = "collect"
    /\ \E p \in todo[w] :
        /\ tree[p] \notin Bad
        /\ records' = [records EXCEPT ![w][p] = tree[p]]
    /\ todo' = [todo EXCEPT ![w] = {}]
    /\ Goto(w, "rebuild")
    /\ UNCHANGED <<head, mirrorVars, handlerVars, prev, commit, changed,
                   dbVars, faults>>

\* collect_recipes loads the files one after the other from the work tree, in
\* the order the directories list them.
Collect(w) ==
    /\ pc[w] = "collect"
    /\ \E p \in todo[w] :
        /\ tree[p] \notin Bad
        /\ records' = [records EXCEPT ![w][p] = tree[p]]
        /\ todo' = [todo EXCEPT ![w] = @ \ {p}]
        /\ Goto(w, IF todo[w] = {p} THEN "rebuild" ELSE "collect")
    /\ UNCHANGED <<head, mirrorVars, handlerVars, prev, commit, changed,
                   dbVars, faults>>

\* Mutants of CollectBad: a commit that does not load is noted as synced, so
\* that the poll loop does not try it again; the failure is logged as a success.
CollectBadNoted(w) ==
    /\ pc[w] = "collect"
    /\ \E p \in todo[w] : tree[p] \in Bad
    /\ lastCommit' = commit[w]
    /\ EndSync(w)
    /\ UNCHANGED <<head, mirrorVars, handlerVars, catalog, lastArches, logged,
                   faults>>

CollectBadLogged(w) ==
    /\ pc[w] = "collect"
    /\ \E p \in todo[w] : tree[p] \in Bad
    /\ logged' = logged \cup {commit[w]}
    /\ EndSync(w)
    /\ UNCHANGED <<head, mirrorVars, handlerVars, catalog, lastCommit,
                   lastArches, faults>>

\* One recipe that does not load fails the whole sync.
CollectBad(w) ==
    /\ pc[w] = "collect"
    /\ \E p \in todo[w] : tree[p] \in Bad
    /\ EndSync(w)
    /\ UNCHANGED <<head, mirrorVars, handlerVars, dbVars, faults>>

\* One transaction clears the table and stores the records, all of them
\* stamped with the commit read before.
Rebuild(w) ==
    /\ pc[w] = "rebuild"
    /\ catalog' = [src |-> records[w], label |-> commit[w]]
    /\ Goto(w, "last")
    /\ UNCHANGED <<head, mirrorVars, handlerVars, localVars, lastCommit,
                   lastArches, logged, faults>>

\* Mutant of SetLastCommit: what ls-remote says now is stored.
SetLastToRemote(w) ==
    /\ pc[w] = "last"
    /\ lastCommit' = head
    /\ Goto(w, "arches")
    /\ UNCHANGED <<head, mirrorVars, handlerVars, localVars, catalog,
                   lastArches, logged, faults>>

SetLastCommit(w) ==
    /\ pc[w] = "last"
    /\ lastCommit' = commit[w]
    /\ Goto(w, "arches")
    /\ UNCHANGED <<head, mirrorVars, handlerVars, localVars, catalog,
                   lastArches, logged, faults>>

SetLastArches(w) ==
    /\ pc[w] = "arches"
    /\ lastArches' = changed[w]
    /\ Goto(w, "log")
    /\ UNCHANGED <<head, mirrorVars, handlerVars, localVars, catalog,
                   lastCommit, logged, faults>>

LogSync(w) ==
    /\ pc[w] = "log"
    /\ logged' = logged \cup {commit[w]}
    /\ EndSync(w)
    /\ UNCHANGED <<head, mirrorVars, handlerVars, catalog, lastCommit,
                   lastArches, faults>>

SyncStep(w) ==
    \/ ReadPrevious(w) \/ Clone(w) \/ Fetch(w) \/ Reset(w) \/ RevParse(w)
    \/ Collect(w) \/ CollectBad(w) \/ Rebuild(w)
    \/ SetLastCommit(w) \/ SetLastArches(w) \/ LogSync(w)

-----------------------------------------------------------------------------
(* web::trigger_sync, the webhook and the poll loop *)

\* Scenario bound: with BootOverlaps = FALSE triggers come after the boot sync.
BootGivesWay == BootOverlaps \/ pc[Boot] = "idle"

\* Mutant of RunSync: the flag is raised and not looked at.
RunSyncAlways(w) ==
    /\ syncing' = TRUE
    /\ awaited' = [awaited EXCEPT ![w] = TRUE]
    /\ Goto(w, "previous")

\* The flag was down and is now up; the sync is handed to the pool.
RunSync(w) ==
    /\ ~syncing
    /\ syncing' = TRUE
    /\ awaited' = [awaited EXCEPT ![w] = TRUE]
    /\ Goto(w, "previous")

Webhook(h) ==
    /\ pc[h] = "idle"
    /\ BootGivesWay
    /\ RunSync(h)
    /\ UNCHANGED <<head, mirrorVars, poll, stored, localVars, dbVars, faults>>

\* "sync already in progress": the delivery is answered and forgotten.
WebhookRefused(h) ==
    /\ pc[h] = "idle"
    /\ syncing
    /\ UNCHANGED vars

\* A tick that finds the flag up is skipped.
PollSkip ==
    /\ poll = "wait"
    /\ syncing
    /\ UNCHANGED vars

PollTick ==
    /\ poll = "wait"
    /\ BootGivesWay
    /\ ~syncing
    /\ poll' = "read"
    /\ UNCHANGED <<head, mirrorVars, syncing, awaited, stored, pc, localVars,
                   dbVars, faults>>

\* The flag is not looked at again before the commit is read.
PollRead ==
    /\ poll = "read"
    /\ stored' = lastCommit
    /\ poll' = "probe"
    /\ UNCHANGED <<head, mirrorVars, syncing, awaited, pc, localVars, dbVars,
                   faults>>

\* ls-remote is compared with the commit read before it.
PollProbe ==
    /\ poll = "probe"
    /\ IF head # stored /\ ~syncing
       THEN RunSync(Poll) /\ poll' = "sync"
       ELSE poll' = "wait" /\ UNCHANGED <<syncing, awaited, pc>>
    /\ stored' = None
    /\ UNCHANGED <<head, mirrorVars, localVars, dbVars, faults>>

\* The handler resumes after its worker and lowers the flag.
ClearFlag(w) ==
    /\ pc[w] = "done"
    /\ syncing' = FALSE
    /\ awaited' = [awaited EXCEPT ![w] = FALSE]
    /\ poll' = IF w = Poll THEN "wait" ELSE poll
    /\ Goto(w, "idle")
    /\ UNCHANGED <<head, mirrorVars, stored, localVars, dbVars, faults>>

\* Mutant of Cancel: the dropped handler lowers the flag while its worker runs.
CancelClears(h) ==
    /\ MayCancel
    /\ awaited[h]
    /\ awaited' = [awaited EXCEPT ![h] = FALSE]
    /\ syncing' = FALSE
    /\ Goto(h, IF pc[h] = "done" THEN "idle" ELSE pc[h])
    /\ UNCHANGED <<head, mirrorVars, poll, stored, localVars, dbVars, faults>>

\* The webhook's client goes away: its handler is dropped where it waits, and
\* with it the line that lowers the flag. The worker runs on.
Cancel(h) ==
    /\ MayCancel
    /\ awaited[h]
    /\ awaited' = [awaited EXCEPT ![h] = FALSE]
    /\ Goto(h, IF pc[h] = "done" THEN "idle" ELSE pc[h])
    /\ UNCHANGED <<head, mirrorVars, syncing, poll, stored, localVars, dbVars,
                   faults>>

-----------------------------------------------------------------------------
(* Failures *)

\* A git command or a database call fails; the sync logs that and returns.
Fail(w) ==
    /\ faults < MaxFaults
    /\ faults' = faults + 1
    /\ pc[w] \in SyncSteps
    /\ EndSync(w)
    /\ UNCHANGED <<head, mirrorVars, handlerVars, dbVars>>

\* A commit that cannot be read counts as none; a failed ls-remote ends the
\* tick.
PollFail ==
    /\ faults < MaxFaults
    /\ faults' = faults + 1
    /\ \/ poll = "read" /\ poll' = "probe"
       \/ poll = "probe" /\ poll' = "wait"
    /\ stored' = None
    /\ UNCHANGED <<head, mirrorVars, syncing, awaited, pc, localVars, dbVars>>

Restart ==
    /\ faults < MaxFaults
    /\ faults' = faults + 1
    /\ syncing' = FALSE
    /\ awaited' = Started.awaited
    /\ poll' = "wait" /\ stored' = None
    /\ pc' = Started.pc
    /\ prev' = Started.prev /\ commit' = Started.commit
    /\ changed' = Started.changed
    /\ todo' = Started.todo /\ records' = Started.records
    /\ UNCHANGED <<head, mirrorVars, dbVars>>

-----------------------------------------------------------------------------
Next ==
    \/ Push \/ PollSkip \/ PollTick \/ PollRead \/ PollProbe \/ PollFail
    \/ Restart
    \/ \E w \in Workers : SyncStep(w) \/ Fail(w)
    \/ \E w \in Triggers : ClearFlag(w)
    \/ \E h \in Hooks : Webhook(h) \/ WebhookRefused(h) \/ Cancel(h)

Spec == Init /\ [][Next]_vars

\* The pool runs what it is given, handlers resume and the interval ticks.
\* Nothing is assumed of pushes, webhooks, clients or failures.
FairSpec ==
    /\ Spec
    /\ \A w \in Workers : WF_vars(SyncStep(w))
    /\ \A w \in Triggers : WF_vars(ClearFlag(w))
    /\ WF_vars(PollTick) /\ WF_vars(PollRead) /\ WF_vars(PollProbe)

-----------------------------------------------------------------------------
(* Properties *)

Promise == INSTANCE Catalog WITH shown <- catalog, known <- lastCommit

Running(w) == pc[w] # "idle"

\* "runs at most one sync at a time" (web.rs, of the webhook and the poll
\* loop): whatever is cancelled, fails or restarts, no two triggered syncs run
\* together.
TriggeredSyncsExclusive ==
    \A v, w \in Triggers : Running(v) /\ Running(w) => v = w

\* The recipes shown come from one commit of the source tree, the one they are
\* stamped with.
CatalogFromOneCommit ==
    catalog # None => \A p \in Paths : catalog.src[p] = catalog.label

\* last_commit, which the poll loop takes for what is shown, is never newer
\* than what is shown: a stop between the transactions of a sync repeats work
\* and skips none.
LastCommitNotAhead ==
    lastCommit # None => catalog # None /\ lastCommit <= catalog.label

\* A commit the sync log reports as synced is shown, or a newer one is.
LoggedSyncIsShown ==
    \A c \in logged : catalog # None /\ c <= catalog.label

\* While triggers leave the boot sync alone, synchronization implements the
\* abstract catalog, whatever fails or is cancelled: the catalog is replaced as
\* a whole and only by a newer commit's, and the commit the hub knows is noted
\* after it is shown.
ImplementsCatalog == Promise!Spec

Shows(c) == catalog = [src |-> [p \in Paths |-> c], label |-> c]

\* "the poll loop and webhooks will catch up" (server.rs): once the remote
\* branch stays at a commit whose recipes load, the catalog comes to show that
\* commit and goes on showing it, whatever failed before.
CatchUp ==
    \A c \in Commits \ Bad : <>[](head = c) => <>[]Shows(c)

\* The flag is up and nobody is left to lower it.
Stuck == syncing /\ \A w \in Triggers : ~awaited[w]

\* With clients that go away as well: the hub catches up unless the flag stays
\* up for good; a restart lowers it.
CatchUpUnlessStuck ==
    \A c \in Commits \ Bad :
        <>[](head = c) => <>[]Stuck \/ <>[](Shows(c) /\ lastCommit = c)
=============================================================================
