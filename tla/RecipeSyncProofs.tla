-------------------------- MODULE RecipeSyncProofs --------------------------
(* Theorems about RecipeSync, checked by TLAPS. *)
EXTENDS RecipeSync, TLAPS

\* What makes the exclusion inductive: the flag stays up as long as any
\* triggered sync is on its way, cancelled or not.
FlagCoversSyncs == \A w \in Triggers : Running(w) => syncing

PcOK == pc \in [Workers -> SyncSteps \cup {"idle", "done"}]

SyncInv == PcOK /\ FlagCoversSyncs /\ TriggeredSyncsExclusive

LEMMA SyncInit == Init => SyncInv
BY ConstantsAssumption
   DEF Init, Started, SyncInv, PcOK, FlagCoversSyncs, TriggeredSyncsExclusive,
       Running, Workers, Triggers, SyncSteps

\* A step of a sync moves only its own worker and never starts one.
LEMMA SyncStepKeeps ==
    ASSUME SyncInv, NEW w \in Workers, SyncStep(w) \/ Fail(w)
    PROVE  SyncInv'
<1>1. /\ pc[w] \in SyncSteps
      /\ syncing' = syncing
      /\ \E step \in SyncSteps \cup {"idle", "done"} :
            pc' = [pc EXCEPT ![w] = step]
  BY DEF SyncStep, ReadPrevious, Clone, Fetch, Reset, RevParse, Collect,
         CollectBad, Rebuild, SetLastCommit, SetLastArches, LogSync, Fail,
         EndSync, Goto, handlerVars, SyncSteps
<1>2. Running(w)
  BY <1>1 DEF Running, SyncSteps
<1>3. \A v \in Workers : v # w => pc'[v] = pc[v]
  BY <1>1 DEF SyncInv, PcOK
<1>. QED
  BY <1>1, <1>2, <1>3
     DEF SyncInv, PcOK, FlagCoversSyncs, TriggeredSyncsExclusive, Running,
         Workers

\* The flag was down, so no triggered sync was running.
LEMMA RunSyncKeeps ==
    ASSUME SyncInv, NEW w \in Triggers, RunSync(w)
    PROVE  SyncInv'
<1>1. \A v \in Triggers : pc[v] = "idle"
  BY DEF RunSync, SyncInv, FlagCoversSyncs, Running
<1>2. /\ syncing' = TRUE
      /\ pc' = [pc EXCEPT ![w] = "previous"]
  BY DEF RunSync, Goto
<1>. QED
  BY <1>1, <1>2
     DEF SyncInv, PcOK, FlagCoversSyncs, TriggeredSyncsExclusive, Running,
         Workers, Triggers, SyncSteps

\* The handler that lowers the flag is that of the only triggered sync.
LEMMA ClearFlagKeeps ==
    ASSUME SyncInv, NEW w \in Triggers, ClearFlag(w)
    PROVE  SyncInv'
<1>1. /\ Running(w)
      /\ pc' = [pc EXCEPT ![w] = "idle"]
  BY DEF ClearFlag, Goto, Running
<1>2. \A v \in Triggers : v # w => pc[v] = "idle"
  BY <1>1 DEF SyncInv, TriggeredSyncsExclusive, Running
<1>. QED
  BY <1>1, <1>2
     DEF SyncInv, PcOK, FlagCoversSyncs, TriggeredSyncsExclusive, Running,
         Workers, Triggers, SyncSteps

LEMMA CancelKeeps ==
    ASSUME SyncInv, NEW h \in Hooks, Cancel(h)
    PROVE  SyncInv'
<1>1. /\ syncing' = syncing
      /\ pc' = [pc EXCEPT ![h] = IF pc[h] = "done" THEN "idle" ELSE pc[h]]
  BY DEF Cancel, Goto
<1>. QED
  BY <1>1
     DEF SyncInv, PcOK, FlagCoversSyncs, TriggeredSyncsExclusive, Running,
         Workers, Triggers, SyncSteps

LEMMA RestartKeeps == SyncInv /\ Restart => SyncInv'
BY ConstantsAssumption
   DEF Restart, Started, SyncInv, PcOK, FlagCoversSyncs,
       TriggeredSyncsExclusive, Running, Workers, Triggers, SyncSteps

LEMMA SyncNext == SyncInv /\ [Next]_vars => SyncInv'
<1>. SUFFICES ASSUME SyncInv, [Next]_vars PROVE SyncInv'
  OBVIOUS
<1>1. CASE UNCHANGED <<pc, syncing>>
  BY <1>1
     DEF SyncInv, PcOK, FlagCoversSyncs, TriggeredSyncsExclusive, Running
<1>2. CASE \E w \in Workers : SyncStep(w) \/ Fail(w)
  BY <1>2, SyncStepKeeps
<1>3. CASE \E w \in Triggers : ClearFlag(w)
  BY <1>3, ClearFlagKeeps
<1>4. CASE \E h \in Hooks : Webhook(h)
  BY <1>4, RunSyncKeeps DEF Webhook, Triggers
<1>5. CASE \E h \in Hooks : Cancel(h)
  BY <1>5, CancelKeeps
<1>6. CASE PollProbe
  <2>1. CASE RunSync(Poll)
    BY <2>1, RunSyncKeeps DEF Triggers
  <2>2. CASE UNCHANGED <<syncing, awaited, pc>>
    BY <2>2, <1>1
  <2>. QED
    BY <1>6, <2>1, <2>2 DEF PollProbe
<1>7. CASE Restart
  BY <1>7, RestartKeeps
<1>8. CASE \/ Push \/ PollSkip \/ PollTick \/ PollRead \/ PollFail
           \/ \E h \in Hooks : WebhookRefused(h)
  BY <1>8, <1>1
     DEF Push, PollSkip, PollTick, PollRead, PollFail, WebhookRefused,
         handlerVars, vars
<1>9. CASE UNCHANGED vars
  BY <1>9, <1>1 DEF vars
<1>. QED
  BY <1>2, <1>3, <1>4, <1>5, <1>6, <1>7, <1>8, <1>9 DEF Next

\* The webhook and the poll loop never run two syncs together, however many
\* webhooks there are and whatever is cancelled, fails or restarts: the promise
\* of trigger_sync in web.rs.
THEOREM SyncExclusion == Spec => []TriggeredSyncsExclusive
<1>1. SyncInv => TriggeredSyncsExclusive
  BY DEF SyncInv
<1>. QED
  BY SyncInit, SyncNext, <1>1, PTL DEF Spec

-----------------------------------------------------------------------------
(* Types *)

AfterFetch == {"head", "collect", "rebuild", "last", "arches", "log"}

\* What a sync has found by the step it is at, besides types: a mirror that has
\* been fetched, a commit, and records for the files it has read.
Fetched(w) ==
    /\ pc[w] = "reset" => origin # None
    /\ pc[w] \in AfterFetch => checkout # None /\ \A p \in Paths : tree[p] # None
    /\ pc[w] \in AfterFetch \ {"head"} => commit[w] # None
    /\ pc[w] = "collect" => \A p \in Paths \ todo[w] : records[w][p] # None
    /\ pc[w] = "rebuild" => \A p \in Paths : records[w][p] # None

TypeInv == TypeOK /\ \A w \in Workers : Fetched(w)

\* The part of TypeOK that is about workers.
WorkersTyped(steps, waits, before, at, diff, left, read) ==
    /\ steps \in [Workers -> SyncSteps \cup {"idle", "done"}]
    /\ waits \in [Workers -> BOOLEAN]
    /\ before \in [Workers -> Commits \cup {None}]
    /\ at \in [Workers -> Commits \cup {None}]
    /\ diff \in [Workers -> SUBSET Commits]
    /\ left \in [Workers -> SUBSET Paths]
    /\ read \in [Workers -> [Paths -> Commits \cup {None}]]

LEMMA StartedTypes ==
    /\ WorkersTyped(Started.pc, Started.awaited, Started.prev, Started.commit,
                    Started.changed, Started.todo, Started.records)
    /\ \A w \in Workers : Started.pc[w] \in {"previous", "idle"}
BY DEF Started, NoRecords, SyncSteps, WorkersTyped

LEMMA TypeInit == Init => TypeInv
<1>. SUFFICES ASSUME Init PROVE TypeInv
  OBVIOUS
<1>1. 1 \in Commits
  BY ConstantsAssumption DEF Commits
<1>2. TypeOK
  <2>1. /\ head \in Commits /\ tree \in [Paths -> Commits \cup {None}]
        /\ origin = None /\ checkout = None /\ stored = None /\ catalog = None
        /\ syncing = FALSE /\ poll = "wait" /\ lastCommit = None
        /\ lastArches = {} /\ logged = {}
    BY <1>1 DEF Init
  <2>2. WorkersTyped(pc, awaited, prev, commit, changed, todo, records)
    BY StartedTypes DEF Init
  <2>3. faults \in 0 .. MaxFaults
    BY ConstantsAssumption DEF Init
  <2>. QED
    BY <2>1, <2>2, <2>3 DEF TypeOK, WorkersTyped
<1>3. \A w \in Workers : pc[w] \in {"previous", "idle"}
  BY StartedTypes DEF Init
<1>. QED
  BY <1>2, <1>3 DEF TypeInv, Fetched, AfterFetch

\* A sync that ends forgets its locals.
LEMMA EndSyncTypes ==
    ASSUME TypeInv, NEW w \in Workers, EndSync(w), UNCHANGED <<head, mirrorVars, handlerVars>>,
           catalog' \in Catalogs \cup {None}, lastCommit' \in Commits \cup {None},
           lastArches' \subseteq Commits, logged' \subseteq Commits,
           faults' \in 0 .. MaxFaults
    PROVE  TypeInv'
<1>1. TypeOK'
  BY DEF TypeInv, TypeOK, EndSync, Goto, NoRecords, mirrorVars, handlerVars
<1>2. ASSUME NEW v \in Workers PROVE Fetched(v)'
  <2>1. CASE v = w
    BY <2>1 DEF TypeInv, TypeOK, Fetched, AfterFetch, EndSync, Goto
  <2>2. CASE v # w
    BY <2>2 DEF TypeInv, TypeOK, Fetched, EndSync, Goto, mirrorVars
  <2>. QED
    BY <2>1, <2>2
<1>. QED
  BY <1>1, <1>2 DEF TypeInv


LEMMA RestartTypes == TypeInv /\ Restart => TypeInv'
<1>. SUFFICES ASSUME TypeInv, Restart PROVE TypeInv'
  OBVIOUS
<1>1. TypeOK'
  <2>1. WorkersTyped(pc', awaited', prev', commit', changed', todo', records')
    BY StartedTypes DEF Restart
  <2>2. faults' \in 0 .. MaxFaults
    BY ConstantsAssumption DEF TypeInv, TypeOK, Restart
  <2>3. /\ UNCHANGED <<head, mirrorVars, dbVars>>
        /\ syncing' = FALSE /\ poll' = "wait" /\ stored' = None
    BY DEF Restart
  <2>. QED
    BY <2>1, <2>2, <2>3 DEF TypeInv, TypeOK, WorkersTyped, mirrorVars, dbVars
<1>2. \A w \in Workers : pc'[w] \in {"previous", "idle"}
  BY StartedTypes DEF Restart
<1>. QED
  BY <1>1, <1>2 DEF TypeInv, Fetched, AfterFetch

\* The last step of a sync, and the ones at which it may end early.
LEMMA EndingTypes ==
    ASSUME TypeInv, NEW w \in Workers, CollectBad(w) \/ LogSync(w) \/ Fail(w)
    PROVE  TypeInv'
<1>1. /\ EndSync(w) /\ UNCHANGED <<head, mirrorVars, handlerVars>>
      /\ UNCHANGED <<catalog, lastCommit, lastArches>>
      /\ logged' = logged \/ (pc[w] = "log" /\ logged' = logged \cup {commit[w]})
      /\ faults' = faults \/ (faults < MaxFaults /\ faults' = faults + 1)
  BY DEF CollectBad, LogSync, Fail, dbVars
<1>2. logged' \subseteq Commits
  BY <1>1 DEF TypeInv, TypeOK, Fetched, AfterFetch
<1>3. faults' \in 0 .. MaxFaults
  BY <1>1, ConstantsAssumption DEF TypeInv, TypeOK
<1>. QED
  BY <1>1, <1>2, <1>3, EndSyncTypes DEF TypeInv, TypeOK

\* The steps that read the database and the remote, and change the mirror.
LEMMA MirrorTypes ==
    ASSUME TypeInv, NEW w \in Workers,
           ReadPrevious(w) \/ Clone(w) \/ Fetch(w) \/ Reset(w)
    PROVE  TypeInv'
<1>. DEFINE now == IF Clone(w) THEN head ELSE origin
<1>1. CASE ReadPrevious(w)
  <2>1. TypeOK'
    BY <1>1 DEF TypeInv, TypeOK, ReadPrevious, Goto, mirrorVars, handlerVars, dbVars, SyncSteps
  <2>2. \A v \in Workers : Fetched(v)'
    BY <1>1 DEF TypeInv, TypeOK, Fetched, AfterFetch, ReadPrevious, Goto, mirrorVars
  <2>. QED
    BY <2>1, <2>2 DEF TypeInv
<1>2. CASE Fetch(w)
  <2>1. TypeOK'
    BY <1>2 DEF TypeInv, TypeOK, Fetch, Goto, handlerVars, localVars, dbVars, SyncSteps
  <2>2. \A v \in Workers : Fetched(v)'
    BY <1>2, ConstantsAssumption
       DEF TypeInv, TypeOK, Fetched, AfterFetch, Fetch, Goto, localVars
  <2>. QED
    BY <2>1, <2>2 DEF TypeInv
<1>3. CASE Clone(w) \/ Reset(w)
  <2>1. PICK c \in Commits :
            /\ checkout' = c /\ tree' = [p \in Paths |-> c] /\ origin' = c
            /\ pc' = [pc EXCEPT ![w] = "head"]
            /\ UNCHANGED <<head, handlerVars, localVars, dbVars, faults>>
    BY <1>3 DEF TypeInv, TypeOK, Fetched, Clone, Reset, Goto
  <2>2. TypeOK'
    BY <2>1 DEF TypeInv, TypeOK, handlerVars, localVars, dbVars, SyncSteps
  <2>3. c # None
    BY ConstantsAssumption
  <2>4. \A v \in Workers : Fetched(v)'
    BY <2>1, <2>3 DEF TypeInv, TypeOK, Fetched, AfterFetch, localVars
  <2>. QED
    BY <2>2, <2>4 DEF TypeInv
<1>. QED
  BY <1>1, <1>2, <1>3

LEMMA RevParseTypes ==
    ASSUME TypeInv, NEW w \in Workers, RevParse(w)
    PROVE  TypeInv'
<1>1. checkout \in Commits /\ checkout # None
  BY DEF TypeInv, TypeOK, Fetched, AfterFetch, RevParse
<1>2. Changed(prev[w], checkout) \subseteq Commits
  BY <1>1, ConstantsAssumption DEF TypeInv, TypeOK, Changed, Commits
<1>3. TypeOK'
  BY <1>1, <1>2 DEF TypeInv, TypeOK, RevParse, Goto, mirrorVars, handlerVars, dbVars, SyncSteps
<1>4. ASSUME NEW v \in Workers PROVE Fetched(v)'
  BY <1>1 DEF TypeInv, TypeOK, Fetched, AfterFetch, RevParse, Goto, mirrorVars
<1>. QED
  BY <1>3, <1>4 DEF TypeInv

LEMMA CollectTypes ==
    ASSUME TypeInv, NEW w \in Workers, Collect(w)
    PROVE  TypeInv'
<1>1. PICK p \in todo[w] :
          /\ records' = [records EXCEPT ![w][p] = tree[p]]
          /\ todo' = [todo EXCEPT ![w] = @ \ {p}]
          /\ pc' = [pc EXCEPT ![w] = IF todo[w] = {p} THEN "rebuild" ELSE "collect"]
  BY DEF Collect, Goto
<1>2. /\ pc[w] = "collect" /\ p \in Paths /\ tree[p] \in Commits /\ tree[p] # None
      /\ UNCHANGED <<head, mirrorVars, handlerVars, prev, commit, changed, dbVars, faults>>
  BY <1>1 DEF TypeInv, TypeOK, Fetched, AfterFetch, Collect
<1>3. TypeOK'
  BY <1>1, <1>2 DEF TypeInv, TypeOK, mirrorVars, handlerVars, dbVars, SyncSteps
<1>4. ASSUME NEW v \in Workers PROVE Fetched(v)'
  <2>1. CASE v = w
    <3>1. \A q \in Paths : records'[w][q] = IF q = p THEN tree[p] ELSE records[w][q]
      BY <1>1, <1>2 DEF TypeInv, TypeOK
    <3>2. todo'[w] = todo[w] \ {p} /\ (pc'[w] = "rebuild" => todo[w] = {p})
      BY <1>1, <1>2 DEF TypeInv, TypeOK
    <3>3. pc'[w] \in {"collect", "rebuild"}
      BY <1>1, <1>2 DEF TypeInv, TypeOK
    <3>. QED
      BY <2>1, <1>1, <1>2, <3>1, <3>2, <3>3 DEF TypeInv, Fetched, AfterFetch, mirrorVars
  <2>2. CASE v # w
    BY <2>2, <1>1, <1>2 DEF TypeInv, TypeOK, Fetched, AfterFetch, mirrorVars
  <2>. QED
    BY <2>1, <2>2
<1>. QED
  BY <1>3, <1>4 DEF TypeInv

\* The transactions of a sync.
LEMMA StoreTypes ==
    ASSUME TypeInv, NEW w \in Workers,
           Rebuild(w) \/ SetLastCommit(w) \/ SetLastArches(w)
    PROVE  TypeInv'
<1>1. /\ UNCHANGED <<head, mirrorVars, handlerVars, localVars, logged, faults>>
      /\ pc[w] \in {"rebuild", "last", "arches"}
      /\ \E s \in {"last", "arches", "log"} : pc' = [pc EXCEPT ![w] = s]
  BY DEF Rebuild, SetLastCommit, SetLastArches, Goto
<1>2. commit[w] \in Commits
  BY <1>1 DEF TypeInv, TypeOK, Fetched, AfterFetch
<1>3. catalog' \in Catalogs \cup {None}
  <2>1. CASE Rebuild(w)
    <3>1. records[w] \in [Paths -> Commits]
      BY <2>1 DEF TypeInv, TypeOK, Fetched, Rebuild
    <3>. QED
      BY <2>1, <3>1, <1>2 DEF Rebuild, Catalogs
  <2>. QED
    BY <2>1 DEF SetLastCommit, SetLastArches, TypeInv, TypeOK
<1>4. lastCommit' \in Commits \cup {None} /\ lastArches' \subseteq Commits
  BY <1>2 DEF Rebuild, SetLastCommit, SetLastArches, TypeInv, TypeOK
<1>5. TypeOK'
  BY <1>1, <1>3, <1>4 DEF TypeInv, TypeOK, mirrorVars, handlerVars, localVars, SyncSteps
<1>6. \A v \in Workers : Fetched(v)'
  BY <1>1 DEF TypeInv, TypeOK, Fetched, AfterFetch, mirrorVars, localVars
<1>. QED
  BY <1>5, <1>6 DEF TypeInv

\* The handlers and the poll loop leave the mirror, the database and the locals
\* of syncs alone; they start syncs at their first step.
LEMMA HandlerTypes ==
    ASSUME TypeInv, UNCHANGED <<mirrorVars, localVars, dbVars>>,
           head' \in Commits, faults' \in 0 .. MaxFaults,
           syncing' \in BOOLEAN, awaited' \in [Workers -> BOOLEAN],
           poll' \in {"wait", "read", "probe", "sync"},
           stored' \in Commits \cup {None},
           pc' = pc \/ \E w \in Workers, s \in {"previous", "idle"} : pc' = [pc EXCEPT ![w] = s]
    PROVE  TypeInv'
<1>1. TypeOK'
  BY DEF TypeInv, TypeOK, mirrorVars, localVars, dbVars, SyncSteps
<1>2. \A v \in Workers : Fetched(v)'
  BY DEF TypeInv, TypeOK, Fetched, AfterFetch, mirrorVars, localVars
<1>. QED
  BY <1>1, <1>2 DEF TypeInv

LEMMA TypeNext == TypeInv /\ [Next]_vars => TypeInv'
<1>. SUFFICES ASSUME TypeInv, [Next]_vars PROVE TypeInv'
  OBVIOUS
<1>. USE DEF Workers, Triggers
<1>1. CASE \E w \in Workers : SyncStep(w) \/ Fail(w)
  BY <1>1, EndingTypes, MirrorTypes, RevParseTypes, CollectTypes, StoreTypes DEF SyncStep
<1>2. CASE Restart
  BY <1>2, RestartTypes
<1>3. CASE Push \/ PollFail
  BY <1>3, ConstantsAssumption, HandlerTypes
     DEF Push, PollFail, TypeInv, TypeOK, Commits, handlerVars
<1>4. CASE PollSkip \/ PollTick \/ PollRead \/ PollProbe
  BY <1>4, HandlerTypes
     DEF PollSkip, PollTick, PollRead, PollProbe, RunSync, Goto, TypeInv, TypeOK, vars,
         mirrorVars, localVars, dbVars
<1>5. CASE \E w \in Triggers : ClearFlag(w)
  BY <1>5, HandlerTypes DEF ClearFlag, Goto, TypeInv, TypeOK
<1>6. CASE \E h \in Hooks : Webhook(h) \/ WebhookRefused(h) \/ Cancel(h)
  <2>. PICK h \in Hooks : Webhook(h) \/ WebhookRefused(h) \/ Cancel(h)
    BY <1>6
  <2>1. CASE Webhook(h)
    BY <2>1, HandlerTypes DEF Webhook, RunSync, Goto, TypeInv, TypeOK
  <2>2. CASE WebhookRefused(h)
    BY <2>2, HandlerTypes
       DEF WebhookRefused, TypeInv, TypeOK, vars, mirrorVars, localVars, dbVars
  <2>3. CASE Cancel(h)
    <3>1. pc' = pc \/ pc' = [pc EXCEPT ![h] = "idle"]
      BY <2>3 DEF Cancel, Goto, TypeInv, TypeOK
    <3>2. awaited' \in [Workers -> BOOLEAN]
      BY <2>3 DEF Cancel, TypeInv, TypeOK
    <3>. QED
      BY <2>3, <3>1, <3>2, HandlerTypes DEF Cancel, TypeInv, TypeOK
  <2>. QED
    BY <2>1, <2>2, <2>3
<1>7. CASE UNCHANGED vars
  BY <1>7, HandlerTypes DEF TypeInv, TypeOK, vars, mirrorVars, localVars, dbVars
<1>. QED
  BY <1>1, <1>2, <1>3, <1>4, <1>5, <1>6, <1>7 DEF Next

\* The state of the mirror, the database, the handlers and every sync is what
\* the module says it is, boot overlap and cancelled handlers included.
THEOREM SyncTypes == Spec => []TypeOK
<1>1. TypeInv => TypeOK
  BY DEF TypeInv
<1>. QED
  BY TypeInit, TypeNext, <1>1, PTL DEF Spec

-----------------------------------------------------------------------------
(* One sync at a time, when triggers leave the boot sync alone *)

\* No two syncs at all, which the flag alone does not give: the boot sync does
\* not look at it.
OneSyncAtATime ==
    \A v, w \in Workers : Running(v) /\ Running(w) => v = w

AloneInv ==
    /\ SyncInv
    /\ OneSyncAtATime
    /\ Running(Boot) => poll = "wait"

LEMMA AloneInit == Init => AloneInv
<1>. SUFFICES ASSUME Init PROVE AloneInv
  OBVIOUS
<1>1. \A w \in Workers : Running(w) => w = Boot
  BY DEF Init, Started, Running
<1>. QED
  BY <1>1, SyncInit DEF AloneInv, OneSyncAtATime, Init

\* A sync that starts finds no other.
LEMMA RunSyncAlone ==
    ASSUME AloneInv, NEW w \in Triggers, RunSync(w), ~Running(Boot)
    PROVE  AloneInv'
<1>1. SyncInv'
  BY RunSyncKeeps DEF AloneInv
<1>2. \A v \in Workers : pc[v] = "idle"
  BY DEF AloneInv, SyncInv, FlagCoversSyncs, RunSync, Running, Workers
<1>3. \A v \in Workers : Running(v)' => v = w
  BY <1>2 DEF RunSync, Goto, Running, AloneInv, SyncInv, PcOK
<1>4. ~Running(Boot)'
  BY <1>3, ConstantsAssumption DEF Workers
<1>. QED
  BY <1>1, <1>3, <1>4 DEF AloneInv, OneSyncAtATime

LEMMA AloneNext ==
    ASSUME ~BootOverlaps, AloneInv, [Next]_vars
    PROVE  AloneInv'
<1>1. SyncInv'
  BY SyncNext DEF AloneInv
<1>2. Boot \in Workers /\ Triggers \subseteq Workers /\ Boot \notin Triggers
  BY ConstantsAssumption DEF Workers
<1>3. ASSUME \A v \in Workers : Running(v)' => Running(v),
             Running(Boot) => poll' = poll
      PROVE  AloneInv'
  BY <1>1, <1>2, <1>3 DEF AloneInv, OneSyncAtATime
<1>4. CASE \E w \in Workers : SyncStep(w) \/ Fail(w)
  <2>1. PICK w \in Workers : SyncStep(w) \/ Fail(w)
    BY <1>4
  <2>2. /\ Running(w) /\ poll' = poll
        /\ \E step \in SyncSteps \cup {"idle", "done"} : pc' = [pc EXCEPT ![w] = step]
    BY <2>1
       DEF SyncStep, ReadPrevious, Clone, Fetch, Reset, RevParse, Collect, CollectBad,
           Rebuild, SetLastCommit, SetLastArches, LogSync, Fail, EndSync, Goto,
           handlerVars, SyncSteps, Running
  <2>. QED
    BY <2>2, <1>3 DEF Running, AloneInv, SyncInv, PcOK
<1>5. CASE \E w \in Triggers : ClearFlag(w)
  <2>1. PICK w \in Triggers : ClearFlag(w)
    BY <1>5
  <2>2. Running(w) /\ ~Running(Boot)
    BY <2>1, <1>2 DEF ClearFlag, Running, AloneInv, OneSyncAtATime
  <2>. QED
    BY <2>1, <2>2, <1>3 DEF ClearFlag, Goto, Running, AloneInv, SyncInv, PcOK
<1>6. CASE \E h \in Hooks : Cancel(h)
  BY <1>6, <1>3 DEF Cancel, Goto, Running, AloneInv, SyncInv, PcOK
<1>7. CASE \E h \in Hooks : Webhook(h)
  BY <1>7, RunSyncAlone DEF Webhook, BootGivesWay, Running, Triggers
<1>8. CASE PollProbe
  <2>1. ~Running(Boot)
    BY <1>8 DEF PollProbe, AloneInv
  <2>2. CASE RunSync(Poll)
    BY <2>1, <2>2, RunSyncAlone DEF Triggers
  <2>3. CASE UNCHANGED pc
    BY <2>1, <2>3, <1>3 DEF Running
  <2>. QED
    BY <1>8, <2>2, <2>3 DEF PollProbe
<1>9. CASE Restart
  <2>1. \A v \in Workers : Running(v)' => v = Boot
    BY <1>9 DEF Restart, Started, Running
  <2>. QED
    BY <1>9, <1>1, <2>1 DEF Restart, AloneInv, OneSyncAtATime
<1>10. CASE PollTick \/ PollRead \/ PollFail
  <2>1. ~Running(Boot) /\ pc' = pc
    BY <1>10 DEF PollTick, PollRead, PollFail, BootGivesWay, Running, AloneInv
  <2>. QED
    BY <2>1, <1>3 DEF Running
<1>11. CASE \/ Push \/ PollSkip \/ \E h \in Hooks : WebhookRefused(h)
            \/ UNCHANGED vars
  BY <1>11, <1>3 DEF Push, PollSkip, WebhookRefused, handlerVars, vars, Running
<1>. QED
  BY <1>4, <1>5, <1>6, <1>7, <1>8, <1>9, <1>10, <1>11 DEF Next

-----------------------------------------------------------------------------
(* What the mirror and the database hold, when syncs do not overlap *)

\* The mirror is behind the remote branch, the catalog behind the mirror.
MirrorOrder ==
    /\ origin # None => origin <= head
    /\ checkout # None => origin # None /\ checkout <= origin
    /\ catalog # None => checkout # None /\ catalog.label <= checkout

\* The catalog is that of a commit that loads.
WholeCatalog ==
    catalog # None =>
        catalog.label \notin Bad /\ catalog = Promise!TreeOf(catalog.label)

\* What a sync works on is the commit checked out, from its reset to its end.
AtCheckout(w) ==
    /\ pc[w] \in AfterFetch => tree = [p \in Paths |-> checkout]
    /\ pc[w] \in AfterFetch \ {"head"} => commit[w] = checkout
    /\ pc[w] = "collect" =>
           \A p \in Paths \ todo[w] : records[w][p] = checkout /\ checkout \notin Bad
    /\ pc[w] = "rebuild" =>
           checkout \notin Bad /\ \A p \in Paths : records[w][p] = checkout
    /\ pc[w] \in {"last", "arches", "log"} => catalog = Promise!TreeOf(checkout)

DataFacts ==
    /\ MirrorOrder /\ WholeCatalog /\ LastCommitNotAhead /\ LoggedSyncIsShown
    /\ \A w \in Workers : AtCheckout(w)

DataInv == TypeInv /\ AloneInv /\ DataFacts

LEMMA DataInit == Init => DataInv
<1>. SUFFICES ASSUME Init PROVE DataInv
  OBVIOUS
<1>1. \A w \in Workers : pc[w] \in {"previous", "idle"}
  BY StartedTypes DEF Init
<1>. QED
  BY <1>1, TypeInit, AloneInit
     DEF Init, DataInv, DataFacts, MirrorOrder, WholeCatalog, LastCommitNotAhead, LoggedSyncIsShown,
         AtCheckout, AfterFetch

\* The facts about a sync are lost with it, and untouched by what changes
\* neither the mirror nor the database nor its locals.
LEMMA OthersKeep ==
    ASSUME DataInv, UNCHANGED <<mirrorVars, dbVars>>, head <= head',
           head' \in Commits,
           \A w \in Workers :
              \/ pc'[w] \notin AfterFetch
              \/ pc'[w] = pc[w] /\ UNCHANGED <<commit[w], todo[w], records[w]>>
    PROVE  DataFacts'
<1>1. MirrorOrder'
  BY DEF DataInv, DataFacts, TypeInv, TypeOK, Commits, MirrorOrder, mirrorVars, dbVars
<1>2. (WholeCatalog /\ LastCommitNotAhead /\ LoggedSyncIsShown)'
  BY DEF DataInv, DataFacts, WholeCatalog, LastCommitNotAhead, LoggedSyncIsShown, dbVars,
         Promise!TreeOf
<1>3. ASSUME NEW w \in Workers PROVE AtCheckout(w)'
  BY DEF DataInv, DataFacts, AtCheckout, AfterFetch, mirrorVars, dbVars, Promise!TreeOf
<1>. QED
  BY <1>1, <1>2, <1>3 DEF DataFacts

\* The other syncs are idle while one takes a step, and stay so.
LEMMA StepAlone ==
    ASSUME DataInv, NEW w \in Workers, SyncStep(w) \/ Fail(w)
    PROVE  /\ \A v \in Workers : v # w => pc[v] = "idle" /\ pc'[v] = "idle"
           /\ pc[w] \in SyncSteps /\ head' = head
<1>1. /\ pc[w] \in SyncSteps /\ head' = head
      /\ \E step \in SyncSteps \cup {"idle", "done"} : pc' = [pc EXCEPT ![w] = step]
  BY DEF SyncStep, ReadPrevious, Clone, Fetch, Reset, RevParse, Collect, CollectBad,
         Rebuild, SetLastCommit, SetLastArches, LogSync, Fail, EndSync, Goto,
         SyncSteps
<1>2. Running(w)
  BY <1>1 DEF Running, SyncSteps
<1>3. \A v \in Workers : v # w => pc[v] = "idle"
  BY <1>2 DEF DataInv, AloneInv, OneSyncAtATime, Running
<1>. QED
  BY <1>1, <1>3 DEF DataInv, TypeInv, TypeOK

LEMMA EndingData ==
    ASSUME DataInv, NEW w \in Workers, CollectBad(w) \/ LogSync(w) \/ Fail(w)
    PROVE  DataFacts'
<1>1. /\ UNCHANGED <<head, mirrorVars, catalog, lastCommit, lastArches>>
      /\ logged' = logged \/ (pc[w] = "log" /\ logged' = logged \cup {commit[w]})
      /\ pc'[w] \in {"idle", "done"}
  BY DEF CollectBad, LogSync, Fail, EndSync, Goto, dbVars, DataInv, TypeInv, TypeOK
<1>2. \A v \in Workers : pc'[v] \notin AfterFetch
  BY <1>1, StepAlone DEF SyncStep, AfterFetch
<1>3. LoggedSyncIsShown'
  <2>1. CASE logged' = logged
    BY <1>1, <2>1 DEF DataInv, DataFacts, LoggedSyncIsShown
  <2>2. CASE pc[w] = "log" /\ logged' = logged \cup {commit[w]}
    <3>1. /\ catalog = Promise!TreeOf(checkout) /\ commit[w] = checkout
          /\ checkout \in Commits /\ checkout # None
      BY <2>2 DEF DataInv, DataFacts, AtCheckout, AfterFetch, TypeInv, TypeOK, Fetched
    <3>2. catalog # None /\ catalog.label = checkout
      BY <3>1, ConstantsAssumption DEF Promise!TreeOf, Catalogs, DataInv, TypeInv, TypeOK
    <3>. QED
      BY <1>1, <2>2, <3>1, <3>2
         DEF DataInv, DataFacts, LoggedSyncIsShown, Commits
  <2>. QED
    BY <1>1, <2>1, <2>2
<1>4. (MirrorOrder /\ WholeCatalog /\ LastCommitNotAhead)'
  BY <1>1 DEF DataInv, DataFacts, MirrorOrder, WholeCatalog, LastCommitNotAhead, mirrorVars
<1>5. \A v \in Workers : AtCheckout(v)'
  BY <1>2 DEF AtCheckout, AfterFetch
<1>. QED
  BY <1>3, <1>4, <1>5 DEF DataFacts

\* Fetching: the remote-tracking ref, and with it the work tree, go forward.
LEMMA MirrorData ==
    ASSUME DataInv, NEW w \in Workers,
           ReadPrevious(w) \/ Clone(w) \/ Fetch(w) \/ Reset(w)
    PROVE  DataFacts'
<1>1. /\ UNCHANGED <<dbVars, head>>
      /\ pc'[w] \in {"fetch", "reset", "head"}
      /\ \A v \in Workers : v # w => pc'[v] = "idle"
  BY StepAlone
     DEF SyncStep, ReadPrevious, Clone, Fetch, Reset, Goto, SyncSteps, DataInv, TypeInv, TypeOK
<1>2. MirrorOrder'
  BY <1>1, ConstantsAssumption
     DEF ReadPrevious, Clone, Fetch, Reset, DataInv, DataFacts, MirrorOrder,
         TypeInv, TypeOK, Commits, mirrorVars, dbVars, Catalogs, Fetched
<1>3. (WholeCatalog /\ LastCommitNotAhead /\ LoggedSyncIsShown)'
  BY <1>1 DEF DataInv, DataFacts, WholeCatalog, LastCommitNotAhead, LoggedSyncIsShown, dbVars
<1>4. pc'[w] = "head" => tree' = [p \in Paths |-> checkout']
  BY DEF ReadPrevious, Clone, Fetch, Reset, Goto, DataInv, TypeInv, TypeOK
<1>5. ASSUME NEW v \in Workers PROVE AtCheckout(v)'
  BY <1>1, <1>4 DEF AtCheckout, AfterFetch
<1>. QED
  BY <1>2, <1>3, <1>5 DEF DataFacts

LEMMA ReadData ==
    ASSUME DataInv, NEW w \in Workers, RevParse(w) \/ Collect(w)
    PROVE  DataFacts'
<1>1. /\ UNCHANGED <<head, mirrorVars, dbVars>>
      /\ \A v \in Workers : v # w => pc'[v] = "idle"
      /\ checkout \in Commits
      /\ pc[w] \in {"head", "collect"} /\ tree = [p \in Paths |-> checkout]
  BY StepAlone
     DEF SyncStep, RevParse, Collect, DataInv, DataFacts, TypeInv, TypeOK, Fetched,
         AfterFetch, AtCheckout
<1>2. (MirrorOrder /\ WholeCatalog /\ LastCommitNotAhead /\ LoggedSyncIsShown)'
  BY <1>1
     DEF DataInv, DataFacts, MirrorOrder, WholeCatalog, LastCommitNotAhead,
         LoggedSyncIsShown, mirrorVars, dbVars
<1>3. AtCheckout(w)'
  <2>1. CASE RevParse(w)
    BY <1>1, <2>1
       DEF RevParse, Goto, AtCheckout, AfterFetch, DataInv, TypeInv, TypeOK, mirrorVars
  <2>2. CASE Collect(w)
    <3>1. PICK p \in todo[w] :
              /\ checkout \notin Bad
              /\ records' = [records EXCEPT ![w][p] = checkout]
              /\ todo' = [todo EXCEPT ![w] = @ \ {p}]
              /\ pc' = [pc EXCEPT ![w] = IF todo[w] = {p} THEN "rebuild" ELSE "collect"]
      BY <1>1, <2>2 DEF Collect, Goto, DataInv, TypeInv, TypeOK
    <3>2. /\ \A q \in Paths :
                records'[w][q] = IF q = p THEN checkout ELSE records[w][q]
          /\ todo'[w] = todo[w] \ {p} /\ pc[w] = "collect" /\ commit'[w] = commit[w]
          /\ pc'[w] = IF todo[w] = {p} THEN "rebuild" ELSE "collect"
      BY <3>1, <2>2 DEF Collect, DataInv, TypeInv, TypeOK
    <3>3. \A q \in Paths \ todo[w] : records[w][q] = checkout
      BY <3>2 DEF DataInv, DataFacts, AtCheckout
    <3>4. commit[w] = checkout
      BY <3>2 DEF DataInv, DataFacts, AtCheckout, AfterFetch
    <3>. QED
      BY <1>1, <3>1, <3>2, <3>3, <3>4 DEF AtCheckout, AfterFetch, mirrorVars
  <2>. QED
    BY <2>1, <2>2
<1>4. ASSUME NEW v \in Workers PROVE AtCheckout(v)'
  BY <1>1, <1>3 DEF AtCheckout, AfterFetch
<1>. QED
  BY <1>2, <1>4 DEF DataFacts

\* The catalog becomes that of the commit checked out, a newer one or the same.
LEMMA RebuildShows ==
    ASSUME DataInv, NEW w \in Workers, Rebuild(w)
    PROVE  /\ catalog' = Promise!TreeOf(checkout) /\ catalog' # None
           /\ catalog'.label = checkout
           /\ checkout \in 1 .. head \ Bad
           /\ catalog # None => catalog.label <= checkout
<1>1. /\ checkout \in Commits /\ checkout \notin Bad /\ checkout # None
      /\ commit[w] = checkout /\ \A p \in Paths : records[w][p] = checkout
      /\ records[w] \in [Paths -> Commits \cup {None}]
  BY DEF Rebuild, DataInv, DataFacts, AtCheckout, AfterFetch, TypeInv, TypeOK, Fetched
<1>2. records[w] = [p \in Paths |-> checkout]
  BY <1>1
<1>3. catalog' = Promise!TreeOf(checkout)
  BY <1>1, <1>2 DEF Rebuild, Promise!TreeOf
<1>4. catalog' \in Catalogs
  BY <1>1, <1>3 DEF Catalogs, Promise!TreeOf
<1>5. checkout \in 1 .. head /\ (catalog # None => catalog.label <= checkout)
  BY <1>1, ConstantsAssumption
     DEF DataInv, DataFacts, MirrorOrder, TypeInv, TypeOK, Commits
<1>. QED
  BY <1>1, <1>3, <1>4, <1>5, ConstantsAssumption DEF Promise!TreeOf, Catalogs

LEMMA StoreData ==
    ASSUME DataInv, NEW w \in Workers,
           Rebuild(w) \/ SetLastCommit(w) \/ SetLastArches(w)
    PROVE  DataFacts'
<1>1. /\ UNCHANGED <<head, mirrorVars, localVars, logged>>
      /\ \A v \in Workers : v # w => pc'[v] = "idle"
      /\ pc[w] \in AfterFetch \ {"head"} /\ pc'[w] \in {"last", "arches", "log"}
  BY StepAlone
     DEF SyncStep, Rebuild, SetLastCommit, SetLastArches, Goto, DataInv, TypeInv,
         TypeOK, AfterFetch
<1>2. /\ checkout \in Commits /\ checkout # None /\ commit[w] = checkout
      /\ tree = [p \in Paths |-> checkout]
  BY <1>1 DEF DataInv, DataFacts, TypeInv, TypeOK, Fetched, AtCheckout
<1>3. /\ catalog' = Promise!TreeOf(checkout) /\ catalog' # None
      /\ catalog'.label = checkout /\ checkout \notin Bad
      /\ catalog # None => catalog.label <= checkout
  <2>1. CASE Rebuild(w)
    BY <2>1, RebuildShows
  <2>2. CASE SetLastCommit(w) \/ SetLastArches(w)
    <3>1. catalog' = catalog /\ catalog = Promise!TreeOf(checkout)
      BY <2>2 DEF SetLastCommit, SetLastArches, DataInv, DataFacts, AtCheckout
    <3>2. catalog # None /\ catalog.label = checkout
      BY <3>1, <1>2, ConstantsAssumption
         DEF Promise!TreeOf, Catalogs, DataInv, TypeInv, TypeOK
    <3>. QED
      BY <3>1, <3>2, <1>2 DEF DataInv, DataFacts, WholeCatalog, Commits
  <2>. QED
    BY <2>1, <2>2
<1>4. MirrorOrder'
  BY <1>1, <1>2, <1>3
     DEF DataInv, DataFacts, MirrorOrder, TypeInv, TypeOK, Commits, mirrorVars
<1>5. WholeCatalog'
  BY <1>3 DEF WholeCatalog, Promise!TreeOf
<1>6. LastCommitNotAhead'
  <2>1. lastCommit' = lastCommit \/ lastCommit' = checkout
    BY <1>2 DEF Rebuild, SetLastCommit, SetLastArches
  <2>. QED
    BY <2>1, <1>2, <1>3
       DEF DataInv, DataFacts, LastCommitNotAhead, TypeInv, TypeOK, Commits, Catalogs
<1>7. LoggedSyncIsShown'
  BY <1>1, <1>2, <1>3
     DEF DataInv, DataFacts, LoggedSyncIsShown, TypeInv, TypeOK, Commits, Catalogs
<1>8. ASSUME NEW v \in Workers PROVE AtCheckout(v)'
  BY <1>1, <1>2, <1>3 DEF AtCheckout, AfterFetch, mirrorVars, localVars
<1>. QED
  BY <1>4, <1>5, <1>6, <1>7, <1>8 DEF DataFacts

LEMMA DataNext ==
    ASSUME ~BootOverlaps, DataInv, [Next]_vars
    PROVE  DataInv'
<1>1. TypeInv' /\ AloneInv'
  BY TypeNext, AloneNext DEF DataInv
<1>2. SUFFICES DataFacts'
  BY <1>1 DEF DataInv
<1>3. head \in Commits /\ head' \in Commits
  BY <1>1 DEF DataInv, TypeInv, TypeOK
<1>4. CASE \E w \in Workers : SyncStep(w) \/ Fail(w)
  BY <1>4, EndingData, MirrorData, ReadData, StoreData DEF SyncStep
<1>5. CASE Restart
  <2>1. \A w \in Workers : pc'[w] \notin AfterFetch
    BY <1>5, StartedTypes DEF Restart, AfterFetch
  <2>. QED
    BY <1>5, <2>1, <1>3, OthersKeep DEF Restart, Commits
<1>6. CASE Push
  BY <1>6, <1>3, OthersKeep DEF Push, localVars, Commits
<1>7. CASE \/ PollSkip \/ PollTick \/ PollRead \/ PollFail \/ UNCHANGED vars
           \/ \E h \in Hooks : WebhookRefused(h)
  <2>1. UNCHANGED <<head, mirrorVars, dbVars, pc, commit, todo, records>>
    BY <1>7
       DEF PollSkip, PollTick, PollRead, PollFail, WebhookRefused, vars, mirrorVars,
           localVars, dbVars
  <2>. QED
    BY <2>1, <1>3, OthersKeep DEF Commits
<1>8. ASSUME NEW w \in Workers, NEW step \in {"previous", "idle", pc[w]},
             pc' = [pc EXCEPT ![w] = step],
             UNCHANGED <<head, mirrorVars, localVars, dbVars>>
      PROVE  DataFacts'
  <2>1. \A v \in Workers : pc'[v] \notin AfterFetch \/ pc'[v] = pc[v]
    BY <1>8 DEF DataInv, TypeInv, TypeOK, AfterFetch
  <2>. QED
    BY <1>8, <2>1, <1>3, OthersKeep DEF localVars, Commits
<1>9. CASE PollProbe
  <2>1. CASE UNCHANGED pc
    BY <1>9, <2>1, <1>3, OthersKeep DEF PollProbe, localVars, Commits
  <2>2. CASE RunSync(Poll)
    BY <1>9, <2>2, <1>8 DEF PollProbe, RunSync, Goto, Workers, Triggers
  <2>. QED
    BY <1>9, <2>1, <2>2 DEF PollProbe
<1>10. CASE \E w \in Triggers : ClearFlag(w)
  BY <1>10, <1>8 DEF ClearFlag, Goto, Workers
<1>11. CASE \E h \in Hooks : Webhook(h)
  BY <1>11, <1>8 DEF Webhook, RunSync, Goto, Workers, Triggers
<1>12. CASE \E h \in Hooks : Cancel(h)
  BY <1>12, <1>8 DEF Cancel, Goto, Workers, Triggers
<1>. QED
  BY <1>4, <1>5, <1>6, <1>7, <1>9, <1>10, <1>11, <1>12 DEF Next

\* The recipes shown are of the one commit they are stamped with, whatever
\* fails, is cancelled or restarts, as long as triggers leave the boot sync
\* alone.
THEOREM OneCommit ==
    ASSUME ~BootOverlaps
    PROVE  Spec => []CatalogFromOneCommit
<1>1. DataInv /\ [Next]_vars => DataInv'
  BY DataNext
<1>2. DataInv => CatalogFromOneCommit
  BY DEF DataInv, DataFacts, WholeCatalog, CatalogFromOneCommit, Promise!TreeOf
<1>. QED
  BY DataInit, <1>1, <1>2, PTL DEF Spec

\* The commit the poll loop takes for the one shown is never a newer one.
THEOREM NotAhead ==
    ASSUME ~BootOverlaps
    PROVE  Spec => []LastCommitNotAhead
<1>1. DataInv /\ [Next]_vars => DataInv'
  BY DataNext
<1>2. DataInv => LastCommitNotAhead
  BY DEF DataInv, DataFacts
<1>. QED
  BY DataInit, <1>1, <1>2, PTL DEF Spec

\* The sync log never runs ahead of the catalog: what an entry reports as
\* synced was shown before the entry was written, and is never taken back.
THEOREM LoggedIsShown ==
    ASSUME ~BootOverlaps
    PROVE  Spec => []LoggedSyncIsShown
<1>1. DataInv /\ [Next]_vars => DataInv'
  BY DataNext
<1>2. DataInv => LoggedSyncIsShown
  BY DEF DataInv, DataFacts
<1>. QED
  BY DataInit, <1>1, <1>2, PTL DEF Spec

-----------------------------------------------------------------------------
(* The refinement *)

LEMMA PromiseStep ==
    ASSUME DataInv, [Next]_vars
    PROVE  [Promise!Next]_(Promise!vars)
<1>1. CASE \E w \in Workers : Rebuild(w)
  <2>1. PICK w \in Workers : Rebuild(w)
    BY <1>1
  <2>2. /\ catalog' = Promise!TreeOf(checkout)
        /\ checkout \in 1 .. head \ Bad
        /\ catalog # None => catalog.label <= checkout
        /\ UNCHANGED <<head, lastCommit>>
    BY <2>1, RebuildShows DEF Rebuild
  <2>3. CASE catalog # None /\ catalog.label = checkout
    BY <2>2, <2>3 DEF DataInv, DataFacts, WholeCatalog, Promise!vars
  <2>4. CASE catalog # None => catalog.label # checkout
    <3>1. catalog # None => catalog.label < checkout
      <4>1. catalog # None => catalog.label \in Nat
        BY ConstantsAssumption DEF DataInv, TypeInv, TypeOK, Commits, Catalogs
      <4>. QED
        BY <2>2, <2>4, <4>1
    <3>2. checkout \in Promise!Commits
      <4>1. head \in 1 .. MaxCommit /\ MaxCommit \in Nat
        BY ConstantsAssumption DEF DataInv, TypeInv, TypeOK, Commits
      <4>. QED
        BY <2>2, <4>1 DEF Promise!Commits
    <3>. QED
      BY <2>2, <3>1, <3>2 DEF Promise!Show, Promise!Next
  <2>. QED
    BY <2>3, <2>4
<1>2. CASE \E w \in Workers : SetLastCommit(w)
  <2>1. PICK w \in Workers : SetLastCommit(w)
    BY <1>2
  <2>2. /\ catalog = Promise!TreeOf(checkout) /\ commit[w] = checkout
        /\ checkout \in Commits
    BY <2>1, ConstantsAssumption
       DEF SetLastCommit, DataInv, DataFacts, AtCheckout, AfterFetch, TypeInv, TypeOK, Fetched
  <2>3. catalog # None /\ catalog.label = checkout
    BY <2>2, ConstantsAssumption
       DEF Promise!TreeOf, Catalogs, DataInv, TypeInv, TypeOK
  <2>. QED
    BY <2>1, <2>2, <2>3 DEF SetLastCommit, Promise!Note, Promise!Next
<1>3. CASE Push
  BY <1>3 DEF Push, dbVars, Promise!Push, Promise!Next
<1>4. ASSUME NEW w \in Workers, SyncStep(w) \/ Fail(w), ~Rebuild(w), ~SetLastCommit(w)
      PROVE  UNCHANGED Promise!vars
  BY <1>4
     DEF SyncStep, ReadPrevious, Clone, Fetch, Reset, RevParse, Collect, CollectBad,
         SetLastArches, LogSync, Fail, dbVars, Promise!vars
<1>5. CASE \/ PollSkip \/ PollTick \/ PollRead \/ PollProbe \/ PollFail \/ Restart
           \/ \E w \in Triggers : ClearFlag(w)
           \/ \E h \in Hooks : Webhook(h) \/ WebhookRefused(h) \/ Cancel(h)
           \/ UNCHANGED vars
  BY <1>5
     DEF PollSkip, PollTick, PollRead, PollProbe, PollFail, Restart, ClearFlag, Webhook,
         WebhookRefused, Cancel, vars, dbVars, Promise!vars
<1>. QED
  BY <1>1, <1>2, <1>3, <1>4, <1>5 DEF Next

\* Synchronization implements the abstract catalog, for any number of webhooks,
\* recipes and commits, cancelled handlers, failures and restarts included, as
\* long as triggers leave the boot sync alone.
THEOREM SyncImplementsCatalog ==
    ASSUME ~BootOverlaps
    PROVE  Spec => ImplementsCatalog
<1>1. Init => Promise!Init
  BY DEF Init, Promise!Init
<1>2. DataInv /\ [Next]_vars => DataInv'
  BY DataNext
<1>3. DataInv /\ [Next]_vars => [Promise!Next]_(Promise!vars)
  BY PromiseStep
<1>. QED
  BY DataInit, <1>1, <1>2, <1>3, PTL DEF Spec, ImplementsCatalog, Promise!Spec
=============================================================================
