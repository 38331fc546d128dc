# Recipedia in TLA+

Recipedia is a hub for Sage packages. It mirrors a git tree of recipes, hosts the
binary packages builders upload, and reports for every recipe whether its build
is published. The server is one process (tokio and axum, blocking work on a
thread pool) over one LMDB environment, one git mirror and one directory of
published files. These modules specify what it does where several of its parts
work at once, where calls fail or the process stops, and where the same tables
are read in several ways.

## 1. Inventory

| Component | State it keeps | Operations | What is hard |
|---|---|---|---|
| Artifact repository (`repo.rs`, `web.rs`, tables of `db.rs`) | tables `published`, `files`, `logs`; channel directories; `.incoming-*` staging files; one index per directory | publish, unpublish, upload log, rebuild indexes | handlers run concurrently with no lock; several transactions and file operations per request; clients disconnect; stops in between |
| Recipe synchronization (`sync.rs`, `bin/server.rs`, `trigger_sync` in `web.rs`) | git mirror; table `recipes`; `last_commit`, `last_changed_arches`; `sync_log`; the flag `syncing` | boot sync, webhook, poll | three triggers and one flag; dropped handlers; three transactions; lost webhooks |
| Build status (`status.rs`, `web.rs`, `db.rs`, `model.rs`) | none: derived from `recipes` and `published` | list, status API, detail page, receipt | several ways of choosing the build to compare with; epochs, releases, `-any`, qualified channels |
| Signing key (`ensure_signing_key` in `repo.rs`) | key file, public key file | create on first use | two first rebuilds, a stop between create and write |
| Publisher CLI (`bin/recipedia.rs`) | none (credentials file) | ETag probe, upload, log, withdraw | a retry after an unknown outcome; the probe trusts the server's hash |
| Download (`repo_file`, `package_detail` in `web.rs`) | none | conditional GET, package page | length, hash and bytes read at three moments; row and file list at two |
| Channel and file names (`repo.rs`) | none | validate, map a channel to a directory | `system` and `main/system` are one directory |
| Times (`time_utc` in `db.rs`) | none | seconds to a calendar date | a pure function |
| Tokens, webhook signatures | table `tokens` | mint, check, verify | none of the modelled state depends on them |
| Configuration, views, templates | none | read, render | presentation |

They interact through the database and the file system. The repository's
handlers write `published`, `files` and `logs` and the channel directories; a
sync replaces `recipes`; the status pages and the download handler read both
sides while they change; the publisher decides what to upload from the hash the
server answers with. What makes each correct:

- repository: row, archive, file list and index agree once requests are over; what
  is withdrawn is gone;
  nothing torn can be downloaded; metadata never outlives its row; a failed
  request is repaired by a later one; every request ends.
- synchronization: never two triggered syncs at once; the catalog is one commit's; the
  commit the poll loop compares is not ahead of the catalog; the hub catches up
  with the branch.
- status: a package is missing only if nothing fits it; built means that very
  build exists; an old rebuild changes nothing; the comparison is with the
  newest build; the receipt of an upload says what the page will say.
- publisher: what it reports is stored; run again, it gets the archive stored
  whatever earlier runs left behind.
- download: length, hash and bytes of an answer are of one archive.
- signing key: one key, its own public half, and a hub that comes to have both.

`PROJECT.json` lists the hazards of the code line by line and the properties
that cover each.

## 2. Plan

Written, in this order: `Repository`, `RecipeSync` and `BuildStatus`; the abstract
specifications `Shelf` and `Catalog` that the first two implement; `SigningKey`;
`Publisher` and `Download`, which extend `Repository` with a client and a reader.
Proved about: `Repository` with its refinement of `Shelf`, `Download`, `RecipeSync` with
its refinement of `Catalog`, `SigningKey`, `BuildStatus`, `Publisher`. Every safety
property of a passing run is a theorem.

Next:

1. A shelf for shared names: what two concurrent requests for one file may leave
   behind, once the code says so. Until then `repo_shared` checks that they end.
2. The composition of `SigningKey` with the rebuilds of `Repository`: a rebuild
   that fails for want of a key is a `Fail` at `plan` today.

| Module | Extends or instantiates | Role |
|---|---|---|
| `Shelf`, `Catalog` | | abstract specifications |
| `Repository` | `INSTANCE Shelf` | requests of the artifact repository |
| `Publisher`, `Download` | `EXTENDS Repository` | a builder, a visitor beside it |
| `RecipeSync` | `INSTANCE Catalog` | the three triggers and the sync they run |
| `SigningKey`, `BuildStatus` | | |
| `RepositoryProofs`, `RecipeSyncProofs`, `SigningKeyProofs`, `BuildStatusProofs` | `EXTENDS` the module | theorems |
| `ShelfProofs`, `AnswerProofs` | `EXTENDS` `RepositoryProofs`, `ShelfProofs` | theorems on contents, the refinement; on answers |
| `DownloadProofs` | `EXTENDS` `Download`, `ShelfProofs` | theorems on what visitors get |
| `PublisherProofs` | `EXTENDS` `Publisher`, `ShelfProofs` | theorems on what the command reports |
| `MC*` | `EXTENDS` the module | instances for TLC |

## 3. The modules

`MC*.tla` instantiate a module for TLC; `*Proofs.tla` hold the theorems about it.
Operators named as mutants are variants of the action that follows them, the way
a plausible bug would change it; each property has one that breaks it.

### Repository

Every table call of `db.rs` is one LMDB write transaction and every file call one
system call; a handler is a sequence of them, so `pc[r]` says which comes next.
The path of a publish is

    upload -> inspect -> previous [-> clear] -> rename -> upsert -> files
           -> plan -> (scan -> write)* -> reply

with `StartPublish` ... `EndOfBody` for `web::publish` and the rest for
`repo::ingest` and `regenerate_index`. An unpublish is `delete -> unlink -> plan
...`, a log upload one check (`StartLog`) and one write (`PutLog`).

- An archive is a model value received in `NChunks` pieces. A file is a function
  from pieces to archives, so a file that is incomplete or mixed differs from
  `Whole(a)`. The hash, the manifest and the file list of an archive are named by
  the archive: rows keep the hash of the body (`sha`) and the inspected manifest
  (`meta`) separately, as `ingest` does.
- `WriteChunk` may come after `EndOfBody`: `tokio::fs::File` writes on another
  thread, and the code drops the file without a flush. Descriptors (`fd`) follow
  POSIX: `rename` takes the inode along, `unlink` and replacement leave it to its
  open descriptors.
- `AbortUpload` is a body that ends in an error (the handler removes the staging
  file); `DropUpload` is a handler dropped by the server when its connection
  closes (nothing is removed). `Reject` is an error of `ingest`: the handler
  removes the staging file unless it was itself dropped meanwhile.
- `Fail` and `Crash` (constant `Faults`) are errors of any database or file call
  and a stop of the process followed by a start. What was written stays written:
  losing the page cache with the machine is not modelled.
- `PlanIndex`, `ScanDir` and `WriteIndex` separate what `regenerate_index` reads
  from what it writes. Sage's indexer is external; that it fails on a file it
  cannot read is assumed.
- `SharedNames = FALSE` is a scenario bound: requests that run at the same time
  name different files, as when each builder publishes its own packages. The
  properties about content hold there; `RepositoryShared` and `PublisherRetry`
  lift it.
- `UnpublishTakesEffect` speaks of the one directory a withdrawal looks into, whatever
  failed before; `WithdrawnIsGone` of all of them, as long as nothing fails.
- Refusals before the first change (authorization, names, size limits) are left
  out: they change nothing.

### Shelf

One archive or none under each file name. A request asks, takes the place of its
file (nothing is promised of the place meanwhile), settles it and ends, or is
refused before it takes the place. `Repository` implements it (`ImplementsShelf`)
under this mapping: a file is being moved while a request is in its *exchange*,
the steps between the first and the last change of archive, row and file list
(`InExchange`: from the removal of the old copy or the rename to the file list;
the unlink of a withdrawal); otherwise its place holds archive `a` if row, file
list and exactly one directory are of `a` (`HoldsOnly`), is empty if there is none
of them (`HoldsNothing`), and is "broken", a value `Shelf` never reaches, in any
other case. Log uploads and index rebuilds are stutters.

### Publisher

The command line client as a sequential process (`cmd`): `Publish` collects the
files, then per file `Hash`, the probe (`Present` or `Absent`: any answer that is
not the matching ETag leads to an upload, an error included), `Post`, and after a
receipt `AttachLog`; `Withdraw` is the other command. `conn` names the request of
`Repository` that serves the call under way. `HubStep` runs the hub: a request
that ends while its client waits ends the call (`CallSucceeds`, `CallFails`), one
whose client has gone ends unnoticed. `Break` is a connection that breaks or a
command that is interrupted: the client forgets the request, the hub does not.
`Build` replaces the builder's file at any time, between hash and upload as well;
`Verify` is the comparison of the announced hash. A file has one builder here.

`told` is a history variable: what the commands have reported as published, until
the builder posts another archive or its withdrawal takes effect. `calm` is the
environment's: from some moment on, which the program does not see, connections
hold and calls succeed. In calm times the last write of a body reaches
the file before `ingest` starts; what the missing flush can do is checked with
`Repository` (`RejectUpload` of a file that is not whole) and here before `calm`.

### Download

One visitor, whose answer takes `Stat`, `Tag` and `Open` (`repo_file`) or `PageRow`
and `PageFiles` (`package_detail`: the row, then the file list). A 304 ends at
`Tag`. The descriptor `Open` returns keeps its inode, so the bytes are the file's at
that moment. `crossed` remembers whether the file asked for was in its exchange
at any moment of the read; the properties speak of the other reads, and of
whole uploads, index rebuilds and exchanges of other files that go on meanwhile.

### SigningKey

The calls of `ensure_signing_key`, one step each, by any number of rebuilds at
once: `Exists`, `Create` (`create_new`), `Write`, `SetMode`, `ReadKey`, `PubExists`,
`PubOpen` and `PubWrite` (the two halves of `fs::write`), then `Sign` by the
indexer, which is given the path and reads the key again. A key is named by the
rebuild that drew it. `Fail` and `Stop` end one rebuild or all of them anywhere;
`MaxFaults` bounds them.

### RecipeSync

A commit is its number on the remote branch; force-pushes are not modelled. The
work tree is kept per file, because `collect_recipes` walks it while only the flag
keeps another sync from resetting it. `ReadPrevious` ... `LogSync` are the steps of
`run_sync`; `Rebuild`, `SetLastCommit` and `SetLastArches` are three transactions.
`RunSync` is the `swap` in `trigger_sync`, `ClearFlag` the `store` after the await,
`Cancel` the loss of a webhook's connection: the handler, with the `store`, is
gone, the worker runs on. The poll loop looks at the flag (`PollTick`), reads
`last_commit` (`PollRead`), probes the remote (`PollProbe`); skipped ticks and
refused webhooks change nothing.

`Bad` are commits with a recipe that does not load (or a duplicate).
`BootOverlaps = FALSE` bounds the scenario to triggers that arrive after the boot
sync, `MayCancel = FALSE` to clients that wait for their answer. `MaxFaults` bounds
failed calls and restarts together, `MaxCommit` the pushes. Fetch, reset and clone
are atomic: git's own recovery is not this code. Entries of the sync log about
failures are left out.

`Catalog` is the promise: what is shown is one loadable commit and moves forward
only, what is known was shown before. `ImplementsCatalog` maps the recipe table to
`shown` and `last_commit` to `known`; `Rebuild` is `Show`, `SetLastCommit` is `Note`.

### BuildStatus

The tables hold the recipes and the published rows of one package name; a
sync, an upload and a withdrawal change them in one transaction each. Versions
are triples `<<epoch, version, release>>` compared in Sage's order (external), with
the version component a number. `PublishedLatestByArch`, `PickPublished`,
`DeriveWithEpoch` and the page states are pure operators over the tables, with
each sort written as the key it sorts by, ties included: a stable sort keeps the
order of the list before it. Recipe architectures are canonical as `package_row`
makes them, manifests may spell them otherwise. A channel is the sequence of its
segments, since `channel_match` looks at the last one.

`ViewState` (lists and status page), `ApiState`, `ApiPackageState` and `DetailState`
are what the pages answer, `OrphanState` the page of a package whose recipe is
gone, `ReceiptState` the answer to an upload. `Sources` bounds the recipe tables a
sync may leave, `Uploads` what archives say of themselves.


## 4. The runs

| Run | What it asks | Bounds |
|---|---|---|
| `repo_concurrent` | do rows, archives and file lists agree between requests while another request runs, is what is withdrawn gone, and is the shelf implemented | 2 requests, 2 files, 2 archives in 2 channels, 2 pieces |
| `repo_failures` | what holds whatever fails and wherever the process stops | 1 request at a time, 2 files, 2 archives and channels, 2 pieces, unlimited failures |
| `repo_shared` | does every request end | 2 requests on 1 file, fairness |
| `publisher` | is what the command reports stored, and does repeating it get the archive through | 1 file, 3 builds of it over 2 channels, 2 pieces, unlimited failures, stops and breaks until calm, fairness |
| `download` | are the separate reads of an answer of one archive | 1 request at a time, 2 files, 2 archives and channels, 2 pieces, 1 visitor |
| `signing_key` | one key, its public half behind every signature, and does the first use end with a pair | 3 rebuilds, 2 faults, fairness |
| `sync_catch_up` | everything a sync promises, with triggers after the boot sync | 2 webhooks that may be cancelled, poll, 2 recipe files, 3 commits with a bad one, 2 faults, fairness |
| `status_pages` | missing means no build; built means built; receipts and orphans agree; old rebuilds change nothing | at most 2 recipes, 2 files, 2 slots, a plain and two qualified channels, 2 spellings and `any`, 3 versions, 2 times |
| `repo_index_race`, `publisher_retry`, `sync_cancelled`, `sync_lost_update` | comments the code contradicts | as small as shows it |

Why the bounds are enough. A publish, an unpublish and a log upload interfere in
pairs, through one directory, one index or one row: two requests and two files
give every pair, two channels a file that moves. Two pieces are the fewest that
tell a whole file from a torn one and leave a last write pending. Failures need no
second request, because a failed or stopped request leaves its traces to the next;
there the requests follow one another without a limit. The publisher's commands
treat their files one after the other and keep nothing between them but which are
left, and their properties speak of one file; three builds let a file change twice,
to another channel and back, while requests of interrupted commands are over
before the next one uses the file (`SharedNames = FALSE`) and the builder never puts
an earlier build back (`MCForward`). `publisher_retry` lifts the first. What a
reader sees depends on the one request that exchanges its file; a
second file is exchanged, withdrawn and indexed beside it. Three rebuilds are
enough for one that creates the key, one that loses the race and one that comes
later. In the sync two recipe files are the fewest a walk can read from different
commits; three commits allow a bad one between two good ones. Two files are the
fewest that make the status pages choose, and two recipes the fewest that make the
receipt and the detail page choose theirs.

`MCRepository`, `MCDownload` and `MCPublisher` identify states that differ only in
what a finished request last named or in a staging file nobody has open:
`File::create` truncates the latter and a new request overwrites the former, so
nothing reads them. `MCDownload` does the same with the fields of an answer that no
later step and no property reads. Symmetry and these views are used only in runs
without liveness properties.

Fairness. `FairSpec` of `Repository` assumes weak fairness of the steps on the
blocking pool (a spawned blocking task runs to its end and its handler resumes);
`FairSpec` of `RecipeSync` assumes it of sync steps, of handlers that clear the flag
and of the poll loop (its interval ticks for ever). `FairSpec` of `SigningKey` lets
running rebuilds go on and new ones come, as every upload brings one.
`FairClientSpec` assumes that the builder runs its command again when it has ended
(`Client`) and that the hub goes on with each request (`HubStep`); it does not assume
that trouble ends: `GetsThrough` says what follows if it does (`calm`) and the builder
neither rebuilds nor withdraws any more. Clients of `Repository`, pushes, webhooks
and failures are not assumed to happen or to stop happening; `MaxFaults` bounds the
failures of `RecipeSync` and `SigningKey`.

`CatchUpUnlessStuck` and `FirstUseCompletes` name the states from which the code
does not recover (`Stuck`: the flag is up and no handler is left to lower it;
`Abandoned`: a key file created and never written) and claim that there are no
others. `sync_cancelled` shows that the first can last.

## 5. What the runs found

Each is a run that TLC ends with a counterexample; the quoted line is in
`PROJECT.json`.

1. Concurrent publishes into a channel can leave its index without one of them
   (`repo_index_race`).
2. A publish command repeated while the hub still works on the upload of an
   interrupted one truncates the staging file both share; the torn file is stored
   beside the hash of the whole one, and the next command skips the archive as
   already published (`publisher_retry`).
3. The boot sync does not raise the flag that is to keep syncs apart; a triggered
   sync that overlaps it can leave the catalog behind `last_commit` for good
   (`sync_lost_update`).
4. A webhook whose client disconnects leaves the flag up for good
   (`sync_cancelled`).

More was met while modelling and has no run:

- A failure between the file operations of `ingest` and its upsert leaves the old
  hash over new bytes, or over no file (`ReadPrevious` ... `Upsert`). The publisher
  repairs it when it uploads the new archive again (`GetsThrough`); a visitor who
  compares the hash meanwhile cannot tell, and a builder that puts the earlier build
  back is told that it is published already.
- When such a failure hits a publish into another channel, the row names the old
  channel and the archive lies in the new one. A withdrawal then removes the row, looks
  into the old channel only and is answered; the archive stays downloadable and
  indexed (`DeleteRow`, `Unlink`). `WithdrawnIsGone` therefore holds without failures.
- The boot sync does not look at the flag either: a webhook or poll that arrives
  during it starts a second sync over the same mirror (`RunSync` with `BootOverlaps`).
- A log can be stored for a file that has just been withdrawn (`StartLog`, `PutLog`).
- An archive republished under its name keeps the log of the one it replaced until
  another is attached; a log is read after the upload it is attached to.
- An upload whose index rebuild fails is recorded all the same, and the repeated
  command skips it: the index waits for the next request that is not skipped.
- A stop between the creation and the writing of the private key leaves a file that
  every later rebuild fails on; one between those of the public key leaves an empty
  file that every later rebuild takes for the key: indexes are signed and nobody can
  verify them (`Abandoned`).
- The status API reports a superseded recipe version as ahead although its build is
  published: only the newest build is looked at (`PublishedLatestByArch`).
- `pick_published` orders builds without their epoch (`PickRank`), and the detail
  page without an architecture shows the first one by name, not the one with the
  newest recipe (`SelectedArch`).

## 6. What is proved

All theorems hold for any values of the constants that satisfy the module's
`ConstantsAssumption` (for `Publisher` also `PublisherAssumption`): numbers are in
their ranges, functions have their domains, tables are finite, and `None` is no row,
archive or name. A further assumption of a theorem is named with it.

`RepositoryProofs`:

- `TypeSafe`: `Spec => []TypeOK`. `TypeOK` alone is not inductive: a late write goes
  through a descriptor to a file that must be there, and must have a piece left to
  write. `TypeInv` adds `Holds`, which says that of every open descriptor
  (`TypeCorrect`).
- `MetadataSafe`: `[]MetadataHasRow` under `~SharedNames`. The file list is written
  after the row, so between the two steps the row must be kept by the fact that no
  other running request names the file (`Owned`); `RowThere` says which steps of a
  request know their row to be there. Failures and stops are included.

`ShelfProofs`, for any number of requests that name different files while they run
(`~SharedNames`). Every step of a request stays away from the other requests and
from every file but its own (`Apart`: `BeginApart`, `StepApart`), so each invariant is
proved of the request that steps and its file alone.

- `NothingTorn`: `[]StoredWhole`, failures and stops included. The invariant
  `StagingInv` adds that an upload has written what it has received (`Pieces`), that
  only a request at the upload or the inspection has an open descriptor, and only on
  the staging name, and that an inspected file is the whole archive that was sent:
  a rename never takes a writer along.
- `RowsMatch` and `NothingLeftBehind`: `[]RowMatchesArchive`, `[]OnlyPublishedStored`,
  without failures (`~Faults`: a request that fails inside its exchange leaves a
  mixture, see section 5). `ContentInv` says what a request knows of its file half way
  through an exchange (`Place`), and that a file nobody exchanges is all of one
  archive or absent (`Consistent`).
- `RepositoryImplementsShelf`: `Spec => ImplementsShelf` under the same assumptions, by
  the step simulation (`ShelfStep`): a start is an `Ask`; the removal of the old copy,
  the rename without one and the removal of a row are a `Take`; the file list and
  the unlink a `Settle`; every end an `End`; the rest stutters.

`AnswerProofs`, failures and stops included:

- `AnswersTrue`, for any number of concurrent requests on different files
  (`~SharedNames`): when a publish answers, the row, the file list and the archive of
  its file are the uploaded ones; when a withdrawal answers, row, file list and log are
  gone, and the archive from the directory the row named (`AnswersStored`). The
  invariant says what a publish or a withdrawal has stored by each step (`Effect`).
- `WithdrawalComplete`, for as many requests, but without failures (`~Faults`):
  `[]WithdrawnIsGone`. No directory is left with a copy, because `ContentInv` has every
  stored archive at rest lie where its row points; section 5 says what a failure does to
  that.
- `IndexesRepaired`, `ReceiptTrue` and `WithdrawalTrue`, for requests that follow one
  another (`OneRequest`): `[]IndexMatchesDirectories`, `[]PublishTakesEffect`,
  `[]UnpublishTakesEffect`. The invariant adds which directories a rebuild under way
  has done (`Indexed`). With two requests the index may be wrong: `repo_index_race`.
- `WithdrawalUnlisted`, from both (`~Faults`, `OneRequest`): no index of any channel
  lists what was withdrawn.

`DownloadProofs`: `ReaderTypes` is `[]ReaderTypeOK`, with failures and for requests
that share a file. Under `~SharedNames` and `~Faults`, `DownloadsExact`,
`NotModifiedTrue` and `PagesConsistent` are the three properties of `Download`. A file
that is exchanged neither before nor after a step is left alone by it (`FileAtRest`),
so what a read that met no exchange has seen is still there (`ReadSoFar`).

`PublisherProofs`, with failures, stops, broken connections and rebuilds:

- `ClientTypes`: `[]ClientTypeOK`, for requests that share a file as well.
- `ReportIsTrue` (`[]ToldIsStored`), for any number of files and of requests that name
  different ones (`~SharedNames`; `publisher_retry`
  shows what happens otherwise) and a builder that never goes back to an earlier
  build: `OnlyForward(Age)` asks for numbers `Age` of the archives that grow with
  every rebuild, as `a1`, `a2`, `a3` numbered 1, 2, 3 do in the runs. The code does
  not see to that, and without it the old hash over new bytes of section 5 makes a
  command skip an archive the hub has lost. With it the invariant `PublishInv` can say
  what a failed upload leaves behind: a row without its archive is older than the
  builder's file and than the hash a command has at hand (`FileOrder`), so the probe
  never matches it; what is on its way is not older than the row (`RequestOrder`); and
  an archive once reported is only replaced by an upload that brings it again (`Kept`),
  because the next `Post` of the file ends the report. The proof takes a step of a
  request apart into what other requests and files see of it (`ElsewhereStep`), its own
  file (`ServedOrder`: every step but the removal of a row keeps the order) and its
  client (`WaitAtHand`, `AnswerIsTrue`).

`RecipeSyncProofs`:

- `SyncTypes`: `[]TypeOK`. The invariant `TypeInv` adds `Fetched`: a worker past the
  fetch finds a commit in the mirror, and one past `rev-parse` has it.
- `SyncExclusion`: `[]TriggeredSyncsExclusive` for any number of webhooks, boot
  overlap, cancellations, failures and restarts. The invariant adds that the flag is
  up while any triggered sync runs (`FlagCoversSyncs`): a cancelled handler keeps it
  up, and only the handler of the one running sync lowers it.
- The rest assumes `~BootOverlaps`: triggers come after the boot sync, which the code
  does not see to (section 5). One sync then runs at a time, which is a part
  of the invariant (`AloneInv`) and no theorem of its own. With it the
  mirror, the records and the catalog can be followed through it: `DataInv` says that
  the remote-tracking ref, the checkout and the head are in order (`MirrorOrder`),
  that the work tree and the records collected so far are of the commit at hand
  (`AtCheckout`), and that the catalog is one commit's (`WholeCatalog`). From it
  follow `OneCommit` (`CatalogFromOneCommit`), `NotAhead` (`LastCommitNotAhead`) and
  `LoggedIsShown` (`LoggedSyncIsShown`).
- `SyncImplementsCatalog`: `Spec => ImplementsCatalog`. `Rebuild` is a `Show` of a newer
  loadable commit or changes nothing, `SetLastCommit` a `Note`, `Push` itself; every
  other step is a stutter (`PromiseStep`, one case per action).

`SigningKeyProofs`:

- `KeyTypes`, `KeySafe` and `PublicKept`: `[]TypeOK`, `[]OneKey`, `[]SignedHasPublic`. The
  invariant `KeyInv` adds that whatever was read, published or signed with is the
  key in the file (`OnlyFromFile`), that at most one rebuild is about to write that
  file and then it is empty (`OneWriter`), and that signing follows the public file,
  which is complete or about to be as long as no call has failed (`PublicFirst`).

`BuildStatusProofs`, for recipe tables and published tables of any size:

- `TypesCorrect`: `[]TypeOK`. `TablesInv` adds that the recipe table is finite, which
  its bound `Sources` gives it: every page takes the first row of a sort.
- A sort is written as its key (`Least`, `LexLess`), so the proofs start with keys:
  `LexLess` is transitive and total on keys of one length (`LexTransitive`, `LexTotal`),
  a finite table has a first row (`LeastExists`, from the well-foundedness of strict
  subsets) and a key that begins with the version puts a newest row first
  (`NewestFirst`). The lemmas named `...Found`, `DetailNewest` and `NewestRecipe` say so
  of each sort of the code.
- `MissingIsTrue` and `BuiltIsTrue`: keeping one newest build of each channel, slot
  and architecture (`PublishedLatestByArch`) keeps a build that fits if there is one
  (`LatestFacts`, `PickFacts`), and what is picked fits.
- `OrphanIsTrue` and `ReceiptIsTrue`: the pages that choose by different keys choose
  rows of the same version where it matters (`DetailNewest`, `DetailRecipeFound`).
- `OldRebuildIsHarmless`: a row added after a newer one of its coordinate changes none
  of the choices (`LeastKept`, `NewestKept`, `NewestForKept`).

Only model-checked: the liveness properties `EveryRequestAnswered`, `GetsThrough`,
`FirstUseCompletes` and `CatchUpUnlessStuck`, which are out of the prover's reach (fairness
and `ENABLED`). What is proved of `Repository` and `Download` under `~SharedNames`,
`~Faults` or `OneRequest` is proved under the assumptions of the run that checks it, or
weaker ones, for any number of the rest.

## 7. Not modelled

Names and channels are predicates on strings whose result the modules take as
constants. Tokens and signatures refuse requests before any modelled change.
`time_utc` is a pure function of one number. Configuration, search, categories,
providers, reverse dependencies, the repository listing and templates only read.
The commands `login` and `status` write a credentials file and print. LMDB, git and
the Sage crates are external: their calls are atomic steps that succeed or fail.
