---------------------------- MODULE BuildStatus -----------------------------
(***************************************************************************)
(* The build state the hub reports for the recipes of one package name. It *)
(* is never stored: every page derives it from the recipe table and the    *)
(* published table, which syncs, uploads and withdrawals change at any     *)
(* time. The pages choose the build to compare with in different ways.     *)
(*                                                                         *)
(* A version is <<epoch, version, release>>, ordered as Sage orders it. A  *)
(* channel is the sequence of its segments.                                *)
(***************************************************************************)
EXTENDS Integers, Sequences, FiniteSets

CONSTANTS
    Spellings,     \* architecture names manifests use
    Canonical,     \* Canonical[s]: canonical_arch(s)
    ArchRank,      \* alphabetical order of the canonical names
    Channels, ChannelRank,
    Slots,
    Versions,
    Filenames,     \* published files, numbered in the order of their names
    Sources,       \* bound: the recipe tables syncs leave behind
    Uploads,       \* bound: what the archives of builders say of themselves
    MaxTime,       \* bound: distinct upload times
    None

Any == "any"
Arches == {Canonical[s] : s \in Spellings}

Recipes == [arch : Arches, channel : Channels, slot : Slots, v : Versions]
Manifests == [arch : Spellings, channel : Channels, slot : Slots, v : Versions]
Rows == [arch : Arches, channel : Channels, slot : Slots, v : Versions,
         at : 1 .. MaxTime]

\* A row together with the name of its file.
Builds == [file : Filenames, arch : Arches, channel : Channels, slot : Slots,
           v : Versions, at : 1 .. MaxTime]

ASSUME ConstantsAssumption ==
    /\ Versions \subseteq Nat \X Nat \X Nat
    /\ \A a \in Arches : a \in Spellings /\ Canonical[a] = a
    /\ Slots \subseteq Nat /\ Filenames \subseteq Nat
    /\ ArchRank \in [Arches -> Nat] /\ ChannelRank \in [Channels -> Nat]
    /\ \A c \in Channels : c \in Seq(STRING) /\ c # <<>>
    /\ Sources \subseteq SUBSET Recipes /\ Uploads \subseteq Manifests
    /\ MaxTime \in Nat \ {0}
    /\ IsFiniteSet(Filenames) /\ \A new \in Sources : IsFiniteSet(new)
    /\ None \notin Rows /\ None \notin Builds

VARIABLES
    recipes,    \* the recipe table, for this name
    published,  \* filename -> [an upload, the time it was stored] or None
    now

vars == <<recipes, published, now>>

TypeOK ==
    /\ recipes \subseteq Recipes
    /\ published \in [Filenames -> Rows \cup {None}]
    /\ now \in 1 .. MaxTime

Init ==
    /\ recipes = {}
    /\ published = [f \in Filenames |-> None]
    /\ now = 1

\* A sync replaces the table; two recipes never share all of their coordinate.
Sync(new) ==
    /\ recipes' = new
    /\ UNCHANGED <<published, now>>

\* Mutant of Upload: the row is stored without a time.
UploadUnstamped(f, u) ==
    /\ now' \in {now, now + 1} \cap 1 .. MaxTime
    /\ published' = [published EXCEPT ![f] =
                        [arch |-> Canonical[u.arch], channel |-> u.channel,
                         slot |-> u.slot, v |-> u.v, at |-> 0]]
    /\ UNCHANGED recipes

\* The row has the canonical architecture already; two uploads may fall into
\* the same second.
Upload(f, u) ==
    /\ now' \in {now, now + 1} \cap 1 .. MaxTime
    /\ published' = [published EXCEPT ![f] =
                        [arch |-> Canonical[u.arch], channel |-> u.channel,
                         slot |-> u.slot, v |-> u.v, at |-> now']]
    /\ UNCHANGED recipes

Withdraw(f) ==
    /\ published[f] # None
    /\ published' = [published EXCEPT ![f] = None]
    /\ UNCHANGED <<recipes, now>>

Next ==
    \/ \E new \in Sources : Sync(new)
    \/ \E f \in Filenames :
        Withdraw(f) \/ \E u \in Uploads : Upload(f, u)

Spec == Init /\ [][Next]_vars

-----------------------------------------------------------------------------
(* Order *)

LexLess(s, t) ==
    \E i \in DOMAIN s : s[i] < t[i] /\ \A j \in 1 .. i - 1 : s[j] = t[j]

\* The element of S that a sort by the key Rank puts first.
Least(S, Rank(_)) ==
    CHOOSE p \in S : \A q \in S : ~LexLess(Rank(q), Rank(p))

Newest(v) == <<-v[1], -v[2], -v[3]>>

-----------------------------------------------------------------------------
(* The tables as the pages read them *)

\* Mutant of LatestKey: the channels of a package share one newest build.
LatestKeyNoChannel(row) == <<row.slot, row.arch>>

LatestKey(row) == <<row.channel, row.slot, row.arch>>

\* All rows; every reader canonicalizes the architecture once more.
PublishedAll ==
    {[file |-> f, arch |-> Canonical[published[f].arch],
      channel |-> published[f].channel, slot |-> published[f].slot,
      v |-> published[f].v, at |-> published[f].at] :
        f \in {g \in Filenames : published[g] # None}}

\* Mutant of LatestRank: the most recent upload wins.
LatestRankByTime(row) == <<-row.at>> \o Newest(row.v) \o <<row.file>>

LatestRank(row) == Newest(row.v) \o <<-row.at, row.file>>

\* db::published_latest_by_arch: of equal rows the first one read is kept.
PublishedLatestByArch ==
    {Least({q \in PublishedAll : LatestKey(q) = LatestKey(p)}, LatestRank) :
        p \in PublishedAll}

\* db::latest_packages: the newest recipe of each architecture, channel, slot.
LatestPackages ==
    {r \in recipes :
        ~\E q \in recipes :
            /\ LatestKey(q) = LatestKey(r)
            /\ LexLess(r.v, q.v)}

-----------------------------------------------------------------------------
(* web::pick_published and status::derive_with_epoch *)

ArchMatch(recipe, build) == recipe = build \/ recipe = Any \/ build = Any

LastOf(channel) == <<channel[Len(channel)]>>

ChannelMatch(recipe, build) ==
    recipe = build \/ LastOf(recipe) = build \/ LastOf(build) = recipe

Compatible(r, p) ==
    /\ ArchMatch(r.arch, p.arch)
    /\ ChannelMatch(r.channel, p.channel)
    /\ p.slot = r.slot

\* The order the latest builds are listed in.
ListRank(p) == <<ArchRank[p.arch], ChannelRank[p.channel], p.slot>>

\* The last resort's order: an exact architecture first, then the greatest
\* version and release (without the epoch), then the latest upload.
PickRank(r, p) ==
    <<IF p.arch = r.arch THEN 0 ELSE 1, -p.v[2], -p.v[3], -p.at>> \o ListRank(p)

\* want is a version string to prefer, or None.
PickPublished(r, want) ==
    LET compatible == {p \in PublishedLatestByArch : Compatible(r, p)}
        same == {p \in compatible : want # None /\ p.v[2] = want}
        exact == {p \in same : p.arch = r.arch}
        Rank(p) == PickRank(r, p)
    IN IF compatible = {} THEN None
       ELSE IF exact # {} THEN Least(exact, ListRank)
       ELSE IF same # {} THEN Least(same, ListRank)
       ELSE Least(compatible, Rank)

\* Mutant of DeriveWithEpoch: the release is not compared.
DeriveNoRelease(v, build) ==
    IF build = None THEN "missing"
    ELSE IF build.v[1] = v[1] /\ build.v[2] = v[2] THEN "built"
    ELSE IF LexLess(build.v, v) THEN "outdated" ELSE "ahead"

DeriveWithEpoch(v, build) ==
    IF build = None THEN "missing"
    ELSE IF LexLess(build.v, v) THEN "outdated"
    ELSE IF build.v = v THEN "built" ELSE "ahead"

-----------------------------------------------------------------------------
(* The pages *)

\* web::package_views, behind the lists and the status page.
ViewState(r) == DeriveWithEpoch(r.v, PickPublished(r, None))

\* web::api_status, for every recipe version.
ApiState(r) == DeriveWithEpoch(r.v, PickPublished(r, r.v[2]))

\* web::package_detail: the architecture shown, its newest recipe and the
\* newest build for it.
SelectedArch(want) ==
    LET arches == {r.arch : r \in recipes}
        Rank(a) == <<ArchRank[a]>>
    IN IF want \in arches THEN want ELSE Least(arches, Rank)

DetailRecipe(want) ==
    LET Rank(r) == Newest(r.v) \o <<ChannelRank[r.channel], r.slot>>
    IN Least({r \in recipes : r.arch = SelectedArch(want)}, Rank)

\* Mutant of DetailRank: the versions are compared the other way round.
DetailRankOldest(p) == p.v \o <<-p.at, -p.file>>

DetailRank(p) == Newest(p.v) \o <<-p.at, -p.file>>

DetailState(want) ==
    LET arch == SelectedArch(want)
        builds == {p \in PublishedAll : ArchMatch(arch, p.arch)}
    IN DeriveWithEpoch(DetailRecipe(want).v,
                       IF builds = {} THEN None ELSE Least(builds, DetailRank))

\* A package whose recipe is gone is described from its latest upload.
OrphanState ==
    LET ByUpload(p) == <<-p.at, p.file>>
    IN DeriveWithEpoch(Least(PublishedAll, ByUpload).v, Least(PublishedAll, DetailRank))

\* Mutant of PackageByName: the first recipe of the table.
PackageByNameUnsorted ==
    LET Rank(r) == <<ChannelRank[r.channel], r.slot, ArchRank[r.arch]>> \o Newest(r.v)
    IN Least(recipes, Rank)

\* db::package_by_name: the newest recipe of any architecture; the sort keeps
\* the order of the table's keys.
PackageByName ==
    LET Rank(r) == Newest(r.v) \o <<ChannelRank[r.channel], r.slot, ArchRank[r.arch]>>
    IN Least(recipes, Rank)

\* web::api_package.
ApiPackageState ==
    DeriveWithEpoch(PackageByName.v, PickPublished(PackageByName, None))

\* The receipt repo::ingest answers an upload with.
ReceiptState(p) ==
    IF recipes = {} THEN "missing" ELSE DeriveWithEpoch(PackageByName.v, p)

-----------------------------------------------------------------------------
(* Properties *)

\* A recipe is listed as awaiting its first build exactly when no published
\* file fits its architecture, channel and slot: keeping one newest build per
\* channel, slot and architecture never hides the only build that fits.
MissingMeansNoBuild ==
    \A r \in LatestPackages :
        ViewState(r) = "missing" <=> ~\E p \in PublishedAll : Compatible(r, p)

\* A recipe reported as built, by the lists or by the API, has a published
\* file of exactly its version, release and epoch.
BuiltMeansBuilt ==
    \A r \in recipes :
        \/ ViewState(r) = "built" \/ ApiState(r) = "built"
        \/ r = PackageByName /\ ApiPackageState = "built"
        => \E p \in PublishedAll : Compatible(r, p) /\ p.v = r.v

\* "an old rebuild must not flip it" (web.rs): the upload of a build older than
\* one already published for its channel, slot and architecture, under a new
\* file name, changes the state of no recipe on any page.
OldRebuild ==
    \E f \in Filenames :
        /\ published[f] = None /\ published'[f] # None
        /\ \E p \in PublishedAll :
            /\ <<p.channel, p.slot, p.arch>> =
                   <<published'[f].channel, published'[f].slot,
                     Canonical[published'[f].arch]>>
            /\ LexLess(published'[f].v, p.v)

OldRebuildKeepsStates ==
    [][OldRebuild =>
        /\ \A r \in recipes :
            ViewState(r)' = ViewState(r) /\ ApiState(r)' = ApiState(r)
        /\ recipes # {} =>
            \A want \in {r.arch : r \in recipes} \cup {None} :
                DetailState(want)' = DetailState(want)]_vars

\* A package without a recipe is never shown as awaiting a build: the build it
\* is described from is not newer than the one it is compared with.
OrphanNeverBehind ==
    recipes = {} /\ PublishedAll # {} => OrphanState \in {"built", "ahead"}

\* The receipt of a build agrees with the page of the newest recipe's
\* architecture, as long as the build is the newest that page has.
ReceiptAgreesWithPage ==
    recipes # {} =>
        LET arch == PackageByName.arch
            builds == {p \in PublishedAll : ArchMatch(arch, p.arch)}
        IN \A p \in builds :
            (\A q \in builds : ~LexLess(p.v, q.v)) => ReceiptState(p) = DetailState(arch)
=============================================================================
