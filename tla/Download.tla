------------------------------ MODULE Download ------------------------------
(***************************************************************************)
(* A visitor of the hub beside its builders: repo_file sends an archive    *)
(* after three reads of its own (the length, the stored hash, the bytes),  *)
(* and package_detail shows a published row with the file list it reads in *)
(* another transaction. Nothing is locked meanwhile. One visitor is        *)
(* modelled: reads do not disturb one another.                             *)
(***************************************************************************)
EXTENDS Repository

VARIABLES
    reading,    \* where the answer to the visitor is
    dir, name,  \* the path asked for
    want,       \* the hash the visitor has already (If-None-Match)
    size,       \* the contents whose length is announced
    tag,        \* the hash sent as ETag; on a page, the archive of the row
    got,        \* the bytes sent; on a page, the archive whose files it lists
    crossed     \* was the file being exchanged at a moment of the read?

readerVars == <<reading, dir, name, want, size, tag, got, crossed>>
allVars == <<vars, readerVars>>

\* The visitor asks for nothing yet, or no more.
Unread == want = None /\ size = None /\ tag = None /\ got = None

ReaderTypeOK ==
    /\ reading \in {"none", "tag", "open", "sent", "same", "list", "page"}
    /\ dir \in Dirs /\ name \in Filenames
    /\ want \in Archives \cup {None}
    /\ size \in Contents \cup {None}
    /\ tag \in Archives \cup {None}
    /\ got \in Contents \cup Archives \cup {None}
    /\ crossed \in BOOLEAN
    /\ reading = "none" => Unread

ReaderInit ==
    /\ Init
    /\ reading = "none" /\ dir \in Dirs /\ name \in Filenames
    /\ Unread /\ crossed = FALSE

Watch == crossed' = (reading' # "none" /\ (crossed \/ Exchanging(name)'))

-----------------------------------------------------------------------------
(* web::repo_file *)

Stat(d, f, h) ==
    /\ reading = "none"
    /\ disk[d][f] # None
    /\ reading' = "tag"
    /\ dir' = d /\ name' = f /\ want' = h
    /\ size' = disk[d][f]
    /\ UNCHANGED <<tag, got>>

\* db::published_sha256_for_path.
HashOfPath(d, f) ==
    IF published[f] # None /\ DirOf[published[f].meta] = d
    THEN published[f].sha
    ELSE None

\* 304 for a visitor that has the archive with this hash.
Tag ==
    /\ reading = "tag"
    /\ tag' = HashOfPath(dir, name)
    /\ reading' = IF want # None /\ tag' = want THEN "same" ELSE "open"
    /\ UNCHANGED <<dir, name, want, size, got>>

\* The descriptor keeps its inode: what is sent is what was there when opened.
Open ==
    /\ reading = "open"
    /\ disk[dir][name] # None
    /\ got' = disk[dir][name]
    /\ reading' = "sent"
    /\ UNCHANGED <<dir, name, want, size, tag>>

-----------------------------------------------------------------------------
(* web::package_detail *)

PageRow(f) ==
    /\ reading = "none"
    /\ published[f] # None
    /\ name' = f
    /\ tag' = published[f].meta
    /\ reading' = "list"
    /\ UNCHANGED <<dir, want, size, got>>

PageFiles ==
    /\ reading = "list"
    /\ got' = files[name]
    /\ reading' = "page"
    /\ UNCHANGED <<dir, name, want, size, tag>>

-----------------------------------------------------------------------------
\* Mutant of Done: the hash the visitor has is kept for its next request.
DoneKeepsWant ==
    /\ reading \in {"sent", "same", "page"}
    /\ reading' = "none"
    /\ size' = None /\ tag' = None /\ got' = None
    /\ UNCHANGED <<dir, name, want>>

\* The answer is complete, or failed as the file was gone when it was opened.
Done ==
    /\ \/ reading \in {"sent", "same", "page"}
       \/ reading = "open" /\ disk[dir][name] = None
    /\ reading' = "none"
    /\ want' = None /\ size' = None /\ tag' = None /\ got' = None
    /\ UNCHANGED <<dir, name>>

Read ==
    \/ \E d \in Dirs, f \in Filenames, h \in Archives \cup {None} : Stat(d, f, h)
    \/ Tag \/ Open
    \/ \E f \in Filenames : PageRow(f)
    \/ PageFiles \/ Done

ReaderNext ==
    /\ \/ Read /\ UNCHANGED vars
       \/ Next /\ UNCHANGED <<reading, dir, name, want, size, tag, got>>
    /\ Watch

ReaderSpec == ReaderInit /\ [][ReaderNext]_allVars

-----------------------------------------------------------------------------
(* Properties *)

\* A download that meets no exchange of its file is exact, whatever else is
\* uploaded meanwhile, the next version of the file included: the announced
\* length, the ETag and the bytes are of one whole archive.
DownloadExact ==
    reading = "sent" /\ ~crossed =>
        tag # None /\ size = Whole(tag) /\ got = Whole(tag)

\* A 304 answer that meets no exchange tells a visitor that the archive it has
\* is the one stored at that path.
NotModifiedIsCurrent ==
    reading = "same" /\ ~crossed => disk[dir][name] = Whole(want)

\* A page that meets no exchange lists the files of the archive it describes.
PageListsItsArchive ==
    reading = "page" /\ ~crossed => got = tag
=============================================================================
