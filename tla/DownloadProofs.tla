--------------------------- MODULE DownloadProofs ---------------------------
(* Answers to visitors, proved of any requests that name different files    *)
(* while they run: the separate reads of an answer that meets no exchange   *)
(* of its file see one archive.                                             *)
EXTENDS Download, ShelfProofs

-----------------------------------------------------------------------------
(* Types *)

LEMMA ReaderTypesNext ==
    ASSUME TypeInv, ReaderTypeOK, [ReaderNext]_allVars
    PROVE  TypeInv' /\ ReaderTypeOK'
<1>1. [Next]_vars
  BY DEF ReaderNext, allVars
<1>2. TypeInv'
  BY <1>1, TypeNext
<1>. SUFFICES ReaderTypeOK'
  BY <1>2
<1>3. CASE Read /\ Watch
  <2>1. /\ published \in [Filenames -> Rows \cup {None}]
        /\ files \in [Filenames -> Archives \cup {None}]
        /\ disk \in [Dirs -> [Filenames -> Contents \cup {None}]]
    BY DEF TypeInv, TypeOK
  <2>2. crossed' \in BOOLEAN
    BY <1>3 DEF Watch
  <2>3. \A d, f : f \in Filenames => HashOfPath(d, f) \in Archives \cup {None}
    BY <2>1 DEF HashOfPath, Rows
  <2>4. \A f \in Filenames :
            published[f] # None => published[f].meta \in Archives
    BY <2>1 DEF Rows
  <2>5. ASSUME NEW d \in Dirs, NEW f \in Filenames,
               NEW h \in Archives \cup {None}, Stat(d, f, h)
        PROVE  ReaderTypeOK'
    BY <2>1, <2>2, <2>5 DEF ReaderTypeOK, Stat, Unread
  <2>6. CASE Tag
    BY <2>2, <2>3, <2>6 DEF ReaderTypeOK, Tag, Unread
  <2>7. CASE Open
    BY <2>1, <2>2, <2>7 DEF ReaderTypeOK, Open, Unread
  <2>8. ASSUME NEW f \in Filenames, PageRow(f) PROVE ReaderTypeOK'
    BY <2>2, <2>4, <2>8 DEF ReaderTypeOK, PageRow, Unread
  <2>9. CASE PageFiles
    BY <2>1, <2>2, <2>9 DEF ReaderTypeOK, PageFiles, Unread
  <2>10. CASE Done
    BY <2>2, <2>10 DEF ReaderTypeOK, Done, Unread
  <2>. QED
    BY <1>3, <2>5, <2>6, <2>7, <2>8, <2>9, <2>10 DEF Read
<1>4. CASE UNCHANGED <<reading, dir, name, want, size, tag, got>> /\ Watch
  <2>1. crossed' \in BOOLEAN
    BY <1>4 DEF Watch
  <2>. QED
    BY <1>4, <2>1 DEF ReaderTypeOK, Unread
<1>5. CASE UNCHANGED readerVars
  BY <1>5 DEF ReaderTypeOK, readerVars, Unread
<1>. QED
  BY <1>3, <1>4, <1>5 DEF ReaderNext, allVars

\* Whatever the hub does meanwhile and whatever fails, an answer is made of
\* values of the declared types, and one that is over holds on to nothing.
THEOREM ReaderTypes == ReaderSpec => []ReaderTypeOK
<1>1. ReaderInit => TypeInv /\ ReaderTypeOK
  BY TypeInit DEF ReaderInit, ReaderTypeOK, Unread
<1>2. TypeInv /\ ReaderTypeOK /\ [ReaderNext]_allVars => TypeInv' /\ ReaderTypeOK'
  BY ReaderTypesNext
<1>. QED
  BY <1>1, <1>2, PTL DEF ReaderSpec

-----------------------------------------------------------------------------
(* Outside its exchange a file stays as it is *)

LEMMA FileAtRest ==
    ASSUME ~SharedNames, ~Faults, ContentInv, [Next]_vars,
           NEW g \in Filenames, ~Exchanging(g), ~Exchanging(g)'
    PROVE  SameFile(g)
<1>1. ContentInv'
  BY ContentNext
<1>2. ASSUME NEW r \in Requests, Begin(r) PROVE SameFile(g)
  <2>1. PICK f \in Filenames :
            \/ \E a \in Archives : StartPublish(r, f, a) \/ StartLog(r, f, a)
            \/ StartUnpublish(r, f)
    BY <1>2 DEF Begin
  <2>. QED
    BY <1>1, <2>1, BeginContent, OwnExchange DEF ContentInv
<1>3. ASSUME NEW r \in Requests, Receive(r) \/ Work(r) PROVE SameFile(g)
  <2>1. /\ Apart(r, file[r]) /\ UNCHANGED file /\ file[r] \in Filenames
        /\ Exchanging(file[r]) <=> InExchange(r)
        /\ Exchanging(file[r])' <=> InExchange(r)'
    BY <1>3, StepApart, OwnExchange DEF ContentInv, StagingInv
  <2>2. CASE file[r] # g
    BY <2>1, <2>2, OwnExchange
  <2>3. CASE file[r] = g
    <3>1. ~InExchange(r) /\ ~InExchange(r)'
      BY <2>1, <2>3
    <3>2. ~RenameMissing(r)
      BY ContentsFacts
         DEF RenameMissing, ContentInv, StagingInv, TypeInv, Holds, Staging,
             IngestSteps
    <3>3. Aside(r)
      BY <1>3, <3>1, <3>2, ClearTakes, RenamePlaces, UpsertPlaces,
         PutFilesSettles, DeleteTakes, UnlinkSettles DEF Receive, Work, Aside
    <3>. QED
      BY <2>3, <3>3, AsideKeeps
  <2>. QED
    BY <2>2, <2>3
<1>4. CASE UNCHANGED vars
  BY <1>4 DEF vars, SameFile
<1>. QED
  BY <1>2, <1>3, <1>4 DEF Next, Fail, Crash

-----------------------------------------------------------------------------
(* What an answer has read so far *)

\* A read that has met no exchange has seen what is there now.
ReadSoFar ==
    ~crossed /\ reading # "none" =>
        /\ ~Exchanging(name)
        /\ reading \in {"tag", "open"} =>
            size # None /\ size = disk[dir][name]
        /\ reading = "open" => tag = HashOfPath(dir, name)
        /\ reading = "sent" =>
            tag # None /\ size = Whole(tag) /\ got = Whole(tag)
        /\ reading = "same" => disk[dir][name] = Whole(want)
        /\ reading = "list" =>
            published[name] # None /\ tag = published[name].meta
        /\ reading = "page" => got = tag

ReadInv ==
    /\ ContentInv
    /\ dir \in Dirs /\ name \in Filenames /\ (reading = "none" => ~crossed)
    /\ ReadSoFar

LEMMA ReadInit == ReaderInit => ReadInv
BY ContentInit DEF ReaderInit, ReadInv, ReadSoFar

\* A stored file at rest is a whole archive, and its row has its hash.
LEMMA StoredAtRest ==
    ASSUME ContentInv, NEW d \in Dirs, NEW f \in Filenames, ~Exchanging(f),
           disk[d][f] # None
    PROVE  HashOfPath(d, f) # None /\ disk[d][f] = Whole(HashOfPath(d, f))
<1>1. PICK a \in Archives : HoldsOnly(f, a)
  BY DEF ContentInv, Consistent, HoldsNothing
<1>2. d = DirOf[a] /\ disk[d][f] = Whole(a)
  BY <1>1 DEF HoldsOnly
<1>3. [sha |-> a, meta |-> a] # None
  BY ContentsFacts DEF Rows
<1>4. HashOfPath(d, f) = a
  BY <1>1, <1>2, <1>3 DEF HoldsOnly, HashOfPath
<1>. QED
  BY <1>2, <1>4, ContentsFacts

\* While the hub goes on, what has been read stays true.
LEMMA HubKeepsRead ==
    ASSUME ~SharedNames, ~Faults, ReadInv, [Next]_vars,
           UNCHANGED <<reading, dir, name, want, size, tag, got>>, Watch
    PROVE  ReadInv'
<1>1. ContentInv'
  BY ContentNext DEF ReadInv
<1>2. ASSUME ~crossed', reading' # "none" PROVE ReadSoFar'
  <2>1. ~crossed /\ ~Exchanging(name) /\ ~Exchanging(name)'
    BY <1>2 DEF Watch, ReadInv, ReadSoFar
  <2>2. SameFile(name)
    BY <2>1, FileAtRest DEF ReadInv, Exchanging
  <2>3. HashOfPath(dir, name)' = HashOfPath(dir, name)
    BY <2>2 DEF SameFile, HashOfPath
  <2>4. Whole(tag)' = Whole(tag) /\ Whole(want)' = Whole(want)
    BY DEF Whole
  <2>. QED
    BY <1>2, <2>1, <2>2, <2>3, <2>4 DEF ReadInv, ReadSoFar, SameFile
<1>. QED
  BY <1>1, <1>2 DEF ReadInv, ReadSoFar, Watch

\* A read adds what it sees to what it has seen before.
LEMMA ReadStep ==
    ASSUME ~SharedNames, ~Faults, ReadInv, Read, UNCHANGED vars, Watch
    PROVE  ReadInv'
<1>. USE DEF ReadInv
<1>1. ContentInv'
  BY ContentNext
<1>2. UNCHANGED <<published, files, disk, pc, file, old>>
  BY DEF vars
<1>3. \A f : Exchanging(f)' <=> Exchanging(f)
  BY <1>2 DEF Exchanging, InExchange
<1>4. \A d, f : HashOfPath(d, f)' = HashOfPath(d, f)
  BY <1>2 DEF HashOfPath
<1>5. /\ dir' \in Dirs /\ name' \in Filenames
      /\ reading' = "none" => ~crossed'
  BY DEF Watch, Read, Stat, Tag, Open, PageRow, PageFiles, Done
<1>6. ASSUME ~crossed', reading' # "none" PROVE ReadSoFar'
  <2>1. ~Exchanging(name)' /\ ~crossed
    BY <1>6 DEF Watch
  <2>2. ASSUME NEW d \in Dirs, NEW f \in Filenames,
               NEW h \in Archives \cup {None}, Stat(d, f, h)
        PROVE  ReadSoFar'
    BY <1>2, <2>1, <2>2 DEF Stat, ReadSoFar
  <2>3. CASE Tag
    <3>1. /\ reading = "tag" /\ UNCHANGED <<dir, name, want, size>>
          /\ tag' = HashOfPath(dir, name)
          /\ reading' = IF want # None /\ tag' = want THEN "same" ELSE "open"
          /\ size # None /\ size = disk[dir][name] /\ ~Exchanging(name)
      BY <2>1, <2>3 DEF Tag, ReadSoFar
    <3>2. disk[dir][name] = Whole(HashOfPath(dir, name))
      BY <3>1, StoredAtRest
    <3>3. CASE reading' = "same"
      <4>1. want' = HashOfPath(dir, name)
        BY <3>1, <3>3
      <4>2. Whole(want)' = Whole(HashOfPath(dir, name))
        BY <4>1 DEF Whole
      <4>3. disk'[dir'][name'] = Whole(want)'
        BY <1>2, <3>1, <3>2, <4>2
      <4>. QED
        BY <2>1, <3>3, <4>3 DEF ReadSoFar
    <3>4. CASE reading' = "open"
      <4>1. HashOfPath(dir, name)' = HashOfPath(dir, name)
        BY <1>4, <3>1 DEF HashOfPath
      <4>. QED
        BY <1>2, <2>1, <3>1, <3>4, <4>1 DEF ReadSoFar
    <3>. QED
      BY <3>1, <3>3, <3>4
  <2>4. CASE Open
    <3>1. /\ reading = "open" /\ reading' = "sent"
          /\ UNCHANGED <<size, tag>> /\ got' = disk[dir][name]
          /\ size # None /\ size = disk[dir][name] /\ ~Exchanging(name)
          /\ tag = HashOfPath(dir, name)
      BY <2>1, <2>4 DEF Open, ReadSoFar
    <3>2. tag # None /\ disk[dir][name] = Whole(tag)
      BY <3>1, StoredAtRest
    <3>3. Whole(tag)' = Whole(tag)
      BY <3>1 DEF Whole
    <3>. QED
      BY <2>1, <3>1, <3>2, <3>3 DEF ReadSoFar
  <2>5. ASSUME NEW f \in Filenames, PageRow(f) PROVE ReadSoFar'
    BY <1>2, <2>1, <2>5 DEF PageRow, ReadSoFar
  <2>6. CASE PageFiles
    <3>1. /\ reading = "list" /\ reading' = "page" /\ UNCHANGED tag
          /\ got' = files[name] /\ published[name] # None
          /\ tag = published[name].meta /\ ~Exchanging(name)
      BY <2>1, <2>6 DEF PageFiles, ReadSoFar
    <3>2. PICK a \in Archives : HoldsOnly(name, a) /\ published[name].meta = a
      BY <3>1, RowFacts DEF ContentInv
    <3>3. files[name] = tag
      BY <3>1, <3>2 DEF HoldsOnly
    <3>. QED
      BY <2>1, <3>1, <3>3 DEF ReadSoFar
  <2>. QED
    BY <1>6, <2>2, <2>3, <2>4, <2>5, <2>6 DEF Read, Done
<1>. QED
  BY <1>1, <1>5, <1>6 DEF ReadSoFar

LEMMA ReadNext ==
    ASSUME ~SharedNames, ~Faults, ReadInv, [ReaderNext]_allVars
    PROVE  ReadInv'
<1>1. CASE ReaderNext
  BY <1>1, HubKeepsRead, ReadStep DEF ReaderNext
<1>2. CASE UNCHANGED allVars
  <2>1. UNCHANGED vars /\ UNCHANGED readerVars
    BY <1>2 DEF allVars
  <2>2. ContentInv'
    BY <2>1, ContentNext DEF ReadInv
  <2>3. /\ Exchanging(name)' <=> Exchanging(name)
        /\ HashOfPath(dir, name)' = HashOfPath(dir, name)
        /\ Whole(tag)' = Whole(tag) /\ Whole(want)' = Whole(want)
    BY <2>1 DEF vars, readerVars, Exchanging, InExchange, HashOfPath, Whole
  <2>. QED
    BY <2>1, <2>2, <2>3 DEF vars, readerVars, ReadInv, ReadSoFar
<1>. QED
  BY <1>1, <1>2

-----------------------------------------------------------------------------
(* Answers *)

\* A download that meets no exchange of its file announces, tags and sends one
\* whole archive, whatever goes on beside it.
THEOREM DownloadsExact ==
    ASSUME ~SharedNames, ~Faults
    PROVE  ReaderSpec => []DownloadExact
<1>1. ReadInv => DownloadExact
  BY DEF ReadInv, ReadSoFar, DownloadExact
<1>. QED
  BY <1>1, ReadInit, ReadNext, PTL DEF ReaderSpec

\* A 304 that meets no exchange names the archive that is stored at the path.
THEOREM NotModifiedTrue ==
    ASSUME ~SharedNames, ~Faults
    PROVE  ReaderSpec => []NotModifiedIsCurrent
<1>1. ReadInv => NotModifiedIsCurrent
  BY DEF ReadInv, ReadSoFar, NotModifiedIsCurrent
<1>. QED
  BY <1>1, ReadInit, ReadNext, PTL DEF ReaderSpec

\* A page that meets no exchange lists the files of the archive it describes.
THEOREM PagesConsistent ==
    ASSUME ~SharedNames, ~Faults
    PROVE  ReaderSpec => []PageListsItsArchive
<1>1. ReadInv => PageListsItsArchive
  BY DEF ReadInv, ReadSoFar, PageListsItsArchive
<1>. QED
  BY <1>1, ReadInit, ReadNext, PTL DEF ReaderSpec
=============================================================================
