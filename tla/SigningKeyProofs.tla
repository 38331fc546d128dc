-------------------------- MODULE SigningKeyProofs --------------------------
(* Theorems about SigningKey, checked by TLAPS. *)
EXTENDS SigningKey, TLAPS

\* Whatever has been published, signed or read is the key of the file.
OnlyFromFile ==
    /\ pub \in Keys => pub = key
    /\ sig \in Keys => sig = key
    /\ \A u \in Rebuilds : loaded[u] # Absent => loaded[u] = key

\* The file is written once, by the one rebuild that created it: until then it
\* is empty, and nothing can have been read from it.
OneWriter ==
    /\ \A u \in Rebuilds : step[u] = "write" => key = Empty
    /\ \A u, v \in Rebuilds : step[u] = "write" /\ step[v] = "write" => u = v

\* A rebuild signs after it has seen a public key file, or has made it. As long
\* as no call has failed, one that is empty is about to be written.
PublicFirst ==
    /\ \A u \in Rebuilds : step[u] \in {"pubwrite", "sign"} => pub # Absent
    /\ sig # Absent => pub # Absent
    /\ faults = 0 /\ pub = Empty => \E u \in Rebuilds : step[u] = "pubwrite"

KeyInv == TypeOK /\ OnlyFromFile /\ OneWriter /\ PublicFirst

LEMMA KeyInit == Init => KeyInv
BY ConstantsAssumption
   DEF Init, KeyInv, TypeOK, OnlyFromFile, OneWriter, PublicFirst,
       SignedHasPublic, Keys, Steps, Loaded, Creating

\* A rebuild at step s goes on to step t and keeps what it has read.
LEMMA GotoKeeps ==
    ASSUME KeyInv, NEW u \in Rebuilds, NEW t \in Steps,
           UNCHANGED <<key, pub, sig, loaded, faults>>, Goto(u, t),
           t \in Loaded <=> step[u] \in Loaded,
           step[u] # "pubwrite", t # "write", t \in {"pubwrite", "sign"} => pub # Absent
    PROVE  KeyInv'
<1>1. TypeOK'
  BY DEF KeyInv, TypeOK, Goto
<1>2. OnlyFromFile'
  BY DEF KeyInv, OnlyFromFile
<1>3. OneWriter'
  BY DEF KeyInv, TypeOK, OneWriter, Goto
<1>4. PublicFirst'
  BY DEF KeyInv, TypeOK, PublicFirst, Goto
<1>. QED
  BY <1>1, <1>2, <1>3, <1>4 DEF KeyInv

\* A rebuild that fails, at whatever step, has changed nothing of the files.
LEMMA GiveUpKeeps ==
    ASSUME KeyInv, NEW u \in Rebuilds, GiveUp(u), faults' \in 0 .. MaxFaults,
           faults' = 0 => faults = 0 /\ step[u] # "pubwrite"
    PROVE  KeyInv'
<1>1. TypeOK'
  BY DEF KeyInv, TypeOK, GiveUp, Steps, Loaded
<1>2. OnlyFromFile'
  BY DEF KeyInv, TypeOK, OnlyFromFile, GiveUp
<1>3. OneWriter'
  BY DEF KeyInv, TypeOK, OneWriter, GiveUp
<1>4. PublicFirst'
  BY DEF KeyInv, TypeOK, PublicFirst, GiveUp
<1>. QED
  BY <1>1, <1>2, <1>3, <1>4 DEF KeyInv

\* Either this rebuild is the one that made the file, or nothing happens to it.
LEMMA CreateKeeps ==
    ASSUME KeyInv, NEW u \in Rebuilds, Create(u)
    PROVE  KeyInv'
<1>1. CASE key # Absent
  <2>1. /\ UNCHANGED <<key, pub, sig, loaded, faults>>
        /\ Goto(u, "restrict") /\ step[u] = "create"
    BY <1>1 DEF Create
  <2>. QED
    BY <2>1, GotoKeeps DEF Steps, Creating, Loaded
<1>2. CASE key = Absent
  <2>1. /\ key' = Empty /\ UNCHANGED <<pub, sig, loaded, faults>>
        /\ step[u] = "create" /\ step' = [step EXCEPT ![u] = "write"]
    BY <1>2 DEF Create, Goto
  <2>2. /\ pub \notin Keys /\ sig \notin Keys
        /\ \A v \in Rebuilds : loaded[v] = Absent /\ step[v] # "write"
    BY <1>2, ConstantsAssumption DEF KeyInv, TypeOK, OnlyFromFile, OneWriter, Keys
  <2>3. TypeOK'
    BY <2>1 DEF KeyInv, TypeOK, Steps, Creating, Loaded
  <2>4. OnlyFromFile'
    BY <2>1, <2>2 DEF OnlyFromFile
  <2>5. OneWriter'
    BY <2>1, <2>2 DEF KeyInv, TypeOK, OneWriter
  <2>6. PublicFirst'
    BY <2>1 DEF KeyInv, TypeOK, PublicFirst
  <2>. QED
    BY <2>3, <2>4, <2>5, <2>6 DEF KeyInv
<1>. QED
  BY <1>1, <1>2

LEMMA WriteKeeps ==
    ASSUME KeyInv, NEW u \in Rebuilds, Write(u)
    PROVE  KeyInv'
<1>1. /\ key' = u /\ UNCHANGED <<pub, sig, loaded, faults>>
      /\ step[u] = "write" /\ step' = [step EXCEPT ![u] = "restrict"]
  BY DEF Write, Goto
<1>2. /\ key = Empty /\ pub \notin Keys /\ sig \notin Keys
      /\ \A v \in Rebuilds : loaded[v] = Absent
      /\ \A v \in Rebuilds : step[v] = "write" => v = u
  BY <1>1, ConstantsAssumption DEF KeyInv, TypeOK, OnlyFromFile, OneWriter, Keys
<1>3. TypeOK'
  BY <1>1 DEF KeyInv, TypeOK, Steps, Creating, Loaded, Keys
<1>4. OnlyFromFile'
  BY <1>1, <1>2 DEF OnlyFromFile
<1>5. OneWriter'
  BY <1>1, <1>2 DEF KeyInv, TypeOK, OneWriter
<1>6. PublicFirst'
  BY <1>1 DEF KeyInv, TypeOK, PublicFirst
<1>. QED
  BY <1>3, <1>4, <1>5, <1>6 DEF KeyInv

LEMMA ReadKeyKeeps ==
    ASSUME KeyInv, NEW u \in Rebuilds, ReadKey(u)
    PROVE  KeyInv'
<1>1. /\ UNCHANGED <<key, pub, sig, faults>>
      /\ key \in Keys /\ loaded' = [loaded EXCEPT ![u] = key]
      /\ step[u] = "read" /\ step' = [step EXCEPT ![u] = "pub"]
  BY DEF ReadKey, Goto
<1>2. TypeOK'
  BY <1>1, ConstantsAssumption DEF KeyInv, TypeOK, Steps, Creating, Loaded, Keys
<1>3. OnlyFromFile'
  BY <1>1 DEF KeyInv, TypeOK, OnlyFromFile
<1>4. OneWriter'
  BY <1>1 DEF KeyInv, TypeOK, OneWriter
<1>5. PublicFirst'
  BY <1>1 DEF KeyInv, TypeOK, PublicFirst
<1>. QED
  BY <1>2, <1>3, <1>4, <1>5 DEF KeyInv

\* The file made for the public key, and what is written to it.
LEMMA PubFileKeeps ==
    ASSUME KeyInv, NEW u \in Rebuilds, PubOpen(u) \/ PubWrite(u)
    PROVE  KeyInv'
<1>1. /\ UNCHANGED <<key, sig, loaded, faults>>
      /\ step[u] \in Loaded /\ pub' \in {Empty, loaded[u]}
      /\ \E s \in {"pubwrite", "sign"} : step' = [step EXCEPT ![u] = s]
  BY DEF PubOpen, PubWrite, Goto, Loaded
<1>2. loaded[u] \in Keys /\ loaded[u] = key
  BY <1>1 DEF KeyInv, TypeOK, OnlyFromFile
<1>3. pub' \in Keys \cup {Empty} /\ pub' # Absent /\ Empty \notin Keys
  BY <1>1, <1>2, ConstantsAssumption DEF Keys
<1>4. TypeOK'
  BY <1>1, <1>3 DEF KeyInv, TypeOK, Steps, Creating, Loaded
<1>5. OnlyFromFile'
  BY <1>1, <1>2, <1>3 DEF KeyInv, OnlyFromFile
<1>6. OneWriter'
  BY <1>1 DEF KeyInv, TypeOK, OneWriter
<1>7. pub' = Empty => step'[u] = "pubwrite"
  BY <1>2, <1>3 DEF PubOpen, PubWrite, Goto, KeyInv, TypeOK
<1>8. PublicFirst'
  BY <1>3, <1>7 DEF PublicFirst
<1>. QED
  BY <1>4, <1>5, <1>6, <1>8 DEF KeyInv

LEMMA SignKeeps ==
    ASSUME KeyInv, NEW u \in Rebuilds, Sign(u)
    PROVE  KeyInv'
<1>1. /\ UNCHANGED <<key, pub, faults>>
      /\ key \in Keys /\ sig' = key /\ step[u] = "sign"
      /\ loaded' = [loaded EXCEPT ![u] = Absent]
      /\ step' = [step EXCEPT ![u] = "idle"]
  BY DEF Sign, Goto
<1>2. TypeOK'
  BY <1>1 DEF KeyInv, TypeOK, Steps, Creating, Loaded
<1>3. OnlyFromFile'
  BY <1>1 DEF KeyInv, TypeOK, OnlyFromFile
<1>4. OneWriter'
  BY <1>1 DEF KeyInv, TypeOK, OneWriter
<1>5. PublicFirst'
  BY <1>1 DEF KeyInv, TypeOK, PublicFirst
<1>. QED
  BY <1>2, <1>3, <1>4, <1>5 DEF KeyInv

LEMMA StopKeeps == KeyInv /\ Stop => KeyInv'
<1>. SUFFICES ASSUME KeyInv, Stop PROVE KeyInv'
  OBVIOUS
<1>1. TypeOK'
  BY ConstantsAssumption DEF KeyInv, TypeOK, Stop, Steps, Loaded
<1>2. faults' # 0
  BY ConstantsAssumption DEF KeyInv, TypeOK, Stop
<1>3. OnlyFromFile' /\ OneWriter' /\ PublicFirst'
  BY <1>2 DEF KeyInv, OnlyFromFile, OneWriter, PublicFirst, Stop
<1>. QED
  BY <1>1, <1>3 DEF KeyInv

LEMMA KeyNext == KeyInv /\ [Next]_vars => KeyInv'
<1>. SUFFICES ASSUME KeyInv, [Next]_vars PROVE KeyInv'
  OBVIOUS
<1>1. ASSUME NEW u \in Rebuilds, Start(u) \/ Exists(u) \/ SetMode(u) \/ PubExists(u)
      PROVE  KeyInv'
  <2>1. PICK t \in Steps :
            /\ UNCHANGED <<key, pub, sig, loaded, faults>> /\ Goto(u, t)
            /\ t \in Loaded <=> step[u] \in Loaded
            /\ step[u] # "pubwrite" /\ t # "write" /\ (t \in {"pubwrite", "sign"} => pub # Absent)
    BY <1>1 DEF Start, Exists, SetMode, PubExists, Goto, Steps, Creating, Loaded
  <2>. QED
    BY <2>1, GotoKeeps
<1>2. ASSUME NEW u \in Rebuilds, ReadInvalid(u) \/ Fail(u)
      PROVE  KeyInv'
  <2>1. /\ GiveUp(u) /\ faults' \in 0 .. MaxFaults
        /\ faults' = 0 => faults = 0 /\ step[u] # "pubwrite"
    BY <1>2, ConstantsAssumption DEF ReadInvalid, Fail, KeyInv, TypeOK
  <2>. QED
    BY <2>1, GiveUpKeeps
<1>3. CASE Stop
  BY <1>3, StopKeeps
<1>4. CASE UNCHANGED vars
  BY <1>4
     DEF vars, KeyInv, TypeOK, OnlyFromFile, OneWriter, PublicFirst
<1>. QED
  BY <1>1, <1>2, <1>3, <1>4, CreateKeeps, WriteKeeps, ReadKeyKeeps,
     PubFileKeeps, SignKeeps
     DEF Next, Step

\* Files, rebuilds and what they have read are what the module says they are.
THEOREM KeyTypes == Spec => []TypeOK
<1>1. KeyInv => TypeOK
  BY DEF KeyInv
<1>. QED
  BY KeyInit, KeyNext, <1>1, PTL DEF Spec

\* However many rebuilds come first at once, and however often calls fail or the
\* process stops: the private file, the public file and the signatures are of
\* one key (ensure_signing_key and regenerate_index in repo.rs).
THEOREM KeySafe == Spec => []OneKey
<1>1. KeyInv => OneKey
  BY ConstantsAssumption DEF KeyInv, OnlyFromFile, OneKey, Keys
<1>. QED
  BY KeyInit, KeyNext, <1>1, PTL DEF Spec

\* Whatever is signed has its public key beside it, or a rebuild is about to write
\* it, for any number of first rebuilds at once; once a call has failed or the
\* process has stopped the file may be empty instead.
THEOREM PublicKept == Spec => []SignedHasPublic
<1>1. KeyInv => SignedHasPublic
  <2>. SUFFICES ASSUME KeyInv, sig # Absent
                PROVE  \/ pub = sig
                       \/ /\ pub = Empty
                          /\ \/ faults > 0
                             \/ \E u \in Rebuilds :
                                   step[u] = "pubwrite" /\ loaded[u] = sig
    BY DEF SignedHasPublic
  <2>1. sig = key /\ sig \in Keys /\ pub # Absent
    BY DEF KeyInv, TypeOK, OnlyFromFile, PublicFirst
  <2>2. CASE pub \in Keys
    BY <2>1, <2>2 DEF KeyInv, OnlyFromFile
  <2>3. CASE pub = Empty /\ faults > 0
    BY <2>3
  <2>4. CASE pub = Empty /\ faults = 0
    <3>1. PICK u \in Rebuilds : step[u] = "pubwrite"
      BY <2>4 DEF KeyInv, PublicFirst
    <3>2. loaded[u] = key
      BY <3>1 DEF KeyInv, TypeOK, OnlyFromFile, Loaded
    <3>. QED
      BY <2>1, <2>4, <3>1, <3>2
  <2>5. faults > 0 \/ faults = 0
    BY ConstantsAssumption DEF KeyInv, TypeOK
  <2>. QED
    BY <2>1, <2>2, <2>3, <2>4, <2>5 DEF KeyInv, TypeOK
<1>. QED
  BY KeyInit, KeyNext, <1>1, PTL DEF Spec
=============================================================================
