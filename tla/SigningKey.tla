----------------------------- MODULE SigningKey -----------------------------
(***************************************************************************)
(* The key that signs the indexes. Every index rebuild calls               *)
(* ensure_signing_key first, so that the first rebuilds of a hub create    *)
(* the key and its public half, several of them perhaps at once, and every *)
(* call to the file system may fail or be the last before a stop.          *)
(***************************************************************************)
EXTENDS Naturals

CONSTANTS
    Rebuilds,   \* index rebuilds that may be running at once
    MaxFaults,  \* bound: failed calls and stops of the process
    Absent, Empty

\* A rebuild that finds no key draws one at random; it is named by the rebuild.
Keys == Rebuilds

ASSUME ConstantsAssumption ==
    /\ MaxFaults \in Nat
    /\ {Absent, Empty} \cap Rebuilds = {} /\ Absent # Empty

VARIABLES
    key,     \* the private key file
    pub,     \* the public key file beside it
    sig,     \* the key an index was last signed with
    step,    \* per rebuild: the call it makes next
    loaded,  \* per rebuild: the key it has read
    faults

vars == <<key, pub, sig, step, loaded, faults>>

Creating == {"create", "write", "restrict"}
Loaded == {"pub", "pubopen", "pubwrite", "sign"}
Steps == {"idle", "exists", "read"} \cup Creating \cup Loaded

TypeOK ==
    /\ key \in Keys \cup {Absent, Empty}
    /\ pub \in Keys \cup {Absent, Empty}
    /\ sig \in Keys \cup {Absent}
    /\ step \in [Rebuilds -> Steps]
    /\ loaded \in [Rebuilds -> Keys \cup {Absent}]
    /\ faults \in 0 .. MaxFaults
    /\ \A u \in Rebuilds : loaded[u] # Absent <=> step[u] \in Loaded

Init ==
    /\ key = Absent /\ pub = Absent /\ sig = Absent
    /\ step = [u \in Rebuilds |-> "idle"]
    /\ loaded = [u \in Rebuilds |-> Absent]
    /\ faults = 0

-----------------------------------------------------------------------------
(* ensure_signing_key *)

Goto(u, s) == step' = [step EXCEPT ![u] = s]

Start(u) ==
    /\ step[u] = "idle"
    /\ Goto(u, "exists")
    /\ UNCHANGED <<key, pub, sig, loaded, faults>>

Exists(u) ==
    /\ step[u] = "exists"
    /\ Goto(u, IF key = Absent THEN "create" ELSE "read")
    /\ UNCHANGED <<key, pub, sig, loaded, faults>>

\* Mutant of Create: a file that is there by now is taken over.
CreateOver(u) ==
    /\ step[u] = "create"
    /\ key' = Empty
    /\ Goto(u, "write")
    /\ UNCHANGED <<pub, sig, loaded, faults>>

\* create_new: of several rebuilds one creates the file, the others leave it.
Create(u) ==
    /\ step[u] = "create"
    /\ \/ key = Absent /\ key' = Empty /\ Goto(u, "write")
       \/ key # Absent /\ UNCHANGED key /\ Goto(u, "restrict")
    /\ UNCHANGED <<pub, sig, loaded, faults>>

\* The 32 bytes drawn before, and their sync.
Write(u) ==
    /\ step[u] = "write"
    /\ key' = u
    /\ Goto(u, "restrict")
    /\ UNCHANGED <<pub, sig, loaded, faults>>

\* set_permissions; the contents stay.
SetMode(u) ==
    /\ step[u] = "restrict"
    /\ Goto(u, "read")
    /\ UNCHANGED <<key, pub, sig, loaded, faults>>

ReadKey(u) ==
    /\ step[u] = "read"
    /\ key \in Keys
    /\ loaded' = [loaded EXCEPT ![u] = key]
    /\ Goto(u, "pub")
    /\ UNCHANGED <<key, pub, sig, faults>>

\* Mutant of GiveUp: the key read stays in memory.
GiveUpLoaded(u) ==
    /\ step' = [step EXCEPT ![u] = "idle"]
    /\ UNCHANGED <<key, pub, sig, loaded>>

\* The call returns an error, and with it the rebuild.
GiveUp(u) ==
    /\ step' = [step EXCEPT ![u] = "idle"]
    /\ loaded' = [loaded EXCEPT ![u] = Absent]
    /\ UNCHANGED <<key, pub, sig>>

\* decode_fixed refuses a file that is not 32 bytes.
ReadInvalid(u) ==
    /\ step[u] = "read"
    /\ key = Empty
    /\ GiveUp(u)
    /\ UNCHANGED faults

\* Mutant of PubExists: the public half is left to the operator.
PubNever(u) ==
    /\ step[u] = "pub"
    /\ Goto(u, "sign")
    /\ UNCHANGED <<key, pub, sig, loaded, faults>>

PubExists(u) ==
    /\ step[u] = "pub"
    /\ Goto(u, IF pub = Absent THEN "pubopen" ELSE "sign")
    /\ UNCHANGED <<key, pub, sig, loaded, faults>>

\* fs::write creates or truncates the file, and then writes to it.
PubOpen(u) ==
    /\ step[u] = "pubopen"
    /\ pub' = Empty
    /\ Goto(u, "pubwrite")
    /\ UNCHANGED <<key, sig, loaded, faults>>

\* Mutant of PubWrite: the half of the key drawn, not of the key in the file.
PubWriteDrawn(u) ==
    /\ step[u] = "pubwrite"
    /\ pub' = u
    /\ Goto(u, "sign")
    /\ UNCHANGED <<key, sig, loaded, faults>>

PubWrite(u) ==
    /\ step[u] = "pubwrite"
    /\ pub' = loaded[u]
    /\ Goto(u, "sign")
    /\ UNCHANGED <<key, sig, loaded, faults>>

\* regenerate_index: the indexer is given the path of the key and reads it.
Sign(u) ==
    /\ step[u] = "sign"
    /\ key \in Keys
    /\ sig' = key
    /\ Goto(u, "idle")
    /\ loaded' = [loaded EXCEPT ![u] = Absent]
    /\ UNCHANGED <<key, pub, faults>>

-----------------------------------------------------------------------------
Fail(u) ==
    /\ faults < MaxFaults /\ faults' = faults + 1
    /\ step[u] # "idle"
    /\ GiveUp(u)

\* The process stops: the files are as they were.
Stop ==
    /\ faults < MaxFaults /\ faults' = faults + 1
    /\ step' = [u \in Rebuilds |-> "idle"]
    /\ loaded' = [u \in Rebuilds |-> Absent]
    /\ UNCHANGED <<key, pub, sig>>

Step(u) ==
    \/ Exists(u) \/ Create(u) \/ Write(u) \/ SetMode(u)
    \/ ReadKey(u) \/ ReadInvalid(u)
    \/ PubExists(u) \/ PubOpen(u) \/ PubWrite(u) \/ Sign(u)

Next == Stop \/ \E u \in Rebuilds : Start(u) \/ Step(u) \/ Fail(u)

Spec == Init /\ [][Next]_vars

\* Blocking tasks run to their ends, and there are always more uploads.
FairSpec == Spec /\ \A u \in Rebuilds : WF_vars(Start(u)) /\ WF_vars(Step(u))

-----------------------------------------------------------------------------
(* Properties *)

\* However many rebuilds come first at once, and wherever they fail or the
\* process stops, there is one key: the private file, the public file and the
\* signatures never disagree.
OneKey ==
    \A k, l \in {key, pub, sig} \cap Keys : k = l

\* "publish its matching public key next to it" (repo.rs): behind every signature
\* there is the public key that verifies it, in full, or a rebuild is about to
\* write that very key into its file. Only a failure or a stop may leave the
\* file empty instead; then nothing completes it.
SignedHasPublic ==
    sig # Absent =>
        \/ pub = sig
        \/ /\ pub = Empty
           /\ \/ faults > 0
              \/ \E u \in Rebuilds : step[u] = "pubwrite" /\ loaded[u] = sig

\* A file was created and nobody is left who will write it.
Abandoned ==
    \/ key = Empty /\ \A u \in Rebuilds : step[u] # "write"
    \/ pub = Empty /\ \A u \in Rebuilds : step[u] # "pubwrite"

\* "Create a durable private key on first use and publish its matching public
\* key next to it" (repo.rs) happens, and a rebuild signs, provided that no
\* failure or stop leaves one of the two files behind created and not written:
\* nothing repairs such a file.
FirstUseCompletes ==
    []~Abandoned => <>[](key \in Keys /\ pub = key /\ sig = key)
=============================================================================
