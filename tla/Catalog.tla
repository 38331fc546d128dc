------------------------------ MODULE Catalog -------------------------------
(***************************************************************************)
(* What synchronization promises: the catalog always is that of one commit *)
(* of the source tree whose recipes load, and moves forward only; the hub  *)
(* knows the commit it shows, or an older one it has shown before.         *)
(***************************************************************************)
EXTENDS Naturals

CONSTANTS Paths, MaxCommit, Bad, None

Commits == 1 .. MaxCommit

VARIABLES
    head,   \* the newest commit of the branch
    shown,  \* the catalog: the commit of each recipe, and its label
    known   \* the commit the hub takes for the one shown

vars == <<head, shown, known>>

TreeOf(c) == [src |-> [p \in Paths |-> c], label |-> c]

Init == head = 1 /\ shown = None /\ known = None

Push ==
    /\ head < MaxCommit
    /\ head' = head + 1
    /\ UNCHANGED <<shown, known>>

Show(c) ==
    /\ c \in 1 .. head \ Bad
    /\ shown # None => shown.label < c
    /\ shown' = TreeOf(c)
    /\ UNCHANGED <<head, known>>

Note ==
    /\ shown # None
    /\ known' = shown.label
    /\ UNCHANGED <<head, shown>>

Next == Push \/ Note \/ \E c \in Commits : Show(c)

Spec == Init /\ [][Next]_vars
=============================================================================
