------------------------------- MODULE Shelf --------------------------------
(***************************************************************************)
(* What the artifact repository promises its builders and visitors: a      *)
(* shelf that holds one archive under each file name, or none. A request   *)
(* to publish or to withdraw takes the place of its file, during which     *)
(* nothing is promised of that place, and then settles it; or it is        *)
(* refused and leaves the shelf alone. Nothing else touches the shelf.     *)
(***************************************************************************)
CONSTANTS Requests, Filenames, Archives, Moving, None

\* Moving, None and the archives are different values.

VARIABLES
    shelf,  \* filename -> the archive there, None, or Moving
    ask,    \* per request: how far it is
    goal    \* per request: the file and what is to be there, while it lasts

vars == <<shelf, ask, goal>>

Goals == [file : Filenames, archive : Archives \cup {None}]

TypeOK ==
    /\ shelf \in [Filenames -> Archives \cup {None, Moving}]
    /\ ask \in [Requests -> {"none", "asked", "moving", "settled"}]
    /\ goal \in [Requests -> Goals \cup {None}]

Init ==
    /\ shelf = [f \in Filenames |-> None]
    /\ ask = [r \in Requests |-> "none"]
    /\ goal = [r \in Requests |-> None]

Ask(r, g) ==
    /\ ask[r] = "none"
    /\ \A q \in Requests : ask[q] # "none" => goal[q].file # g.file
    /\ ask' = [ask EXCEPT ![r] = "asked"]
    /\ goal' = [goal EXCEPT ![r] = g]
    /\ UNCHANGED shelf

Take(r) ==
    /\ ask[r] = "asked"
    /\ ask' = [ask EXCEPT ![r] = "moving"]
    /\ shelf' = [shelf EXCEPT ![goal[r].file] = Moving]
    /\ UNCHANGED goal

Settle(r) ==
    /\ ask[r] = "moving"
    /\ ask' = [ask EXCEPT ![r] = "settled"]
    /\ shelf' = [shelf EXCEPT ![goal[r].file] = goal[r].archive]
    /\ UNCHANGED goal

\* The answer, or a refusal of what has not been begun.
End(r) ==
    /\ ask[r] \in {"asked", "settled"}
    /\ ask' = [ask EXCEPT ![r] = "none"]
    /\ goal' = [goal EXCEPT ![r] = None]
    /\ UNCHANGED shelf

Next ==
    \E r \in Requests :
        (\E g \in Goals : Ask(r, g)) \/ Take(r) \/ Settle(r) \/ End(r)

Spec == Init /\ [][Next]_vars
=============================================================================
