---------------------------- MODULE MCRepository ----------------------------
(* Small instances of Repository for TLC. *)
EXTENDS Repository, TLC

CONSTANTS r1, r2, f1, f2, a1, a2

\* Two channels: a1 is an archive of system, a2 of another channel. A file
\* name published first as a1 and then as a2 moves between directories.
MCDirOf == [a \in Archives |-> IF a = a1 THEN 1 ELSE 2]

\* What a request that is over last named, and a staging file nobody has
\* open, are overwritten before they are read again: states that differ only
\* there are one state.
View ==
    <<dbVars, disk, index, pc, fd, ingestVars,
      [f \in Filenames |-> IF Idle(f) THEN None ELSE staged[f]],
      [r \in Requests |->
          IF Busy(r) THEN <<file[r], body[r], sent[r]>> ELSE <<>>]>>

Symmetry == Permutations(Requests) \cup Permutations(Filenames)
=============================================================================
