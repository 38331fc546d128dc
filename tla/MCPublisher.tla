---------------------------- MODULE MCPublisher ----------------------------
(* Small instances of Publisher for TLC. *)
EXTENDS Publisher

CONSTANTS r1, r2, f1, a1, a2, a3

\* Three builds of a package, the second for another channel.
MCDirOf == [a \in Archives |-> IF a = a2 THEN 2 ELSE 1]
MCForward ==
    [a \in Archives |->
        Archives \cap (IF a = a1 THEN {a2} ELSE IF a = a2 THEN {a3} ELSE {})]

\* What a request that is over last named, and a staging file nobody has
\* open, are overwritten before they are read again.
View ==
    <<dbVars, disk, index, pc, fd, ingestVars,
      [f \in Filenames |-> IF Idle(f) THEN None ELSE staged[f]],
      [r \in Requests |->
          IF Busy(r) THEN <<file[r], body[r], sent[r], declared[r]>> ELSE <<>>],
      local, cmd, left, cur, sum, conn, told, calm>>

=============================================================================
