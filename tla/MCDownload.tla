----------------------------- MODULE MCDownload -----------------------------
(* Small instances of Download for TLC. *)
EXTENDS Download, TLC

CONSTANTS r1, r2, f1, f2, a1, a2

\* Two channels: a file published first as a1 and then as a2 moves.
MCDirOf == [a \in Archives |-> IF a = a1 THEN 1 ELSE 2]

\* What the answer under way still depends on; of a read that met an exchange
\* nothing is claimed.
ReaderView ==
    CASE reading = "none" -> <<want>>
      [] crossed -> <<crossed, reading, dir, name>>
      [] reading = "tag"  -> <<reading, dir, name, want, size>>
      [] reading = "open" -> <<reading, dir, name, size, tag>>
      [] reading = "same" -> <<reading, dir, name, want>>
      [] reading = "sent" -> <<reading, size, tag, got>>
      [] reading = "list" -> <<reading, name, tag>>
      [] reading = "page" -> <<reading, tag, got>>

\* For the rest as in MCRepository.
View ==
    <<dbVars, disk, index, pc, fd, ingestVars,
      [f \in Filenames |-> IF Idle(f) THEN None ELSE staged[f]],
      [r \in Requests |->
          IF Busy(r) THEN <<file[r], body[r], sent[r]>> ELSE <<>>],
      ReaderView>>

Symmetry == Permutations(Requests) \cup Permutations(Filenames)
=============================================================================
