--------------------------- MODULE MCResumeStore ---------------------------
(* A plain torrent and a hybrid, whose magnet link has the v1 hash and      *)
(* whose .torrent file has the v2 hash; for liveness, two plain torrents.   *)
EXTENDS ResumeStore

CONSTANTS plain, hybrid, p, v1, v2

MCIdOf == [k \in {p, v1, v2} |-> IF k = p THEN plain ELSE hybrid]
MCLink == [id \in {plain, hybrid} |-> IF id = plain THEN p ELSE v1]
MCBest == [id \in {plain, hybrid} |-> IF id = plain THEN p ELSE v2]

PlainIdOf == [k \in {p, v1} |-> IF k = p THEN plain ELSE hybrid]

=============================================================================
