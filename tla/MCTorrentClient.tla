-------------------------- MODULE MCTorrentClient --------------------------
(* Two torrents, the first one a hybrid: its magnet link yields the v1      *)
(* hash, its .torrent file the v2 hash.                                     *)
EXTENDS TorrentClient

CONSTANTS v1, v2, other, hybrid, plain

MCIdOf == [k \in {v1, v2, other} |-> IF k = other THEN plain ELSE hybrid]

=============================================================================
