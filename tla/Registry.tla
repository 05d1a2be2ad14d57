------------------------------ MODULE Registry ------------------------------
(* What TorrentClient promises of its torrents, without objects, handles,   *)
(* alerts and loops: the application adds and removes info hashes, one at a *)
(* time.  The torrent that libtorrent runs for a hash may have another hash *)
(* as well; removing it under one detaches it from the other, which stays   *)
(* listed until it is removed in its turn.                                  *)
CONSTANTS Keys, IdOf

VARIABLE face   \* of each hash: "absent", "running" or "detached"

RegistryInit == face = [k \in Keys |-> "absent"]

Add(k) ==
    /\ face[k] = "absent"
    /\ face' = [face EXCEPT ![k] = "running"]

Remove(k) ==
    /\ face[k] # "absent"
    /\ face' = [j \in Keys |->
                  CASE j = k -> "absent"
                    [] j # k /\ face[k] = "running" /\ face[j] = "running"
                         /\ IdOf[j] = IdOf[k] -> "detached"
                    [] OTHER -> face[j]]

RegistryNext == \E k \in Keys : Add(k) \/ Remove(k)

RegistrySpec == RegistryInit /\ [][RegistryNext]_face

=============================================================================
