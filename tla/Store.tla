------------------------------- MODULE Store -------------------------------
(* What TorrentClient promises of the resume data of its torrents, without  *)
(* wrappers, requests, alerts and loops: each torrent has a file of its     *)
(* own that outlives the runs of the program.  Only a torrent that is       *)
(* active has its file written, and only removing the torrent deletes it.   *)
CONSTANT Torrents

VARIABLES keeping,   \* this run keeps resume data
          restored,  \* it has taken up what the runs before it kept
          active,    \* the torrents of this run
          file       \* of each torrent: "none", "torn" or "whole"

storeVars == <<keeping, restored, active, file>>

StoreInit ==
    /\ keeping = FALSE /\ restored = FALSE
    /\ active = {}
    /\ file = [t \in Torrents |-> "none"]

Keep ==
    /\ keeping' = TRUE
    /\ UNCHANGED <<restored, active, file>>

\* It is added, or found in a file.
Activate(t) ==
    /\ t \notin active
    /\ active' = active \union {t}
    /\ UNCHANGED <<keeping, restored, file>>

Discard(t) ==
    /\ t \in active
    /\ active' = active \ {t}
    /\ file' = IF keeping THEN [file EXCEPT ![t] = "none"] ELSE file
    /\ UNCHANGED <<keeping, restored>>

BeginSave(t) ==
    /\ keeping /\ t \in active
    /\ file' = [file EXCEPT ![t] = "torn"]
    /\ UNCHANGED <<keeping, restored, active>>

EndSave(t) ==
    /\ keeping /\ t \in active
    /\ file[t] = "torn"
    /\ file' = [file EXCEPT ![t] = "whole"]
    /\ UNCHANGED <<keeping, restored, active>>

\* All that was kept is active, or was discarded with its file.
Restore ==
    /\ keeping
    /\ \A t \in Torrents : file[t] = "whole" => t \in active
    /\ restored' = TRUE
    /\ UNCHANGED <<keeping, active, file>>

\* The program exits, or crashes.
EndRun ==
    /\ keeping' = FALSE /\ restored' = FALSE
    /\ active' = {}
    /\ UNCHANGED file

StoreNext ==
    \/ \E t \in Torrents : Activate(t) \/ Discard(t) \/ BeginSave(t) \/ EndSave(t)
    \/ Keep \/ Restore \/ EndRun

StoreSpec == StoreInit /\ [][StoreNext]_storeVars

=============================================================================
