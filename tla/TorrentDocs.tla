---------------------------- MODULE TorrentDocs ----------------------------
(* What the header says of torrentStateChanged, next to what processAlerts  *)
(* emits: the Torrent module with an observer connected to that signal.     *)
EXTENDS Torrent

VARIABLE clientState   \* the state the last torrentStateChanged carried

docVars == <<vars, clientState>>

DocsInit ==
    /\ Init
    /\ clientState = "Idle"

\* torrentStateChanged(t, t->state())
ObserveState ==
    /\ Notify
    /\ clientState' = IF state # Top.old THEN state ELSE clientState

Unobserved ==
    /\ Application \/ Libtorrent \/ Poll \/ Map \/ Complete \/ Seeded \/ CheckSeedRatio
    /\ UNCHANGED clientState

DocsNext == ObserveState \/ Unobserved

DocsSpec == DocsInit /\ [][DocsNext]_docVars /\ Fairness

----------------------------------------------------------------------------
(* torrentStateChanged is "emitted when any torrent transitions to a new    *)
(* state": a torrent that stays paused was reported as paused.  The code    *)
(* compares the states before and after updateFromStatus only, so a pause() *)
(* of the application, which sets the state itself, is never reported.      *)
PauseIsReported ==
    <>[](state = "Paused") => <>(clientState = "Paused")

=============================================================================
