------------------------------ MODULE Session -------------------------------
(* The parts of the session that the registry of torrents has no part in:   *)
(* the IP filter, the settings, and the storage of a torrent.  They share   *)
(* no variable, so a behaviour is about one of them.                        *)
EXTENDS IpFilter, SessionSettings, TorrentStorage

VARIABLE part

sessionVars == <<part, filterVars, settingsVars, storageVars>>

\* Bound: the parts at rest are in one state.
AtRest == savePath = CHOOSE p \in Paths : TRUE

SessionInit ==
    /\ part \in {"filter", "settings", "storage"}
    /\ FilterInit /\ (part = "filter" \/ orderly)
    /\ SettingsInit
    /\ StorageInit /\ (part = "storage" \/ (AtRest /\ metadata /\ careful))

SessionNext ==
    /\ \/ part = "filter" /\ FilterNext /\ UNCHANGED <<settingsVars, storageVars>>
       \/ part = "settings" /\ SettingsNext /\ UNCHANGED <<filterVars, storageVars>>
       \/ part = "storage" /\ StorageNext /\ UNCHANGED <<filterVars, settingsVars>>
    /\ UNCHANGED part

SessionSpec == SessionInit /\ [][SessionNext]_sessionVars /\ StorageFairness

(* Every variable has its type. *)
SessionTypeOK == FilterTypeOK /\ SettingsTypeOK /\ StorageTypeOK

=============================================================================
