------------------------------ MODULE MCParts -------------------------------
(* Session and MCSources in one model: what the session does without its    *)
(* registry, and where torrents come from, share no state, so a behaviour   *)
(* is about one of them, and the other one is at rest.                      *)
EXTENDS Session, MCSources

VARIABLE half

partsVars == <<half, sessionVars, sourcesVars>>

\* Bound: a half at rest is in one state.
SessionAtRest ==
    part = "filter" /\ orderly /\ AtRest /\ metadata /\ careful

SourcesAtRest == way = "link" /\ config.options = CHOOSE o \in Options : TRUE

PartsInit ==
    /\ half \in {"session", "sources"}
    /\ SessionInit /\ (half = "session" \/ SessionAtRest)
    /\ SourcesInit /\ (half = "sources" \/ SourcesAtRest)

\* Bound: when libtorrent has dropped an alert, nothing is said of what
\* follows, and a behaviour about the storage is not followed further.
Followed == half = "session" /\ ~dropped

Dropped == dropped /\ UNCHANGED partsVars

PartsNext ==
    \/ /\ \/ Followed /\ SessionNext /\ UNCHANGED sourcesVars
          \/ half = "sources" /\ SourcesNext /\ UNCHANGED sessionVars
       /\ UNCHANGED half
    \/ Dropped

\* The fairness of the storage, up to there.
StorageGoes(step) ==
    /\ Followed /\ part = "storage"
    /\ step
    /\ UNCHANGED <<half, part, filterVars, settingsVars, sourcesVars>>

PartsFairness ==
    /\ WF_partsVars(StorageGoes(DiskThread))
    /\ WF_partsVars(StorageGoes(AnswerSave))
    /\ WF_partsVars(StorageGoes(Poll))
    /\ WF_partsVars(StorageGoes(Dispatch))
    /\ SourcesFairness

PartsSpec == PartsInit /\ [][PartsNext]_partsVars /\ PartsFairness

=============================================================================
