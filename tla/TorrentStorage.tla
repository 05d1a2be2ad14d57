--------------------------- MODULE TorrentStorage ---------------------------
(* Where a torrent's files are, what they are called, and what is complete. *)
(* libtorrent moves and renames on its disk thread; Torrent only asks, and  *)
(* learns the outcome from alerts, which processAlerts dispatches in order. *)
(* libtorrent does not post an alert whose category is not in the alert     *)
(* mask that the client has set, and drops alerts when its queue is full.   *)
(*                                                                          *)
(* downloadDirectory() is a copy, changed by those alerts alone.  A resume  *)
(* file holds the directory of the time when it was asked for.  A careful   *)
(* application saves whenever storageMoved tells it of a new directory.     *)
EXTENDS Integers, Sequences, SequencesExt

CONSTANTS Paths, Files, Names,
          FirstName,   \* of a file, from the metadata
          MaxJobs,     \* bound of the queue of the disk thread
          MaxAlerts    \* bound of the queue of alerts

ASSUME FirstNameAssumption == FirstName \in Names
ASSUME BoundsAssumption == MaxJobs \in Nat /\ MaxAlerts \in Nat \ {0}

VARIABLES
    downloadDirectory,          \* _downloadDirectory
    savePath, names, complete,  \* what libtorrent has
    metadata,                   \* torrent_file() is not null
    jobs,                       \* moves and renames to be done, in order
    saving,                     \* a save is asked for
    alerts, batch,              \* libtorrent's queue; popped, not dispatched
    resumeFile,                 \* the directory it holds
    dropped,                    \* history: the queue was full
    moving,                     \* history: paths asked for, not answered
    shown, reported,            \* history: names and files told by signals
    careful

libtorrentVars == <<savePath, names, complete, metadata, jobs, saving>>
signalVars == <<downloadDirectory, resumeFile, moving, shown, reported>>
storageVars == <<libtorrentVars, alerts, batch, dropped, signalVars, careful>>

Moves == [kind : {"moved", "moveFailed"}, path : Paths]
Renames == [kind : {"renamed", "renameFailed"}, file : Files, name : Names]
Completions == [kind : {"completed"}, file : Files]
Saves == [kind : {"saved"}, path : Paths]
Alerts == Moves \union Renames \union Completions \union Saves

Moved(p) == [kind |-> "moved", path |-> p]
Renamed(f, name) == [kind |-> "renamed", file |-> f, name |-> name]

Jobs == [kind : {"move"}, path : Paths]
            \union [kind : {"rename"}, file : Files, name : Names]

----------------------------------------------------------------------------
StorageInit ==
    /\ savePath \in Paths
    /\ downloadDirectory = savePath
    /\ names = [f \in Files |-> FirstName]
    /\ shown = names
    /\ complete = {} /\ reported = {}
    /\ metadata \in BOOLEAN
    /\ jobs = <<>> /\ saving = FALSE
    /\ alerts = <<>> /\ batch = <<>> /\ dropped = FALSE
    /\ resumeFile = savePath
    /\ moving = {}
    /\ careful \in BOOLEAN

----------------------------------------------------------------------------
(* Alerts. *)

\* A variant of AlertMask: without storage.
AlertMaskNoStorage == {"status", "error", "peer", "tracker", "dht",
                       "port_mapping", "stats"}

\* The alert_mask of the constructor.
AlertMask == {"status", "error", "storage", "peer", "tracker", "dht",
              "port_mapping", "stats"}

\* The categories that libtorrent gives to its alerts.
Category(a) ==
    CASE a.kind = "completed" -> "file_progress"
      [] OTHER                -> "storage"

Post(a) ==
    IF Category(a) \notin AlertMask
    THEN UNCHANGED <<alerts, dropped>>
    ELSE \/ /\ Len(alerts) < MaxAlerts
            /\ alerts' = Append(alerts, a)
            /\ UNCHANGED dropped
         \/ /\ Len(alerts) = MaxAlerts
            /\ dropped' = TRUE
            /\ UNCHANGED alerts

----------------------------------------------------------------------------
(* The application: Torrent's functions, with a valid handle. *)

\* moveStorage.  Without metadata there is nothing to move: libtorrent takes
\* the new path and posts the alert at once.
MoveStorage(p) ==
    /\ moving' = moving \union {p}
    /\ \/ /\ metadata
          /\ Len(jobs) < MaxJobs
          /\ jobs' = Append(jobs, [kind |-> "move", path |-> p])
          /\ UNCHANGED <<savePath, alerts, dropped>>
       \/ /\ ~metadata
          /\ savePath' = p
          /\ Post(Moved(p))
          /\ UNCHANGED jobs
    /\ UNCHANGED <<names, complete, metadata, saving, batch, downloadDirectory,
                   resumeFile, shown, reported, careful>>

RenameFile(f, name) ==
    /\ metadata
    /\ Len(jobs) < MaxJobs
    /\ jobs' = Append(jobs, [kind |-> "rename", file |-> f, name |-> name])
    /\ UNCHANGED <<savePath, names, complete, metadata, saving, alerts, batch,
                   dropped, signalVars, careful>>

SaveResumeData ==
    /\ saving' = TRUE
    /\ UNCHANGED <<savePath, names, complete, metadata, jobs, alerts, batch,
                   dropped, signalVars, careful>>

----------------------------------------------------------------------------
(* libtorrent. *)

DoMove ==
    /\ jobs # <<>> /\ Head(jobs).kind = "move"
    /\ jobs' = Tail(jobs)
    /\ LET p == Head(jobs).path
       IN  \/ savePath' = p /\ Post(Moved(p))
           \/ UNCHANGED savePath /\ Post([kind |-> "moveFailed", path |-> p])
    /\ UNCHANGED <<names, complete, metadata, saving, batch, signalVars, careful>>

DoRename ==
    /\ jobs # <<>> /\ Head(jobs).kind = "rename"
    /\ jobs' = Tail(jobs)
    /\ LET f == Head(jobs).file
           n == Head(jobs).name
       IN  \/ /\ names' = [names EXCEPT ![f] = n]
              /\ Post(Renamed(f, n))
           \/ /\ UNCHANGED names
              /\ Post([kind |-> "renameFailed", file |-> f, name |-> n])
    /\ UNCHANGED <<savePath, complete, metadata, saving, batch, signalVars, careful>>

ReceiveMetadata ==
    /\ ~metadata
    /\ metadata' = TRUE
    /\ UNCHANGED <<savePath, names, complete, jobs, saving, alerts, batch,
                   dropped, signalVars, careful>>

CompleteFile(f) ==
    /\ metadata
    /\ f \notin complete
    /\ complete' = complete \union {f}
    /\ Post([kind |-> "completed", file |-> f])
    /\ UNCHANGED <<savePath, names, metadata, jobs, saving, batch, signalVars,
                   careful>>

AnswerSave ==
    /\ saving
    /\ saving' = FALSE
    /\ Post([kind |-> "saved", path |-> savePath])
    /\ UNCHANGED <<savePath, names, complete, metadata, jobs, batch, signalVars,
                   careful>>

----------------------------------------------------------------------------
(* processAlerts: pop_alerts, then one alert at a time; the slots of the    *)
(* signal that ends a branch run before the next one.                       *)

Poll ==
    /\ batch = <<>> /\ alerts # <<>>
    /\ batch' = alerts
    /\ alerts' = <<>>
    /\ UNCHANGED <<libtorrentVars, dropped, signalVars, careful>>

\* A variant of DirectoryAfter: a move that failed is taken for one that did not.
DirectoryAfterAny(a) == IF a \in Moves THEN a.path ELSE downloadDirectory

\* setDownloadDirectory, for storage_moved_alert.
DirectoryAfter(a) == IF a.kind = "moved" THEN a.path ELSE downloadDirectory

\* A variant of ShownAfter: the name that libtorrent refused.
ShownAfterAny(a) ==
    IF a \in Renames THEN [shown EXCEPT ![a.file] = a.name] ELSE shown

\* fileRenamed; fileRenameError tells of no name.
ShownAfter(a) ==
    IF a.kind = "renamed" THEN [shown EXCEPT ![a.file] = a.name] ELSE shown

\* A variant of Answers: a move that failed is not answered.
AnswersMoved(a) == IF a.kind = "moved" THEN {a.path} ELSE {}

\* storageMoved or storageMoveError.
Answers(a) == IF a \in Moves THEN {a.path} ELSE {}

\* The slot of a careful application calls saveResumeData.
SavesInSlot(a) == careful /\ a.kind = "moved"

Dispatch ==
    /\ batch # <<>>
    /\ batch' = Tail(batch)
    /\ LET a == Head(batch)
       IN  /\ downloadDirectory' = DirectoryAfter(a)
           /\ shown' = ShownAfter(a)
           /\ moving' = moving \ Answers(a)
           /\ reported' = IF a.kind = "completed" THEN reported \union {a.file}
                                                  ELSE reported
           /\ resumeFile' = IF a.kind = "saved" THEN a.path ELSE resumeFile
           /\ saving' = (saving \/ SavesInSlot(a))
    /\ UNCHANGED <<savePath, names, complete, metadata, jobs, alerts, dropped,
                   careful>>

----------------------------------------------------------------------------
Torrents ==
    \/ \E p \in Paths : MoveStorage(p)
    \/ \E f \in Files, n \in Names : RenameFile(f, n)
    \/ SaveResumeData

DiskThread == DoMove \/ DoRename

StorageNext ==
    \/ Torrents
    \/ DiskThread
    \/ ReceiveMetadata
    \/ \E f \in Files : CompleteFile(f)
    \/ AnswerSave
    \/ Poll \/ Dispatch

(* libtorrent works through its queues, and the event loop gets round to    *)
(* processAlerts, whatever the application does in between.                 *)
StorageFairness ==
    /\ WF_storageVars(DiskThread)
    /\ WF_storageVars(AnswerSave)
    /\ WF_storageVars(Poll)
    /\ WF_storageVars(Dispatch)

StorageSpec == StorageInit /\ [][StorageNext]_storageVars /\ StorageFairness

----------------------------------------------------------------------------
(* Safety. *)

(* What is still to be dispatched, in order. *)
Pending == batch \o alerts

MovedAlerts == {Moved(p) : p \in Paths}
RenamedAlerts(f) == {Renamed(f, name) : name \in Names}

NoneIn(s, S) == \A i \in DOMAIN s : s[i] \notin S

LastIn(s, S, a) ==
    \E i \in DOMAIN s : s[i] = a /\ \A j \in DOMAIN s : j > i => s[j] \notin S

(* The alerts of s that are in S lead to a, or there are none, as all of    *)
(* it is told already.                                                      *)
Leads(s, S, a, told) == IF NoneIn(s, S) THEN told ELSE LastIn(s, S, a)

(* Every variable has its type. *)
StorageTypeOK ==
    /\ downloadDirectory \in Paths /\ savePath \in Paths
    /\ names \in [Files -> Names] /\ shown \in [Files -> Names]
    /\ complete \subseteq Files /\ reported \subseteq Files
    /\ metadata \in BOOLEAN /\ saving \in BOOLEAN
    /\ dropped \in BOOLEAN /\ careful \in BOOLEAN
    /\ jobs \in Seq(Jobs)
    /\ alerts \in Seq(Alerts) /\ batch \in Seq(Alerts)
    /\ resumeFile \in Paths
    /\ moving \subseteq Paths

(* The copy of the directory is late, never wrong: unless an alert was      *)
(* dropped, the pending alerts lead from it to libtorrent's directory, with *)
(* any moves, failures and polls in between.                                *)
DirectoryCatchesUp ==
    ~dropped =>
        Leads(Pending, MovedAlerts, Moved(savePath), downloadDirectory = savePath)

(* The names that fileRenamed has told are late, never wrong, though the    *)
(* renames of one file may cross and some of them fail.                     *)
NamesCatchUp ==
    ~dropped =>
        \A f \in Files :
            Leads(Pending, RenamedAlerts(f), Renamed(f, names[f]), shown[f] = names[f])

----------------------------------------------------------------------------
(* Liveness. *)

(* "On completion, storageMoved() is emitted; on failure,                   *)
(* storageMoveError()": every move is answered.                             *)
MovesAreAnswered ==
    \A p \in Paths : p \in moving ~> p \notin moving \/ dropped

(* The next run finds the data: with an application that saves when it is   *)
(* told of a move, the resume file comes to hold the directory in which the *)
(* files are, if they are not moved any more.                               *)
ResumeFileFollows ==
    \A p \in Paths :
        <>[](savePath = p /\ jobs = <<>> /\ careful) =>
            <>[](dropped \/ resumeFile = p)

(* fileCompleted is "emitted when an individual file finishes downloading". *)
(* The alert it is made from is of a category that is not in the mask.      *)
FilesAreReported ==
    \A f \in Files : f \in complete ~> f \in reported \/ dropped

=============================================================================
