---------------------------- MODULE ResumeStore ----------------------------
(* Resume data: TorrentClient saves each torrent to a file named by its     *)
(* info hash and adds the torrents of the files it finds at startup.  A run *)
(* of the program may end anywhere, also between the truncation of a file   *)
(* and the write that fills it.                                             *)
(*                                                                          *)
(* The registry is reduced to what the files depend on: torrents are named  *)
(* by the hash of their wrapper, and the calls that are in progress are one *)
(* loadResumeData, in whose slots the application calls the client, and one *)
(* write.  What nested polls do to a batch of alerts is in TorrentClient.   *)
EXTENDS Naturals, Sequences, FiniteSets, SequencesExt

CONSTANTS Keys,       \* info hashes: names of files and of wrappers
          Ids,        \* torrents as libtorrent tells them apart
          IdOf,       \* a hybrid torrent is one Id with two Keys
          Link, Best, \* of an Id: the hash of its magnet link, get_best()
          None,
          Watched,    \* the hashes whose saves an observer follows
          MaxSaves    \* bound: requests and answers in the queue

Absent == "absent"
Torn   == "torn"     \* truncated: read_resume_data fails

ASSUME KeysAssumption == IsFiniteSet(Keys)
ASSUME IdOfAssumption == IdOf \in [Keys -> Ids]
ASSUME HashesAssumption ==
    /\ Link \in [Ids -> Keys] /\ Best \in [Ids -> Keys]
    /\ \A id \in Ids : IdOf[Link[id]] = id /\ IdOf[Best[id]] = id
    /\ \A k \in Keys : k \in {Link[IdOf[k]], Best[IdOf[k]]}
ASSUME NoneAssumption == {None, Absent, Torn} \intersect (Keys \union Ids) = {}
ASSUME WatchedAssumption == Watched \subseteq Keys
ASSUME MaxSavesAssumption == MaxSaves \in Nat \ {0}

VARIABLES
    running,    \* there is a TorrentClient
    directory,  \* _resumeDataDirectory is set
    listed,     \* _torrents, by their hashes
    attached,   \* the listed torrents whose handle is valid
    session,    \* the Ids libtorrent has
    info,       \* those of them whose get_best() is their Best, not their Link
    saves,      \* requests, turned into alerts by libtorrent, in order
    disk,       \* of each file name: the hash get_best() finds in the file
    writing,    \* the open file and what goes into it
    loading,    \* files loadResumeData still has to read
    call,       \* "idle", "load", or "slot" of its torrentAdded
    loaded,     \* loadResumeData has returned in this run
    waiting,    \* watched torrents whose save, with a directory, has no answer
    gone        \* Ids removed with their last file, and since then neither
                \* added nor written to the file of another torrent

client   == <<directory, listed, attached, session, info>>
loader   == <<loading, call, loaded>>
observed == <<waiting, gone>>
vars     == <<running, client, saves, disk, writing, loader, observed>>

Listed == ToSet(listed)

Save == [id : Ids, answer : {"asked", "saved", "failed"},
         best : Keys \union {None}, valid : BOOLEAN]

\* Nothing runs between opening a file and closing it.
Calling == running /\ writing = None /\ call # "load"

Fresh ==
    /\ directory' = FALSE
    /\ listed' = <<>>
    /\ attached' = {}
    /\ session' = {}
    /\ info' = {}
    /\ saves' = <<>>
    /\ writing' = None
    /\ loading' = {}
    /\ call' = "idle"
    /\ loaded' = FALSE
    /\ waiting' = {}

----------------------------------------------------------------------------
Init ==
    /\ running = FALSE
    /\ directory = FALSE
    /\ listed = <<>>
    /\ attached = {}
    /\ session = {}
    /\ info = {}
    /\ saves = <<>>
    /\ disk = [k \in Keys |-> Absent]
    /\ writing = None
    /\ loading = {}
    /\ call = "idle"
    /\ loaded = FALSE
    /\ waiting = {}
    /\ gone = {}

Launch ==
    /\ ~running
    /\ running' = TRUE
    /\ UNCHANGED <<client, saves, disk, writing, loader, observed>>

\* The destructor: requests and alerts go with the session.
Exit ==
    /\ running /\ writing = None /\ call = "idle"
    /\ running' = FALSE
    /\ Fresh
    /\ UNCHANGED <<disk, gone>>

\* Also in the middle of a write, which leaves the file torn.
Crash ==
    /\ running
    /\ running' = FALSE
    /\ Fresh
    /\ UNCHANGED <<disk, gone>>

----------------------------------------------------------------------------
(* Calls of the application. *)

SetResumeDataDirectory ==
    /\ Calling
    /\ directory' = TRUE
    /\ UNCHANGED <<running, listed, attached, session, info, saves, disk,
                   writing, loader, observed>>

\* Append a wrapper; libtorrent returns the torrent it has under this Id.
Wrap(k) ==
    /\ listed' = Append(listed, k)
    /\ attached' = attached \union {k}
    /\ session' = session \union {IdOf[k]}
    /\ info' = IF IdOf[k] \in session \/ k # Best[IdOf[k]] THEN info
                                                           ELSE info \union {IdOf[k]}

AddTorrent(k) ==
    /\ Calling
    /\ k \notin Listed
    /\ Wrap(k)
    /\ gone' = gone \ {IdOf[k]}
    /\ UNCHANGED <<running, directory, saves, disk, writing, loader, waiting>>

\* A variant of FileRemoved: the file stays.
FileRemovedNever(k) == disk

\* QFile::remove in removeTorrent.
FileRemoved(k) == IF directory THEN [disk EXCEPT ![k] = Absent] ELSE disk

\* Handles of a torrent that left the session expire.
Expired(id) ==
    [i \in DOMAIN saves |->
        IF saves[i].id = id THEN [saves[i] EXCEPT !.valid = FALSE] ELSE saves[i]]

\* k is the last wrapper of its torrent, and its file the last one.
LastTrace(k) ==
    /\ \A s \in Listed \ {k} : IdOf[s] # IdOf[k]
    /\ \A s \in Keys \ {k} : disk[s] \in Keys => IdOf[disk[s]] # IdOf[k]

RemoveTorrent(k) ==
    LET id == IdOf[k]
    IN  /\ Calling
        /\ k \in Listed
        /\ IF k \in attached
           THEN /\ session' = session \ {id}
                /\ info' = info \ {id}
                /\ attached' = {s \in attached : IdOf[s] # id}
                /\ saves' = Expired(id)
           ELSE UNCHANGED <<session, info, attached, saves>>
        /\ disk' = FileRemoved(k)
        /\ listed' = RemoveFirst(listed, k)
        /\ waiting' = waiting \ {k}
        /\ gone' = IF directory /\ LastTrace(k) THEN gone \union {id} ELSE gone
        /\ UNCHANGED <<running, directory, writing, loader>>

Request(k) == [id |-> IdOf[k], answer |-> "asked", best |-> None, valid |-> TRUE]

\* saveAllResumeData: save_resume_data() on every valid handle.  libtorrent
\* takes the requests in an order of its own.
SaveAllResumeData ==
    /\ Calling
    /\ Len(saves) + Cardinality(attached) <= MaxSaves
    /\ \E asked \in SetToSeqs(attached) :
          saves' = saves \o [i \in DOMAIN asked |-> Request(asked[i])]
    /\ waiting' = IF directory THEN waiting \union (attached \intersect Watched)
                               ELSE waiting
    /\ UNCHANGED <<running, client, disk, writing, loader, gone>>

----------------------------------------------------------------------------
(* libtorrent. *)

\* A magnet link gets its metadata, and with it the other hash of a hybrid.
ReceiveMetadata(id) ==
    /\ id \in session \ info
    /\ info' = info \union {id}
    /\ UNCHANGED <<running, directory, listed, attached, session, saves, disk,
                   writing, loader, observed>>

\* The alerts a request may lead to; of a torrent that left the session
\* libtorrent may still know either hash.
Answers(save, result) ==
    LET best == IF result = "failed" THEN {None}
                ELSE IF ~save.valid THEN {Link[save.id], Best[save.id]}
                ELSE IF save.id \in info THEN {Best[save.id]}
                ELSE {Link[save.id]}
    IN  {[save EXCEPT !.answer = result, !.best = k] : k \in best}

\* The oldest open request becomes an alert.  A request about a torrent that
\* left the session may be dropped.
Answer(result) ==
    \E i \in DOMAIN saves :
        /\ saves[i].answer = "asked"
        /\ \A j \in 1..(i - 1) : saves[j].answer # "asked"
        /\ \/ \E answer \in Answers(saves[i], result) :
                 saves' = [saves EXCEPT ![i] = answer]
           \/ ~saves[i].valid /\ saves' = RemoveAt(saves, i)
        /\ UNCHANGED <<running, client, disk, writing, loader, observed>>

----------------------------------------------------------------------------
(* processAlerts, one alert at a time; the application calls in between.    *)

\* A variant of FindByHandle: every torrent matches.
FindByHandleAny(alert) == Listed

\* findTorrentByHandle compares handles and does not ask if they are valid.
\* All that expired may compare equal, whatever torrents they were of.
FindByHandle(alert) ==
    IF alert.valid THEN {k \in Listed \intersect attached : IdOf[k] = alert.id}
                   ELSE Listed \ attached

\* The first torrent of the list that matches, if any does.
Found(alert) ==
    LET S == FindByHandle(alert)
        First(k) == \E i \in DOMAIN listed :
                        /\ listed[i] = k
                        /\ \A j \in 1..(i - 1) : listed[j] \notin S
    IN  {k \in S : alert.valid => First(k)}
        \union (IF alert.valid /\ S # {} THEN {} ELSE {None})

Alert(answer) ==
    /\ Calling
    /\ saves # <<>>
    /\ Head(saves).answer = answer
    /\ saves' = Tail(saves)

\* No torrent, or no directory: the answer is dropped without a signal.
Drop ==
    /\ Alert("saved") \/ Alert("failed")
    /\ \/ None \in Found(Head(saves))
       \/ Head(saves).answer = "saved" /\ ~directory
    /\ UNCHANGED <<running, client, disk, writing, loader, observed>>

\* A variant of SaveAlert: a failure is taken for an answer with data.
SaveAlertAny == Alert("saved") \/ Alert("failed")

SaveAlert == Alert("saved")

\* QFile::open(WriteOnly): the old content is gone.
Open(k) ==
    /\ SaveAlert
    /\ directory
    /\ k \in Found(Head(saves))
    /\ disk' = [disk EXCEPT ![k] = Torn]
    /\ writing' = [file |-> k, best |-> Head(saves).best]
    /\ gone' = IF Head(saves).id = IdOf[k] THEN gone ELSE gone \ {Head(saves).id}
    /\ UNCHANGED <<running, client, loader, waiting>>

\* A variant of Answered: a failure is only logged.
AnsweredNever(k) == waiting

\* resumeDataFailed(t->infoHash(), ...)
Answered(k) == waiting \ {k}

\* libtorrent failed, or the file does not open.
Fail(k) ==
    /\ (Alert("saved") /\ directory) \/ Alert("failed")
    /\ k \in Found(Head(saves))
    /\ waiting' = Answered(k)
    /\ UNCHANGED <<running, client, disk, writing, loader, gone>>

\* write() and close(); nobody looks at how much was written.  The signal is
\* resumeDataSaved.
Write(content) ==
    /\ writing # None
    /\ content \in {writing.best, Torn}
    /\ disk' = [disk EXCEPT ![writing.file] = content]
    /\ writing' = None
    /\ waiting' = waiting \ {writing.file}
    /\ UNCHANGED <<running, client, saves, loader, gone>>

----------------------------------------------------------------------------
(* loadResumeData. *)

BeginLoad ==
    /\ Calling
    /\ call = "idle"
    /\ directory
    /\ loading' = {k \in Keys : disk[k] # Absent}
    /\ call' = "load"
    /\ UNCHANGED <<running, client, saves, disk, writing, loaded, observed>>

\* The loop is on its way to the next file.
Loading == writing = None /\ call \in {"load", "slot"}

Readable(k) == disk[k] \in Keys

\* A variant of Duplicate: the name of the file is looked up.
DuplicateName(k) == k \in Listed

\* findTorrent(infoHash), the hash from the file
Duplicate(k) == disk[k] \in Listed

\* Gone since the directory was listed, not parsed, or a duplicate.
SkipFile(k) ==
    /\ Loading
    /\ k \in loading
    /\ ~Readable(k) \/ Duplicate(k)
    /\ loading' = loading \ {k}
    /\ call' = "load"
    /\ UNCHANGED <<running, client, saves, disk, writing, loaded, observed>>

\* The torrent is named by the hash in the file, not by the file's name.
LoadFile(k) ==
    /\ Loading
    /\ k \in loading
    /\ Readable(k)
    /\ ~Duplicate(k)
    /\ Wrap(disk[k])
    /\ loading' = loading \ {k}
    /\ call' = "slot"
    /\ UNCHANGED <<running, directory, saves, disk, writing, loaded, observed>>

\* A variant of AtLast: a file that does not parse ends the loop.
AtLastOrTorn == loading = {} \/ \E k \in loading : disk[k] = Torn

AtLast == loading = {}

EndLoad ==
    /\ Loading
    /\ AtLast
    /\ loading' = {}
    /\ call' = "idle"
    /\ loaded' = TRUE
    /\ UNCHANGED <<running, client, saves, disk, writing, observed>>

----------------------------------------------------------------------------
Application ==
    \/ SetResumeDataDirectory
    \/ \E k \in Keys : AddTorrent(k) \/ RemoveTorrent(k)
    \/ SaveAllResumeData
    \/ BeginLoad

Libtorrent ==
    \/ \E id \in Ids : ReceiveMetadata(id)
    \/ \E result \in {"saved", "failed"} : Answer(result)

Poll == Drop \/ \E k \in Keys : Open(k) \/ Fail(k)

WriteStep == \E content \in Keys \union {Torn} : Write(content)

LoadStep == EndLoad \/ \E k \in Keys : SkipFile(k) \/ LoadFile(k)

Next ==
    \/ Launch \/ Exit \/ Crash
    \/ Application
    \/ Libtorrent
    \/ Poll \/ WriteStep \/ LoadStep

Fairness ==
    /\ WF_vars(\E result \in {"saved", "failed"} : Answer(result))
    /\ SF_vars(Poll)
    /\ WF_vars(WriteStep)
    /\ SF_vars(LoadStep)

Spec == Init /\ [][Next]_vars /\ Fairness

----------------------------------------------------------------------------
(* Safety.  A plain torrent has one hash; the files of a hybrid may have    *)
(* two names.                                                               *)

Plain(k) == \A j \in Keys : IdOf[j] = IdOf[k] => j = k

(* Every variable has its type. *)
TypeOK ==
    /\ running \in BOOLEAN
    /\ directory \in BOOLEAN
    /\ listed \in Seq(Keys)
    /\ attached \subseteq Keys
    /\ session \subseteq Ids
    /\ info \subseteq session
    /\ saves \in Seq(Save)
    /\ disk \in [Keys -> Keys \union {Absent, Torn}]
    /\ writing \in [file : Keys, best : Keys] \union {None}
    /\ loading \subseteq Keys
    /\ call \in {"idle", "load", "slot"}
    /\ loaded \in BOOLEAN
    /\ waiting \subseteq Listed
    /\ gone \subseteq Ids

(* Loading adds no second wrapper of a hash, whatever the files are called  *)
(* and whatever was added before or in the slots of the load.               *)
WrappersAreDistinct ==
    \A i, j \in DOMAIN listed : listed[i] = listed[j] => i = j

(* A torrent that was removed does not come back, if its file was the last  *)
(* one that knew it: no save that was on its way writes the file again, and *)
(* no load that had listed the file adds it, not even when it was removed   *)
(* in a slot of that load.                                                  *)
RemovedStaysRemoved ==
    \A k \in Listed : IdOf[k] \notin gone

(* After a load every intact file of a plain torrent belongs to a listed    *)
(* torrent: a torn file stops no other one from being loaded, and no file   *)
(* is left behind for the next run to find.                                 *)
FilesAreListed ==
    loaded => \A k \in Keys : Plain(k) /\ disk[k] \in Keys => k \in Listed

----------------------------------------------------------------------------
(* The abstract store, of the plain torrents. *)

PlainKeys == {k \in Keys : Plain(k)}

Content(k, found) ==
    CASE found = Absent -> "none"
      [] found = Torn   -> "torn"
      [] found = k      -> "whole"
      [] OTHER          -> "foreign"

Abstract == INSTANCE Store WITH
                Torrents <- PlainKeys, keeping <- directory, restored <- loaded,
                active <- Listed \intersect PlainKeys,
                file <- [k \in PlainKeys |-> Content(k, disk[k])]

(* Each plain torrent has a file of its own, that only its own saves write  *)
(* and only while it is listed: no answer of libtorrent that comes after    *)
(* its torrent was removed, no hybrid that lost its handle, no name of a    *)
(* file and no crash mixes them up, and a load that returns has left none   *)
(* behind.                                                                  *)
ImplementsStore == Abstract!StoreSpec

----------------------------------------------------------------------------
(* Liveness. *)

(* "resumeDataSaved() or resumeDataFailed() fires per torrent": a save that  *)
(* was requested for a plain torrent is answered by                         *)
(* resumeDataSaved or resumeDataFailed, unless the torrent is removed or    *)
(* the run ends.                                                            *)
SavesAreAnswered ==
    \A k \in Watched : Plain(k) => (k \in waiting ~> k \notin waiting)

----------------------------------------------------------------------------
(* What the documentation says. *)

(* removeTorrent is to "remove resume data file if it exists": after a load *)
(* no file is left of a torrent that is not listed.  A hybrid that was      *)
(* saved as a magnet link and loaded again is listed under its other hash;  *)
(* removing it leaves the file with the old name, and the next load brings  *)
(* it back.                                                                 *)
NoFileIsLeft ==
    loaded => \A k \in Keys :
                  disk[k] \in Keys => \E s \in Listed : IdOf[s] = IdOf[k]

(* "Save state before exit: client->saveAllResumeData()": a torrent whose   *)
(* save was requested has a file when the program exits.  The request is    *)
(* only carried out if the event loop runs again before the exit.           *)
SavedBeforeExit ==
    [][Exit => \A k \in waiting : disk[k] \in Keys]_vars

=============================================================================
