--------------------------- MODULE TorrentClient ---------------------------
(* The registry of TorrentClient: which Torrent objects exist and are       *)
(* listed, who owns their libtorrent handles, and processAlerts and stopAll *)
(* walking over them while the slots they run add and remove torrents.      *)
(*                                                                          *)
(* What one torrent does in its turn of the update loop is module Torrent;  *)
(* here a turn only reads the handle and emits signals.  Calls in progress  *)
(* form a stack of frames; the application calls in between, from the event *)
(* loop or from a slot (directly, or through a nested event loop).          *)
(*                                                                          *)
(* A use of freed memory ends the behaviour in a fault.  A disciplined      *)
(* application does not change the registry while a loop over it runs, and  *)
(* does not poll while alerts are being dispatched; the code demands        *)
(* neither, so behaviours with and without the discipline are included.     *)
EXTENDS Integers, Sequences, SequencesExt

CONSTANTS Objects,    \* addresses of Torrent objects, reused after deletion
          Keys,       \* info hashes as the client computes them
          Ids,        \* torrents as libtorrent tells them apart
          IdOf,       \* a hybrid torrent is one Id with two Keys
          None,       \* no object, no key; the Id of an expired handle
          Session,    \* stands for a torrent in alerts about the session
          MaxAlerts,  \* bound of libtorrent's alert queue
          MaxDepth    \* bound: calls nested in one another

ASSUME IdOfAssumption == IdOf \in [Keys -> Ids]
ASSUME NoneAssumption == None \notin Objects \union Keys \union Ids
ASSUME SessionAssumption == Session \notin Ids \union {None}
ASSUME BoundsAssumption == MaxAlerts \in Nat /\ MaxDepth \in Nat \ {0}

VARIABLES
    listed,       \* _torrents
    key,          \* _infoHash of each object
    object,       \* "unused", "live", or "deferred" after deleteLater
    handle,       \* *_handle: "none", "owned", "freed"
    attached,     \* the objects whose handle is_valid()
    session,      \* the Ids libtorrent has
    alerts,       \* libtorrent's queue: the Id each alert is about
    depth, frame, \* calls in progress, frame[1] the outermost
    fault,        \* the first use of freed memory, if any
    disciplined

registry == <<listed, key, object, handle, attached, session>>
vars == <<registry, alerts, depth, frame, fault, disciplined>>

(* pc "dispatch" walks batch, "visit" and "stop" walk left, the others are  *)
(* inside the turn of torrent t.  torn: another pop_alerts has taken the    *)
(* batch away.  stale: the list changed under the iterators.                *)
Loops == {"visit", "report", "notify", "ratio", "stop"}

Frames == [pc    : Loops \union {"none", "dispatch"},
           slot  : BOOLEAN,     \* slots of the last signal may be running
           batch : Seq(Ids \union {None, Session}),
           torn  : BOOLEAN,
           left  : Seq(Objects),
           stale : BOOLEAN,
           t     : Objects \union {None}]

NoFrame == [pc |-> "none", slot |-> FALSE, batch |-> <<>>, torn |-> FALSE,
            left |-> <<>>, stale |-> FALSE, t |-> None]

Listed == ToSet(listed)

Top == frame[depth]

Calling == fault = "none" /\ (depth > 0 => Top.slot)

At(pc) == fault = "none" /\ depth > 0 /\ Top.pc = pc

Walking     == \E i \in 1..depth : frame[i].pc \in Loops
Dispatching == \E i \in 1..depth : frame[i].pc = "dispatch"

\* *_handle is read: is_valid(), status(), ==.
Uses(S) == fault' = IF \A t \in S : handle[t] = "owned" THEN fault ELSE "handle"

----------------------------------------------------------------------------
Init ==
    /\ listed = <<>>
    /\ key = [t \in Objects |-> None]
    /\ object = [t \in Objects |-> "unused"]
    /\ handle = [t \in Objects |-> "none"]
    /\ attached = {}
    /\ session = {}
    /\ alerts = <<>>
    /\ depth = 0
    /\ frame = [i \in 1..MaxDepth |-> NoFrame]
    /\ fault = "none"
    /\ disciplined \in BOOLEAN

----------------------------------------------------------------------------
(* Calls of the application that change the registry. *)

MayChange == Calling /\ (disciplined => ~Walking)

\* A variant of Find: no duplicate is ever noticed.
FindNothing(k) == {t \in {} : key[t] = k}

\* findTorrent(k)
Find(k) == {t \in Listed : key[t] = k}

\* Handles in the alerts about torrents that left the session expire.
Expired(s, gone) == [i \in DOMAIN s |-> IF s[i] \in gone THEN None ELSE s[i]]

\* A frame after a change of the list: the iterators of a range-for over
\* _torrents are those it started with.
Disturbed(f, gone) ==
    [f EXCEPT !.batch = Expired(f.batch, gone),
              !.stale = f.pc \in Loops,
              !.left = IF f.pc \in Loops THEN <<>> ELSE f.left]

\* A variant of HashSet: the hash is taken from libtorrent's torrent.
HashSetById(k) == IdOf[k]

\* setInfoHash: the hash of the magnet link, or get_best() of the file.
HashSet(k) == k

\* addTorrent: libtorrent returns the torrent it has under this Id, if any.
\* torrentAdded comes last.
AddTorrent(t, k) ==
    /\ MayChange
    /\ object[t] = "unused"
    /\ Find(k) = {}
    /\ session' = session \union {IdOf[k]}
    /\ object' = [object EXCEPT ![t] = "live"]
    /\ key' = [key EXCEPT ![t] = HashSet(k)]
    /\ handle' = [handle EXCEPT ![t] = "owned"]
    /\ attached' = attached \union {t}
    /\ listed' = Append(listed, t)
    /\ frame' = [i \in 1..MaxDepth |-> Disturbed(frame[i], {})]
    /\ UNCHANGED <<alerts, depth, fault, disciplined>>

\* A variant of Removable: any pointer that is not null.
RemovableAny(t) == object[t] # "unused"

Removable(t) == t \in Listed

\* A variant of Unlisted: the list is cut at its end.
UnlistedLast(t) == SubSeq(listed, 1, Len(listed) - 1)

\* removeOne
Unlisted(t) == RemoveFirst(listed, t)

\* Variants of Gone: the session keeps the torrent; it loses all of them.
GoneNever(t) == {}

GoneAlways(t) == session

\* session::remove_torrent, for a valid handle.
Gone(t) == IF t \in attached THEN {IdOf[key[t]]} ELSE {}

\* removeTorrent; torrentRemoved comes last.
RemoveTorrent(t) ==
    LET gone == Gone(t)
    IN  /\ MayChange
        /\ Removable(t)
        /\ Uses({t})
        /\ session' = session \ gone
        /\ attached' = {s \in attached : IdOf[key[s]] \notin gone}
        /\ alerts' = Expired(alerts, gone)
        /\ listed' = Unlisted(t)
        /\ handle' = [handle EXCEPT ![t] = "freed"]
        /\ object' = [object EXCEPT ![t] = "deferred"]
        /\ frame' = [i \in 1..MaxDepth |-> Disturbed(frame[i], gone)]
        /\ UNCHANGED <<key, depth, disciplined>>

\* An event loop, the main one or one nested in a slot, deletes the object.
DeleteDeferred(t) ==
    /\ Calling
    /\ object[t] = "deferred"
    /\ object' = [object EXCEPT ![t] = "unused"]
    /\ handle' = [handle EXCEPT ![t] = "none"]
    /\ key' = [key EXCEPT ![t] = None]
    /\ UNCHANGED <<listed, attached, session, alerts, depth, frame, fault,
                   disciplined>>

----------------------------------------------------------------------------
(* libtorrent posts an alert; a full queue drops it. *)
PostAlert(id) ==
    /\ fault = "none"
    /\ id \in session \union {Session}
    /\ Len(alerts) < MaxAlerts
    /\ alerts' = Append(alerts, id)
    /\ UNCHANGED <<registry, depth, frame, fault, disciplined>>

----------------------------------------------------------------------------
(* processAlerts and stopAll. *)

SetTop(f) == frame' = [frame EXCEPT ![depth] = f]

Pop ==
    /\ depth' = depth - 1
    /\ SetTop(NoFrame)

\* pop_alerts: what an outer call still had to dispatch is gone.
Poll ==
    /\ Calling
    /\ depth < MaxDepth
    /\ disciplined => ~Dispatching
    /\ depth' = depth + 1
    /\ frame' = [i \in 1..MaxDepth |->
                   IF i = depth + 1
                   THEN [NoFrame EXCEPT !.pc = "dispatch", !.batch = alerts]
                   ELSE [frame[i] EXCEPT !.torn = frame[i].pc = "dispatch"]]
    /\ alerts' = <<>>
    /\ UNCHANGED <<registry, fault, disciplined>>

StopAll ==
    /\ Calling
    /\ depth < MaxDepth
    /\ depth' = depth + 1
    /\ frame' = [frame EXCEPT ![depth + 1] =
                   [NoFrame EXCEPT !.pc = "stop", !.left = listed]]
    /\ UNCHANGED <<registry, alerts, fault, disciplined>>

\* findTorrentByHandle.  Expired handles may compare equal: an alert about a
\* hybrid that was removed finds its other face.
FindByHandle(id) ==
    IF id = None THEN Listed \ attached
                 ELSE {t \in Listed \intersect attached : IdOf[key[t]] = id}

\* An alert becomes a signal if it is about the session or a listed torrent.
Emits(id) == id = Session \/ FindByHandle(id) # {}

\* One alert; the signal it is translated to comes last in its branch.
Dispatch ==
    /\ At("dispatch")
    /\ Top.batch # <<>>
    /\ IF Top.torn THEN fault' = "batch" ELSE Uses(Listed)
    /\ SetTop([Top EXCEPT !.batch = Tail(Top.batch),
                          !.slot = Emits(Head(Top.batch))])
    /\ UNCHANGED <<registry, alerts, depth, disciplined>>

Dispatched ==
    /\ At("dispatch")
    /\ Top.batch = <<>>
    /\ SetTop([NoFrame EXCEPT !.pc = "visit", !.left = listed])
    /\ UNCHANGED <<registry, alerts, depth, fault, disciplined>>

\* Iterators over a list that changed may point to any object, or to the end.
Candidates ==
    IF Top.stale THEN {t \in Objects : object[t] # "unused"}
                 ELSE {t \in Objects : Top.left # <<>> /\ t = Head(Top.left)}

\* A variant of AtEnd: the last torrent is left out.
AtEndEarly == Top.stale \/ Len(Top.left) <= 1

AtEnd == Top.stale \/ Top.left = <<>>

Rest == IF Top.stale THEN <<>> ELSE Tail(Top.left)

\* updateFromStatus up to its first signals.
Visit(t) ==
    /\ At("visit")
    /\ t \in Candidates
    /\ Uses({t})
    /\ SetTop([Top EXCEPT !.pc = "report", !.slot = t \in attached,
                          !.left = Rest, !.t = t])
    /\ UNCHANGED <<registry, alerts, depth, disciplined>>

\* The rest of updateFromStatus: name() is read while Downloading, and when
\* the download completes.
Report ==
    /\ At("report")
    /\ UNCHANGED fault \/ Uses({Top.t})
    /\ SetTop([Top EXCEPT !.pc = "notify"])
    /\ UNCHANGED <<registry, alerts, depth, disciplined>>

\* torrentStateChanged and torrentComplete carry Top.t.
Notify ==
    /\ At("notify")
    /\ SetTop([Top EXCEPT !.pc = "ratio", !.slot = TRUE])
    /\ UNCHANGED <<registry, alerts, depth, fault, disciplined>>

\* checkSeedRatio: ratio() when there is a limit and the torrent seeds.
CheckSeedRatio ==
    /\ At("ratio")
    /\ UNCHANGED fault \/ Uses({Top.t})
    /\ SetTop([Top EXCEPT !.pc = "visit", !.t = None])
    /\ UNCHANGED <<registry, alerts, depth, disciplined>>

\* One turn of stopAll: Torrent::stop.
StopOne(t) ==
    /\ At("stop")
    /\ t \in Candidates
    /\ Uses({t})
    /\ SetTop([Top EXCEPT !.slot = TRUE, !.left = Rest])
    /\ UNCHANGED <<registry, alerts, depth, disciplined>>

LoopEnds ==
    /\ At("visit") \/ At("stop")
    /\ AtEnd
    /\ Pop
    /\ UNCHANGED <<registry, alerts, fault, disciplined>>

\* The storage of the list moved, or what it pointed to was deleted.
StaleRead ==
    /\ At("visit") \/ At("stop")
    /\ Top.stale
    /\ fault' = "iterator"
    /\ UNCHANGED <<registry, alerts, depth, frame, disciplined>>

----------------------------------------------------------------------------
Application ==
    \/ \E t \in Objects, k \in Keys : AddTorrent(t, k)
    \/ \E t \in Objects : RemoveTorrent(t)
    \/ StopAll

EventLoop == \E t \in Objects : DeleteDeferred(t)

Step ==
    \/ Dispatch
    \/ Dispatched
    \/ \E t \in Objects : Visit(t) \/ StopOne(t)
    \/ Report
    \/ Notify
    \/ CheckSeedRatio
    \/ LoopEnds
    \/ StaleRead

\* After a fault there is nothing left to describe.
Faulted == fault # "none" /\ UNCHANGED vars

Next ==
    \/ Application
    \/ EventLoop
    \/ \E id \in Ids \union {Session} : PostAlert(id)
    \/ Poll
    \/ Step
    \/ Faulted

(* The event loop gets round to its timer, and every slot returns: a call in *)
(* progress that can go on infinitely often does.                           *)
Fairness ==
    /\ SF_vars(depth = 0 /\ Poll)
    /\ \A d \in 1..MaxDepth : SF_vars(depth = d /\ Step)

Spec == Init /\ [][Next]_vars /\ Fairness

----------------------------------------------------------------------------
(* Safety. *)

(* Every variable has its type. *)
TypeOK ==
    /\ listed \in Seq(Objects)
    /\ key \in [Objects -> Keys \union {None}]
    /\ object \in [Objects -> {"unused", "live", "deferred"}]
    /\ handle \in [Objects -> {"none", "owned", "freed"}]
    /\ attached \subseteq Objects
    /\ session \subseteq Ids
    /\ alerts \in Seq(Ids \union {None, Session})
    /\ depth \in 0..MaxDepth
    /\ frame \in [1..MaxDepth -> Frames]
    /\ fault \in {"none", "handle", "batch", "iterator"}
    /\ disciplined \in BOOLEAN

(* An application that adds and removes torrents only between polls and in  *)
(* the slots of the dispatched alerts never makes the client use freed      *)
(* memory: a torrent removed by one alert's slot is found by no later alert *)
(* of the batch, nor visited by the update loop.                            *)
DisciplineIsEnough == disciplined => fault = "none"

(* Whatever the slots do, the list holds each object once, and exactly the  *)
(* live ones; their handles are owned and no other is.                      *)
ListOwnsHandles ==
    /\ \A i, j \in DOMAIN listed : listed[i] = listed[j] => i = j
    /\ \A t \in Objects :
          /\ t \in Listed <=> object[t] = "live"
          /\ t \in Listed <=> handle[t] = "owned"

(* No two listed torrents have the same info hash. *)
HashesAreDistinct ==
    \A s, t \in Listed : key[s] = key[t] => s = t

(* libtorrent runs no torrent that the application cannot find: each one in *)
(* the session is behind the valid handle of a listed torrent.              *)
NoTorrentIsLost ==
    /\ attached \subseteq Listed
    /\ session = {IdOf[key[t]] : t \in attached}

(* Removing a torrent invalidates no other, unless they are two faces of    *)
(* one hybrid.                                                              *)
OthersStayAttached ==
    \A t \in Listed :
        (\A k \in Keys : IdOf[k] = IdOf[key[t]] => k = key[t]) => t \in attached

----------------------------------------------------------------------------
(* Liveness. *)

(* Under the discipline, every torrent that stays listed is visited by the  *)
(* update loop again and again, while others come and go between the loops: *)
(* from the event loop, and in the slots of alerts, which run on every poll.*)
EveryTorrentIsVisited ==
    \A t \in Objects :
        []<>(t \in Listed /\ disciplined => depth > 0 /\ Top.t = t)

----------------------------------------------------------------------------
(* The abstract registry. *)

Face(k) ==
    CASE \E t \in Find(k) : t \in attached -> "running"
      [] Find(k) = {}                      -> "absent"
      [] OTHER                             -> "detached"

Abstract == INSTANCE Registry WITH face <- [k \in Keys |-> Face(k)]

(* To the application the client is a set of info hashes that it adds to    *)
(* and removes from one at a time: no alert, no loop, no call in a slot and *)
(* no deletion of an object changes what is there, and whatever is removed  *)
(* or detached was asked for.                                               *)
ImplementsRegistry == Abstract!RegistrySpec

----------------------------------------------------------------------------
(* removeTorrent says that its torrent "becomes invalid after this call".   *)
(* The update loop, having emitted a signal of a torrent that a slot then   *)
(* removes, goes on with the turn of that torrent, which reads the handle   *)
(* that removeTorrent has deleted.                                          *)
RemovedIsNotUsed == [][Report \/ CheckSeedRatio => fault' # "handle"]_vars

=============================================================================
