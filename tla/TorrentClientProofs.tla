------------------------ MODULE TorrentClientProofs ------------------------
(* Proofs, for any number of objects, hashes and alerts and any nesting of  *)
(* calls, that the registry of TorrentClient stays consistent, and that an  *)
(* application which keeps the discipline never meets freed memory.         *)
EXTENDS TorrentClient, Lists

----------------------------------------------------------------------------
(* Types. *)

AlertSeq == Seq(Ids \union {None, Session})

\* The empty frame of a call that is not in progress has its type.
LEMMA NoFrameType == NoFrame \in Frames
  <1>1. <<>> \in AlertSeq /\ <<>> \in Seq(Objects)
    BY EmptySeq DEF AlertSeq
  <1> QED
    BY <1>1 DEF NoFrame, Frames, Loops, AlertSeq

\* A new client has the right types.
LEMMA InitTypeOK == Init => TypeOK
  <1> SUFFICES ASSUME Init PROVE TypeOK
    OBVIOUS
  <1>1. listed \in Seq(Objects) /\ alerts \in AlertSeq
    BY EmptySeq DEF Init, AlertSeq
  <1>2. frame \in [1..MaxDepth -> Frames] /\ depth \in 0..MaxDepth
    BY NoFrameType, BoundsAssumption DEF Init
  <1>3. disciplined \in BOOLEAN
    BY Zenon DEF Init
  <1> QED
    BY <1>1, <1>2, <1>3 DEF Init, TypeOK, AlertSeq

\* A list of alerts stays one when handles in it expire.
LEMMA ExpiredType ==
    ASSUME NEW s \in AlertSeq, NEW gone
    PROVE  Expired(s, gone) \in AlertSeq
  <1>1. Len(s) \in Nat /\ DOMAIN s = 1..Len(s) /\ s \in [1..Len(s) -> Ids \union {None, Session}]
    BY LenProperties DEF AlertSeq
  <1>2. Expired(s, gone) \in [1..Len(s) -> Ids \union {None, Session}]
    BY <1>1 DEF Expired
  <1> QED
    BY <1>1, <1>2, SeqDef DEF AlertSeq

\* A frame stays one when the list under it changes.
LEMMA DisturbedType ==
    ASSUME NEW f \in Frames, NEW gone
    PROVE  Disturbed(f, gone) \in Frames
  <1>1. Expired(f.batch, gone) \in AlertSeq
    BY ExpiredType DEF Frames, AlertSeq
  <1>2. (IF f.pc \in Loops THEN <<>> ELSE f.left) \in Seq(Objects)
    BY EmptySeq DEF Frames
  <1>3. ASSUME NEW b \in BOOLEAN, NEW q \in AlertSeq, NEW l \in Seq(Objects)
        PROVE  [f EXCEPT !.batch = q, !.stale = b, !.left = l] \in Frames
    BY DEF Frames, AlertSeq
  <1>4. (f.pc \in Loops) \in BOOLEAN
    OBVIOUS
  <1> QED
    BY <1>1, <1>2, <1>3, <1>4, Zenon DEF Disturbed

\* One step of the running call that replaces its frame.
LEMMA SetTopType ==
    ASSUME TypeOK, depth > 0, NEW f \in Frames, SetTop(f)
    PROVE  frame' \in [1..MaxDepth -> Frames]
  BY DEF TypeOK, SetTop

\* The call in progress, if there is one, has a frame.
LEMMA TopType == TypeOK /\ depth > 0 => depth \in 1..MaxDepth /\ Top \in Frames
  BY BoundsAssumption DEF TypeOK, Top

\* What a loop still has before it is a list of objects.
LEMMA RestType ==
    ASSUME TypeOK, depth > 0, NEW t \in Candidates
    PROVE  Rest \in Seq(Objects)
  <1>1. Top.left \in Seq(Objects)
    BY TopType DEF Frames
  <1> QED
    BY <1>1, EmptySeq, HeadAndTail DEF Rest, Candidates

\* Reading a handle ends in no fault but those that are named.
LEMMA UsesType ==
    ASSUME TypeOK, NEW S, Uses(S)
    PROVE  fault' \in {"none", "handle", "batch", "iterator"}
  BY DEF TypeOK, Uses

\* addTorrent keeps the types.
LEMMA AddTorrentTypeOK ==
    ASSUME TypeOK, NEW t \in Objects, NEW k \in Keys, AddTorrent(t, k)
    PROVE  TypeOK'
  <1> USE DEF TypeOK, AddTorrent
  <1>1. listed' \in Seq(Objects)
    BY AppendToList
  <1>2. frame' \in [1..MaxDepth -> Frames]
    BY DisturbedType
  <1>3. session' \subseteq Ids
    BY IdOfAssumption
  <1> QED
    BY <1>1, <1>2, <1>3 DEF HashSet

\* removeTorrent keeps the types, its list having no object twice.
LEMMA RemoveTorrentTypeOK ==
    ASSUME TypeOK, ListOwnsHandles, NEW t \in Objects, RemoveTorrent(t)
    PROVE  TypeOK'
  <1> USE DEF TypeOK, RemoveTorrent
  <1>1. listed' \in Seq(Objects)
    BY RemoveFromList DEF Unlisted, Removable, Listed, ListOwnsHandles, Distinct
  <1>2. alerts' \in AlertSeq
    BY ExpiredType DEF AlertSeq
  <1>3. frame' \in [1..MaxDepth -> Frames]
    BY DisturbedType
  <1>4. fault' \in {"none", "handle", "batch", "iterator"}
    BY UsesType
  <1> QED
    BY <1>1, <1>2, <1>3, <1>4 DEF AlertSeq

\* The start of a call, a deletion and a new alert keep the types.
LEMMA OtherChangesTypeOK ==
    ASSUME TypeOK,
           \/ StopAll
           \/ Poll
           \/ \E t \in Objects : DeleteDeferred(t)
           \/ \E id \in Ids \union {Session} : PostAlert(id)
    PROVE  TypeOK'
  <1> USE DEF TypeOK
  <1>1. depth \in 0..MaxDepth /\ MaxDepth \in Nat
    BY BoundsAssumption
  <1>2. CASE StopAll
    <2>1. [NoFrame EXCEPT !.pc = "stop", !.left = listed] \in Frames
      BY NoFrameType DEF Frames, Loops
    <2> QED
      BY <1>1, <1>2, <2>1 DEF StopAll, registry
  <1>3. CASE Poll
    <2>1. [NoFrame EXCEPT !.pc = "dispatch", !.batch = alerts] \in Frames
      BY NoFrameType DEF Frames
    <2>2. \A f \in Frames : [f EXCEPT !.torn = f.pc = "dispatch"] \in Frames
      BY DEF Frames
    <2>3. frame' \in [1..MaxDepth -> Frames]
      BY <1>3, <2>1, <2>2 DEF Poll
    <2>4. alerts' \in AlertSeq
      BY <1>3, EmptySeq DEF Poll, AlertSeq
    <2> QED
      BY <1>1, <1>3, <2>3, <2>4 DEF Poll, registry, AlertSeq
  <1>4. ASSUME NEW t \in Objects, DeleteDeferred(t) PROVE TypeOK'
    BY <1>4 DEF DeleteDeferred
  <1>5. ASSUME NEW id \in Ids \union {Session}, PostAlert(id) PROVE TypeOK'
    <2>1. alerts' \in AlertSeq
      BY <1>5, AppendToList DEF PostAlert, AlertSeq
    <2> QED
      BY <1>5, <2>1 DEF PostAlert, registry, AlertSeq
  <1> QED
    BY <1>2, <1>3, <1>4, <1>5

\* Each step of a call in progress keeps the types.
LEMMA StepTypeOK ==
    ASSUME TypeOK, Step
    PROVE  TypeOK'
  <1>1. depth > 0 /\ depth \in 1..MaxDepth /\ Top \in Frames
    BY TopType DEF Step, Dispatch, Dispatched, Visit, StopOne, Report, Notify,
                   CheckSeedRatio, LoopEnds, StaleRead, At
  <1>2. SUFFICES /\ frame' \in [1..MaxDepth -> Frames]
                 /\ depth' \in 0..MaxDepth
                 /\ fault' \in {"none", "handle", "batch", "iterator"}
    BY <1>2 DEF TypeOK, Step, Dispatch, Dispatched, Visit, StopOne, Report,
                Notify, CheckSeedRatio, LoopEnds, StaleRead, registry
  <1>3. depth \in 0..MaxDepth /\ fault \in {"none", "handle", "batch", "iterator"}
    BY DEF TypeOK
  <1>4. CASE Dispatch
    <2> DEFINE f == [Top EXCEPT !.batch = Tail(Top.batch),
                                !.slot = Emits(Head(Top.batch))]
    <2>1. Tail(Top.batch) \in AlertSeq
      BY <1>1, <1>4, HeadTailProperties DEF Dispatch, Frames, AlertSeq
    <2>2. Emits(Head(Top.batch)) \in BOOLEAN
      BY DEF Emits
    <2>3. f \in Frames
      BY <1>1, <2>1, <2>2 DEF Frames, AlertSeq
    <2>4. fault' \in {"none", "handle", "batch", "iterator"}
      BY <1>4, UsesType DEF Dispatch
    <2> QED
      BY <1>1, <1>3, <1>4, <2>3, <2>4, SetTopType DEF Dispatch
  <1>5. CASE Dispatched
    <2>1. [NoFrame EXCEPT !.pc = "visit", !.left = listed] \in Frames
      BY NoFrameType DEF TypeOK, Frames, Loops
    <2> QED
      BY <1>1, <1>3, <1>5, <2>1, SetTopType DEF Dispatched
  <1>6. ASSUME NEW t \in Objects, Visit(t)
        PROVE  frame' \in [1..MaxDepth -> Frames] /\ UNCHANGED depth
               /\ fault' \in {"none", "handle", "batch", "iterator"}
    <2> DEFINE f(b) == [Top EXCEPT !.pc = "report", !.slot = b,
                                   !.left = Rest, !.t = t]
    <2>1. \A b \in BOOLEAN : f(b) \in Frames
      BY <1>1, <1>6, RestType DEF Visit, Frames, Loops
    <2>2. (t \in attached) \in BOOLEAN
      OBVIOUS
    <2>3. f(t \in attached) \in Frames
      BY <2>1, <2>2, Zenon
    <2> QED
      BY <1>1, <1>6, <2>3, SetTopType, UsesType DEF Visit
  <1>7. ASSUME NEW t \in Objects, StopOne(t)
        PROVE  frame' \in [1..MaxDepth -> Frames] /\ UNCHANGED depth
               /\ fault' \in {"none", "handle", "batch", "iterator"}
    <2>1. [Top EXCEPT !.slot = TRUE, !.left = Rest] \in Frames
      BY <1>1, <1>7, RestType DEF StopOne, Frames
    <2> QED
      BY <1>1, <1>7, <2>1, SetTopType, UsesType DEF StopOne
  <1>8. CASE Report \/ Notify \/ CheckSeedRatio
    <2>1. /\ [Top EXCEPT !.pc = "notify"] \in Frames
          /\ [Top EXCEPT !.pc = "ratio", !.slot = TRUE] \in Frames
          /\ [Top EXCEPT !.pc = "visit", !.t = None] \in Frames
      BY <1>1 DEF Frames, Loops
    <2> QED
      BY <1>1, <1>3, <1>8, <2>1, SetTopType, UsesType
      DEF Report, Notify, CheckSeedRatio
  <1>9. CASE LoopEnds
    <2>1. depth - 1 \in 0..MaxDepth
      BY <1>1, BoundsAssumption
    <2>2. frame' \in [1..MaxDepth -> Frames]
      BY <1>1, <1>9, NoFrameType, SetTopType DEF LoopEnds, Pop
    <2> QED
      BY <1>3, <1>9, <2>1, <2>2 DEF LoopEnds, Pop
  <1>10. CASE StaleRead
    BY <1>3, <1>10 DEF StaleRead, TypeOK
  <1> QED
    BY <1>3, <1>4, <1>5, <1>6, <1>7, <1>8, <1>9, <1>10 DEF Step

\* Every step keeps the types.
LEMMA NextTypeOK == TypeOK /\ ListOwnsHandles /\ [Next]_vars => TypeOK'
  <1> SUFFICES ASSUME TypeOK, ListOwnsHandles, [Next]_vars PROVE TypeOK'
    OBVIOUS
  <1>1. CASE UNCHANGED vars
    BY <1>1 DEF TypeOK, vars, registry
  <1> QED
    BY <1>1, AddTorrentTypeOK, RemoveTorrentTypeOK, OtherChangesTypeOK, StepTypeOK
    DEF Next, Application, EventLoop, Faulted

----------------------------------------------------------------------------
(* The registry.  Only three actions change it, and each needs the other    *)
(* parts of the invariant to keep its own: an object is appended once       *)
(* because an unused object is not listed, and removing a torrent detaches  *)
(* no other because no other has its hash.                                  *)

HashesAreKnown == \A t \in Listed : key[t] \in Keys

RegistryInv ==
    /\ TypeOK
    /\ HashesAreKnown
    /\ ListOwnsHandles
    /\ HashesAreDistinct
    /\ NoTorrentIsLost
    /\ OthersStayAttached

\* The registry of a new client is consistent.
LEMMA InitRegistryInv == Init => RegistryInv
  <1> SUFFICES ASSUME Init PROVE RegistryInv
    OBVIOUS
  <1>1. Listed = {}
    BY EmptySeq DEF Init, Listed, ToSet
  <1> QED
    BY <1>1, InitTypeOK, EmptySeq
    DEF Init, RegistryInv, HashesAreKnown, ListOwnsHandles, HashesAreDistinct, NoTorrentIsLost,
        OthersStayAttached

\* addTorrent adds a new object, handle and hash together.
LEMMA AddTorrentRegistryInv ==
    ASSUME RegistryInv, NEW t \in Objects, NEW k \in Keys, AddTorrent(t, k)
    PROVE  RegistryInv'
  <1> USE DEF RegistryInv
  <1>0. TypeOK'
    BY AddTorrentTypeOK
  <1>1. /\ object[t] = "unused" /\ t \notin Listed
        /\ \A s \in Listed : key[s] # k
    BY DEF AddTorrent, ListOwnsHandles, Find
  <1>2. /\ listed' = Append(listed, t)
        /\ object' = [object EXCEPT ![t] = "live"]
        /\ handle' = [handle EXCEPT ![t] = "owned"]
        /\ key' = [key EXCEPT ![t] = k]
        /\ attached' = attached \union {t}
        /\ session' = session \union {IdOf[k]}
    BY DEF AddTorrent, HashSet
  <1>3. Listed' = Listed \union {t} /\ Distinct(listed)'
    BY <1>1, <1>2, AppendToList DEF TypeOK, ListOwnsHandles, Listed, Distinct
  <1>4. Listed \subseteq Objects
    BY LenProperties DEF TypeOK, Listed, ToSet
  <1>5. ListOwnsHandles'
    BY <1>2, <1>3 DEF ListOwnsHandles, Distinct, TypeOK
  <1>6. HashesAreDistinct'
    BY <1>1, <1>2, <1>3, <1>4 DEF HashesAreDistinct, TypeOK
  <1>7. NoTorrentIsLost'
    <2>1. attached' \subseteq Listed'
      BY <1>2, <1>3 DEF NoTorrentIsLost
    <2>2. {IdOf[key'[s]] : s \in attached'} = {IdOf[key[s]] : s \in attached} \union {IdOf[k]}
      BY <1>1, <1>2 DEF NoTorrentIsLost, TypeOK
    <2> QED
      BY <1>2, <2>1, <2>2 DEF NoTorrentIsLost
  <1>8. OthersStayAttached'
    BY <1>1, <1>2, <1>3, <1>4 DEF OthersStayAttached, TypeOK
  <1>9. HashesAreKnown'
    BY <1>2, <1>3, <1>4 DEF HashesAreKnown, TypeOK
  <1> QED
    BY <1>0, <1>5, <1>6, <1>7, <1>8, <1>9

\* removeTorrent takes object, handle and torrent away together.
LEMMA RemoveTorrentRegistryInv ==
    ASSUME RegistryInv, NEW t \in Objects, RemoveTorrent(t)
    PROVE  RegistryInv'
  <1> USE DEF RegistryInv
  <1>0. TypeOK'
    BY RemoveTorrentTypeOK
  <1>1. /\ t \in Listed
        /\ listed' = RemoveFirst(listed, t)
        /\ object' = [object EXCEPT ![t] = "deferred"]
        /\ handle' = [handle EXCEPT ![t] = "freed"]
        /\ key' = key
        /\ attached' = {s \in attached : IdOf[key[s]] \notin Gone(t)}
        /\ session' = session \ Gone(t)
    BY DEF RemoveTorrent, Removable, Unlisted
  <1>2. Listed' = Listed \ {t} /\ Distinct(listed)'
    BY <1>1, RemoveFromList DEF TypeOK, ListOwnsHandles, Listed, Distinct
  <1>3. Listed \subseteq Objects
    BY LenProperties DEF TypeOK, Listed, ToSet
  <1>4. ListOwnsHandles'
    BY <1>1, <1>2 DEF ListOwnsHandles, Distinct, TypeOK
  <1>5. HashesAreDistinct'
    BY <1>1, <1>2 DEF HashesAreDistinct
  <1>6. NoTorrentIsLost'
    <2>1. t \notin attached'
      BY <1>1 DEF Gone
    <2>2. attached' \subseteq Listed'
      BY <1>1, <1>2, <2>1 DEF NoTorrentIsLost
    <2>3. session' = {IdOf[key'[s]] : s \in attached'}
      BY <1>1 DEF NoTorrentIsLost
    <2> QED
      BY <2>2, <2>3 DEF NoTorrentIsLost
  <1>7. OthersStayAttached'
    <2> SUFFICES ASSUME NEW s \in Listed',
                        \A k \in Keys : IdOf[k] = IdOf[key'[s]] => k = key'[s]
                 PROVE  s \in attached'
      BY DEF OthersStayAttached
    <2>1. s \in Listed /\ s # t /\ s \in attached
      BY <1>1, <1>2 DEF OthersStayAttached
    <2>2. key[s] # key[t]
      BY <1>1, <2>1 DEF HashesAreDistinct
    <2>3. CASE t \in attached
      <3>1. key[t] \in Keys
        BY <1>1 DEF HashesAreKnown
      <3> QED
        BY <1>1, <2>1, <2>2, <2>3, <3>1 DEF Gone
    <2>4. CASE t \notin attached
      BY <1>1, <2>1, <2>4 DEF Gone
    <2> QED
      BY <2>3, <2>4
  <1>8. HashesAreKnown'
    BY <1>1, <1>2 DEF HashesAreKnown
  <1> QED
    BY <1>0, <1>4, <1>5, <1>6, <1>7, <1>8

\* Every step keeps the registry consistent.
LEMMA NextRegistryInv == RegistryInv /\ [Next]_vars => RegistryInv'
  <1> SUFFICES ASSUME RegistryInv, [Next]_vars PROVE RegistryInv'
    OBVIOUS
  <1>0. TypeOK'
    BY NextTypeOK DEF RegistryInv
  <1>1. CASE \E t \in Objects, k \in Keys : AddTorrent(t, k)
    BY <1>1, AddTorrentRegistryInv
  <1>2. CASE \E t \in Objects : RemoveTorrent(t)
    BY <1>2, RemoveTorrentRegistryInv
  <1>3. ASSUME NEW t \in Objects, DeleteDeferred(t) PROVE RegistryInv'
    <2> USE DEF RegistryInv, DeleteDeferred
    <2>1. t \notin Listed /\ t \notin attached /\ Listed' = Listed
      BY <1>3 DEF ListOwnsHandles, NoTorrentIsLost, Listed
    <2>2. ListOwnsHandles'
      BY <1>3, <2>1 DEF ListOwnsHandles, TypeOK
    <2>3. HashesAreKnown' /\ HashesAreDistinct' /\ OthersStayAttached'
      BY <1>3, <2>1
      DEF HashesAreKnown, HashesAreDistinct, OthersStayAttached, TypeOK
    <2>4. NoTorrentIsLost'
      <3>1. \A s \in attached : key'[s] = key[s]
        BY <1>3, <2>1 DEF TypeOK
      <3> QED
        BY <1>3, <2>1, <3>1 DEF NoTorrentIsLost
    <2> QED
      BY <1>0, <2>2, <2>3, <2>4
  <1>4. CASE UNCHANGED registry
    BY <1>0, <1>4 DEF RegistryInv, registry, HashesAreKnown, ListOwnsHandles,
                      HashesAreDistinct, NoTorrentIsLost, OthersStayAttached,
                      Listed
  <1> QED
    BY <1>1, <1>2, <1>3, <1>4
    DEF Next, Application, EventLoop, Step, vars, StopAll, PostAlert, Poll,
        Dispatch, Dispatched, Visit, StopOne, Report, Notify, CheckSeedRatio,
        LoopEnds, StaleRead, Faulted

(* Every variable of the registry and of the stack keeps its type. *)
THEOREM TypeCorrect == Spec => []TypeOK
  BY InitRegistryInv, NextRegistryInv, PTL DEF Spec, RegistryInv

(* Whatever the slots do, the list holds exactly the live objects, each     *)
(* once, and owns exactly their handles.                                    *)
THEOREM RegistryOwnsHandles == Spec => []ListOwnsHandles
  BY InitRegistryInv, NextRegistryInv, PTL DEF Spec, RegistryInv

(* No two listed torrents have the same info hash.                          *)
THEOREM RegistryHasNoDuplicates == Spec => []HashesAreDistinct
  BY InitRegistryInv, NextRegistryInv, PTL DEF Spec, RegistryInv

(* Every torrent of the libtorrent session is behind the handle of a listed *)
(* torrent.                                                                 *)
THEOREM SessionIsListed == Spec => []NoTorrentIsLost
  BY InitRegistryInv, NextRegistryInv, PTL DEF Spec, RegistryInv

(* A torrent that is no face of a hybrid stays in the session until it is   *)
(* itself removed.                                                          *)
THEOREM RemovalIsLocal == Spec => []OthersStayAttached
  BY InitRegistryInv, NextRegistryInv, PTL DEF Spec, RegistryInv

----------------------------------------------------------------------------
(* The client implements the abstract registry. *)

Faces == [k \in Keys |-> Face(k)]

\* The face of a hash, by the one listed torrent that has it, if any.
LEMMA FaceOfListed ==
    ASSUME HashesAreDistinct, NEW t \in Listed
    PROVE  Face(key[t]) = IF t \in attached THEN "running" ELSE "detached"
  <1>1. Find(key[t]) = {t}
    BY DEF Find, HashesAreDistinct
  <1> QED
    BY <1>1 DEF Face

\* A hash that no listed torrent has is absent.
LEMMA FaceOfNone ==
    ASSUME NEW k, \A t \in Listed : key[t] # k
    PROVE  Face(k) = "absent"
  BY DEF Face, Find

\* A new client has no torrents.
LEMMA InitRefines == Init => Abstract!RegistryInit
  <1> SUFFICES ASSUME Init PROVE Abstract!RegistryInit
    OBVIOUS
  <1>1. Listed = {}
    BY EmptySeq DEF Init, Listed, ToSet
  <1>2. \A k \in Keys : Face(k) = "absent"
    BY <1>1, FaceOfNone
  <1> QED
    BY <1>2 DEF Abstract!RegistryInit

\* addTorrent adds its hash; the other hashes keep their torrents.
LEMMA AddTorrentRefines ==
    ASSUME RegistryInv, RegistryInv',
           NEW t \in Objects, NEW k \in Keys, AddTorrent(t, k)
    PROVE  Abstract!Add(k)
  <1> USE DEF RegistryInv
  <1>1. /\ object[t] = "unused" /\ t \notin Listed
        /\ \A s \in Listed : key[s] # k
    BY DEF AddTorrent, ListOwnsHandles, Find
  <1>2. /\ listed' = Append(listed, t)
        /\ key' = [key EXCEPT ![t] = k]
        /\ attached' = attached \union {t}
    BY DEF AddTorrent, HashSet
  <1>3. Listed' = Listed \union {t}
    BY <1>1, <1>2, AppendToList DEF TypeOK, ListOwnsHandles, Listed, Distinct
  <1>4. Listed \subseteq Objects
    BY LenProperties DEF TypeOK, Listed, ToSet
  <1>5. Face(k) = "absent"
    BY <1>1, FaceOfNone
  <1>6. Find(k)' = {t}
    BY <1>1, <1>2, <1>3, <1>4 DEF Find, TypeOK
  <1>7. Face(k)' = "running"
    BY <1>2, <1>6 DEF Face
  <1>8. ASSUME NEW j \in Keys, j # k PROVE Face(j)' = Face(j)
    <2>1. Find(j)' = Find(j) /\ t \notin Find(j)
      BY <1>1, <1>2, <1>3, <1>4, <1>8 DEF Find, TypeOK
    <2> QED
      BY <1>2, <2>1 DEF Face
  <1>9. Faces' = [Faces EXCEPT ![k] = "running"]
    BY <1>7, <1>8 DEF Faces
  <1> QED
    BY <1>5, <1>9 DEF Abstract!Add, Faces

\* removeTorrent removes the hash of its torrent, and detaches the other
\* faces of it.
LEMMA RemoveTorrentRefines ==
    ASSUME RegistryInv, RegistryInv', NEW t \in Objects, NEW k \in Keys,
           k = key[t], RemoveTorrent(t)
    PROVE  Abstract!Remove(k)
  <1> USE DEF RegistryInv
  <1>1. /\ t \in Listed
        /\ listed' = RemoveFirst(listed, t)
        /\ key' = key
        /\ attached' = {s \in attached : IdOf[key[s]] \notin Gone(t)}
    BY DEF RemoveTorrent, Removable, Unlisted
  <1>2. Listed' = Listed \ {t}
    BY <1>1, RemoveFromList DEF TypeOK, ListOwnsHandles, Listed, Distinct
  <1>4. Face(k) # "absent" /\ (Face(k) = "running" <=> t \in attached)
    BY <1>1, FaceOfListed
  <1>5. Face(k)' = "absent"
    <2>1. \A s \in Listed' : key'[s] # k
      BY <1>1, <1>2 DEF HashesAreDistinct
    <2> QED
      BY <1>1, <2>1 DEF Face, Find
  <1>6. ASSUME NEW j \in Keys, j # k
        PROVE  Face(j)' = IF /\ Face(k) = "running" /\ Face(j) = "running"
                             /\ IdOf[j] = IdOf[k]
                          THEN "detached" ELSE Face(j)
    <2>1. Find(j)' = Find(j) /\ t \notin Find(j)
      BY <1>1, <1>2, <1>6 DEF Find
    <2>2. CASE Find(j) = {}
      BY <2>1, <2>2 DEF Face
    <2>3. ASSUME NEW s \in Find(j)
          PROVE  Face(j)' = IF /\ Face(k) = "running" /\ Face(j) = "running"
                               /\ IdOf[j] = IdOf[k]
                            THEN "detached" ELSE Face(j)
      <3>1. s \in Listed /\ key[s] = j
        BY <2>3 DEF Find
      <3>2. Find(j) = {s}
        BY <3>1 DEF Find, HashesAreDistinct
      <3>3. Face(j) = IF s \in attached THEN "running" ELSE "detached"
        BY <3>2 DEF Face
      <3>4. Face(j)' = IF s \in attached' THEN "running" ELSE "detached"
        BY <2>1, <3>2 DEF Face
      <3>5. s \in attached' <=> s \in attached /\ ~(t \in attached /\ IdOf[j] = IdOf[k])
        BY <1>1, <3>1 DEF Gone
      <3> QED
        BY <1>4, <3>3, <3>4, <3>5
    <2> QED
      BY <2>2, <2>3
  <1>7. Faces' = [j \in Keys |->
                    CASE j = k -> "absent"
                      [] j # k /\ Faces[k] = "running" /\ Faces[j] = "running"
                           /\ IdOf[j] = IdOf[k] -> "detached"
                      [] OTHER -> Faces[j]]
    <2>1. \A j \in Keys : Faces[j] = Face(j)
      BY DEF Faces
    <2>2. Faces' = [j \in Keys |-> Face(j)']
      BY DEF Faces
    <2>3. ASSUME NEW j \in Keys
          PROVE  Face(j)' = CASE j = k -> "absent"
                              [] j # k /\ Faces[k] = "running"
                                   /\ Faces[j] = "running"
                                   /\ IdOf[j] = IdOf[k] -> "detached"
                              [] OTHER -> Faces[j]
      BY <1>5, <1>6, <2>1
    <2> QED
      BY <2>2, <2>3
  <1>8. Faces[k] # "absent"
    BY <1>4 DEF Faces
  <1> QED
    BY <1>7, <1>8 DEF Abstract!Remove, Faces

\* Everything else is a step that the application does not see.
LEMMA NextRefines ==
    RegistryInv /\ RegistryInv' /\ [Next]_vars => [Abstract!RegistryNext]_Faces
  <1> SUFFICES ASSUME RegistryInv, RegistryInv', [Next]_vars
               PROVE  [Abstract!RegistryNext]_Faces
    OBVIOUS
  <1>1. ASSUME NEW t \in Objects, NEW k \in Keys, AddTorrent(t, k)
        PROVE  Abstract!RegistryNext
    BY <1>1, AddTorrentRefines DEF Abstract!RegistryNext
  <1>2. ASSUME NEW t \in Objects, RemoveTorrent(t)
        PROVE  Abstract!RegistryNext
    <2>1. t \in Listed
      BY <1>2 DEF RemoveTorrent, Removable
    <2>2. PICK k \in Keys : k = key[t]
      BY <2>1 DEF RegistryInv, HashesAreKnown
    <2> QED
      BY <1>2, <2>2, RemoveTorrentRefines DEF Abstract!RegistryNext
  <1>3. ASSUME NEW t \in Objects, DeleteDeferred(t) PROVE UNCHANGED Faces
    <2>1. t \notin Listed /\ Listed' = Listed /\ attached' = attached
      BY <1>3 DEF DeleteDeferred, RegistryInv, ListOwnsHandles, Listed
    <2>2. \A s \in Listed : key'[s] = key[s]
      BY <1>3, <2>1 DEF DeleteDeferred, RegistryInv, TypeOK
    <2>3. \A k \in Keys : Find(k)' = Find(k)
      BY <2>1, <2>2 DEF Find
    <2> QED
      BY <2>1, <2>3 DEF Faces, Face
  <1>4. CASE UNCHANGED registry
    BY <1>4 DEF registry, Faces, Face, Find, Listed
  <1> QED
    BY <1>1, <1>2, <1>3, <1>4
    DEF Next, Application, EventLoop, Step, vars, StopAll, PostAlert, Poll,
        Dispatch, Dispatched, Visit, StopOne, Report, Notify, CheckSeedRatio,
        LoopEnds, StaleRead, Faulted

(* The client implements the registry: whatever loops, alerts and nested    *)
(* calls do, the application sees a set of hashes that only its own calls   *)
(* change.                                                                  *)
THEOREM ClientImplementsRegistry == Spec => ImplementsRegistry
  <1>1. Spec => [](RegistryInv)
    BY InitRegistryInv, NextRegistryInv, PTL DEF Spec
  <1>2. RegistryInv /\ RegistryInv' /\ [Next]_vars => [Abstract!RegistryNext]_Faces
    BY NextRefines
  <1> QED
    BY <1>1, <1>2, InitRefines, PTL
    DEF Spec, ImplementsRegistry, Abstract!RegistrySpec, Faces

----------------------------------------------------------------------------
(* The discipline.  While the application changes the registry only outside *)
(* the loops, the loops walk over listed torrents; while it does not poll   *)
(* from the slots of alerts, no batch is torn.                              *)

FrameIsSafe(f) ==
    /\ ~f.torn
    /\ ~f.stale
    /\ f.pc \in Loops => ToSet(f.left) \subseteq Listed
    /\ f.pc \in {"report", "notify", "ratio"} => f.t \in Listed

FramesAreSafe == \A i \in 1..depth : FrameIsSafe(frame[i])

DisciplineInv == RegistryInv /\ (disciplined => fault = "none" /\ FramesAreSafe)

\* No call is in progress at first.
LEMMA InitDisciplineInv == Init => DisciplineInv
  BY InitRegistryInv DEF Init, DisciplineInv, FramesAreSafe

\* A step of the running call leaves the registry and the other frames alone.
LEMMA StepIsSafe ==
    ASSUME RegistryInv, FramesAreSafe, UNCHANGED registry,
           depth \in 1..MaxDepth, NEW f \in Frames, SetTop(f),
           depth' \in {depth - 1, depth},
           depth' = depth => FrameIsSafe(f)
    PROVE  FramesAreSafe'
  <1>1. Listed' = Listed
    BY DEF registry, Listed
  <1>2. \A i \in 1..depth' :
           \/ frame'[i] = frame[i] /\ i \in 1..depth
           \/ frame'[i] = f /\ depth' = depth
    BY DEF SetTop, RegistryInv, TypeOK
  <1> QED
    BY <1>1, <1>2 DEF FramesAreSafe, FrameIsSafe

\* So does a call that begins.
LEMMA PushIsSafe ==
    ASSUME RegistryInv, FramesAreSafe, UNCHANGED registry, depth' = depth + 1,
           NEW f, FrameIsSafe(f), frame'[depth + 1] = f,
           \A i \in 1..depth : frame'[i] = frame[i]
    PROVE  FramesAreSafe'
  <1>1. Listed' = Listed
    BY DEF registry, Listed
  <1>2. depth \in Nat
    BY DEF RegistryInv, TypeOK
  <1>3. \A i \in 1..depth' :
           \/ frame'[i] = frame[i] /\ i \in 1..depth
           \/ frame'[i] = f
    BY <1>2
  <1> QED
    BY <1>1, <1>3 DEF FramesAreSafe, FrameIsSafe

\* Reading the handles of listed torrents is no fault.
LEMMA ListedHandlesAreUsable ==
    ASSUME RegistryInv, fault = "none", NEW S, S \subseteq Listed, Uses(S)
    PROVE  fault' = "none"
  <1>1. \A t \in S : t \in Objects
    BY LenProperties DEF RegistryInv, TypeOK, Listed, ToSet
  <1> QED
    BY <1>1 DEF RegistryInv, ListOwnsHandles, Uses

\* Without changes under it, a call in progress reads only live handles.
LEMMA StepDiscipline ==
    ASSUME RegistryInv, fault = "none", FramesAreSafe, Step
    PROVE  fault' = "none" /\ FramesAreSafe'
  <1>1. /\ depth > 0 /\ depth \in 1..MaxDepth /\ Top \in Frames
        /\ UNCHANGED registry
    BY TopType
    DEF RegistryInv, Step, Dispatch, Dispatched, Visit, StopOne, Report, Notify,
        CheckSeedRatio, LoopEnds, StaleRead, At, registry
  <1>2. FrameIsSafe(Top)
    BY <1>1 DEF FramesAreSafe, Top
  <1>3. TypeOK' /\ frame' \in [1..MaxDepth -> Frames]
    BY StepTypeOK DEF RegistryInv, TypeOK
  \* A frame written by SetTop has its type because the new stack has.
  <1>4. ASSUME NEW f, SetTop(f), depth' = depth, FrameIsSafe(f)
        PROVE  FramesAreSafe'
    <2>1. f \in Frames
      BY <1>1, <1>3, <1>4 DEF SetTop, RegistryInv, TypeOK
    <2> QED
      BY <1>1, <1>4, <2>1, StepIsSafe
  <1>5. CASE Dispatch
    <2>1. fault' = "none"
      BY <1>1, <1>2, <1>5, ListedHandlesAreUsable DEF Dispatch, FrameIsSafe
    <2>2. FrameIsSafe([Top EXCEPT !.batch = Tail(Top.batch),
                                  !.slot = Emits(Head(Top.batch))])
      BY <1>1, <1>2, <1>5 DEF Dispatch, At, FrameIsSafe, Frames, Loops
    <2> QED
      BY <1>4, <1>5, <2>1, <2>2 DEF Dispatch
  <1>6. CASE Dispatched
    <2>1. FrameIsSafe([NoFrame EXCEPT !.pc = "visit", !.left = listed])
      BY DEF NoFrame, FrameIsSafe, Listed
    <2> QED
      BY <1>4, <1>6, <2>1 DEF Dispatched
  \* An iterator that is not stale points to a listed torrent.
  <1>7. ASSUME NEW t \in Candidates, Top.pc \in Loops
        PROVE  t \in Listed /\ ToSet(Rest) \subseteq Listed
    <2>1. /\ ~Top.stale /\ Top.left \in Seq(Objects) /\ Top.left # <<>>
          /\ t = Head(Top.left) /\ ToSet(Top.left) \subseteq Listed
      BY <1>1, <1>2, <1>7 DEF Candidates, FrameIsSafe, Frames
    <2> QED
      BY <2>1, HeadAndTail DEF Rest
  <1>8. ASSUME NEW t \in Objects, Visit(t)
        PROVE  fault' = "none" /\ FramesAreSafe'
    <2>1. t \in Listed /\ ToSet(Rest) \subseteq Listed
      BY <1>7, <1>8 DEF Visit, At, Loops
    <2>2. fault' = "none"
      BY <1>8, <2>1, ListedHandlesAreUsable DEF Visit
    <2>3. FrameIsSafe([Top EXCEPT !.pc = "report", !.slot = t \in attached,
                                  !.left = Rest, !.t = t])
      BY <1>1, <1>2, <2>1 DEF FrameIsSafe, Frames
    <2> QED
      BY <1>4, <1>8, <2>2, <2>3 DEF Visit
  <1>9. ASSUME NEW t \in Objects, StopOne(t)
        PROVE  fault' = "none" /\ FramesAreSafe'
    <2>1. t \in Listed /\ ToSet(Rest) \subseteq Listed /\ Top.pc = "stop"
      BY <1>7, <1>9 DEF StopOne, At, Loops
    <2>2. fault' = "none"
      BY <1>9, <2>1, ListedHandlesAreUsable DEF StopOne
    <2>3. FrameIsSafe([Top EXCEPT !.slot = TRUE, !.left = Rest])
      BY <1>1, <1>2, <2>1 DEF FrameIsSafe, Frames
    <2> QED
      BY <1>4, <1>9, <2>2, <2>3 DEF StopOne
  <1>10. CASE Report
    <2>1. Top.pc = "report" /\ Top.t \in Listed
      BY <1>2, <1>10 DEF Report, At, FrameIsSafe
    <2>2. fault' = "none"
      BY <1>10, <2>1, ListedHandlesAreUsable DEF Report
    <2>3. FrameIsSafe([Top EXCEPT !.pc = "notify"])
      BY <1>1, <1>2, <2>1 DEF FrameIsSafe, Frames, Loops
    <2> QED
      BY <1>4, <1>10, <2>2, <2>3 DEF Report
  <1>11. CASE Notify
    <2>1. FrameIsSafe([Top EXCEPT !.pc = "ratio", !.slot = TRUE])
      BY <1>1, <1>2, <1>11 DEF Notify, At, FrameIsSafe, Frames, Loops
    <2> QED
      BY <1>4, <1>11, <2>1 DEF Notify
  <1>12. CASE CheckSeedRatio
    <2>1. Top.pc = "ratio" /\ Top.t \in Listed
      BY <1>2, <1>12 DEF CheckSeedRatio, At, FrameIsSafe
    <2>2. fault' = "none"
      BY <1>12, <2>1, ListedHandlesAreUsable DEF CheckSeedRatio
    <2>3. FrameIsSafe([Top EXCEPT !.pc = "visit", !.t = None])
      BY <1>1, <1>2, <2>1 DEF FrameIsSafe, Frames, Loops
    <2> QED
      BY <1>4, <1>12, <2>2, <2>3 DEF CheckSeedRatio
  <1>13. CASE LoopEnds
    <2>1. depth' = depth - 1 /\ depth' # depth
      BY <1>1, <1>13 DEF LoopEnds, Pop
    <2> QED
      BY <1>1, <1>13, <2>1, NoFrameType, StepIsSafe DEF LoopEnds, Pop
  <1>14. CASE StaleRead
    BY <1>2, <1>14 DEF StaleRead, FrameIsSafe
  <1> QED
    BY <1>5, <1>6, <1>8, <1>9, <1>10, <1>11, <1>12, <1>13, <1>14 DEF Step

\* Outside the loops, a change of the list disturbs no frame.
LEMMA ChangeDiscipline ==
    ASSUME RegistryInv, FramesAreSafe, ~Walking, NEW gone, UNCHANGED depth,
           frame' = [i \in 1..MaxDepth |-> Disturbed(frame[i], gone)]
    PROVE  FramesAreSafe'
  <1> SUFFICES ASSUME NEW i \in 1..depth PROVE FrameIsSafe(frame[i])'
    BY DEF FramesAreSafe
  <1>1. i \in 1..MaxDepth /\ frame[i] \in Frames
    BY BoundsAssumption DEF RegistryInv, TypeOK
  <1>2. FrameIsSafe(frame[i]) /\ frame[i].pc \notin Loops
    BY DEF FramesAreSafe, Walking
  <1>3. frame'[i] = Disturbed(frame[i], gone)
    BY <1>1
  <1>4. /\ frame'[i].pc = frame[i].pc /\ frame'[i].torn = frame[i].torn
        /\ frame'[i].stale = (frame[i].pc \in Loops)
    BY <1>1, <1>3 DEF Disturbed, Frames
  <1> QED
    BY <1>2, <1>4 DEF FrameIsSafe, Loops

\* Every step of a disciplined application is free of faults.
LEMMA NextDisciplineInv == DisciplineInv /\ [Next]_vars => DisciplineInv'
  <1> SUFFICES ASSUME DisciplineInv, [Next]_vars PROVE DisciplineInv'
    OBVIOUS
  <1>1. RegistryInv /\ RegistryInv'
    BY NextRegistryInv DEF DisciplineInv
  <1>2. UNCHANGED disciplined
    BY DEF Next, Application, EventLoop, Step, vars, AddTorrent, RemoveTorrent,
           DeleteDeferred, StopAll, PostAlert, Poll, Dispatch, Dispatched,
           Visit, StopOne, Report, Notify, CheckSeedRatio, LoopEnds, StaleRead,
           Faulted
  <1>3. SUFFICES ASSUME disciplined, fault = "none", FramesAreSafe
                 PROVE  fault' = "none" /\ FramesAreSafe'
    BY <1>1, <1>2, Zenon DEF DisciplineInv
  <1>4. ASSUME NEW t \in Objects, NEW k \in Keys, AddTorrent(t, k)
        PROVE  fault' = "none" /\ FramesAreSafe'
    BY <1>1, <1>3, <1>4, ChangeDiscipline DEF AddTorrent, MayChange
  <1>5. ASSUME NEW t \in Objects, RemoveTorrent(t)
        PROVE  fault' = "none" /\ FramesAreSafe'
    <2>1. fault' = "none"
      BY <1>1, <1>3, <1>5, ListedHandlesAreUsable DEF RemoveTorrent, Removable
    <2>2. FramesAreSafe'
      BY <1>1, <1>3, <1>5, ChangeDiscipline DEF RemoveTorrent, MayChange
    <2> QED
      BY <2>1, <2>2
  <1>6. CASE StopAll
    <2> DEFINE f == [NoFrame EXCEPT !.pc = "stop", !.left = listed]
    <2>1. FrameIsSafe(f)
      BY DEF NoFrame, FrameIsSafe, Listed
    <2> HIDE DEF f
    <2>2. depth + 1 \in 1..MaxDepth
      BY <1>1, <1>6, BoundsAssumption DEF StopAll, RegistryInv, TypeOK
    <2>3. frame' = [frame EXCEPT ![depth + 1] = f]
      BY <1>6 DEF StopAll, f
    <2>4. /\ frame'[depth + 1] = f
          /\ \A i \in 1..depth : frame'[i] = frame[i]
      BY <1>1, <2>2, <2>3 DEF RegistryInv, TypeOK
    <2> QED
      BY <1>1, <1>3, <1>6, <2>1, <2>4, PushIsSafe DEF StopAll
  <1>7. CASE Poll
    <2> DEFINE f    == [NoFrame EXCEPT !.pc = "dispatch", !.batch = alerts]
               g(i) == [frame[i] EXCEPT !.torn = frame[i].pc = "dispatch"]
    <2>1. FrameIsSafe(f)
      BY DEF NoFrame, FrameIsSafe, Loops
    <2>2. ASSUME NEW i \in 1..depth PROVE g(i) = frame[i]
      <3>1. frame[i] \in Frames
        BY <1>1, BoundsAssumption DEF RegistryInv, TypeOK
      <3>2. frame[i].pc # "dispatch" /\ ~frame[i].torn
        BY <1>3, <1>7 DEF Poll, Dispatching, FramesAreSafe, FrameIsSafe
      <3>3. frame[i].torn = (frame[i].pc = "dispatch")
        BY <3>1, <3>2 DEF Frames
      <3> QED
        BY <3>1, <3>3 DEF Frames
    <2>3. frame' = [i \in 1..MaxDepth |-> IF i = depth + 1 THEN f ELSE g(i)]
      BY <1>7 DEF Poll
    <2> HIDE DEF f, g
    <2>4. depth + 1 \in 1..MaxDepth /\ depth \in Nat /\ MaxDepth \in Nat
      BY <1>1, <1>7, BoundsAssumption DEF Poll, RegistryInv, TypeOK
    <2>5. /\ frame'[depth + 1] = f
          /\ \A i \in 1..depth : frame'[i] = g(i)
      BY <2>3, <2>4
    <2> QED
      BY <1>1, <1>3, <1>7, <2>1, <2>2, <2>5, PushIsSafe DEF Poll
  <1>8. CASE Step
    BY <1>1, <1>3, <1>8, StepDiscipline
  <1>9. CASE UNCHANGED <<listed, depth, frame, fault>>
    BY <1>3, <1>9 DEF FramesAreSafe, FrameIsSafe, Listed
  <1> QED
    BY <1>4, <1>5, <1>6, <1>7, <1>8, <1>9
    DEF Next, Application, EventLoop, vars, registry, DeleteDeferred, PostAlert,
        Faulted

(* An application that keeps the discipline never makes the client use a    *)
(* deleted handle, a stale iterator or a batch that was taken away.         *)
THEOREM DisciplineSuffices == Spec => []DisciplineIsEnough
  <1>1. DisciplineInv => DisciplineIsEnough
    BY DEF DisciplineInv, DisciplineIsEnough
  <1> QED
    BY <1>1, InitDisciplineInv, NextDisciplineInv, PTL DEF Spec

=============================================================================
