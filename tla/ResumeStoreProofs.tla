------------------------- MODULE ResumeStoreProofs -------------------------
(* Proofs, for any hashes, any torrents and any number of saves in the      *)
(* queue, that the registry and the resume files agree at every point where *)
(* the program may end.                                                     *)
EXTENDS ResumeStore, Lists, FiniteSetTheorems

----------------------------------------------------------------------------
(* The inductive invariant. *)

HandlesAreListed == attached \subseteq Listed

(* Only a hybrid can lose its handle to another wrapper. *)
PlainKeepsHandle == \A k \in Listed : Plain(k) => k \in attached

(* libtorrent answers about the torrent it was asked about. *)
SavesKnowTheirTorrent ==
    \A i \in DOMAIN saves :
        saves[i].answer = "saved" =>
            saves[i].best \in Keys /\ IdOf[saves[i].best] = saves[i].id

(* What is being written is torn, and of a listed torrent. *)
WritingIsOpen ==
    writing # None =>
        directory /\ writing.file \in Listed /\ disk[writing.file] = Torn

DirectoryIsSet == loaded \/ call # "idle" => directory

(* The file of a plain torrent holds that torrent. *)
PlainFilesMatch ==
    \A k \in Keys : Plain(k) =>
        /\ disk[k] \in Keys => disk[k] = k
        /\ writing # None /\ writing.file = k => writing.best = k

(* No wrapper and no file, finished or not, knows a torrent that is gone. *)
GoneLeftNothing ==
    \A k \in Keys : IdOf[k] \in gone =>
        /\ k \notin Listed
        /\ \A j \in Keys : disk[j] # k
        /\ writing # None => writing.best # k

(* While a load runs, what it has not listed yet is still before it. *)
FilesAreLoading ==
    call # "idle" =>
        \A k \in Keys : Plain(k) /\ disk[k] \in Keys => k \in Listed \union loading

RegistryInv ==
    /\ TypeOK
    /\ HandlesAreListed
    /\ WrappersAreDistinct

StoreInv ==
    /\ RegistryInv
    /\ PlainKeepsHandle
    /\ SavesKnowTheirTorrent
    /\ WritingIsOpen
    /\ DirectoryIsSet
    /\ PlainFilesMatch
    /\ GoneLeftNothing
    /\ FilesAreListed
    /\ FilesAreLoading

----------------------------------------------------------------------------
(* The queue of saves. *)

\* The queue is a sequence of records.
LEMMA SavesDomain ==
    ASSUME TypeOK
    PROVE  /\ Len(saves) \in Nat /\ DOMAIN saves = 1..Len(saves)
           /\ \A i \in DOMAIN saves : saves[i] \in Save
  BY LenProperties DEF TypeOK

\* The first of the queue.
LEMMA HeadOfSaves ==
    ASSUME TypeOK, saves # <<>>
    PROVE  /\ 1 \in DOMAIN saves /\ Head(saves) = saves[1]
           /\ Head(saves) \in Save
           /\ Tail(saves) \in Seq(Save)
           /\ Len(Tail(saves)) = Len(saves) - 1
           /\ \A i \in 1..(Len(saves) - 1) : Tail(saves)[i] = saves[i + 1]
  <1>1. Len(saves) \in Nat \ {0}
    BY EmptySeq DEF TypeOK
  <1> QED
    BY <1>1, SavesDomain, HeadTailProperties DEF TypeOK

\* Requests are appended in any order; none of them is an answer.
LEMMA Requested ==
    ASSUME RegistryInv, SaveAllResumeData
    PROVE  /\ saves' \in Seq(Save)
           /\ SavesKnowTheirTorrent => SavesKnowTheirTorrent'
  <1>1. Cardinality(attached) \in Nat
    BY KeysAssumption, FS_Subset, FS_CardinalityType DEF RegistryInv, TypeOK
  <1>2. PICK asked \in SetToSeqs(attached) :
            saves' = saves \o [i \in DOMAIN asked |-> Request(asked[i])]
    BY DEF SaveAllResumeData
  <1> DEFINE n == Cardinality(attached)
             new == [i \in DOMAIN asked |-> Request(asked[i])]
  <1>3. asked \in [1..n -> Keys]
    BY <1>2 DEF SetToSeqs, RegistryInv, TypeOK
  <1>4. \A k \in Keys : Request(k) \in Save /\ Request(k).answer = "asked"
    BY IdOfAssumption DEF Request, Save
  <1>5. /\ new \in [1..n -> Save]
        /\ \A i \in 1..n : new[i].answer = "asked"
    BY <1>3, <1>4
  <1>6. new \in Seq(Save) /\ Len(new) = n
    BY <1>1, <1>5, SeqDef, LenProperties
  <1> HIDE DEF n, new
  <1>7. /\ saves \o new \in Seq(Save)
        /\ Len(saves \o new) = Len(saves) + n
        /\ \A i \in 1..(Len(saves) + n) :
              (saves \o new)[i] = IF i <= Len(saves) THEN saves[i]
                                                     ELSE new[i - Len(saves)]
    BY <1>6, ConcatProperties DEF RegistryInv, TypeOK
  <1>8. saves' = saves \o new
    BY <1>2 DEF new
  <1>9. ASSUME SavesKnowTheirTorrent, NEW i \in DOMAIN saves',
               saves'[i].answer = "saved"
        PROVE  i \in DOMAIN saves /\ saves'[i] = saves[i]
    <2>1. i \in 1..(Len(saves) + n)
      BY <1>7, <1>8, <1>9, LenProperties
    <2>2. Len(saves) \in Nat /\ DOMAIN saves = 1..Len(saves) /\ n \in Nat
      BY <1>1, SavesDomain DEF RegistryInv, n
    <2>3. CASE i <= Len(saves)
      BY <1>7, <1>8, <2>1, <2>2, <2>3
    <2>4. CASE ~(i <= Len(saves))
      <3>1. i - Len(saves) \in 1..n
        BY <2>1, <2>2, <2>4
      <3> QED
        BY <1>5, <1>7, <1>8, <1>9, <2>1, <2>4, <3>1 DEF new
    <2> QED
      BY <2>3, <2>4
  <1>10. SavesKnowTheirTorrent => SavesKnowTheirTorrent'
    BY <1>9 DEF SavesKnowTheirTorrent, SaveAllResumeData
  <1> QED
    BY <1>7, <1>8, <1>10

\* An answer carries a hash of its torrent.
LEMMA AnswerGiven ==
    ASSUME TypeOK, NEW result \in {"saved", "failed"}, Answer(result)
    PROVE  /\ saves' \in Seq(Save)
           /\ SavesKnowTheirTorrent => SavesKnowTheirTorrent'
  <1>1. PICK i \in DOMAIN saves :
            \/ \E answer \in Answers(saves[i], result) :
                  saves' = [saves EXCEPT ![i] = answer]
            \/ saves' = RemoveAt(saves, i)
    BY DEF Answer
  <1>2. /\ Len(saves) \in Nat /\ DOMAIN saves = 1..Len(saves)
        /\ saves[i] \in Save /\ saves \in Seq(Save)
    BY SavesDomain DEF TypeOK
  <1>3. ASSUME NEW answer \in Answers(saves[i], result),
               saves' = [saves EXCEPT ![i] = answer]
        PROVE  /\ saves' \in Seq(Save)
               /\ SavesKnowTheirTorrent => SavesKnowTheirTorrent'
    <2>1. PICK k \in Keys \union {None} :
              /\ answer = [saves[i] EXCEPT !.answer = result, !.best = k]
              /\ result = "saved" => k \in Keys /\ IdOf[k] = saves[i].id
      <3>1. /\ saves[i].id \in Ids
            /\ Link[saves[i].id] \in Keys /\ IdOf[Link[saves[i].id]] = saves[i].id
            /\ Best[saves[i].id] \in Keys /\ IdOf[Best[saves[i].id]] = saves[i].id
        BY <1>2, HashesAssumption DEF Save
      <3> QED
        BY <3>1, <1>3 DEF Answers
    <2>2. /\ answer \in Save
          /\ answer.answer = result /\ answer.best = k /\ answer.id = saves[i].id
      BY <1>2, <2>1 DEF Save
    <2>3. /\ saves' \in Seq(Save) /\ Len(saves') = Len(saves)
          /\ \A j \in 1..Len(saves) : saves'[j] = IF j = i THEN answer ELSE saves[j]
      BY <1>2, <1>3, <2>2, ExceptSeq
    <2>4. DOMAIN saves' = 1..Len(saves)
      BY <2>3, LenProperties
    <2> QED
      BY <1>2, <2>1, <2>2, <2>3, <2>4 DEF SavesKnowTheirTorrent
  <1>4. ASSUME saves' = RemoveAt(saves, i)
        PROVE  /\ saves' \in Seq(Save)
               /\ SavesKnowTheirTorrent => SavesKnowTheirTorrent'
    <2>1. /\ saves' \in Seq(Save) /\ Len(saves') = Len(saves) - 1
          /\ \A j \in 1..(Len(saves) - 1) :
                saves'[j] = IF j < i THEN saves[j] ELSE saves[j + 1]
      BY <1>2, <1>4, RemoveAtList
    <2>2. DOMAIN saves' = 1..(Len(saves) - 1)
      BY <2>1, LenProperties
    <2> QED
      BY <1>2, <2>1, <2>2 DEF SavesKnowTheirTorrent
  <1> QED
    BY <1>1, <1>3, <1>4

\* Handles expire; the rest of the queue stays.
LEMMA ExpiredSaves ==
    ASSUME TypeOK, NEW id, saves' = Expired(id)
    PROVE  /\ saves' \in Seq(Save)
           /\ SavesKnowTheirTorrent => SavesKnowTheirTorrent'
  <1>1. \A i \in DOMAIN saves :
            /\ saves'[i] \in Save
            /\ saves'[i].answer = saves[i].answer
            /\ saves'[i].best = saves[i].best
            /\ saves'[i].id = saves[i].id
    BY SavesDomain DEF Expired, Save
  <1>2. saves' \in [1..Len(saves) -> Save]
    BY <1>1, SavesDomain DEF Expired
  <1> QED
    BY <1>1, <1>2, SavesDomain, SeqDef DEF SavesKnowTheirTorrent, Expired

\* The first answer is taken out.
LEMMA SavesAfterAlert ==
    ASSUME TypeOK, NEW answer, Alert(answer)
    PROVE  /\ saves' \in Seq(Save)
           /\ SavesKnowTheirTorrent => SavesKnowTheirTorrent'
           /\ Head(saves) \in Save /\ Head(saves) = saves[1] /\ 1 \in DOMAIN saves
           /\ Head(saves).answer = answer
  <1>1. saves # <<>> /\ saves' = Tail(saves) /\ Head(saves).answer = answer
    BY DEF Alert
  <1>2. DOMAIN saves' = 1..(Len(saves) - 1)
    BY <1>1, HeadOfSaves, LenProperties
  <1> QED
    BY <1>1, <1>2, HeadOfSaves, SavesDomain DEF SavesKnowTheirTorrent

----------------------------------------------------------------------------
(* Types, and what the list and the handles keep. *)

\* The first run starts with no files and empty lists.
LEMMA InitStore == Init => StoreInv
  <1> SUFFICES ASSUME Init PROVE StoreInv
    OBVIOUS
  <1>1. /\ listed \in Seq(Keys) /\ saves \in Seq(Save)
        /\ DOMAIN listed = {} /\ DOMAIN saves = {} /\ Listed = {}
    BY EmptySeq, LenProperties DEF Init, Listed, ToSet
  <1>2. TypeOK
    BY <1>1 DEF Init, TypeOK
  <1>3. Absent \notin Keys
    BY NoneAssumption
  <1> QED
    BY <1>1, <1>2, <1>3
    DEF Init, StoreInv, RegistryInv, HandlesAreListed, WrappersAreDistinct,
        PlainKeepsHandle, SavesKnowTheirTorrent, WritingIsOpen, DirectoryIsSet,
        PlainFilesMatch, GoneLeftNothing, FilesAreListed, FilesAreLoading

\* Another run of the program, or none, has empty lists.
LEMMA FreshRegistry ==
    ASSUME TypeOK, Fresh, running' \in BOOLEAN, UNCHANGED <<disk, gone>>
    PROVE  /\ RegistryInv' /\ Listed' = {} /\ DOMAIN saves' = {}
  <1>1. /\ listed' \in Seq(Keys) /\ saves' \in Seq(Save)
        /\ DOMAIN listed' = {} /\ DOMAIN saves' = {} /\ Listed' = {}
    BY EmptySeq, LenProperties DEF Fresh, Listed, ToSet
  <1> QED
    BY <1>1 DEF Fresh, RegistryInv, TypeOK, HandlesAreListed, WrappersAreDistinct

\* A new wrapper: the list and the handles after Wrap(k).
LEMMA WrapRegistry ==
    ASSUME RegistryInv, NEW k \in Keys, k \notin Listed, Wrap(k)
    PROVE  /\ listed' \in Seq(Keys) /\ Listed' = Listed \union {k}
           /\ attached' = attached \union {k} /\ attached' \subseteq Listed'
           /\ session' \subseteq Ids /\ info' \subseteq session'
           /\ WrappersAreDistinct'
  <1>1. listed \in Seq(Keys) /\ listed' = Append(listed, k)
    BY DEF RegistryInv, TypeOK, Wrap
  <1>2. /\ listed' \in Seq(Keys) /\ Listed' = Listed \union {k}
        /\ Distinct(listed')
    BY <1>1, AppendToList DEF RegistryInv, WrappersAreDistinct, Distinct, Listed
  <1> QED
    BY <1>2, IdOfAssumption
    DEF RegistryInv, TypeOK, Wrap, HandlesAreListed, WrappersAreDistinct, Distinct

\* One wrapper less: the list and the handles after RemoveTorrent(k).
LEMMA RemoveRegistry ==
    ASSUME RegistryInv, NEW k \in Keys, RemoveTorrent(k)
    PROVE  /\ RegistryInv' /\ Listed' = Listed \ {k}
           /\ SavesKnowTheirTorrent => SavesKnowTheirTorrent'
           /\ PlainKeepsHandle => PlainKeepsHandle'
  <1>1. /\ listed \in Seq(Keys) /\ k \in ToSet(listed) /\ Distinct(listed)
        /\ listed' = RemoveFirst(listed, k)
    BY DEF RegistryInv, TypeOK, RemoveTorrent, Listed, WrappersAreDistinct, Distinct
  <1>2. /\ listed' \in Seq(Keys) /\ Listed' = Listed \ {k}
        /\ Distinct(listed')
    BY <1>1, RemoveFromList DEF Listed
  <1>3. /\ saves' \in Seq(Save)
        /\ SavesKnowTheirTorrent => SavesKnowTheirTorrent'
    <2>1. CASE k \in attached
      BY <2>1, ExpiredSaves DEF RemoveTorrent, RegistryInv
    <2>2. CASE k \notin attached
      BY <2>2 DEF RemoveTorrent, RegistryInv, TypeOK, SavesKnowTheirTorrent
    <2> QED
      BY <2>1, <2>2
  <1>4. /\ session' \subseteq Ids /\ info' \subseteq session'
        /\ attached' \subseteq attached \ {k}
        /\ \A s \in attached : IdOf[s] # IdOf[k] => s \in attached'
    BY DEF RemoveTorrent, RegistryInv, TypeOK
  <1>5. /\ disk' \in [Keys -> Keys \union {Absent, Torn}]
        /\ waiting' \subseteq Listed'
        /\ gone' \subseteq Ids
    BY <1>2, IdOfAssumption DEF RemoveTorrent, FileRemoved, RegistryInv, TypeOK
  <1>6. TypeOK'
    <2>1. UNCHANGED <<running, directory, writing, loading, call, loaded>>
      BY DEF RemoveTorrent, loader
    <2> QED
      BY <1>2, <1>3, <1>4, <1>5, <2>1 DEF RegistryInv, TypeOK
  <1>7. PlainKeepsHandle => PlainKeepsHandle'
    BY <1>2, <1>4 DEF PlainKeepsHandle, Plain, RegistryInv, TypeOK, HandlesAreListed
  <1> QED
    BY <1>2, <1>3, <1>4, <1>6, <1>7
    DEF RegistryInv, HandlesAreListed, WrappersAreDistinct, Distinct

\* A torrent that an alert finds is listed; a plain one is the alert's own.
LEMMA FoundIsListed ==
    ASSUME TypeOK, PlainKeepsHandle, NEW alert, NEW k \in Found(alert), k # None
    PROVE  k \in Listed /\ (Plain(k) => IdOf[k] = alert.id)
  BY DEF Found, FindByHandle, PlainKeepsHandle

----------------------------------------------------------------------------
(* One lemma for the actions that leave list, files and writes alone, and   *)
(* one for each other action.                                               *)

\* The parts of the invariant that say what files there are.
FilesInv ==
    /\ WritingIsOpen
    /\ DirectoryIsSet
    /\ PlainFilesMatch
    /\ GoneLeftNothing
    /\ FilesAreListed
    /\ FilesAreLoading

\* A step that changes neither list nor handles keeps what is said of them.
LEMMA KeepsRegistry ==
    ASSUME RegistryInv, PlainKeepsHandle, TypeOK', UNCHANGED <<listed, attached>>
    PROVE  RegistryInv' /\ PlainKeepsHandle' /\ Listed' = Listed
  BY DEF RegistryInv, PlainKeepsHandle, HandlesAreListed, WrappersAreDistinct, Listed

\* A step that changes neither list, files nor load keeps what is said of them.
LEMMA KeepsFiles ==
    ASSUME FilesInv, Listed' = Listed, UNCHANGED <<disk, writing, gone>>,
           directory => directory',
           loaded' = loaded, call' = call, loading' = loading
    PROVE  FilesInv'
  BY DEF FilesInv, WritingIsOpen, DirectoryIsSet, PlainFilesMatch,
         GoneLeftNothing, FilesAreListed, FilesAreLoading

\* Requests, answers, and alerts that write nothing.
LEMMA QueueKeepsInv ==
    ASSUME StoreInv,
           \/ Launch
           \/ SetResumeDataDirectory
           \/ SaveAllResumeData
           \/ \E id \in Ids : ReceiveMetadata(id)
           \/ \E result \in {"saved", "failed"} : Answer(result)
           \/ Drop
           \/ \E k \in Keys : Fail(k)
    PROVE  StoreInv'
  <1>1. TypeOK /\ RegistryInv /\ PlainKeepsHandle /\ SavesKnowTheirTorrent /\ FilesInv
    BY DEF StoreInv, RegistryInv, FilesInv
  <1>2. SUFFICES /\ TypeOK' /\ SavesKnowTheirTorrent'
                 /\ UNCHANGED <<listed, attached, disk, writing, gone, loader>>
                 /\ directory => directory'
    BY <1>1, KeepsRegistry, KeepsFiles DEF StoreInv, FilesInv, loader
  <1>3. CASE Launch
    BY <1>1, <1>3
    DEF Launch, client, loader, observed, TypeOK, Listed, SavesKnowTheirTorrent
  <1>4. CASE SetResumeDataDirectory
    BY <1>1, <1>4
    DEF SetResumeDataDirectory, loader, observed, TypeOK, Listed,
        SavesKnowTheirTorrent
  <1>5. CASE SaveAllResumeData
    <2>1. saves' \in Seq(Save) /\ SavesKnowTheirTorrent'
      BY <1>1, <1>5, Requested
    <2> QED
      BY <1>1, <1>5, <2>1
      DEF SaveAllResumeData, client, loader, TypeOK, Listed, RegistryInv,
          HandlesAreListed
  <1>6. ASSUME NEW id \in Ids, ReceiveMetadata(id)
        PROVE  /\ TypeOK' /\ SavesKnowTheirTorrent'
               /\ UNCHANGED <<listed, attached, disk, writing, gone, loader>>
               /\ directory => directory'
    BY <1>1, <1>6
    DEF ReceiveMetadata, loader, observed, TypeOK, Listed, SavesKnowTheirTorrent
  <1>7. ASSUME NEW result \in {"saved", "failed"}, Answer(result)
        PROVE  /\ TypeOK' /\ SavesKnowTheirTorrent'
               /\ UNCHANGED <<listed, attached, disk, writing, gone, loader>>
               /\ directory => directory'
    <2>1. saves' \in Seq(Save) /\ SavesKnowTheirTorrent'
      BY <1>1, <1>7, AnswerGiven
    <2>2. UNCHANGED <<running, client, disk, writing, loader, observed>>
      BY <1>7 DEF Answer
    <2> QED
      BY <1>1, <2>1, <2>2 DEF client, loader, observed, TypeOK, Listed
  <1>8. CASE Drop
    <2>1. saves' \in Seq(Save) /\ SavesKnowTheirTorrent'
      BY <1>1, <1>8, SavesAfterAlert DEF Drop
    <2> QED
      BY <1>1, <1>8, <2>1 DEF Drop, client, loader, observed, TypeOK, Listed
  <1>9. ASSUME NEW k \in Keys, Fail(k)
        PROVE  /\ TypeOK' /\ SavesKnowTheirTorrent'
               /\ UNCHANGED <<listed, attached, disk, writing, gone, loader>>
               /\ directory => directory'
    <2>1. saves' \in Seq(Save) /\ SavesKnowTheirTorrent'
      BY <1>1, <1>9, SavesAfterAlert DEF Fail
    <2> QED
      BY <1>1, <1>9, <2>1 DEF Fail, Answered, client, loader, TypeOK, Listed
  <1> QED
    BY <1>3, <1>4, <1>5, <1>6, <1>7, <1>8, <1>9

\* A run that ends, also in the middle of a write, leaves files the next can read.
LEMMA EndOfRunKeepsInv ==
    ASSUME StoreInv, Exit \/ Crash
    PROVE  StoreInv'
  <1>1. Fresh /\ running' \in BOOLEAN /\ UNCHANGED <<disk, gone>>
    BY DEF Exit, Crash
  <1>2. RegistryInv' /\ Listed' = {} /\ DOMAIN saves' = {}
    BY <1>1, FreshRegistry DEF StoreInv, RegistryInv
  <1> QED
    BY <1>1, <1>2
    DEF Fresh, StoreInv, PlainKeepsHandle, SavesKnowTheirTorrent,
        WritingIsOpen, DirectoryIsSet, PlainFilesMatch, GoneLeftNothing,
        FilesAreListed, FilesAreLoading

\* What is added is no longer gone.
LEMMA AddTorrentKeepsInv ==
    ASSUME StoreInv, NEW k \in Keys, AddTorrent(k)
    PROVE  StoreInv'
  <1>1. RegistryInv /\ TypeOK
    BY DEF StoreInv, RegistryInv
  <1>2. /\ k \notin Listed /\ Wrap(k) /\ gone' = gone \ {IdOf[k]}
        /\ UNCHANGED <<running, directory, saves, disk, writing, loading, call,
                       loaded, waiting>>
    BY DEF AddTorrent, loader
  <1>3. /\ listed' \in Seq(Keys) /\ Listed' = Listed \union {k}
        /\ attached' = attached \union {k} /\ attached' \subseteq Listed'
        /\ session' \subseteq Ids /\ info' \subseteq session'
        /\ WrappersAreDistinct'
    BY <1>1, <1>2, WrapRegistry
  <1>4. RegistryInv'
    BY <1>1, <1>2, <1>3 DEF RegistryInv, TypeOK, HandlesAreListed
  <1> QED
    BY <1>2, <1>3, <1>4
    DEF StoreInv, PlainKeepsHandle, SavesKnowTheirTorrent, WritingIsOpen,
        DirectoryIsSet, PlainFilesMatch, GoneLeftNothing, FilesAreListed,
        FilesAreLoading

\* What is removed leaves no file under its hash.
LEMMA RemoveTorrentKeepsInv ==
    ASSUME StoreInv, NEW k \in Keys, RemoveTorrent(k)
    PROVE  StoreInv'
  <1>1. /\ RegistryInv' /\ Listed' = Listed \ {k}
        /\ SavesKnowTheirTorrent' /\ PlainKeepsHandle'
    BY RemoveRegistry DEF StoreInv
  <1>2. /\ writing = None /\ disk' = FileRemoved(k)
        /\ gone' = IF directory /\ LastTrace(k) THEN gone \union {IdOf[k]} ELSE gone
        /\ UNCHANGED <<directory, writing, loading, call, loaded>>
    BY DEF RemoveTorrent, Calling, loader
  <1>3. disk \in [Keys -> Keys \union {Absent, Torn}] /\ Absent \notin Keys
    BY NoneAssumption DEF StoreInv, RegistryInv, TypeOK
  <1>4. \A j \in Keys : disk'[j] \in Keys => disk'[j] = disk[j]
    BY <1>2, <1>3 DEF FileRemoved
  <1>5. directory => disk'[k] = Absent
    BY <1>2, <1>3 DEF FileRemoved
  <1>6. GoneLeftNothing'
    <2> SUFFICES ASSUME NEW m \in Keys, IdOf[m] \in gone'
                 PROVE  m \notin Listed' /\ \A j \in Keys : disk'[j] # m
      BY <1>2 DEF GoneLeftNothing
    <2>1. CASE IdOf[m] \in gone
      BY <1>1, <1>4, <2>1 DEF StoreInv, GoneLeftNothing
    <2>2. CASE IdOf[m] \notin gone
      <3>1. directory /\ LastTrace(k) /\ IdOf[m] = IdOf[k]
        BY <1>2, <2>2
      <3>2. m \notin Listed'
        BY <1>1, <3>1 DEF LastTrace
      <3>3. ASSUME NEW j \in Keys PROVE disk'[j] # m
        <4>1. CASE j = k
          BY <1>3, <1>5, <3>1, <4>1
        <4>2. CASE j # k
          BY <1>4, <3>1, <4>2 DEF LastTrace
        <4> QED
          BY <4>1, <4>2
      <3> QED
        BY <3>2, <3>3
    <2> QED
      BY <2>1, <2>2
  <1>7. PlainFilesMatch'
    BY <1>2, <1>4 DEF StoreInv, PlainFilesMatch
  <1>8. FilesAreListed' /\ FilesAreLoading'
    <2>1. loaded \/ call # "idle" => disk'[k] \notin Keys
      BY <1>3, <1>5 DEF StoreInv, DirectoryIsSet
    <2> QED
      BY <1>1, <1>2, <1>4, <2>1 DEF StoreInv, FilesAreListed, FilesAreLoading
  <1> QED
    BY <1>1, <1>2, <1>6, <1>7, <1>8
    DEF StoreInv, WritingIsOpen, DirectoryIsSet

\* A file that is opened is torn, and its torrent is listed.
LEMMA OpenKeepsInv ==
    ASSUME StoreInv, NEW k \in Keys, Open(k)
    PROVE  StoreInv'
  <1> DEFINE alert == Head(saves)
  <1>1. TypeOK /\ RegistryInv /\ PlainKeepsHandle /\ SavesKnowTheirTorrent
    BY DEF StoreInv, RegistryInv
  <1>2. /\ saves' \in Seq(Save) /\ SavesKnowTheirTorrent'
        /\ alert.best \in Keys /\ IdOf[alert.best] = alert.id
    BY <1>1, SavesAfterAlert DEF Open, SaveAlert, SavesKnowTheirTorrent
  <1>3. k \in Listed /\ (Plain(k) => IdOf[k] = alert.id)
    BY <1>1, FoundIsListed, NoneAssumption DEF Open
  <1> HIDE DEF alert
  <1>4. /\ disk' = [disk EXCEPT ![k] = Torn]
        /\ writing' = [file |-> k, best |-> alert.best]
        /\ gone' = IF alert.id = IdOf[k] THEN gone ELSE gone \ {alert.id}
        /\ UNCHANGED <<running, client, loader, waiting>>
    BY DEF Open, alert
  <1>5. /\ disk \in [Keys -> Keys \union {Absent, Torn}] /\ Torn \notin Keys
        /\ \A j \in Keys : disk'[j] \in Keys => disk'[j] = disk[j]
    BY <1>1, <1>4, NoneAssumption DEF TypeOK
  <1>6. TypeOK'
    BY <1>1, <1>2, <1>4 DEF TypeOK, client, loader, Listed
  <1>7. RegistryInv' /\ PlainKeepsHandle' /\ Listed' = Listed
    BY <1>1, <1>4, <1>6, KeepsRegistry DEF client
  <1>8. WritingIsOpen'
    <2>1. directory' /\ disk'[k] = Torn
      BY <1>4, <1>5 DEF Open, client
    <2> QED
      BY <1>3, <1>4, <1>7, <2>1 DEF WritingIsOpen
  <1>9. PlainFilesMatch'
    BY <1>2, <1>3, <1>4, <1>5 DEF StoreInv, PlainFilesMatch, Plain
  <1>10. GoneLeftNothing'
    <2>1. IdOf[alert.best] \notin gone'
      BY <1>2, <1>3, <1>4 DEF StoreInv, GoneLeftNothing
    <2> QED
      BY <1>4, <1>5, <1>7, <2>1 DEF StoreInv, GoneLeftNothing
  <1>11. FilesAreListed' /\ FilesAreLoading' /\ DirectoryIsSet'
    BY <1>4, <1>5, <1>7
    DEF StoreInv, FilesAreListed, FilesAreLoading, DirectoryIsSet, client, loader
  <1> QED
    BY <1>2, <1>7, <1>8, <1>9, <1>10, <1>11 DEF StoreInv

\* A file that is closed holds the alert's data or is torn.
LEMMA WriteKeepsInv ==
    ASSUME StoreInv, NEW content, Write(content)
    PROVE  StoreInv'
  <1>1. TypeOK /\ RegistryInv /\ PlainKeepsHandle
    BY DEF StoreInv, RegistryInv
  <1>2. /\ writing \in [file : Keys, best : Keys]
        /\ content \in {writing.best, Torn}
        /\ disk' = [disk EXCEPT ![writing.file] = content]
        /\ writing' = None
        /\ waiting' = waiting \ {writing.file}
        /\ UNCHANGED <<running, client, saves, loader, gone>>
    BY <1>1 DEF Write, TypeOK
  <1>3. /\ disk \in [Keys -> Keys \union {Absent, Torn}] /\ Torn \notin Keys
        /\ writing.file \in Keys /\ writing.best \in Keys /\ writing # None
        /\ writing.file \in Listed
    BY <1>1, <1>2, NoneAssumption DEF TypeOK, StoreInv, WritingIsOpen, Write
  <1>4. \A j \in Keys : disk'[j] \in Keys =>
            \/ disk'[j] = disk[j]
            \/ j = writing.file /\ disk'[j] = writing.best
    BY <1>2, <1>3
  <1>5. TypeOK'
    BY <1>1, <1>2, <1>3 DEF TypeOK, client, loader, Listed
  <1>6. RegistryInv' /\ PlainKeepsHandle' /\ Listed' = Listed
    BY <1>1, <1>2, <1>5, KeepsRegistry DEF client
  <1>7. SavesKnowTheirTorrent' /\ WritingIsOpen' /\ DirectoryIsSet'
    BY <1>2
    DEF StoreInv, SavesKnowTheirTorrent, WritingIsOpen, DirectoryIsSet, client,
        loader
  <1>8. PlainFilesMatch'
    BY <1>2, <1>3, <1>4 DEF StoreInv, PlainFilesMatch
  <1>9. GoneLeftNothing'
    <2> SUFFICES ASSUME NEW m \in Keys, IdOf[m] \in gone
                 PROVE  m \notin Listed' /\ \A j \in Keys : disk'[j] # m
      BY <1>2 DEF GoneLeftNothing
    <2>1. m \notin Listed /\ writing.best # m /\ \A j \in Keys : disk[j] # m
      BY <1>3 DEF StoreInv, GoneLeftNothing
    <2> QED
      BY <1>4, <1>6, <2>1
  <1>10. FilesAreListed' /\ FilesAreLoading'
    BY <1>2, <1>3, <1>4, <1>6
    DEF StoreInv, FilesAreListed, FilesAreLoading, loader
  <1> QED
    BY <1>6, <1>7, <1>8, <1>9, <1>10 DEF StoreInv

\* loadResumeData, but for the files it loads.
LEMMA LoopKeepsInv ==
    ASSUME StoreInv, BeginLoad \/ EndLoad \/ \E k \in Keys : SkipFile(k)
    PROVE  StoreInv'
  <1>1. TypeOK /\ RegistryInv /\ PlainKeepsHandle
    BY DEF StoreInv, RegistryInv
  <1>2. /\ UNCHANGED <<running, client, saves, disk, writing, observed>>
        /\ loading' \subseteq Keys /\ call' \in {"idle", "load"}
        /\ loaded' \in BOOLEAN
    BY <1>1 DEF BeginLoad, EndLoad, SkipFile, TypeOK
  <1>3. TypeOK'
    BY <1>1, <1>2 DEF TypeOK, client, observed, Listed
  <1>4. RegistryInv' /\ PlainKeepsHandle' /\ Listed' = Listed
    BY <1>1, <1>2, <1>3, KeepsRegistry DEF client
  <1>5. /\ SavesKnowTheirTorrent' /\ WritingIsOpen' /\ PlainFilesMatch'
        /\ GoneLeftNothing'
    BY <1>2, <1>4
    DEF StoreInv, SavesKnowTheirTorrent, WritingIsOpen, PlainFilesMatch,
        GoneLeftNothing, client, observed
  <1>6. DirectoryIsSet' /\ FilesAreListed' /\ FilesAreLoading'
    <2>1. CASE BeginLoad
      <3>1. \A k \in Keys : disk[k] \in Keys => k \in loading'
        BY <2>1, NoneAssumption DEF BeginLoad
      <3>2. directory /\ loaded' = loaded
        BY <2>1 DEF BeginLoad
      <3> QED
        BY <1>2, <1>4, <3>1, <3>2
        DEF StoreInv, DirectoryIsSet, FilesAreListed, FilesAreLoading, client
    <2>2. CASE EndLoad
      <3>1. call # "idle" /\ loading = {} /\ call' = "idle"
        BY <2>2 DEF EndLoad, Loading, AtLast
      <3> QED
        BY <1>2, <1>4, <3>1
        DEF StoreInv, DirectoryIsSet, FilesAreListed, FilesAreLoading, client
    <2>3. ASSUME NEW k \in Keys, SkipFile(k)
          PROVE  DirectoryIsSet' /\ FilesAreListed' /\ FilesAreLoading'
      <3>1. /\ call # "idle" /\ loading' = loading \ {k} /\ loaded' = loaded
            /\ disk[k] \notin Keys \/ disk[k] \in Listed
        BY <2>3 DEF SkipFile, Loading, Readable, Duplicate
      <3>2. Plain(k) /\ disk[k] \in Keys => k \in Listed
        BY <3>1 DEF StoreInv, PlainFilesMatch
      <3> QED
        BY <1>2, <1>4, <3>1, <3>2
        DEF StoreInv, DirectoryIsSet, FilesAreListed, FilesAreLoading, client
    <2> QED
      BY <2>1, <2>2, <2>3
  <1> QED
    BY <1>4, <1>5, <1>6 DEF StoreInv

\* The torrent of a file that is loaded is listed, and was not gone.
LEMMA LoadFileKeepsInv ==
    ASSUME StoreInv, NEW k \in Keys, LoadFile(k)
    PROVE  StoreInv'
  <1> DEFINE m == disk[k]
  <1>1. RegistryInv /\ TypeOK
    BY DEF StoreInv, RegistryInv
  <1>2. /\ m \in Keys /\ m \notin Listed /\ Wrap(m)
        /\ call # "idle" /\ call' = "slot" /\ loading' = loading \ {k}
        /\ UNCHANGED <<running, directory, saves, disk, writing, loaded, waiting,
                       gone>>
    BY DEF LoadFile, Loading, Readable, Duplicate, observed
  <1>3. IdOf[m] \notin gone /\ (Plain(k) => m = k)
    BY <1>2 DEF StoreInv, GoneLeftNothing, PlainFilesMatch
  <1> HIDE DEF m
  <1>4. /\ listed' \in Seq(Keys) /\ Listed' = Listed \union {m}
        /\ attached' = attached \union {m} /\ attached' \subseteq Listed'
        /\ session' \subseteq Ids /\ info' \subseteq session'
        /\ WrappersAreDistinct'
    BY <1>1, <1>2, WrapRegistry
  <1>5. RegistryInv'
    BY <1>1, <1>2, <1>4 DEF RegistryInv, TypeOK, HandlesAreListed
  <1>6. GoneLeftNothing'
    BY <1>2, <1>3, <1>4 DEF StoreInv, GoneLeftNothing
  <1>7. FilesAreListed' /\ FilesAreLoading'
    BY <1>2, <1>3, <1>4 DEF StoreInv, FilesAreListed, FilesAreLoading
  <1> QED
    BY <1>2, <1>4, <1>5, <1>6, <1>7
    DEF StoreInv, PlainKeepsHandle, SavesKnowTheirTorrent, WritingIsOpen,
        DirectoryIsSet, PlainFilesMatch

----------------------------------------------------------------------------
(* Every step is one of the abstract store's, or does not touch the plain   *)
(* torrents.                                                                *)

Active == Listed \intersect PlainKeys

Files == [k \in PlainKeys |-> Content(k, disk[k])]

Stored == <<directory, loaded, Active, Files>>

\* What the content of a file is called.
LEMMA Contents ==
    ASSUME NEW k \in Keys
    PROVE  /\ Content(k, Absent) = "none"
           /\ Content(k, Torn) = "torn"
           /\ Content(k, k) = "whole"
           /\ \A found : Content(k, found) = "whole" => found = k
  <1>1. k # Absent /\ k # Torn /\ Absent # Torn
    BY NoneAssumption DEF Absent, Torn
  <1>2. ASSUME NEW found, Content(k, found) = "whole" PROVE found = k
    <2>1. CASE found = Absent
      BY <1>1, <1>2, <2>1 DEF Content
    <2>2. CASE found = Torn
      BY <1>1, <1>2, <2>2 DEF Content
    <2>3. CASE found # Absent /\ found # Torn /\ found # k
      BY <1>2, <2>3 DEF Content
    <2> QED
      BY <2>1, <2>2, <2>3
  <1>3. Content(k, Absent) = "none"
    BY <1>1 DEF Content
  <1>4. Content(k, Torn) = "torn"
    BY <1>1 DEF Content
  <1>5. Content(k, k) = "whole"
    BY <1>1 DEF Content
  <1> QED
    BY <1>2, <1>3, <1>4, <1>5

LEMMA InitRefines == Init => Abstract!StoreInit
  <1> SUFFICES ASSUME Init PROVE Abstract!StoreInit
    OBVIOUS
  <1>1. Listed = {}
    BY EmptySeq DEF Init, Listed, ToSet
  <1>2. \A k \in PlainKeys : Content(k, disk[k]) = "none"
    BY Contents DEF Init, PlainKeys
  <1> QED
    BY <1>1, <1>2 DEF Init, Abstract!StoreInit

\* Requests, answers, and what does not touch list and files.
LEMMA QuietRefines ==
    ASSUME UNCHANGED <<directory, loaded, listed, disk>> PROVE UNCHANGED Stored
  <1>1. Active' = Active
    BY DEF Active, Listed
  <1>2. Files' = Files
    BY DEF Files
  <1> QED
    BY <1>1, <1>2 DEF Stored

LEMMA SetDirectoryRefines ==
    ASSUME SetResumeDataDirectory PROVE Abstract!Keep
  <1>1. directory' = TRUE /\ UNCHANGED <<loaded, listed, disk>>
    BY DEF SetResumeDataDirectory, loader
  <1>2. Active' = Active
    BY <1>1 DEF Active, Listed
  <1>3. Files' = Files
    BY <1>1 DEF Files
  <1> QED
    BY <1>1, <1>2, <1>3 DEF Abstract!Keep, Active, Files

LEMMA EndOfRunRefines ==
    ASSUME Exit \/ Crash PROVE Abstract!EndRun
  <1>1. directory' = FALSE /\ loaded' = FALSE /\ listed' = <<>> /\ disk' = disk
    BY DEF Exit, Crash, Fresh
  <1>2. Active' = {}
    BY <1>1, EmptySeq DEF Active, Listed, ToSet
  <1>3. Files' = Files
    BY <1>1 DEF Files
  <1> QED
    BY <1>1, <1>2, <1>3 DEF Abstract!EndRun, Active, Files

\* A new wrapper is one more active torrent, if it is of a plain one.
LEMMA WrapRefines ==
    ASSUME RegistryInv, NEW k \in Keys, k \notin Listed, Wrap(k),
           UNCHANGED <<directory, loaded, disk>>
    PROVE  [Abstract!StoreNext]_Stored
  <1>1. Listed' = Listed \union {k}
    BY WrapRegistry
  <1>2. Files' = Files
    BY DEF Files
  <1>3. CASE k \in PlainKeys
    <2>1. k \notin Active /\ Active' = Active \union {k}
      BY <1>1, <1>3 DEF Active
    <2>2. Abstract!Activate(k)
      BY <1>2, <2>1 DEF Abstract!Activate, Active, Files
    <2> QED
      BY <1>3, <2>2 DEF Abstract!StoreNext
  <1>4. CASE k \notin PlainKeys
    <2>1. Active' = Active
      BY <1>1, <1>4 DEF Active
    <2> QED
      BY <1>2, <2>1 DEF Stored
  <1> QED
    BY <1>3, <1>4

\* Removing a plain torrent deletes its file, and no other one.
LEMMA RemoveRefines ==
    ASSUME RegistryInv, NEW k \in Keys, RemoveTorrent(k)
    PROVE  [Abstract!StoreNext]_Stored
  <1>1. /\ k \in Listed /\ Listed' = Listed \ {k}
        /\ disk' = FileRemoved(k)
        /\ UNCHANGED <<directory, loaded>>
    BY RemoveRegistry DEF RemoveTorrent, loader
  <1>2. disk \in [Keys -> Keys \union {Absent, Torn}]
    BY DEF RegistryInv, TypeOK
  <1>3. \A j \in Keys : j # k \/ ~directory => disk'[j] = disk[j]
    BY <1>1, <1>2 DEF FileRemoved
  <1>4. directory => Content(k, disk[k])' = "none"
    BY <1>1, <1>2, Contents DEF FileRemoved
  <1>5. CASE k \in PlainKeys
    <2>1. k \in Active /\ Active' = Active \ {k}
      BY <1>1, <1>5 DEF Active
    <2>2. Files' = IF directory THEN [Files EXCEPT ![k] = "none"] ELSE Files
      BY <1>3, <1>4, <1>5 DEF Files, PlainKeys
    <2>3. Abstract!Discard(k)
      BY <1>1, <2>1, <2>2 DEF Abstract!Discard, Active, Files
    <2> QED
      BY <1>5, <2>3 DEF Abstract!StoreNext
  <1>6. CASE k \notin PlainKeys
    <2>1. Active' = Active
      BY <1>1, <1>6 DEF Active
    <2>2. Files' = Files
      BY <1>3, <1>6 DEF Files, PlainKeys
    <2> QED
      BY <1>1, <2>1, <2>2 DEF Stored
  <1> QED
    BY <1>5, <1>6

\* The file that is opened is of an active torrent, or of a hybrid.
LEMMA OpenRefines ==
    ASSUME StoreInv, NEW k \in Keys, Open(k)
    PROVE  [Abstract!StoreNext]_Stored
  <1>1. /\ directory /\ k \in Found(Head(saves))
        /\ disk' = [disk EXCEPT ![k] = Torn]
        /\ UNCHANGED <<directory, listed, loaded>>
    BY DEF Open, client, loader
  <1>2. k \in Listed /\ disk \in [Keys -> Keys \union {Absent, Torn}]
    BY <1>1, FoundIsListed, NoneAssumption DEF StoreInv, RegistryInv, TypeOK
  <1>3. Active' = Active
    BY <1>1 DEF Active, Listed
  <1>4. \A j \in Keys : j # k => disk'[j] = disk[j]
    BY <1>1, <1>2
  <1>5. CASE k \in PlainKeys
    <2>1. Content(k, disk[k])' = "torn"
      BY <1>1, <1>2, Contents
    <2>2. Files' = [Files EXCEPT ![k] = "torn"]
      BY <1>4, <1>5, <2>1 DEF Files, PlainKeys
    <2>3. Abstract!BeginSave(k)
      BY <1>1, <1>2, <1>3, <1>5, <2>2 DEF Abstract!BeginSave, Active, Files
    <2> QED
      BY <1>5, <2>3 DEF Abstract!StoreNext
  <1>6. CASE k \notin PlainKeys
    <2>1. Files' = Files
      BY <1>4, <1>6 DEF Files, PlainKeys
    <2> QED
      BY <1>1, <1>3, <2>1 DEF Stored
  <1> QED
    BY <1>5, <1>6

\* What was opened is still torn, still listed, and gets its own data.
LEMMA WriteRefines ==
    ASSUME StoreInv, NEW content, Write(content)
    PROVE  [Abstract!StoreNext]_Stored
  <1> DEFINE k == writing.file
  <1>1. /\ writing \in [file : Keys, best : Keys] /\ writing # None
        /\ content \in {writing.best, Torn}
        /\ disk' = [disk EXCEPT ![k] = content]
        /\ UNCHANGED <<directory, listed, loaded>>
    BY DEF Write, StoreInv, RegistryInv, TypeOK, client, loader
  <1>2. /\ k \in Keys /\ k \in Listed /\ directory /\ disk[k] = Torn
        /\ Plain(k) => writing.best = k
        /\ disk \in [Keys -> Keys \union {Absent, Torn}]
    BY <1>1 DEF StoreInv, RegistryInv, TypeOK, WritingIsOpen, PlainFilesMatch
  <1> HIDE DEF k
  <1>3. Active' = Active
    BY <1>1 DEF Active, Listed
  <1>4. \A j \in Keys : j # k => disk'[j] = disk[j]
    BY <1>1, <1>2
  <1>5. disk'[k] = content
    BY <1>1, <1>2
  <1>6. CASE k \in PlainKeys /\ content = writing.best
    <2>1. content = k
      BY <1>2, <1>6 DEF PlainKeys
    <2>2. Content(k, disk[k]) = "torn" /\ Content(k, disk'[k]) = "whole"
      BY <1>2, <1>5, <2>1, Contents
    <2>3. Files' = [Files EXCEPT ![k] = "whole"] /\ Files[k] = "torn"
      BY <1>4, <1>6, <2>2 DEF Files, PlainKeys
    <2>4. Abstract!EndSave(k)
      BY <1>1, <1>2, <1>3, <1>6, <2>3 DEF Abstract!EndSave, Active, Files
    <2> QED
      BY <1>6, <2>4 DEF Abstract!StoreNext
  <1>7. CASE k \notin PlainKeys \/ content = Torn
    <2>1. \A j \in PlainKeys : disk'[j] = disk[j]
      <3>1. content = Torn => disk'[k] = disk[k]
        BY <1>2, <1>5
      <3> QED
        BY <1>4, <1>7, <3>1 DEF PlainKeys
    <2>2. Files' = Files
      BY <2>1 DEF Files, PlainKeys
    <2> QED
      BY <1>1, <1>3, <2>2 DEF Stored
  <1> QED
    BY <1>1, <1>6, <1>7

\* When a load returns, nothing that is kept is left out.
LEMMA EndLoadRefines ==
    ASSUME StoreInv, EndLoad PROVE Abstract!Restore
  <1>1. /\ loading = {} /\ call # "idle" /\ loaded' = TRUE
        /\ UNCHANGED <<directory, listed, disk>>
    BY DEF EndLoad, Loading, AtLast, client
  <1>2. directory
    BY <1>1 DEF StoreInv, DirectoryIsSet
  <1>3. \A k \in PlainKeys : Files[k] = "whole" => k \in Active
    <2> SUFFICES ASSUME NEW k \in PlainKeys, Content(k, disk[k]) = "whole"
                 PROVE  k \in Listed
      BY DEF Files, Active
    <2>1. k \in Keys /\ Plain(k)
      BY DEF PlainKeys
    <2>2. disk[k] = k
      BY <2>1, Contents
    <2> QED
      BY <1>1, <2>1, <2>2 DEF StoreInv, FilesAreLoading
  <1>4. Active' = Active
    BY <1>1 DEF Active, Listed
  <1>5. Files' = Files
    BY <1>1 DEF Files
  <1> QED
    BY <1>1, <1>2, <1>3, <1>4, <1>5 DEF Abstract!Restore, Active, Files

LEMMA NextRefines ==
    StoreInv /\ [Next]_vars => [Abstract!StoreNext]_Stored
  <1> SUFFICES ASSUME StoreInv, [Next]_vars PROVE [Abstract!StoreNext]_Stored
    OBVIOUS
  <1> USE DEF StoreInv
  <1>1. CASE \/ Launch \/ SaveAllResumeData \/ BeginLoad \/ Drop
             \/ \E k \in Keys : Fail(k) \/ SkipFile(k)
             \/ Libtorrent
             \/ UNCHANGED vars
    <2>1. UNCHANGED <<directory, loaded, listed, disk>>
      BY <1>1
      DEF Launch, SaveAllResumeData, BeginLoad, Drop, Fail, SkipFile, Libtorrent,
          ReceiveMetadata, Answer, vars, client, loader
    <2> QED
      BY <2>1, QuietRefines
  <1>2. CASE SetResumeDataDirectory
    BY <1>2, SetDirectoryRefines DEF Abstract!StoreNext
  <1>3. CASE Exit \/ Crash
    BY <1>3, EndOfRunRefines DEF Abstract!StoreNext
  <1>4. ASSUME NEW k \in Keys, AddTorrent(k) PROVE [Abstract!StoreNext]_Stored
    BY <1>4, WrapRefines DEF AddTorrent, loader
  <1>5. ASSUME NEW k \in Keys, LoadFile(k) PROVE [Abstract!StoreNext]_Stored
    BY <1>5, WrapRefines DEF LoadFile, Readable, Duplicate
  <1>6. CASE \E k \in Keys : RemoveTorrent(k) \/ Open(k)
    BY <1>6, RemoveRefines, OpenRefines
  <1>7. CASE WriteStep
    BY <1>7, WriteRefines DEF WriteStep
  <1>8. CASE EndLoad
    BY <1>8, EndLoadRefines DEF Abstract!StoreNext
  <1> QED
    BY <1>1, <1>2, <1>3, <1>4, <1>5, <1>6, <1>7, <1>8
    DEF Next, Application, Poll, LoadStep

----------------------------------------------------------------------------
(* The theorems. *)

(* Registry, queue, write in progress and files agree at every step.        *)
THEOREM StoreInvariant == Spec => []StoreInv
  <1>1. Init => StoreInv
    BY InitStore
  <1>2. StoreInv /\ [Next]_vars => StoreInv'
    <2> SUFFICES ASSUME StoreInv, [Next]_vars PROVE StoreInv'
      OBVIOUS
    <2>1. CASE Launch \/ SetResumeDataDirectory \/ SaveAllResumeData \/ Libtorrent
      BY <2>1, QueueKeepsInv DEF Libtorrent
    <2>2. CASE Exit \/ Crash
      BY <2>2, EndOfRunKeepsInv
    <2>3. CASE \E k \in Keys : AddTorrent(k) \/ RemoveTorrent(k)
      BY <2>3, AddTorrentKeepsInv, RemoveTorrentKeepsInv
    <2>4. CASE Poll
      BY <2>4, QueueKeepsInv, OpenKeepsInv DEF Poll
    <2>5. CASE WriteStep
      BY <2>5, WriteKeepsInv DEF WriteStep
    <2>6. CASE BeginLoad \/ LoadStep
      BY <2>6, LoopKeepsInv, LoadFileKeepsInv DEF LoadStep
    <2>7. CASE UNCHANGED vars
      <3>1. UNCHANGED <<running, directory, listed, attached, session, info, saves,
                        disk, writing, loading, call, loaded, waiting, gone>>
        BY <2>7 DEF vars, client, loader, observed
      <3> QED
        BY <3>1
        DEF StoreInv, RegistryInv, TypeOK, HandlesAreListed, WrappersAreDistinct,
            PlainKeepsHandle, SavesKnowTheirTorrent, WritingIsOpen,
            DirectoryIsSet, PlainFilesMatch, GoneLeftNothing, FilesAreListed,
            FilesAreLoading, Listed
    <2> QED
      BY <2>1, <2>2, <2>3, <2>4, <2>5, <2>6, <2>7 DEF Next, Application
  <1> QED
    BY <1>1, <1>2, PTL DEF Spec

(* Every variable keeps its type, whatever runs, saves and crashes follow   *)
(* one another.                                                             *)
THEOREM TypeCorrect == Spec => []TypeOK
  <1>1. StoreInv => TypeOK
    BY DEF StoreInv, RegistryInv
  <1> QED
    BY <1>1, StoreInvariant, PTL

(* loadResumeData and addTorrent together never list one hash twice.        *)
THEOREM LoadsNoDuplicates == Spec => []WrappersAreDistinct
  <1>1. StoreInv => WrappersAreDistinct
    BY DEF StoreInv, RegistryInv
  <1> QED
    BY <1>1, StoreInvariant, PTL

(* A torrent removed with the last file that knew it does not come back,    *)
(* neither through an answer to an earlier save nor through a load.         *)
THEOREM RemovalIsFinal == Spec => []RemovedStaysRemoved
  <1>1. StoreInv => RemovedStaysRemoved
    <2>1. StoreInv => Listed \subseteq Keys
      BY LenProperties DEF StoreInv, RegistryInv, TypeOK, Listed, ToSet
    <2> QED
      BY <2>1 DEF StoreInv, GoneLeftNothing, RemovedStaysRemoved
  <1> QED
    BY <1>1, StoreInvariant, PTL

(* After a load every intact file of a plain torrent has its torrent in the *)
(* list.                                                                    *)
THEOREM LoadIsComplete == Spec => []FilesAreListed
  <1>1. StoreInv => FilesAreListed
    BY DEF StoreInv
  <1> QED
    BY <1>1, StoreInvariant, PTL

(* Registry, saves, loads and crashes together are a store in which each    *)
(* plain torrent has a file that only its own saves write.                  *)
THEOREM StoreIsImplemented == Spec => ImplementsStore
  <1>1. StoreInv /\ [Next]_vars => [Abstract!StoreNext]_Stored
    BY NextRefines
  <1> QED
    BY <1>1, InitRefines, StoreInvariant, PTL
    DEF Spec, ImplementsStore, Abstract!StoreSpec, Abstract!storeVars, Stored,
        Active, Files

=============================================================================
