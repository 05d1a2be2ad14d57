------------------------ MODULE TorrentCreatorProofs ------------------------
(* Proofs, for any nesting of create() in the slots of progressUpdated, any *)
(* configuration and any content of the source, that the file written is of *)
(* the call that wrote it, with the trackers in the tiers that were asked   *)
(* for, and that the fields tell what the call that ended last returned.    *)
EXTENDS TorrentCreator, Lists

\* A call holds the torrent that it was asked for.
Own(c) ==
    /\ DOMAIN c = {"slot", "output", "torrent", "left", "asked", "inner"}
    /\ c.output \in Outputs
    /\ c.torrent = TorrentOf(c.asked.config, c.asked.content)

\* So do all calls in progress.
CallsAreTheirOwn ==
    /\ depth \in 0..MaxDepth
    /\ DOMAIN call = 1..MaxDepth
    /\ \A i \in 1..depth : Own(call[i])

\* The fields as a call finds them when it has begun to hash.
ResetFor(c) ==
    [error |-> "none", size |-> 0, files |-> 0, pieces |-> c.asked.content.pieces]

\* Calls are within all but the last one, whose fields they are if none is
\* within it.
FieldsAreReset ==
    /\ \A i \in 1..(depth - 1) : call[i].inner
    /\ depth > 0 /\ ~call[depth].inner => fields = ResetFor(call[depth])

FieldsAreFields == DOMAIN fields = {"error", "size", "files", "pieces"}

CreatorInv ==
    /\ CallsAreTheirOwn
    /\ FieldsAreReset
    /\ FieldsAreFields
    /\ DOMAIN disk = Outputs
    /\ last.ok => last.output \in Outputs
    /\ ErrorTellsResult
    /\ FileIsOfItsCall

----------------------------------------------------------------------------
LEMMA InitCreatorInv == CreatorInit => CreatorInv
  <1> SUFFICES ASSUME CreatorInit PROVE CreatorInv
    OBVIOUS
  <1>1. CallsAreTheirOwn /\ FieldsAreReset
    BY MaxDepthAssumption DEF CreatorInit, CallsAreTheirOwn, FieldsAreReset
  <1>2. DOMAIN disk = Outputs /\ last.output = Nothing /\ ~last.ok /\ ~told
    BY DEF CreatorInit
  <1>3. FieldsAreFields
    BY DEF CreatorInit, NoFields, FieldsAreFields
  <1> QED
    BY <1>1, <1>2, <1>3 DEF CreatorInv, ErrorTellsResult, FileIsOfItsCall

\* What leaves the calls and their results alone.
LEMMA IdleKeeps ==
    ASSUME CreatorInv, UNCHANGED <<fields, depth, call, disk, last, told>>
    PROVE  CreatorInv'
  BY DEF CreatorInv, CallsAreTheirOwn, FieldsAreReset, FieldsAreFields, ErrorTellsResult,
         FileIsOfItsCall

\* The calls in progress, when another one begins within them.
LEMMA InterruptedAre ==
    ASSUME CreatorInv
    PROVE  /\ DOMAIN Interrupted = 1..MaxDepth
           /\ \A i \in 1..depth : Own(Interrupted[i]) /\ Interrupted[i].inner
  <1>1. /\ depth \in 0..MaxDepth /\ DOMAIN call = 1..MaxDepth
        /\ \A i \in 1..depth : Own(call[i])
        /\ \A i \in 1..(depth - 1) : call[i].inner
    BY DEF CreatorInv, CallsAreTheirOwn, FieldsAreReset
  <1>2. ASSUME NEW i \in 1..depth, i # depth
        PROVE  Own(Interrupted[i]) /\ Interrupted[i].inner
    <2>1. i \in 1..(depth - 1) /\ i \in 1..MaxDepth
      BY <1>1, <1>2, MaxDepthAssumption
    <2>2. Interrupted[i] = call[i]
      BY <1>2, <2>1 DEF Interrupted
    <2> QED
      BY <1>1, <2>1, <2>2
  <1>3. ASSUME NEW i \in 1..depth, i = depth
        PROVE  Own(Interrupted[i]) /\ Interrupted[i].inner
    <2>1. Interrupted[i] = [call[i] EXCEPT !.inner = TRUE] /\ Own(call[i])
      BY <1>1, <1>3, MaxDepthAssumption DEF Interrupted
    <2> QED
      BY <2>1 DEF Own
  <1> QED
    BY <1>2, <1>3 DEF Interrupted

\* A call that is refused ends where it begins.
LEMMA RefusedKeeps ==
    ASSUME CreatorInv, NEW output \in Outputs, CreateRefused(output)
    PROVE  CreatorInv'
  <1>1. /\ fields' = [error |-> "source", size |-> 0, files |-> 0, pieces |-> 0]
        /\ ~last'.ok
        /\ call' = Interrupted
        /\ UNCHANGED <<depth, disk>>
    BY DEF CreateRefused, Reset, NoFields, Ended
  <1>2. depth \in 0..MaxDepth
    BY DEF CreatorInv, CallsAreTheirOwn
  <1>3. CallsAreTheirOwn' /\ FieldsAreReset'
    BY <1>1, <1>2, InterruptedAre DEF CallsAreTheirOwn, FieldsAreReset
  <1> QED
    BY <1>1, <1>3 DEF CreatorInv, FieldsAreFields, ErrorTellsResult, FileIsOfItsCall

\* A call that begins puts its torrent together, and resets the fields.
LEMMA CreateKeeps ==
    ASSUME CreatorInv, NEW output \in Outputs, Create(output)
    PROVE  CreatorInv'
  <1> DEFINE begun == [slot |-> FALSE, output |-> output,
                       torrent |-> TorrentOf(config, source), left |-> source.pieces,
                       asked |-> [config |-> config, content |-> source],
                       inner |-> FALSE]
  <1>1. /\ depth < MaxDepth /\ depth' = depth + 1
        /\ fields' = [error |-> "none", size |-> 0, files |-> 0, pieces |-> source.pieces]
        /\ call' = [Interrupted EXCEPT ![depth + 1] = begun]
        /\ ~told'
        /\ UNCHANGED <<disk, last>>
    BY DEF Create, Reset, NoFields, Asked
  <1>2. depth \in 0..MaxDepth /\ DOMAIN Interrupted = 1..MaxDepth
    BY InterruptedAre DEF CreatorInv, CallsAreTheirOwn
  <1>3. /\ depth + 1 \in 1..MaxDepth /\ DOMAIN call' = 1..MaxDepth
        /\ call'[depth + 1] = begun
        /\ \A i \in 1..depth : call'[i] = Interrupted[i]
    BY <1>1, <1>2, MaxDepthAssumption
  <1>4. Own(begun) /\ fields' = ResetFor(begun)
    BY <1>1 DEF Own, ResetFor
  <1> HIDE DEF begun
  <1>5. \A i \in 1..(depth + 1) : Own(call'[i])
    <2>1. \A i \in 1..depth : Own(call'[i])
      BY <1>3, InterruptedAre
    <2> QED
      BY <1>2, <1>3, <1>4, <2>1
  <1>6. CallsAreTheirOwn'
    BY <1>1, <1>2, <1>3, <1>5, MaxDepthAssumption DEF CallsAreTheirOwn
  <1>7. FieldsAreReset'
    <2>1. \A i \in 1..depth : call'[i].inner
      BY <1>3, InterruptedAre
    <2>2. (depth + 1) - 1 = depth
      BY <1>2
    <2> QED
      BY <1>1, <1>3, <1>4, <2>1, <2>2 DEF FieldsAreReset
  <1>8. ErrorTellsResult' /\ FileIsOfItsCall'
    BY <1>1 DEF CreatorInv, ErrorTellsResult, FileIsOfItsCall
  <1> QED
    BY <1>1, <1>6, <1>7, <1>8 DEF CreatorInv, FieldsAreFields

LEMMA HashKeeps ==
    ASSUME CreatorInv, HashPiece PROVE CreatorInv'
  <1>1. /\ depth > 0
        /\ call' = [call EXCEPT ![depth] = [Top EXCEPT !.left = @ - 1, !.slot = TRUE]]
        /\ UNCHANGED <<fields, depth, disk, last, told>>
    BY DEF HashPiece, SetTop
  <1>2. depth \in 1..MaxDepth /\ DOMAIN call = 1..MaxDepth
    BY <1>1 DEF CreatorInv, CallsAreTheirOwn
  <1>3. Own(Top)
    BY <1>2, MaxDepthAssumption DEF CreatorInv, CallsAreTheirOwn, Top
  <1> DEFINE hashed == [Top EXCEPT !.left = @ - 1, !.slot = TRUE]
  <1>4. Own(hashed) /\ hashed.asked = Top.asked /\ hashed.inner = Top.inner
    <2>1. DOMAIN hashed = DOMAIN Top
      OBVIOUS
    <2>2. /\ hashed.output = Top.output /\ hashed.torrent = Top.torrent
          /\ hashed.asked = Top.asked /\ hashed.inner = Top.inner
      BY <1>3 DEF Own
    <2> HIDE DEF hashed
    <2> QED
      BY <1>3, <2>1, <2>2 DEF Own
  <1> HIDE DEF hashed
  <1>5. /\ DOMAIN call' = 1..MaxDepth /\ call'[depth] = hashed
        /\ \A i \in 1..MaxDepth : i # depth => call'[i] = call[i]
    BY <1>1, <1>2 DEF hashed
  <1>6. CallsAreTheirOwn'
    <2>1. Own(call'[depth])
      BY <1>4, <1>5
    <2>2. \A i \in 1..depth : Own(call'[i])
      BY <1>2, <1>5, <2>1, MaxDepthAssumption DEF CreatorInv, CallsAreTheirOwn
    <2> QED
      BY <1>1, <1>2, <1>5, <2>2 DEF CallsAreTheirOwn
  <1>7. FieldsAreReset'
    <2>1. /\ ResetFor(call'[depth]) = ResetFor(call[depth])
          /\ call'[depth].inner = call[depth].inner
      BY <1>4, <1>5 DEF Top, ResetFor
    <2>2. \A i \in 1..(depth - 1) : call'[i] = call[i]
      BY <1>2, <1>5, MaxDepthAssumption
    <2> QED
      BY <1>1, <2>1, <2>2 DEF CreatorInv, FieldsAreReset
  <1> QED
    BY <1>1, <1>6, <1>7 DEF CreatorInv, FieldsAreFields, ErrorTellsResult, FileIsOfItsCall

\* A call that ends leaves the calls around it as they were.
LEMMA ReturnKeepsCalls ==
    ASSUME CreatorInv, depth > 0, NEW ok \in BOOLEAN, NEW whole \in BOOLEAN,
           Return(ok, whole)
    PROVE  CallsAreTheirOwn' /\ FieldsAreReset'
  <1>1. depth' = depth - 1 /\ call' = [call EXCEPT ![depth] = NoCall]
    BY DEF Return, SetTop
  <1>2. /\ depth \in 1..MaxDepth /\ DOMAIN call = 1..MaxDepth
        /\ \A i \in 1..(depth - 1) : call[i].inner
    BY DEF CreatorInv, CallsAreTheirOwn, FieldsAreReset
  <1>3. DOMAIN call' = 1..MaxDepth /\ \A i \in 1..(depth - 1) : call'[i] = call[i]
    BY <1>1, <1>2
  <1>4. CallsAreTheirOwn'
    <2>1. depth' \in 0..MaxDepth
      BY <1>1, <1>2, MaxDepthAssumption
    <2>2. \A i \in 1..(depth - 1) : Own(call'[i])
      BY <1>2, <1>3 DEF CreatorInv, CallsAreTheirOwn
    <2> QED
      BY <1>1, <1>3, <2>1, <2>2 DEF CallsAreTheirOwn
  <1>5. FieldsAreReset'
    <2>1. \A i \in 1..(depth - 1) : call'[i].inner
      BY <1>2, <1>3
    <2>2. /\ \A i \in 1..(depth' - 1) : i \in 1..(depth - 1)
          /\ depth' > 0 => depth' \in 1..(depth - 1)
      BY <1>1, <1>2, MaxDepthAssumption
    <2> QED
      BY <2>1, <2>2 DEF FieldsAreReset
  <1> QED
    BY <1>4, <1>5

\* Where create() returns false after it has begun.
LEMMA FailureKeeps ==
    ASSUME CreatorInv, HashFails \/ CannotOpen PROVE CreatorInv'
  <1>1. /\ depth > 0 /\ Return(FALSE, FALSE)
        /\ fields' \in {[fields EXCEPT !.error = "hash"], [fields EXCEPT !.error = "open"]}
        /\ ~last'.ok /\ last'.inner = Top.inner
        /\ UNCHANGED disk
    BY DEF HashFails, CannotOpen, Return, Ended
  <1>2. CallsAreTheirOwn' /\ FieldsAreReset'
    BY <1>1, ReturnKeepsCalls
  <1>3. DOMAIN fields = {"error", "size", "files", "pieces"} => fields'.error # "none"
    BY <1>1
  <1>4. ErrorTellsResult'
    <2>1. ASSUME ~last'.inner PROVE fields'.size = 0 /\ fields'.files = 0
      <3>1. fields = ResetFor(Top)
        BY <1>1, <2>1 DEF CreatorInv, FieldsAreReset, Top
      <3> QED
        BY <1>1, <3>1 DEF ResetFor
    <2> QED
      BY <1>1, <1>3, <2>1 DEF ErrorTellsResult, CreatorInv, FieldsAreFields
  <1> QED
    BY <1>1, <1>2, <1>4 DEF CreatorInv, FieldsAreFields, FileIsOfItsCall

\* Where create() returns true.
LEMMA WriteKeeps ==
    ASSUME CreatorInv, NEW whole \in BOOLEAN, Write(whole) PROVE CreatorInv'
  <1>1. /\ depth > 0 /\ Return(TRUE, whole)
        /\ disk' = [disk EXCEPT ![Top.output] = IF whole THEN Generated(Top) ELSE Torn]
        /\ fields' = [fields EXCEPT !.size = Top.asked.content.size,
                                    !.files = Top.asked.content.files]
        /\ last' = [ok |-> TRUE, whole |-> whole, output |-> Top.output,
                    asked |-> Top.asked, inner |-> Top.inner]
    BY DEF Write, Return, Ended
  <1>2. CallsAreTheirOwn' /\ FieldsAreReset'
    BY <1>1, ReturnKeepsCalls
  <1>3. Own(Top)
    BY <1>1, MaxDepthAssumption DEF CreatorInv, CallsAreTheirOwn, Top
  <1> DEFINE out == Top.output
             cfg == Top.asked.config
             src == Top.asked.content
  <1>4. out \in Outputs /\ Top.torrent = TorrentOf(cfg, src)
    BY <1>3 DEF Own
  <1>5. DOMAIN disk' = Outputs /\ last'.output \in Outputs
    BY <1>1, <1>4 DEF CreatorInv
  <1>6. ErrorTellsResult'
    <2>1. fields'.size = src.size /\ fields'.files = src.files
      BY <1>1 DEF CreatorInv, FieldsAreFields
    <2>2. ASSUME ~Top.inner PROVE fields'.error = "none" /\ fields'.pieces = src.pieces
      <3>1. fields = ResetFor(Top)
        BY <1>1, <2>2 DEF CreatorInv, FieldsAreReset, Top
      <3> QED
        BY <1>1, <3>1 DEF ResetFor
    <2> QED
      BY <1>1, <2>1, <2>2 DEF ErrorTellsResult
  <1>7. FileIsOfItsCall'
    <2>1. whole => disk'[out] = TorrentOf(cfg, src)
      BY <1>1, <1>4 DEF Generated, CreatorInv
    <2> QED
      BY <1>1, <1>4, <2>1 DEF FileIsOfItsCall
  <1>8. FieldsAreFields'
    BY <1>1 DEF CreatorInv, FieldsAreFields
  <1> QED
    BY <1>2, <1>5, <1>6, <1>7, <1>8 DEF CreatorInv

LEMMA NextCreatorInv ==
    ASSUME CreatorInv, [CreatorNext]_creatorVars PROVE CreatorInv'
  <1>1. ASSUME NEW urls, SetTrackers(urls) \/ AddTrackerTier(urls) PROVE CreatorInv'
    BY <1>1, IdleKeeps DEF SetTrackers, AddTrackerTier, Configure
  <1>2. ASSUME NEW o, SetOptions(o) PROVE CreatorInv'
    BY <1>2, IdleKeeps DEF SetOptions, Configure
  <1>3. ASSUME NEW src, ChangeSource(src) PROVE CreatorInv'
    BY <1>3, IdleKeeps DEF ChangeSource
  <1>4. CASE Progress
    BY <1>4, HashKeeps, FailureKeeps, WriteKeeps DEF Progress
  <1>5. CASE UNCHANGED creatorVars
    BY <1>5, IdleKeeps DEF creatorVars
  <1> QED
    BY <1>1, <1>2, <1>3, <1>4, <1>5, RefusedKeeps, CreateKeeps DEF CreatorNext

----------------------------------------------------------------------------
(* For any nesting of calls, the fields that they share tell of the one     *)
(* that ended last: the error of a failure, the totals of a success, and    *)
(* nothing of earlier calls if none ran within it.                          *)
THEOREM ErrorIsOfLastCall == CreatorSpec => []ErrorTellsResult
  <1>1. CreatorInv => ErrorTellsResult
    BY DEF CreatorInv
  <1> QED
    BY <1>1, InitCreatorInv, NextCreatorInv, PTL DEF CreatorSpec

(* A create() that returned true, and whose data went to the disk, has      *)
(* written the torrent that it was asked for when it began, though the      *)
(* slots of progressUpdated change the configuration and the source, and    *)
(* create other files, or the same.                                         *)
THEOREM WrittenAsAsked == CreatorSpec => []FileIsOfItsCall
  <1>1. CreatorInv => FileIsOfItsCall
    BY DEF CreatorInv
  <1> QED
    BY <1>1, InitCreatorInv, NextCreatorInv, PTL DEF CreatorSpec

----------------------------------------------------------------------------
(* The types.                                                               *)

IsConfig(cfg) ==
    /\ cfg.trackers \in Seq(Urls)
    /\ cfg.tiers \in Seq(Seq(Urls))

CallTyped(c) ==
    /\ DOMAIN c = {"slot", "output", "torrent", "left", "asked", "inner"}
    /\ c.output \in Outputs
    /\ IsConfig(c.asked.config)
    /\ c.asked.content \in Sources

\* The calls in progress are typed, and there are no others.
CallsTyped ==
    /\ DOMAIN call = 1..MaxDepth
    /\ \A i \in 1..MaxDepth : IF i <= depth THEN CallTyped(call[i]) ELSE call[i] = NoCall

CreatorTypeInv ==
    /\ CreatorTypeOK
    /\ DOMAIN config = {"trackers", "tiers", "options"}
    /\ CallsTyped
    /\ last.ok => IsConfig(last.asked.config)

\* The content of a source has numbers.
LEMMA SourceHasNumbers ==
    ASSUME NEW src \in Sources
    PROVE  src.size \in Nat /\ src.files \in Nat /\ src.pieces \in Nat
  BY SourcesAssumption

\* A call in progress is not NoCall, which has no output.
LEMMA CallsAreCounted ==
    ASSUME CallsTyped PROVE \A i \in 1..MaxDepth : i <= depth <=> call[i] # NoCall
  BY NothingAssumption DEF CallsTyped, CallTyped, NoCall

LEMMA InitCreatorType == CreatorInit => CreatorTypeInv
  <1> SUFFICES ASSUME CreatorInit PROVE CreatorTypeInv
    OBVIOUS
  <1>1. config.trackers = <<>> /\ config.tiers = <<>> /\ config.options \in Options
    BY DEF CreatorInit
  <1>2. <<>> \in Seq(Urls) /\ <<>> \in Seq(Seq(Urls))
    OBVIOUS
  <1>3. CallsTyped
    BY MaxDepthAssumption DEF CreatorInit, CallsTyped
  <1>4. /\ source \in Sources /\ depth = 0
        /\ DOMAIN disk = Outputs /\ told \in BOOLEAN
        /\ ~last.ok
    BY DEF CreatorInit
  <1>5. fields \in [error : {"none", "source", "hash", "open"},
                   size : Nat, files : Nat, pieces : Nat]
    BY DEF CreatorInit, NoFields
  <1>6. DOMAIN config = {"trackers", "tiers", "options"}
    BY DEF CreatorInit
  <1> QED
    BY <1>1, <1>2, <1>3, <1>4, <1>5, <1>6, CallsAreCounted,
       MaxDepthAssumption DEF CreatorTypeInv, CreatorTypeOK

\* The setters.
LEMMA ConfigureTyped ==
    ASSUME CreatorTypeInv, NEW cfg, Configure(cfg), IsConfig(cfg), cfg.options \in Options,
           DOMAIN cfg = DOMAIN config
    PROVE  CreatorTypeInv'
  BY DEF CreatorTypeInv, CreatorTypeOK, CallsTyped, Configure, IsConfig

LEMMA SettersTyped ==
    ASSUME CreatorTypeInv, NEW urls \in UrlLists, SetTrackers(urls) \/ AddTrackerTier(urls)
    PROVE  CreatorTypeInv'
  <1>1. /\ urls \in Seq(Urls)
        /\ config.trackers \in Seq(Urls) /\ config.tiers \in Seq(Seq(Urls))
        /\ config.options \in Options
        /\ DOMAIN config = {"trackers", "tiers", "options"}
    BY UrlListsAssumption DEF CreatorTypeInv, CreatorTypeOK
  <1>2. CASE SetTrackers(urls)
    BY <1>1, <1>2, ConfigureTyped DEF SetTrackers, IsConfig
  <1>3. CASE AddTrackerTier(urls)
    <2> DEFINE more == Append(config.tiers, urls)
    <2>1. more \in Seq(Seq(Urls))
      BY <1>1, AppendProperties
    <2>2. Configure([config EXCEPT !.tiers = more])
      BY <1>3 DEF AddTrackerTier
    <2> HIDE DEF more
    <2> QED
      BY <1>1, <2>1, <2>2, ConfigureTyped DEF IsConfig
  <1> QED
    BY <1>2, <1>3

\* The calls in progress, when another one begins within them.
LEMMA InterruptedTyped ==
    ASSUME CallsTyped, depth \in 0..MaxDepth
    PROVE  /\ DOMAIN Interrupted = 1..MaxDepth
           /\ \A i \in 1..MaxDepth :
                 IF i <= depth THEN CallTyped(Interrupted[i]) ELSE Interrupted[i] = NoCall
  <1>1. ASSUME NEW i \in 1..MaxDepth, i # depth
        PROVE  IF i <= depth THEN CallTyped(Interrupted[i]) ELSE Interrupted[i] = NoCall
    BY <1>1 DEF CallsTyped, Interrupted
  <1>2. ASSUME NEW i \in 1..MaxDepth, i = depth PROVE CallTyped(Interrupted[i])
    <2>1. Interrupted[i] = [call[i] EXCEPT !.inner = TRUE] /\ CallTyped(call[i])
      BY <1>2 DEF CallsTyped, Interrupted
    <2> QED
      BY <2>1 DEF CallTyped
  <1> QED
    BY <1>1, <1>2 DEF Interrupted

\* create() begins, or is refused.
LEMMA CreateTyped ==
    ASSUME CreatorTypeInv, NEW output \in Outputs, CreateRefused(output) \/ Create(output)
    PROVE  CreatorTypeInv'
  <1>1. /\ depth \in 0..MaxDepth /\ depth < MaxDepth /\ source \in Sources
        /\ IsConfig(config) /\ CallsTyped
    BY DEF CreatorTypeInv, CreatorTypeOK, IsConfig, CreateRefused, Create
  <1>2. CASE CreateRefused(output)
    <2>1. /\ fields' = [error |-> "source", size |-> 0, files |-> 0, pieces |-> 0]
          /\ ~last'.ok /\ told' \in BOOLEAN /\ call' = Interrupted
          /\ UNCHANGED <<config, source, depth, disk>>
      BY <1>2 DEF CreateRefused, Reset, NoFields, Ended
    <2>2. CallsTyped'
      BY <1>1, <2>1, InterruptedTyped DEF CallsTyped
    <2>3. (\A i \in 1..MaxDepth : i <= depth <=> call[i] # NoCall)'
      BY <2>2, NothingAssumption DEF CallsTyped, CallTyped, NoCall
    <2> QED
      BY <2>1, <2>2, <2>3 DEF CreatorTypeInv, CreatorTypeOK
  <1>3. CASE Create(output)
    <2> DEFINE begun == [slot |-> FALSE, output |-> output,
                         torrent |-> TorrentOf(config, source), left |-> source.pieces,
                         asked |-> [config |-> config, content |-> source],
                         inner |-> FALSE]
    <2>1. /\ depth' = depth + 1 /\ told' \in BOOLEAN
          /\ fields' = [error |-> "none", size |-> 0, files |-> 0, pieces |-> source.pieces]
          /\ call' = [Interrupted EXCEPT ![depth + 1] = begun]
          /\ UNCHANGED <<config, source, disk, last>>
      BY <1>3 DEF Create, Reset, NoFields, Asked
    <2>2. CallTyped(begun)
      BY <1>1 DEF CallTyped, IsConfig
    <2> HIDE DEF begun
    <2>3. CallsTyped'
      BY <1>1, <2>1, <2>2, InterruptedTyped, MaxDepthAssumption DEF CallsTyped
    <2>4. depth' \in 0..MaxDepth
      BY <1>1, <2>1, MaxDepthAssumption
    <2>5. fields' \in [error : {"none", "source", "hash", "open"},
                      size : Nat, files : Nat, pieces : Nat]
      BY <1>1, <2>1, SourceHasNumbers
    <2>6. (\A i \in 1..MaxDepth : i <= depth <=> call[i] # NoCall)'
      BY <2>3, CallsAreCounted, NothingAssumption DEF CallsTyped, CallTyped, NoCall
    <2> QED
      BY <2>1, <2>3, <2>4, <2>5, <2>6 DEF CreatorTypeInv, CreatorTypeOK
  <1> QED
    BY <1>2, <1>3

\* The end of a call.
LEMMA ReturnTyped ==
    ASSUME CreatorTypeInv, depth > 0, NEW ok \in BOOLEAN, NEW whole \in BOOLEAN,
           Return(ok, whole),
           fields' \in [error : {"none", "source", "hash", "open"},
                       size : Nat, files : Nat, pieces : Nat],
           DOMAIN disk' = Outputs, UNCHANGED <<config, source>>
    PROVE  CreatorTypeInv'
  <1>1. /\ depth' = depth - 1 /\ call' = [call EXCEPT ![depth] = NoCall]
        /\ last'.ok => ok /\ last'.asked = Top.asked
        /\ told' \in BOOLEAN
    BY DEF Return, SetTop, Ended
  <1>2. depth \in 1..MaxDepth /\ CallsTyped
    BY MaxDepthAssumption DEF CreatorTypeInv, CreatorTypeOK
  <1>3. CallTyped(Top)
    BY <1>2, MaxDepthAssumption DEF CallsTyped, Top
  <1>4. CallsTyped'
    BY <1>1, <1>2, MaxDepthAssumption DEF CallsTyped
  <1>5. depth' \in 0..MaxDepth
    BY <1>1, <1>2, MaxDepthAssumption
  <1>6. (\A i \in 1..MaxDepth : i <= depth <=> call[i] # NoCall)'
    BY <1>4, NothingAssumption DEF CallsTyped, CallTyped, NoCall
  <1> QED
    BY <1>1, <1>3, <1>4, <1>5, <1>6 DEF CreatorTypeInv, CreatorTypeOK, CallTyped

LEMMA ProgressTyped ==
    ASSUME CreatorTypeInv, Progress PROVE CreatorTypeInv'
  <1>1. /\ CallsTyped /\ depth \in 0..MaxDepth
        /\ fields \in [error : {"none", "source", "hash", "open"},
                       size : Nat, files : Nat, pieces : Nat]
        /\ DOMAIN disk = Outputs
    BY DEF CreatorTypeInv, CreatorTypeOK
  <1>2. CASE HashPiece
    <2> DEFINE hashed == [Top EXCEPT !.left = @ - 1, !.slot = TRUE]
    <2>1. /\ depth \in 1..MaxDepth
          /\ call' = [call EXCEPT ![depth] = hashed]
          /\ UNCHANGED <<config, source, fields, depth, disk, last, told>>
      BY <1>1, <1>2, MaxDepthAssumption DEF HashPiece, SetTop
    <2>2. CallTyped(hashed)
      <3>1. CallTyped(Top)
        BY <1>1, <2>1, MaxDepthAssumption DEF CallsTyped, Top
      <3>2. DOMAIN hashed = DOMAIN Top
        OBVIOUS
      <3>3. hashed.output = Top.output /\ hashed.asked = Top.asked
        BY <3>1 DEF CallTyped
      <3> HIDE DEF hashed
      <3> QED
        BY <3>1, <3>2, <3>3 DEF CallTyped
    <2> HIDE DEF hashed
    <2>3. CallsTyped'
      BY <1>1, <2>1, <2>2, MaxDepthAssumption DEF CallsTyped
    <2>4. (\A i \in 1..MaxDepth : i <= depth <=> call[i] # NoCall)'
      BY <2>3, NothingAssumption DEF CallsTyped, CallTyped, NoCall
    <2> QED
      BY <2>1, <2>3, <2>4 DEF CreatorTypeInv, CreatorTypeOK
  <1>3. CASE HashFails \/ CannotOpen
    BY <1>1, <1>3, ReturnTyped DEF HashFails, CannotOpen
  <1>4. ASSUME NEW whole \in BOOLEAN, Write(whole) PROVE CreatorTypeInv'
    <2>1. /\ depth > 0 /\ Return(TRUE, whole) /\ UNCHANGED <<config, source>>
          /\ fields' = [fields EXCEPT !.size = Top.asked.content.size,
                                      !.files = Top.asked.content.files]
          /\ DOMAIN disk' = Outputs
      BY <1>1, <1>4 DEF Write
    <2>2. Top.asked.content \in Sources
      BY <1>1, <2>1, MaxDepthAssumption DEF CallsTyped, CallTyped, Top
    <2>3. fields' \in [error : {"none", "source", "hash", "open"},
                      size : Nat, files : Nat, pieces : Nat]
      BY <1>1, <2>1, <2>2, SourceHasNumbers
    <2> QED
      BY <2>1, <2>3, ReturnTyped
  <1> QED
    BY <1>2, <1>3, <1>4 DEF Progress

LEMMA NextCreatorType ==
    ASSUME CreatorTypeInv, [CreatorNext]_creatorVars PROVE CreatorTypeInv'
  <1>1. ASSUME NEW urls \in UrlLists, SetTrackers(urls) \/ AddTrackerTier(urls)
        PROVE  CreatorTypeInv'
    BY <1>1, SettersTyped
  <1>2. ASSUME NEW o \in Options, SetOptions(o) PROVE CreatorTypeInv'
    BY <1>2, ConfigureTyped DEF SetOptions, CreatorTypeInv, CreatorTypeOK, IsConfig
  <1>3. ASSUME NEW src \in Sources, ChangeSource(src) PROVE CreatorTypeInv'
    BY <1>3 DEF ChangeSource, CreatorTypeInv, CreatorTypeOK, CallsTyped
  <1>4. ASSUME NEW output \in Outputs, CreateRefused(output) \/ Create(output)
        PROVE  CreatorTypeInv'
    BY <1>4, CreateTyped
  <1>5. CASE UNCHANGED creatorVars
    BY <1>5 DEF creatorVars, CreatorTypeInv, CreatorTypeOK, CallsTyped
  <1> QED
    BY <1>1, <1>2, <1>3, <1>4, <1>5, ProgressTyped DEF CreatorNext

(* Every variable of the creator keeps its type.                            *)
THEOREM CreatorTypeCorrect == CreatorSpec => []CreatorTypeOK
  <1>1. CreatorTypeInv => CreatorTypeOK
    BY DEF CreatorTypeInv
  <1> QED
    BY <1>1, InitCreatorType, NextCreatorType, PTL DEF CreatorSpec

----------------------------------------------------------------------------
(* The tiers.                                                               *)

SinglesStart(trackers) == <<>>
SinglesStep(announce, i, trackers) == Tracked(announce, trackers[i], i - 1)
SinglesLoop == INSTANCE Recursion WITH Start <- SinglesStart, Step <- SinglesStep

GroupStart(over) == over.announce
GroupStep(announce, i, over) == Tracked(announce, over.urls[i], over.tier)
GroupLoop == INSTANCE Recursion WITH Start <- GroupStart, Step <- GroupStep

GroupsStart(cfg) == Singles(cfg.trackers)[Len(cfg.trackers)]
GroupsStep(announce, i, cfg) ==
    Group(announce, cfg.tiers[i], TierOfGroup(cfg.trackers, i))[Len(cfg.tiers[i])]
GroupsLoop == INSTANCE Recursion WITH Start <- GroupsStart, Step <- GroupsStep

\* The three loops obey their equations.
LEMMA SinglesDefined ==
    ASSUME NEW trackers \in Seq(Urls)
    PROVE  Singles(trackers) =
             [i \in 0..Len(trackers) |->
                IF i = 0 THEN <<>>
                ELSE Tracked(Singles(trackers)[i - 1], trackers[i], i - 1)]
  <1> DEFINE f == Singles(trackers)
  <1>1. f = SinglesLoop!Loop(Len(trackers), trackers)
    BY DEF Singles, SinglesLoop!Loop, SinglesLoop!Obeys, SinglesStart, SinglesStep
  <1>2. Len(trackers) \in Nat
    BY LenProperties
  <1> HIDE DEF f
  <1>3. f = [i \in 0..Len(trackers) |-> IF i = 0 THEN SinglesStart(trackers)
                                       ELSE SinglesStep(f[i - 1], i, trackers)]
    BY <1>1, <1>2, SinglesLoop!LoopObeys DEF SinglesLoop!Obeys
  <1> QED
    BY <1>3, Zenon DEF SinglesStart, SinglesStep, f

LEMMA GroupDefined ==
    ASSUME NEW announce, NEW urls \in Seq(Urls), NEW tier
    PROVE  Group(announce, urls, tier) =
             [i \in 0..Len(urls) |->
                IF i = 0 THEN announce
                ELSE Tracked(Group(announce, urls, tier)[i - 1], urls[i], tier)]
  <1> DEFINE f == Group(announce, urls, tier)
             over == [announce |-> announce, urls |-> urls, tier |-> tier]
  <1>1. f = GroupLoop!Loop(Len(urls), over)
    BY DEF Group, GroupLoop!Loop, GroupLoop!Obeys, GroupStart, GroupStep
  <1>2. Len(urls) \in Nat
    BY LenProperties
  <1> HIDE DEF f
  <1>3. f = [i \in 0..Len(urls) |-> IF i = 0 THEN GroupStart(over)
                                   ELSE GroupStep(f[i - 1], i, over)]
    BY <1>1, <1>2, GroupLoop!LoopObeys DEF GroupLoop!Obeys
  <1>4. f = [i \in 0..Len(urls) |-> IF i = 0 THEN announce
                                   ELSE Tracked(f[i - 1], urls[i], tier)]
    BY <1>3 DEF GroupStart, GroupStep
  <1> QED
    BY <1>4, Zenon DEF f

LEMMA GroupsDefined ==
    ASSUME NEW trackers, NEW tiers \in Seq(Seq(Urls))
    PROVE  Groups(trackers, tiers) =
             [i \in 0..Len(tiers) |->
                IF i = 0 THEN Singles(trackers)[Len(trackers)]
                ELSE Group(Groups(trackers, tiers)[i - 1], tiers[i],
                           TierOfGroup(trackers, i))[Len(tiers[i])]]
  <1> DEFINE f == Groups(trackers, tiers)
             cfg == [trackers |-> trackers, tiers |-> tiers]
  <1>1. f = GroupsLoop!Loop(Len(tiers), cfg)
    BY DEF Groups, GroupsLoop!Loop, GroupsLoop!Obeys, GroupsStart, GroupsStep
  <1>2. Len(tiers) \in Nat
    BY LenProperties
  <1> HIDE DEF f
  <1>3. f = [i \in 0..Len(tiers) |-> IF i = 0 THEN GroupsStart(cfg)
                                    ELSE GroupsStep(f[i - 1], i, cfg)]
    BY <1>1, <1>2, GroupsLoop!LoopObeys DEF GroupsLoop!Obeys
  <1>4. f = [i \in 0..Len(tiers) |->
                IF i = 0 THEN Singles(trackers)[Len(trackers)]
                ELSE Group(f[i - 1], tiers[i], TierOfGroup(trackers, i))[Len(tiers[i])]]
    BY <1>3 DEF GroupsStart, GroupsStep
  <1> QED
    BY <1>4, Zenon DEF f

----------------------------------------------------------------------------
\* The URLs of the first groups.
UpTo(cfg, k) == UNION {ToSet(TiersAsked(cfg)[i]) : i \in 1..k}

\* announce has the URLs of a set once each, in the tiers they belong to.
Announces(announce, cfg, urls) ==
    /\ announce \in Seq([url : Urls, tier : Nat])
    /\ {announce[i].url : i \in DOMAIN announce} = urls
    /\ \A i, j \in DOMAIN announce : announce[i].url = announce[j].url => i = j
    /\ \A i \in DOMAIN announce :
          /\ announce[i].tier \in Nat
          /\ Rank(cfg, announce[i].url) = announce[i].tier + 1

LEMMA TiersAskedAre ==
    ASSUME NEW cfg, IsConfig(cfg)
    PROVE  LET T == TiersAsked(cfg)
               n == Len(cfg.trackers)
           IN  /\ T \in Seq(Seq(Urls)) /\ DOMAIN T = 1..Len(T)
               /\ n \in Nat /\ Len(cfg.tiers) \in Nat
               /\ Len(T) = n + Len(cfg.tiers)
               /\ \A i \in 1..n : T[i] = <<cfg.trackers[i]>> /\ cfg.trackers[i] \in Urls
               /\ \A i \in 1..Len(cfg.tiers) : T[n + i] = cfg.tiers[i]
  <1> DEFINE singles == [i \in DOMAIN cfg.trackers |-> <<cfg.trackers[i]>>]
             T == TiersAsked(cfg)
  <1>1. /\ cfg.trackers \in Seq(Urls) /\ cfg.tiers \in Seq(Seq(Urls))
        /\ Len(cfg.trackers) \in Nat /\ Len(cfg.tiers) \in Nat
        /\ DOMAIN cfg.trackers = 1..Len(cfg.trackers)
        /\ \A i \in 1..Len(cfg.trackers) : cfg.trackers[i] \in Urls
    BY LenProperties DEF IsConfig
  <1>2. /\ singles \in Seq(Seq(Urls)) /\ Len(singles) = Len(cfg.trackers)
        /\ \A i \in 1..Len(cfg.trackers) : singles[i] = <<cfg.trackers[i]>>
    BY <1>1
  <1> HIDE DEF singles
  <1>3. /\ T \in Seq(Seq(Urls))
        /\ Len(T) = Len(singles) + Len(cfg.tiers)
        /\ \A i \in 1..(Len(singles) + Len(cfg.tiers)) :
              T[i] = IF i <= Len(singles) THEN singles[i] ELSE cfg.tiers[i - Len(singles)]
    BY <1>1, <1>2, ConcatProperties DEF TiersAsked, singles
  <1>4. DOMAIN T = 1..Len(T)
    BY <1>3, LenProperties
  <1> DEFINE n == Len(cfg.trackers)
             m == Len(cfg.tiers)
  <1>5. n \in Nat /\ m \in Nat /\ Len(singles) = n
    BY <1>1, <1>2
  <1> HIDE DEF T, n, m
  <1>6. Len(T) = n + m
    BY <1>3, <1>5 DEF m
  <1>7. ASSUME NEW i \in 1..n PROVE T[i] = <<cfg.trackers[i]>> /\ cfg.trackers[i] \in Urls
    <2>1. i <= Len(singles) /\ i \in 1..(Len(singles) + Len(cfg.tiers))
      BY <1>5 DEF m
    <2> QED
      BY <1>1, <1>2, <1>3, <2>1 DEF n
  <1>8. ASSUME NEW i \in 1..m PROVE T[n + i] = cfg.tiers[i]
    <2>1. /\ ~(n + i <= Len(singles)) /\ (n + i) - Len(singles) = i
          /\ n + i \in 1..(Len(singles) + Len(cfg.tiers))
      BY <1>5 DEF m
    <2> QED
      BY <1>3, <2>1
  <1> QED
    BY <1>3, <1>4, <1>5, <1>6, <1>7, <1>8 DEF T, n, m

\* A URL belongs to the first group that names it.
LEMMA RankIs ==
    ASSUME NEW cfg, IsConfig(cfg), NEW k \in DOMAIN TiersAsked(cfg),
           NEW url \in ToSet(TiersAsked(cfg)[k]), url \notin UpTo(cfg, k - 1)
    PROVE  Rank(cfg, url) = k
  <1> DEFINE naming == {i \in DOMAIN TiersAsked(cfg) : url \in ToSet(TiersAsked(cfg)[i])}
  <1>1. DOMAIN TiersAsked(cfg) = 1..Len(TiersAsked(cfg)) /\ Len(TiersAsked(cfg)) \in Nat
    BY TiersAskedAre, LenProperties
  <1>2. k \in naming /\ naming \subseteq Nat /\ \A i \in naming : k <= i
    BY <1>1 DEF UpTo
  <1> HIDE DEF naming
  <1>3. Min(naming) = k
    <2>1. \A x \in naming : (\A y \in naming : x <= y) => x = k
      BY <1>2
    <2> QED
      BY <1>2, <2>1 DEF Min
  <1> QED
    BY <1>3 DEF Rank, naming

\* add_tracker.
LEMMA TrackedAnnounces ==
    ASSUME NEW cfg, NEW urls, NEW announce, Announces(announce, cfg, urls),
           NEW url \in Urls, NEW tier \in Nat,
           url \notin urls => Rank(cfg, url) = tier + 1
    PROVE  Announces(Tracked(announce, url, tier), cfg, urls \union {url})
  <1>1. CASE \E i \in DOMAIN announce : announce[i].url = url
    BY <1>1 DEF Tracked, Announces
  <1>2. CASE ~\E i \in DOMAIN announce : announce[i].url = url
    <2> DEFINE e == [url |-> url, tier |-> tier]
               more == Append(announce, e)
    <2>1. /\ more \in Seq([url : Urls, tier : Nat])
          /\ Len(announce) \in Nat /\ DOMAIN announce = 1..Len(announce)
          /\ DOMAIN more = 1..(Len(announce) + 1)
          /\ \A i \in 1..Len(announce) : more[i] = announce[i]
          /\ more[Len(announce) + 1] = e
      BY AppendProperties, LenProperties DEF Announces
    <2>2. Tracked(announce, url, tier) = more
      BY <1>2 DEF Tracked
    <2>3. url \notin urls /\ e.url = url /\ e.tier = tier
      BY <1>2 DEF Announces
    <2> HIDE DEF more, e
    <2>4. {more[i].url : i \in DOMAIN more} = urls \union {url}
      <3>1. \A i \in DOMAIN more : more[i].url \in urls \union {url}
        BY <2>1, <2>3 DEF Announces
      <3>2. \A x \in urls : \E i \in DOMAIN more : more[i].url = x
        BY <2>1 DEF Announces
      <3>3. more[Len(announce) + 1].url = url /\ Len(announce) + 1 \in DOMAIN more
        BY <2>1, <2>3
      <3> QED
        BY <3>1, <3>2, <3>3
    <2>5. ASSUME NEW i \in DOMAIN more, NEW j \in DOMAIN more, more[i].url = more[j].url
          PROVE  i = j
      <3>1. \A k \in 1..Len(announce) : announce[k].url # url
        BY <1>2, <2>1
      <3>2. CASE i \in 1..Len(announce) /\ j \in 1..Len(announce)
        BY <2>1, <2>5, <3>2 DEF Announces
      <3>3. CASE i = Len(announce) + 1 \/ j = Len(announce) + 1
        BY <2>1, <2>3, <2>5, <3>1, <3>3
      <3> QED
        BY <2>1, <3>2, <3>3
    <2>6. \A i \in DOMAIN more :
             more[i].tier \in Nat /\ Rank(cfg, more[i].url) = more[i].tier + 1
      BY <2>1, <2>3 DEF Announces
    <2> QED
      BY <2>1, <2>2, <2>4, <2>5, <2>6 DEF Announces
  <1> QED
    BY <1>1, <1>2

\* The next group.
LEMMA UpToNext ==
    ASSUME NEW cfg, NEW k \in Nat
    PROVE  UpTo(cfg, k + 1) = UpTo(cfg, k) \union ToSet(TiersAsked(cfg)[k + 1])
  <1>1. 1..(k + 1) = 1..k \union {k + 1}
    OBVIOUS
  <1> QED
    BY <1>1 DEF UpTo

LEMMA SinglesAnnounce ==
    ASSUME NEW cfg, IsConfig(cfg)
    PROVE  \A i \in 0..Len(cfg.trackers) :
              Announces(Singles(cfg.trackers)[i], cfg, UpTo(cfg, i))
  <1> DEFINE T == TiersAsked(cfg)
             n == Len(cfg.trackers)
             f == Singles(cfg.trackers)
             Good(i) == Announces(f[i], cfg, UpTo(cfg, i))
             S == {i \in 0..n : Good(i)}
  <1>1. /\ n \in Nat /\ Len(cfg.tiers) \in Nat
        /\ DOMAIN T = 1..Len(T) /\ Len(T) = n + Len(cfg.tiers)
        /\ \A i \in 1..n : T[i] = <<cfg.trackers[i]>> /\ cfg.trackers[i] \in Urls
    BY TiersAskedAre
  <1>2. /\ f[0] = <<>>
        /\ \A i \in 1..n : f[i] = Tracked(f[i - 1], cfg.trackers[i], i - 1)
    BY <1>1, SinglesDefined DEF IsConfig
  <1> HIDE DEF f, T, n
  <1>3. Good(0)
    <2>1. UpTo(cfg, 0) = {}
      BY DEF UpTo
    <2>2. Announces(<<>>, cfg, {})
      BY DEF Announces
    <2> QED
      BY <1>2, <2>1, <2>2
  <1>4. ASSUME NEW i \in 1..n, Good(i - 1) PROVE Good(i)
    <2> DEFINE url == cfg.trackers[i]
    <2>1. i - 1 \in Nat /\ (i - 1) + 1 = i /\ i \in DOMAIN T /\ url \in Urls
      BY <1>1
    <2>2. ToSet(T[i]) = {url}
      BY <1>1 DEF ToSet
    <2>3. UpTo(cfg, i) = UpTo(cfg, i - 1) \union {url}
      BY <2>1, <2>2, UpToNext DEF T
    <2>4. url \notin UpTo(cfg, i - 1) => Rank(cfg, url) = (i - 1) + 1
      BY <2>1, <2>2, RankIs DEF T
    <2> HIDE DEF url
    <2>5. Announces(Tracked(f[i - 1], url, i - 1), cfg, UpTo(cfg, i - 1) \union {url})
      BY <1>4, <2>1, <2>4, TrackedAnnounces
    <2> QED
      BY <1>2, <2>3, <2>5 DEF url
  <1> HIDE DEF Good
  <1>5. 0 \in S /\ \A i \in 1..n : i - 1 \in S => i \in S
    BY <1>1, <1>3, <1>4
  <1> HIDE DEF S
  <1>6. \A i \in 0..n : i \in S
    BY <1>1, <1>5, LoopInduction
  <1> QED
    BY <1>6 DEF S, Good, f, n

\* A group, at its place among the groups.
LEMMA GroupAnnounces ==
    ASSUME NEW cfg, IsConfig(cfg), NEW k \in DOMAIN TiersAsked(cfg),
           NEW announce, Announces(announce, cfg, UpTo(cfg, k - 1))
    PROVE  LET urls == TiersAsked(cfg)[k]
           IN  Announces(Group(announce, urls, k - 1)[Len(urls)], cfg, UpTo(cfg, k))
  <1> DEFINE T == TiersAsked(cfg)
             urls == T[k]
             f == Group(announce, urls, k - 1)
             Known(j) == UpTo(cfg, k - 1) \union {urls[l] : l \in 1..j}
             Good(j) == Announces(f[j], cfg, Known(j))
             S == {j \in 0..Len(urls) : Good(j)}
  <1>1. k - 1 \in Nat /\ (k - 1) + 1 = k /\ urls \in Seq(Urls)
    <2>1. T \in Seq(Seq(Urls)) /\ DOMAIN T = 1..Len(T)
      BY TiersAskedAre
    <2> HIDE DEF T
    <2>2. k \in 1..Len(T) /\ Len(T) \in Nat
      BY <2>1, LenProperties DEF T
    <2> QED
      BY <2>1, <2>2, ElementOfSeq
  <1>2. ToSet(urls) = {urls[l] : l \in 1..Len(urls)}
    BY <1>1, LenProperties DEF ToSet
  <1>3. UpTo(cfg, k) = Known(Len(urls))
    BY <1>1, <1>2, UpToNext
  <1>4. \A url \in ToSet(urls) : url \notin UpTo(cfg, k - 1) => Rank(cfg, url) = (k - 1) + 1
    BY <1>1, RankIs
  <1> HIDE DEF T, urls
  <1>5. /\ Len(urls) \in Nat /\ DOMAIN urls = 1..Len(urls)
        /\ \A j \in 1..Len(urls) : urls[j] \in Urls
    BY <1>1, LenProperties, ElementOfSeq
  <1>6. /\ f[0] = announce
        /\ \A j \in 1..Len(urls) : f[j] = Tracked(f[j - 1], urls[j], k - 1)
    BY <1>1, <1>5, GroupDefined
  <1> HIDE DEF f
  <1>7. Good(0)
    <2>1. Known(0) = UpTo(cfg, k - 1)
      OBVIOUS
    <2> HIDE DEF Known
    <2> QED
      BY <1>6, <2>1
  <1>8. ASSUME NEW j \in 1..Len(urls), Good(j - 1) PROVE Good(j)
    <2>1. Known(j) = Known(j - 1) \union {urls[j]}
      <3>1. 1..j = 1..(j - 1) \union {j}
        BY <1>5
      <3> QED
        BY <3>1
    <2>2. urls[j] \notin Known(j - 1) => Rank(cfg, urls[j]) = (k - 1) + 1
      BY <1>2, <1>4
    <2> HIDE DEF Known
    <2>3. Announces(Tracked(f[j - 1], urls[j], k - 1), cfg, Known(j - 1) \union {urls[j]})
      BY <1>1, <1>5, <1>8, <2>2, TrackedAnnounces
    <2> QED
      BY <1>6, <2>1, <2>3
  <1> HIDE DEF Good, Known
  <1>9. 0 \in S /\ \A j \in 1..Len(urls) : j - 1 \in S => j \in S
    BY <1>5, <1>7, <1>8
  <1> HIDE DEF S
  <1>10. \A j \in 0..Len(urls) : j \in S
    BY <1>5, <1>9, LoopInduction
  <1>11. Good(Len(urls))
    BY <1>5, <1>10 DEF S
  <1> QED
    BY <1>3, <1>11, Zenon DEF Good, f, urls, T

LEMMA GroupsAnnounce ==
    ASSUME NEW cfg, IsConfig(cfg)
    PROVE  Announces(AnnounceOf(cfg.trackers, cfg.tiers), cfg,
                     UpTo(cfg, Len(TiersAsked(cfg))))
  <1> DEFINE T == TiersAsked(cfg)
             n == Len(cfg.trackers)
             m == Len(cfg.tiers)
             f == Groups(cfg.trackers, cfg.tiers)
             Good(i) == Announces(f[i], cfg, UpTo(cfg, n + i))
             S == {i \in 0..m : Good(i)}
  <1>1. /\ n \in Nat /\ m \in Nat /\ DOMAIN T = 1..Len(T) /\ Len(T) = n + m
        /\ \A i \in 1..m : T[n + i] = cfg.tiers[i]
    BY TiersAskedAre
  <1>2. /\ f[0] = Singles(cfg.trackers)[n]
        /\ \A i \in 1..m : f[i] = Group(f[i - 1], cfg.tiers[i],
                                       TierOfGroup(cfg.trackers, i))[Len(cfg.tiers[i])]
    BY <1>1, GroupsDefined DEF IsConfig
  <1>3. \A i \in 1..m : TierOfGroup(cfg.trackers, i) = (n + i) - 1
    BY <1>1 DEF TierOfGroup
  <1>4. Announces(Singles(cfg.trackers)[n], cfg, UpTo(cfg, n))
    BY <1>1, SinglesAnnounce
  <1> HIDE DEF f, n, m, T
  <1>5. Good(0)
    <2>1. n + 0 = n
      BY <1>1
    <2> QED
      BY <1>2, <1>4, <2>1
  <1>6. ASSUME NEW i \in 1..m, Good(i - 1) PROVE Good(i)
    <2>1. n + i \in DOMAIN T /\ (n + i) - 1 = n + (i - 1)
      BY <1>1
    <2>2. Announces(f[i - 1], cfg, UpTo(cfg, (n + i) - 1))
      BY <1>6, <2>1
    <2>3. Announces(Group(f[i - 1], T[n + i], (n + i) - 1)[Len(T[n + i])], cfg,
                    UpTo(cfg, n + i))
      BY <2>1, <2>2, GroupAnnounces DEF T
    <2> QED
      BY <1>1, <1>2, <1>3, <2>3
  <1> HIDE DEF Good
  <1>7. 0 \in S /\ \A i \in 1..m : i - 1 \in S => i \in S
    BY <1>1, <1>5, <1>6
  <1> HIDE DEF S
  <1>8. \A i \in 0..m : i \in S
    BY <1>1, <1>7, LoopInduction
  <1>9. Good(m)
    BY <1>1, <1>8 DEF S
  <1>10. Announces(f[m], cfg, UpTo(cfg, Len(T)))
    BY <1>1, <1>9 DEF Good
  <1> QED
    BY <1>10 DEF f, m, T, AnnounceOf

\* What was written has the tiers that were asked for.
LEMMA TiersOfLast ==
    CreatorTypeInv /\ FileIsOfItsCall => TiersAreKept
  <1> SUFFICES ASSUME CreatorTypeInv, FileIsOfItsCall, last.ok, last.whole
               PROVE  LET announce == disk[last.output].announce
                          cfg == last.asked.config
                      IN  /\ {announce[i].url : i \in DOMAIN announce}
                                 = UNION {ToSet(TiersAsked(cfg)[i]) : i \in DOMAIN TiersAsked(cfg)}
                          /\ \A i, j \in DOMAIN announce :
                                 /\ announce[i].url = announce[j].url => i = j
                                 /\ announce[i].tier < announce[j].tier
                                       <=> Rank(cfg, announce[i].url) < Rank(cfg, announce[j].url)
    BY DEF TiersAreKept
  <1> DEFINE announce == disk[last.output].announce
             cfg == last.asked.config
  <1>1. IsConfig(cfg)
    BY DEF CreatorTypeInv
  <1>2. announce = AnnounceOf(cfg.trackers, cfg.tiers)
    BY DEF FileIsOfItsCall, TorrentOf
  <1> HIDE DEF announce, cfg
  <1>3. Announces(announce, cfg, UpTo(cfg, Len(TiersAsked(cfg))))
    BY <1>1, <1>2, GroupsAnnounce
  <1>4. {announce[i].url : i \in DOMAIN announce}
            = UNION {ToSet(TiersAsked(cfg)[i]) : i \in DOMAIN TiersAsked(cfg)}
    BY <1>1, <1>3, TiersAskedAre DEF Announces, UpTo
  <1>5. \A i \in DOMAIN announce : announce[i].tier \in Nat
    BY <1>3 DEF Announces
  <1>6. ASSUME NEW i \in DOMAIN announce, NEW j \in DOMAIN announce
        PROVE  /\ announce[i].url = announce[j].url => i = j
               /\ announce[i].tier < announce[j].tier
                     <=> Rank(cfg, announce[i].url) < Rank(cfg, announce[j].url)
    <2>1. /\ Rank(cfg, announce[i].url) = announce[i].tier + 1
          /\ Rank(cfg, announce[j].url) = announce[j].tier + 1
          /\ announce[i].url = announce[j].url => i = j
      BY <1>3 DEF Announces
    <2> QED
      BY <1>5, <2>1
  <1> QED
    BY <1>4, <1>6 DEF announce, cfg

(* The file that create() has written has every URL of the configuration it *)
(* was asked for once, in the order of the first group that names it, for   *)
(* any lists of trackers and any tiers, however they repeat URLs.           *)
THEOREM TiersAsAsked == CreatorSpec => []TiersAreKept
  <1>1. CreatorInv => FileIsOfItsCall
    BY DEF CreatorInv
  <1> QED
    BY <1>1, InitCreatorInv, NextCreatorInv, InitCreatorType, NextCreatorType,
       TiersOfLast, PTL DEF CreatorSpec

=============================================================================
