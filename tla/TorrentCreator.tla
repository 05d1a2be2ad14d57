--------------------------- MODULE TorrentCreator ---------------------------
(* create() of TorrentCreator, up to the file it writes.  It is synchronous *)
(* but for progressUpdated, emitted for every piece that is hashed: a slot  *)
(* may change the configuration, or call create() again on the same object, *)
(* whose result fields all calls share.  Calls in progress form a stack.    *)
(*                                                                          *)
(* The options (piece size, web seeds, comment, creator, private) are one   *)
(* value; trackers and tiers are modelled as they are.                      *)
EXTENDS Integers, Sequences, SequencesExt, FiniteSetsExt

CONSTANTS Urls, Options, Outputs,
          Sources,      \* what may be at the source path; no files: nothing
          Nothing, Torn,
          UrlLists,     \* bound: the lists that are set, for tiers too
          MaxTiers,     \* bound of _trackerTiers
          MaxDepth      \* bound: calls of create() nested in one another

ASSUME SourcesAssumption ==
    Sources \subseteq [size : Nat, files : Nat, pieces : Nat]
ASSUME NothingAssumption == Nothing \notin Outputs
ASSUME UrlListsAssumption == UrlLists \subseteq Seq(Urls)
ASSUME MaxDepthAssumption == MaxDepth \in Nat

VARIABLES
    config,       \* _trackers, _trackerTiers and the options
    source,       \* what is at the source path
    fields,       \* _errorString, _totalSize, _fileCount, _pieceCount
    depth, call,  \* calls of create() in progress, call[1] the outermost
    disk,         \* the output files
    last,         \* history: the latest call that ended, and what it returned
    told          \* history: no call has begun since

creatorVars == <<config, source, fields, depth, call, disk, last, told>>

NoFields == [error |-> "none", size |-> 0, files |-> 0, pieces |-> 0]

----------------------------------------------------------------------------
(* The torrent that create() builds before it hashes anything. *)

\* create_torrent::add_tracker: a URL that is there already is left out.
Tracked(announce, url, tier) ==
    IF \E i \in DOMAIN announce : announce[i].url = url THEN announce
    ELSE Append(announce, [url |-> url, tier |-> tier])

\* A variant of TierOfGroup: the tiers of the groups start anew.
TierOfGroupAnew(trackers, i) == i - 1

\* tier++ after each tracker and after each group, empty ones included.
TierOfGroup(trackers, i) == Len(trackers) + i - 1

\* The loop over _trackers.
Singles(trackers) ==
    LET announced[i \in 0..Len(trackers)] ==
            IF i = 0 THEN <<>> ELSE Tracked(announced[i - 1], trackers[i], i - 1)
    IN  announced

\* The loop over one group.
Group(announce, urls, tier) ==
    LET announced[i \in 0..Len(urls)] ==
            IF i = 0 THEN announce ELSE Tracked(announced[i - 1], urls[i], tier)
    IN  announced

\* The loop over _trackerTiers.
Groups(trackers, tiers) ==
    LET announced[i \in 0..Len(tiers)] ==
            IF i = 0 THEN Singles(trackers)[Len(trackers)]
            ELSE Group(announced[i - 1], tiers[i], TierOfGroup(trackers, i))[Len(tiers[i])]
    IN  announced

AnnounceOf(trackers, tiers) == Groups(trackers, tiers)[Len(tiers)]

TorrentOf(cfg, src) ==
    [announce |-> AnnounceOf(cfg.trackers, cfg.tiers), options |-> cfg.options,
     content |-> src]

----------------------------------------------------------------------------
\* inner: history, another call began within this one.
NoCall == [slot |-> FALSE, output |-> Nothing, torrent |-> Nothing,
           left |-> 0, asked |-> Nothing, inner |-> FALSE]

CreatorInit ==
    /\ config \in [trackers : {<<>>}, tiers : {<<>>}, options : Options]
    /\ source \in Sources
    /\ fields = NoFields
    /\ depth = 0
    /\ call = [i \in 1..MaxDepth |-> NoCall]
    /\ disk = [p \in Outputs |-> Nothing]
    /\ last = [ok |-> FALSE, whole |-> FALSE, output |-> Nothing, asked |-> Nothing,
               inner |-> FALSE]
    /\ told = FALSE

Top == call[depth]

\* The application runs between calls, and in the slots of progressUpdated.
Calling == depth > 0 => Top.slot

SetTop(c) == call' = [call EXCEPT ![depth] = c]

----------------------------------------------------------------------------
(* The setters. *)

Configure(cfg) ==
    /\ Calling
    /\ config' = cfg
    /\ UNCHANGED <<source, fields, depth, call, disk, last, told>>

SetTrackers(urls) == Configure([config EXCEPT !.trackers = urls])

AddTrackerTier(urls) ==
    /\ Len(config.tiers) < MaxTiers
    /\ Configure([config EXCEPT !.tiers = Append(@, urls)])

\* setPieceSize, setWebSeeds, setComment, setCreator, setPrivate
SetOptions(o) == Configure([config EXCEPT !.options = o])

\* The file system changes.
ChangeSource(src) ==
    /\ Calling
    /\ source' = src
    /\ UNCHANGED <<config, fields, depth, call, disk, last, told>>

----------------------------------------------------------------------------
(* create() *)

Asked == [config |-> config, content |-> source]

\* whole: history, the disk took all that was written.
Ended(ok, whole, output, asked, inner) ==
    /\ last' = [ok |-> ok, whole |-> whole, output |-> output,
                asked |-> IF ok THEN asked ELSE Nothing, inner |-> inner]
    /\ told' = TRUE

\* The calls in progress when another one begins.
Interrupted ==
    [i \in 1..MaxDepth |-> IF i = depth THEN [call[i] EXCEPT !.inner = TRUE] ELSE call[i]]

\* A variant of Reset: the error of an earlier call stays.
ResetButError == [NoFields EXCEPT !.error = fields.error]

Reset == NoFields

\* The source does not exist, or holds no file.
CreateRefused(output) ==
    /\ Calling /\ depth < MaxDepth
    /\ source.files = 0
    /\ fields' = [Reset EXCEPT !.error = "source"]
    /\ Ended(FALSE, FALSE, output, Asked, FALSE)
    /\ call' = Interrupted
    /\ UNCHANGED <<config, source, depth, disk>>

\* The torrent is put together; hashing begins.
Create(output) ==
    /\ Calling /\ depth < MaxDepth
    /\ source.files > 0
    /\ fields' = [Reset EXCEPT !.pieces = source.pieces]
    /\ depth' = depth + 1
    /\ call' = [Interrupted EXCEPT ![depth + 1] =
                  [slot |-> FALSE, output |-> output,
                   torrent |-> TorrentOf(config, source), left |-> source.pieces,
                   asked |-> Asked, inner |-> FALSE]]
    /\ told' = FALSE
    /\ UNCHANGED <<config, source, disk, last>>

\* set_piece_hashes calls back, and progressUpdated is emitted.
HashPiece ==
    /\ depth > 0 /\ Top.left > 0
    /\ SetTop([Top EXCEPT !.left = @ - 1, !.slot = TRUE])
    /\ UNCHANGED <<config, source, fields, depth, disk, last, told>>

Return(ok, whole) ==
    /\ Ended(ok, whole, Top.output, Top.asked, Top.inner)
    /\ depth' = depth - 1
    /\ SetTop(NoCall)

\* A file cannot be read, or has changed its size.
HashFails ==
    /\ depth > 0 /\ Top.left > 0
    /\ fields' = [fields EXCEPT !.error = "hash"]
    /\ Return(FALSE, FALSE)
    /\ UNCHANGED <<config, source, disk>>

CannotOpen ==
    /\ depth > 0 /\ Top.left = 0
    /\ fields' = [fields EXCEPT !.error = "open"]
    /\ Return(FALSE, FALSE)
    /\ UNCHANGED <<config, source, disk>>

\* A variant of Generated: the torrent is put together after the hashing.
GeneratedLate(c) == TorrentOf(config, source)

\* ct.generate()
Generated(c) == c.torrent

\* open() truncates; write() may fall short, and its result is not looked at.
Write(whole) ==
    /\ depth > 0 /\ Top.left = 0
    /\ disk' = [disk EXCEPT ![Top.output] = IF whole THEN Generated(Top) ELSE Torn]
    /\ fields' = [fields EXCEPT !.size = Top.asked.content.size,
                                !.files = Top.asked.content.files]
    /\ Return(TRUE, whole)
    /\ UNCHANGED <<config, source>>

Progress ==
    \/ HashPiece
    \/ HashFails
    \/ CannotOpen
    \/ \E whole \in BOOLEAN : Write(whole)

CreatorNext ==
    \/ \E urls \in UrlLists : SetTrackers(urls) \/ AddTrackerTier(urls)
    \/ \E o \in Options : SetOptions(o)
    \/ \E src \in Sources : ChangeSource(src)
    \/ \E output \in Outputs : CreateRefused(output) \/ Create(output)
    \/ Progress

CreatorSpec == CreatorInit /\ [][CreatorNext]_creatorVars

----------------------------------------------------------------------------
(* Every variable has its type. *)
CreatorTypeOK ==
    /\ config.trackers \in Seq(Urls)
    /\ config.tiers \in Seq(Seq(Urls))
    /\ config.options \in Options
    /\ source \in Sources
    /\ fields \in [error : {"none", "source", "hash", "open"},
                   size : Nat, files : Nat, pieces : Nat]
    /\ depth \in 0..MaxDepth
    /\ \A i \in 1..MaxDepth : i <= depth <=> call[i] # NoCall
    /\ DOMAIN disk = Outputs
    /\ told \in BOOLEAN

(* What errorString() and the numbers tell of the call that ended last, at  *)
(* any depth, until another one begins.  A failure has an error, a success  *)
(* its own totals, whatever earlier calls left behind and calls within it   *)
(* did to the fields they share.  If none ran within it, a success has no   *)
(* error and its own number of pieces, and a failure no totals.             *)
ErrorTellsResult ==
    told =>
        /\ IF last.ok
           THEN /\ fields.size = last.asked.content.size
                /\ fields.files = last.asked.content.files
           ELSE fields.error # "none"
        /\ ~last.inner =>
               IF last.ok
               THEN fields.error = "none" /\ fields.pieces = last.asked.content.pieces
               ELSE fields.size = 0 /\ fields.files = 0

(* A call that returned true, and of whose data the disk took all, has      *)
(* written the torrent it was asked for, with the configuration and the     *)
(* content of its beginning, though slots change both and run other calls.  *)
FileIsOfItsCall ==
    last.ok /\ last.whole =>
        disk[last.output] = TorrentOf(last.asked.config, last.asked.content)

(* The tiers as they are asked for: each tracker alone, then the groups.  A *)
(* URL belongs to the first that names it.                                  *)
TiersAsked(cfg) ==
    [i \in DOMAIN cfg.trackers |-> <<cfg.trackers[i]>>] \o cfg.tiers

Rank(cfg, url) ==
    Min({i \in DOMAIN TiersAsked(cfg) : url \in ToSet(TiersAsked(cfg)[i])})

(* The file has every URL once, and its tiers are those that were asked     *)
(* for, in their order, with empty groups and repeated URLs among them.     *)
TiersAreKept ==
    last.ok /\ last.whole =>
        LET announce == disk[last.output].announce
            cfg == last.asked.config
        IN  /\ {announce[i].url : i \in DOMAIN announce}
                   = UNION {ToSet(TiersAsked(cfg)[i]) : i \in DOMAIN TiersAsked(cfg)}
            /\ \A i, j \in DOMAIN announce :
                   /\ announce[i].url = announce[j].url => i = j
                   /\ announce[i].tier < announce[j].tier
                         <=> Rank(cfg, announce[i].url) < Rank(cfg, announce[j].url)

----------------------------------------------------------------------------
(* create() returns "true on success, false on failure (check               *)
(* errorString())": the file is then the torrent.  The result of write() is *)
(* not looked at, so that a disk that is full gives true as well.           *)
TrueMeansWritten ==
    last.ok => disk[last.output] = TorrentOf(last.asked.config, last.asked.content)

=============================================================================
