------------------------------ MODULE Torrent ------------------------------
(* One Torrent of Kanoop::Torrent: the wrapper object and its cached state, *)
(* the libtorrent torrent behind its handle, and TorrentClient's poll of    *)
(* it (the body of the update loop of processAlerts).                       *)
(*                                                                          *)
(* libtorrent runs on threads of its own: its torrent changes between any   *)
(* two steps.  The wrapper runs on the Qt thread: its code between two      *)
(* emitted signals is one step.  While the slots of a signal run, the       *)
(* application may call the torrent, or poll again (a direct call of        *)
(* processAlerts, or the timer inside a nested event loop), so polls form   *)
(* a stack of frames.                                                       *)
EXTENDS Integers

CONSTANTS Limits,    \* seed ratio limits the application sets; 0 is "none"
          MaxRatio,  \* bound: upload / download is a number of 0..MaxRatio
          MaxDepth   \* bound: polls nested in one another

ASSUME LimitsAssumption   == Limits \subseteq Nat /\ 0 \in Limits
ASSUME MaxRatioAssumption == MaxRatio \in Nat
ASSUME MaxDepthAssumption == MaxDepth \in Nat \ {0}

(* Torrent::State, and the states of lt::torrent_status (both checking      *)
(* states of libtorrent are "checking").                                    *)
States == {"Idle", "Checking", "FetchingMetadata", "Downloading", "Seeding",
           "Paused", "Error"}

LtStates == {"checking", "downloading_metadata", "downloading", "finished",
             "seeding"}

Inactive == {"Idle", "Paused", "Error"}

(* What updateFromStatus keeps on its stack while slots run: oldState of    *)
(* the caller, the status it read, the newState it computed.                *)
Pcs == {"none", "map", "complete", "notify", "seeded", "ratio"}

Frames == [pc     : Pcs,
           slot   : BOOLEAN,    \* slots of the last signal may be running
           old    : States,
           lt     : LtStates,
           paused : BOOLEAN,
           new    : States]

NoFrame == [pc |-> "none", slot |-> FALSE, old |-> "Idle",
            lt |-> "checking", paused |-> FALSE, new |-> "Idle"]

VARIABLES
    state,             \* _state
    hasMetadata,       \* _hasMetadata
    downloadEmitted,   \* _downloadEmitted
    seedRatioLimit,    \* _seedRatioLimit
    valid,             \* _handle->is_valid()
    ltState,           \* status().state
    ltPaused,          \* status().flags & paused
    ratio,             \* Torrent::ratio(); 0 while nothing was downloaded
    depth,             \* polls on the stack
    frame,             \* frame[1] the outermost
    completes          \* downloadComplete emissions, counted up to 2

wrapper  == <<state, hasMetadata, downloadEmitted, seedRatioLimit>>
external == <<valid, ltState, ltPaused, ratio>>
stack    == <<depth, frame>>
vars     == <<wrapper, external, stack, completes>>

----------------------------------------------------------------------------
(* libtorrent: has_metadata is reported in every state but one. *)
HasMetadata(s) == s # "downloading_metadata"

(* The switch of updateFromStatus and the override that follows it.  cur is *)
(* _state, kept by the default branch.                                      *)
Mapped(s, cur) ==
    CASE s = "checking"                -> "Checking"
      [] s = "downloading_metadata"    -> "FetchingMetadata"
      [] s = "downloading"             -> "Downloading"
      [] s \in {"finished", "seeding"} -> "Seeding"
      [] OTHER                         -> cur

\* Variants of NewState: the libtorrent state cast to a State; a stopped
\* torrent that no poll starts again; finished left to the default branch.
NewStateCast(s, p, cur) == IF p THEN "Paused" ELSE s

NewStateIdleSticks(s, p, cur) ==
    IF cur = "Idle" THEN "Idle" ELSE IF p THEN "Paused" ELSE Mapped(s, cur)

NewStateNoFinished(s, p, cur) ==
    IF p THEN "Paused" ELSE IF s = "finished" THEN cur ELSE Mapped(s, cur)

NewState(s, p, cur) ==
    IF p /\ Mapped(s, cur) # "Idle" THEN "Paused" ELSE Mapped(s, cur)

(* The running poll. *)
Top == frame[depth]

(* Application code runs between polls and in the slots of a signal. *)
Calling == depth > 0 => Top.slot

(* The running poll goes on to pc with what it still has to read; emits      *)
(* tells whether a signal was sent.                                         *)
Goto(pc, emits, old, new) ==
    frame' = [frame EXCEPT ![depth] =
                [NoFrame EXCEPT !.pc = pc, !.slot = emits,
                                !.old = old, !.new = new]]

----------------------------------------------------------------------------
Init ==
    /\ state = "Idle"
    /\ hasMetadata = FALSE
    /\ downloadEmitted = FALSE
    /\ seedRatioLimit = 0
    /\ valid = TRUE
    /\ ltState \in {"checking", "downloading_metadata"}
    /\ ltPaused = TRUE      \* default_flags: paused, auto_managed
    /\ ratio = 0
    /\ depth = 0
    /\ frame = [i \in 1..MaxDepth |-> NoFrame]
    /\ completes = 0

----------------------------------------------------------------------------
(* Calls of the application. *)

\* Torrent::start and Torrent::resume: only libtorrent is told.
Start ==
    /\ Calling
    /\ valid
    /\ ltPaused' = FALSE
    /\ UNCHANGED <<wrapper, valid, ltState, ratio, stack, completes>>

\* h->pause(), when there is a torrent to pause, then setState(s).
PauseAs(s) ==
    /\ ltPaused' = (ltPaused \/ valid)
    /\ state' = s

Stop ==
    /\ Calling
    /\ PauseAs("Idle")
    /\ UNCHANGED <<hasMetadata, downloadEmitted, seedRatioLimit, valid,
                   ltState, ratio, stack, completes>>

Pause ==
    /\ Calling
    /\ PauseAs("Paused")
    /\ UNCHANGED <<hasMetadata, downloadEmitted, seedRatioLimit, valid,
                   ltState, ratio, stack, completes>>

SetSeedRatioLimit(l) ==
    /\ Calling
    /\ seedRatioLimit' = l
    /\ UNCHANGED <<state, hasMetadata, downloadEmitted, external, stack,
                   completes>>

----------------------------------------------------------------------------
(* libtorrent's side of the handle. *)

\* Metadata once fetched stays; a torrent with metadata is checked,
\* downloaded, completed, and checked again at any time.
LtProgress(s) ==
    /\ valid
    /\ s \in LtStates \ {"downloading_metadata"}
    /\ ltState' = s
    /\ UNCHANGED <<wrapper, valid, ltPaused, ratio, stack, completes>>

LtTransfer(r) ==
    /\ valid
    /\ ratio' = r
    /\ UNCHANGED <<wrapper, valid, ltState, ltPaused, stack, completes>>

\* The queue of an auto-managed torrent pauses and resumes it.
LtAutoManage ==
    /\ valid
    /\ ltPaused' = ~ltPaused
    /\ UNCHANGED <<wrapper, valid, ltState, ratio, stack, completes>>

\* The torrent left the session.  Nothing reads its fields any more: they
\* get a fixed value, ratio() returns 0.
LtExpire ==
    /\ valid
    /\ valid' = FALSE
    /\ ltState' = "checking"
    /\ ltPaused' = FALSE
    /\ ratio' = 0
    /\ UNCHANGED <<wrapper, stack, completes>>

----------------------------------------------------------------------------
(* One turn of the update loop, cut where a signal is emitted. *)

\* A variant of MetadataDue that waits until the torrent left Idle.
MetadataDueNotIdle ==
    valid /\ ~hasMetadata /\ HasMetadata(ltState) /\ state # "Idle"

MetadataDue == valid /\ ~hasMetadata /\ HasMetadata(ltState)

\* oldState = t->state(); updateFromStatus() up to metadataReceived.
Poll ==
    LET fresh == MetadataDue
    IN  /\ Calling
        /\ depth < MaxDepth
        /\ depth' = depth + 1
        /\ frame' = [frame EXCEPT ![depth + 1] =
                       [NoFrame EXCEPT !.pc = IF valid THEN "map" ELSE "notify",
                                       !.slot = fresh,
                                       !.old = state,
                                       !.lt = ltState,
                                       !.paused = ltPaused]]
        /\ hasMetadata' = (hasMetadata \/ fresh)
        /\ UNCHANGED <<state, downloadEmitted, seedRatioLimit, external,
                       completes>>

\* The switch, setState, and progressUpdated for the active states.  Nothing
\* happens between the slots of stateChanged and those of progressUpdated.
Map ==
    LET new == NewState(Top.lt, Top.paused, state)
    IN  /\ depth > 0 /\ Top.pc = "map"
        /\ state' = new
        /\ Goto("complete", new # state \/ new \notin Inactive, Top.old, new)
        /\ UNCHANGED <<hasMetadata, downloadEmitted, seedRatioLimit, external,
                       depth, completes>>

\* Variants of CompletionDue: without the flag; from Downloading only.
CompletionDueEveryPoll == Top.new = "Seeding"

CompletionDueFromDownloading ==
    Top.new = "Seeding" /\ ~downloadEmitted /\ Top.old = "Downloading"

CompletionDue == Top.new = "Seeding" /\ ~downloadEmitted

\* downloadComplete, the flag set before the signal.
Complete ==
    LET emits == CompletionDue
    IN  /\ depth > 0 /\ Top.pc = "complete"
        /\ downloadEmitted' = (downloadEmitted \/ emits)
        /\ completes' = IF emits /\ completes < 2 THEN completes + 1 ELSE completes
        /\ Goto("notify", emits, Top.old, NoFrame.new)
        /\ UNCHANGED <<state, hasMetadata, seedRatioLimit, external, depth>>

\* torrentStateChanged(t, t->state()) if the state differs from oldState.
Notify ==
    /\ depth > 0 /\ Top.pc = "notify"
    /\ Goto("seeded", state # Top.old, Top.old, NoFrame.new)
    /\ UNCHANGED <<wrapper, external, depth, completes>>

AnnounceDue == state = "Seeding" /\ Top.old # "Seeding"

\* torrentComplete(t); oldState is not read after it.
Seeded ==
    /\ depth > 0 /\ Top.pc = "seeded"
    /\ Goto("ratio", AnnounceDue, NoFrame.old, NoFrame.new)
    /\ UNCHANGED <<wrapper, external, depth, completes>>

\* checkSeedRatio, which may pause(), and the end of the turn.  The slots of
\* that pause run with nothing left to do in this frame.
\* OverRatioStrict is a variant: the limit must be exceeded.
OverRatioStrict ==
    seedRatioLimit > 0 /\ state = "Seeding" /\ ratio > seedRatioLimit

OverRatio == seedRatioLimit > 0 /\ state = "Seeding" /\ ratio >= seedRatioLimit

CheckSeedRatio ==
    /\ depth > 0 /\ Top.pc = "ratio"
    /\ IF OverRatio THEN PauseAs("Paused") ELSE UNCHANGED <<state, ltPaused>>
    /\ frame' = [frame EXCEPT ![depth] = NoFrame]
    /\ depth' = depth - 1
    /\ UNCHANGED <<hasMetadata, downloadEmitted, seedRatioLimit, valid,
                   ltState, ratio, completes>>

----------------------------------------------------------------------------
Application ==
    \/ Start
    \/ Stop
    \/ Pause
    \/ \E l \in Limits : SetSeedRatioLimit(l)

Libtorrent ==
    \/ \E s \in LtStates : LtProgress(s)
    \/ \E r \in 0..MaxRatio : LtTransfer(r)
    \/ LtAutoManage
    \/ LtExpire

PollStep == Map \/ Complete \/ Notify \/ Seeded \/ CheckSeedRatio

Next == Application \/ Libtorrent \/ Poll \/ PollStep

(* The timer of the client fires again and again, and slots return. *)
TimerPoll == depth = 0 /\ Poll

Fairness == WF_vars(TimerPoll) /\ WF_vars(PollStep)

Spec == Init /\ [][Next]_vars /\ Fairness

----------------------------------------------------------------------------
(* Safety. *)

(* Every variable has its type. *)
TypeOK ==
    /\ state \in States
    /\ hasMetadata \in BOOLEAN
    /\ downloadEmitted \in BOOLEAN
    /\ seedRatioLimit \in Limits
    /\ valid \in BOOLEAN
    /\ ltState \in LtStates
    /\ ltPaused \in BOOLEAN
    /\ ratio \in 0..MaxRatio
    /\ depth \in 0..MaxDepth
    /\ frame \in [1..MaxDepth -> Frames]
    /\ completes \in 0..2

(* downloadComplete is "emitted once": polls nested in the slots of any     *)
(* signal, pauses, restarts and rechecks do not make it fire again.         *)
DownloadCompleteOnce == completes <= 1

(* The client announces torrentComplete only for a torrent that has itself  *)
(* emitted downloadComplete, whichever of the nested polls gets there first.*)
CompleteBeforeAnnounced ==
    depth > 0 /\ Top.pc = "seeded" /\ AnnounceDue => completes > 0

(* No torrent is shown checking, downloading or seeding before its          *)
(* metadataReceived: updateFromStatus tests the metadata first, and on the  *)
(* status it later maps.                                                    *)
MetadataBeforeProgress ==
    state \in {"Checking", "Downloading", "Seeding"} => hasMetadata

(* Once no poll is on the stack, a torrent that shows Seeding has reported  *)
(* its completion: a pause or a stop called in a slot cannot swallow it.    *)
SeedingWasReported == depth = 0 /\ state = "Seeding" => downloadEmitted

----------------------------------------------------------------------------
(* Liveness. *)

(* What the state becomes when libtorrent stays as it is. *)
Shown == NewState(ltState, ltPaused, "Error")

Done == valid /\ ~ltPaused /\ ltState \in {"finished", "seeding"}

(* If libtorrent stays in one state, the cached state comes back to it      *)
(* whatever the application calls: a state written from a stale status or   *)
(* by pause and stop does not last.                                         *)
StateFollowsLibtorrent ==
    \A s \in States \ {"Idle", "Error"} :
        <>[](valid /\ Shown = s) => []<>(state = s)

(* A torrent that libtorrent has completed and does not pause gets its      *)
(* downloadComplete.                                                        *)
CompletionIsReported == <>[]Done => <>(completes > 0)

(* No torrent seeds on for ever over its ratio limit. *)
RatioLimitPauses ==
    []<>~(Done /\ seedRatioLimit > 0 /\ ratio >= seedRatioLimit)

=============================================================================
