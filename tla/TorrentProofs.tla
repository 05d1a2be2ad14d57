--------------------------- MODULE TorrentProofs ---------------------------
(* Proofs, for every set of limits and every bound on nesting, that the     *)
(* variables of Torrent keep their types and that its signals are emitted   *)
(* once and in order.                                                       *)
EXTENDS Torrent, TLAPS

----------------------------------------------------------------------------
(* Types. *)

\* updateFromStatus computes a State.
LEMMA NewStateType ==
    ASSUME NEW s, NEW p, NEW cur \in States
    PROVE  NewState(s, p, cur) \in States
  BY DEF NewState, Mapped, States

\* The empty frame of a poll that is not in progress has its type.
LEMMA NoFrameType == NoFrame \in Frames
  BY DEF NoFrame, Frames, Pcs, States, LtStates

\* A new torrent has the right types.
LEMMA InitTypeOK == Init => TypeOK
  <1> SUFFICES ASSUME Init PROVE TypeOK
    OBVIOUS
  <1>1. frame \in [1..MaxDepth -> Frames]
    BY NoFrameType DEF Init
  <1>2. /\ hasMetadata \in BOOLEAN /\ downloadEmitted \in BOOLEAN
        /\ valid \in BOOLEAN /\ ltPaused \in BOOLEAN
    BY Zenon DEF Init
  <1>3. /\ seedRatioLimit \in Limits /\ ratio \in 0..MaxRatio
        /\ depth \in 0..MaxDepth /\ completes \in 0..2
    BY LimitsAssumption, MaxRatioAssumption, MaxDepthAssumption DEF Init
  <1>4. state \in States /\ ltState \in LtStates
    BY DEF Init, States, LtStates
  <1> QED
    BY <1>1, <1>2, <1>3, <1>4 DEF TypeOK

\* Every step keeps the types.
LEMMA NextTypeOK == TypeOK /\ [Next]_vars => TypeOK'
  <1> SUFFICES ASSUME TypeOK, [Next]_vars PROVE TypeOK'
    OBVIOUS
  <1> USE DEF TypeOK
  <1>1. CASE Application
    BY <1>1 DEF Application, Start, Stop, Pause, SetSeedRatioLimit, PauseAs,
                wrapper, external, stack, States
  <1>2. CASE Libtorrent
    <2>1. ASSUME NEW s \in LtStates, LtProgress(s) PROVE TypeOK'
      BY <2>1 DEF LtProgress, wrapper, stack
    <2>2. ASSUME NEW r \in 0..MaxRatio, LtTransfer(r) PROVE TypeOK'
      BY <2>2 DEF LtTransfer, wrapper, stack
    <2>3. CASE LtAutoManage
      BY <2>3 DEF LtAutoManage, wrapper, stack
    <2>4. CASE LtExpire
      <3>1. valid' \in BOOLEAN /\ ltPaused' \in BOOLEAN
        BY <2>4, Zenon DEF LtExpire
      <3>2. ltState' \in LtStates /\ ratio' \in 0..MaxRatio
        BY <2>4, MaxRatioAssumption DEF LtExpire, LtStates
      <3> QED
        BY <2>4, <3>1, <3>2 DEF LtExpire, wrapper, stack
    <2> QED
      BY <1>2, <2>1, <2>2, <2>3, <2>4 DEF Libtorrent
  <1>3. CASE Poll
    <2>1. [NoFrame EXCEPT !.pc = IF valid THEN "map" ELSE "notify",
                          !.slot = MetadataDue,
                          !.old = state,
                          !.lt = ltState,
                          !.paused = ltPaused] \in Frames
      BY DEF NoFrame, Frames, Pcs, States, LtStates, MetadataDue
    <2>2. depth + 1 \in 1..MaxDepth
      BY <1>3, MaxDepthAssumption DEF Poll
    <2>3. frame' \in [1..MaxDepth -> Frames]
      BY <1>3, <2>1, <2>2 DEF Poll
    <2>4. hasMetadata' \in BOOLEAN
      BY <1>3 DEF Poll, MetadataDue
    <2> QED
      BY <1>3, <2>2, <2>3, <2>4 DEF Poll, external
  <1>4. CASE PollStep
    <2> USE DEF PollStep
    <2>0. depth > 0 => depth \in 1..MaxDepth /\ Top \in Frames
      BY MaxDepthAssumption DEF Top
    <2> USE DEF Goto
    <2>1. ASSUME NEW pc \in Pcs, NEW emits \in BOOLEAN, NEW old \in States,
                 NEW new \in States, depth > 0, Goto(pc, emits, old, new)
          PROVE  frame' \in [1..MaxDepth -> Frames]
      <3>1. [NoFrame EXCEPT !.pc = pc, !.slot = emits, !.old = old,
                            !.new = new] \in Frames
        BY DEF NoFrame, Frames, LtStates
      <3> QED
        BY <2>0, <2>1, <3>1
    <2>2. depth > 0 => Top.old \in States
      BY <2>0 DEF Frames
    <2>3. NoFrame.old \in States /\ NoFrame.new \in States
      BY DEF NoFrame, States
    <2>4. CASE Map
      <3> DEFINE new == NewState(Top.lt, Top.paused, state)
      <3>1. new \in States
        BY NewStateType
      <3> HIDE DEF new
      <3>2. frame' \in [1..MaxDepth -> Frames]
        BY <2>4, <2>1, <2>2, <3>1 DEF Map, Pcs, new
      <3> QED
        BY <2>4, <3>1, <3>2 DEF Map, external, new
    <2>5. CASE Complete
      <3>1. frame' \in [1..MaxDepth -> Frames]
        BY <2>5, <2>1, <2>2, <2>3 DEF Complete, CompletionDue, Pcs
      <3>2. downloadEmitted' \in BOOLEAN
        BY <2>5 DEF Complete, CompletionDue
      <3>3. completes' \in 0..2
        BY <2>5 DEF Complete
      <3> QED
        BY <2>5, <3>1, <3>2, <3>3 DEF Complete, external
    <2>6. CASE Notify
      <3>1. frame' \in [1..MaxDepth -> Frames]
        BY <2>6, <2>1, <2>2, <2>3 DEF Notify, Pcs
      <3> QED
        BY <2>6, <3>1 DEF Notify, wrapper, external
    <2>7. CASE Seeded
      <3>1. frame' \in [1..MaxDepth -> Frames]
        BY <2>7, <2>1, <2>3 DEF Seeded, AnnounceDue, Pcs
      <3> QED
        BY <2>7, <3>1 DEF Seeded, wrapper, external
    <2>8. CASE CheckSeedRatio
      <3>1. frame' \in [1..MaxDepth -> Frames]
        BY <2>0, <2>8, NoFrameType DEF CheckSeedRatio
      <3>2. depth' \in 0..MaxDepth
        BY <2>8, MaxDepthAssumption DEF CheckSeedRatio
      <3>3. state' \in States /\ ltPaused' \in BOOLEAN
        BY <2>8 DEF CheckSeedRatio, PauseAs, States
      <3> QED
        BY <2>8, <3>1, <3>2, <3>3 DEF CheckSeedRatio
    <2> QED
      BY <1>4, <2>4, <2>5, <2>6, <2>7, <2>8
  <1>5. CASE UNCHANGED vars
    BY <1>5 DEF vars, wrapper, external, stack
  <1> QED
    BY <1>1, <1>2, <1>3, <1>4, <1>5 DEF Next

(* Every variable keeps its type. *)
THEOREM TypeCorrect == Spec => []TypeOK
  BY InitTypeOK, NextTypeOK, PTL DEF Spec

----------------------------------------------------------------------------
(* Completion.  downloadComplete is emitted once because the flag tells how *)
(* often it was; and the state is Seeding without it only while the poll    *)
(* that set it has the emission ahead.  Polls pushed on top of that one     *)
(* found the state Seeding already, so they announce nothing.               *)

CountIsFlag == completes = IF downloadEmitted THEN 1 ELSE 0

\* Frame i is about to emit downloadComplete.
Reporting(i) ==
    /\ i \in 1..depth
    /\ frame[i].pc = "complete" /\ frame[i].new = "Seeding"
    /\ \A j \in (i + 1)..depth : frame[j].pc # "ratio" => frame[j].old = "Seeding"

ReportAhead ==
    state = "Seeding" /\ ~downloadEmitted => \E i \in 1..MaxDepth : Reporting(i)

CompletionInv == TypeOK /\ CountIsFlag /\ ReportAhead

\* A new torrent has reported nothing.
LEMMA InitCompletionInv == Init => CompletionInv
  BY InitTypeOK DEF Init, CompletionInv, CountIsFlag, ReportAhead

\* A step that leaves the state, the flag and the stack alone.
LEMMA ReportAheadUnchanged ==
    ASSUME ReportAhead, UNCHANGED <<state, downloadEmitted, depth, frame>>
    PROVE  ReportAhead'
  BY DEF ReportAhead, Reporting

\* Every step keeps completions and their reports in step.
LEMMA NextCompletionInv == CompletionInv /\ [Next]_vars => CompletionInv'
  <1> SUFFICES ASSUME CompletionInv, [Next]_vars PROVE CompletionInv'
    OBVIOUS
  <1> USE DEF CompletionInv
  <1>0. TypeOK'
    BY NextTypeOK
  <1>1. CountIsFlag'
    <2>1. CASE Complete
      <3>1. CASE CompletionDue
        <4>1. ~downloadEmitted /\ downloadEmitted'
          BY <2>1, <3>1, Zenon DEF Complete, CompletionDue
        <4>2. completes = 0
          BY <4>1 DEF CountIsFlag
        <4>3. completes' = 1
          BY <2>1, <3>1, <4>2 DEF Complete
        <4> QED
          BY <4>1, <4>3 DEF CountIsFlag
      <3>2. CASE ~CompletionDue
        <4>1. downloadEmitted' <=> downloadEmitted
          BY <2>1, <3>2, Zenon DEF Complete
        <4>2. completes' = completes
          BY <2>1, <3>2 DEF Complete
        <4> QED
          BY <4>1, <4>2 DEF CountIsFlag
      <3> QED
        BY <3>1, <3>2
    <2>2. CASE UNCHANGED <<downloadEmitted, completes>>
      BY <2>2 DEF CountIsFlag
    <2>3. Complete \/ UNCHANGED <<downloadEmitted, completes>>
      BY DEF Next, Application, Libtorrent, PollStep, vars, wrapper, external,
             stack, Start, Stop, Pause, SetSeedRatioLimit, LtProgress,
             LtTransfer, LtAutoManage, LtExpire, Poll, Map, Notify, Seeded,
             CheckSeedRatio
    <2> QED
      BY <2>1, <2>2, <2>3
  <1>2. ReportAhead'
    <2>0. depth > 0 => depth \in 1..MaxDepth
      BY MaxDepthAssumption DEF TypeOK
    <2>1. CASE UNCHANGED <<state, downloadEmitted, depth, frame>>
      BY <2>1, ReportAheadUnchanged
    <2>2. CASE Stop \/ Pause
      BY <2>2 DEF Stop, Pause, PauseAs, ReportAhead
    <2>3. CASE Map
      <3> SUFFICES ASSUME state' = "Seeding", ~downloadEmitted'
                   PROVE  Reporting(depth)' /\ depth \in 1..MaxDepth
        BY <2>3 DEF ReportAhead, Map
      <3> QED
        BY <2>0, <2>3 DEF Map, Goto, Reporting, NoFrame, TypeOK
    \* In the other steps the frame that was about to report still is.
    <2>4. ASSUME state' = "Seeding", ~downloadEmitted',
                 Poll \/ Complete \/ Notify \/ Seeded \/ CheckSeedRatio
          PROVE  \E i \in 1..MaxDepth : Reporting(i)'
      <3>1. state = "Seeding" /\ ~downloadEmitted
        <4>1. state = "Seeding"
          BY <2>4 DEF Poll, Complete, Notify, Seeded, CheckSeedRatio, PauseAs,
                      wrapper
        <4>2. ~downloadEmitted
          BY <2>4, Zenon DEF Poll, Complete, Notify, Seeded, CheckSeedRatio,
                             wrapper
        <4> QED
          BY <4>1, <4>2
      <3>2. PICK i \in 1..MaxDepth : Reporting(i)
        BY <3>1 DEF ReportAhead
      <3>3. CASE Poll
        <4>1. /\ depth \in 0..(MaxDepth - 1) /\ depth' = depth + 1
              /\ \A j \in 1..depth : frame'[j] = frame[j]
              /\ frame'[depth'].old = "Seeding"
          BY <3>1, <3>3, MaxDepthAssumption DEF Poll, NoFrame, TypeOK
        <4>2. Reporting(i)'
          BY <3>2, <4>1 DEF Reporting
        <4> QED
          BY <4>2
      <3>4. CASE Complete
        <4>1. Top.new # "Seeding"
          BY <2>4, <3>1, <3>4 DEF Complete, CompletionDue
        <4> QED
          BY <2>0, <3>2, <3>4, <4>1 DEF Complete, Goto, Reporting, NoFrame, Top, TypeOK
      <3>5. CASE Notify
        <4>1. /\ depth' = depth /\ depth \in 1..MaxDepth
              /\ \A j \in 1..(depth - 1) : frame'[j] = frame[j]
              /\ frame'[depth].old = frame[depth].old
              /\ frame[depth].pc = "notify"
          BY <2>0, <3>5 DEF Notify, Goto, NoFrame, Top, TypeOK
        <4>2. Reporting(i)'
          BY <3>2, <4>1 DEF Reporting
        <4> QED
          BY <4>2
      <3>6. CASE Seeded
        BY <2>0, <3>2, <3>6 DEF Seeded, Goto, Reporting, NoFrame, Top, TypeOK
      <3>7. CASE CheckSeedRatio
        BY <2>0, <3>2, <3>7 DEF CheckSeedRatio, Reporting, Top, TypeOK
      <3> QED
        BY <2>4, <3>3, <3>4, <3>5, <3>6, <3>7
    <2>5. CASE Poll \/ Complete \/ Notify \/ Seeded \/ CheckSeedRatio
      BY <2>4, <2>5 DEF ReportAhead, Reporting
    <2> QED
      BY <2>1, <2>2, <2>3, <2>5
      DEF Next, Application, Libtorrent, PollStep, vars, wrapper, stack,
          external, Start, SetSeedRatioLimit, LtProgress, LtTransfer,
          LtAutoManage, LtExpire
  <1> QED
    BY <1>0, <1>1, <1>2

(* downloadComplete is emitted at most once in the life of a torrent.       *)
THEOREM CompletesOnce == Spec => []DownloadCompleteOnce
  <1>1. CompletionInv => DownloadCompleteOnce
    BY DEF CompletionInv, CountIsFlag, DownloadCompleteOnce
  <1> QED
    BY <1>1, InitCompletionInv, NextCompletionInv, PTL DEF Spec

(* torrentComplete is announced only after downloadComplete.                *)
THEOREM AnnouncesAfterComplete == Spec => []CompleteBeforeAnnounced
  <1>1. CompletionInv => CompleteBeforeAnnounced
    <2> SUFFICES ASSUME CompletionInv, depth > 0, Top.pc = "seeded",
                        state = "Seeding", Top.old # "Seeding"
                 PROVE  completes > 0
      BY DEF CompleteBeforeAnnounced, AnnounceDue
    <2>1. ~ \E i \in 1..MaxDepth : Reporting(i)
      BY DEF Reporting, Top, CompletionInv, TypeOK
    <2>2. downloadEmitted
      BY <2>1 DEF CompletionInv, ReportAhead
    <2> QED
      BY <2>2 DEF CompletionInv, CountIsFlag
  <1> QED
    BY <1>1, InitCompletionInv, NextCompletionInv, PTL DEF Spec

(* Between polls, a torrent that shows Seeding has emitted downloadComplete. *)
THEOREM SeedingReported == Spec => []SeedingWasReported
  <1>1. CompletionInv => SeedingWasReported
    BY DEF CompletionInv, ReportAhead, Reporting, SeedingWasReported, TypeOK
  <1> QED
    BY <1>1, InitCompletionInv, NextCompletionInv, PTL DEF Spec

----------------------------------------------------------------------------
(* Metadata.  A status that is still to be mapped and shows metadata was    *)
(* read by a poll that reported the metadata.                               *)

MetadataReported ==
    \A i \in 1..depth :
        frame[i].pc = "map" /\ HasMetadata(frame[i].lt) => hasMetadata

MetadataInv == TypeOK /\ MetadataReported /\ MetadataBeforeProgress

\* A new torrent shows Idle.
LEMMA InitMetadataInv == Init => MetadataInv
  BY InitTypeOK DEF Init, MetadataInv, MetadataReported, MetadataBeforeProgress

\* Every step reports metadata before it shows progress.
LEMMA NextMetadataInv == MetadataInv /\ [Next]_vars => MetadataInv'
  <1> SUFFICES ASSUME MetadataInv, [Next]_vars PROVE MetadataInv'
    OBVIOUS
  <1> USE DEF MetadataInv
  <1>0. TypeOK'
    BY NextTypeOK
  <1>1. hasMetadata => hasMetadata'
    BY Zenon DEF Next, Application, Libtorrent, PollStep, vars, wrapper, Start,
                 Stop, Pause, SetSeedRatioLimit, LtProgress, LtTransfer,
                 LtAutoManage, LtExpire, Poll, Map, Complete, Notify, Seeded,
                 CheckSeedRatio
  <1>2. MetadataReported'
    <2>1. CASE Poll
      <3>1. /\ depth' = depth + 1 /\ depth \in Nat
            /\ \A j \in 1..depth : frame'[j] = frame[j]
            /\ frame'[depth'].lt = ltState
            /\ frame'[depth'].pc = "map" => valid
        BY <2>1, MaxDepthAssumption DEF Poll, NoFrame, TypeOK
      <3>2. valid /\ HasMetadata(ltState) => hasMetadata'
        BY <2>1, Zenon DEF Poll, MetadataDue
      <3> QED
        BY <1>1, <3>1, <3>2 DEF MetadataReported
    <2>2. CASE PollStep
      \* The frame that moves leaves "map" behind.
      <3>1. ASSUME NEW pc, NEW emits, NEW old, NEW new, pc # "map",
                   Goto(pc, emits, old, new), depth' = depth
            PROVE  \A j \in 1..depth' :
                       frame'[j].pc = "map" => frame'[j] = frame[j]
        BY <3>1 DEF Goto, NoFrame, TypeOK
      <3>2. CASE CheckSeedRatio
        BY <1>1, <3>2 DEF CheckSeedRatio, MetadataReported, TypeOK
      <3>3. CASE Map \/ Complete \/ Notify \/ Seeded
        <4>1. \A j \in 1..depth' : frame'[j].pc = "map" => frame'[j] = frame[j]
          BY <3>1, <3>3 DEF Map, Complete, Notify, Seeded
        <4> QED
          BY <1>1, <3>3, <4>1
          DEF MetadataReported, Map, Complete, Notify, Seeded
      <3> QED
        BY <2>2, <3>2, <3>3 DEF PollStep
    <2>3. CASE UNCHANGED <<depth, frame>>
      BY <1>1, <2>3 DEF MetadataReported
    <2> QED
      BY <2>1, <2>2, <2>3
      DEF Next, Application, Libtorrent, vars, stack, Start, Stop, Pause,
          SetSeedRatioLimit, LtProgress, LtTransfer, LtAutoManage, LtExpire
  <1>3. MetadataBeforeProgress'
    <2>1. CASE Map
      <3>1. state' = NewState(Top.lt, Top.paused, state) /\ depth \in 1..depth
        BY <2>1 DEF Map, TypeOK
      <3>2. HasMetadata(Top.lt) => hasMetadata
        BY <2>1, <3>1 DEF MetadataReported, Map, Top
      <3> QED
        BY <1>1, <3>1, <3>2
        DEF NewState, Mapped, HasMetadata, MetadataBeforeProgress
    <2>2. CASE state' = state \/ state' \in {"Idle", "Paused"}
      BY <1>1, <2>2 DEF MetadataBeforeProgress
    <2> QED
      BY <2>1, <2>2
      DEF Next, Application, Libtorrent, PollStep, vars, wrapper, Start, Stop,
          Pause, PauseAs, SetSeedRatioLimit, LtProgress, LtTransfer,
          LtAutoManage, LtExpire, Poll, Complete, Notify, Seeded, CheckSeedRatio
  <1> QED
    BY <1>0, <1>2, <1>3

(* No torrent is shown checking, downloading or seeding before its          *)
(* metadataReceived.                                                        *)
THEOREM MetadataFirst == Spec => []MetadataBeforeProgress
  BY InitMetadataInv, NextMetadataInv, PTL DEF Spec, MetadataInv

=============================================================================
