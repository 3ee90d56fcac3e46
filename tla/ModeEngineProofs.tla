-------------------------- MODULE ModeEngineProofs --------------------------
(***************************************************************************)
(* Theorems about ModeEngine: type correctness, that the polling loop      *)
(* never loses track of a torrent it stopped, what it starts in NORMAL and *)
(* what it spares in SOFT.  The last three are action properties; their    *)
(* proofs need to know how much of the tick's lists is still true at the   *)
(* server when the call is made.                                           *)
(***************************************************************************)
EXTENDS ModeEngine, QBittorrentProofs

-----------------------------------------------------------------------------
(* Types: the tick *)

LEMMA NoSnapshotType == NoSnapshot \in Snapshot
<1>1. Unknown \in Unknown..MaxLeft
  BY WorldAssumption DEF Unknown
<1>2. QED
  BY <1>1 DEF NoSnapshot, Snapshot, TorrentStates

LEMMA ForgetLocalsType ==
  ASSUME EngineTypeOK, Finish \/ Abandon
  PROVE  EngineTypeOK'
<1>1. snap' \in Snapshot
  BY NoSnapshotType DEF Finish, Abandon, ForgetLocals
<1>2. QED
  BY <1>1 DEF EngineTypeOK, EnginePc, Finish, Abandon, ForgetLocals

LEMMA ContinueType ==
  ASSUME EngineTypeOK, engPc # "idle",
         NEW next \in EnginePc \ {"idle"}, Continue(next),
         snap' \in Snapshot, engPaused' \subseteq Hash, engSoft' \subseteq Hash
  PROVE  EngineTypeOK'
BY DEF EngineTypeOK, Continue

LEMMA EngineStepWorldType ==
  ASSUME WorldTypeOK, EngineStep
  PROVE  WorldTypeOK'
<1>1. CASE StartTick \/ ProbePausedTag \/ ProbeSoftTag \/ TakeSnapshot
  BY <1>1, ReadCallType
  DEF StartTick, ProbePausedTag, ProbeSoftTag, TakeSnapshot
<1>2. CASE CleanupForced \/ HealPaused \/ UntagResumed
  BY <1>2, TagCallsType DEF CleanupForced, HealPaused, UntagResumed
<1>3. CASE CleanupCompleted \/ RevokeSoft \/ GrantSoft
  BY <1>3, TagCallsType DEF CleanupCompleted, RevokeSoft, GrantSoft
<1>4. CASE ResumePlanned
  BY <1>4, ResumeCallType DEF ResumePlanned
<1>5. CASE PauseDownloads
  BY <1>5, PauseCallType DEF PauseDownloads
<1>6. CASE MarkPaused
  BY <1>6, MarkCallType DEF MarkPaused
<1>7. QED
  BY <1>1, <1>2, <1>3, <1>4, <1>5, <1>6 DEF EngineStep

LEMMA EngineStepEngineType ==
  ASSUME TypeOK, EngineStep
  PROVE  EngineTypeOK'
<1> USE DEF TypeOK
<1>1. ASSUME engPc # "idle", NEW next \in EnginePc \ {"idle"}, Continue(next),
             KeepLists
      PROVE  EngineTypeOK'
  BY <1>1, ContinueType DEF KeepLists, EngineTypeOK
<1>2. CASE Finish \/ Abandon
  BY <1>2, ForgetLocalsType
<1> SUFFICES ASSUME ~Finish, ~Abandon PROVE EngineTypeOK'
  BY <1>2
<1>3. CASE StartTick
  <2>1. ClassifyMode(free) \in Mode
    BY ClassifyModeType
  <2>2. QED
    BY <1>3, <2>1, WorldAssumption
    DEF StartTick, EngineTypeOK, EnginePc, KeepLists, engineVars, tickLocals,
        WorldTypeOK
<1>4. CASE ProbePausedTag \/ ProbeSoftTag
  BY <1>1, <1>4 DEF ProbePausedTag, ProbeSoftTag, EnginePc
<1>5. CASE TakeSnapshot
  <2> DEFINE seen(h) == [state |-> State(h),
                         left |-> IF h \in listed THEN left[h] ELSE Unknown]
  <2>1. snap' = [h \in Hash |-> seen(h)]
    BY <1>5 DEF TakeSnapshot
  <2>2. ASSUME NEW h \in Hash
        PROVE  seen(h) \in [state : TorrentStates, left : Unknown..MaxLeft]
    <3>1. Unknown \in Unknown..MaxLeft
      BY WorldAssumption DEF Unknown
    <3>2. (IF h \in listed THEN left[h] ELSE Unknown) \in Unknown..MaxLeft
      BY <3>1 DEF WorldTypeOK
    <3>3. QED
      BY <3>2, StateType
  <2>3. snap' \in Snapshot
    BY <2>1, <2>2 DEF Snapshot
  <2>4. QED
    BY <1>5, <2>3, ContinueType DEF TakeSnapshot, EnginePc, WorldTypeOK
<1>6. CASE CleanupForced
  BY <1>6, ContinueType DEF CleanupForced, EnginePc, EngineTypeOK
<1>7. CASE CleanupCompleted
  BY <1>7, ContinueType DEF CleanupCompleted, EnginePc, EngineTypeOK
<1>8. CASE RevokeSoft
  BY <1>1, <1>8 DEF RevokeSoft, EnginePc
<1>9. CASE HealPaused
  BY <1>9, ContinueType DEF HealPaused, EnginePc, EngineTypeOK
<1>10. CASE ResumePlanned
  BY <1>1, <1>10 DEF ResumePlanned, EnginePc
<1>11. CASE UntagResumed \/ MarkPaused
  BY <1>11 DEF UntagResumed, MarkPaused
<1>12. CASE GrantSoft
  BY <1>12, ContinueType DEF GrantSoft, EnginePc, EngineTypeOK, ToGrant
<1>13. CASE PauseDownloads
  BY <1>1, <1>13 DEF PauseDownloads, EnginePc
<1>14. QED
  BY <1>3, <1>4, <1>5, <1>6, <1>7, <1>8, <1>9, <1>10, <1>11, <1>12, <1>13
  DEF EngineStep

LEMMA InitType == Init => TypeOK
<1> SUFFICES ASSUME Init PROVE TypeOK
  OBVIOUS
<1>1. WorldTypeOK
  BY WorldAssumption DEF Init, WorldInit, WorldTypeOK
<1>2. EngineTypeOK
  <2>1. NoSnapshot \in Snapshot
    BY NoSnapshotType
  <2>2. QED
    BY <2>1 DEF Init, EngineInit, EngineTypeOK, EnginePc
<1>3. QED
  BY <1>1, <1>2 DEF TypeOK

LEMMA TypeStep == TypeOK /\ [Next]_vars => TypeOK'
<1> SUFFICES ASSUME TypeOK, [Next]_vars PROVE TypeOK'
  OBVIOUS
<1>1. CASE EngineStep
  BY <1>1, EngineStepWorldType, EngineStepEngineType DEF TypeOK
<1>2. CASE WorldStep /\ UNCHANGED engineVars
  BY <1>2, WorldStepType DEF TypeOK, EngineTypeOK, engineVars, tickLocals
<1>3. CASE UNCHANGED vars
  BY <1>3 DEF TypeOK, WorldTypeOK, EngineTypeOK, vars, worldVars,
              torrentVars, historyVars, engineVars, tickLocals
<1>4. QED
  BY <1>1, <1>2, <1>3 DEF Next

(* Every variable of the polling loop (engine.py) and of the server it     *)
(* talks to keeps its type, for any torrents, thresholds and bounds.       *)
THEOREM TypeCorrect == Spec => []TypeOK
BY InitType, TypeStep, PTL DEF Spec

-----------------------------------------------------------------------------
(* The inductive invariant behind StrandedOnlyByCut.  Only three calls can *)
(* break it: the two that take the paused tag off, on the word of an old   *)
(* snapshot, and the stop call.  So it says what the old snapshot is still *)
(* good for.                                                               *)

(* From the snapshot to the self-heal: a torrent DiskGuard holds was       *)
(* reported stopped, hence neither clean-up takes its tag.                 *)
HeldAreSeenStopped ==
  engPc \in {"forced", "completed", "revoke", "heal"} =>
    \A h \in engPaused :
      HeldByGuard(h) => IsPausedDownload(snap[h].state)

(* Between start and untag: what was started is not held. *)
StartedAreNotHeld ==
  engPc = "untag" => \A h \in ToResume : ~HeldByGuard(h)

IInv ==
  /\ TypeOK
  /\ checking = {}
  /\ HeldAreSeenStopped
  /\ StartedAreNotHeld
  /\ StrandedOnlyByCut

LEMMA NoChecks ==
  ASSUME "recheck" \notin UserMoves, checking = {}, WorldStep
  PROVE  checking' = {}
BY DEF WorldStep, AddTorrent, RemoveTorrent, UserPause, UserResume, UserForce,
       UserStarts, StartCheck, EndCheck, MetadataArrives, Progress,
       DiskChanges, Moves, torrentVars

LEMMA WorldStepKeepsIInv ==
  ASSUME "recheck" \notin UserMoves, IInv, WorldStep, UNCHANGED engineVars
  PROVE  IInv'
<1> USE DEF IInv
<1>1. TypeOK'
  BY WorldStepType DEF TypeOK, EngineTypeOK, engineVars, tickLocals
<1>2. \A h \in Hash : HeldByGuard(h)' =>
        /\ HeldByGuard(h)
        /\ h \in pausedTag => h \in pausedTag'
        /\ h \in cut => h \in cut'
  BY WorldNeverHolds DEF TypeOK
<1>3. checking' = {}
  BY NoChecks
<1>4. UNCHANGED <<engPc, engMode, engFree, snap, engPaused, engSoft>>
  BY DEF engineVars, tickLocals
<1>5. ToResume' = ToResume /\ ToPause' = ToPause
  BY <1>4 DEF ToResume, ToPause
<1>6. HeldAreSeenStopped'
  BY <1>2, <1>4 DEF HeldAreSeenStopped, TypeOK, EngineTypeOK
<1>7. ToResume \subseteq Hash
  BY DEF ToResume, Planned, EligibleCandidates, TypeOK, EngineTypeOK
<1>8. StartedAreNotHeld'
  BY <1>2, <1>4, <1>5, <1>7 DEF StartedAreNotHeld
<1>9. StrandedOnlyByCut'
  BY <1>2, <1>4, <1>5 DEF StrandedOnlyByCut, Stranded, EngineAboutToMark
<1>10. QED
  BY <1>1, <1>3, <1>6, <1>8, <1>9

-----------------------------------------------------------------------------
(* Steps of the tick *)

(* A call that leaves listed, intent, left, stopper and the marks alone *)
QuietCall == UNCHANGED <<listed, intent, left, checking, pausedTag, stopper,
                         cut>>

(* Every step that is neither a stop nor an untag nor a snapshot *)
LEMMA QuietStepKeepsIInv ==
  ASSUME IInv, TypeOK', QuietCall,
         engPc \notin {"mark", "resume", "untag"},
         engPc' \notin {"mark", "untag"},
         engPc' \in {"completed", "revoke", "heal"} =>
           /\ engPc \in {"forced", "completed", "revoke"}
           /\ UNCHANGED <<snap, engPaused>>,
         engPc' # "forced"
  PROVE  IInv'
<1>1. \A h : HeldByGuard(h)' = HeldByGuard(h)
  BY DEF QuietCall, HeldByGuard
<1>2. HeldAreSeenStopped'
  BY <1>1 DEF IInv, HeldAreSeenStopped
<1>3. StartedAreNotHeld'
  BY DEF StartedAreNotHeld
<1>4. StrandedOnlyByCut'
  BY <1>1 DEF IInv, StrandedOnlyByCut, Stranded, EngineAboutToMark, QuietCall
<1>5. QED
  BY <1>2, <1>3, <1>4 DEF IInv, QuietCall

(* A clean-up takes the tag off torrents that were not seen stopped. *)
LEMMA CleanupKeepsIInv ==
  ASSUME IInv, TypeOK', NEW batch, NEW r, UnmarkCall(batch, r),
         engPc \in {"forced", "heal"},
         engPc' \in {"idle", "completed", "resume"},
         \A h \in batch : h \in engPaused /\ ~IsPausedDownload(snap[h].state),
         engPc' = "completed" => snap' = snap /\ engPaused' \subseteq engPaused
  PROVE  IInv'
<1>1. \A h : HeldByGuard(h)' = HeldByGuard(h)
  BY DEF UnmarkCall, HeldByGuard, historyVars
<1>2. \A h \in batch : ~HeldByGuard(h)
  BY DEF IInv, HeldAreSeenStopped
<1>3. HeldAreSeenStopped'
  BY <1>1 DEF IInv, HeldAreSeenStopped
<1>4. StartedAreNotHeld'
  BY DEF StartedAreNotHeld
<1>5. StrandedOnlyByCut'
  BY <1>1, <1>2
  DEF IInv, StrandedOnlyByCut, Stranded, EngineAboutToMark, UnmarkCall,
      historyVars
<1>6. QED
  BY <1>3, <1>4, <1>5 DEF IInv, UnmarkCall

LEMMA SnapshotKeepsIInv ==
  ASSUME IInv, TypeOK', TakeSnapshot
  PROVE  IInv'
<1>1. UNCHANGED <<listed, intent, left, checking, pausedTag, stopper, cut>>
  BY DEF TakeSnapshot, ReadCall, torrentVars, historyVars
<1>2. \A h : HeldByGuard(h)' = HeldByGuard(h)
  BY <1>1 DEF HeldByGuard
<1>3. engPc' \in {"idle", "forced"}
  BY DEF TakeSnapshot, Continue, Abandon, ForgetLocals
<1>4. ASSUME engPc' = "forced", NEW h \in engPaused', HeldByGuard(h)
      PROVE  IsPausedDownload(snap'[h].state)
  <2>1. h \in Hash /\ snap'[h].state = State(h)
    BY <1>4 DEF TakeSnapshot, Abandon, ForgetLocals, IInv, TypeOK, WorldTypeOK
  <2>2. State(h) = "pausedDL"
    BY <1>4 DEF IInv, HeldByGuard, State, Reported
  <2>3. QED
    BY <2>1, <2>2 DEF IsPausedDownload, PausedDownloadStates
<1>5. HeldAreSeenStopped'
  BY <1>2, <1>3, <1>4 DEF HeldAreSeenStopped
<1>6. StartedAreNotHeld'
  BY <1>3 DEF StartedAreNotHeld
<1>7. StrandedOnlyByCut'
  BY <1>1, <1>2 DEF IInv, StrandedOnlyByCut, Stranded, EngineAboutToMark,
                    TakeSnapshot
<1>8. QED
  BY <1>1, <1>5, <1>6, <1>7 DEF IInv

LEMMA ResumeKeepsIInv ==
  ASSUME IInv, TypeOK', ResumePlanned
  PROVE  IInv'
<1>1. PICK r \in Outcome :
        /\ ResumeCall(ToResume, r)
        /\ IF r = "raise" THEN Abandon
           ELSE IF r = "ok" /\ ToResume # {} THEN Continue("untag") /\ KeepLists
           ELSE Finish
  BY DEF ResumePlanned
<1>2. engPc' \in {"idle", "untag"}
  BY <1>1 DEF Abandon, Continue, Finish, ForgetLocals
<1>3. engPc' = "untag" => r = "ok" /\ ToResume' = ToResume
  BY <1>1 DEF Abandon, Continue, Finish, ForgetLocals, KeepLists, ToResume
<1>4. ToResume \subseteq Hash
  BY DEF ToResume, Planned, EligibleCandidates, IInv, TypeOK, EngineTypeOK
<1>5. ASSUME NEW h \in Hash, HeldByGuard(h)'
      PROVE  /\ HeldByGuard(h)
             /\ ~(Took(r) /\ h \in ToResume)
             /\ h \in cut => h \in cut'
  BY <1>1, <1>5 DEF ResumeCall, HeldByGuard, IInv, TypeOK, WorldTypeOK
<1>6. HeldAreSeenStopped'
  BY <1>2 DEF HeldAreSeenStopped
<1>7. StartedAreNotHeld'
  BY <1>3, <1>4, <1>5 DEF StartedAreNotHeld, Took
<1>8. StrandedOnlyByCut'
  BY <1>1, <1>5 DEF IInv, StrandedOnlyByCut, Stranded, EngineAboutToMark,
                    ResumePlanned, ResumeCall
<1>9. QED
  BY <1>1, <1>6, <1>7, <1>8 DEF IInv, ResumeCall

LEMMA UntagKeepsIInv ==
  ASSUME IInv, TypeOK', UntagResumed
  PROVE  IInv'
<1>1. PICK r \in Outcome : UnmarkCall(ToResume, r)
  BY DEF UntagResumed
<1>2. engPc' = "idle"
  BY DEF UntagResumed, Abandon, Finish, ForgetLocals
<1>3. \A h : HeldByGuard(h)' = HeldByGuard(h)
  BY <1>1 DEF UnmarkCall, HeldByGuard, historyVars
<1>4. HeldAreSeenStopped' /\ StartedAreNotHeld'
  BY <1>2 DEF HeldAreSeenStopped, StartedAreNotHeld
<1>5. \A h \in ToResume : ~HeldByGuard(h)
  BY DEF IInv, StartedAreNotHeld, UntagResumed
<1>6. StrandedOnlyByCut'
  BY <1>1, <1>3, <1>5
  DEF IInv, StrandedOnlyByCut, Stranded, EngineAboutToMark, UntagResumed,
      UnmarkCall, historyVars
<1>7. QED
  BY <1>1, <1>4, <1>6 DEF IInv, UnmarkCall

LEMMA PauseKeepsIInv ==
  ASSUME IInv, TypeOK', PauseDownloads
  PROVE  IInv'
<1>1. PICK r \in Outcome :
        /\ PauseCall(ToPause, r)
        /\ IF r = "raise" THEN Abandon
           ELSE IF r = "ok" /\ ToPause # {} THEN Continue("mark") /\ KeepLists
           ELSE Finish
  BY DEF PauseDownloads
<1>2. engPc' \in {"idle", "mark"}
  BY <1>1 DEF Abandon, Continue, Finish, ForgetLocals
<1>3. HeldAreSeenStopped' /\ StartedAreNotHeld'
  BY <1>2 DEF HeldAreSeenStopped, StartedAreNotHeld
<1>4. r = "ok" /\ ToPause # {} => engPc' = "mark" /\ ToPause' = ToPause
  BY <1>1 DEF Continue, KeepLists, ToPause
<1>5. ASSUME NEW h \in Hash, HeldByGuard(h)', h \notin pausedTag'
      PROVE  h \in cut' \/ EngineAboutToMark(h)'
  <2>1. CASE Took(r) /\ h \in ToPause
    <3>1. CASE r = "ok"
      BY <1>4, <2>1, <3>1 DEF EngineAboutToMark
    <3>2. CASE r = "lost"
      BY <1>1, <1>5, <2>1, <3>2 DEF PauseCall, PauseTakes, HeldByGuard
    <3>3. QED
      BY <2>1, <3>1, <3>2 DEF Took
  <2>2. CASE ~(Took(r) /\ h \in ToPause)
    <3>1. Stranded(h)
      BY <1>1, <1>5, <2>2 DEF PauseCall, PauseTakes, HeldByGuard, Stranded, IInv, TypeOK,
                              WorldTypeOK
    <3>2. h \in cut
      BY <3>1 DEF IInv, StrandedOnlyByCut, EngineAboutToMark, PauseDownloads
    <3>3. QED
      BY <1>1, <3>2 DEF PauseCall, PauseTakes
  <2>3. QED
    BY <2>1, <2>2
<1>6. StrandedOnlyByCut'
  BY <1>5 DEF StrandedOnlyByCut, Stranded
<1>7. QED
  BY <1>1, <1>3, <1>6 DEF IInv, PauseCall, PauseTakes

LEMMA MarkKeepsIInv ==
  ASSUME IInv, TypeOK', MarkPaused
  PROVE  IInv'
<1>1. PICK r \in Outcome : MarkCall(ToPause, r)
  BY DEF MarkPaused
<1>2. engPc' = "idle"
  BY DEF MarkPaused, Abandon, Finish, ForgetLocals
<1>3. \A h : HeldByGuard(h)' = HeldByGuard(h)
  BY <1>1 DEF MarkCall, HeldByGuard
<1>4. HeldAreSeenStopped' /\ StartedAreNotHeld'
  BY <1>2 DEF HeldAreSeenStopped, StartedAreNotHeld
<1>5. ASSUME NEW h \in Hash, HeldByGuard(h), h \notin pausedTag'
      PROVE  h \in cut'
  <2>1. Stranded(h)
    BY <1>1, <1>5 DEF MarkCall, Stranded
  <2>2. h \in cut \/ h \in ToPause
    BY <2>1 DEF IInv, StrandedOnlyByCut, EngineAboutToMark
  <2>3. CASE Took(r)
    BY <1>1, <1>5, <2>2, <2>3 DEF MarkCall, HeldByGuard
  <2>4. CASE ~Took(r)
    BY <1>1, <1>5, <2>2, <2>4 DEF MarkCall, HeldByGuard
  <2>5. QED
    BY <2>3, <2>4
<1>6. StrandedOnlyByCut'
  BY <1>3, <1>5 DEF StrandedOnlyByCut, Stranded
<1>7. QED
  BY <1>1, <1>4, <1>6 DEF IInv, MarkCall

LEMMA EngineStepKeepsIInv ==
  ASSUME IInv, EngineStep
  PROVE  IInv'
<1> USE DEF Continue, Abandon, Finish, ForgetLocals, KeepLists
<1>1. TypeOK'
  BY EngineStepWorldType, EngineStepEngineType DEF IInv, TypeOK
<1>2. CASE StartTick \/ ProbePausedTag \/ ProbeSoftTag
  <2>1. QuietCall
    BY <1>2 DEF StartTick, ProbePausedTag, ProbeSoftTag, ReadCall, QuietCall,
                torrentVars, historyVars
  <2>2. /\ engPc \in {"idle", "probePaused", "probeSoft"}
        /\ engPc' \in {"idle", "probePaused", "probeSoft", "snapshot"}
    BY <1>2 DEF StartTick, ProbePausedTag, ProbeSoftTag, engineVars
  <2>3. QED
    BY <1>1, <2>1, <2>2, QuietStepKeepsIInv
<1>3. CASE TakeSnapshot
  BY <1>1, <1>3, SnapshotKeepsIInv
<1>4. CASE CleanupForced
  <2>1. PICK r \in Outcome : UnmarkCall(ForcedPaused, r)
    BY <1>4 DEF CleanupForced
  <2>2. \A h \in ForcedPaused : h \in engPaused /\ ~IsPausedDownload(snap[h].state)
    BY DEF ForcedPaused, IsForced, IsPausedDownload, PausedDownloadStates
  <2>3. /\ engPc' \in {"idle", "completed"}
        /\ engPc' = "completed" => snap' = snap /\ engPaused' \subseteq engPaused
    BY <1>4 DEF CleanupForced
  <2>4. engPc = "forced"
    BY <1>4 DEF CleanupForced
  <2>5. QED
    BY <1>1, <2>1, <2>2, <2>3, <2>4, CleanupKeepsIInv
<1>5. CASE CleanupCompleted \/ RevokeSoft \/ GrantSoft
  <2>1. QuietCall
    BY <1>5 DEF CleanupCompleted, RevokeSoft, GrantSoft, RevokeCall, GrantCall,
                QuietCall, historyVars
  <2>2. engPc \in {"completed", "revoke", "grant"}
    BY <1>5 DEF CleanupCompleted, RevokeSoft, GrantSoft
  <2>3. engPc' \in {"idle", "revoke", "grant", "heal", "pause"}
    BY <1>5 DEF CleanupCompleted, RevokeSoft, GrantSoft
  <2>4. engPc' \in {"revoke", "heal"} =>
          engPc # "grant" /\ UNCHANGED <<snap, engPaused>>
    BY <1>5 DEF CleanupCompleted, RevokeSoft, GrantSoft
  <2>5. QED
    BY <1>1, <2>1, <2>2, <2>3, <2>4, QuietStepKeepsIInv
<1>6. CASE HealPaused
  <2>1. PICK r \in Outcome : UnmarkCall(SelfHeal, r)
    BY <1>6 DEF HealPaused
  <2>2. \A h \in SelfHeal : h \in engPaused /\ ~IsPausedDownload(snap[h].state)
    BY DEF SelfHeal
  <2>3. engPc = "heal" /\ engPc' \in {"idle", "resume"}
    BY <1>6 DEF HealPaused
  <2>4. QED
    BY <1>1, <2>1, <2>2, <2>3, CleanupKeepsIInv
<1>7. CASE ResumePlanned
  BY <1>1, <1>7, ResumeKeepsIInv
<1>8. CASE UntagResumed
  BY <1>1, <1>8, UntagKeepsIInv
<1>9. CASE PauseDownloads
  BY <1>1, <1>9, PauseKeepsIInv
<1>10. CASE MarkPaused
  BY <1>1, <1>10, MarkKeepsIInv
<1>11. QED
  BY <1>2, <1>3, <1>4, <1>5, <1>6, <1>7, <1>8, <1>9, <1>10 DEF EngineStep

LEMMA InitIInv == Init => IInv
<1> SUFFICES ASSUME Init PROVE IInv
  OBVIOUS
<1>1. TypeOK
  BY InitType
<1>2. HeldAreSeenStopped /\ StartedAreNotHeld
  BY DEF Init, EngineInit, HeldAreSeenStopped, StartedAreNotHeld
<1>3. StrandedOnlyByCut
  BY DEF Init, WorldInit, StrandedOnlyByCut, Stranded, HeldByGuard
<1>4. checking = {}
  BY DEF Init, WorldInit
<1>5. QED
  BY <1>1, <1>2, <1>3, <1>4 DEF IInv

LEMMA IInvInductive ==
  ASSUME "recheck" \notin UserMoves
  PROVE  IInv /\ [Next]_vars => IInv'
<1> SUFFICES ASSUME IInv, [Next]_vars PROVE IInv'
  OBVIOUS
<1>1. CASE EngineStep
  BY <1>1, EngineStepKeepsIInv
<1>2. CASE WorldStep /\ UNCHANGED engineVars
  BY <1>2, WorldStepKeepsIInv
<1>3. CASE UNCHANGED vars
  <2>1. UNCHANGED <<listed, intent, left, checking, pausedTag, softTag, free,
                    userMoves, faults, stopper, cut, engPc, prevMode,
                    engMode, engFree, snap, engPaused, engSoft>>
    BY <1>3 DEF vars, worldVars, torrentVars, historyVars, engineVars,
                tickLocals
  <2>2. TypeOK'
    BY <2>1 DEF IInv, TypeOK, WorldTypeOK, EngineTypeOK
  <2>3. ToPause' = ToPause /\ ToResume' = ToResume
    BY <2>1 DEF ToPause, ToResume
  <2>4. QED
    BY <2>1, <2>2, <2>3
    DEF IInv, HeldAreSeenStopped, StartedAreNotHeld, StrandedOnlyByCut,
        Stranded, HeldByGuard, EngineAboutToMark
<1>4. QED
  BY <1>1, <1>2, <1>3 DEF Next

(* Whatever the user does short of a recheck, and however its calls fail,  *)
(* the polling loop (engine.py, resume_planner.py) loses track of a        *)
(* torrent it stopped only where _pause_and_mark is cut between its calls. *)
THEOREM NoTorrentLost ==
  ASSUME "recheck" \notin UserMoves
  PROVE  Spec => []StrandedOnlyByCut
<1>1. IInv => StrandedOnlyByCut
  BY DEF IInv
<1>2. QED
  BY InitIInv, IInvInductive, <1>1, PTL DEF Spec

-----------------------------------------------------------------------------
(* The ledger.  What a step of TagLedger asks is the same for every        *)
(* torrent, so each step is shown entry by entry.                          *)

LEMMA EngineTurns ==
  ASSUME \A h \in Hash :
           \/ EngineEntry(h)' \in {EngineEntry(h), "free", "held"}
           \/ /\ EngineEntry(h)' = "stopping"
              /\ EngineEntry(h) \in {"free", "lost"},
         faults' >= faults
  PROVE  EngineLedger!LedgerNext
<1> DEFINE entries == [h \in Hash |-> EngineEntry(h)]
<1>1. \A h \in Hash : EngineEntry(h)' \in EngineLedger!Entry
  BY DEF EngineEntry, EngineLedger!Entry
<1>2. entries' \in [Hash -> EngineLedger!Entry]
  BY <1>1
<1>3. ASSUME NEW h \in Hash
      PROVE  <<entries[h], entries'[h]>> \in EngineLedger!Permitted
  <2>1. EngineEntry(h) \in EngineLedger!Entry
    BY DEF EngineEntry, EngineLedger!Entry
  <2>2. <<EngineEntry(h), EngineEntry(h)'>> \in EngineLedger!Permitted
    BY <2>1 DEF EngineLedger!Permitted, EngineLedger!Entry
  <2>3. QED
    BY <2>2
<1>4. QED
  BY <1>2, <1>3 DEF EngineLedger!LedgerNext, EngineLedger!Turns

LEMMA EngineIncident ==
  ASSUME \A h \in Hash :
           \/ EngineEntry(h)' \in {EngineEntry(h), "free", "held"}
           \/ /\ EngineEntry(h)' = "stopping"
              /\ EngineEntry(h) \in {"free", "lost"}
           \/ /\ EngineEntry(h)' = "lost"
              /\ EngineEntry(h) \in {"free", "stopping"},
         faults' > faults
  PROVE  EngineLedger!LedgerNext
<1> DEFINE entries == [h \in Hash |-> EngineEntry(h)]
           moves == EngineLedger!Permitted \cup EngineLedger!Losses
<1>1. \A h \in Hash : EngineEntry(h)' \in EngineLedger!Entry
  BY DEF EngineEntry, EngineLedger!Entry
<1>2. entries' \in [Hash -> EngineLedger!Entry]
  BY <1>1
<1>3. ASSUME NEW h \in Hash
      PROVE  <<entries[h], entries'[h]>> \in moves
  <2>1. EngineEntry(h) \in EngineLedger!Entry
    BY DEF EngineEntry, EngineLedger!Entry
  <2>2. <<EngineEntry(h), EngineEntry(h)'>> \in moves
    BY <2>1 DEF EngineLedger!Permitted, EngineLedger!Losses, EngineLedger!Entry
  <2>3. QED
    BY <2>2
<1>4. QED
  BY <1>2, <1>3 DEF EngineLedger!LedgerNext, EngineLedger!Turns

LEMMA WorldKeepsEngineLedger ==
  ASSUME IInv, WorldStep, UNCHANGED engineVars
  PROVE  EngineLedger!LedgerNext
<1>1. pausedTag' \subseteq pausedTag /\ faults' = faults
  BY WorldNeverTags
<1>2. UNCHANGED <<engPc, engMode, snap, engSoft>>
  BY DEF engineVars, tickLocals
<1>3. ASSUME NEW h \in Hash
      PROVE  EngineEntry(h)' \in {EngineEntry(h), "free"}
  <2>1. CASE ~HeldByGuard(h)'
    BY <2>1 DEF EngineEntry
  <2>2. CASE HeldByGuard(h)'
    <3>1. HeldByGuard(h) /\ (h \in pausedTag => h \in pausedTag')
      BY <2>2, WorldNeverHolds DEF IInv, TypeOK
    <3>2. EngineAboutToMark(h)' = EngineAboutToMark(h)
      BY <1>2 DEF EngineAboutToMark, ToPause
    <3>3. QED
      BY <1>1, <2>2, <3>1, <3>2 DEF EngineEntry
  <2>3. QED
    BY <2>1, <2>2
<1>4. faults' >= faults
  BY <1>1 DEF IInv, TypeOK, WorldTypeOK
<1>5. QED
  BY <1>3, <1>4, EngineTurns

(* An untag or a step that changes no torrent and no paused tag: what is   *)
(* untagged is not held.                                                   *)
LEMMA UntagKeepsEngineLedger ==
  ASSUME IInv, faults' >= faults,
         UNCHANGED <<listed, intent, left, stopper>>,
         engPc # "mark", engPc' # "mark",
         pausedTag' \subseteq pausedTag,
         \A h \in pausedTag \ pausedTag' : ~HeldByGuard(h)
  PROVE  EngineLedger!LedgerNext
<1>1. \A h \in Hash : HeldByGuard(h)' = HeldByGuard(h)
  BY DEF HeldByGuard
<1>2. \A h \in Hash : EngineEntry(h)' = EngineEntry(h)
  BY <1>1 DEF EngineEntry, EngineAboutToMark
<1>3. QED
  BY <1>2, EngineTurns

LEMMA UnmarkKeepsEngineLedger ==
  ASSUME IInv, NEW batch, NEW r, UnmarkCall(batch, r),
         \A h \in batch : ~HeldByGuard(h),
         engPc # "mark", engPc' # "mark"
  PROVE  EngineLedger!LedgerNext
<1>1. /\ UNCHANGED <<listed, intent, left, stopper>>
      /\ pausedTag' \subseteq pausedTag
      /\ \A h \in pausedTag \ pausedTag' : ~HeldByGuard(h)
  BY DEF UnmarkCall, historyVars
<1>2. faults' >= faults
  BY IncidentsAreCounted DEF UnmarkCall, IInv, TypeOK
<1>3. QED
  BY <1>1, <1>2, UntagKeepsEngineLedger

LEMMA ResumeKeepsEngineLedger ==
  ASSUME IInv, ResumePlanned
  PROVE  EngineLedger!LedgerNext
<1>1. PICK r \in Outcome : ResumeCall(ToResume, r)
  BY DEF ResumePlanned
<1>2. faults' >= faults
  BY <1>1, IncidentsAreCounted DEF ResumeCall, IInv, TypeOK
<1>3. engPc # "mark" /\ engPc' # "mark"
  BY DEF ResumePlanned, Abandon, Continue, Finish, ForgetLocals
<1>4. ASSUME NEW h \in Hash
      PROVE  HeldByGuard(h)' => HeldByGuard(h)
  BY <1>1 DEF ResumeCall, HeldByGuard, IInv, TypeOK, WorldTypeOK
<1>5. \A h \in Hash : EngineEntry(h)' \in {EngineEntry(h), "free"}
  BY <1>1, <1>3, <1>4 DEF EngineEntry, EngineAboutToMark, ResumeCall
<1>6. QED
  BY <1>2, <1>5, EngineTurns

LEMMA PauseKeepsEngineLedger ==
  ASSUME IInv, PauseDownloads
  PROVE  EngineLedger!LedgerNext
<1>1. PICK r \in Outcome :
        /\ PauseCall(ToPause, r)
        /\ IF r = "raise" THEN Abandon
           ELSE IF r = "ok" /\ ToPause # {} THEN Continue("mark") /\ KeepLists
           ELSE Finish
  BY DEF PauseDownloads
<1>2. engPc # "mark"
  BY DEF PauseDownloads
<1>3. UNCHANGED <<listed, left, pausedTag>>
  BY <1>1 DEF PauseCall, PauseTakes
<1>4. CASE r = "ok"
  <2>1. \A h \in Hash : h \notin ToPause => HeldByGuard(h)' = HeldByGuard(h)
    BY <1>1 DEF PauseCall, PauseTakes, HeldByGuard, IInv, TypeOK, WorldTypeOK
  <2>2. \A h \in Hash : HeldByGuard(h) => HeldByGuard(h)'
    BY <1>1 DEF PauseCall, PauseTakes, HeldByGuard, IInv, TypeOK, WorldTypeOK
  <2>3. ToPause # {} => engPc' = "mark" /\ ToPause' = ToPause
    BY <1>1, <1>4 DEF Continue, KeepLists, ToPause
  <2>4. ToPause = {} => engPc' # "mark"
    BY <1>1 DEF Abandon, Finish, ForgetLocals
  <2>5. \A h \in Hash :
          \/ EngineEntry(h)' \in {EngineEntry(h), "held"}
          \/ /\ EngineEntry(h)' = "stopping"
             /\ EngineEntry(h) \in {"free", "lost"}
    BY <1>2, <1>3, <2>1, <2>2, <2>3, <2>4 DEF EngineEntry, EngineAboutToMark
  <2>6. faults' >= faults
    BY <1>1, IncidentsAreCounted DEF PauseCall, IInv, TypeOK
  <2>7. QED
    BY <2>5, <2>6, EngineTurns
<1>5. CASE r # "ok"
  <2>1. engPc' # "mark"
    BY <1>1, <1>5 DEF Abandon, Finish, ForgetLocals
  <2>2. \A h \in Hash : HeldByGuard(h) => HeldByGuard(h)'
    BY <1>1 DEF PauseCall, PauseTakes, HeldByGuard, IInv, TypeOK, WorldTypeOK
  <2>3. \A h \in Hash :
          \/ EngineEntry(h)' \in {EngineEntry(h), "held"}
          \/ EngineEntry(h)' = "lost" /\ EngineEntry(h) = "free"
    BY <1>2, <1>3, <2>1, <2>2 DEF EngineEntry, EngineAboutToMark
  <2>4. faults' > faults
    BY <1>1, <1>5, IncidentsAreCounted DEF PauseCall, IInv, TypeOK
  <2>5. QED
    BY <2>3, <2>4, EngineIncident
<1>6. QED
  BY <1>4, <1>5

LEMMA MarkKeepsEngineLedger ==
  ASSUME IInv, MarkPaused
  PROVE  EngineLedger!LedgerNext
<1>1. PICK r \in Outcome : MarkCall(ToPause, r)
  BY DEF MarkPaused
<1>2. engPc = "mark" /\ engPc' # "mark"
  BY DEF MarkPaused, Abandon, Finish, ForgetLocals
<1>3. \A h \in Hash : HeldByGuard(h)' = HeldByGuard(h)
  BY <1>1 DEF MarkCall, HeldByGuard
<1>4. CASE Took(r)
  <2>1. pausedTag' = pausedTag \cup (ToPause \cap listed)
    BY <1>1, <1>4 DEF MarkCall
  <2>2. \A h \in Hash : EngineEntry(h)' \in {EngineEntry(h), "held"}
    BY <1>2, <1>3, <2>1 DEF EngineEntry, EngineAboutToMark, HeldByGuard
  <2>3. faults' >= faults
    BY <1>1, IncidentsAreCounted DEF MarkCall, IInv, TypeOK
  <2>4. QED
    BY <2>2, <2>3, EngineTurns
<1>5. CASE ~Took(r)
  <2>1. pausedTag' = pausedTag
    BY <1>1, <1>5 DEF MarkCall
  <2>2. \A h \in Hash :
          \/ EngineEntry(h)' = EngineEntry(h)
          \/ EngineEntry(h)' = "lost" /\ EngineEntry(h) = "stopping"
    BY <1>2, <1>3, <2>1 DEF EngineEntry, EngineAboutToMark
  <2>3. faults' > faults
    BY <1>1, <1>5, IncidentsAreCounted DEF MarkCall, Took, IInv, TypeOK
  <2>4. QED
    BY <2>2, <2>3, EngineIncident
<1>6. QED
  BY <1>4, <1>5

LEMMA EngineStepKeepsEngineLedger ==
  ASSUME IInv, EngineStep
  PROVE  EngineLedger!LedgerNext
<1> USE DEF Continue, Abandon, Finish, ForgetLocals
<1>1. CASE StartTick \/ ProbePausedTag \/ ProbeSoftTag \/ TakeSnapshot
  <2>1. PICK ok \in BOOLEAN : ReadCall(ok)
    BY <1>1 DEF StartTick, ProbePausedTag, ProbeSoftTag, TakeSnapshot
  <2>2. /\ UNCHANGED <<listed, intent, left, stopper, pausedTag>>
        /\ faults' \in {faults, faults + 1}
    BY <2>1 DEF ReadCall, torrentVars, historyVars
  <2>3. faults' >= faults
    BY <2>2 DEF IInv, TypeOK, WorldTypeOK
  <2>4. engPc # "mark" /\ engPc' # "mark"
    BY <1>1 DEF StartTick, ProbePausedTag, ProbeSoftTag, TakeSnapshot,
                engineVars
  <2>5. QED
    BY <2>2, <2>3, <2>4, UntagKeepsEngineLedger
<1>2. CASE CleanupForced
  <2>1. PICK r \in Outcome : UnmarkCall(ForcedPaused, r)
    BY <1>2 DEF CleanupForced
  <2>2. \A h \in ForcedPaused : ~HeldByGuard(h)
    BY <1>2 DEF CleanupForced, ForcedPaused, IsForced, IsPausedDownload,
                PausedDownloadStates, IInv, HeldAreSeenStopped
  <2>3. engPc # "mark" /\ engPc' # "mark"
    BY <1>2 DEF CleanupForced
  <2>4. QED
    BY <2>1, <2>2, <2>3, UnmarkKeepsEngineLedger
<1>3. CASE HealPaused
  <2>1. PICK r \in Outcome : UnmarkCall(SelfHeal, r)
    BY <1>3 DEF HealPaused
  <2>2. \A h \in SelfHeal : ~HeldByGuard(h)
    BY <1>3 DEF HealPaused, SelfHeal, IInv, HeldAreSeenStopped
  <2>3. engPc # "mark" /\ engPc' # "mark"
    BY <1>3 DEF HealPaused
  <2>4. QED
    BY <2>1, <2>2, <2>3, UnmarkKeepsEngineLedger
<1>4. CASE UntagResumed
  <2>1. PICK r \in Outcome : UnmarkCall(ToResume, r)
    BY <1>4 DEF UntagResumed
  <2>2. \A h \in ToResume : ~HeldByGuard(h)
    BY <1>4 DEF UntagResumed, IInv, StartedAreNotHeld
  <2>3. engPc # "mark" /\ engPc' # "mark"
    BY <1>4 DEF UntagResumed
  <2>4. QED
    BY <2>1, <2>2, <2>3, UnmarkKeepsEngineLedger
<1>5. CASE CleanupCompleted \/ RevokeSoft \/ GrantSoft
  <2>1. PICK r \in Outcome : \/ RevokeCall(CompletedSoft, r)
                            \/ RevokeCall(engSoft, r)
                            \/ GrantCall(ToGrant, r)
    BY <1>5 DEF CleanupCompleted, RevokeSoft, GrantSoft
  <2>2. UNCHANGED <<listed, intent, left, stopper, pausedTag>>
    BY <2>1 DEF GrantCall, RevokeCall, historyVars
  <2>3. faults' >= faults
    BY <2>1, IncidentsAreCounted DEF GrantCall, RevokeCall, IInv, TypeOK
  <2>4. engPc # "mark" /\ engPc' # "mark"
    BY <1>5 DEF CleanupCompleted, RevokeSoft, GrantSoft
  <2>5. QED
    BY <2>2, <2>3, <2>4, UntagKeepsEngineLedger
<1>6. CASE ResumePlanned
  BY <1>6, ResumeKeepsEngineLedger
<1>7. CASE PauseDownloads
  BY <1>7, PauseKeepsEngineLedger
<1>8. CASE MarkPaused
  BY <1>8, MarkKeepsEngineLedger
<1>9. QED
  BY <1>1, <1>2, <1>3, <1>4, <1>5, <1>6, <1>7, <1>8 DEF EngineStep

(* Short of rechecks, engine.py with the calls of resume_planner.py        *)
(* implements the ledger: nothing it stopped is ever forgotten without a   *)
(* call that failed, for any torrents, snapshots and interleavings.        *)
THEOREM EngineImplementsLedger ==
  ASSUME "recheck" \notin UserMoves
  PROVE  Spec => EngineKeepsLedger
<1>1. Init => EngineLedger!LedgerInit
  <2> SUFFICES ASSUME Init PROVE EngineLedger!LedgerInit
    OBVIOUS
  <2>1. \A h \in Hash : EngineEntry(h) \in {"free", "held"}
    BY DEF Init, WorldInit, EngineEntry, HeldByGuard
  <2>2. faults = 0
    BY DEF Init, WorldInit
  <2>3. QED
    BY <2>1, <2>2 DEF EngineLedger!LedgerInit
<1>2. IInv /\ [Next]_vars =>
        [EngineLedger!LedgerNext]_(EngineLedger!ledgerVars)
  <2> SUFFICES ASSUME IInv, [Next]_vars
               PROVE  \/ EngineLedger!LedgerNext
                      \/ UNCHANGED EngineLedger!ledgerVars
    OBVIOUS
  <2>1. CASE EngineStep
    BY <2>1, EngineStepKeepsEngineLedger
  <2>2. CASE WorldStep /\ UNCHANGED engineVars
    BY <2>2, WorldKeepsEngineLedger
  <2>3. CASE UNCHANGED vars
    BY <2>3 DEF vars, worldVars, torrentVars, historyVars, engineVars,
                tickLocals, EngineLedger!ledgerVars, EngineEntry, HeldByGuard,
                EngineAboutToMark, ToPause
  <2>4. QED
    BY <2>1, <2>2, <2>3 DEF Next
<1>3. Spec => []IInv
  BY InitIInv, IInvInductive, PTL DEF Spec
<1>4. QED
  BY <1>1, <1>2, <1>3, PTL DEF Spec, EngineKeepsLedger, EngineLedger!LedgerSpec

-----------------------------------------------------------------------------
(* Starting *)

(* Until the planner is through, what the snapshot showed stopped and      *)
(* tagged still carries the tag: the clean-ups spare it.                   *)
SeenStoppedIsTagged ==
  engPc \in {"forced", "completed", "revoke", "heal", "resume"} =>
    \A h \in engPaused : IsPausedDownload(snap[h].state) => h \in pausedTag

StartInv == TypeOK /\ SeenStoppedIsTagged

LEMMA NoRemovals ==
  ASSUME "remove" \notin UserMoves, WorldStep
  PROVE  pausedTag' = pausedTag
BY DEF WorldStep, AddTorrent, RemoveTorrent, UserPause, UserResume, UserForce,
       UserStarts, StartCheck, EndCheck, MetadataArrives, Progress,
       DiskChanges, Moves, torrentVars

LEMMA EngineStepKeepsStartInv ==
  ASSUME StartInv, EngineStep
  PROVE  StartInv'
<1> USE DEF StartInv, Continue, Abandon, Finish, ForgetLocals, KeepLists
<1>1. TypeOK'
  BY TypeStep DEF Next
<1>2. CASE StartTick \/ ProbePausedTag \/ ProbeSoftTag
  BY <1>1, <1>2 DEF StartTick, ProbePausedTag, ProbeSoftTag, engineVars,
                    SeenStoppedIsTagged
<1>3. CASE TakeSnapshot
  BY <1>1, <1>3 DEF TakeSnapshot, ReadCall, torrentVars, SeenStoppedIsTagged
<1>4. CASE CleanupForced
  <2>1. \A h \in ForcedPaused : ~IsPausedDownload(snap[h].state)
    BY DEF ForcedPaused, IsForced, IsPausedDownload, PausedDownloadStates
  <2>2. QED
    BY <1>1, <1>4, <2>1 DEF CleanupForced, UnmarkCall, SeenStoppedIsTagged
<1>5. CASE CleanupCompleted \/ RevokeSoft
  BY <1>1, <1>5 DEF CleanupCompleted, RevokeSoft, RevokeCall,
                    SeenStoppedIsTagged
<1>6. CASE HealPaused
  <2>1. \A h \in SelfHeal : ~IsPausedDownload(snap[h].state)
    BY DEF SelfHeal
  <2>2. QED
    BY <1>1, <1>6, <2>1 DEF HealPaused, UnmarkCall, SeenStoppedIsTagged
<1>7. CASE \/ ResumePlanned \/ UntagResumed
           \/ GrantSoft \/ PauseDownloads \/ MarkPaused
  BY <1>1, <1>7 DEF ResumePlanned, UntagResumed, GrantSoft, PauseDownloads,
                    MarkPaused, SeenStoppedIsTagged
<1>8. QED
  BY <1>2, <1>3, <1>4, <1>5, <1>6, <1>7 DEF EngineStep

LEMMA StartInvInductive ==
  ASSUME "remove" \notin UserMoves
  PROVE  StartInv /\ [Next]_vars => StartInv'
<1> SUFFICES ASSUME StartInv, [Next]_vars PROVE StartInv'
  OBVIOUS
<1>1. TypeOK'
  BY TypeStep DEF StartInv
<1>2. CASE EngineStep
  BY <1>2, EngineStepKeepsStartInv
<1>3. CASE WorldStep /\ UNCHANGED engineVars
  BY <1>1, <1>3, NoRemovals
  DEF engineVars, tickLocals, StartInv, SeenStoppedIsTagged
<1>4. CASE UNCHANGED vars
  BY <1>1, <1>4 DEF vars, worldVars, torrentVars, engineVars, tickLocals,
                    StartInv, SeenStoppedIsTagged
<1>5. QED
  BY <1>2, <1>3, <1>4 DEF Next

LEMMA PlannedWereStopped ==
  ASSUME TypeOK, NEW h \in ToResume
  PROVE  h \in engPaused /\ IsPausedDownload(snap[h].state)
BY DEF ToResume, Planned, EligibleCandidates, IsPausedDownload

LEMMA StartedAreTagged ==
  ASSUME StartInv, EngineStep, NEW h \in Hash, GuardStarts(h)
  PROVE  h \in pausedTag
<1>1. ResumePlanned
  BY DEF EngineStep, GuardStarts, StartTick, ProbePausedTag, ProbeSoftTag,
         TakeSnapshot, CleanupForced, CleanupCompleted, RevokeSoft,
         HealPaused, UntagResumed, GrantSoft, PauseDownloads, MarkPaused
<1>2. PICK r \in Outcome : ResumeCall(ToResume, r)
  BY <1>1 DEF ResumePlanned
<1>3. h \in ToResume
  BY <1>2 DEF ResumeCall, GuardStarts
<1>4. QED
  BY <1>3, PlannedWereStopped DEF StartInv, SeenStoppedIsTagged, GuardStarts

(* Unless a hash is removed and added again between snapshot and start,    *)
(* the planner (ResumePlanner.execute) starts only torrents that carry the *)
(* paused tag at that moment, whatever else happened since the snapshot.   *)
THEOREM OnlyTaggedAreStarted ==
  ASSUME "remove" \notin UserMoves
  PROVE  Spec => StartsOnlyTagged
<1>1. Init => StartInv
  BY InitType DEF Init, EngineInit, StartInv, SeenStoppedIsTagged
<1>2. StartInv /\ [Next]_vars =>
        [\A h \in Hash : GuardStarts(h) => h \in pausedTag]_vars
  <2>1. ASSUME NEW h \in Hash, GuardStarts(h), Next PROVE EngineStep
    BY <2>1 DEF Next, GuardStarts, engineVars
  <2>2. QED
    BY <2>1, StartedAreTagged
<1>3. QED
  BY <1>1, <1>2, StartInvInductive, PTL DEF Spec, StartsOnlyTagged

-----------------------------------------------------------------------------
(* Sparing.  In SOFT the list of the tick is what the server has, or more. *)

(* Nothing carries the soft_allowed tag that the tick does not know of,    *)
(* but for a grant that failed in this tick. *)
SoftTagsKnown ==
  engMode = "SOFT" /\ engPc \in {"forced", "completed", "grant", "pause"} =>
    \/ softTag \subseteq engSoft
    \/ engPc = "pause" /\ prevMode = "NORMAL" /\ faults > 0

GrantedOnEntry == engPc = "grant" => engMode = "SOFT" /\ prevMode = "NORMAL"

(* On entering SOFT: when the tick pauses, it has granted the tag to what  *)
(* it saw downloading. *)
DownloadsGranted ==
  faults = 0 /\ engMode = "SOFT" /\ prevMode = "NORMAL" /\ engPc = "pause" =>
    \A h \in Hash \ engPaused :
      ~IsForced(snap[h].state) /\ IsDownloadingIsh(snap[h].state)
        => h \in engSoft

(* The tag is revoked from all in the other modes only. *)
RevokedOutsideSoft == engPc = "revoke" => engMode # "SOFT"

SpareInv ==
  /\ TypeOK /\ SoftTagsKnown /\ GrantedOnEntry
  /\ DownloadsGranted /\ RevokedOutsideSoft

LEMMA WorldNeverAllows ==
  ASSUME WorldStep
  PROVE  softTag' \subseteq softTag /\ faults' = faults
BY DEF WorldStep, AddTorrent, RemoveTorrent, UserPause, UserResume, UserForce,
       UserStarts, StartCheck, EndCheck, MetadataArrives, Progress,
       DiskChanges, Moves, torrentVars

(* No failure so far: every call was answered. *)
LEMMA NoFaultMeansOk ==
  ASSUME WorldTypeOK, NEW batch, NEW r, CallMayEnd(batch, r), faults' = 0
  PROVE  r = "ok" /\ faults = 0
BY WorldAssumption DEF WorldTypeOK, CallMayEnd

LEMMA SpareInvInductive == SpareInv /\ [Next]_vars => SpareInv'
<1> SUFFICES ASSUME SpareInv, [Next]_vars PROVE SpareInv'
  OBVIOUS
<1> USE DEF SpareInv, Continue, Abandon, Finish, ForgetLocals, KeepLists,
            GrantedOnEntry
<1>1. TypeOK'
  BY TypeStep
<1>2. CASE engPc' \in {"idle", "probePaused", "probeSoft", "snapshot", "heal",
                      "resume", "untag", "mark"}
  BY <1>1, <1>2 DEF SoftTagsKnown, DownloadsGranted, RevokedOutsideSoft
<1>3. CASE engPc' = "forced" /\ TakeSnapshot
  BY <1>1, <1>3 DEF TakeSnapshot, ReadCall, torrentVars, SoftTagsKnown,
                    DownloadsGranted, RevokedOutsideSoft
<1>4. CASE engPc' = "completed" /\ CleanupForced
  <2>1. PICK r \in Outcome : UnmarkCall(ForcedPaused, r)
    BY <1>4 DEF CleanupForced
  <2>2. softTag' = softTag /\ engSoft' = engSoft /\ engMode' = engMode
    BY <1>4, <2>1 DEF CleanupForced, UnmarkCall
  <2>3. faults' = 0 => faults = 0
    BY <2>1, NoFaultMeansOk DEF UnmarkCall, TypeOK
  <2>4. engPc = "forced"
    BY <1>4 DEF CleanupForced
  <2>5. QED
    BY <1>1, <1>4, <2>2, <2>3, <2>4
    DEF SoftTagsKnown, DownloadsGranted, RevokedOutsideSoft
<1>5. CASE engPc' # "idle" /\ CleanupCompleted
  <2>1. PICK r \in Outcome :
          /\ RevokeCall(CompletedSoft, r)
          /\ engSoft' = IF r = "ok" THEN engSoft \ CompletedSoft ELSE engSoft
    BY <1>5 DEF CleanupCompleted
  <2>2. engPc = "completed" /\ UNCHANGED <<engMode, prevMode>>
    BY <1>5 DEF CleanupCompleted
  <2>3. engPc' = IF engMode # "SOFT" THEN "revoke"
                 ELSE IF prevMode = "NORMAL" THEN "grant" ELSE "pause"
    BY <1>5 DEF CleanupCompleted
  <2>4. r = "ok" => softTag' = softTag \ CompletedSoft
    BY <2>1 DEF RevokeCall, Took
  <2>5. softTag' \subseteq softTag
    BY <2>1 DEF RevokeCall
  <2>6. SoftTagsKnown'
    BY <2>1, <2>2, <2>4, <2>5 DEF SoftTagsKnown
  <2>7. QED
    BY <1>1, <2>2, <2>3, <2>6 DEF DownloadsGranted, RevokedOutsideSoft
<1>6. CASE engPc' = "pause" /\ RevokeSoft
  BY <1>1, <1>6 DEF RevokeSoft, SoftTagsKnown, DownloadsGranted,
                    RevokedOutsideSoft
<1>7. CASE engPc' = "pause" /\ GrantSoft
  <2>1. PICK r \in Outcome :
          /\ GrantCall(ToGrant, r)
          /\ engSoft' = IF r = "ok" THEN engSoft \cup ToGrant ELSE engSoft
    BY <1>7 DEF GrantSoft
  <2>2. engPc = "grant" /\ UNCHANGED <<engMode, prevMode, snap, engPaused>>
    BY <1>7 DEF GrantSoft
  <2>3. faults' = 0 => faults = 0 /\ r = "ok"
    BY <2>1, NoFaultMeansOk DEF GrantCall, TypeOK
  <2>4. r = "ok" => softTag' \subseteq softTag \cup ToGrant
    BY <2>1 DEF GrantCall, Took
  <2>5. r # "ok" => faults' > 0
    BY <2>3, <1>1, WorldAssumption DEF TypeOK, WorldTypeOK
  <2>6. SoftTagsKnown'
    BY <1>7, <2>1, <2>2, <2>4, <2>5 DEF SoftTagsKnown
  <2>7. DownloadsGranted'
    BY <2>1, <2>2, <2>3 DEF DownloadsGranted, ToGrant
  <2>8. QED
    BY <1>1, <1>7, <2>6, <2>7 DEF RevokedOutsideSoft
<1>8. CASE WorldStep /\ UNCHANGED engineVars
  BY <1>1, <1>8, WorldNeverAllows, WorldNeverTags
  DEF engineVars, tickLocals, SoftTagsKnown, DownloadsGranted,
      RevokedOutsideSoft
<1>9. CASE UNCHANGED vars
  BY <1>1, <1>9 DEF vars, worldVars, torrentVars, engineVars, tickLocals,
                    SoftTagsKnown, DownloadsGranted, RevokedOutsideSoft
<1>10. CASE EngineStep
  <2>1. engPc' \in EnginePc
    BY <1>1 DEF TypeOK, EngineTypeOK
  <2>2. engPc' = "forced" => TakeSnapshot
    BY <1>10 DEF EngineStep, StartTick, ProbePausedTag, ProbeSoftTag,
                CleanupForced, CleanupCompleted, RevokeSoft, HealPaused,
                ResumePlanned, UntagResumed, GrantSoft, PauseDownloads,
                MarkPaused, engineVars
  <2>3. engPc' = "completed" => CleanupForced
    BY <1>10 DEF EngineStep, StartTick, ProbePausedTag, ProbeSoftTag,
                TakeSnapshot, CleanupCompleted, RevokeSoft, HealPaused,
                ResumePlanned, UntagResumed, GrantSoft, PauseDownloads,
                MarkPaused, engineVars
  <2>4. engPc' \in {"revoke", "grant", "pause"} =>
          CleanupCompleted \/ RevokeSoft \/ GrantSoft
    BY <1>10 DEF EngineStep, StartTick, ProbePausedTag, ProbeSoftTag,
                TakeSnapshot, CleanupForced, HealPaused,
                ResumePlanned, UntagResumed, PauseDownloads,
                MarkPaused, engineVars
  <2>5. /\ engPc' \in {"revoke", "grant"} => ~RevokeSoft /\ ~GrantSoft
        /\ GrantSoft => engPc' \in {"idle", "pause"}
    BY DEF RevokeSoft, GrantSoft
  <2>6. QED
    BY <1>2, <1>3, <1>4, <1>5, <1>6, <1>7, <2>1, <2>2, <2>3, <2>4, <2>5
    DEF EnginePc
<1>11. QED
  BY <1>8, <1>9, <1>10 DEF Next

LEMMA InitSpareInv == Init => SpareInv
BY InitType DEF Init, EngineInit, SpareInv, SoftTagsKnown, GrantedOnEntry,
                DownloadsGranted, RevokedOutsideSoft

(* Only the stop call of _pause_and_mark stops torrents. *)
LEMMA OnlyPauseStops ==
  ASSUME TypeOK, Next, NEW h \in Hash, GuardStops(h)
  PROVE  PauseDownloads /\ h \in ToPause
<1> USE DEF TypeOK, WorldTypeOK, GuardStops
<1>1. CASE WorldStep
  BY <1>1 DEF WorldStep, AddTorrent, RemoveTorrent, UserPause, UserResume,
              UserForce, UserStarts, StartCheck, EndCheck, MetadataArrives,
              Progress, DiskChanges, Moves, torrentVars, historyVars
<1>2. CASE StartTick \/ ProbePausedTag \/ ProbeSoftTag \/ TakeSnapshot
  BY <1>2 DEF StartTick, ProbePausedTag, ProbeSoftTag, TakeSnapshot, ReadCall,
              torrentVars
<1>3. CASE \/ CleanupForced \/ CleanupCompleted \/ RevokeSoft
           \/ HealPaused \/ UntagResumed \/ GrantSoft \/ MarkPaused
  BY <1>3 DEF CleanupForced, CleanupCompleted, RevokeSoft, HealPaused,
              UntagResumed, GrantSoft, MarkPaused, UnmarkCall, RevokeCall,
              GrantCall, MarkCall
<1>4. CASE ResumePlanned
  BY <1>4 DEF ResumePlanned, ResumeCall
<1>5. CASE PauseDownloads
  BY <1>5 DEF PauseDownloads, PauseCall, PauseTakes
<1>6. QED
  BY <1>1, <1>2, <1>3, <1>4, <1>5 DEF Next, EngineStep

(* In SOFT the polling loop (_handle_soft_mode) stops no torrent that      *)
(* carries the soft_allowed tag when the stop arrives.  Only on the tick   *)
(* that comes from NORMAL may a failed grant cost something.               *)
THEOREM AllowedAreSpared == Spec => SoftAllowedKeepDownloading
<1>1. SpareInv /\ [Next]_vars =>
        [\A h \in Hash :
           engMode = "SOFT" /\ GuardStops(h) /\ h \in softTag =>
             prevMode = "NORMAL" /\ faults > 0]_vars
  <2> SUFFICES ASSUME SpareInv, Next, NEW h \in Hash,
                      engMode = "SOFT", GuardStops(h), h \in softTag
               PROVE  prevMode = "NORMAL" /\ faults > 0
    BY DEF vars, GuardStops
  <2>1. PauseDownloads /\ h \in ToPause
    BY OnlyPauseStops DEF SpareInv
  <2>2. QED
    BY <2>1 DEF PauseDownloads, ToPause, SpareInv, SoftTagsKnown
<1>2. QED
  BY InitSpareInv, SpareInvInductive, <1>1, PTL
  DEF Spec, SoftAllowedKeepDownloading

(* The tick that goes from NORMAL to SOFT stops nothing that was           *)
(* downloading when it looked, except what still carried the paused tag,   *)
(* unless a call failed before.                                            *)
THEOREM EntrySpares == Spec => SoftEntrySparesDownloads
<1>1. SpareInv /\ [Next]_vars =>
        [\A h \in Hash :
           /\ engMode = "SOFT" /\ prevMode = "NORMAL"
           /\ faults = 0
           /\ GuardStops(h)
           => h \in engPaused]_vars
  <2> SUFFICES ASSUME SpareInv, Next, NEW h \in Hash, engMode = "SOFT",
                      prevMode = "NORMAL", faults = 0, GuardStops(h)
               PROVE  h \in engPaused
    BY DEF vars
  <2>1. PauseDownloads /\ h \in ToPause
    BY OnlyPauseStops DEF SpareInv
  <2>2. QED
    BY <2>1 DEF PauseDownloads, ToPause, SpareInv, DownloadsGranted
<1>2. QED
  BY InitSpareInv, SpareInvInductive, <1>1, PTL
  DEF Spec, SoftEntrySparesDownloads
=============================================================================
