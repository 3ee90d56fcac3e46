------------------------- MODULE QBittorrentProofs -------------------------
(***************************************************************************)
(* Lemmas about the world DiskGuard runs in, for the proofs about the      *)
(* components: each call and each step of user, qBittorrent and disk keeps *)
(* the types, and none of the latter makes a torrent one DiskGuard holds.  *)
(***************************************************************************)
EXTENDS QBittorrent, TLAPS

-----------------------------------------------------------------------------
(* Types: the calls *)

LEMMA CallMayEndType ==
  ASSUME WorldTypeOK, NEW batch, NEW r, CallMayEnd(batch, r)
  PROVE  faults' \in 0..MaxFaults
BY WorldAssumption DEF WorldTypeOK, CallMayEnd

LEMMA PauseCallType ==
  ASSUME WorldTypeOK, NEW batch, NEW r, PauseCall(batch, r)
  PROVE  WorldTypeOK'
<1>1. faults' \in 0..MaxFaults
  BY CallMayEndType DEF PauseCall, PauseTakes
<1>2. intent' \in [Hash -> {"run", "stop", "force"}]
  BY DEF WorldTypeOK, PauseCall, PauseTakes
<1>3. stopper' \in [Hash -> {"none", "user", "guard"}]
  BY DEF WorldTypeOK, PauseCall, PauseTakes
<1>4. cut' \subseteq Hash
  BY DEF WorldTypeOK, PauseCall, PauseTakes
<1>5. QED
  BY <1>1, <1>2, <1>3, <1>4 DEF WorldTypeOK, PauseCall, PauseTakes

LEMMA MarkCallType ==
  ASSUME WorldTypeOK, NEW batch, NEW r, MarkCall(batch, r)
  PROVE  WorldTypeOK'
<1>1. faults' \in 0..MaxFaults
  BY CallMayEndType DEF MarkCall
<1>2. cut' \subseteq Hash /\ pausedTag' \subseteq Hash
  BY DEF WorldTypeOK, MarkCall
<1>3. QED
  BY <1>1, <1>2 DEF WorldTypeOK, MarkCall

LEMMA ResumeCallType ==
  ASSUME WorldTypeOK, NEW batch, NEW r, ResumeCall(batch, r)
  PROVE  WorldTypeOK'
<1>1. faults' \in 0..MaxFaults
  BY CallMayEndType DEF ResumeCall
<1>2. intent' \in [Hash -> {"run", "stop", "force"}]
  BY DEF WorldTypeOK, ResumeCall
<1>3. stopper' \in [Hash -> {"none", "user", "guard"}]
  BY DEF WorldTypeOK, ResumeCall
<1>4. QED
  BY <1>1, <1>2, <1>3 DEF WorldTypeOK, ResumeCall

LEMMA TagCallsType ==
  ASSUME WorldTypeOK, NEW batch, NEW r,
         UnmarkCall(batch, r) \/ GrantCall(batch, r) \/ RevokeCall(batch, r)
  PROVE  WorldTypeOK'
<1>1. faults' \in 0..MaxFaults
  BY CallMayEndType DEF UnmarkCall, GrantCall, RevokeCall
<1>2. QED
  BY <1>1 DEF WorldTypeOK, UnmarkCall, GrantCall, RevokeCall, historyVars

LEMMA ReadCallType ==
  ASSUME WorldTypeOK, NEW ok, ReadCall(ok)
  PROVE  WorldTypeOK'
BY WorldAssumption DEF WorldTypeOK, ReadCall, torrentVars, historyVars

-----------------------------------------------------------------------------
(* Types: the user, qBittorrent and the disk *)

LEMMA WorldStepType ==
  ASSUME WorldTypeOK, WorldStep
  PROVE  WorldTypeOK'
<1> USE WorldAssumption DEF WorldTypeOK, Moves, historyVars
<1>1. ASSUME NEW h \in Hash, AddTorrent(h) PROVE WorldTypeOK'
  BY <1>1 DEF AddTorrent, Unknown
<1>2. ASSUME NEW h \in Hash, RemoveTorrent(h) PROVE WorldTypeOK'
  BY <1>2 DEF RemoveTorrent, Unknown
<1>3. ASSUME NEW h \in Hash, UserPause(h) PROVE WorldTypeOK'
  BY <1>3 DEF UserPause
<1>4. ASSUME NEW h \in Hash, UserResume(h) \/ UserForce(h) PROVE WorldTypeOK'
  BY <1>4 DEF UserResume, UserForce, UserStarts
<1>5. ASSUME NEW h \in Hash, StartCheck(h) \/ EndCheck(h) PROVE WorldTypeOK'
  BY <1>5 DEF StartCheck, EndCheck
<1>6. ASSUME NEW h \in Hash, MetadataArrives(h) PROVE WorldTypeOK'
  BY <1>6 DEF MetadataArrives, Unknown
<1>7. ASSUME NEW h \in Hash, Progress(h) PROVE WorldTypeOK'
  <2>1. left[h] \in 1..MaxLeft
    BY <1>7 DEF Progress, State, Reported, Unknown
  <2>2. left' \in [Hash -> Unknown..MaxLeft]
    BY <1>7, <2>1 DEF Progress, Unknown
  <2>3. QED
    BY <1>7, <2>2 DEF Progress
<1>8. ASSUME DiskChanges PROVE WorldTypeOK'
  BY <1>8 DEF DiskChanges, torrentVars
<1>9. QED
  BY <1>1, <1>2, <1>3, <1>4, <1>5, <1>6, <1>7, <1>8 DEF WorldStep

-----------------------------------------------------------------------------
(* Values *)

LEMMA StateType == \A h \in Hash : State(h) \in TorrentStates
BY DEF State, Reported, TorrentStates

LEMMA ClassifyModeType == \A f : ClassifyMode(f) \in Mode
BY DEF ClassifyMode, Mode

-----------------------------------------------------------------------------
(* Neither user nor qBittorrent ever makes a torrent one that DiskGuard    *)
(* holds, and they do not take the mark off one that is.                   *)
LEMMA WorldNeverHolds ==
  ASSUME WorldTypeOK, WorldStep, NEW h \in Hash, HeldByGuard(h)'
  PROVE  /\ HeldByGuard(h)
         /\ h \in pausedTag => h \in pausedTag'
         /\ h \in cut => h \in cut'
<1> USE DEF WorldTypeOK, HeldByGuard, Moves, historyVars
<1>1. ASSUME NEW g \in Hash, AddTorrent(g) \/ RemoveTorrent(g)
      PROVE  /\ HeldByGuard(h)
             /\ h \in pausedTag => h \in pausedTag'
             /\ h \in cut => h \in cut'
  BY <1>1 DEF AddTorrent, RemoveTorrent
<1>2. ASSUME NEW g \in Hash, UserPause(g) \/ UserResume(g) \/ UserForce(g)
      PROVE  /\ HeldByGuard(h)
             /\ h \in pausedTag => h \in pausedTag'
             /\ h \in cut => h \in cut'
  BY <1>2 DEF UserPause, UserResume, UserForce, UserStarts
<1>3. ASSUME NEW g \in Hash, MetadataArrives(g) \/ Progress(g)
      PROVE  /\ HeldByGuard(h)
             /\ h \in pausedTag => h \in pausedTag'
             /\ h \in cut => h \in cut'
  <2>1. intent[g] # "stop"
    BY <1>3 DEF MetadataArrives, Progress, State, Reported
  <2>2. h # g
    BY <1>3, <2>1 DEF MetadataArrives, Progress
  <2>3. QED
    BY <1>3, <2>2 DEF MetadataArrives, Progress
<1>4. ASSUME NEW g \in Hash, StartCheck(g) \/ EndCheck(g)
      PROVE  /\ HeldByGuard(h)
             /\ h \in pausedTag => h \in pausedTag'
             /\ h \in cut => h \in cut'
  BY <1>4 DEF StartCheck, EndCheck
<1>5. CASE DiskChanges
  BY <1>5 DEF DiskChanges, torrentVars
<1>6. QED
  BY <1>1, <1>2, <1>3, <1>4, <1>5 DEF WorldStep

(* Nor do they put a tag on a torrent, or make a call fail. *)
LEMMA WorldNeverTags ==
  ASSUME WorldStep
  PROVE  pausedTag' \subseteq pausedTag /\ faults' = faults
BY DEF WorldStep, AddTorrent, RemoveTorrent, UserPause, UserResume, UserForce,
       UserStarts, StartCheck, EndCheck, MetadataArrives, Progress,
       DiskChanges, Moves, torrentVars

-----------------------------------------------------------------------------
(* Incidents *)

LEMMA IncidentsAreCounted ==
  ASSUME WorldTypeOK, NEW batch, NEW r, CallMayEnd(batch, r)
  PROVE  /\ faults' >= faults
         /\ r = "ok" => faults' = faults
         /\ r # "ok" => faults' > faults
BY WorldAssumption DEF WorldTypeOK, CallMayEnd
=============================================================================
