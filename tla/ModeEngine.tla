----------------------------- MODULE ModeEngine -----------------------------
(***************************************************************************)
(* The polling loop of engine.py: run_forever, tick and everything a tick  *)
(* calls, including the two calls of the resume planner.                   *)
(*                                                                         *)
(* A tick is a coroutine.  It gives way at every API call, so each call is *)
(* one action: the effect at the server, the code's reaction to the answer *)
(* and its local work up to the next call.  engPc names the call that      *)
(* comes next.  What the tick read earlier (the measurement and the        *)
(* snapshot) stays in its locals while the world moves on.                 *)
(***************************************************************************)
EXTENDS QBittorrent, ResumePlanner

CONSTANTS
  Policy,       \* resume.policy
  StrictFifo    \* resume.strict_fifo

ASSUME PlannerAssumption ==
  /\ Policy \in Policies
  /\ StrictFifo \in BOOLEAN
  /\ DOMAIN HashOrder = Hash

VARIABLES
  engPc,      \* the next call of the tick, "idle" between ticks
  prevMode,   \* ModeEngine._previous_mode, "NONE" for None
  (* Locals of the tick: *)
  engMode,    \* mode, "NONE" when no tick runs
  engFree,    \* disk_stats.free_bytes
  snap,       \* torrents: what torrents_info returned
  engPaused,  \* paused_hashes
  engSoft     \* soft_allowed_hashes

tickLocals == <<engMode, engFree, snap, engPaused, engSoft>>
engineVars == <<engPc, prevMode, tickLocals>>
vars == <<worldVars, engineVars>>

EnginePc == {"idle", "probePaused", "probeSoft", "snapshot", "forced",
             "completed", "revoke", "heal", "resume", "untag", "grant",
             "pause", "mark"}

Snapshot == [Hash -> [state : TorrentStates, left : Unknown..MaxLeft]]

NoSnapshot == [h \in Hash |-> [state |-> "absent", left |-> Unknown]]

EngineTypeOK ==
  /\ engPc \in EnginePc
  /\ prevMode \in Mode \cup {"NONE"}
  /\ engMode \in IF engPc = "idle" THEN {"NONE"} ELSE Mode
  /\ engFree \in Nat
  /\ snap \in Snapshot
  /\ engPaused \subseteq Hash
  /\ engSoft \subseteq Hash

(* The types of all variables of the engine and of the world around it     *)
(* (engine.py, and qBittorrent as engine.py sees it).                      *)
TypeOK == WorldTypeOK /\ EngineTypeOK

EngineInit ==
  /\ engPc = "idle"
  /\ prevMode = "NONE"
  /\ engMode = "NONE"
  /\ engFree = 0
  /\ snap = NoSnapshot
  /\ engPaused = {}
  /\ engSoft = {}

-----------------------------------------------------------------------------
(* How a tick goes on *)

Continue(next) == engPc' = next /\ UNCHANGED <<prevMode, engMode, engFree>>

ForgetLocals ==
  /\ engPc' = "idle"
  /\ engMode' = "NONE"
  /\ engFree' = 0
  /\ snap' = NoSnapshot
  /\ engPaused' = {}
  /\ engSoft' = {}

(* The tick runs to its last line. *)
Finish == ForgetLocals /\ prevMode' = engMode

(* An early return, or an exception that run_forever catches. *)
Abandon == ForgetLocals /\ UNCHANGED prevMode

KeepLists == UNCHANGED <<snap, engPaused, engSoft>>

-----------------------------------------------------------------------------
(* What the tick decides from its locals *)

(* Mutant: forced torrents are cleaned up in NORMAL only.                  *)
ForcedPausedInNormal ==
  {h \in engPaused : IsForced(snap[h].state) /\ engMode = "NORMAL"}

ForcedPaused == {h \in engPaused : IsForced(snap[h].state)}

CompletedSoft == {h \in engSoft : IsCompletedOrSeeding(snap[h].state)}

(* Mutant: only finished torrents are healed.                              *)
SelfHealFinished == {h \in engPaused : IsCompletedOrSeeding(snap[h].state)}

SelfHeal == {h \in engPaused : ~IsPausedDownload(snap[h].state)}

ToResume ==
  Planned([policy |-> Policy, strict_fifo |-> StrictFifo],
          snap, engPaused, engFree)

ToGrant ==
  {h \in Hash \ (engPaused \cup engSoft) :
     ~IsForced(snap[h].state) /\ IsDownloadingIsh(snap[h].state)}

(* Mutant: the soft_allowed tag is not looked at.                          *)
ToPauseAllowedToo ==
  {h \in Hash :
     /\ snap[h].left > 0
     /\ ~IsForced(snap[h].state)
     /\ IsDownloadingIsh(snap[h].state)}

(* Mutant: a new process spares nothing on its first tick.                 *)
ToPauseAfterStart ==
  {h \in Hash :
     /\ snap[h].left > 0
     /\ ~IsForced(snap[h].state)
     /\ IsDownloadingIsh(snap[h].state)
     /\ engMode = "SOFT" /\ prevMode # "NONE" => h \notin engSoft}

(* Mutant: what carries the paused tag is taken for stopped.               *)
ToPauseUntagged == {h \in ToPauseAllowedToo : h \notin engPaused \cup engSoft}

ToPause ==
  {h \in Hash :
     /\ snap[h].left > 0
     /\ ~IsForced(snap[h].state)
     /\ IsDownloadingIsh(snap[h].state)
     /\ engMode = "SOFT" => h \notin engSoft}

-----------------------------------------------------------------------------
(* Mutant: SOFT and HARD are acted upon only when they are entered.        *)
StartTickOnChange ==
  /\ engPc = "idle"
  /\ ReadCall(TRUE)
  /\ ClassifyMode(free) # prevMode
  /\ engMode' = ClassifyMode(free)
  /\ engFree' = free
  /\ engPc' = IF engMode' = "NORMAL" /\ prevMode # "NONE"
              THEN "probePaused" ELSE "snapshot"
  /\ KeepLists
  /\ UNCHANGED prevMode

(* DiskProbe.measure and the choice of the path through the tick.  A probe *)
(* that fails ends the tick.                                               *)
StartTick ==
  /\ engPc = "idle"
  /\ \/ /\ ReadCall(TRUE)
        /\ engMode' = ClassifyMode(free)
        /\ engFree' = free
        /\ engPc' = IF engMode' = "NORMAL" /\ prevMode # "NONE"
                    THEN "probePaused" ELSE "snapshot"
        /\ KeepLists
        /\ UNCHANGED prevMode
     \/ ReadCall(FALSE) /\ UNCHANGED engineVars

(* Mutant: no torrent with the paused tag is enough for the early exit.    *)
ProbePausedTagOnly ==
  /\ engPc = "probePaused"
  /\ \/ /\ ReadCall(TRUE)
        /\ IF pausedTag # {} THEN Continue("snapshot") /\ KeepLists ELSE Finish
     \/ ReadCall(FALSE) /\ Abandon

(* Mutant: both queries ask for the soft_allowed tag.                      *)
ProbeSoftTagTwice ==
  /\ engPc = "probePaused"
  /\ \/ /\ ReadCall(TRUE)
        /\ Continue(IF softTag # {} THEN "snapshot" ELSE "probeSoft")
        /\ KeepLists
     \/ ReadCall(FALSE) /\ Abandon

(* _has_managed_tagged_torrents_for_normal_mode: two queries by tag *)
ProbePausedTag ==
  /\ engPc = "probePaused"
  /\ \/ /\ ReadCall(TRUE)
        /\ Continue(IF pausedTag # {} THEN "snapshot" ELSE "probeSoft")
        /\ KeepLists
     \/ ReadCall(FALSE) /\ Abandon

ProbeSoftTag ==
  /\ engPc = "probeSoft"
  /\ \/ /\ ReadCall(TRUE)
        /\ IF softTag # {} THEN Continue("snapshot") /\ KeepLists ELSE Finish
     \/ ReadCall(FALSE) /\ Abandon

TakeSnapshot ==
  /\ engPc = "snapshot"
  /\ \/ /\ ReadCall(TRUE)
        /\ snap' = [h \in Hash |->
                      [state |-> State(h),
                       left |-> IF h \in listed THEN left[h] ELSE Unknown]]
        /\ engPaused' = pausedTag
        /\ engSoft' = softTag
        /\ Continue("forced")
     \/ ReadCall(FALSE) /\ Abandon

(* _cleanup_forced_download_paused_torrents *)
CleanupForced ==
  /\ engPc = "forced"
  /\ \E r \in Outcome :
       /\ UnmarkCall(ForcedPaused, r)
       /\ IF r = "raise" THEN Abandon
          ELSE /\ engPaused' = IF r = "ok" THEN engPaused \ ForcedPaused
                               ELSE engPaused
               /\ Continue("completed")
               /\ UNCHANGED <<snap, engSoft>>

(* _cleanup_soft_allowed_completed_torrents, then the branch on the mode *)
CleanupCompleted ==
  /\ engPc = "completed"
  /\ \E r \in Outcome :
       /\ RevokeCall(CompletedSoft, r)
       /\ IF r = "raise" THEN Abandon
          ELSE /\ engSoft' = IF r = "ok" THEN engSoft \ CompletedSoft
                             ELSE engSoft
               /\ Continue(IF engMode # "SOFT" THEN "revoke"
                           ELSE IF prevMode = "NORMAL" THEN "grant"
                           ELSE "pause")
               /\ UNCHANGED <<snap, engPaused>>

(* soft_allowed only means something in SOFT: normal_cleanup, hard_cleanup *)
RevokeSoft ==
  /\ engPc = "revoke"
  /\ \E r \in Outcome :
       /\ RevokeCall(engSoft, r)
       /\ IF r = "raise" THEN Abandon
          ELSE /\ Continue(IF engMode = "NORMAL" THEN "heal" ELSE "pause")
               /\ KeepLists

(* Mutant: the healed hashes stay in paused_hashes.                        *)
HealPausedAtServer ==
  /\ engPc = "heal"
  /\ \E r \in Outcome :
       /\ UnmarkCall(SelfHeal, r)
       /\ IF r = "raise" THEN Abandon ELSE Continue("resume") /\ KeepLists

(* NORMAL: the paused tag is taken off whatever is not reported stopped. *)
HealPaused ==
  /\ engPc = "heal"
  /\ \E r \in Outcome :
       /\ UnmarkCall(SelfHeal, r)
       /\ IF r = "raise" THEN Abandon
          ELSE /\ engPaused' = IF r = "ok" THEN engPaused \ SelfHeal
                               ELSE engPaused
               /\ Continue("resume")
               /\ UNCHANGED <<snap, engSoft>>

(* Mutant: a start that failed does not stop the untagging.                *)
ResumePlannedUnchecked ==
  /\ engPc = "resume"
  /\ \E r \in Outcome :
       /\ ResumeCall(ToResume, r)
       /\ IF r = "raise" THEN Abandon
          ELSE IF ToResume # {} THEN Continue("untag") /\ KeepLists
          ELSE Finish

(* NORMAL: ResumePlanner.execute, its start call *)
ResumePlanned ==
  /\ engPc = "resume"
  /\ \E r \in Outcome :
       /\ ResumeCall(ToResume, r)
       /\ IF r = "raise" THEN Abandon
          ELSE IF r = "ok" /\ ToResume # {} THEN Continue("untag") /\ KeepLists
          ELSE Finish

(* NORMAL: ResumePlanner.execute, its untag call *)
UntagResumed ==
  /\ engPc = "untag"
  /\ \E r \in Outcome :
       /\ UnmarkCall(ToResume, r)
       /\ IF r = "raise" THEN Abandon ELSE Finish

(* Mutant: the granted hashes are not added to soft_allowed_hashes.        *)
GrantSoftAtServer ==
  /\ engPc = "grant"
  /\ \E r \in Outcome :
       /\ GrantCall(ToGrant, r)
       /\ IF r = "raise" THEN Abandon ELSE Continue("pause") /\ KeepLists

(* NORMAL to SOFT: what downloads already may go on. *)
GrantSoft ==
  /\ engPc = "grant"
  /\ \E r \in Outcome :
       /\ GrantCall(ToGrant, r)
       /\ IF r = "raise" THEN Abandon
          ELSE /\ engSoft' = IF r = "ok" THEN engSoft \cup ToGrant ELSE engSoft
               /\ Continue("pause")
               /\ UNCHANGED <<snap, engPaused>>

(* Mutant: nothing is tagged after the stop.                               *)
PauseDownloadsOnly ==
  /\ engPc = "pause"
  /\ \E r \in Outcome :
       /\ PauseCall(ToPause, r)
       /\ IF r = "raise" THEN Abandon ELSE Finish

(* SOFT and HARD: _pause_and_mark, the stop call *)
PauseDownloads ==
  /\ engPc = "pause"
  /\ \E r \in Outcome :
       /\ PauseCall(ToPause, r)
       /\ IF r = "raise" THEN Abandon
          ELSE IF r = "ok" /\ ToPause # {} THEN Continue("mark") /\ KeepLists
          ELSE Finish

(* Mutant: a tag call that failed is rolled back.                          *)
MarkPausedRollsBack ==
  /\ engPc = "mark"
  /\ \/ MarkCall(ToPause, "ok")
     \/ /\ CallMayEnd(ToPause, "error")
        /\ pausedTag' = pausedTag \ ToPause
        /\ cut' = cut \cup (ToPause \cap listed)
        /\ UNCHANGED <<listed, intent, left, checking, softTag, free,
                       userMoves, stopper>>
  /\ Finish

(* SOFT and HARD: _pause_and_mark, the tag call *)
MarkPaused ==
  /\ engPc = "mark"
  /\ \E r \in Outcome :
       /\ MarkCall(ToPause, r)
       /\ IF r = "raise" THEN Abandon ELSE Finish

EngineStep ==
  \/ StartTick \/ ProbePausedTag \/ ProbeSoftTag \/ TakeSnapshot
  \/ CleanupForced \/ CleanupCompleted \/ RevokeSoft
  \/ HealPaused \/ ResumePlanned \/ UntagResumed
  \/ GrantSoft \/ PauseDownloads \/ MarkPaused

-----------------------------------------------------------------------------
Init == WorldInit /\ EngineInit

Next == EngineStep \/ (WorldStep /\ UNCHANGED engineVars)

Spec == Init /\ [][Next]_vars

(* The event loop always comes back to the polling task: its calls have    *)
(* timeouts and run_forever never gives up.  Nothing is assumed of the     *)
(* user, of the disk or of the progress of downloads.                      *)
FairSpec == Spec /\ WF_vars(EngineStep)

-----------------------------------------------------------------------------
(* Safety *)

(* The stop reached the torrents, the tag has not been sent yet. *)
EngineAboutToMark(h) == engPc = "mark" /\ h \in ToPause

(* A torrent that DiskGuard stopped before it finished carries the paused  *)
(* tag, whatever the user does to it (rechecks apart) and however stale    *)
(* the snapshot of the tick that stopped it, healed it or started it.  The *)
(* two exceptions are the window between the two calls of _pause_and_mark  *)
(* and a torrent left in that window by a call that failed.                *)
StrandedOnlyByCut ==
  \A h \in Hash : Stranded(h) => h \in cut \/ EngineAboutToMark(h)

GuardStops(h) ==
  intent[h] # "stop" /\ intent'[h] = "stop" /\ stopper'[h] = "guard"

GuardStarts(h) ==
  /\ engPc = "resume" /\ engPc' # "resume"
  /\ intent[h] = "stop" /\ intent'[h] = "run"

(* In SOFT mode the polling loop stops no torrent that carries the         *)
(* soft_allowed tag when the stop arrives.  What a failed call can cost:   *)
(* on the one tick that comes from NORMAL the answer to the grant may be   *)
(* lost, and the tick then stops what it has just allowed; on every later  *)
(* tick, whatever failed before or fails meanwhile, the tag is respected.  *)
SoftAllowedKeepDownloading ==
  [][\A h \in Hash :
       engMode = "SOFT" /\ GuardStops(h) /\ h \in softTag =>
         prevMode = "NORMAL" /\ faults > 0]_vars

(* On the tick that goes from NORMAL to SOFT nothing that was downloading  *)
(* is stopped, except what still carried the paused tag from an earlier    *)
(* stop that the user undid (the transition rule of _handle_soft_mode).    *)
SoftEntrySparesDownloads ==
  [][\A h \in Hash :
       /\ engMode = "SOFT" /\ prevMode = "NORMAL"
       /\ faults = 0
       /\ GuardStops(h)
       => h \in engPaused]_vars

(* The planner starts nothing that does not carry the paused tag at that   *)
(* very moment, although it decides from the tick's snapshot; a hash that  *)
(* is removed and added again in between is left out of the instance.      *)
StartsOnlyTagged == [][\A h \in Hash : GuardStarts(h) => h \in pausedTag]_vars

(* How the polling loop keeps the ledger of TagLedger: a torrent it holds  *)
(* is in it by its tag, or by the tag call that comes next.                *)
EngineEntry(h) ==
  IF ~HeldByGuard(h) THEN "free"
  ELSE IF h \in pausedTag THEN "held"
  ELSE IF EngineAboutToMark(h) THEN "stopping" ELSE "lost"

EngineLedger ==
  INSTANCE TagLedger WITH ledger <- [h \in Hash |-> EngineEntry(h)],
                          incidents <- faults

(* The polling loop implements TagLedger.  Once a torrent it stopped has   *)
(* the tag, nothing the loop does makes it forget that torrent: no         *)
(* snapshot, however stale, and no call that fails, its answer lost or     *)
(* not.  A failed call can cost only torrents whose stop is under way, and *)
(* one that was lost may be entered later.  (Rechecks apart.)              *)
EngineKeepsLedger == EngineLedger!LedgerSpec

-----------------------------------------------------------------------------
(* Liveness, under FairSpec *)

Downloading(h) == State(h) = "downloading"

LevelsOf(mode) == {f \in FreeLevels : ClassifyMode(f) = mode}

DiskHard == free \in LevelsOf("HARD")

DiskNormal == free \in LevelsOf("NORMAL")

(* Once the disk stays in HARD, every download of known size that is not   *)
(* forced ends up stopped for good, despite failed calls and a user who    *)
(* starts torrents again (a bounded number of times).                      *)
HardEventuallyQuiet ==
  <>[]DiskHard => <>[](\A h \in Hash : ~Downloading(h))

(* Once the disk stays in NORMAL, the soft_allowed tag is gone for good    *)
(* and only stopped torrents carry the paused tag: the early exit of tick  *)
(* never leaves a tag behind.                                              *)
NormalEventuallyClean ==
  <>[]DiskNormal =>
    <>[](/\ softTag = {}
         /\ \A h \in pausedTag : IsPausedDownload(State(h)))

Ample == CalculateBudget(free, 0) >= Cardinality(Hash) * MaxLeft

(* Once there stays room for everything, every torrent DiskGuard stopped   *)
(* is started again, unless a failed call lost its tag, it was replaced by *)
(* one without metadata between snapshot and stop, or a running torrent    *)
(* without known size blocks the projection.                               *)
AmpleEventuallyResumed ==
  <>[]Ample =>
    <>[](\A h \in Hash :
           HeldByGuard(h) => \/ h \in cut
                             \/ left[h] = Unknown
                             \/ \E g \in Hash : State(g) = "metaDL")

(* A torrent the user forces for good loses the paused tag, in any mode    *)
(* (_cleanup_forced_download_paused_torrents).                             *)
ForcedLosesTag ==
  \A h \in Hash :
    <>[](State(h) = "forcedDL") => <>[](h \notin pausedTag)

-----------------------------------------------------------------------------
(* What a comment of the code says and the code does not keep *)

(* Self-heal removes the paused tag so that no torrent is blocked from     *)
(* being resumed (comment in _handle_normal_mode): it never takes the tag  *)
(* off a torrent DiskGuard holds.  Refuted for one that is being checked.  *)
HealNeverStrands ==
  [][\A h \in Hash : engPc = "heal" /\ Stranded(h)' => Stranded(h)]_vars
=============================================================================
