----------------------------- MODULE DiskBudget -----------------------------
(***************************************************************************)
(* The polling loop on a disk that downloads fill: what the budget of      *)
(* calculate_budget and of the resume planner is worth while downloads go  *)
(* on, others write and the user starts torrents after the measurement.    *)
(*                                                                         *)
(* Every unit a torrent downloads is taken from the free space.  In NORMAL *)
(* mode only; the other modes start nothing.                               *)
(***************************************************************************)
EXTENDS ModeEngine

CONSTANT MaxDrift   \* bound: how much happens behind the back of a tick

ASSUME DriftAssumption == MaxDrift \in Nat

(* History, read by no guard but for its bound: units the tick that runs   *)
(* cannot know of, because it has measured or looked already.              *)
VARIABLE drift

budgetVars == <<vars, drift>>

BudgetTypeOK == TypeOK /\ drift \in 0..MaxDrift

BudgetInit ==
  /\ Init
  /\ softTag = {}
  /\ drift = 0

-----------------------------------------------------------------------------
Measured == engPc # "idle"

Looked == Measured /\ engPc \notin {"probePaused", "probeSoft", "snapshot"}

Behind(n) == drift' = drift + n /\ drift' <= MaxDrift

(* A unit is downloaded.  The tick knows it as space that is taken, or as  *)
(* left of the torrent, but not if it measured before and looks after, and *)
(* it never counts what is forced.                                         *)
Download(h) ==
  /\ State(h) \in {"downloading", "forcedDL"}
  /\ free - 1 \in FreeLevels
  /\ left' = [left EXCEPT ![h] = @ - 1]
  /\ free' = free - 1
  /\ Behind(IF Measured /\ (~Looked \/ IsForced(State(h))) THEN 1 ELSE 0)
  /\ UNCHANGED <<listed, intent, checking, pausedTag, softTag, userMoves,
                 faults, historyVars, engineVars>>

OthersWrite ==
  /\ free - 1 \in FreeLevels
  /\ free' = free - 1
  /\ Behind(IF Measured THEN 1 ELSE 0)
  /\ UNCHANGED <<torrentVars, userMoves, faults, historyVars, engineVars>>

OthersDelete ==
  /\ free + 1 \in FreeLevels
  /\ free' = free + 1
  /\ UNCHANGED <<torrentVars, userMoves, faults, historyVars, engineVars,
                 drift>>

(* The user, or metadata that arrives, may set going what the tick did not *)
(* see running.                                                            *)
TorrentChanges(h) ==
  /\ \/ AddTorrent(h) \/ UserPause(h) \/ UserResume(h) \/ UserForce(h)
     \/ MetadataArrives(h)
  /\ Behind(IF Looked /\ State(h)' = "downloading" THEN left'[h] ELSE 0)
  /\ UNCHANGED engineVars

(* Every tick measures afresh. *)
Tick == EngineStep /\ drift' = IF engPc = "idle" THEN 0 ELSE drift

BudgetNext ==
  \/ Tick
  \/ \E h \in Hash : Download(h) \/ TorrentChanges(h)
  \/ OthersWrite \/ OthersDelete

BudgetSpec == BudgetInit /\ [][BudgetNext]_budgetVars

-----------------------------------------------------------------------------
(* What runs and is not forced will still write. *)
Committed ==
  SumFunctionOnSet(left, {h \in Hash : State(h) = "downloading"})

(* When the planner has started torrents, everything that runs unforced    *)
(* can be downloaded to its end and leaves the floor and the buffer free,  *)
(* short by no more than what happened behind the back of the tick.  It    *)
(* takes both the self-heal (a running torrent that carries the tag is not *)
(* projected) and the projection of all others; and no failed call, since  *)
(* a self-heal that failed leaves such torrents out.                       *)
StartsKeepFloor ==
  engPc = "untag" /\ faults = 0 =>
    Committed + FloorBytes + SafetyBuffer <= free + drift
=============================================================================
