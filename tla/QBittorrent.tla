---------------------------- MODULE QBittorrent ----------------------------
(***************************************************************************)
(* The world DiskGuard runs in: the qBittorrent server with its torrents,  *)
(* the user who shares it, and the disk.  None of it is DiskGuard's code;  *)
(* it is modelled from how engine.py, api.py and resume_planner.py call    *)
(* qbittorrentapi.Client and from the state strings they expect.           *)
(*                                                                         *)
(* Covered: running, stopped and force-started torrents; unknown and known *)
(* sizes; completion; rechecks; the two managed tags; torrents that appear *)
(* and disappear; API calls that succeed, fail, fail after having taken    *)
(* effect, or raise something that is no APIError.                         *)
(* Not covered: a user who edits DiskGuard's tags by hand, several         *)
(* qBittorrent servers, a recheck that loses data.                         *)
(***************************************************************************)
EXTENDS TorrentState, FiniteSets

CONSTANTS
  Hash,          \* torrent hashes
  MaxLeft,       \* largest amount_left of a torrent
  FreeLevels,    \* values the free space takes
  UserMoves,     \* the kinds of moves the user makes in this instance
  MaxUser,       \* bound: how many moves the user makes
  MaxFaults      \* bound: how many API calls or probes fail

ASSUME WorldAssumption ==
  /\ IsFiniteSet(Hash)
  /\ MaxLeft \in Nat \ {0}
  /\ FreeLevels \subseteq Nat
  /\ UserMoves \subseteq {"add", "remove", "pause", "resume", "force",
                          "recheck", "hook"}
  /\ MaxUser \in Nat
  /\ MaxFaults \in Nat

VARIABLES
  listed,      \* hashes torrents_info returns
  intent,      \* per hash: run, stop or force, as last asked for
  left,        \* per hash: amount_left, Unknown before the metadata is there
  checking,    \* hashes whose data is being checked
  pausedTag,   \* hashes that carry tagging.paused_tag
  softTag,     \* hashes that carry tagging.soft_allowed_tag
  free,        \* free bytes on the watched file system
  userMoves,   \* number of user moves so far
  faults,      \* number of failed calls so far
  (* History, never read by any guard of the system: *)
  stopper,     \* per hash: who stopped it, if it is stopped
  cut          \* hashes left stopped by a pause-and-mark that was cut short

torrentVars == <<listed, intent, left, checking, pausedTag, softTag>>
historyVars == <<stopper, cut>>
worldVars == <<torrentVars, free, userMoves, faults, historyVars>>

WorldTypeOK ==
  /\ listed \subseteq Hash
  /\ intent \in [Hash -> {"run", "stop", "force"}]
  /\ left \in [Hash -> Unknown..MaxLeft]
  /\ checking \subseteq Hash
  /\ pausedTag \subseteq Hash
  /\ softTag \subseteq Hash
  /\ free \in FreeLevels
  /\ userMoves \in 0..MaxUser
  /\ faults \in 0..MaxFaults
  /\ stopper \in [Hash -> {"none", "user", "guard"}]
  /\ cut \subseteq Hash

Reported(h, whenRun, whenStop, whenForce) ==
  IF intent[h] = "stop" THEN whenStop
  ELSE IF intent[h] = "force" THEN whenForce ELSE whenRun

(* The state string qBittorrent reports.  A check hides whether the        *)
(* torrent is stopped; a torrent without metadata has its own states.      *)
State(h) ==
  IF h \notin listed THEN "absent"
  ELSE IF left[h] = Unknown
       THEN Reported(h, "metaDL", "pausedDL", "forcedMetaDL")
  ELSE IF left[h] = 0
       THEN IF h \in checking THEN "checkingUP"
            ELSE Reported(h, "uploading", "pausedUP", "forcedUP")
  ELSE IF h \in checking THEN "checkingDL"
       ELSE Reported(h, "downloading", "pausedDL", "forcedDL")

(* DiskGuard may be started beside any collection of torrents, and may     *)
(* have run before: a torrent that carries the paused tag and is stopped   *)
(* was stopped by an earlier run.  The paused tag is only ever put on a    *)
(* torrent whose size is known.                                            *)
WorldInit ==
  /\ listed \in SUBSET Hash
  /\ intent \in {f \in [Hash -> {"run", "stop", "force"}] :
                  \A h \in Hash \ listed : f[h] = "run"}
  /\ left \in {f \in [Hash -> Unknown..MaxLeft] :
                \A h \in Hash \ listed : f[h] = Unknown}
  /\ checking = {}
  /\ pausedTag \in SUBSET {h \in listed : left[h] # Unknown}
  /\ softTag \in SUBSET listed
  /\ free \in FreeLevels
  /\ userMoves = 0
  /\ faults = 0
  /\ stopper = [h \in Hash |-> IF intent[h] # "stop" THEN "none"
                               ELSE IF h \in pausedTag THEN "guard"
                               ELSE "user"]
  /\ cut = {}

-----------------------------------------------------------------------------
(* API calls.  A batch call takes effect on the listed hashes only; an     *)
(* empty batch is never sent, so it cannot fail.                           *)

(* ok: answered.  error: an APIError and no effect.  lost: the effect took *)
(* place but the answer did not arrive, which surfaces as an APIError.     *)
(* raise: another exception, before any effect.                            *)
Outcome == {"ok", "error", "lost", "raise"}

Took(r) == r \in {"ok", "lost"}

CallMayEnd(batch, r) ==
  /\ r \in Outcome
  /\ r # "ok" => batch # {} /\ faults < MaxFaults
  /\ faults' = IF r = "ok" THEN faults ELSE faults + 1

(* torrents_pause *)
PauseTakes(batch, r) ==
  LET hit == IF Took(r) THEN batch \cap listed ELSE {}
  IN  /\ intent' = [h \in Hash |-> IF h \in hit THEN "stop" ELSE intent[h]]
      /\ stopper' = [h \in Hash |-> IF h \in hit /\ intent[h] # "stop"
                                    THEN "guard" ELSE stopper[h]]
      /\ cut' = IF r = "lost" THEN cut \cup {h \in hit : stopper'[h] = "guard"}
                ELSE cut
      /\ UNCHANGED <<listed, left, checking, pausedTag, softTag, free,
                     userMoves>>

PauseCall(batch, r) == CallMayEnd(batch, r) /\ PauseTakes(batch, r)

(* torrents_add_tags for the paused tag, the second half of pausing *)
MarkCall(batch, r) ==
  /\ CallMayEnd(batch, r)
  /\ pausedTag' = IF Took(r) THEN pausedTag \cup (batch \cap listed)
                  ELSE pausedTag
  /\ cut' = IF Took(r) THEN cut \ batch
            ELSE cut \cup {h \in batch \cap listed : stopper[h] = "guard"}
  /\ UNCHANGED <<listed, intent, left, checking, softTag, free, userMoves,
                 stopper>>

(* torrents_resume: a plain start, which also ends a forced start *)
ResumeCall(batch, r) ==
  LET hit == IF Took(r) THEN batch \cap listed ELSE {}
  IN  /\ CallMayEnd(batch, r)
      /\ intent' = [h \in Hash |-> IF h \in hit THEN "run" ELSE intent[h]]
      /\ stopper' = [h \in Hash |-> IF h \in hit THEN "none" ELSE stopper[h]]
      /\ cut' = cut \ hit
      /\ UNCHANGED <<listed, left, checking, pausedTag, softTag, free,
                     userMoves>>

(* torrents_remove_tags for the paused tag *)
UnmarkCall(batch, r) ==
  /\ CallMayEnd(batch, r)
  /\ pausedTag' = IF Took(r) THEN pausedTag \ batch ELSE pausedTag
  /\ UNCHANGED <<listed, intent, left, checking, softTag, free, userMoves,
                 historyVars>>

(* torrents_add_tags and torrents_remove_tags for the soft_allowed tag *)
GrantCall(batch, r) ==
  /\ CallMayEnd(batch, r)
  /\ softTag' = IF Took(r) THEN softTag \cup (batch \cap listed) ELSE softTag
  /\ UNCHANGED <<listed, intent, left, checking, pausedTag, free, userMoves,
                 historyVars>>

RevokeCall(batch, r) ==
  /\ CallMayEnd(batch, r)
  /\ softTag' = IF Took(r) THEN softTag \ batch ELSE softTag
  /\ UNCHANGED <<listed, intent, left, checking, pausedTag, free, userMoves,
                 historyVars>>

(* A query or a disk measurement changes nothing here; it may fail. *)
ReadCall(ok) ==
  /\ ok \/ faults < MaxFaults
  /\ faults' = IF ok THEN faults ELSE faults + 1
  /\ UNCHANGED <<torrentVars, free, userMoves, historyVars>>

-----------------------------------------------------------------------------
(* The user.  Every move counts against MaxUser. *)

Moves(kind) ==
  /\ kind \in UserMoves
  /\ userMoves < MaxUser
  /\ userMoves' = userMoves + 1
  /\ UNCHANGED <<softTag, free, faults>>

(* A torrent is added, running or stopped, with or without its metadata.   *)
AddTorrent(h) ==
  \E how \in {"run", "stop"}, size \in {Unknown} \cup 1..MaxLeft :
    /\ Moves("add")
    /\ h \notin listed
    /\ listed' = listed \cup {h}
    /\ intent' = [intent EXCEPT ![h] = how]
    /\ left' = [left EXCEPT ![h] = size]
    /\ stopper' = [stopper EXCEPT ![h] = IF how = "stop" THEN "user"
                                         ELSE "none"]
    /\ UNCHANGED <<checking, pausedTag, cut>>

RemoveTorrent(h) ==
  /\ "remove" \in UserMoves
  /\ userMoves < MaxUser
  /\ userMoves' = userMoves + 1
  /\ h \in listed
  /\ listed' = listed \ {h}
  /\ intent' = [intent EXCEPT ![h] = "run"]
  /\ left' = [left EXCEPT ![h] = Unknown]
  /\ checking' = checking \ {h}
  /\ pausedTag' = pausedTag \ {h}
  /\ softTag' = softTag \ {h}
  /\ stopper' = [stopper EXCEPT ![h] = "none"]
  /\ cut' = cut \ {h}
  /\ UNCHANGED <<free, faults>>

UserPause(h) ==
  /\ Moves("pause")
  /\ h \in listed /\ intent[h] # "stop"
  /\ intent' = [intent EXCEPT ![h] = "stop"]
  /\ stopper' = [stopper EXCEPT ![h] = "user"]
  /\ UNCHANGED <<listed, left, checking, pausedTag, cut>>

UserStarts(h, kind, how) ==
  /\ Moves(kind)
  /\ h \in listed /\ intent[h] # how
  /\ intent' = [intent EXCEPT ![h] = how]
  /\ stopper' = [stopper EXCEPT ![h] = "none"]
  /\ cut' = cut \ {h}
  /\ UNCHANGED <<listed, left, checking, pausedTag>>

UserResume(h) == UserStarts(h, "resume", "run")

UserForce(h) == UserStarts(h, "force", "force")

StartCheck(h) ==
  /\ Moves("recheck")
  /\ h \in listed \ checking /\ left[h] # Unknown
  /\ checking' = checking \cup {h}
  /\ UNCHANGED <<listed, intent, left, pausedTag, stopper, cut>>

(* qBittorrent on its own *)
EndCheck(h) ==
  /\ h \in checking
  /\ checking' = checking \ {h}
  /\ UNCHANGED <<listed, intent, left, pausedTag, softTag, free, userMoves,
                 faults, historyVars>>

MetadataArrives(h) ==
  /\ State(h) \in {"metaDL", "forcedMetaDL"}
  /\ \E size \in 1..MaxLeft : left' = [left EXCEPT ![h] = size]
  /\ UNCHANGED <<listed, intent, checking, pausedTag, softTag, free,
                 userMoves, faults, historyVars>>

Progress(h) ==
  /\ State(h) \in {"downloading", "forcedDL"}
  /\ left' = [left EXCEPT ![h] = @ - 1]
  /\ UNCHANGED <<listed, intent, checking, pausedTag, softTag, free,
                 userMoves, faults, historyVars>>

DiskChanges ==
  /\ \E f \in FreeLevels \ {free} : free' = f
  /\ UNCHANGED <<torrentVars, userMoves, faults, historyVars>>

WorldStep ==
  \/ \E h \in Hash :
       \/ AddTorrent(h) \/ RemoveTorrent(h)
       \/ UserPause(h) \/ UserResume(h) \/ UserForce(h)
       \/ StartCheck(h) \/ EndCheck(h)
       \/ MetadataArrives(h) \/ Progress(h)
  \/ DiskChanges

-----------------------------------------------------------------------------
(* Vocabulary for properties *)

(* DiskGuard stopped it and it is not finished. *)
HeldByGuard(h) ==
  /\ h \in listed
  /\ intent[h] = "stop"
  /\ stopper[h] = "guard"
  /\ left[h] # 0

(* Held, and nothing says so: no later tick will ever start it again. *)
Stranded(h) == HeldByGuard(h) /\ h \notin pausedTag
=============================================================================
