---------------------------- MODULE TorrentState ----------------------------
(***************************************************************************)
(* The pure functions of state.py and the enumeration of models.py: how a  *)
(* disk measurement becomes a mode, how the state string qBittorrent       *)
(* reports for a torrent is classified, and what may be spent on resumes.  *)
(*                                                                         *)
(* Sizes are in an abstract unit.  The code divides free by total bytes    *)
(* and compares percentages; here both sides are multiplied out, so no     *)
(* rounding is involved.  State strings that no predicate tells apart are  *)
(* one string: "downloading" stands for downloading, stalledDL, queuedDL   *)
(* and allocating, "pausedDL" for pausedDL and stoppedDL, "uploading" for  *)
(* every running seeding state that is not forced or checking.             *)
(***************************************************************************)
EXTENDS Integers

CONSTANTS
  TotalBytes,         \* capacity of the watched file system
  SoftPct,            \* disk.soft_pause_below_pct
  HardPct,            \* disk.hard_pause_below_pct
  FloorPct,           \* disk.resume_floor_pct
  SafetyBuffer,       \* disk.safety_buffer_gb, in the unit of TotalBytes
  DownloadingStates   \* disk.downloading_states

(* What config._validate enforces of the disk section, and what            *)
(* DiskProbe.measure enforces of the capacity.                             *)
ASSUME ConfigAssumption ==
  /\ TotalBytes \in Nat \ {0}
  /\ HardPct \in 0..100
  /\ SoftPct \in 0..100
  /\ FloorPct \in 0..100
  /\ HardPct < SoftPct
  /\ SoftPct <= FloorPct
  /\ SafetyBuffer \in Nat

-----------------------------------------------------------------------------
Mode == {"NORMAL", "SOFT", "HARD"}

(* The states a torrent can be reported in.  "absent" is the model's word  *)
(* for a hash that torrents_info does not return.                          *)
TorrentStates ==
  {"absent", "downloading", "metaDL", "checkingDL", "forcedDL",
   "forcedMetaDL", "pausedDL", "uploading", "checkingUP", "forcedUP",
   "pausedUP"}

ASSUME StatesAssumption == DownloadingStates \subseteq TorrentStates \ {"absent"}

(* amount_left of a torrent that reports none, or a negative one *)
Unknown == -1

PausedDownloadStates == {"pausedDL"}

IsForced(state) == state = "forcedDL"

IsDownloadingIsh(state) == state \in DownloadingStates

IsPausedDownload(state) == state \in PausedDownloadStates

IsCompletedOrSeeding(state) ==
  /\ ~IsDownloadingIsh(state)
  /\ ~IsPausedDownload(state)
  /\ state \in {"uploading", "checkingUP", "forcedUP", "pausedUP"}

-----------------------------------------------------------------------------
Below(freeBytes, pct) == freeBytes * 100 < pct * TotalBytes

(* Mutant: the last return is missing, so None is what is returned.        *)
ClassifyModeFallsThrough(freeBytes) ==
  IF Below(freeBytes, HardPct) THEN "HARD"
  ELSE IF Below(freeBytes, SoftPct) THEN "SOFT" ELSE "NONE"

ClassifyMode(freeBytes) ==
  IF Below(freeBytes, HardPct) THEN "HARD"
  ELSE IF Below(freeBytes, SoftPct) THEN "SOFT" ELSE "NORMAL"

FloorBytes == (TotalBytes * FloorPct) \div 100

CalculateBudget(freeBytes, activeRemaining) ==
  freeBytes - FloorBytes - SafetyBuffer - activeRemaining
=============================================================================
