--------------------------- MODULE ResumePolicies ---------------------------
(***************************************************************************)
(* ResumePlanner's decision against its documented policies.  A behaviour  *)
(* has one step: from any snapshot, any set of tagged torrents, any free   *)
(* level and any resume section it computes the decision.                  *)
(***************************************************************************)
EXTENDS ResumePlanner

CONSTANTS
  Torrents,   \* what torrents_info lists
  Kinds,      \* the records (state and amount left) a torrent may have
  Frees       \* the free levels that are tried

ASSUME InputAssumption ==
  /\ IsFiniteSet(Torrents)
  /\ DOMAIN HashOrder = Torrents
  /\ Kinds \subseteq [state : TorrentStates, left : Int]
  /\ Frees \subseteq Int

VARIABLES
  snapshot,   \* per torrent: state and amount left
  tagged,     \* torrents the engine holds for tagged
  freeBytes,  \* measured free space
  resume,     \* the resume section of the configuration
  plan        \* what is started; Undecided before the step

planVars == <<snapshot, tagged, freeBytes, resume, plan>>

Undecided == {"undecided"}

PlanInit ==
  /\ snapshot \in [Torrents -> Kinds]
  /\ tagged \in SUBSET Torrents
  /\ freeBytes \in Frees
  /\ resume \in ResumeSections
  /\ plan = Undecided

PlanNext ==
  /\ plan = Undecided
  /\ plan' = Planned(resume, snapshot, tagged, freeBytes)
  /\ UNCHANGED <<snapshot, tagged, freeBytes, resume>>

PlanSpec == PlanInit /\ [][PlanNext]_planVars

-----------------------------------------------------------------------------
(* The policies as the documentation words them *)

Size(h) == snapshot[h].left

Total(S) == SumFunctionOnSet(AmountLeft(snapshot), S)

Candidates == {h \in tagged : snapshot[h].state = "pausedDL" /\ Size(h) > 0}

Active ==
  {h \in Torrents \ tagged :
     snapshot[h].state \in DownloadingStates \ {"forcedDL"}}

Room == freeBytes - FloorBytes - SafetyBuffer - Total(Active)

Older(g, h) ==
  \/ Priority[g] > Priority[h]
  \/ Priority[g] = Priority[h] /\ AddedOn[g] < AddedOn[h]
  \/ /\ Priority[g] = Priority[h] /\ AddedOn[g] = AddedOn[h]
     /\ HashOrder[g] < HashOrder[h]

Comes(g, h) ==
  CASE resume.policy = "smallest_first" ->
         Size(g) < Size(h) \/ (Size(g) = Size(h) /\ Older(g, h))
    [] resume.policy = "largest_first" ->
         Size(g) > Size(h) \/ (Size(g) = Size(h) /\ Older(g, h))
    [] OTHER -> Older(g, h)

Decided == plan # Undecided

SizesKnown == \A h \in Active : Size(h) >= 0

UpTo(h, S) == {g \in S : g = h \/ Comes(g, h)}

(* Nothing is started while the size of an active download is unknown      *)
(* (_calculate_active_remaining returning None).  Otherwise a candidate is *)
(* started exactly if it fits into what those before it leave; under       *)
(* strict_fifo exactly if all candidates up to it fit together.            *)
PlanFollowsPolicy ==
  Decided =>
    IF ~SizesKnown THEN plan = {}
    ELSE plan =
      {h \in Candidates :
         IF resume.policy = "priority_fifo" /\ resume.strict_fifo
         THEN Total(UpTo(h, Candidates)) <= Room
         ELSE Total(UpTo(h, plan) \cup {h}) <= Room}

(* All that is started together leaves floor, buffer and the remainder of  *)
(* the active downloads untouched (README, "How the Budget Works").        *)
PlanKeepsFloor ==
  Decided /\ plan # {} =>
    Total(plan) + Total(Active) + FloorBytes + SafetyBuffer <= freeBytes

(* smallest_first "maximizes the number of torrents that can resume within *)
(* the available disk budget" (README).                                    *)
SmallestStartsMost ==
  Decided /\ resume.policy = "smallest_first" /\ SizesKnown =>
    \A S \in SUBSET Candidates :
      Total(S) <= Room => Cardinality(S) <= Cardinality(plan)
=============================================================================
