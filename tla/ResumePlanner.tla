--------------------------- MODULE ResumePlanner ---------------------------
(***************************************************************************)
(* The decision of resume_planner.py: which of the torrents that carry the *)
(* paused tag are started on this tick.  All operators are functions of    *)
(* the resume section of the configuration (policy and strict_fifo), the   *)
(* tick's snapshot (per hash a state and an amount_left), the hashes the   *)
(* engine believes tagged, and the free bytes measured at the start of the *)
(* tick.  The two API calls that carry the decision out belong to          *)
(* ModeEngine.                                                             *)
(***************************************************************************)
EXTENDS TorrentState, FiniteSets, Functions

CONSTANTS
  Priority,     \* per hash: torrent.priority
  AddedOn,      \* per hash: torrent.added_on
  HashOrder     \* per hash: its place in the order of hash strings

Policies == {"priority_fifo", "smallest_first", "largest_first"}

ResumeSections == [policy : Policies, strict_fifo : BOOLEAN]

(* The order of hash strings is total and tells two hashes apart. *)
ASSUME OrderAssumption ==
  LET Keyed == DOMAIN HashOrder IN
    /\ Priority \in [Keyed -> Int]
    /\ AddedOn \in [Keyed -> Int]
    /\ HashOrder \in [Keyed -> Int]
    /\ \A g, h \in Keyed : HashOrder[g] = HashOrder[h] => g = h

-----------------------------------------------------------------------------
AmountLeft(snap) == [h \in DOMAIN snap |-> snap[h].left]

(* Mutant: the tag is not asked for.                                       *)
AnyStopped(snap, paused) ==
  {h \in DOMAIN snap : IsPausedDownload(snap[h].state) /\ snap[h].left > 0}

EligibleCandidates(snap, paused) ==
  {h \in paused : IsPausedDownload(snap[h].state) /\ snap[h].left > 0}

IsActiveForProjection(snap, paused, h) ==
  /\ h \notin paused
  /\ ~IsForced(snap[h].state)
  /\ IsDownloadingIsh(snap[h].state)

(* Unknown as soon as one active downloader has no size. *)
ActiveRemaining(snap, paused) ==
  LET active == {h \in DOMAIN snap : IsActiveForProjection(snap, paused, h)}
  IN  IF \E h \in active : snap[h].left < 0 THEN Unknown
      ELSE SumFunctionOnSet(AmountLeft(snap), active)

-----------------------------------------------------------------------------
(* sort_resume_candidates: the key of priority_fifo has no size; a size    *)
(* that is the same for all candidates stands for that.                    *)

(* Mutant: the signs of the two size policies are swapped.                 *)
SizeKeySwapped(policy, size) ==
  CASE policy = "smallest_first" -> -size
    [] policy = "largest_first"  -> size
    [] OTHER                     -> 0

SizeKey(policy, size) ==
  CASE policy = "smallest_first" -> size
    [] policy = "largest_first"  -> -size
    [] OTHER                     -> 0

SortKey(policy, snap, h) ==
  <<SizeKey(policy, snap[h].left), -Priority[h], AddedOn[h], HashOrder[h]>>

LexLess(s, t) ==
  \E i \in 1..4 : s[i] < t[i] /\ \A j \in 1..(i - 1) : s[j] = t[j]

SortsBefore(policy, snap, g, h) ==
  LexLess(SortKey(policy, snap, g), SortKey(policy, snap, h))

Sorted(policy, snap, hashes) ==
  CHOOSE order \in [1..Cardinality(hashes) -> hashes] :
    \A i, j \in DOMAIN order :
      i < j => SortsBefore(policy, snap, order[i], order[j])

(* Mutant: strict_fifo is obeyed under every policy.                       *)
StopsAlways(resume) == resume.strict_fifo

(* Strict order only exists under priority_fifo. *)
StopsAtMisfit(resume) == resume.policy = "priority_fifo" /\ resume.strict_fifo

(* remaining_budget after each of the sorted candidates *)
RemainingBudget(size, order, budget) ==
  LET room[i \in {0} \cup DOMAIN order] ==
        IF i = 0 THEN budget
        ELSE IF size[order[i]] <= room[i - 1]
             THEN room[i - 1] - size[order[i]]
             ELSE room[i - 1]
  IN  room

(* Mutant: what is started is not taken off the budget.                    *)
FittingAlone(resume, snap, candidates, budget) ==
  {h \in candidates : snap[h].left <= budget}

(* The loop over the sorted candidates: one is started when it fits,       *)
(* unless the loop was left at an earlier one.                             *)
Fitting(resume, snap, candidates, budget) ==
  LET order == Sorted(resume.policy, snap, candidates)
      room == RemainingBudget(AmountLeft(snap), order, budget)
      fits(i) == snap[order[i]].left <= room[i - 1]
      reached(i) ==
        StopsAtMisfit(resume) => \A j \in 1..(i - 1) : fits(j)
  IN  {h \in candidates :
         \E i \in DOMAIN order : order[i] = h /\ fits(i) /\ reached(i)}

(* planned_hashes: none when the active remainder is unknown. *)
Planned(resume, snap, paused, freeBytes) ==
  LET active == ActiveRemaining(snap, paused)
  IN  {h \in EligibleCandidates(snap, paused) :
         /\ active # Unknown
         /\ h \in Fitting(resume, snap, EligibleCandidates(snap, paused),
                          CalculateBudget(freeBytes, active))}
=============================================================================
