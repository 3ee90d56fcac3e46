-------------------------- MODULE MCResumePlanner --------------------------
(***************************************************************************)
(* An instance of ResumePolicies for TLC: every combination of three       *)
(* torrents of the kinds below, tagged in any way, at free levels that     *)
(* give budgets from below zero up to 5, under every resume section.       *)
(***************************************************************************)
EXTENDS ResumePolicies

MCDownloadingStates == {"downloading", "metaDL", "checkingDL"}

ThreeTorrents == {"a", "b", "c"}
MCPriority == [h \in ThreeTorrents |-> IF h = "a" THEN 0 ELSE 1]
MCAddedOn == [h \in ThreeTorrents |-> IF h = "a" THEN 1 ELSE 2]
MCHashOrder ==
  [h \in ThreeTorrents |-> CASE h = "a" -> 1 [] h = "b" -> 2 [] OTHER -> 3]

MaxSize == 3
MCFrees == 15..21

(* Stopped, running, without size, forced, with a wrong or missing size *)
MCKinds ==
  [state : {"pausedDL"}, left : Unknown..MaxSize]
    \cup [state : {"downloading"}, left : {1, 2}]
    \cup {[state |-> "metaDL", left |-> Unknown],
          [state |-> "forcedDL", left |-> 1]}
=============================================================================
