---------------------------- MODULE MCModeEngine ----------------------------
(***************************************************************************)
(* Instances of ModeEngine for TLC.  Capacity 100, HARD below 5, SOFT      *)
(* below 10, floor 15, buffer 1: of the free levels 4, 8 and 17 the first  *)
(* is HARD, the second SOFT, the third NORMAL with a resume budget of one  *)
(* unit, enough for one torrent.                                           *)
(***************************************************************************)
EXTENDS ModeEngine

MCDownloadingStates == {"downloading", "metaDL", "checkingDL"}

(* "a" was added first and has the lower priority. *)
OneHash == {"a"}
MCPriority == [h \in Hash |-> IF h = "a" THEN 0 ELSE 1]
MCAddedOn == [h \in Hash |-> IF h = "a" THEN 1 ELSE 2]
MCHashOrder == [h \in Hash |-> IF h = "a" THEN 1 ELSE 2]

CheckMoves == {"recheck"}
AllButCheck == {"add", "remove", "pause", "resume", "force"}

AllLevels == {4, 8, 17}
=============================================================================
