---------------------------- MODULE MCDiskBudget ----------------------------
(***************************************************************************)
(* An instance of DiskBudget for TLC.  Capacity 20, floor 3, buffer 1: the *)
(* free levels 4 to 7 are NORMAL with budgets of 0 to 3 units.             *)
(***************************************************************************)
EXTENDS DiskBudget

MCDownloadingStates == {"downloading", "metaDL", "checkingDL"}

(* "a" was added first and has the lower priority. *)
TwoHashes == {"a", "b"}
MCPriority == [h \in Hash |-> IF h = "a" THEN 0 ELSE 1]
MCAddedOn == [h \in Hash |-> IF h = "a" THEN 1 ELSE 2]
MCHashOrder == [h \in Hash |-> IF h = "a" THEN 1 ELSE 2]

StartMoves == {"add", "pause", "resume", "force"}

NormalLevels == 4..7
=============================================================================
