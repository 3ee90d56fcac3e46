---------------------------- MODULE MCDiskGuard ----------------------------
(***************************************************************************)
(* Instances of DiskGuard for TLC.  Free levels: 4 is HARD, 8 SOFT, 17     *)
(* NORMAL with a resume budget of one unit, 40 NORMAL with room for all.   *)
(***************************************************************************)
EXTENDS DiskGuard

MCDownloadingStates == {"downloading", "metaDL", "checkingDL"}

OneHash == {"a"}
MCPriority == [h \in Hash |-> 0]
MCAddedOn == [h \in Hash |-> 0]
MCHashOrder == [h \in Hash |-> IF h = "a" THEN 1 ELSE 2]

AddMoves == {"add"}
StopMoves == {"add", "pause", "resume", "recheck"}
LiveMoves == {"add", "resume", "force"}

LowLevels == {4, 8}
HighLevels == {8, 17}
FarLevels == {4, 40}
=============================================================================
