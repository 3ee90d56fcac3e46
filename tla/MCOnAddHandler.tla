--------------------------- MODULE MCOnAddHandler ---------------------------
(***************************************************************************)
(* Instances of OnAddHandler for TLC: of the two free levels 8 is SOFT and *)
(* 40 NORMAL (the handler treats SOFT and HARD alike).                     *)
(***************************************************************************)
EXTENDS OnAddHandler

MCDownloadingStates == {"downloading", "metaDL", "checkingDL"}

TwoHashes == {"a", "b"}

AddMoves == {"add", "hook", "resume"}
ReaddMoves == {"add", "remove", "hook", "resume"}

TwoLevels == {8, 40}
=============================================================================
