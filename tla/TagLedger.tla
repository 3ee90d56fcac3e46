----------------------------- MODULE TagLedger -----------------------------
(***************************************************************************)
(* What DiskGuard promises of the torrents it stops, without any of its    *)
(* calls, snapshots and tasks.  The paused tag is a ledger, in which a     *)
(* torrent is                                                              *)
(*                                                                         *)
(*   free      not stopped by DiskGuard                                    *)
(*   stopping  stopped by DiskGuard, the tag call comes next               *)
(*   held      stopped by DiskGuard, which knows it by its tag             *)
(*   lost      stopped by DiskGuard, and nothing says so                   *)
(*                                                                         *)
(*     free ---> stopping ---> held           free, stopping - - -> lost   *)
(*     free -----------------> held           (in an incident only)        *)
(*               lost -------> stopping, held                              *)
(*     any ------------------> free                                        *)
(*                                                                         *)
(* An incident is a call that failed or a process that ended.  One may     *)
(* lose torrents that are just being stopped, many at once, and never one  *)
(* that is held: to be in the ledger is to be safe from calls that fail,   *)
(* answers that are late, and restarts.                                    *)
(*                                                                         *)
(* ModeEngine, OnAddHandler and DiskGuard implement it, each with its own  *)
(* reading of ledger and incidents.                                        *)
(***************************************************************************)
EXTENDS Integers

CONSTANT Hash

VARIABLES
  ledger,     \* per hash, its entry
  incidents   \* incidents so far

ledgerVars == <<ledger, incidents>>

Entry == {"free", "stopping", "held", "lost"}

(* An earlier run may hold torrents; none counts as lost. *)
LedgerInit ==
  /\ ledger \in [Hash -> {"free", "held"}]
  /\ incidents = 0

(* What may become of one torrent at any time *)
Permitted ==
  {<<e, e>> : e \in Entry} \cup {<<e, "free">> : e \in Entry} \cup
    {<<"free", "stopping">>, <<"free", "held">>, <<"stopping", "held">>,
     <<"lost", "stopping">>, <<"lost", "held">>}

(* and in an incident *)
Losses == {<<"free", "lost">>, <<"stopping", "lost">>}

Turns(moves) ==
  /\ ledger' \in [Hash -> Entry]
  /\ \A h \in Hash : <<ledger[h], ledger'[h]>> \in moves

LedgerNext ==
  \/ incidents' >= incidents /\ Turns(Permitted)
  \/ incidents' > incidents /\ Turns(Permitted \cup Losses)

LedgerSpec == LedgerInit /\ [][LedgerNext]_ledgerVars
=============================================================================
