---------------------------- MODULE OnAddHandler ----------------------------
(***************************************************************************)
(* The /on-add endpoint of api.py and its quick-poll worker.               *)
(*                                                                         *)
(* A callback says that a torrent was added.  handle is one atomic step:   *)
(* nothing awaits between the disk measurement and the queue.  The worker  *)
(* is a task that exists while the queue is not empty; it gives way while  *)
(* it sleeps and at every API call.  The mode kept with a queued hash is   *)
(* only logged, so the queue is the set of its hashes with their attempts. *)
(***************************************************************************)
EXTENDS QBittorrent, FiniteSetsExt

CONSTANTS
  MaxQueue,     \* polling.on_add_quick_poll_max_queue_size
  MaxAttempts   \* polling.on_add_quick_poll_max_attempts

ASSUME OnAddAssumption ==
  /\ MaxQueue \in Nat \ {0}
  /\ MaxAttempts \in Nat \ {0}

VARIABLES
  hooks,      \* hashes with a callback on its way
  queue,      \* keys of _quick_poll_queue_by_hash
  attempts,   \* per hash: attempts of its entry
  workPc,     \* the worker: "none", or the await it is at
  (* Locals of one round of the worker: *)
  polled,     \* polled_hashes
  toPause     \* known_size_hashes_to_pause

workerVars == <<queue, attempts, workPc, polled, toPause>>
onAddVars == <<hooks, workerVars>>
allVars == <<worldVars, onAddVars>>

OnAddTypeOK ==
  /\ hooks \subseteq Hash
  /\ queue \subseteq Hash
  /\ attempts \in [Hash -> 0..MaxAttempts]
  /\ workPc \in {"none", "sleep", "poll", "pause", "mark"}
  /\ polled \subseteq Hash
  /\ toPause \subseteq Hash

(* Types of the handler and its world (api.py). *)
HandlerTypeOK == WorldTypeOK /\ OnAddTypeOK

OnAddInit ==
  /\ hooks = {}
  /\ queue = {}
  /\ attempts = [h \in Hash |-> 0]
  /\ workPc = "none"
  /\ polled = {}
  /\ toPause = {}

-----------------------------------------------------------------------------
(* The callback *)

(* Refused (401, 400), sent to nobody, or deferred because the disk probe  *)
(* failed: nothing will come of this callback.                             *)
DropHook(h) ==
  /\ h \in hooks
  /\ hooks' = hooks \ {h}
  /\ UNCHANGED <<worldVars, workerVars>>

(* Mutant: the backlog limit is off by one.                                *)
HandleOneMore(h) ==
  /\ h \in hooks
  /\ hooks' = hooks \ {h}
  /\ IF \/ ClassifyMode(free) = "NORMAL"
        \/ h \in queue
        \/ Cardinality(queue) > MaxQueue
     THEN UNCHANGED workerVars
     ELSE /\ queue' = queue \cup {h}
          /\ attempts' = [attempts EXCEPT ![h] = 0]
          /\ workPc' = IF workPc = "none" THEN "sleep" ELSE workPc
          /\ UNCHANGED <<polled, toPause>>
  /\ UNCHANGED worldVars

(* Mutant: the worker is not started.                                      *)
HandleQueuesOnly(h) ==
  /\ h \in hooks
  /\ hooks' = hooks \ {h}
  /\ IF \/ ClassifyMode(free) = "NORMAL"
        \/ h \in queue
        \/ Cardinality(queue) >= MaxQueue
     THEN UNCHANGED workerVars
     ELSE /\ queue' = queue \cup {h}
          /\ attempts' = [attempts EXCEPT ![h] = 0]
          /\ UNCHANGED <<workPc, polled, toPause>>
  /\ UNCHANGED worldVars

(* handle: in NORMAL nothing is to be done; a hash that is queued already  *)
(* is not queued twice; a full queue answers 429; else the hash is queued  *)
(* and the worker started unless it runs.                                  *)
Handle(h) ==
  /\ h \in hooks
  /\ hooks' = hooks \ {h}
  /\ IF \/ ClassifyMode(free) = "NORMAL"
        \/ h \in queue
        \/ Cardinality(queue) >= MaxQueue
     THEN UNCHANGED workerVars
     ELSE /\ queue' = queue \cup {h}
          /\ attempts' = [attempts EXCEPT ![h] = 0]
          /\ workPc' = IF workPc = "none" THEN "sleep" ELSE workPc
          /\ UNCHANGED <<polled, toPause>>
  /\ UNCHANGED worldVars

-----------------------------------------------------------------------------
(* The worker *)

(* Mutant: an attempt too many, found out after the count was raised.      *)
EndRoundLate(done) ==
  LET again == (polled \cap queue) \ done
      out   == {h \in again : attempts[h] > MaxAttempts}
  IN  /\ queue' = (queue \ done) \ out
      /\ attempts' = [h \in Hash |-> IF h \in done \cup out THEN 0
                                     ELSE IF h \in again THEN attempts[h] + 1
                                     ELSE attempts[h]]
      /\ workPc' = IF queue' = {} THEN "none" ELSE "sleep"
      /\ polled' = {}
      /\ toPause' = {}

(* Mutant: attempts are not counted.                                       *)
EndRoundUncounted(done) ==
  /\ queue' = queue \ done
  /\ attempts' = [h \in Hash |-> IF h \in done THEN 0 ELSE attempts[h]]
  /\ workPc' = IF queue' = {} THEN "none" ELSE "sleep"
  /\ polled' = {}
  /\ toPause' = {}

(* End of a round: the hashes in done leave the queue, each other one of   *)
(* the round has one more attempt behind it and leaves after the last.     *)
(* The worker sleeps, or ends with the queue empty.                        *)
EndRound(done) ==
  LET again == (polled \cap queue) \ done
      out   == {h \in again : attempts[h] + 1 >= MaxAttempts}
  IN  /\ queue' = (queue \ done) \ out
      /\ attempts' = [h \in Hash |-> IF h \in done \cup out THEN 0
                                     ELSE IF h \in again THEN attempts[h] + 1
                                     ELSE attempts[h]]
      /\ workPc' = IF queue' = {} THEN "none" ELSE "sleep"
      /\ polled' = {}
      /\ toPause' = {}

WakeUp ==
  /\ workPc = "sleep"
  /\ IF queue = {}
     THEN workPc' = "none" /\ UNCHANGED <<queue, attempts, polled, toPause>>
     ELSE /\ workPc' = "poll"
          /\ polled' = queue
          /\ UNCHANGED <<queue, attempts, toPause>>
  /\ UNCHANGED <<worldVars, hooks>>

(* Mutant: the hashes are popped before they are stopped.                  *)
PollPops ==
  LET batch  == polled \cap queue
      sized  == {h \in batch \cap listed : left[h] > 0}
      forced == {h \in sized : IsForced(State(h))}
  IN  /\ workPc = "poll"
      /\ ReadCall(TRUE)
      /\ queue' = (queue \ (batch \ listed)) \ sized
      /\ toPause' = sized \ forced
      /\ workPc' = "pause"
      /\ UNCHANGED <<attempts, polled, hooks>>

(* Mutant: what carries the paused tag is taken for stopped.               *)
PollSkipsTagged ==
  LET batch  == polled \cap queue
      gone   == batch \ listed
      sized  == {h \in batch \cap listed : left[h] > 0}
      done   == {h \in sized : IsForced(State(h)) \/ h \in pausedTag}
  IN  /\ workPc = "poll"
      /\ ReadCall(TRUE)
      /\ IF sized = done THEN EndRound(gone \cup done)
         ELSE /\ queue' = queue \ (gone \cup done)
              /\ attempts' = [h \in Hash |->
                                IF h \in gone \cup done THEN 0
                                ELSE attempts[h]]
              /\ toPause' = sized \ done
              /\ workPc' = "pause"
              /\ UNCHANGED polled
      /\ UNCHANGED hooks

(* torrents_info for the hashes of the round.  Gone and forced torrents    *)
(* leave the queue, those without a size are left for the next round, all  *)
(* others are to be stopped.                                               *)
Poll ==
  LET batch  == polled \cap queue
      gone   == batch \ listed
      sized  == {h \in batch \cap listed : left[h] > 0}
      forced == {h \in sized : IsForced(State(h))}
  IN  /\ workPc = "poll"
      /\ \/ /\ ReadCall(TRUE)
            /\ IF sized = forced THEN EndRound(gone \cup forced)
               ELSE /\ queue' = queue \ (gone \cup forced)
                    /\ attempts' = [h \in Hash |->
                                      IF h \in gone \cup forced THEN 0
                                      ELSE attempts[h]]
                    /\ toPause' = sized \ forced
                    /\ workPc' = "pause"
                    /\ UNCHANGED polled
         \/ ReadCall(FALSE) /\ EndRound({})
      /\ UNCHANGED hooks

(* Mutant: nothing is tagged after the stop.                               *)
WorkerPauseOnly ==
  /\ workPc = "pause"
  /\ \E r \in Outcome :
       /\ PauseCall(toPause, r)
       /\ EndRound(IF r = "raise" THEN {} ELSE toPause)
  /\ UNCHANGED hooks

(* _pause_and_mark_many, the stop call.  An APIError is swallowed, so the  *)
(* hashes count as done; only another exception leaves them queued.        *)
WorkerPause ==
  /\ workPc = "pause"
  /\ \E r \in Outcome :
       /\ PauseCall(toPause, r)
       /\ IF r = "ok"
          THEN /\ workPc' = "mark"
               /\ UNCHANGED <<queue, attempts, polled, toPause>>
          ELSE EndRound(IF r = "raise" THEN {} ELSE toPause)
  /\ UNCHANGED hooks

(* Mutant: a tag call that failed is rolled back.                          *)
WorkerMarkRollsBack ==
  /\ workPc = "mark"
  /\ \/ MarkCall(toPause, "ok")
     \/ /\ CallMayEnd(toPause, "error")
        /\ pausedTag' = pausedTag \ toPause
        /\ cut' = cut \cup (toPause \cap listed)
        /\ UNCHANGED <<listed, intent, left, checking, softTag, free,
                       userMoves, stopper>>
  /\ EndRound(toPause)
  /\ UNCHANGED hooks

(* _pause_and_mark_many, the tag call *)
WorkerMark ==
  /\ workPc = "mark"
  /\ \E r \in Outcome :
       /\ MarkCall(toPause, r)
       /\ EndRound(IF r = "raise" THEN {} ELSE toPause)
  /\ UNCHANGED hooks

WorkerStep == WakeUp \/ Poll \/ WorkerPause \/ WorkerMark

HandlerStep == WorkerStep \/ \E h \in Hash : Handle(h)

-----------------------------------------------------------------------------
(* When callbacks are sent: qBittorrent runs the script for each torrent   *)
(* that is added, and somebody may run it again by hand.                   *)

RunHookAgain(h) ==
  /\ "hook" \in UserMoves
  /\ userMoves < MaxUser
  /\ userMoves' = userMoves + 1
  /\ h \in listed \ hooks
  /\ hooks' = hooks \cup {h}
  /\ UNCHANGED <<torrentVars, free, faults, historyVars>>

HooksFollowAdds ==
  hooks' = hooks \cup (listed' \ listed)

HookWorldStep ==
  /\ \/ WorldStep /\ HooksFollowAdds
     \/ \E h \in Hash : RunHookAgain(h)
  /\ UNCHANGED workerVars

OnAddNext ==
  \/ HandlerStep
  \/ \E h \in Hash : DropHook(h)
  \/ HookWorldStep

HandlerInit == WorldInit /\ OnAddInit

OnAddSpec == HandlerInit /\ [][OnAddNext]_allVars

(* The event loop always comes back to the worker task; a callback in      *)
(* flight is always handled or dropped.                                    *)
OnAddFairSpec ==
  /\ OnAddSpec
  /\ WF_allVars(WorkerStep)
  /\ \A h \in Hash : WF_allVars(Handle(h) \/ DropHook(h))

-----------------------------------------------------------------------------
(* Safety *)

(* The backlog limit holds however callbacks and rounds interleave.        *)
QueueBounded == Cardinality(queue) <= MaxQueue

(* A queued hash always has a worker: the worker never ends between the    *)
(* moment it finds the queue empty and the moment a callback fills it.     *)
NoLostWakeup == queue # {} => workPc # "none"

(* While a hash is being stopped and tagged it stays queued, so that a     *)
(* second callback for it is still recognised (comment in the worker).     *)
InFlightStaysQueued == toPause \subseteq queue

WorkerAboutToMark(h) == workPc = "mark" /\ h \in toPause

(* A torrent the worker stopped carries the paused tag, except between its *)
(* two calls, or when the first was lost or the second failed.             *)
StoppedIsMarked ==
  \A h \in Hash : Stranded(h) => h \in cut \/ WorkerAboutToMark(h)

(* How the worker keeps the ledger of TagLedger *)
WorkerEntry(h) ==
  IF ~HeldByGuard(h) THEN "free"
  ELSE IF h \in pausedTag THEN "held"
  ELSE IF WorkerAboutToMark(h) THEN "stopping" ELSE "lost"

WorkerLedger ==
  INSTANCE TagLedger WITH ledger <- [h \in Hash |-> WorkerEntry(h)],
                          incidents <- faults

(* The worker implements TagLedger, however callbacks, rounds and the user *)
(* interleave: its calls that fail cost at most the torrents whose stop is *)
(* under way, never one that is tagged already, although the worker stops  *)
(* and tags such torrents again.                                           *)
WorkerKeepsLedger == WorkerLedger!LedgerSpec

-----------------------------------------------------------------------------
(* Liveness, under OnAddFairSpec *)

(* No hash is polled for ever.                                             *)
QueueDrains == \A h \in Hash : h \in queue ~> h \notin queue

(* A queued download whose size is known when the worker goes to sleep is  *)
(* stopped, unless a call fails.                                           *)
QueuedDownloadIsStopped ==
  \A h \in Hash :
    (workPc = "sleep" /\ h \in queue /\ State(h) = "downloading")
      ~> (State(h) # "downloading" \/ faults > 0)
=============================================================================
