------------------------- MODULE OnAddHandlerProofs -------------------------
(***************************************************************************)
(* Theorems about OnAddHandler: types, the backlog limit, that a queued    *)
(* hash always has a worker and stays queued while it is worked on, and    *)
(* that the worker leaves no stopped torrent without its tag.              *)
(***************************************************************************)
EXTENDS OnAddHandler, QBittorrentProofs, FiniteSetTheorems

(* The conjuncts need each other only for types. *)
OInv ==
  /\ HandlerTypeOK
  /\ QueueBounded
  /\ NoLostWakeup
  /\ InFlightStaysQueued
  /\ StoppedIsMarked

-----------------------------------------------------------------------------
(* The end of a round *)

LEMMA EndRoundFacts ==
  ASSUME OnAddTypeOK, NEW done, EndRound(done)
  PROVE  /\ queue' \subseteq queue
         /\ attempts' \in [Hash -> 0..MaxAttempts]
         /\ workPc' \in {"none", "sleep"}
         /\ NoLostWakeup'
         /\ polled' = {} /\ toPause' = {}
<1> DEFINE again == (polled \cap queue) \ done
           out == {h \in again : attempts[h] + 1 >= MaxAttempts}
<1>1. queue' = (queue \ done) \ out
  BY DEF EndRound
<1>2. attempts' = [h \in Hash |-> IF h \in done \cup out THEN 0
                                  ELSE IF h \in again THEN attempts[h] + 1
                                  ELSE attempts[h]]
  BY DEF EndRound
<1>3. ASSUME NEW h \in Hash
      PROVE  (IF h \in done \cup out THEN 0
              ELSE IF h \in again THEN attempts[h] + 1
              ELSE attempts[h]) \in 0..MaxAttempts
  <2>1. attempts[h] \in 0..MaxAttempts
    BY DEF OnAddTypeOK
  <2>2. h \in again /\ h \notin out => attempts[h] + 1 < MaxAttempts
    BY <2>1, OnAddAssumption
  <2>3. QED
    BY <2>1, <2>2, OnAddAssumption
<1>4. attempts' \in [Hash -> 0..MaxAttempts]
  BY <1>2, <1>3
<1>5. workPc' = IF queue' = {} THEN "none" ELSE "sleep"
  BY DEF EndRound
<1>6. polled' = {} /\ toPause' = {}
  BY DEF EndRound
<1>7. QED
  BY <1>1, <1>4, <1>5, <1>6 DEF NoLostWakeup

LEMMA QueueShrinks ==
  ASSUME OnAddTypeOK, QueueBounded, queue' \subseteq queue
  PROVE  QueueBounded'
<1>1. IsFiniteSet(queue)
  BY WorldAssumption, FS_Subset DEF OnAddTypeOK
<1>2. Cardinality(queue') <= Cardinality(queue)
  BY <1>1, FS_Subset
<1>3. Cardinality(queue) \in Nat /\ Cardinality(queue') \in Nat
  BY <1>1, FS_Subset, FS_CardinalityType
<1>4. QED
  BY <1>2, <1>3, OnAddAssumption DEF QueueBounded

-----------------------------------------------------------------------------
(* Steps *)

LEMMA HandleKeepsOInv ==
  ASSUME OInv, NEW h \in Hash, Handle(h)
  PROVE  OInv'
<1> USE DEF OInv, HandlerTypeOK
<1>1. UNCHANGED <<listed, intent, left, checking, pausedTag, softTag, free,
                  userMoves, faults, stopper, cut>>
  BY DEF Handle, worldVars, torrentVars, historyVars
<1>2. WorldTypeOK'
  BY <1>1 DEF WorldTypeOK
<1>3. UNCHANGED <<polled, toPause>> /\ hooks' \subseteq hooks
  BY DEF Handle, workerVars
<1>4. CASE UNCHANGED workerVars
  <2>1. UNCHANGED <<queue, attempts, workPc, polled, toPause>>
    BY <1>4 DEF workerVars
  <2>2. OnAddTypeOK'
    BY <1>3, <2>1 DEF OnAddTypeOK
  <2>3. QueueBounded' /\ NoLostWakeup' /\ InFlightStaysQueued'
    BY <2>1 DEF QueueBounded, NoLostWakeup, InFlightStaysQueued
  <2>4. StoppedIsMarked'
    BY <1>1, <2>1 DEF StoppedIsMarked, Stranded, HeldByGuard, WorkerAboutToMark
  <2>5. QED
    BY <1>2, <2>2, <2>3, <2>4
<1>5. CASE ~UNCHANGED workerVars
  <2>1. /\ h \notin queue /\ ~(Cardinality(queue) >= MaxQueue)
        /\ queue' = queue \cup {h}
        /\ attempts' = [attempts EXCEPT ![h] = 0]
        /\ workPc' = IF workPc = "none" THEN "sleep" ELSE workPc
    BY <1>5 DEF Handle
  <2>2. OnAddTypeOK'
    BY <1>3, <2>1, OnAddAssumption DEF OnAddTypeOK
  <2>3. IsFiniteSet(queue)
    BY WorldAssumption, FS_Subset DEF OnAddTypeOK
  <2>4. Cardinality(queue') = Cardinality(queue) + 1 /\ Cardinality(queue) \in Nat
    BY <2>1, <2>3, FS_AddElement, FS_CardinalityType
  <2>5. QueueBounded'
    BY <2>1, <2>4, OnAddAssumption DEF QueueBounded
  <2>6. NoLostWakeup' /\ InFlightStaysQueued'
    BY <1>3, <2>1 DEF NoLostWakeup, InFlightStaysQueued
  <2>7. StoppedIsMarked'
    BY <1>1, <1>3, <2>1
    DEF StoppedIsMarked, Stranded, HeldByGuard, WorkerAboutToMark
  <2>8. QED
    BY <1>2, <2>2, <2>5, <2>6, <2>7
<1>6. QED
  BY <1>4, <1>5

(* A round that ends keeps everything but StoppedIsMarked. *)
LEMMA EndRoundKeeps ==
  ASSUME OInv, NEW done, EndRound(done), UNCHANGED hooks
  PROVE  OnAddTypeOK' /\ QueueBounded' /\ NoLostWakeup' /\ InFlightStaysQueued'
<1>1. OnAddTypeOK
  BY DEF OInv, HandlerTypeOK
<1>2. /\ queue' \subseteq queue
      /\ attempts' \in [Hash -> 0..MaxAttempts]
      /\ workPc' \in {"none", "sleep"}
      /\ NoLostWakeup'
      /\ polled' = {} /\ toPause' = {}
  BY <1>1, EndRoundFacts
<1>3. OnAddTypeOK'
  BY <1>1, <1>2 DEF OnAddTypeOK
<1>4. QueueBounded'
  BY <1>1, <1>2, QueueShrinks DEF OInv
<1>5. QED
  BY <1>2, <1>3, <1>4 DEF InFlightStaysQueued

LEMMA WakeUpKeepsOInv ==
  ASSUME OInv, WakeUp
  PROVE  OInv'
<1>1. UNCHANGED <<listed, intent, left, checking, pausedTag, softTag, free,
                  userMoves, faults, stopper, cut, hooks, queue, attempts,
                  toPause>>
  BY DEF WakeUp, worldVars, torrentVars, historyVars
<1>2. WorldTypeOK' /\ OnAddTypeOK'
  BY <1>1 DEF WakeUp, OInv, HandlerTypeOK, WorldTypeOK, OnAddTypeOK
<1>3. QueueBounded' /\ NoLostWakeup' /\ InFlightStaysQueued'
  BY <1>1 DEF WakeUp, OInv, QueueBounded, NoLostWakeup, InFlightStaysQueued
<1>4. StoppedIsMarked'
  BY <1>1 DEF WakeUp, OInv, StoppedIsMarked, Stranded, HeldByGuard,
              WorkerAboutToMark
<1>5. QED
  BY <1>2, <1>3, <1>4 DEF OInv, HandlerTypeOK

LEMMA PollKeepsOInv ==
  ASSUME OInv, Poll
  PROVE  OInv'
<1>1. WorldTypeOK'
  BY ReadCallType DEF Poll, OInv, HandlerTypeOK
<1>2. UNCHANGED <<listed, intent, left, pausedTag, stopper, cut, hooks>>
  BY DEF Poll, ReadCall, torrentVars, historyVars
<1>3. StoppedIsMarked'
  BY <1>2 DEF Poll, OInv, StoppedIsMarked, Stranded, HeldByGuard,
              WorkerAboutToMark
<1>4. CASE \E done : EndRound(done)
  BY <1>1, <1>2, <1>3, <1>4, EndRoundKeeps DEF OInv, HandlerTypeOK
<1>5. CASE ~\E done : EndRound(done)
  <2> DEFINE batch  == polled \cap queue
             gone   == batch \ listed
             sized  == {h \in batch \cap listed : left[h] > 0}
             forced == {h \in sized : IsForced(State(h))}
  <2>1. /\ queue' = queue \ (gone \cup forced)
        /\ attempts' = [h \in Hash |-> IF h \in gone \cup forced THEN 0
                                       ELSE attempts[h]]
        /\ toPause' = sized \ forced
        /\ workPc' = "pause"
        /\ UNCHANGED polled
    BY <1>5 DEF Poll
  <2>2. OnAddTypeOK'
    BY <1>2, <2>1, OnAddAssumption DEF OInv, HandlerTypeOK, OnAddTypeOK
  <2>3. QueueBounded'
    BY <2>1, QueueShrinks DEF OInv, HandlerTypeOK
  <2>4. NoLostWakeup' /\ InFlightStaysQueued'
    BY <2>1 DEF NoLostWakeup, InFlightStaysQueued
  <2>5. QED
    BY <1>1, <1>3, <2>2, <2>3, <2>4 DEF OInv, HandlerTypeOK
<1>6. QED
  BY <1>4, <1>5

LEMMA WorkerPauseKeepsOInv ==
  ASSUME OInv, WorkerPause
  PROVE  OInv'
<1>1. PICK r \in Outcome :
        /\ PauseCall(toPause, r)
        /\ IF r = "ok"
           THEN workPc' = "mark" /\ UNCHANGED <<queue, attempts, polled, toPause>>
           ELSE EndRound(IF r = "raise" THEN {} ELSE toPause)
  BY DEF WorkerPause
<1>2. UNCHANGED hooks /\ workPc = "pause"
  BY DEF WorkerPause
<1>3. WorldTypeOK'
  BY <1>1, PauseCallType DEF OInv, HandlerTypeOK
<1>4. OnAddTypeOK' /\ QueueBounded' /\ NoLostWakeup' /\ InFlightStaysQueued'
  <2>1. CASE r = "ok"
    BY <1>1, <1>2, <2>1 DEF OInv, HandlerTypeOK, OnAddTypeOK, QueueBounded,
                            NoLostWakeup, InFlightStaysQueued
  <2>2. CASE r # "ok"
    BY <1>1, <1>2, <2>2, EndRoundKeeps
  <2>3. QED
    BY <2>1, <2>2
<1>5. ASSUME NEW h \in Hash, HeldByGuard(h)', h \notin pausedTag'
      PROVE  h \in cut' \/ WorkerAboutToMark(h)'
  <2>1. CASE Took(r) /\ h \in toPause
    <3>1. CASE r = "ok"
      BY <1>1, <2>1, <3>1 DEF WorkerAboutToMark
    <3>2. CASE r = "lost"
      BY <1>1, <1>5, <2>1, <3>2 DEF PauseCall, PauseTakes, HeldByGuard
    <3>3. QED
      BY <2>1, <3>1, <3>2 DEF Took
  <2>2. CASE ~(Took(r) /\ h \in toPause)
    <3>1. Stranded(h)
      BY <1>1, <1>5, <2>2 DEF PauseCall, PauseTakes, HeldByGuard, Stranded, OInv,
                              HandlerTypeOK, WorldTypeOK
    <3>2. h \in cut
      BY <1>2, <3>1 DEF OInv, StoppedIsMarked, WorkerAboutToMark
    <3>3. QED
      BY <1>1, <3>2 DEF PauseCall, PauseTakes
  <2>3. QED
    BY <2>1, <2>2
<1>6. StoppedIsMarked'
  BY <1>5 DEF StoppedIsMarked, Stranded
<1>7. QED
  BY <1>3, <1>4, <1>6 DEF OInv, HandlerTypeOK

LEMMA WorkerMarkKeepsOInv ==
  ASSUME OInv, WorkerMark
  PROVE  OInv'
<1>1. PICK r \in Outcome :
        /\ MarkCall(toPause, r)
        /\ EndRound(IF r = "raise" THEN {} ELSE toPause)
  BY DEF WorkerMark
<1>2. UNCHANGED hooks
  BY DEF WorkerMark
<1>3. WorldTypeOK'
  BY <1>1, MarkCallType DEF OInv, HandlerTypeOK
<1>4. OnAddTypeOK' /\ QueueBounded' /\ NoLostWakeup' /\ InFlightStaysQueued'
  BY <1>1, <1>2, EndRoundKeeps
<1>5. \A h : HeldByGuard(h)' = HeldByGuard(h)
  BY <1>1 DEF MarkCall, HeldByGuard
<1>6. ASSUME NEW h \in Hash, HeldByGuard(h), h \notin pausedTag'
      PROVE  h \in cut'
  <2>1. Stranded(h)
    BY <1>1, <1>6 DEF MarkCall, Stranded
  <2>2. h \in cut \/ h \in toPause
    BY <2>1 DEF OInv, StoppedIsMarked, WorkerAboutToMark
  <2>3. QED
    BY <1>1, <1>6, <2>2 DEF MarkCall, HeldByGuard
<1>7. StoppedIsMarked'
  BY <1>5, <1>6 DEF StoppedIsMarked, Stranded
<1>8. QED
  BY <1>3, <1>4, <1>7 DEF OInv, HandlerTypeOK

LEMMA EnvironmentKeepsOInv ==
  ASSUME OInv, HookWorldStep \/ \E h \in Hash : DropHook(h)
  PROVE  OInv'
<1> USE DEF OInv, HandlerTypeOK
<1>1. UNCHANGED <<queue, attempts, workPc, polled, toPause>>
  BY DEF HookWorldStep, DropHook, workerVars
<1>2. QueueBounded' /\ NoLostWakeup' /\ InFlightStaysQueued'
  BY <1>1 DEF QueueBounded, NoLostWakeup, InFlightStaysQueued
<1>3. CASE WorldStep /\ HooksFollowAdds
  <2>1. WorldTypeOK'
    BY <1>3, WorldStepType
  <2>2. OnAddTypeOK'
    BY <1>1, <1>3, <2>1 DEF HooksFollowAdds, OnAddTypeOK, WorldTypeOK
  <2>3. StoppedIsMarked'
    BY <1>1, <1>3, WorldNeverHolds
    DEF StoppedIsMarked, Stranded, WorkerAboutToMark
  <2>4. QED
    BY <1>2, <2>1, <2>2, <2>3
<1>4. CASE (\E h \in Hash : RunHookAgain(h)) \/ \E h \in Hash : DropHook(h)
  <2>1. UNCHANGED <<listed, intent, left, checking, pausedTag, softTag, free,
                    faults, stopper, cut>>
    BY <1>4 DEF RunHookAgain, DropHook, worldVars, torrentVars, historyVars
  <2>2. userMoves' \in 0..MaxUser
    BY <1>4, WorldAssumption DEF RunHookAgain, DropHook, worldVars, WorldTypeOK
  <2>3. WorldTypeOK'
    BY <2>1, <2>2 DEF WorldTypeOK
  <2>4. OnAddTypeOK'
    BY <1>1, <1>4 DEF RunHookAgain, DropHook, OnAddTypeOK
  <2>5. StoppedIsMarked'
    BY <1>1, <2>1 DEF StoppedIsMarked, Stranded, HeldByGuard, WorkerAboutToMark
  <2>6. QED
    BY <1>2, <2>3, <2>4, <2>5
<1>5. QED
  BY <1>3, <1>4 DEF HookWorldStep

-----------------------------------------------------------------------------
LEMMA OInvInductive ==
  /\ HandlerInit => OInv
  /\ OInv /\ [OnAddNext]_allVars => OInv'
<1>1. ASSUME HandlerInit PROVE OInv
  <2> USE DEF HandlerInit
  <2>1. WorldTypeOK
    BY <1>1, WorldAssumption DEF WorldInit, WorldTypeOK
  <2>2. OnAddTypeOK
    BY <1>1, OnAddAssumption DEF OnAddInit, OnAddTypeOK
  <2>3. QueueBounded
    BY <1>1, OnAddAssumption, FS_EmptySet DEF OnAddInit, QueueBounded
  <2>4. NoLostWakeup /\ InFlightStaysQueued
    BY <1>1 DEF OnAddInit, NoLostWakeup, InFlightStaysQueued
  <2>5. StoppedIsMarked
    BY <1>1 DEF WorldInit, StoppedIsMarked, Stranded, HeldByGuard
  <2>6. QED
    BY <2>1, <2>2, <2>3, <2>4, <2>5 DEF OInv, HandlerTypeOK
<1>2. ASSUME OInv, [OnAddNext]_allVars PROVE OInv'
  <2>1. CASE \E h \in Hash : Handle(h)
    BY <1>2, <2>1, HandleKeepsOInv
  <2>2. CASE WorkerStep
    BY <1>2, <2>2, WakeUpKeepsOInv, PollKeepsOInv, WorkerPauseKeepsOInv,
       WorkerMarkKeepsOInv DEF WorkerStep
  <2>3. CASE HookWorldStep \/ \E h \in Hash : DropHook(h)
    BY <1>2, <2>3, EnvironmentKeepsOInv
  <2>4. CASE UNCHANGED allVars
    <3>1. UNCHANGED <<listed, intent, left, checking, pausedTag, softTag, free,
                      userMoves, faults, stopper, cut, hooks, queue, attempts,
                      workPc, polled, toPause>>
      BY <2>4 DEF allVars, worldVars, torrentVars, historyVars, onAddVars,
                  workerVars
    <3>2. WorldTypeOK' /\ OnAddTypeOK'
      BY <1>2, <3>1 DEF OInv, HandlerTypeOK, WorldTypeOK, OnAddTypeOK
    <3>3. QueueBounded' /\ NoLostWakeup' /\ InFlightStaysQueued'
      BY <1>2, <3>1 DEF OInv, QueueBounded, NoLostWakeup, InFlightStaysQueued
    <3>4. StoppedIsMarked'
      BY <1>2, <3>1 DEF OInv, StoppedIsMarked, Stranded, HeldByGuard,
                        WorkerAboutToMark
    <3>5. QED
      BY <3>2, <3>3, <3>4 DEF OInv, HandlerTypeOK
  <2>5. QED
    BY <1>2, <2>1, <2>2, <2>3, <2>4 DEF OnAddNext, HandlerStep
<1>3. QED
  BY <1>1, <1>2

(* Every variable of the handler and its world keeps its type (api.py).    *)
THEOREM OnAddTypeCorrect == OnAddSpec => []HandlerTypeOK
<1>1. OInv => HandlerTypeOK
  BY DEF OInv
<1>2. QED
  BY OInvInductive, <1>1, PTL DEF OnAddSpec

(* handle never lets the backlog grow past max_queue_size, however many    *)
(* callbacks arrive and wherever the worker is in its round.               *)
THEOREM BacklogBounded == OnAddSpec => []QueueBounded
<1>1. OInv => QueueBounded
  BY DEF OInv
<1>2. QED
  BY OInvInductive, <1>1, PTL DEF OnAddSpec

(* A hash handle has accepted is never left without a worker.              *)
THEOREM NoHashForgotten == OnAddSpec => []NoLostWakeup
<1>1. OInv => NoLostWakeup
  BY DEF OInv
<1>2. QED
  BY OInvInductive, <1>1, PTL DEF OnAddSpec

(* The dedupe of handle covers every hash the worker is stopping.          *)
THEOREM InFlightIsDeduped == OnAddSpec => []InFlightStaysQueued
<1>1. OInv => InFlightStaysQueued
  BY DEF OInv
<1>2. QED
  BY OInvInductive, <1>1, PTL DEF OnAddSpec

(* The worker leaves a torrent stopped without its tag only where          *)
(* _pause_and_mark_many is cut between its two calls.                      *)
THEOREM WorkerLosesNothing == OnAddSpec => []StoppedIsMarked
<1>1. OInv => StoppedIsMarked
  BY DEF OInv
<1>2. QED
  BY OInvInductive, <1>1, PTL DEF OnAddSpec

-----------------------------------------------------------------------------
(* The ledger, entry by entry *)

LEMMA WorkerTurns ==
  ASSUME \A h \in Hash :
           \/ WorkerEntry(h)' \in {WorkerEntry(h), "free", "held"}
           \/ /\ WorkerEntry(h)' = "stopping"
              /\ WorkerEntry(h) \in {"free", "lost"},
         faults' >= faults
  PROVE  WorkerLedger!LedgerNext
<1> DEFINE entries == [h \in Hash |-> WorkerEntry(h)]
<1>1. \A h \in Hash : WorkerEntry(h)' \in WorkerLedger!Entry
  BY DEF WorkerEntry, WorkerLedger!Entry
<1>2. entries' \in [Hash -> WorkerLedger!Entry]
  BY <1>1
<1>3. ASSUME NEW h \in Hash
      PROVE  <<entries[h], entries'[h]>> \in WorkerLedger!Permitted
  <2>1. WorkerEntry(h) \in WorkerLedger!Entry
    BY DEF WorkerEntry, WorkerLedger!Entry
  <2>2. <<WorkerEntry(h), WorkerEntry(h)'>> \in WorkerLedger!Permitted
    BY <2>1 DEF WorkerLedger!Permitted, WorkerLedger!Entry
  <2>3. QED
    BY <2>2
<1>4. QED
  BY <1>2, <1>3 DEF WorkerLedger!LedgerNext, WorkerLedger!Turns

LEMMA WorkerIncident ==
  ASSUME \A h \in Hash :
           \/ WorkerEntry(h)' \in {WorkerEntry(h), "free", "held"}
           \/ /\ WorkerEntry(h)' = "stopping"
              /\ WorkerEntry(h) \in {"free", "lost"}
           \/ /\ WorkerEntry(h)' = "lost"
              /\ WorkerEntry(h) \in {"free", "stopping"},
         faults' > faults
  PROVE  WorkerLedger!LedgerNext
<1> DEFINE entries == [h \in Hash |-> WorkerEntry(h)]
           moves == WorkerLedger!Permitted \cup WorkerLedger!Losses
<1>1. \A h \in Hash : WorkerEntry(h)' \in WorkerLedger!Entry
  BY DEF WorkerEntry, WorkerLedger!Entry
<1>2. entries' \in [Hash -> WorkerLedger!Entry]
  BY <1>1
<1>3. ASSUME NEW h \in Hash
      PROVE  <<entries[h], entries'[h]>> \in moves
  <2>1. WorkerEntry(h) \in WorkerLedger!Entry
    BY DEF WorkerEntry, WorkerLedger!Entry
  <2>2. <<WorkerEntry(h), WorkerEntry(h)'>> \in moves
    BY <2>1 DEF WorkerLedger!Permitted, WorkerLedger!Losses, WorkerLedger!Entry
  <2>3. QED
    BY <2>2
<1>4. QED
  BY <1>2, <1>3 DEF WorkerLedger!LedgerNext, WorkerLedger!Turns

(* A step that changes no torrent and no paused tag *)
LEMMA QuietStepKeepsWorkerLedger ==
  ASSUME OInv,
         UNCHANGED <<listed, intent, left, stopper, pausedTag>>,
         faults' >= faults,
         \A h \in Hash : WorkerAboutToMark(h)' = WorkerAboutToMark(h)
  PROVE  WorkerLedger!LedgerNext
<1>1. \A h \in Hash : WorkerEntry(h)' = WorkerEntry(h)
  BY DEF WorkerEntry, HeldByGuard
<1>2. QED
  BY <1>1, WorkerTurns

LEMMA EnvironmentKeepsWorkerLedger ==
  ASSUME OInv, HookWorldStep \/ \E h \in Hash : DropHook(h) \/ Handle(h)
  PROVE  WorkerLedger!LedgerNext
<1>1. \A h \in Hash : WorkerAboutToMark(h)' = WorkerAboutToMark(h)
  BY DEF WorkerAboutToMark, HookWorldStep, DropHook, Handle, workerVars
<1>2. CASE WorldStep
  <2>1. pausedTag' \subseteq pausedTag /\ faults' = faults
    BY <1>2, WorldNeverTags
  <2>2. \A h \in Hash : HeldByGuard(h)' =>
          HeldByGuard(h) /\ (h \in pausedTag => h \in pausedTag')
    BY <1>2, WorldNeverHolds DEF OInv, HandlerTypeOK
  <2>3. \A h \in Hash : WorkerEntry(h)' \in {WorkerEntry(h), "free"}
    BY <1>1, <2>1, <2>2 DEF WorkerEntry
  <2>4. faults' >= faults
    BY <2>1 DEF OInv, HandlerTypeOK, WorldTypeOK
  <2>5. QED
    BY <2>3, <2>4, WorkerTurns
<1>3. CASE \E h \in Hash : RunHookAgain(h) \/ DropHook(h) \/ Handle(h)
  <2>1. UNCHANGED <<listed, intent, left, stopper, pausedTag, faults>>
    BY <1>3 DEF RunHookAgain, DropHook, Handle, worldVars, torrentVars,
                historyVars
  <2>2. faults' >= faults
    BY <2>1 DEF OInv, HandlerTypeOK, WorldTypeOK
  <2>3. QED
    BY <1>1, <2>1, <2>2, QuietStepKeepsWorkerLedger
<1>4. QED
  BY <1>2, <1>3 DEF HookWorldStep

LEMMA WorkerPauseKeepsLedger ==
  ASSUME OInv, WorkerPause
  PROVE  WorkerLedger!LedgerNext
<1>1. PICK r \in Outcome :
        /\ PauseCall(toPause, r)
        /\ IF r = "ok"
           THEN workPc' = "mark" /\ UNCHANGED <<queue, attempts, polled, toPause>>
           ELSE EndRound(IF r = "raise" THEN {} ELSE toPause)
  BY DEF WorkerPause
<1>2. workPc # "mark"
  BY DEF WorkerPause
<1>3. UNCHANGED <<listed, left, pausedTag>>
  BY <1>1 DEF PauseCall, PauseTakes
<1>4. \A h \in Hash :
        /\ HeldByGuard(h) => HeldByGuard(h)'
        /\ h \notin toPause => HeldByGuard(h)' = HeldByGuard(h)
  BY <1>1 DEF PauseCall, PauseTakes, HeldByGuard, OInv, HandlerTypeOK,
              WorldTypeOK
<1>5. CASE r = "ok"
  <2>1. \A h \in Hash :
          \/ WorkerEntry(h)' \in {WorkerEntry(h), "held"}
          \/ /\ WorkerEntry(h)' = "stopping"
             /\ WorkerEntry(h) \in {"free", "lost"}
    BY <1>1, <1>2, <1>3, <1>4, <1>5 DEF WorkerEntry, WorkerAboutToMark
  <2>2. faults' >= faults
    BY <1>1, IncidentsAreCounted DEF PauseCall, OInv, HandlerTypeOK
  <2>3. QED
    BY <2>1, <2>2, WorkerTurns
<1>6. CASE r # "ok"
  <2>1. workPc' # "mark"
    BY <1>1, <1>6 DEF EndRound
  <2>2. \A h \in Hash :
          \/ WorkerEntry(h)' \in {WorkerEntry(h), "held"}
          \/ WorkerEntry(h)' = "lost" /\ WorkerEntry(h) = "free"
    BY <1>2, <1>3, <1>4, <2>1 DEF WorkerEntry, WorkerAboutToMark
  <2>3. faults' > faults
    BY <1>1, <1>6, IncidentsAreCounted DEF PauseCall, OInv, HandlerTypeOK
  <2>4. QED
    BY <2>2, <2>3, WorkerIncident
<1>7. QED
  BY <1>5, <1>6

LEMMA WorkerMarkKeepsLedger ==
  ASSUME OInv, WorkerMark
  PROVE  WorkerLedger!LedgerNext
<1>1. PICK r \in Outcome : MarkCall(toPause, r)
  BY DEF WorkerMark
<1>2. workPc = "mark" /\ workPc' # "mark"
  BY DEF WorkerMark, EndRound
<1>3. \A h \in Hash : HeldByGuard(h)' = HeldByGuard(h)
  BY <1>1 DEF MarkCall, HeldByGuard
<1>4. CASE Took(r)
  <2>1. pausedTag' = pausedTag \cup (toPause \cap listed)
    BY <1>1, <1>4 DEF MarkCall
  <2>2. \A h \in Hash : WorkerEntry(h)' \in {WorkerEntry(h), "held"}
    BY <1>2, <1>3, <2>1 DEF WorkerEntry, WorkerAboutToMark, HeldByGuard
  <2>3. faults' >= faults
    BY <1>1, IncidentsAreCounted DEF MarkCall, OInv, HandlerTypeOK
  <2>4. QED
    BY <2>2, <2>3, WorkerTurns
<1>5. CASE ~Took(r)
  <2>1. pausedTag' = pausedTag
    BY <1>1, <1>5 DEF MarkCall
  <2>2. \A h \in Hash :
          \/ WorkerEntry(h)' = WorkerEntry(h)
          \/ WorkerEntry(h)' = "lost" /\ WorkerEntry(h) = "stopping"
    BY <1>2, <1>3, <2>1 DEF WorkerEntry, WorkerAboutToMark
  <2>3. faults' > faults
    BY <1>1, <1>5, IncidentsAreCounted DEF MarkCall, Took, OInv, HandlerTypeOK
  <2>4. QED
    BY <2>2, <2>3, WorkerIncident
<1>6. QED
  BY <1>4, <1>5

LEMMA WorkerStepKeepsLedger ==
  ASSUME OInv, WorkerStep
  PROVE  WorkerLedger!LedgerNext
<1>1. CASE WakeUp
  <2>1. UNCHANGED <<listed, intent, left, stopper, pausedTag, faults>>
    BY <1>1 DEF WakeUp, worldVars, torrentVars, historyVars
  <2>2. faults' >= faults
    BY <2>1 DEF OInv, HandlerTypeOK, WorldTypeOK
  <2>3. \A h \in Hash : WorkerAboutToMark(h)' = WorkerAboutToMark(h)
    BY <1>1 DEF WakeUp, WorkerAboutToMark
  <2>4. QED
    BY <2>1, <2>2, <2>3, QuietStepKeepsWorkerLedger
<1>2. CASE Poll
  <2>1. /\ UNCHANGED <<listed, intent, left, stopper, pausedTag>>
        /\ faults' \in {faults, faults + 1}
    BY <1>2 DEF Poll, ReadCall, torrentVars, historyVars
  <2>2. faults' >= faults
    BY <2>1 DEF OInv, HandlerTypeOK, WorldTypeOK
  <2>3. \A h \in Hash : WorkerAboutToMark(h)' = WorkerAboutToMark(h)
    BY <1>2 DEF Poll, EndRound, WorkerAboutToMark
  <2>4. QED
    BY <2>1, <2>2, <2>3, QuietStepKeepsWorkerLedger
<1>3. QED
  BY <1>1, <1>2, WorkerPauseKeepsLedger, WorkerMarkKeepsLedger DEF WorkerStep

(* The worker of api.py implements the ledger: whatever arrives while it   *)
(* stops and tags, it forgets nothing without a call that failed.          *)
THEOREM WorkerImplementsLedger == OnAddSpec => WorkerKeepsLedger
<1>1. HandlerInit => WorkerLedger!LedgerInit
  <2> SUFFICES ASSUME HandlerInit PROVE WorkerLedger!LedgerInit
    OBVIOUS
  <2>1. \A h \in Hash : WorkerEntry(h) \in {"free", "held"}
    BY DEF HandlerInit, WorldInit, WorkerEntry, HeldByGuard
  <2>2. faults = 0
    BY DEF HandlerInit, WorldInit
  <2>3. QED
    BY <2>1, <2>2 DEF WorkerLedger!LedgerInit
<1>2. OInv /\ [OnAddNext]_allVars =>
        [WorkerLedger!LedgerNext]_(WorkerLedger!ledgerVars)
  <2> SUFFICES ASSUME OInv, [OnAddNext]_allVars
               PROVE  \/ WorkerLedger!LedgerNext
                      \/ UNCHANGED WorkerLedger!ledgerVars
    OBVIOUS
  <2>1. CASE WorkerStep
    BY <2>1, WorkerStepKeepsLedger
  <2>2. CASE HookWorldStep \/ \E h \in Hash : DropHook(h) \/ Handle(h)
    BY <2>2, EnvironmentKeepsWorkerLedger
  <2>3. CASE UNCHANGED allVars
    BY <2>3 DEF allVars, worldVars, torrentVars, historyVars, onAddVars,
                workerVars, WorkerLedger!ledgerVars, WorkerEntry, HeldByGuard,
                WorkerAboutToMark
  <2>4. QED
    BY <2>1, <2>2, <2>3 DEF OnAddNext, HandlerStep
<1>3. QED
  BY OInvInductive, <1>1, <1>2, PTL
  DEF OnAddSpec, WorkerKeepsLedger, WorkerLedger!LedgerSpec
=============================================================================
