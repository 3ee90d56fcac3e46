-------------------------- MODULE DiskGuardProofs --------------------------
(***************************************************************************)
(* Theorems about DiskGuard: the types of the whole service, and that      *)
(* outside NORMAL the polling task, the on-add worker and a call that      *)
(* outlives a graceful stop do not undo each other's work.                 *)
(***************************************************************************)
EXTENDS DiskGuard, ModeEngineProofs, OnAddHandlerProofs

-----------------------------------------------------------------------------
(* Types: the handler, without what it promises by itself *)

LEMMA HandlerStepType ==
  ASSUME HandlerTypeOK, HandlerStep
  PROVE  HandlerTypeOK'
<1> USE DEF HandlerTypeOK
<1>1. ASSUME NEW done, EndRound(done), UNCHANGED hooks
      PROVE  OnAddTypeOK'
  BY <1>1, EndRoundFacts DEF OnAddTypeOK
<1>2. CASE WakeUp
  <2>1. WorldTypeOK'
    BY <1>2 DEF WakeUp, worldVars, torrentVars, historyVars, WorldTypeOK
  <2>2. OnAddTypeOK'
    BY <1>2 DEF WakeUp, OnAddTypeOK
  <2>3. QED
    BY <2>1, <2>2
<1>3. CASE Poll
  <2>1. WorldTypeOK' /\ UNCHANGED hooks
    BY <1>3, ReadCallType DEF Poll
  <2> DEFINE batch == polled \cap queue
             gone == batch \ listed
             sized == {h \in batch \cap listed : left[h] > 0}
             forced == {h \in sized : IsForced(State(h))}
             stops == /\ queue' = queue \ (gone \cup forced)
                      /\ attempts' = [h \in Hash |->
                                        IF h \in gone \cup forced THEN 0
                                        ELSE attempts[h]]
                      /\ toPause' = sized \ forced
                      /\ workPc' = "pause"
                      /\ UNCHANGED polled
  <2>2. \/ EndRound(gone \cup forced)
        \/ stops
        \/ EndRound({})
    BY <1>3 DEF Poll
  <2>3. CASE EndRound(gone \cup forced)
    <3> HIDE DEF gone, forced
    <3>1. QED
      BY <1>1, <2>1, <2>3
  <2>4. CASE EndRound({})
    BY <1>1, <2>1, <2>4
  <2>5. CASE stops
    <3>1. gone \subseteq Hash /\ sized \subseteq Hash
      BY DEF OnAddTypeOK
    <3> HIDE DEF gone, sized, forced
    <3>2. attempts' \in [Hash -> 0..MaxAttempts]
      BY <2>5, OnAddAssumption DEF OnAddTypeOK
    <3>3. QED
      BY <2>1, <2>5, <3>1, <3>2 DEF OnAddTypeOK
  <2>6. OnAddTypeOK'
    BY <2>2, <2>3, <2>4, <2>5
  <2>7. QED
    BY <2>1, <2>6
<1>4. CASE WorkerPause
  <2>1. WorldTypeOK' /\ UNCHANGED hooks
    BY <1>4, PauseCallType DEF WorkerPause
  <2>2. OnAddTypeOK'
    BY <1>1, <1>4, <2>1 DEF WorkerPause, OnAddTypeOK
  <2>3. QED
    BY <2>1, <2>2
<1>5. CASE WorkerMark
  <2>1. WorldTypeOK' /\ UNCHANGED hooks
    BY <1>5, MarkCallType DEF WorkerMark
  <2>2. OnAddTypeOK'
    BY <1>1, <1>5, <2>1 DEF WorkerMark
  <2>3. QED
    BY <2>1, <2>2
<1>6. CASE \E h \in Hash : Handle(h)
  <2>1. WorldTypeOK'
    BY <1>6 DEF Handle, worldVars, torrentVars, historyVars, WorldTypeOK
  <2>2. OnAddTypeOK'
    BY <1>6, OnAddAssumption DEF Handle, workerVars, OnAddTypeOK
  <2>3. QED
    BY <2>1, <2>2
<1>7. QED
  BY <1>2, <1>3, <1>4, <1>5, <1>6 DEF HandlerStep, WorkerStep

LEMMA EnvironmentType ==
  ASSUME HandlerTypeOK, Environment
  PROVE  HandlerTypeOK'
<1> USE DEF HandlerTypeOK
<1>1. CASE WorldStep /\ (HooksFollowAdds \/ UNCHANGED hooks)
           /\ UNCHANGED workerVars
  <2>1. WorldTypeOK'
    BY <1>1, WorldStepType
  <2>2. OnAddTypeOK'
    BY <1>1, <2>1 DEF HooksFollowAdds, workerVars, OnAddTypeOK, WorldTypeOK
  <2>3. QED
    BY <2>1, <2>2
<1>2. CASE \E h \in Hash : RunHookAgain(h) /\ UNCHANGED workerVars
  <2>1. WorldTypeOK'
    BY <1>2, WorldAssumption
    DEF RunHookAgain, torrentVars, historyVars, WorldTypeOK
  <2>2. OnAddTypeOK'
    BY <1>2 DEF RunHookAgain, workerVars, OnAddTypeOK
  <2>3. QED
    BY <2>1, <2>2
<1>3. CASE \E h \in Hash : DropHook(h)
  <2>1. WorldTypeOK'
    BY <1>3 DEF DropHook, worldVars, torrentVars, historyVars, WorldTypeOK
  <2>2. OnAddTypeOK'
    BY <1>3 DEF DropHook, workerVars, OnAddTypeOK
  <2>3. QED
    BY <2>1, <2>2
<1>4. QED
  BY <1>1, <1>2, <1>3 DEF Environment, HookWorldStep, onAddVars

LEMMA FreshHandlerType ==
  ASSUME OnAddTypeOK, FreshHandler, hooks' \subseteq hooks
  PROVE  OnAddTypeOK'
BY OnAddAssumption DEF FreshHandler, OnAddTypeOK

LEMMA FreshEngineType ==
  ASSUME EngineTypeOK, FreshEngine
  PROVE  EngineTypeOK'
BY NoSnapshotType DEF FreshEngine, ForgetLocals, EngineTypeOK, EnginePc, Mode

LEMMA BatchInFlightType ==
  ASSUME TypeOK
  PROVE  BatchInFlight \subseteq Hash
BY DEF BatchInFlight, TypeOK, EngineTypeOK, ForcedPaused, CompletedSoft,
       SelfHeal, ToResume, Planned, EligibleCandidates, ToGrant, ToPause

LEMMA PauseTakesType ==
  ASSUME WorldTypeOK, NEW batch, NEW r, PauseTakes(batch, r), UNCHANGED faults
  PROVE  WorldTypeOK'
<1>1. intent' \in [Hash -> {"run", "stop", "force"}]
  BY DEF WorldTypeOK, PauseTakes
<1>2. stopper' \in [Hash -> {"none", "user", "guard"}]
  BY DEF WorldTypeOK, PauseTakes
<1>3. cut' \subseteq Hash
  BY DEF WorldTypeOK, PauseTakes
<1>4. QED
  BY <1>1, <1>2, <1>3 DEF WorldTypeOK, PauseTakes

LEMMA ServiceTypeStep ==
  ServiceTypeOK /\ [ServiceNext]_serviceVars => ServiceTypeOK'
<1> SUFFICES ASSUME ServiceTypeOK, [ServiceNext]_serviceVars
             PROVE  ServiceTypeOK'
  OBVIOUS
<1> USE DEF ServiceTypeOK, TypeOK
<1>1. CASE PollTask
  <2>1. TypeOK'
    BY <1>1, EngineStepWorldType, EngineStepEngineType DEF PollTask
  <2>2. QED
    BY <1>1, <2>1 DEF PollTask, lifeVars, onAddVars, workerVars, OnAddTypeOK
<1>2. CASE OnAddTask \/ Environment
  <2>1. WorldTypeOK' /\ OnAddTypeOK'
    BY <1>2, HandlerStepType, EnvironmentType DEF OnAddTask, HandlerTypeOK
  <2>2. UNCHANGED <<engineVars, lifeVars>>
    BY <1>2 DEF OnAddTask, Environment
  <2>3. QED
    BY <2>1, <2>2 DEF engineVars, tickLocals, lifeVars, EngineTypeOK
<1>3. CASE Restart
  <2>1. WorldTypeOK'
    BY <1>3 DEF Restart, torrentVars, WorldTypeOK
  <2>2. OnAddTypeOK' /\ EngineTypeOK'
    BY <1>3, FreshHandlerType, FreshEngineType DEF Restart
  <2>3. orphan' \in [call : EnginePc, batch : SUBSET Hash]
    BY <1>3 DEF Restart, NoOrphan, EnginePc
  <2>4. restarts' \in 0..MaxRestarts
    BY <1>3, RestartAssumption DEF Restart, EndsOnceMore
  <2>5. stopping' \in BOOLEAN
    BY <1>3 DEF Restart
  <2>6. QED
    BY <2>1, <2>2, <2>3, <2>4, <2>5
<1>4. CASE BeginStop
  <2>1. WorldTypeOK'
    BY <1>4 DEF BeginStop, worldVars, torrentVars, historyVars, WorldTypeOK
  <2>2. OnAddTypeOK' /\ EngineTypeOK'
    BY <1>4, FreshEngineType DEF BeginStop, workerVars, OnAddTypeOK
  <2>3. orphan' \in [call : EnginePc, batch : SUBSET Hash]
    BY <1>4, BatchInFlightType DEF BeginStop, NoOrphan, EnginePc, EngineTypeOK
  <2>4. restarts' \in 0..MaxRestarts
    BY <1>4, RestartAssumption DEF BeginStop, EndsOnceMore
  <2>5. stopping' \in BOOLEAN
    BY <1>4 DEF BeginStop
  <2>6. QED
    BY <2>1, <2>2, <2>3, <2>4, <2>5
<1>5. CASE OrphanEnds
  <2>1. WorldTypeOK'
    BY <1>5, PauseTakesType, PauseCallType, MarkCallType, ResumeCallType,
       TagCallsType DEF OrphanEnds
  <2>2. OnAddTypeOK' /\ EngineTypeOK'
    BY <1>5 DEF OrphanEnds, engineVars, tickLocals, onAddVars, workerVars,
                OnAddTypeOK, EngineTypeOK
  <2>3. QED
    BY <1>5, <2>1, <2>2 DEF OrphanEnds, NoOrphan, EnginePc
<1>6. CASE EndStop
  <2>1. WorldTypeOK' /\ EngineTypeOK'
    BY <1>6 DEF EndStop, worldVars, torrentVars, historyVars, engineVars,
                tickLocals, WorldTypeOK, EngineTypeOK
  <2>2. OnAddTypeOK'
    BY <1>6, FreshHandlerType DEF EndStop
  <2>3. QED
    BY <1>6, <2>1, <2>2 DEF EndStop
<1>7. CASE UNCHANGED serviceVars
  BY <1>7 DEF serviceVars, worldVars, torrentVars, historyVars, engineVars,
              tickLocals, onAddVars, workerVars, lifeVars, WorldTypeOK,
              EngineTypeOK, OnAddTypeOK
<1>8. QED
  BY <1>1, <1>2, <1>3, <1>4, <1>5, <1>6, <1>7 DEF ServiceNext

LEMMA ServiceInitType == ServiceInit => ServiceTypeOK
<1> SUFFICES ASSUME ServiceInit PROVE ServiceTypeOK
  OBVIOUS
<1>1. TypeOK
  BY InitType DEF ServiceInit, Init
<1>2. OnAddTypeOK
  BY OnAddAssumption DEF ServiceInit, OnAddInit, OnAddTypeOK
<1>3. orphan \in [call : EnginePc, batch : SUBSET Hash]
  BY DEF ServiceInit, NoOrphan, EnginePc
<1>4. restarts \in 0..MaxRestarts
  BY RestartAssumption DEF ServiceInit
<1>5. stopping \in BOOLEAN
  BY DEF ServiceInit
<1>6. QED
  BY <1>1, <1>2, <1>3, <1>4, <1>5 DEF ServiceTypeOK

(* Every variable of the service (engine.py, api.py, service.py) keeps its *)
(* type through restarts and graceful stops.                               *)
THEOREM ServiceTypeCorrect == ServiceSpec => []ServiceTypeOK
BY ServiceInitType, ServiceTypeStep, PTL DEF ServiceSpec

-----------------------------------------------------------------------------
(* The inductive invariant behind TasksAgree.  Outside NORMAL only the     *)
(* clean-up of forced torrents takes the paused tag off, on the word of an *)
(* old snapshot; so the worker must never come near a forced torrent.      *)

(* A tick never gets to the calls of NORMAL. *)
NeverNormal ==
  /\ engMode # "NORMAL"
  /\ engPc \notin {"probePaused", "probeSoft", "heal", "resume", "untag"}
  /\ orphan.call \notin {"heal", "resume", "untag"}

(* A tick and the call that an earlier tick left behind never overlap. *)
OneTick ==
  /\ stopping => engPc = "idle"
  /\ ~stopping => orphan = NoOrphan

(* What the worker knows of or will hear of *)
Notified == hooks \cup queue \cup polled \cup toPause

NotifiedAreNotForced ==
  \A h \in Notified : h \in listed /\ intent[h] # "force"

(* What is about to lose the paused tag *)
ToUntag ==
  (IF engPc = "forced" THEN ForcedPaused ELSE {})
    \cup (IF orphan.call = "forced" THEN orphan.batch ELSE {})

ToUntagAreFree ==
  \A h \in ToUntag : h \in listed /\ h \notin Notified /\ ~HeldByGuard(h)

SInv ==
  /\ ServiceTypeOK
  /\ NeverNormal
  /\ OneTick
  /\ NotifiedAreNotForced
  /\ ToUntagAreFree
  /\ TasksAgree

(* What the instance leaves out *)
OutsideNormal ==
  /\ \A f \in FreeLevels : ClassifyMode(f) # "NORMAL"
  /\ UserMoves \cap {"remove", "force", "hook"} = {}

-----------------------------------------------------------------------------
(* The ledger and the agreement, step by step *)

ServiceIncidents ==
  faults + 2 * restarts - IF orphan = NoOrphan THEN 0 ELSE 1

LEMMA IncidentsFollowFaults ==
  ASSUME ServiceTypeOK, ServiceTypeOK', UNCHANGED <<restarts, orphan>>
  PROVE  /\ faults' >= faults => ServiceIncidents' >= ServiceIncidents
         /\ faults' = faults => ServiceIncidents' = ServiceIncidents
         /\ faults' > faults => ServiceIncidents' > ServiceIncidents
<1>1. faults \in Nat /\ faults' \in Nat /\ restarts \in Nat
  BY WorldAssumption, RestartAssumption
  DEF ServiceTypeOK, TypeOK, WorldTypeOK
<1> DEFINE pending == IF orphan = NoOrphan THEN 0 ELSE 1
<1>2. pending \in 0..1 /\ pending' = pending
  BY DEF NoOrphan
<1>3. /\ ServiceIncidents = faults + 2 * restarts - pending
      /\ ServiceIncidents' = faults' + 2 * restarts' - pending'
  BY DEF ServiceIncidents
<1> HIDE DEF pending
<1>4. restarts' = restarts
  OBVIOUS
<1>5. ServiceIncidents' - ServiceIncidents = faults' - faults
  BY <1>1, <1>2, <1>3, <1>4
<1>6. ServiceIncidents \in Int /\ ServiceIncidents' \in Int
  BY <1>1, <1>2, <1>3, <1>4
<1>7. QED
  BY <1>1, <1>5, <1>6

LEMMA IncidentsAreIntegers ==
  ASSUME ServiceTypeOK, ServiceTypeOK', ServiceIncidents' > ServiceIncidents
  PROVE  ServiceIncidents' >= ServiceIncidents
<1>1. ASSUME NEW f \in Nat, NEW n \in Nat
      PROVE  f + 2 * n - (IF orphan = NoOrphan THEN 0 ELSE 1) \in Int
  BY <1>1
<1>2. ServiceIncidents \in Int
  BY <1>1, WorldAssumption, RestartAssumption
  DEF ServiceIncidents, ServiceTypeOK, TypeOK, WorldTypeOK
<1>3. ServiceIncidents' \in Int
  BY WorldAssumption, RestartAssumption
  DEF ServiceIncidents, ServiceTypeOK, TypeOK, WorldTypeOK
<1>4. QED
  BY <1>2, <1>3

LEMMA ServiceTurns ==
  ASSUME \A h \in Hash :
           \/ ServiceEntry(h)' \in {ServiceEntry(h), "free", "held"}
           \/ /\ ServiceEntry(h)' = "stopping"
              /\ ServiceEntry(h) \in {"free", "lost"},
         ServiceIncidents' >= ServiceIncidents
  PROVE  ServiceLedger!LedgerNext
<1> DEFINE entries == [h \in Hash |-> ServiceEntry(h)]
<1>1. \A h \in Hash : ServiceEntry(h)' \in ServiceLedger!Entry
  BY DEF ServiceEntry, ServiceLedger!Entry
<1>2. entries' \in [Hash -> ServiceLedger!Entry]
  BY <1>1
<1>3. ASSUME NEW h \in Hash
      PROVE  <<entries[h], entries'[h]>> \in ServiceLedger!Permitted
  <2>1. ServiceEntry(h) \in ServiceLedger!Entry
    BY DEF ServiceEntry, ServiceLedger!Entry
  <2>2. <<ServiceEntry(h), ServiceEntry(h)'>> \in ServiceLedger!Permitted
    BY <2>1 DEF ServiceLedger!Permitted, ServiceLedger!Entry
  <2>3. QED
    BY <2>2
<1>4. QED
  BY <1>2, <1>3 DEF ServiceLedger!LedgerNext, ServiceLedger!Turns,
                ServiceIncidents

LEMMA ServiceIncident ==
  ASSUME \A h \in Hash :
           \/ ServiceEntry(h)' \in {ServiceEntry(h), "free", "held"}
           \/ /\ ServiceEntry(h)' = "stopping"
              /\ ServiceEntry(h) \in {"free", "lost"}
           \/ /\ ServiceEntry(h)' = "lost"
              /\ ServiceEntry(h) \in {"free", "stopping"},
         ServiceIncidents' > ServiceIncidents
  PROVE  ServiceLedger!LedgerNext
<1> DEFINE entries == [h \in Hash |-> ServiceEntry(h)]
           moves == ServiceLedger!Permitted \cup ServiceLedger!Losses
<1>1. \A h \in Hash : ServiceEntry(h)' \in ServiceLedger!Entry
  BY DEF ServiceEntry, ServiceLedger!Entry
<1>2. entries' \in [Hash -> ServiceLedger!Entry]
  BY <1>1
<1>3. ASSUME NEW h \in Hash
      PROVE  <<entries[h], entries'[h]>> \in moves
  <2>1. ServiceEntry(h) \in ServiceLedger!Entry
    BY DEF ServiceEntry, ServiceLedger!Entry
  <2>2. <<ServiceEntry(h), ServiceEntry(h)'>> \in moves
    BY <2>1
    DEF ServiceLedger!Permitted, ServiceLedger!Losses, ServiceLedger!Entry
  <2>3. QED
    BY <2>2
<1>4. QED
  BY <1>2, <1>3 DEF ServiceLedger!LedgerNext, ServiceLedger!Turns,
                ServiceIncidents

(* A step that stops nothing and tags nothing *)
LEMMA QuietAgrees ==
  ASSUME TasksAgree,
         pausedTag' \subseteq pausedTag,
         \A h \in Hash : HeldByGuard(h)' =>
           /\ HeldByGuard(h)
           /\ h \in pausedTag => h \in pausedTag'
           /\ h \in cut => h \in cut',
         \A h \in Hash : AboutToMark(h)' <=> AboutToMark(h),
         ServiceIncidents' >= ServiceIncidents
  PROVE  TasksAgree' /\ ServiceLedger!LedgerNext
<1>1. TasksAgree'
  BY DEF TasksAgree, Stranded, AboutToMark
<1>2. \A h \in Hash : ServiceEntry(h)' \in {ServiceEntry(h), "free"}
  BY DEF ServiceEntry
<1>3. QED
  BY <1>1, <1>2, ServiceTurns

LEMMA PauseAgrees ==
  ASSUME ServiceTypeOK, TasksAgree,
         NEW batch, NEW r \in Outcome, PauseTakes(batch, r),
         \A h \in Hash : AboutToMark(h) => AboutToMark(h)',
         \A h \in Hash :
           AboutToMark(h)' => AboutToMark(h) \/ (r = "ok" /\ h \in batch),
         r = "ok" => \A h \in batch : AboutToMark(h)',
         r = "ok" => ServiceIncidents' >= ServiceIncidents,
         r # "ok" => ServiceIncidents' > ServiceIncidents
  PROVE  TasksAgree' /\ ServiceLedger!LedgerNext
<1>1. UNCHANGED <<listed, left, pausedTag>> /\ cut \subseteq cut'
  BY DEF PauseTakes
<1>2. ASSUME NEW h \in Hash
      PROVE  /\ HeldByGuard(h) => HeldByGuard(h)'
             /\ HeldByGuard(h)' /\ ~HeldByGuard(h) => h \in batch /\ Took(r)
             /\ HeldByGuard(h)' /\ ~HeldByGuard(h) /\ r = "lost" => h \in cut'
  BY DEF PauseTakes, HeldByGuard, ServiceTypeOK, TypeOK, WorldTypeOK
<1>3. TasksAgree'
  BY <1>1, <1>2 DEF TasksAgree, Stranded, AboutToMark, Took
<1>4. CASE r = "ok"
  <2>1. \A h \in Hash :
          \/ ServiceEntry(h)' \in {ServiceEntry(h), "held"}
          \/ /\ ServiceEntry(h)' = "stopping"
             /\ ServiceEntry(h) \in {"free", "lost"}
    BY <1>1, <1>2, <1>4 DEF ServiceEntry
  <2>2. QED
    BY <1>3, <1>4, <2>1, ServiceTurns
<1>5. CASE r # "ok"
  <2>1. \A h \in Hash :
          \/ ServiceEntry(h)' \in {ServiceEntry(h), "held"}
          \/ /\ ServiceEntry(h)' \in {"stopping", "lost"}
             /\ ServiceEntry(h) = "free"
    BY <1>1, <1>2, <1>5 DEF ServiceEntry
  <2>2. QED
    BY <1>3, <1>5, <2>1, ServiceIncident
<1>6. QED
  BY <1>4, <1>5

LEMMA MarkAgrees ==
  ASSUME ServiceTypeOK, TasksAgree,
         NEW batch, NEW r \in Outcome, MarkCall(batch, r),
         \A h \in batch : AboutToMark(h),
         \A h \in Hash : AboutToMark(h)' => AboutToMark(h),
         \A h \in Hash : AboutToMark(h) => AboutToMark(h)' \/ h \in batch,
         ServiceIncidents' >= ServiceIncidents,
         r # "ok" => ServiceIncidents' > ServiceIncidents
  PROVE  TasksAgree' /\ ServiceLedger!LedgerNext
<1>1. \A h \in Hash : HeldByGuard(h)' = HeldByGuard(h)
  BY DEF MarkCall, HeldByGuard
<1>2. ASSUME NEW h \in Hash, Stranded(h)'
      PROVE  Stranded(h) /\ (h \in cut \/ h \in batch => h \in cut')
  BY <1>1, <1>2 DEF MarkCall, Stranded, HeldByGuard
<1>3. TasksAgree'
  BY <1>2 DEF TasksAgree, AboutToMark
<1>4. CASE Took(r)
  <2>1. pausedTag' = pausedTag \cup (batch \cap listed)
    BY <1>4 DEF MarkCall
  <2>2. \A h \in Hash : ServiceEntry(h)' \in {ServiceEntry(h), "held"}
    BY <1>1, <2>1 DEF ServiceEntry, HeldByGuard
  <2>3. QED
    BY <1>3, <2>2, ServiceTurns
<1>5. CASE ~Took(r)
  <2>1. pausedTag' = pausedTag /\ r # "ok"
    BY <1>5 DEF MarkCall, Took
  <2>2. \A h \in Hash :
          \/ ServiceEntry(h)' = ServiceEntry(h)
          \/ ServiceEntry(h)' = "lost" /\ ServiceEntry(h) = "stopping"
    BY <1>1, <2>1 DEF ServiceEntry
  <2>3. QED
    BY <1>3, <2>1, <2>2, ServiceIncident
<1>6. QED
  BY <1>4, <1>5

-----------------------------------------------------------------------------
(* Steps of the polling task *)

LEMMA EngineStepsOutsideNormal ==
  ASSUME OutsideNormal, SInv, EngineStep, UNCHANGED lifeVars
  PROVE  NeverNormal'
<1> USE DEF NeverNormal, SInv, lifeVars
<1>1. CASE StartTick
  <2>1. ClassifyMode(free) # "NORMAL"
    BY DEF OutsideNormal, ServiceTypeOK, TypeOK, WorldTypeOK
  <2>2. QED
    BY <1>1, <2>1 DEF StartTick, engineVars, tickLocals
<1>2. CASE EngineStep /\ ~StartTick
  BY <1>2 DEF EngineStep, ProbePausedTag, ProbeSoftTag, TakeSnapshot,
              CleanupForced, CleanupCompleted, RevokeSoft, HealPaused,
              ResumePlanned, UntagResumed, GrantSoft, PauseDownloads,
              MarkPaused, Continue, Abandon, Finish, ForgetLocals
<1>3. QED
  BY <1>1, <1>2

LEMMA EngineStepsForceNothing ==
  ASSUME SInv, EngineStep
  PROVE  /\ listed' = listed
         /\ \A h \in Hash : intent'[h] \in {intent[h], "stop"}
<1> USE DEF SInv, ServiceTypeOK, TypeOK
<1>1. CASE PauseDownloads
  BY <1>1 DEF PauseDownloads, PauseCall, PauseTakes, WorldTypeOK
<1>2. CASE ResumePlanned
  BY <1>2 DEF ResumePlanned, NeverNormal
<1>3. CASE EngineStep /\ ~PauseDownloads /\ ~ResumePlanned
  BY <1>3 DEF EngineStep, StartTick, ProbePausedTag, ProbeSoftTag,
              TakeSnapshot, CleanupForced, CleanupCompleted, RevokeSoft,
              HealPaused, UntagResumed, GrantSoft, MarkPaused, ReadCall,
              UnmarkCall, RevokeCall, GrantCall, MarkCall, torrentVars
<1>4. QED
  BY <1>1, <1>2, <1>3

LEMMA PollTaskUntagsFree ==
  ASSUME SInv, PollTask
  PROVE  ToUntagAreFree'
<1> USE DEF SInv, PollTask
<1>1. orphan' = NoOrphan /\ Notified' = Notified
  BY DEF OneTick, lifeVars, onAddVars, workerVars, Notified
<1>2. CASE engPc' = "forced"
  <2>1. TakeSnapshot
    BY <1>2 DEF EngineStep, StartTick, ProbePausedTag, ProbeSoftTag,
                TakeSnapshot, CleanupForced, CleanupCompleted, RevokeSoft,
                HealPaused, ResumePlanned, UntagResumed, GrantSoft,
                PauseDownloads, MarkPaused, Continue, Abandon, Finish,
                ForgetLocals, NeverNormal, engineVars
  <2>2. /\ snap' = [h \in Hash |->
                      [state |-> State(h),
                       left |-> IF h \in listed THEN left[h] ELSE Unknown]]
        /\ engPaused' = pausedTag
        /\ ReadCall(TRUE)
    BY <1>2, <2>1 DEF TakeSnapshot, Abandon, ForgetLocals
  <2>3. ASSUME NEW h \in ForcedPaused'
        PROVE  h \in listed' /\ h \notin Notified' /\ ~HeldByGuard(h)'
    <3>1. h \in Hash /\ State(h) = "forcedDL"
      BY <2>2 DEF ForcedPaused, IsForced, ServiceTypeOK, TypeOK, WorldTypeOK
    <3>2. h \in listed /\ intent[h] = "force"
      BY <3>1 DEF State, Reported
    <3>3. h \notin Notified
      BY <3>2 DEF NotifiedAreNotForced
    <3>4. QED
      BY <1>1, <2>2, <3>2, <3>3 DEF ReadCall, torrentVars, HeldByGuard
  <2>4. QED
    BY <1>1, <1>2, <2>3 DEF ToUntagAreFree, ToUntag, NoOrphan
<1>3. CASE engPc' # "forced"
  BY <1>1, <1>3 DEF ToUntagAreFree, ToUntag, NoOrphan
<1>4. QED
  BY <1>2, <1>3

LEMMA PollTaskAgrees ==
  ASSUME SInv, PollTask
  PROVE  TasksAgree' /\ ServiceLedger!LedgerNext
<1> USE DEF SInv, PollTask, Continue, Abandon, Finish, ForgetLocals
<1>1. /\ orphan = NoOrphan /\ orphan' = NoOrphan
      /\ UNCHANGED <<workPc, toPause, restarts>>
  BY DEF OneTick, lifeVars, onAddVars, workerVars
<1>2. \A h \in Hash :
        AboutToMark(h)' <=> EngineAboutToMark(h)' \/ WorkerAboutToMark(h)
  BY <1>1 DEF AboutToMark, OrphanAboutToMark, WorkerAboutToMark, NoOrphan
<1>3. \A h \in Hash :
        AboutToMark(h) <=> EngineAboutToMark(h) \/ WorkerAboutToMark(h)
  BY <1>1 DEF AboutToMark, OrphanAboutToMark, NoOrphan
<1>4. ServiceTypeOK'
  BY ServiceTypeStep DEF ServiceNext
<1>5. ASSUME engPc # "mark", engPc' # "mark", faults' >= faults,
             UNCHANGED <<listed, intent, left, stopper, cut>>,
             pausedTag' \subseteq pausedTag,
             \A h \in pausedTag \ pausedTag' : ~HeldByGuard(h)
      PROVE  TasksAgree' /\ ServiceLedger!LedgerNext
  <2>1. \A h \in Hash : ~EngineAboutToMark(h) /\ ~EngineAboutToMark(h)'
    BY <1>5 DEF EngineAboutToMark
  <2>2. \A h \in Hash : WorkerAboutToMark(h)' <=> WorkerAboutToMark(h)
    BY <1>1 DEF WorkerAboutToMark
  <2>3. \A h \in Hash : AboutToMark(h)' <=> AboutToMark(h)
    BY <1>2, <1>3, <2>1, <2>2
  <2>4. \A h \in Hash : HeldByGuard(h)' = HeldByGuard(h)
    BY <1>5 DEF HeldByGuard
  <2>5. ServiceIncidents' >= ServiceIncidents
    BY <1>1, <1>4, <1>5, IncidentsFollowFaults
  <2>6. QED
    BY <1>5, <2>3, <2>4, <2>5, QuietAgrees
<1>6. CASE StartTick \/ ProbePausedTag \/ ProbeSoftTag \/ TakeSnapshot
  <2>1. PICK ok \in BOOLEAN : ReadCall(ok)
    BY <1>6 DEF StartTick, ProbePausedTag, ProbeSoftTag, TakeSnapshot
  <2>2. /\ UNCHANGED <<listed, intent, left, stopper, cut, pausedTag>>
        /\ faults' \in {faults, faults + 1}
    BY <2>1 DEF ReadCall, torrentVars, historyVars
  <2>3. faults' >= faults
    BY <2>2 DEF ServiceTypeOK, TypeOK, WorldTypeOK
  <2>4. engPc # "mark" /\ engPc' # "mark"
    BY <1>6 DEF StartTick, ProbePausedTag, ProbeSoftTag, TakeSnapshot,
                engineVars
  <2>5. QED
    BY <1>5, <2>2, <2>3, <2>4
<1>7. CASE CleanupForced
  <2>1. PICK r \in Outcome : UnmarkCall(ForcedPaused, r)
    BY <1>7 DEF CleanupForced
  <2>2. \A h \in ForcedPaused : ~HeldByGuard(h)
    BY <1>7 DEF CleanupForced, ToUntagAreFree, ToUntag
  <2>3. /\ UNCHANGED <<listed, intent, left, stopper, cut>>
        /\ pausedTag' \subseteq pausedTag
        /\ \A h \in pausedTag \ pausedTag' : ~HeldByGuard(h)
    BY <2>1, <2>2 DEF UnmarkCall, historyVars
  <2>4. engPc # "mark" /\ engPc' # "mark"
    BY <1>7 DEF CleanupForced
  <2>5. faults' >= faults
    BY <2>1, IncidentsAreCounted DEF UnmarkCall, ServiceTypeOK, TypeOK
  <2>6. QED
    BY <1>5, <2>3, <2>4, <2>5
<1>8. CASE CleanupCompleted \/ RevokeSoft \/ GrantSoft
  <2>1. PICK r \in Outcome : \/ RevokeCall(CompletedSoft, r)
                            \/ RevokeCall(engSoft, r)
                            \/ GrantCall(ToGrant, r)
    BY <1>8 DEF CleanupCompleted, RevokeSoft, GrantSoft
  <2>2. UNCHANGED <<listed, intent, left, stopper, cut, pausedTag>>
    BY <2>1 DEF GrantCall, RevokeCall, historyVars
  <2>3. faults' >= faults
    BY <2>1, IncidentsAreCounted
    DEF GrantCall, RevokeCall, ServiceTypeOK, TypeOK
  <2>4. engPc # "mark" /\ engPc' # "mark"
    BY <1>8 DEF CleanupCompleted, RevokeSoft, GrantSoft
  <2>5. QED
    BY <1>5, <2>2, <2>3, <2>4
<1>9. CASE PauseDownloads
  <2>1. PICK r \in Outcome :
          /\ PauseCall(ToPause, r)
          /\ IF r = "raise" THEN Abandon
             ELSE IF r = "ok" /\ ToPause # {}
             THEN Continue("mark") /\ KeepLists
             ELSE Finish
    BY <1>9 DEF PauseDownloads
  <2>2. PauseTakes(ToPause, r)
    BY <2>1 DEF PauseCall
  <2>3. \A h \in Hash : ~EngineAboutToMark(h)
    BY <1>9 DEF PauseDownloads, EngineAboutToMark
  <2>4. \A h \in Hash : WorkerAboutToMark(h)' <=> WorkerAboutToMark(h)
    BY <1>1 DEF WorkerAboutToMark
  <2>5. r = "ok" /\ ToPause # {} => engPc' = "mark" /\ ToPause' = ToPause
    BY <2>1 DEF KeepLists, ToPause
  <2>6. ~(r = "ok" /\ ToPause # {}) => engPc' # "mark"
    BY <2>1
  <2>7. \A h \in Hash : AboutToMark(h) => AboutToMark(h)'
    BY <1>2, <1>3, <2>3, <2>4
  <2>8. \A h \in Hash :
          AboutToMark(h)' => AboutToMark(h) \/ (r = "ok" /\ h \in ToPause)
    BY <1>2, <1>3, <2>4, <2>5, <2>6 DEF EngineAboutToMark
  <2>9. ToPause \subseteq Hash
    BY DEF ToPause
  <2>10. r = "ok" => \A h \in ToPause : AboutToMark(h)'
    BY <1>2, <2>5, <2>9 DEF EngineAboutToMark
  <2>11. faults' >= faults /\ (r # "ok" => faults' > faults)
    BY <2>1, IncidentsAreCounted DEF PauseCall, ServiceTypeOK, TypeOK
  <2>12. /\ ServiceIncidents' >= ServiceIncidents
         /\ r # "ok" => ServiceIncidents' > ServiceIncidents
    BY <1>1, <1>4, <2>11, IncidentsFollowFaults
  <2>13. QED
    BY <2>2, <2>7, <2>8, <2>10, <2>12, PauseAgrees
<1>10. CASE MarkPaused
  <2>1. PICK r \in Outcome : MarkCall(ToPause, r)
    BY <1>10 DEF MarkPaused
  <2>2. engPc = "mark" /\ engPc' # "mark"
    BY <1>10 DEF MarkPaused
  <2>3. \A h \in Hash : WorkerAboutToMark(h)' <=> WorkerAboutToMark(h)
    BY <1>1 DEF WorkerAboutToMark
  <2>4. ToPause \subseteq Hash
    BY DEF ToPause
  <2>5. \A h \in ToPause : AboutToMark(h)
    BY <1>3, <2>2, <2>4 DEF EngineAboutToMark
  <2>6. \A h \in Hash : AboutToMark(h)' => AboutToMark(h)
    BY <1>2, <1>3, <2>2, <2>3 DEF EngineAboutToMark
  <2>7. \A h \in Hash : AboutToMark(h) => AboutToMark(h)' \/ h \in ToPause
    BY <1>2, <1>3, <2>3 DEF EngineAboutToMark
  <2>8. faults' >= faults /\ (r # "ok" => faults' > faults)
    BY <2>1, IncidentsAreCounted DEF MarkCall, ServiceTypeOK, TypeOK
  <2>9. /\ ServiceIncidents' >= ServiceIncidents
        /\ r # "ok" => ServiceIncidents' > ServiceIncidents
    BY <1>1, <1>4, <2>8, IncidentsFollowFaults
  <2>10. QED
    BY <2>1, <2>5, <2>6, <2>7, <2>9, MarkAgrees
<1>11. CASE HealPaused \/ ResumePlanned \/ UntagResumed
  BY <1>11 DEF HealPaused, ResumePlanned, UntagResumed, NeverNormal
<1>12. QED
  BY <1>6, <1>7, <1>8, <1>9, <1>10, <1>11 DEF EngineStep

LEMMA PollTaskKeepsSInv ==
  ASSUME OutsideNormal, SInv, PollTask
  PROVE  SInv' /\ ServiceLedger!LedgerNext
<1> USE DEF SInv, PollTask
<1>1. ServiceTypeOK'
  BY ServiceTypeStep DEF ServiceNext
<1>2. NeverNormal'
  BY EngineStepsOutsideNormal
<1>3. OneTick'
  BY DEF OneTick, lifeVars
<1>4. Notified' = Notified /\ Notified \subseteq Hash
  BY DEF Notified, onAddVars, workerVars, ServiceTypeOK, OnAddTypeOK
<1>5. NotifiedAreNotForced'
  BY <1>4, EngineStepsForceNothing DEF NotifiedAreNotForced
<1>6. QED
  BY <1>1, <1>2, <1>3, <1>5, PollTaskUntagsFree, PollTaskAgrees

-----------------------------------------------------------------------------
(* Steps of the on-add task *)

(* The worker acts on nothing it was not notified of. *)
LEMMA HandlerNotified ==
  ASSUME ServiceTypeOK, HandlerStep
  PROVE  Notified' \subseteq Notified
<1> USE DEF Notified
<1>1. CASE WakeUp
  BY <1>1 DEF WakeUp
<1>2. ASSUME NEW done, EndRound(done), UNCHANGED hooks
      PROVE  Notified' \subseteq Notified
  <2>1. queue' \subseteq queue /\ polled' = {} /\ toPause' = {}
    BY <1>2, EndRoundFacts DEF ServiceTypeOK
  <2>2. QED
    BY <1>2, <2>1
<1>3. CASE Poll
  BY <1>2, <1>3 DEF Poll
<1>4. CASE WorkerPause \/ WorkerMark
  BY <1>2, <1>4 DEF WorkerPause, WorkerMark
<1>5. CASE \E h \in Hash : Handle(h)
  BY <1>5 DEF Handle, workerVars
<1>6. QED
  BY <1>1, <1>3, <1>4, <1>5 DEF HandlerStep, WorkerStep

LEMMA HandlerStopsOnly ==
  ASSUME ServiceTypeOK, HandlerStep
  PROVE  /\ listed' = listed
         /\ \A h \in Hash : intent'[h] \in {intent[h], "stop"}
         /\ \A h \in Hash \ Notified : HeldByGuard(h)' => HeldByGuard(h)
<1> USE DEF ServiceTypeOK, TypeOK
<1>1. CASE WorkerPause
  <2>1. PICK r \in Outcome : PauseCall(toPause, r)
    BY <1>1 DEF WorkerPause
  <2>2. QED
    BY <2>1 DEF PauseCall, PauseTakes, HeldByGuard, Notified, WorldTypeOK
<1>2. CASE HandlerStep /\ ~WorkerPause
  BY <1>2 DEF HandlerStep, WorkerStep, WakeUp, Poll, WorkerMark, Handle,
              ReadCall, MarkCall, HeldByGuard, worldVars, torrentVars,
              historyVars
<1>3. QED
  BY <1>1, <1>2

LEMMA OnAddTaskAgrees ==
  ASSUME SInv, OnAddTask
  PROVE  TasksAgree' /\ ServiceLedger!LedgerNext
<1> USE DEF SInv, OnAddTask
<1>1. UNCHANGED <<engPc, engMode, snap, engSoft, orphan, restarts>>
  BY DEF engineVars, tickLocals, lifeVars
<1>2. \A h \in Hash : EngineAboutToMark(h)' <=> EngineAboutToMark(h)
  BY <1>1 DEF EngineAboutToMark, ToPause
<1>3. \A h \in Hash : OrphanAboutToMark(h)' <=> OrphanAboutToMark(h)
  BY <1>1 DEF OrphanAboutToMark
<1>4. ServiceTypeOK'
  BY ServiceTypeStep DEF ServiceNext
<1>5. ASSUME workPc # "mark", workPc' # "mark", faults' >= faults,
             UNCHANGED <<listed, intent, left, stopper, cut, pausedTag>>
      PROVE  TasksAgree' /\ ServiceLedger!LedgerNext
  <2>1. \A h \in Hash : ~WorkerAboutToMark(h) /\ ~WorkerAboutToMark(h)'
    BY <1>5 DEF WorkerAboutToMark
  <2>2. \A h \in Hash : AboutToMark(h)' <=> AboutToMark(h)
    BY <1>2, <1>3, <2>1 DEF AboutToMark
  <2>3. \A h \in Hash : HeldByGuard(h)' = HeldByGuard(h)
    BY <1>5 DEF HeldByGuard
  <2>4. ServiceIncidents' >= ServiceIncidents
    BY <1>1, <1>4, <1>5, IncidentsFollowFaults
  <2>5. QED
    BY <1>5, <2>2, <2>3, <2>4, QuietAgrees
<1>6. CASE WakeUp
  <2>1. /\ UNCHANGED <<listed, intent, left, stopper, cut, pausedTag, faults>>
        /\ workPc # "mark" /\ workPc' # "mark"
    BY <1>6 DEF WakeUp, worldVars, torrentVars, historyVars
  <2>2. faults' >= faults
    BY <2>1 DEF ServiceTypeOK, TypeOK, WorldTypeOK
  <2>3. QED
    BY <1>5, <2>1, <2>2
<1>7. CASE Poll
  <2>1. PICK ok \in BOOLEAN : ReadCall(ok)
    BY <1>7 DEF Poll
  <2>2. /\ UNCHANGED <<listed, intent, left, stopper, cut, pausedTag>>
        /\ faults' \in {faults, faults + 1}
    BY <2>1 DEF ReadCall, torrentVars, historyVars
  <2>3. faults' >= faults
    BY <2>2 DEF ServiceTypeOK, TypeOK, WorldTypeOK
  <2>4. workPc # "mark" /\ workPc' # "mark"
    BY <1>7 DEF Poll, EndRound
  <2>5. QED
    BY <1>5, <2>2, <2>3, <2>4
<1>8. CASE \E h \in Hash : Handle(h)
  <2>1. /\ UNCHANGED <<listed, intent, left, stopper, cut, pausedTag, faults,
                       toPause>>
        /\ workPc' = "mark" <=> workPc = "mark"
    BY <1>8 DEF Handle, workerVars, worldVars, torrentVars, historyVars
  <2>2. \A h \in Hash : WorkerAboutToMark(h)' <=> WorkerAboutToMark(h)
    BY <2>1 DEF WorkerAboutToMark
  <2>3. \A h \in Hash : AboutToMark(h)' <=> AboutToMark(h)
    BY <1>2, <1>3, <2>2 DEF AboutToMark
  <2>4. \A h \in Hash : HeldByGuard(h)' = HeldByGuard(h)
    BY <2>1 DEF HeldByGuard
  <2>5. faults' >= faults
    BY <2>1 DEF ServiceTypeOK, TypeOK, WorldTypeOK
  <2>6. ServiceIncidents' >= ServiceIncidents
    BY <1>1, <1>4, <2>5, IncidentsFollowFaults
  <2>7. QED
    BY <2>1, <2>3, <2>4, <2>6, QuietAgrees
<1>9. CASE WorkerPause
  <2>1. PICK r \in Outcome :
          /\ PauseCall(toPause, r)
          /\ IF r = "ok"
             THEN workPc' = "mark"
                  /\ UNCHANGED <<queue, attempts, polled, toPause>>
             ELSE EndRound(IF r = "raise" THEN {} ELSE toPause)
    BY <1>9 DEF WorkerPause
  <2>2. PauseTakes(toPause, r)
    BY <2>1 DEF PauseCall
  <2>3. \A h \in Hash : ~WorkerAboutToMark(h)
    BY <1>9 DEF WorkerPause, WorkerAboutToMark
  <2>4. r = "ok" => workPc' = "mark" /\ toPause' = toPause
    BY <2>1
  <2>5. r # "ok" => workPc' # "mark"
    BY <2>1 DEF EndRound
  <2>6. \A h \in Hash : AboutToMark(h) => AboutToMark(h)'
    BY <1>2, <1>3, <2>3 DEF AboutToMark
  <2>7. \A h \in Hash :
          AboutToMark(h)' => AboutToMark(h) \/ (r = "ok" /\ h \in toPause)
    BY <1>2, <1>3, <2>4, <2>5 DEF AboutToMark, WorkerAboutToMark
  <2>8. r = "ok" => \A h \in toPause : AboutToMark(h)'
    BY <2>4 DEF AboutToMark, WorkerAboutToMark
  <2>9. faults' >= faults /\ (r # "ok" => faults' > faults)
    BY <2>1, IncidentsAreCounted DEF PauseCall, ServiceTypeOK, TypeOK
  <2>10. /\ ServiceIncidents' >= ServiceIncidents
         /\ r # "ok" => ServiceIncidents' > ServiceIncidents
    BY <1>1, <1>4, <2>9, IncidentsFollowFaults
  <2>11. QED
    BY <2>2, <2>6, <2>7, <2>8, <2>10, PauseAgrees
<1>10. CASE WorkerMark
  <2>1. PICK r \in Outcome : MarkCall(toPause, r)
    BY <1>10 DEF WorkerMark
  <2>2. workPc = "mark" /\ workPc' # "mark"
    BY <1>10 DEF WorkerMark, EndRound
  <2>3. \A h \in toPause : AboutToMark(h)
    BY <2>2 DEF AboutToMark, WorkerAboutToMark
  <2>4. \A h \in Hash : AboutToMark(h)' => AboutToMark(h)
    BY <1>2, <1>3, <2>2 DEF AboutToMark, WorkerAboutToMark
  <2>5. \A h \in Hash : AboutToMark(h) => AboutToMark(h)' \/ h \in toPause
    BY <1>2, <1>3 DEF AboutToMark, WorkerAboutToMark
  <2>6. faults' >= faults /\ (r # "ok" => faults' > faults)
    BY <2>1, IncidentsAreCounted DEF MarkCall, ServiceTypeOK, TypeOK
  <2>7. /\ ServiceIncidents' >= ServiceIncidents
        /\ r # "ok" => ServiceIncidents' > ServiceIncidents
    BY <1>1, <1>4, <2>6, IncidentsFollowFaults
  <2>8. QED
    BY <2>1, <2>3, <2>4, <2>5, <2>7, MarkAgrees
<1>11. QED
  BY <1>6, <1>7, <1>8, <1>9, <1>10 DEF HandlerStep, WorkerStep

LEMMA OnAddTaskKeepsSInv ==
  ASSUME SInv, OnAddTask
  PROVE  SInv' /\ ServiceLedger!LedgerNext
<1> USE DEF SInv, OnAddTask
<1>1. ServiceTypeOK'
  BY ServiceTypeStep DEF ServiceNext
<1>2. UNCHANGED <<engPc, engMode, snap, engPaused, orphan, stopping>>
  BY DEF engineVars, tickLocals, lifeVars
<1>3. NeverNormal' /\ OneTick'
  BY <1>2 DEF NeverNormal, OneTick, NoOrphan
<1>4. Notified' \subseteq Notified /\ Notified \subseteq Hash
  BY HandlerNotified DEF Notified, ServiceTypeOK, OnAddTypeOK
<1>5. NotifiedAreNotForced'
  BY <1>4, HandlerStopsOnly DEF NotifiedAreNotForced
<1>6. ToUntag' = ToUntag
  BY <1>2 DEF ToUntag, ForcedPaused
<1>7. ToUntag \subseteq Hash
  BY DEF ToUntag, ForcedPaused, ServiceTypeOK, TypeOK, EngineTypeOK
<1>8. ToUntagAreFree'
  BY <1>4, <1>6, <1>7, HandlerStopsOnly DEF ToUntagAreFree
<1>9. QED
  BY <1>1, <1>3, <1>5, <1>8, OnAddTaskAgrees

-----------------------------------------------------------------------------
(* Steps of the world *)

LEMMA WorldForcesNothing ==
  ASSUME OutsideNormal, WorldTypeOK, WorldStep
  PROVE  /\ listed \subseteq listed'
         /\ \A h \in listed : intent'[h] = "force" => intent[h] = "force"
         /\ \A h \in listed' \ listed : intent'[h] # "force"
<1> USE DEF OutsideNormal, WorldTypeOK, Moves, historyVars
<1>1. ASSUME NEW h \in Hash, AddTorrent(h)
      PROVE  /\ listed \subseteq listed'
             /\ \A g \in listed : intent'[g] = "force" => intent[g] = "force"
             /\ \A g \in listed' \ listed : intent'[g] # "force"
  BY <1>1 DEF AddTorrent
<1>2. CASE \E h \in Hash : UserPause(h) \/ UserResume(h)
  BY <1>2 DEF UserPause, UserResume, UserStarts
<1>3. CASE \E h \in Hash : \/ StartCheck(h) \/ EndCheck(h)
                          \/ MetadataArrives(h) \/ Progress(h)
  BY <1>3 DEF StartCheck, EndCheck, MetadataArrives, Progress
<1>4. CASE DiskChanges
  BY <1>4 DEF DiskChanges, torrentVars
<1>5. CASE \E h \in Hash : RemoveTorrent(h) \/ UserForce(h)
  BY <1>5 DEF RemoveTorrent, UserForce, UserStarts
<1>6. QED
  BY <1>1, <1>2, <1>3, <1>4, <1>5 DEF WorldStep

LEMMA EnvironmentKeepsSInv ==
  ASSUME OutsideNormal, SInv, Environment
  PROVE  SInv' /\ ServiceLedger!LedgerNext
<1> USE DEF SInv
<1>1. ServiceTypeOK'
  BY ServiceTypeStep DEF ServiceNext
<1>2. UNCHANGED <<engPc, engMode, snap, engPaused, engSoft, orphan, stopping,
                  restarts, queue, polled, toPause, workPc>>
  BY DEF Environment, HookWorldStep, DropHook, engineVars, tickLocals,
         lifeVars, onAddVars, workerVars
<1>3. NeverNormal' /\ OneTick'
  BY <1>2 DEF NeverNormal, OneTick, NoOrphan
<1>4. \A h \in Hash : AboutToMark(h)' <=> AboutToMark(h)
  BY <1>2 DEF AboutToMark, EngineAboutToMark, OrphanAboutToMark,
              WorkerAboutToMark, ToPause
<1>5. ToUntag' = ToUntag /\ ToUntag \subseteq Hash
  BY <1>2 DEF ToUntag, ForcedPaused, ServiceTypeOK, TypeOK, EngineTypeOK
<1>6. CASE WorldStep /\ (HooksFollowAdds \/ UNCHANGED hooks)
  <2>1. Notified' \subseteq Notified \cup (listed' \ listed)
    BY <1>2, <1>6 DEF HooksFollowAdds, Notified
  <2>2. /\ listed \subseteq listed'
        /\ \A h \in listed : intent'[h] = "force" => intent[h] = "force"
        /\ \A h \in listed' \ listed : intent'[h] # "force"
    BY <1>6, WorldForcesNothing DEF ServiceTypeOK, TypeOK
  <2>3. NotifiedAreNotForced'
    BY <2>1, <2>2 DEF NotifiedAreNotForced
  <2>4. \A h \in Hash : HeldByGuard(h)' =>
          /\ HeldByGuard(h)
          /\ h \in pausedTag => h \in pausedTag'
          /\ h \in cut => h \in cut'
    BY <1>6, WorldNeverHolds DEF ServiceTypeOK, TypeOK
  <2>5. ToUntagAreFree'
    BY <1>5, <2>1, <2>2, <2>4 DEF ToUntagAreFree
  <2>6. pausedTag' \subseteq pausedTag /\ faults' = faults
    BY <1>6, WorldNeverTags
  <2>7. faults' >= faults
    BY <2>6 DEF ServiceTypeOK, TypeOK, WorldTypeOK
  <2>8. ServiceIncidents' >= ServiceIncidents
    BY <1>1, <1>2, <2>7, IncidentsFollowFaults
  <2>9. TasksAgree' /\ ServiceLedger!LedgerNext
    BY <1>4, <2>4, <2>6, <2>8, QuietAgrees
  <2>10. QED
    BY <1>1, <1>3, <2>3, <2>5, <2>9
<1>7. CASE \E h \in Hash : DropHook(h)
  <2>1. /\ UNCHANGED <<listed, intent, left, stopper, cut, pausedTag, faults>>
        /\ Notified' \subseteq Notified
    BY <1>7 DEF DropHook, worldVars, torrentVars, historyVars, workerVars,
                Notified
  <2>2. \A h \in Hash : HeldByGuard(h)' = HeldByGuard(h)
    BY <2>1 DEF HeldByGuard
  <2>3. NotifiedAreNotForced' /\ ToUntagAreFree'
    BY <1>5, <2>1, <2>2 DEF NotifiedAreNotForced, ToUntagAreFree
  <2>4. faults' >= faults
    BY <2>1 DEF ServiceTypeOK, TypeOK, WorldTypeOK
  <2>5. ServiceIncidents' >= ServiceIncidents
    BY <1>1, <1>2, <2>4, IncidentsFollowFaults
  <2>6. TasksAgree' /\ ServiceLedger!LedgerNext
    BY <1>4, <2>1, <2>2, <2>5, QuietAgrees
  <2>7. QED
    BY <1>1, <1>3, <2>3, <2>6
<1>8. QED
  BY <1>6, <1>7
  DEF Environment, HookWorldStep, RunHookAgain, OutsideNormal, onAddVars

-----------------------------------------------------------------------------
(* Restarts and stops *)

LEMMA RestartKeepsSInv ==
  ASSUME SInv, Restart
  PROVE  SInv' /\ ServiceLedger!LedgerNext
<1> USE DEF SInv, Restart, FreshEngine, FreshHandler, ForgetLocals
<1>1. ServiceTypeOK'
  BY ServiceTypeStep DEF ServiceNext
<1>2. NeverNormal' /\ OneTick'
  BY DEF NeverNormal, OneTick, NoOrphan
<1>3. Notified' \subseteq Notified /\ ToUntag' = {}
  BY DEF Notified, ToUntag, NoOrphan
<1>4. UNCHANGED <<listed, intent, left, stopper, pausedTag, faults>>
  BY DEF torrentVars
<1>5. NotifiedAreNotForced' /\ ToUntagAreFree'
  BY <1>3, <1>4 DEF NotifiedAreNotForced, ToUntagAreFree
<1>6. \A h \in Hash : HeldByGuard(h)' = HeldByGuard(h)
  BY <1>4 DEF HeldByGuard
<1>7. TasksAgree'
  BY <1>4, <1>6 DEF TasksAgree, Stranded
<1>8. \A h \in Hash :
        \/ ServiceEntry(h)' = ServiceEntry(h)
        \/ ServiceEntry(h)' = "lost" /\ ServiceEntry(h) = "stopping"
  <2>1. \A h \in Hash : ~AboutToMark(h)'
    BY DEF AboutToMark, EngineAboutToMark, OrphanAboutToMark,
           WorkerAboutToMark, NoOrphan
  <2>2. QED
    BY <1>4, <1>6, <2>1 DEF ServiceEntry
<1>9. ServiceIncidents' > ServiceIncidents
  <2>1. faults \in Nat /\ restarts \in Nat
    BY WorldAssumption, RestartAssumption
    DEF ServiceTypeOK, TypeOK, WorldTypeOK
  <2>2. ServiceIncidents' = faults + 2 * (restarts + 1)
    BY <1>4 DEF ServiceIncidents, EndsOnceMore, NoOrphan
  <2>3. ServiceIncidents \in {faults + 2 * restarts, faults + 2 * restarts - 1}
    BY <2>1 DEF ServiceIncidents
  <2>4. QED
    BY <2>1, <2>2, <2>3
<1>10. QED
  BY <1>1, <1>2, <1>5, <1>7, <1>8, <1>9, ServiceIncident

LEMMA BeginStopKeepsSInv ==
  ASSUME SInv, BeginStop
  PROVE  SInv' /\ ServiceLedger!LedgerNext
<1> USE DEF SInv, BeginStop, FreshEngine, ForgetLocals
<1>1. ServiceTypeOK'
  BY ServiceTypeStep DEF ServiceNext
<1>2. UNCHANGED <<listed, intent, left, stopper, cut, pausedTag, faults,
                  queue, polled, toPause, workPc>>
  BY DEF worldVars, torrentVars, historyVars, workerVars
<1>3. orphan' = IF BatchInFlight = {} THEN NoOrphan
                ELSE [call |-> engPc, batch |-> BatchInFlight]
  OBVIOUS
<1>4. NeverNormal' /\ OneTick'
  BY <1>3 DEF NeverNormal, OneTick, NoOrphan
<1>5. Notified' \subseteq Notified
  BY <1>2 DEF Notified
<1>6. ToUntag' \subseteq ToUntag
  BY <1>3 DEF ToUntag, NoOrphan, BatchInFlight
<1>7. \A h \in Hash : HeldByGuard(h)' = HeldByGuard(h)
  BY <1>2 DEF HeldByGuard
<1>8. ToUntag \subseteq Hash
  BY DEF ToUntag, ForcedPaused, ServiceTypeOK, TypeOK, EngineTypeOK
<1>9. NotifiedAreNotForced' /\ ToUntagAreFree'
  BY <1>2, <1>5, <1>6, <1>7, <1>8 DEF NotifiedAreNotForced, ToUntagAreFree
<1>10. orphan = NoOrphan
  BY DEF OneTick
<1>11. \A h \in Hash : EngineAboutToMark(h) => OrphanAboutToMark(h)'
  BY <1>3 DEF EngineAboutToMark, OrphanAboutToMark, BatchInFlight
<1>12. \A h \in Hash : AboutToMark(h) => AboutToMark(h)'
  BY <1>2, <1>10, <1>11
  DEF AboutToMark, OrphanAboutToMark, NoOrphan, WorkerAboutToMark
<1>13. TasksAgree'
  BY <1>2, <1>7, <1>12 DEF TasksAgree, Stranded, AboutToMark
<1>14. \A h \in Hash :
        \/ ServiceEntry(h)' = ServiceEntry(h)
        \/ ServiceEntry(h)' = "stopping" /\ ServiceEntry(h) = "lost"
  BY <1>2, <1>7, <1>12 DEF ServiceEntry
<1>15. ServiceIncidents' > ServiceIncidents
  <2>1. faults \in Nat /\ restarts \in Nat
    BY WorldAssumption, RestartAssumption
    DEF ServiceTypeOK, TypeOK, WorldTypeOK
  <2>2. ServiceIncidents = faults + 2 * restarts
    BY <1>10, <2>1 DEF ServiceIncidents
  <2>3. ServiceIncidents' \in {faults + 2 * (restarts + 1),
                              faults + 2 * (restarts + 1) - 1}
    BY <1>2, <2>1 DEF ServiceIncidents, EndsOnceMore
  <2>4. QED
    BY <2>1, <2>2, <2>3
<1>16. QED
  BY <1>1, <1>4, <1>9, <1>13, <1>14, <1>15, ServiceIncident

LEMMA EndStopKeepsSInv ==
  ASSUME SInv, EndStop
  PROVE  SInv' /\ ServiceLedger!LedgerNext
<1> USE DEF SInv, EndStop, FreshHandler
<1>1. ServiceTypeOK'
  BY ServiceTypeStep DEF ServiceNext
<1>2. UNCHANGED <<listed, intent, left, stopper, cut, pausedTag, faults,
                  engPc, engMode, snap, engPaused, engSoft, restarts, orphan>>
  BY DEF worldVars, torrentVars, historyVars, engineVars, tickLocals
<1>3. NeverNormal' /\ OneTick'
  BY <1>2 DEF NeverNormal, OneTick, NoOrphan
<1>4. Notified' = {} /\ ToUntag' = ToUntag
  BY <1>2 DEF Notified, ToUntag, ForcedPaused
<1>5. ToUntag = {}
  BY DEF OneTick, ToUntag, NoOrphan
<1>6. NotifiedAreNotForced' /\ ToUntagAreFree'
  BY <1>4, <1>5 DEF NotifiedAreNotForced, ToUntagAreFree
<1>7. \A h \in Hash : HeldByGuard(h)' = HeldByGuard(h)
  BY <1>2 DEF HeldByGuard
<1>8. \A h \in Hash : AboutToMark(h)' <=> AboutToMark(h)
  BY <1>2 DEF AboutToMark, EngineAboutToMark, OrphanAboutToMark,
              WorkerAboutToMark, ToPause
<1>9. faults' >= faults
  BY <1>2 DEF ServiceTypeOK, TypeOK, WorldTypeOK
<1>10. ServiceIncidents' >= ServiceIncidents
  BY <1>1, <1>2, <1>9, IncidentsFollowFaults
<1>11. TasksAgree' /\ ServiceLedger!LedgerNext
  BY <1>2, <1>7, <1>8, <1>10, QuietAgrees
<1>12. QED
  BY <1>1, <1>3, <1>6, <1>11

-----------------------------------------------------------------------------
(* The call that was left in its thread *)

LEMMA OrphanIsIncident ==
  ASSUME ServiceTypeOK, OrphanEnds, faults' \in Nat, faults' >= faults
  PROVE  ServiceIncidents' > ServiceIncidents
<1>1. faults \in Nat /\ restarts \in Nat
  BY WorldAssumption, RestartAssumption
  DEF ServiceTypeOK, TypeOK, WorldTypeOK
<1>2. ServiceIncidents = faults + 2 * restarts - 1
  BY <1>1 DEF ServiceIncidents, OrphanEnds
<1>3. restarts' = restarts /\ orphan' = NoOrphan
  BY DEF OrphanEnds
<1>4. ServiceIncidents' = faults' + 2 * restarts
  BY <1>1, <1>3 DEF ServiceIncidents, NoOrphan
<1>5. ASSUME NEW f \in Nat, NEW g \in Nat, NEW n \in Nat, g >= f
      PROVE  g + 2 * n > f + 2 * n - 1
  BY <1>5
<1>6. faults' + 2 * restarts > faults + 2 * restarts - 1
  BY <1>1, <1>5
<1>7. QED
  BY <1>2, <1>4, <1>6

LEMMA OrphanAgrees ==
  ASSUME SInv, OrphanEnds
  PROVE  TasksAgree' /\ ServiceLedger!LedgerNext
<1> USE DEF SInv
<1>1. /\ UNCHANGED <<engPc, engMode, snap, engSoft, workPc, toPause>>
      /\ orphan' = NoOrphan
  BY DEF OrphanEnds, engineVars, tickLocals, onAddVars, workerVars
<1>2. \A h \in Hash : ~OrphanAboutToMark(h)'
  BY <1>1 DEF OrphanAboutToMark, NoOrphan
<1>3. \A h \in Hash : /\ EngineAboutToMark(h)' <=> EngineAboutToMark(h)
                      /\ WorkerAboutToMark(h)' <=> WorkerAboutToMark(h)
  BY <1>1 DEF EngineAboutToMark, WorkerAboutToMark, ToPause
<1>4. \A h \in Hash : AboutToMark(h)' => AboutToMark(h)
  BY <1>2, <1>3 DEF AboutToMark
<1>5. \A h \in Hash :
        AboutToMark(h) => AboutToMark(h)' \/ OrphanAboutToMark(h)
  BY <1>3 DEF AboutToMark
<1>6. ServiceTypeOK'
  BY ServiceTypeStep DEF ServiceNext
<1>7. faults' \in Nat
  BY <1>6, WorldAssumption DEF ServiceTypeOK, TypeOK, WorldTypeOK
<1>8. ASSUME NEW r, CallMayEnd(orphan.batch, r)
      PROVE  ServiceIncidents' > ServiceIncidents
  BY <1>7, <1>8, IncidentsAreCounted, OrphanIsIncident
  DEF ServiceTypeOK, TypeOK
<1>9. CASE orphan.call = "mark"
  <2>1. PICK r \in {"ok", "error"} : MarkCall(orphan.batch, r)
    BY <1>9 DEF OrphanEnds
  <2>2. \A h \in orphan.batch : AboutToMark(h)
    BY <1>9 DEF AboutToMark, OrphanAboutToMark
  <2>3. \A h \in Hash : AboutToMark(h) => AboutToMark(h)' \/ h \in orphan.batch
    BY <1>5 DEF OrphanAboutToMark
  <2>4. ServiceIncidents' > ServiceIncidents
    BY <1>8, <2>1 DEF MarkCall
  <2>5. ServiceIncidents' >= ServiceIncidents
    BY <1>6, <2>4, IncidentsAreIntegers
  <2>6. QED
    BY <1>4, <2>1, <2>2, <2>3, <2>4, <2>5, MarkAgrees DEF Outcome
<1> SUFFICES ASSUME orphan.call # "mark"
             PROVE  TasksAgree' /\ ServiceLedger!LedgerNext
  BY <1>9
<1>10. \A h \in Hash : AboutToMark(h)' <=> AboutToMark(h)
  BY <1>4, <1>5 DEF OrphanAboutToMark
<1>11. CASE orphan.call = "pause"
  <2>1. PICK r \in {"lost", "error"} :
          /\ PauseTakes(orphan.batch, r)
          /\ r = "lost" => faults' = faults
          /\ r # "lost" => CallMayEnd(orphan.batch, r)
    BY <1>11 DEF OrphanEnds, PauseCall
  <2>2. faults' = faults => faults' >= faults
    BY <1>7
  <2>3. ServiceIncidents' > ServiceIncidents
    BY <1>7, <1>8, <2>1, <2>2, OrphanIsIncident
  <2>4. QED
    BY <1>10, <2>1, <2>3, PauseAgrees DEF Outcome
<1>12. CASE orphan.call # "pause"
  <2>1. PICK r \in {"ok", "error"} :
          \/ GrantCall(orphan.batch, r)
          \/ RevokeCall(orphan.batch, r)
          \/ orphan.call = "forced" /\ UnmarkCall(orphan.batch, r)
    BY <1>12 DEF OrphanEnds, NeverNormal
  <2>2. ServiceIncidents' > ServiceIncidents
    BY <1>8, <2>1 DEF GrantCall, RevokeCall, UnmarkCall
  <2>3. ServiceIncidents' >= ServiceIncidents
    BY <1>6, <2>2, IncidentsAreIntegers
  <2>4. UNCHANGED <<listed, intent, left, stopper, cut>>
    BY <2>1 DEF GrantCall, RevokeCall, UnmarkCall, historyVars
  <2>5. \A h \in Hash : HeldByGuard(h)' = HeldByGuard(h)
    BY <2>4 DEF HeldByGuard
  <2>6. /\ pausedTag' \subseteq pausedTag
        /\ \A h \in pausedTag \ pausedTag' : h \in ToUntag
    BY <2>1 DEF GrantCall, RevokeCall, UnmarkCall, ToUntag
  <2>7. \A h \in pausedTag \ pausedTag' : ~HeldByGuard(h)
    BY <2>6 DEF ToUntagAreFree
  <2>8. QED
    BY <1>10, <2>3, <2>4, <2>5, <2>6, <2>7, QuietAgrees
<1>13. QED
  BY <1>11, <1>12

LEMMA OrphanEndsKeepsSInv ==
  ASSUME SInv, OrphanEnds
  PROVE  SInv' /\ ServiceLedger!LedgerNext
<1> USE DEF SInv
<1>1. ServiceTypeOK'
  BY ServiceTypeStep DEF ServiceNext
<1>2. /\ UNCHANGED <<engPc, engMode, snap, engPaused, hooks, queue, polled,
                     toPause, stopping>>
      /\ orphan' = NoOrphan
  BY DEF OrphanEnds, engineVars, tickLocals, onAddVars, workerVars
<1>3. stopping /\ engPc = "idle"
  BY DEF OneTick, OrphanEnds
<1>4. NeverNormal' /\ OneTick'
  BY <1>2 DEF NeverNormal, OneTick, NoOrphan
<1>5. ToUntag' = {} /\ Notified' = Notified /\ Notified \subseteq Hash
  BY <1>2, <1>3
  DEF ToUntag, NoOrphan, Notified, ServiceTypeOK, OnAddTypeOK
<1>6. /\ listed' = listed
      /\ \A h \in Hash : intent'[h] \in {intent[h], "stop"}
  <2>1. CASE \E r : PauseTakes(orphan.batch, r)
    BY <2>1 DEF PauseTakes, ServiceTypeOK, TypeOK, WorldTypeOK
  <2>2. CASE \E r : \/ MarkCall(orphan.batch, r) \/ GrantCall(orphan.batch, r)
                    \/ UnmarkCall(orphan.batch, r)
                    \/ RevokeCall(orphan.batch, r)
    BY <2>2 DEF MarkCall, GrantCall, UnmarkCall, RevokeCall
  <2>3. QED
    BY <2>1, <2>2 DEF OrphanEnds, PauseCall, NeverNormal
<1>7. NotifiedAreNotForced' /\ ToUntagAreFree'
  BY <1>5, <1>6 DEF NotifiedAreNotForced, ToUntagAreFree
<1>8. QED
  BY <1>1, <1>4, <1>7, OrphanAgrees

-----------------------------------------------------------------------------
LEMMA SInvInit ==
  ASSUME OutsideNormal, ServiceInit
  PROVE  SInv
<1>1. ServiceTypeOK
  BY ServiceInitType
<1>2. NeverNormal /\ OneTick
  BY DEF ServiceInit, EngineInit, NeverNormal, OneTick, NoOrphan
<1>3. Notified = {} /\ ToUntag = {}
  BY DEF ServiceInit, EngineInit, OnAddInit, Notified, ToUntag, NoOrphan
<1>4. NotifiedAreNotForced /\ ToUntagAreFree
  BY <1>3 DEF NotifiedAreNotForced, ToUntagAreFree
<1>5. TasksAgree
  BY DEF ServiceInit, WorldInit, TasksAgree, Stranded, HeldByGuard
<1>6. QED
  BY <1>1, <1>2, <1>4, <1>5 DEF SInv

LEMMA SInvStep ==
  ASSUME OutsideNormal, SInv, ServiceNext
  PROVE  SInv' /\ ServiceLedger!LedgerNext
BY PollTaskKeepsSInv, OnAddTaskKeepsSInv, EnvironmentKeepsSInv,
   RestartKeepsSInv, BeginStopKeepsSInv, OrphanEndsKeepsSInv, EndStopKeepsSInv
DEF ServiceNext

LEMMA SInvStutter ==
  ASSUME SInv, UNCHANGED serviceVars
  PROVE  SInv' /\ UNCHANGED ServiceLedger!ledgerVars
<1>1. UNCHANGED <<listed, intent, left, checking, pausedTag, softTag, free,
                  userMoves, faults, stopper, cut, engPc, prevMode, engMode,
                  engFree, snap, engPaused, engSoft, hooks, queue, attempts,
                  workPc, polled, toPause, restarts, stopping, orphan>>
  BY DEF serviceVars, worldVars, torrentVars, historyVars, engineVars,
         tickLocals, onAddVars, workerVars, lifeVars
<1>2. ServiceTypeOK'
  BY ServiceTypeStep DEF SInv
<1>3. ToPause' = ToPause /\ ForcedPaused' = ForcedPaused
  BY <1>1 DEF ToPause, ForcedPaused
<1>4. \A h \in Hash : /\ HeldByGuard(h)' = HeldByGuard(h)
                      /\ AboutToMark(h)' = AboutToMark(h)
  BY <1>1, <1>3 DEF HeldByGuard, AboutToMark, EngineAboutToMark,
                    OrphanAboutToMark, WorkerAboutToMark
<1>5. NeverNormal' /\ OneTick' /\ NotifiedAreNotForced'
  BY <1>1 DEF SInv, NeverNormal, OneTick, NoOrphan, NotifiedAreNotForced,
              Notified
<1>6. ToUntag' = ToUntag /\ ToUntag \subseteq Hash
  BY <1>1, <1>3 DEF ToUntag, ForcedPaused, SInv, ServiceTypeOK, TypeOK,
                    EngineTypeOK
<1>7. ToUntagAreFree'
  BY <1>1, <1>4, <1>6 DEF SInv, ToUntagAreFree, Notified
<1>8. TasksAgree'
  BY <1>1, <1>4 DEF SInv, TasksAgree, Stranded, AboutToMark
<1>9. UNCHANGED ServiceLedger!ledgerVars
  BY <1>1, <1>4 DEF ServiceLedger!ledgerVars, ServiceEntry, NoOrphan
<1>10. QED
  BY <1>2, <1>5, <1>7, <1>8, <1>9 DEF SInv

LEMMA SInvInductive ==
  ASSUME OutsideNormal
  PROVE  /\ ServiceInit => SInv
         /\ SInv /\ [ServiceNext]_serviceVars => SInv'
BY SInvInit, SInvStep, SInvStutter

(* Outside NORMAL, the polling loop of engine.py, the worker of api.py and *)
(* a call that outlives service.stop never take off each other's tags: a   *)
(* torrent one of them stopped is tagged, unless a call or the process was *)
(* cut in between.                                                         *)
THEOREM TasksNeverDisagree ==
  ASSUME OutsideNormal
  PROVE  ServiceSpec => []TasksAgree
<1>1. SInv => TasksAgree
  BY DEF SInv
<1>2. QED
  BY SInvInductive, <1>1, PTL DEF ServiceSpec

(* service.stop waits for the worker, so that a stop which is not itself   *)
(* cut off loses no torrent the worker had stopped (service.py:110).       *)
THEOREM GracefulStopLosesNothing ==
  ASSUME OutsideNormal
  PROVE  ServiceSpec => StopSparesTheWorker
<1>1. ASSUME SInv, SInv', [ServiceNext]_serviceVars,
             stopping, ~stopping', restarts' = restarts,
             NEW h \in Hash, Stranded(h)
      PROVE  h \in cut
  <2>1. restarts \in Nat
    BY <1>1, RestartAssumption DEF SInv, ServiceTypeOK
  <2>2. EndStop
    <3>1. stopping' # stopping
      BY <1>1
    <3>2. ~UNCHANGED lifeVars /\ ~UNCHANGED serviceVars
      BY <3>1 DEF lifeVars, serviceVars
    <3>3. ~PollTask /\ ~OnAddTask /\ ~Environment
      BY <3>2 DEF PollTask, OnAddTask, Environment
    <3>4. ~Restart /\ ~BeginStop
      BY <1>1, <2>1 DEF Restart, BeginStop, EndsOnceMore
    <3>5. ~OrphanEnds
      BY <3>1 DEF OrphanEnds
    <3>6. QED
      BY <1>1, <3>2, <3>3, <3>4, <3>5 DEF ServiceNext
  <2>3. engPc = "idle" /\ workPc = "none" /\ orphan = NoOrphan
    BY <1>1, <2>2 DEF EndStop, SInv, OneTick
  <2>4. QED
    BY <1>1, <2>3 DEF SInv, TasksAgree, EngineAboutToMark, OrphanAboutToMark,
                      WorkerAboutToMark, NoOrphan
<1>2. SInv /\ SInv' /\ [ServiceNext]_serviceVars =>
        [stopping /\ ~stopping' /\ restarts' = restarts =>
           \A h \in Hash : Stranded(h) => h \in cut]_serviceVars
  BY <1>1
<1>3. QED
  BY SInvInductive, <1>2, PTL DEF ServiceSpec, StopSparesTheWorker

(* Outside NORMAL the two tasks together implement the ledger: failed      *)
(* calls, restarts, graceful stops and the calls these leave behind cost   *)
(* only torrents whose stop is under way, never one that has the tag.      *)
THEOREM ServiceImplementsLedger ==
  ASSUME OutsideNormal
  PROVE  ServiceSpec => ServiceKeepsLedger
<1>1. ServiceInit => ServiceLedger!LedgerInit
  <2> SUFFICES ASSUME ServiceInit PROVE ServiceLedger!LedgerInit
    OBVIOUS
  <2>1. \A h \in Hash : ServiceEntry(h) \in {"free", "held"}
    BY DEF ServiceInit, WorldInit, ServiceEntry, HeldByGuard
  <2>2. faults = 0 /\ restarts = 0 /\ orphan = NoOrphan
    BY DEF ServiceInit, WorldInit
  <2>3. QED
    BY <2>1, <2>2 DEF ServiceLedger!LedgerInit
<1>2. SInv /\ [ServiceNext]_serviceVars =>
        [ServiceLedger!LedgerNext]_(ServiceLedger!ledgerVars)
  BY SInvStep, SInvStutter
<1>3. QED
  BY SInvInductive, <1>1, <1>2, PTL
  DEF ServiceSpec, ServiceKeepsLedger, ServiceLedger!LedgerSpec

-----------------------------------------------------------------------------
(* Grants, in all modes.  The worker and the world take soft_allowed off   *)
(* at most, and a grant left behind in a thread lands before the first     *)
(* tick of the next process. *)

AllowInv == ServiceTypeOK /\ OneTick /\ SpareInv

LEMMA OthersNeverAllow ==
  ASSUME ServiceTypeOK, OnAddTask \/ Environment
  PROVE  softTag' \subseteq softTag /\ faults' >= faults
<1> USE DEF ServiceTypeOK, TypeOK
<1>1. faults \in Nat
  BY WorldAssumption DEF WorldTypeOK
<1>2. CASE WakeUp \/ Poll \/ \E h \in Hash : Handle(h)
  BY <1>1, <1>2 DEF WakeUp, Poll, Handle, ReadCall, worldVars, torrentVars
<1>3. CASE WorkerPause
  BY <1>3, IncidentsAreCounted DEF WorkerPause, PauseCall, PauseTakes
<1>4. CASE WorkerMark
  BY <1>4, IncidentsAreCounted DEF WorkerMark, MarkCall
<1>5. CASE WorldStep
  BY <1>1, <1>5, WorldNeverAllows
<1>6. CASE \E h \in Hash : RunHookAgain(h) \/ DropHook(h)
  BY <1>1, <1>6 DEF RunHookAgain, DropHook, worldVars, torrentVars
<1>7. QED
  BY <1>2, <1>3, <1>4, <1>5, <1>6
  DEF OnAddTask, HandlerStep, WorkerStep, Environment, HookWorldStep

LEMMA AllowInvInductive ==
  /\ ServiceInit => AllowInv
  /\ AllowInv /\ [ServiceNext]_serviceVars => AllowInv'
<1>1. ServiceInit => AllowInv
  BY ServiceInitType, InitSpareInv
  DEF ServiceInit, Init, AllowInv, OneTick, NoOrphan
<1> SUFFICES ASSUME AllowInv, [ServiceNext]_serviceVars PROVE AllowInv'
  BY <1>1
<1> USE DEF AllowInv
<1>2. ServiceTypeOK'
  BY ServiceTypeStep
<1>3. TypeOK'
  BY <1>2 DEF ServiceTypeOK
<1>4. CASE PollTask
  <2>1. SpareInv'
    BY <1>4, SpareInvInductive DEF PollTask, Next
  <2>2. QED
    BY <1>2, <1>4, <2>1 DEF PollTask, lifeVars, OneTick, NoOrphan
<1>5. CASE OnAddTask \/ Environment
  <2>1. softTag' \subseteq softTag /\ faults' >= faults
    BY <1>5, OthersNeverAllow
  <2>2. UNCHANGED <<engPc, engMode, prevMode, snap, engPaused, engSoft,
                    stopping, orphan>>
    BY <1>5 DEF OnAddTask, Environment, engineVars, tickLocals, lifeVars
  <2>3. faults \in Nat /\ faults' \in Nat
    BY <1>3, WorldAssumption DEF SpareInv, TypeOK, WorldTypeOK
  <2>4. SpareInv'
    BY <1>3, <2>1, <2>2, <2>3 DEF SpareInv, SoftTagsKnown, GrantedOnEntry,
                                  DownloadsGranted, RevokedOutsideSoft
  <2>5. QED
    BY <1>2, <2>2, <2>4 DEF OneTick, NoOrphan
<1>6. CASE Restart \/ BeginStop \/ EndStop \/ OrphanEnds
  <2>1. engPc' = "idle"
    BY <1>6 DEF Restart, BeginStop, EndStop, OrphanEnds, FreshEngine,
                ForgetLocals, OneTick, engineVars, tickLocals
  <2>2. SpareInv'
    BY <1>3, <2>1 DEF SpareInv, SoftTagsKnown, GrantedOnEntry,
                      DownloadsGranted, RevokedOutsideSoft
  <2>3. OneTick'
    BY <1>6, <2>1 DEF Restart, BeginStop, EndStop, OrphanEnds, OneTick,
                      NoOrphan
  <2>4. QED
    BY <1>2, <2>2, <2>3
<1>7. CASE UNCHANGED serviceVars
  <2>1. UNCHANGED vars /\ UNCHANGED <<engPc, stopping, orphan>>
    BY <1>7 DEF serviceVars, vars, engineVars, lifeVars, tickLocals
  <2>2. SpareInv'
    BY <2>1, SpareInvInductive
  <2>3. QED
    BY <1>2, <2>1, <2>2 DEF OneTick, NoOrphan
<1>8. QED
  BY <1>2, <1>4, <1>5, <1>6, <1>7 DEF ServiceNext

(* Whatever an earlier process allowed (engine.py:396) is spared by every  *)
(* SOFT tick of the processes after it, in all modes and with any user; a  *)
(* failed grant costs something on the tick from NORMAL only.              *)
THEOREM AllowedOutliveRestarts == ServiceSpec => GrantsOutliveRestarts
<1>1. AllowInv /\ [ServiceNext]_serviceVars =>
        [\A h \in Hash :
           /\ engMode = "SOFT" /\ engPc = "pause" /\ engPc' # "pause"
           /\ GuardStops(h) /\ h \in softTag
           => prevMode = "NORMAL" /\ faults > 0]_serviceVars
  <2> SUFFICES ASSUME AllowInv, ServiceNext, NEW h \in Hash,
                      engMode = "SOFT", engPc = "pause", engPc' # "pause",
                      GuardStops(h), h \in softTag
               PROVE  prevMode = "NORMAL" /\ faults > 0
    BY DEF serviceVars, GuardStops
  <2>1. PollTask
    BY DEF ServiceNext, OnAddTask, Environment, Restart, BeginStop, EndStop,
           OrphanEnds, engineVars, worldVars, torrentVars, GuardStops
  <2>2. PauseDownloads /\ h \in ToPause
    BY <2>1, OnlyPauseStops DEF PollTask, Next, AllowInv, SpareInv
  <2>3. QED
    BY <2>2 DEF ToPause, AllowInv, SpareInv, SoftTagsKnown
<1>2. QED
  BY AllowInvInductive, <1>1, PTL DEF ServiceSpec, GrantsOutliveRestarts
=============================================================================
