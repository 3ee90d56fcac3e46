----------------------------- MODULE DiskGuard -----------------------------
(***************************************************************************)
(* The running service: the polling loop and the on-add handler in one     *)
(* event loop, against one qBittorrent, with a process that may die or be  *)
(* stopped and is started again (service.py, main.py).                     *)
(*                                                                         *)
(* The two tasks share no local state: they meet only in the tags and      *)
(* torrent states at the server.  Nothing is persisted, so a new process   *)
(* knows nothing of the previous mode, the tick that was running, and the  *)
(* on-add queue.  How a start and a stop go about their other resources is *)
(* in module Process.                                                      *)
(***************************************************************************)
EXTENDS ModeEngine, OnAddHandler

CONSTANT MaxRestarts   \* bound: how often the process dies or is stopped

ASSUME RestartAssumption == MaxRestarts \in Nat

VARIABLES
  restarts,   \* how often it did
  stopping,   \* DiskGuardService.stop runs
  orphan      \* the call of the cancelled polling task that is in its thread

lifeVars == <<restarts, stopping, orphan>>
serviceVars == <<worldVars, engineVars, onAddVars, lifeVars>>

NoOrphan == [call |-> "idle", batch |-> {}]

(* Types of the whole service (engine.py, api.py, service.py). *)
ServiceTypeOK ==
  /\ TypeOK
  /\ OnAddTypeOK
  /\ restarts \in 0..MaxRestarts
  /\ stopping \in BOOLEAN
  /\ orphan \in [call : EnginePc, batch : SUBSET Hash]

ServiceInit ==
  /\ WorldInit
  /\ EngineInit
  /\ OnAddInit
  /\ restarts = 0
  /\ stopping = FALSE
  /\ orphan = NoOrphan

-----------------------------------------------------------------------------
PollTask == ~stopping /\ EngineStep /\ UNCHANGED <<onAddVars, lifeVars>>

(* While it stops, the worker goes on, and so do requests received before. *)
OnAddTask == HandlerStep /\ UNCHANGED <<engineVars, lifeVars>>

(* A process that stops takes no new callbacks. *)
Environment ==
  /\ \/ ~stopping /\ HookWorldStep
     \/ stopping /\ WorldStep /\ UNCHANGED onAddVars
     \/ \E h \in Hash : DropHook(h)
  /\ UNCHANGED <<engineVars, lifeVars>>

FreshEngine == ForgetLocals /\ prevMode' = "NONE"

FreshHandler ==
  /\ queue' = {}
  /\ attempts' = [h \in Hash |-> 0]
  /\ workPc' = "none"
  /\ polled' = {}
  /\ toPause' = {}

EndsOnceMore == restarts < MaxRestarts /\ restarts' = restarts + 1

(* The process ends between two steps and a new one begins: __init__ of    *)
(* ModeEngine and of OnAddHandler.  What either task had stopped and not   *)
(* yet tagged is cut.                                                      *)
Restart ==
  /\ EndsOnceMore
  /\ FreshEngine
  /\ FreshHandler
  /\ stopping' = FALSE
  /\ orphan' = NoOrphan
  /\ cut' = cut \cup {h \in Hash : Stranded(h)}
  /\ UNCHANGED <<torrentVars, free, userMoves, faults, stopper, hooks>>

(* The hashes of the call the tick is at *)
BatchInFlight ==
  CASE engPc = "forced" -> ForcedPaused
    [] engPc = "completed" -> CompletedSoft
    [] engPc = "revoke" -> engSoft
    [] engPc = "heal" -> SelfHeal
    [] engPc \in {"resume", "untag"} -> ToResume
    [] engPc = "grant" -> ToGrant
    [] engPc \in {"pause", "mark"} -> ToPause
    [] OTHER -> {}

(* DiskGuardService.stop: the polling task is cancelled wherever it is.    *)
(* The call it waits for goes on in its thread; what would have followed   *)
(* it does not.  Of the callbacks on their way some are received already.  *)
BeginStop ==
  /\ ~stopping
  /\ EndsOnceMore
  /\ stopping' = TRUE
  /\ orphan' = IF BatchInFlight = {} THEN NoOrphan
               ELSE [call |-> engPc, batch |-> BatchInFlight]
  /\ FreshEngine
  /\ hooks' \in SUBSET hooks
  /\ UNCHANGED <<worldVars, workerVars>>

(* The call in the thread reaches the server, at any time, or fails.  A    *)
(* stop that takes effect now is never followed by its tag.                *)
OrphanEnds ==
  /\ orphan # NoOrphan
  /\ \/ /\ orphan.call = "pause"
        /\ PauseTakes(orphan.batch, "lost")
        /\ UNCHANGED faults
     \/ \E r \in {"ok", "error"} :
          \/ orphan.call = "pause" /\ r # "ok" /\ PauseCall(orphan.batch, r)
          \/ orphan.call = "mark" /\ MarkCall(orphan.batch, r)
          \/ orphan.call = "resume" /\ ResumeCall(orphan.batch, r)
          \/ orphan.call = "grant" /\ GrantCall(orphan.batch, r)
          \/ /\ orphan.call \in {"forced", "heal", "untag"}
             /\ UnmarkCall(orphan.batch, r)
          \/ /\ orphan.call \in {"completed", "revoke"}
             /\ RevokeCall(orphan.batch, r)
  /\ orphan' = NoOrphan
  /\ UNCHANGED <<engineVars, onAddVars, restarts, stopping>>

(* Mutant: the worker is cancelled like the polling task.                  *)
EndStopAtOnce ==
  /\ stopping
  /\ orphan = NoOrphan
  /\ stopping' = FALSE
  /\ FreshHandler
  /\ hooks' = {}
  /\ UNCHANGED <<worldVars, engineVars, restarts, orphan>>

(* stop has waited for the worker (OnAddHandler.shutdown), asyncio.run for *)
(* the thread; a new process begins.                                       *)
EndStop ==
  /\ stopping
  /\ workPc = "none"
  /\ orphan = NoOrphan
  /\ stopping' = FALSE
  /\ FreshHandler
  /\ hooks' = {}
  /\ UNCHANGED <<worldVars, engineVars, restarts, orphan>>

ServiceNext ==
  \/ PollTask \/ OnAddTask \/ Environment
  \/ Restart \/ BeginStop \/ OrphanEnds \/ EndStop

ServiceSpec == ServiceInit /\ [][ServiceNext]_serviceVars

(* asyncio runs every task that can run; calls have timeouts.  A process   *)
(* that was stopped is started again.                                      *)
ServiceFairSpec ==
  /\ ServiceSpec
  /\ WF_serviceVars(PollTask)
  /\ WF_serviceVars(WorkerStep /\ UNCHANGED <<engineVars, lifeVars>>)
  /\ WF_serviceVars(OrphanEnds)
  /\ WF_serviceVars(EndStop)

-----------------------------------------------------------------------------
(* Safety *)

OrphanAboutToMark(h) == orphan.call = "mark" /\ h \in orphan.batch

(* Outside NORMAL the two tasks never get in each other's way: a torrent   *)
(* either of them stopped carries the paused tag, unless a call or the     *)
(* process was cut between stop and tag; also while the service stops, and *)
(* the worker acts beside the call the polling task left in its thread.    *)
(* (NORMAL, where the planner takes tags off what the worker may stop      *)
(* meanwhile, forced starts and removals are left out of the instance.)    *)
TasksAgree ==
  \A h \in Hash :
    Stranded(h) => \/ h \in cut
                   \/ EngineAboutToMark(h)
                   \/ OrphanAboutToMark(h)
                   \/ WorkerAboutToMark(h)

(* A graceful stop between two calls of the worker strands nothing: unlike *)
(* the polling task, the worker is waited for.                             *)
StopSparesTheWorker ==
  [][stopping /\ ~stopping' /\ restarts' = restarts =>
       \A h \in Hash : Stranded(h) => h \in cut]_serviceVars

(* How the two tasks keep one ledger: an incident is a failed call, an end *)
(* of the process, or what a call that was left in its thread comes to.    *)
AboutToMark(h) ==
  EngineAboutToMark(h) \/ OrphanAboutToMark(h) \/ WorkerAboutToMark(h)

ServiceEntry(h) ==
  IF ~HeldByGuard(h) THEN "free"
  ELSE IF h \in pausedTag THEN "held"
  ELSE IF AboutToMark(h) THEN "stopping" ELSE "lost"

ServiceLedger ==
  INSTANCE TagLedger
    WITH ledger <- [h \in Hash |-> ServiceEntry(h)],
         incidents <- faults + 2 * restarts - IF orphan = NoOrphan THEN 0 ELSE 1

(* Outside NORMAL the service implements TagLedger: neither task takes a   *)
(* torrent out of the ledger that the other one entered, nor does a call   *)
(* that fails, a crash, a stop, or the call that a stop leaves behind in   *)
(* its thread.  All of these cost only torrents whose stop is under way.   *)
ServiceKeepsLedger == ServiceLedger!LedgerSpec

(* A grant outlives the process that made it.  The first tick of a new     *)
(* process knows no previous mode, so in SOFT it grants nothing: what an   *)
(* earlier process allowed goes on by its tag alone, and no tick in SOFT   *)
(* stops it, whatever fails and whatever is left behind in a thread; but   *)
(* for a grant that failed on the very tick that comes from NORMAL.        *)
GrantsOutliveRestarts ==
  [][\A h \in Hash :
       /\ engMode = "SOFT" /\ engPc = "pause" /\ engPc' # "pause"
       /\ GuardStops(h) /\ h \in softTag
       => prevMode = "NORMAL" /\ faults > 0]_serviceVars

-----------------------------------------------------------------------------
(* Liveness, under ServiceFairSpec *)

(* With the on-add worker beside it and restarts in between, the polling   *)
(* loop still ends every unforced download once the disk stays in HARD.    *)
HardQuietDespiteRestarts ==
  <>[]DiskHard => <>[](\A h \in Hash : ~Downloading(h))

(* After restarts and with late stops by the worker, NORMAL still cleans   *)
(* up all soft_allowed tags and the paused tag of everything that runs.    *)
NormalCleanDespiteRestarts ==
  <>[]DiskNormal =>
    <>[](/\ softTag = {}
         /\ \A h \in pausedTag : IsPausedDownload(State(h)))

(* A graceful stop comes to its end: the worker drains its queue although  *)
(* the service is stopping and its calls fail.                             *)
StopDrains == stopping ~> ~stopping

-----------------------------------------------------------------------------
(* What the documentation promises and the code does not keep *)

(* "All actions are idempotent and safe across restarts" (README): once    *)
(* the new process runs, nothing DiskGuard stopped is without its tag.     *)
(* Refuted: nothing finds a torrent stopped just before the process died.  *)
RestartLosesNothing ==
  [][restarts' # restarts /\ ~stopping' =>
       \A h \in Hash : ~Stranded(h)']_serviceVars

(* "State is derived entirely from qBittorrent tags" (README): with no     *)
(* failed call and no restart, whatever DiskGuard holds is tagged outside  *)
(* the window of _pause_and_mark.  Refuted: the worker stops and tags a    *)
(* torrent again that the polling loop has just started and then untags.   *)
TagsTellEverything ==
  \A h \in Hash :
    Stranded(h) => EngineAboutToMark(h) \/ WorkerAboutToMark(h)

(* "It resumes only torrents it previously paused" (README).  Refuted: the *)
(* worker tags a torrent that the user added stopped, and the polling loop *)
(* starts it when there is room.                                           *)
ResumesOnlyItsOwn ==
  [][\A h \in Hash : GuardStarts(h) => stopper[h] = "guard"]_serviceVars
=============================================================================
