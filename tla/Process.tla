------------------------------ MODULE Process ------------------------------
(***************************************************************************)
(* The life of a DiskGuard process: main.py, DiskGuardService.start and    *)
(* stop of service.py, the bootstrap of the configuration file, and the    *)
(* shutdown hook of the HTTP application.                                  *)
(*                                                                         *)
(* What the polling task and the on-add worker do while they run is in     *)
(* ModeEngine and OnAddHandler.  Here they only make calls, and a call may *)
(* log in again.                                                           *)
(***************************************************************************)
EXTENDS Config, StartupPreflight

CONSTANTS
  Inputs,      \* what the operator sets up: records [file, env, writable]
  MaxMishaps   \* bound: kills, interrupts, full disks and occupied ports

ASSUME MishapAssumption == MaxMishaps \in Nat

(* The numbers of raw values are whole: integers, or halves of floats. *)
ASSUME InputsAssumption ==
  \A i \in Inputs :
    /\ i.writable \in BOOLEAN
    /\ \A s \in DOMAIN i.env : i.env[s].n \in Int
    /\ \A s \in DOMAIN i.file.values : i.file.values[s].n \in Int

VARIABLES
  phase,     \* how far the process is, "off" when there is none
  exit,      \* how the last process ended, "none" while one runs
  file,      \* the configuration file, a document
  env,       \* the environment
  writable,  \* its directory can be written
  request,   \* a request is being handled
  working,   \* the on-add worker exists
  awaited,   \* so does the one that shutdown waits for
  mishaps,   \* number of mishaps so far
  (* History, read by no guard: *)
  kept,      \* settings a template that was cut short has whole, else -1
  farewell   \* what became of the log out of this process

inputVars == <<file, env, writable, kept>>
httpVars == <<request, working, awaited>>
processVars ==
  <<phase, exit, inputVars, httpVars, mishaps, farewell, preflightVars>>

Running == {"starting", "creating", "loading", "preflight", "up", "stopping",
            "draining", "closing", "drainingAgain", "leaving", "joining"}

Missing == Document("missing", << >>)

(* What an interrupted write leaves, by the settings it got to *)
Remains(i) ==
  {TemplateUpTo(i)}
    \cup IF i < Len(TemplateOrder) THEN TemplateCutAfter(i) ELSE {}

Documents == {Template} \cup {i.file : i \in Inputs}
               \cup UNION {Remains(i) : i \in 0..Len(TemplateOrder)}

Url == Converted("url", file, env)

(* Types; a thread outlives at most each attempt and the polling task, and *)
(* never more of them than there are attempts.                             *)
ProcessTypeOK ==
  /\ PreflightTypeOK
  /\ late <= MaxPreflight
  /\ phase \in Running \cup {"off"}
  /\ exit \in {"none", "stopped", "interrupted", "killed", "1", "2",
               "traceback"}
  /\ file \in Documents
  /\ env \in {i.env : i \in Inputs}
  /\ writable \in BOOLEAN
  /\ request \in BOOLEAN
  /\ working \in BOOLEAN
  /\ awaited \in BOOLEAN
  /\ mishaps \in 0..MaxMishaps
  /\ kept \in -1..Len(TemplateOrder)
  /\ farewell \in {"none", "refused", "late", "clean"}

ProcessInit ==
  /\ phase = "off"
  /\ exit = "none"
  /\ \E i \in Inputs : /\ file = i.file
                       /\ env = i.env
                       /\ writable = i.writable
  /\ request = FALSE
  /\ working = FALSE
  /\ awaited = FALSE
  /\ mishaps = 0
  /\ kept = -1
  /\ farewell = "none"
  /\ PreflightInit

Mishap == mishaps < MaxMishaps /\ mishaps' = mishaps + 1

(* The process is gone, and its threads and tasks with it. *)
GoneWith(how) ==
  /\ phase' = "off"
  /\ exit' = how
  /\ request' = FALSE
  /\ working' = FALSE
  /\ awaited' = FALSE
  /\ late' = 0
  /\ probe' = "none"
  /\ detected' = "none"
  /\ attempt' = 0
  /\ verified' = Unverified

-----------------------------------------------------------------------------
(* Before the service: the operator, load_config *)

Configure ==
  /\ phase = "off"
  /\ \E i \in Inputs : /\ file' = i.file
                       /\ env' = i.env
                       /\ writable' = i.writable
  /\ kept' = -1
  /\ UNCHANGED <<phase, exit, httpVars, mishaps, farewell, preflightVars>>

Launch ==
  /\ phase = "off"
  /\ phase' = "starting"
  /\ exit' = "none"
  /\ farewell' = "none"
  /\ UNCHANGED <<inputVars, httpVars, mishaps, preflightVars>>

(* _bootstrap_config_file: the directory must be writable even when the    *)
(* file is there.                                                          *)
CheckDirectory ==
  /\ phase = "starting"
  /\ IF writable
     THEN /\ phase' = IF file = Missing THEN "creating" ELSE "loading"
          /\ UNCHANGED <<exit, httpVars, preflightVars>>
     ELSE GoneWith("2") /\ UNCHANGED serverVars
  /\ UNCHANGED <<inputVars, mishaps, farewell>>

(* The template is written in place.  An error ends the process; so may a  *)
(* kill.  Either way the next process finds what was written, if anything. *)
WriteTemplate ==
  /\ phase = "creating"
  /\ \/ /\ file' = Template
        /\ phase' = "loading"
        /\ UNCHANGED <<exit, kept, httpVars, mishaps, preflightVars>>
     \/ /\ Mishap
        /\ \/ \E i \in 0..Len(TemplateOrder) : file' \in Remains(i) /\ kept' = i
           \/ UNCHANGED <<file, kept>>
        /\ \E how \in {"2", "killed"} : GoneWith(how)
        /\ UNCHANGED serverVars
  /\ UNCHANGED <<env, writable, farewell>>

(* load_config and the exit codes of main *)
Load ==
  /\ phase = "loading"
  /\ LET result == LoadResult(file, env)
     IN  IF result = "accepted"
         THEN /\ phase' = "preflight"
              /\ BeginPreflight(Url.is # "badurl")
              /\ UNCHANGED <<exit, httpVars>>
         ELSE /\ GoneWith(IF result = "ConfigError" THEN "2" ELSE "traceback")
              /\ UNCHANGED serverVars
  /\ UNCHANGED <<inputVars, mishaps, farewell>>

-----------------------------------------------------------------------------
(* DiskGuardService.start *)

Preflight ==
  /\ phase = "preflight"
  /\ PreflightStep
  /\ UNCHANGED <<phase, exit, inputVars, httpVars, mishaps, farewell>>

(* auth_log_out; an APIError is swallowed. *)
LogOut ==
  /\ session' = (session /\ server \notin Answers)
  /\ farewell' = IF server \notin Answers THEN "refused"
                 ELSE IF late > 0 THEN "late" ELSE "clean"

(* Mutant: a start that fails does not log out.                            *)
FailStartSilently ==
  /\ phase = "preflight"
  /\ probe = "failed"
  /\ phase' = "joining"
  /\ exit' = "1"
  /\ UNCHANGED <<inputVars, httpVars, mishaps, farewell, preflightVars>>

FailStart ==
  /\ phase = "preflight"
  /\ probe = "failed"
  /\ LogOut
  /\ phase' = "joining"
  /\ exit' = "1"
  /\ UNCHANGED <<inputVars, httpVars, mishaps, server, late, attemptVars>>

(* The HTTP listener and the polling task.  A port that is taken ends the  *)
(* process, without stop.                                                  *)
Bind ==
  /\ phase = "preflight"
  /\ probe = "passed"
  /\ \/ phase' = "up" /\ UNCHANGED <<exit, mishaps>>
     \/ Mishap /\ phase' = "joining" /\ exit' = "traceback"
  /\ UNCHANGED <<inputVars, httpVars, farewell, preflightVars>>

-----------------------------------------------------------------------------
(* While it is up *)

RequestArrives ==
  /\ phase = "up"
  /\ ~request
  /\ request' = TRUE
  /\ UNCHANGED <<phase, exit, inputVars, working, awaited, mishaps,
                 farewell, preflightVars>>

(* handle may start the worker. *)
RequestEnds ==
  /\ request
  /\ phase # "joining"
  /\ request' = FALSE
  /\ working' \in {working, TRUE}
  /\ UNCHANGED <<phase, exit, inputVars, awaited, mishaps, farewell,
                 preflightVars>>

WorkerEnds ==
  /\ working
  /\ working' = FALSE
  /\ awaited' = FALSE
  /\ UNCHANGED <<phase, exit, inputVars, request, mishaps, farewell,
                 preflightVars>>

(* A call of the polling task or of the worker logs in when it must. *)
TaskCalls ==
  /\ phase = "up" \/ working
  /\ server \in Answers
  /\ session' = TRUE
  /\ UNCHANGED <<phase, exit, inputVars, httpVars, mishaps, farewell, server,
                 late, attemptVars>>

-----------------------------------------------------------------------------
(* DiskGuardService.stop, after SIGINT or SIGTERM *)

(* The polling task is cancelled; a call it has in flight goes on in its   *)
(* thread.  The listener closes.                                           *)
Stop ==
  /\ phase = "up"
  /\ phase' = "stopping"
  /\ late' \in {late, late + 1}
  /\ UNCHANGED <<exit, inputVars, httpVars, mishaps, farewell, serverVars,
                 attemptVars>>

(* on_shutdown of the application: OnAddHandler.shutdown waits for the     *)
(* worker it finds, and for no other.                                      *)
Drain ==
  /\ phase = "stopping"
  /\ phase' = "draining"
  /\ awaited' = working
  /\ UNCHANGED <<exit, inputVars, request, working, mishaps, farewell,
                 preflightVars>>

Drained ==
  /\ phase = "draining"
  /\ ~awaited
  /\ phase' = "closing"
  /\ UNCHANGED <<exit, inputVars, httpVars, mishaps, farewell, preflightVars>>

(* Mutant: a client that never ends its request is waited for.             *)
CloseWaits ==
  /\ phase = "closing"
  /\ ~request
  /\ phase' = "drainingAgain"
  /\ awaited' = working
  /\ UNCHANGED <<exit, inputVars, request, working, mishaps, farewell,
                 preflightVars>>

(* The rest of AppRunner.cleanup: requests end or are cut off.  Then       *)
(* OnAddHandler.shutdown, once more: a request that was being handled when *)
(* the listener closed may have started another worker.                    *)
Close ==
  /\ phase = "closing"
  /\ phase' = "drainingAgain"
  /\ request' = FALSE
  /\ awaited' = working
  /\ UNCHANGED <<exit, inputVars, working, mishaps, farewell, preflightVars>>

(* Mutant: stop relies on the hook of the application alone.               *)
DrainOnce ==
  /\ phase = "drainingAgain"
  /\ phase' = "leaving"
  /\ UNCHANGED <<exit, inputVars, httpVars, mishaps, farewell, preflightVars>>

DrainAgain ==
  /\ phase = "drainingAgain"
  /\ ~awaited
  /\ phase' = "leaving"
  /\ UNCHANGED <<exit, inputVars, httpVars, mishaps, farewell, preflightVars>>

Leave ==
  /\ phase = "leaving"
  /\ LogOut
  /\ phase' = "joining"
  /\ exit' = "stopped"
  /\ UNCHANGED <<inputVars, httpVars, mishaps, server, late, attemptVars>>

(* asyncio.run waits for the threads. *)
EndProcess ==
  /\ phase = "joining"
  /\ late = 0
  /\ GoneWith(exit)
  /\ UNCHANGED <<inputVars, mishaps, farewell, serverVars>>

-----------------------------------------------------------------------------
(* Ctrl-C before the handlers are set cancels the start: the call in       *)
(* flight goes on in its thread, nobody logs out, and main returns.        *)
Interrupt ==
  /\ phase = "preflight" /\ probe # "failed"
  /\ Mishap
  /\ phase' = "joining"
  /\ exit' = "interrupted"
  /\ late' = IF probe \in {"version", "webapi"} THEN late + 1 ELSE late
  /\ UNCHANGED <<inputVars, httpVars, farewell, serverVars, attemptVars>>

Kill ==
  /\ phase # "off"
  /\ Mishap
  /\ GoneWith("killed")
  /\ UNCHANGED <<inputVars, farewell, serverVars>>

Surroundings ==
  /\ ServerChanges \/ LateCallEnds
  /\ UNCHANGED <<phase, exit, inputVars, httpVars, mishaps, farewell>>

(* What the process does by itself *)
ProcessStep ==
  \/ CheckDirectory \/ WriteTemplate \/ Load
  \/ Preflight \/ FailStart \/ Bind
  \/ Drain \/ Drained \/ Close \/ DrainAgain \/ Leave \/ EndProcess

ProcessNext ==
  \/ Configure \/ Launch \/ ProcessStep
  \/ RequestArrives \/ RequestEnds \/ WorkerEnds \/ TaskCalls
  \/ Stop \/ Interrupt \/ Kill
  \/ Surroundings

ProcessSpec == ProcessInit /\ [][ProcessNext]_processVars

(* Calls and requests have timeouts, the worker's attempts are bounded     *)
(* (QueueDrains of OnAddHandler), and the container is started again       *)
(* whenever it ends.                                                       *)
ProcessFairSpec ==
  /\ ProcessSpec
  /\ WF_processVars(ProcessStep)
  /\ WF_processVars(WorkerEnds)
  /\ WF_processVars(LateCallEnds /\ UNCHANGED <<phase, exit, inputVars,
                                                httpVars, mishaps, farewell>>)
  /\ WF_processVars(Launch)

-----------------------------------------------------------------------------
(* Safety *)

Accepted == LoadResult(file, env) = "accepted"

(* A first start that was interrupted leaves part of the template behind,  *)
(* which later starts take for the user's file.  If such a file is         *)
(* accepted, every setting comes out as with the whole template, but for   *)
(* the one in which the write was cut (a number that lost digits).         *)
InterruptedBootstrapIsHarmless ==
  phase = "loading" /\ kept >= 0 /\ Accepted =>
    \A s \in Setting :
      \/ kept < Len(TemplateOrder) /\ s = TemplateOrder[kept + 1]
      \/ Converted(s, file, env) = Converted(s, Template, env)

(* What other modules assume of the configuration is so once a process     *)
(* got past load_config: the order of the thresholds (TorrentState), and   *)
(* limits of at least one (OnAddHandler), also for a fraction below one,   *)
(* which is truncated.                                                     *)
AcceptedFitsTheModels ==
  phase \in {"preflight", "up"} =>
    LET c == [s \in Setting |-> Converted(s, file, env)]
    IN  /\ 0 <= c["hard_pause_below_pct"].n
        /\ c["hard_pause_below_pct"].n < c["soft_pause_below_pct"].n
        /\ c["soft_pause_below_pct"].n <= c["resume_floor_pct"].n
        /\ c["resume_floor_pct"].n <= 200
        /\ c["on_add_quick_poll_max_queue_size"].n >= 1
        /\ c["on_add_quick_poll_max_attempts"].n >= 1
        /\ ~SameText(c["paused_tag"], c["soft_allowed_tag"])

(* The service never runs unless both version calls got a supported answer *)
(* in one and the same attempt, the last one, although the server may be   *)
(* upgraded or replaced between the calls, and between attempts: the       *)
(* answer of the first call counts when the second has come, and those of  *)
(* an attempt that timed out count no more.                                *)
UpOnlyVerified ==
  phase = "up" =>
    /\ attempt > 0
    /\ verified.version = attempt
    /\ verified.webapi = attempt

(* When stop logs out, no request and no worker is left that could be cut  *)
(* between its two calls or log in again, although requests go on while    *)
(* the hook of the application waits for the worker.                       *)
StopWaitsForTasks ==
  phase = "leaving" => ~request /\ ~working

(* A process that ends by itself, after a stop or a failed preflight,      *)
(* leaves no session at the server, unless the log out failed or a thread  *)
(* outlived it.  (A start that fails at the port, or is interrupted, does  *)
(* leave one.)                                                             *)
SessionReleased ==
  exit \in {"1", "stopped"} /\ session => farewell \in {"refused", "late"}

-----------------------------------------------------------------------------
(* Liveness, under ProcessFairSpec *)

(* Every start comes to an end: up, or gone; the attempts run out.         *)
EveryStartEnds == phase = "starting" ~> phase \in {"up", "off"}

(* A graceful stop comes to an end, however requests, the worker and       *)
(* threads left behind interleave.                                         *)
StopEnds == phase = "stopping" ~> phase = "off"

(* Once the configuration is acceptable for good and the server answers,   *)
(* the service comes up again and again, whatever was left behind by       *)
(* earlier processes.                                                      *)
EventuallyUp ==
  <>[](server = "healthy" /\ writable /\ Accepted /\ Url.is # "badurl")
    => []<>(phase = "up")

-----------------------------------------------------------------------------
(* What the documentation promises and the code does not keep *)

(* "Set both to non-empty values in /config/config.toml" (README): a file  *)
(* with both secrets that is complete by itself is not refused under the   *)
(* environment of the README's compose file.  Refuted: the empty token of  *)
(* that environment wins.                                                  *)
SecretsInFileSuffice ==
  phase = "loading" /\ LoadResult(file, << >>) = "accepted" => Accepted
=============================================================================
