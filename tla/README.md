# DiskGuard in TLA+

DiskGuard watches the free space of a file system and stops and starts the
downloads of a qBittorrent server accordingly. This directory holds TLA+
modules that model its code, TLC configurations that check them on small
instances, and theorems about them checked by TLAPS. `PROJECT.json` lists the
components, runs, findings, hazards and theorems, and maps every definition to
the source lines it stands for.

## The system

| part | source | state it keeps | operations |
|---|---|---|---|
| state and budget | `state.py`, `models.py`, `disk_probe.py` | none | `classify_mode`, the state predicates, `calculate_budget`, `sort_resume_candidates`, `measure` |
| resume planner | `resume_planner.py` | none | `execute`: decide, start, untag |
| mode engine | `engine.py` | `_previous_mode`; a tick's locals | `run_forever`, `tick` with cleanups and the handler of each mode |
| on-add handler | `api.py` | `_quick_poll_queue_by_hash`, the worker task | `handle`, `_quick_poll_worker`, `shutdown` |
| service | `service.py`, `main.py` | its tasks, listener, session | `start`, `stop`; signals, exit codes |
| startup preflight | `startup.py` | attempts | retry loop against the server |
| configuration | `config.py` | a file | bootstrap, read, override, convert, validate |
| logging, packaging | `main.py`, `Dockerfile` | none | log format, version, image |
| qBittorrent, user, disk | outside `src/` | torrents, states, tags, free bytes | the API calls; anything the user does |

**How they interact.** One process, one asyncio event loop, two tasks. The
polling task runs `ModeEngine.tick` over and over; the on-add worker exists
while its queue is not empty, and the request handler fills the queue. The two
tasks share no Python state. They meet at the server: in the torrents' states
and in two tags, `diskguard_paused` (the torrent is to be started again) and
`soft_allowed` (the torrent may go on in SOFT). Nothing is stored on disk, so
tags are all a new process knows. The process reads its configuration (and
writes a default one on the first start), asks the server for its version until
it answers, opens the listener, runs both tasks, and on a signal takes all of
that down again; the container starts it anew whenever it ends.

**What is hard.** Every API call runs in a thread and is an `await`: the user,
qBittorrent and the other task act between any two calls. A tick decides all
of its calls from a measurement and a snapshot taken at its start. A batch call
may fail, or take effect and lose its answer. Stopping and tagging are two
calls, so are starting and untagging. The process may end between them. A
cancelled task, a timed-out attempt and an interrupted start leave the thread of
their call behind, which still reaches the server.

**What makes each part correct.**

* State and planner: what is started fits, together with what runs, above
  floor and buffer; the documented order of each policy decides.
* Mode engine: a torrent it stops is tagged, and it takes the tag off only
  when the torrent no longer needs it; SOFT spares what it granted; HARD ends
  all downloads; NORMAL cleans up and starts again.
* On-add handler: the backlog is bounded, every queued hash is dealt with,
  none twice at a time.
* Service: the two tasks do not undo each other's work; a restart loses nothing.
* Preflight: bounded attempts, fatal errors not retried, no late answer counted.
* Stop: the worker is waited for, the session is released, it comes to an end.
* Configuration: what is accepted is what the other parts rely on; a first start
  that is interrupted does not change the settings of later ones.

## The modules

| module | models | extends |
|---|---|---|
| `TorrentState` | `state.py`, `Mode`, constraints of `config._validate` | |
| `ResumePlanner` | which torrents `execute` starts | `TorrentState` |
| `ResumePolicies` | one decision of the planner, and the documented policies it is held against | `ResumePlanner` |
| `QBittorrent` | the server, the user, the disk, failing calls (external) | `TorrentState` |
| `ModeEngine` | the polling loop, with the planner's calls | `QBittorrent`, `ResumePlanner` |
| `OnAddHandler` | `/on-add` and the quick-poll worker | `QBittorrent` |
| `DiskGuard` | both tasks in one process that dies or is stopped | `ModeEngine`, `OnAddHandler` |
| `DiskBudget` | the polling loop on a disk that downloads fill | `ModeEngine` |
| `TagLedger` | abstract: what becomes of a torrent DiskGuard stops | |
| `Config` | `config.py` without the file | |
| `StartupPreflight` | `startup.py` and the server it asks | |
| `Process` | `main.py`, `start` and `stop`, the configuration file | `Config`, `StartupPreflight` |
| `QBittorrentProofs` | lemmas about the world | `QBittorrent` |
| `ModeEngineProofs` | types, `NoTorrentLost`, the ledger, what a tick starts and spares | `ModeEngine`, `QBittorrentProofs` |
| `ResumePlannerProofs` | lemmas about sums, the sort and the planner's loop | `ResumePlanner` |
| `ResumePoliciesProofs` | theorems about the policies | `ResumePolicies`, `ResumePlannerProofs` |
| `DiskBudgetProofs` | theorems about the disk | `DiskBudget`, `ModeEngineProofs`, `ResumePlannerProofs` |
| `OnAddHandlerProofs` | theorems about the handler | `OnAddHandler`, `QBittorrentProofs` |
| `DiskGuardProofs` | theorems about both tasks together | `DiskGuard`, `QBittorrentProofs` |
| `ProcessProofs` | theorems about the process | `Process` |
| `MC...` | constants of the checked instances | |

`ModeEngine`, `OnAddHandler` and `DiskGuard` are shown to implement `TagLedger`.
`DiskGuard` is what happens while `Process` is `up` or stopping; the two are not
composed, because they share only what `Process` proves of a stop (the worker is
waited for, threads are joined) and `DiskGuard` builds in.

### The world: `QBittorrent`

Per hash: is it `listed`, what was last asked of it (`intent`: run, stop,
force), how much is `left` (`Unknown` before the metadata is there), is it
`checking`, does it carry each tag. `State(h)` is the state string reported,
reduced to the classes the code tells apart; a check hides whether a torrent is
stopped. `free` moves among `FreeLevels` as it likes.

Each API call is an operator with an outcome: `ok`, `error` (an `APIError`, no
effect), `lost` (the effect took place, the answer did not arrive), `raise` (an
exception that is no `APIError`). A call with an empty batch is never sent and
cannot fail, as in the code.

Two variables are history and no guard reads them: `stopper` says who stopped a
torrent, and `cut` holds the torrents that a pause-and-mark left without a tag
because one of its two calls failed or the process ended. A torrent is
*stranded* when DiskGuard stopped it, it is not finished, and it has no paused
tag: no later tick starts it.

### The planner: `ResumePlanner`, `ResumePolicies`

`Planned` is `planned_hashes` of `execute`, a function of the resume section,
the snapshot, the tagged hashes and the measured free bytes. `Sorted` is
`sort_resume_candidates`, the enumeration of the candidates in the order of
their keys; `RemainingBudget` is the budget after each turn of the loop, and
`Fitting` what the loop puts on its list before it ends or is left
(`StopsAtMisfit`). Sizes are amounts left, `Unknown` where there is none.
`ResumePolicies` takes one such decision from any input and states what the
documentation says of it without a sort and without a loop: what a candidate has
to fit together with.

### The polling loop: `ModeEngine`

`engPc` names the next API call of `tick`; the tick's locals are variables
(`engMode`, `engFree`, `snap`, `engPaused`, `engSoft`) and `prevMode` is
`_previous_mode`. One action per call: its effect, the reaction to its answer,
the local computation up to the next call. `StartTick` is `measure`,
`classify_mode` and the choice of the early exit; `ProbePausedTag` and
`ProbeSoftTag` the two queries of the early exit; `TakeSnapshot` is
`torrents_info`; `CleanupForced`, `CleanupCompleted`, `RevokeSoft`, `HealPaused`,
`GrantSoft` the five tag cleanups and grants; `ResumePlanned`/`UntagResumed` and
`PauseDownloads`/`MarkPaused` the two pairs. `Finish` is a tick that reaches its
last line and sets `_previous_mode`; `Abandon` is an early return or an
exception, which leaves it alone.

### The on-add handler: `OnAddHandler`

`hooks` are callbacks on their way; `DropHook` stands for every refusal
(401, 400, a failed probe). `Handle` is one step because nothing awaits between
the measurement and the queue. The worker's awaits are `WakeUp`, `Poll`,
`WorkerPause`, `WorkerMark`; `EndRound` is the attempt accounting and the end
of the worker. The mode stored with a queued hash is only logged and left out.

### The service: `DiskGuard`

The conjunction of both tasks over one world. `Restart`: the process ends
between any two steps and the constructors run again. `BeginStop`, `OrphanEnds`,
`EndStop` are `DiskGuardService.stop`: the polling task is cancelled wherever it
is, the call it waits for goes on in its thread (`orphan`) and reaches the server
at any later time or not at all, while the worker, which is waited for, goes on
too; then a new process begins.

### The disk: `DiskBudget`

In the other modules free space moves as it likes. Here a unit that is
downloaded is taken from it, other programs write and delete, and the user adds,
stops, starts and forces torrents. `drift` counts what the running tick cannot
know of: units written between its measurement and its snapshot, units that
others or forced torrents write later, and what is started behind its back.

### The ledger: `TagLedger`

Per torrent `free`, `stopping` (stopped by DiskGuard, the tag call comes next),
`held` (stopped by DiskGuard, which knows it by the tag) or `lost` (stopped by
DiskGuard, and nothing says so).

| from | at any time to | and in an incident to |
|---|---|---|
| `free` | `stopping`, `held` | `lost` |
| `stopping` | `held`, `free` | `lost` |
| `held` | `free` | |
| `lost` | `stopping`, `held`, `free` | |

An incident is a failed call, the end of a process, or what a call left in its
thread comes to. The promise is the empty field: a tagged torrent is never lost,
whatever fails. The invariants of the same runs (`StrandedOnlyByCut`,
`StoppedIsMarked`, `TasksAgree`) do not say that: they look away from a torrent
once a failed call put it into `cut`. A tag call that is rolled back when it
fails would satisfy all three and break the ledger. Each implementation reads
`ledger` off intents, tags, history and program counters, and `incidents` off its
counters of faults and restarts.

### The process: `Config`, `StartupPreflight`, `Process`

`Config` reduces a document and an environment to functions from settings to raw
values; a value is what it spells (a number, a truth value, blank text, `nan`,
the name of a policy), a number, and whether it is a string. `LoadResult` is
`load_config` with the exception it ends in; the order of overrides, conversions
and checks is kept where it decides which exception that is.
`TemplateUpTo` and `TemplateCutAfter` are what a write of the default file leaves
when it is cut between or within two settings.

`StartupPreflight` has one action per call of an attempt and one for the sleep;
`server` is how qBittorrent answers at that moment and may change at any time.
`detected` is what the first call returned; it is kept until the second has come,
and both are checked then, so a server that was too old at the first call is
refused however it answers the second. `verified` is history: per call, the
attempt of its latest supported answer.
`Process` goes through `phase`: `starting` (directory), `creating` (template),
`loading`, `preflight`, `up`, `stopping` (polling task cancelled), `draining`
(the application's shutdown hook), `closing`, `drainingAgain` (the second wait),
`leaving` (log out), `joining` (`asyncio.run` waits for threads), `off`. Each of
the two waits is for the worker it finds when it begins (`awaited`); one that a
request starts later is not waited for by the first, which is what the second is
there for. `exit` is how it ended: an exit code, a
traceback, a signal. `session` is what the server holds, `late` the threads
nobody waits for. The tasks only make calls here.

### Mutants

The operators whose comment begins with "Mutant:" are wrong versions of the
definition that follows them, each with a bug somebody could write. Nothing
uses them; each shows that one property fails when the code has that bug
(`PROJECT.json`, "mutants").

## The runs

In the state machines capacity is 100 units; HARD is below 5, SOFT below 10, the
floor is 15 and the buffer 1. Free levels: 4 HARD, 8 SOFT, 17 NORMAL with a
budget of one unit, 40 NORMAL with room for everything. `MaxLeft` is 1 (a torrent
is unfinished or not), 3 in the planner run and 2 in `engine_pair`, where sizes
matter; `engine_pair` has capacity 20, floor 3, buffer 1 and the levels 4 to 7,
all NORMAL with budgets of 0 to 3 units.

| run | instance | shows |
|---|---|---|
| `engine_single` | one hash, all moves but recheck (2), 1 fault | types; stopped implies tagged; the loop implements the ledger; SOFT spares what it granted, on entering and later, whatever fails later; HARD quiets, NORMAL cleans, ample space resumes, forcing loses the tag |
| `engine_pair` | two hashes on a disk that fills, add/stop/start/force (1), drift 2 | whatever is started fits above floor and buffer, short by no more than `drift`; only tagged torrents are started |
| `onadd` | two hashes, queue 1, adds/removes/starts/hooks (2), 1 fault | types, backlog limit, no lost wake-up, dedupe, stopped implies tagged; the worker implements the ledger; the queue drains, queued downloads are stopped |
| `guard_low` | one hash, SOFT and HARD only, adds/stops/starts/rechecks (2), 1 fault, 1 crash or stop | the two tasks agree and implement the ledger; a graceful stop strands nothing; a grant outlives the process that made it |
| `guard_live` | one hash, HARD and NORMAL, adds/starts/forces (2), 1 fault, 1 crash or stop | what the whole service achieves despite lost callbacks and restarts; a stop ends |
| `planner` | three torrents, tagged in any way, seven levels, all resume sections | the loop computes the documented policies; a plan fits above the floor; `smallest_first` starts the most |
| `lifecycle` | eleven set-ups (missing file, edited files, read-only directory), 2 attempts, 1 mishap | an interrupted first start is harmless, what is accepted fits the models, only a server that answered both calls of one attempt is served, stop waits and releases the session, starts and stops end, the service comes up |

The numbers in parentheses bound the user's moves; a mishap is a kill, an
interrupt, a failed write or an occupied port. Why these bounds: the
properties about one torrent speak of one torrent at a time, and all of
DiskGuard's calls are batches that treat hashes alike, so one hash shows the
interleavings; a second one matters where hashes compete, for the budget and
for the queue. Most hazards need one move of the user between two calls of
DiskGuard; a second allows it to be undone. One failed call reaches each error
path. Two attempts show a retry, its thread that stays behind and the last
attempt; one mishap interrupts each phase of a process, with processes before
and after it. The template is cut at every setting, whatever the bounds. The
safety properties that are proved hold without any of these bounds.

`StartsOnlyTagged` is checked without removals: a hash that is removed and
added again, stopped, between snapshot and start is started without a tag,
which the code cannot see. `TasksAgree` and `ServiceKeepsLedger` leave NORMAL
out: there `TagsTellEverything` is refuted. They leave forced starts and removals
out too: the tag of a torrent seen forced is taken off by an old snapshot, after
the worker may have stopped it. `StrandedOnlyByCut` leaves the recheck out: with
it `HealNeverStrands` is refuted. `StartsKeepFloor` is checked without failed
calls: after a failed self-heal, torrents that run with the tag are not
projected and starts may not fit.

`AmpleEventuallyResumed` excepts a torrent that is removed and added again as a
magnet link between snapshot and stop: it is stopped and tagged without a known
size, and the planner starts nothing without one.

### Refuted claims

Five runs expect a violation. Each checks a sentence of the documentation or a
comment of the code, quoted in `PROJECT.json` under "findings".

| run | claim | what happens |
|---|---|---|
| `engine_recheck` | self-heal leaves no torrent blocked | a stopped torrent under a recheck loses its tag |
| `guard_restart` | safe across restarts | process ends between stop and tag |
| `guard_race` | tags tell the whole state | the worker re-stops and re-tags between start and untag; the untag takes the new tag |
| `guard_adopt` | resumes only what it paused | the worker tags torrents the user added stopped (a test of the repository expects the worker to stop any queued torrent of known size) |
| `config_compose` | set both secrets in the file | the compose file of the documentation sets an empty token, which replaces the one in the file |

More divergences are visible in the models and have no run of their own.

* A torrent forced between snapshot and stop is stopped and tagged, until the
  next tick takes the tag off (`ForcedLosesTag`). One that completes in that
  window is stopped while it seeds. A torrent that waits in the on-add queue when
  SOFT is entered is granted `soft_allowed` and then stopped by the worker.
* Forced downloads are not projected, so starts may let free space drop below the
  floor by what they write (`StartsKeepFloor` says by how much).
* A TOML `inf` for an integer setting, and a file that cannot be read or is no
  UTF-8, end the process with a traceback; `main` documents exit code 2. `nan`
  and `inf` are accepted for the safety buffer, and the planner then raises.
* A first start that is cut within a number leaves a file with a smaller number,
  which later starts accept (`InterruptedBootstrapIsHarmless` excepts it).
* A start that fails at the port, or is interrupted, leaves its session at the
  server, and so does a thread that logs in after the log out.

## Fairness

`FairSpec` assumes weak fairness of `EngineStep` alone: `run_forever` catches
every exception and sleeps with a timeout, each call runs in a thread against a
client with connect and read timeouts, so the polling task always gets on.
`OnAddFairSpec` assumes it of the worker task, for the same reason, and that a
callback on its way is handled or dropped. `ServiceFairSpec` assumes it of both
tasks and not of callbacks, which may get lost; and that a call left in its
thread ends (timeouts) and that `stop` goes on once what it waits for is over.
`ProcessFairSpec` assumes that the process goes on through its phases, that the
worker ends (`QueueDrains` of `OnAddHandler`), that threads end (timeouts), and
that a process is launched when there is none (`restart: unless-stopped` in the
repository's compose file); requests need no fairness, closing the listener cuts
them off. Nothing is assumed of the user, of progress, of the disk, of the
server, of signals or of mishaps. Hypotheses such as "the disk stays in
HARD" are part of the property.

## What is proved

All theorems hold for every value of the constants allowed by the named
assumptions: any finite set of torrents, any sizes, levels, thresholds, policy,
files and environments, any number of moves, faults, restarts, attempts and
mishaps. The assumptions say what the constants are (`WorldAssumption`,
`OnAddAssumption`, `RestartAssumption`, `PreflightAssumption`,
`MishapAssumption`, `DriftAssumption`, `StatesAssumption`, `InputAssumption` of
the planner's inputs), what `_validate` guarantees of the thresholds
(`ConfigAssumption`), that the policy is one of the three (`PlannerAssumption`),
that priorities and ages are integers and that two hashes never compare equal
(`OrderAssumption`), and that the numbers of raw settings are whole
(`InputsAssumption`: halves are counted). TLC evaluates them on every run. Where
a theorem needs more of the world (no recheck, no removal), the hypothesis is
part of its statement.

* `QBittorrentProofs`: each call and each step of the world keeps the types;
  `WorldNeverHolds`: neither user nor qBittorrent makes a torrent one that
  DiskGuard holds, nor takes a tag or the history mark off one.
* `TypeCorrect`: `Spec => []TypeOK`.
* `NoTorrentLost`: without rechecks, `Spec => []StrandedOnlyByCut`.
  `StrandedOnlyByCut` is not inductive, because three calls of the tick take
  tags off by what the snapshot said long ago. The strengthening `IInv` says
  that snapshot still tells enough about what is held *now*: while a cleanup is
  to come, a tagged torrent DiskGuard holds is one the snapshot saw stopped
  (`HeldAreSeenStopped`), so the cleanups, which touch what it did not see
  stopped, spare it; and between the start and the untag none of the started
  torrents is held (`StartedAreNotHeld`). Both rest on `WorldNeverHolds`: only
  DiskGuard makes a torrent held, and in the polling loop that happens on other
  paths. The on-add worker breaks exactly this, which is `guard_race`; a check
  breaks the link between snapshot and intent, which is `engine_recheck`.
* `EngineImplementsLedger`: without rechecks, `Spec => EngineKeepsLedger`. Each
  call turns entries as `TagLedger` permits (`EngineTurns`), or is an incident
  that loses some which were `free` or `stopping` (`EngineIncident`). `IInv` is
  needed for the calls that take tags off: what they touch is not held.
* `OnlyTaggedAreStarted`: without removals, the planner starts only what carries
  the tag. The strengthening `StartInv` says that until the start every torrent
  the snapshot saw stopped and tagged still is tagged: the clean-ups in between
  take the tag off others.
* `AllowedAreSpared`, `EntrySpares`: the two SOFT properties. `SpareInv` relates
  the tick's lists to the tags at the server. What carries `soft_allowed` is on
  the list, whatever failed: a clean-up that fails leaves more on the list than
  the server has, never less; only a grant that fails does the opposite, and then
  the tick is the one from NORMAL (`SoftTagsKnown`). And on entering SOFT every
  download seen is on the list, as long as no call failed.
* `OnAddTypeCorrect`, `BacklogBounded`, `NoHashForgotten`, `InFlightIsDeduped`,
  `WorkerLosesNothing`: the safety properties of `OnAddHandler`, from one
  inductive invariant `OInv`, their conjunction. `EndRound` is common to three
  actions, so what it keeps is a lemma of its own.
* `WorkerImplementsLedger`: the worker implements `TagLedger`, rechecks included,
  since it takes no tag off.
* `ServiceTypeCorrect`: `ServiceSpec => []ServiceTypeOK`, in all modes.
* `TasksNeverDisagree`, `GracefulStopLosesNothing`, `ServiceImplementsLedger`:
  both tasks together under `OutsideNormal` (no free level is NORMAL; the user
  removes and forces nothing and runs no hook by hand). The inductive invariant
  `SInv` adds to the types and `TasksAgree` that no tick gets to the calls of
  NORMAL (`NeverNormal`), that the call of a cancelled tick and a new tick never
  overlap (`OneTick`), that what the worker knows of is not forced
  (`NotifiedAreNotForced`), and that what is about to lose its tag is neither
  held nor known to the worker (`ToUntagAreFree`). The last two are needed
  because the clean-up of forced torrents acts on an old snapshot: it would take
  the tag off a torrent the worker has stopped meanwhile.
* `AllowedOutliveRestarts`: in all modes, with any user,
  `ServiceSpec => GrantsOutliveRestarts`. `SpareInv` carries over to the service:
  the worker never grants, and a grant left in a thread lands while no tick runs
  (`OneTick`).
* `AlwaysPlanFollowsPolicy`, `AlwaysPlanKeepsFloor`, `AlwaysSmallestStartsMost`:
  the planner against its documentation. The loop and the sums are recursive, and
  induction is done by hand: naturals and the subsets of a finite set are well
  founded, so a claim that fails does so at a least place (`LeastNumber`,
  `LeastSubset`), and the step from below contradicts that (`SetInduction`,
  `NumberInduction`). Thus a sum does not depend on the order in which
  it is taken (`SumTake`, `SumUnion`), and an enumeration in the order of the
  keys exists and names each candidate once (`SortExists`,
  `SortedEnumerates`), which `Sorted` needs because it is a `CHOOSE`.
  `LoopInvariant`: after each turn the budget left is the budget less
  all that was started. So a candidate is started exactly if it fits together
  with what was started before it; when the loop is left at a misfit, that is all
  candidates before it (`FittingIs`). `AlwaysSmallestStartsMost` is an exchange:
  let `m` be a smallest candidate that is not started, and `F` what was started
  before it, with `m`; `F` does not fit. A set with more elements than the plan
  has no fewer than `F`, and what it has instead of a part of `F` is no smaller
  than `m`, while nothing in `F` is larger; so it costs no less and does not fit.
* `AlwaysStartsKeepFloor`: with `"downloading"` among the configured downloading
  states (it is in the default; without it no running download is projected),
  `BudgetSpec => []StartsKeepFloor`. The property speaks of the moment after the
  start and is far from inductive. `BudgetInv` follows the
  measurement through the tick: until the snapshot, it is off by no more than
  `drift` (`MeasurementHolds`); from then on, what is committed and what is free
  differ from the snapshot and the measurement by no more than `drift`, and no torrent has
  more left than the snapshot says (`SnapshotHolds`); and when the planner
  decides, no torrent that ran is believed tagged, unless a call failed
  (`Healed`), so what ran at the snapshot is what the planner projects. A download
  moves a unit from what is committed to what is used, which leaves the sum
  alone (`OneShareChanges`). The start adds at most what the plan costs, and
  `PlannedFits` bounds that.
* `OnlyTaggedAreStartedOnBudget`: `StartInv` also survives downloads and a disk
  that others fill.
* `InterruptionIsHarmless`, `ConfigFitsTheModels`: what the configuration comes to,
  for any set of files and environments. `FileInv` says that after an interrupted
  write the file is what the write left until the operator changes it, and that a
  process past loading has accepted its file. The rest is about functions: the
  settings of the template that a cut lost come from the defaults, which are the
  same (`DefaultsAreTemplate`), unless the setting is required, and then the file
  is refused (`CutIsHarmless`); conversions yield numbers (`ConvertedIs`), so the
  checks of `_validate` mean what the other modules assume (`AcceptedFits`).
* `ProcessTypeCorrect`, `ServesOnlyVerified`, `StopIsGraceful`, `NoSessionLeft`:
  the safety of `Process`, from `PInv`. It bounds the threads left behind by the
  attempts made (`ThreadsCounted`), ties `detected` and what passed to the attempt in
  which each of the two calls got a supported answer (`CheckedIsVerified`), says in which phases requests and workers exist
  (`Quiet`) and that after a clean log out nothing logs in again (`LoggedOut`).

Every invariant that a run checks, and every action property, is the statement
of a theorem. `StrandedOnlyByCut` and `EngineKeepsLedger` are proved without
rechecks, `TasksAgree`, `StopSparesTheWorker` and `ServiceKeepsLedger` outside
NORMAL, as they are checked.

Only model-checked: all liveness, which needs fairness and `ENABLED`, out of the
prover's reach (`HardEventuallyQuiet`, `NormalEventuallyClean`,
`AmpleEventuallyResumed`, `ForcedLosesTag`, `QueueDrains`,
`QueuedDownloadIsStopped`, `HardQuietDespiteRestarts`,
`NormalCleanDespiteRestarts`, `StopDrains`, `EveryStartEnds`, `StopEnds`,
`EventuallyUp`). The refuted claims are counterexamples and need no proof.

## Not modelled

Authentication and parsing of a request (they only decide refusals), the
spelling of hashes, the warning rate limiter and all logging with its redaction,
the planner's decision trace (only logged), the path of the configuration file
and the warning about mounts, rounding of percentages (both sides are multiplied
out), sub-second timing. Thresholds are multiples of a half in `Config` and whole
numbers in the state machines. The configuration file does not appear between
`exists` and `write_text`; a signal during the log out of a failed start is left
out. Two managed tags that are equal are excluded by `_validate`. The user does
not edit DiskGuard's tags by hand.

## Plan

Done: every component of the inventory that keeps state has a module, a run and,
where the prover reaches, theorems.

Left, in this order:

1. NORMAL in `DiskGuardProofs`: with the worker idle, `IInv` should carry over to
   the service; with the worker active `guard_race` shows that it cannot.
2. A refinement between `Process` and `DiskGuard` over a stop, with the on-add
   worker of both.
3. `StartsKeepFloor` after a failed self-heal, with the overshoot counted in
   `drift`.
