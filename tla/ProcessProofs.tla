--------------------------- MODULE ProcessProofs ---------------------------
(***************************************************************************)
(* Theorems about Process: types with the bound on threads, that only a    *)
(* verified server is served, and what a graceful stop leaves behind.      *)
(***************************************************************************)
EXTENDS Process, TLAPS

-----------------------------------------------------------------------------
(* The inductive invariant *)

Early == {"off", "starting", "creating", "loading"}

Checked == phase = "up" \/ (phase = "preflight" /\ probe = "passed")

(* At most one thread is left behind by each attempt that is over. *)
ThreadsCounted ==
  /\ phase \in Early => late = 0
  /\ phase = "preflight" => probe # "none"
  /\ phase = "preflight" /\ probe \in {"version", "webapi"} => late < attempt
  /\ phase = "preflight" /\ probe = "backoff" =>
       late <= attempt /\ attempt < MaxPreflight
  /\ Checked => late < attempt

(* The first answer is kept until the second has come. *)
CheckedIsVerified ==
  /\ phase = "preflight" /\ probe = "webapi" /\ detected = "supported" =>
       verified.version = attempt
  /\ Checked => verified.version = attempt /\ verified.webapi = attempt

(* Requests and workers exist only between the start of the listener and   *)
(* the second wait of stop, which knows of every worker there is.          *)
Quiet ==
  /\ phase \in Early \cup {"preflight", "drainingAgain", "leaving", "joining"}
       => ~request
  /\ phase = "drainingAgain" /\ working => awaited
  /\ phase \in Early \cup {"preflight", "leaving", "joining"} => ~working

(* After a log out that went well nothing is left that could log in. *)
LoggedOut ==
  /\ phase \notin {"joining", "off"} => exit = "none"
  /\ phase = "joining" => exit # "none"
  /\ exit \in {"1", "stopped"} =>
       farewell \in {"refused", "late"} \/ (late = 0 /\ session = FALSE)

PInv ==
  ProcessTypeOK /\ ThreadsCounted /\ CheckedIsVerified /\ Quiet /\ LoggedOut

-----------------------------------------------------------------------------
(* Lemmas *)

LEMMA DocumentsType ==
  /\ Template \in Documents
  /\ \A i \in 0..Len(TemplateOrder) : Remains(i) \subseteq Documents
  /\ \A i \in Inputs : i.file \in Documents
BY DEF Documents

(* A process that is gone leaves nothing but what it did at the server. *)
LEMMA GoneKeepsInv ==
  ASSUME PInv,
         NEW how \in {"stopped", "interrupted", "killed", "1", "2",
                      "traceback"},
         how \in {"1", "stopped"} => exit = how,
         GoneWith(how), UNCHANGED <<server, session, farewell>>,
         file' \in Documents, env' \in {i.env : i \in Inputs},
         writable' \in BOOLEAN, mishaps' \in 0..MaxMishaps,
         kept' \in -1..Len(TemplateOrder)
  PROVE  PInv'
<1> USE PreflightAssumption DEF PInv, GoneWith
<1>1. ProcessTypeOK'
  <2>1. PreflightTypeOK'
    BY DEF ProcessTypeOK, PreflightTypeOK, Unverified
  <2>2. late' <= MaxPreflight
    OBVIOUS
  <2>3. /\ phase' \in Running \cup {"off"}
        /\ exit' \in {"none", "stopped", "interrupted", "killed", "1", "2",
                     "traceback"}
        /\ request' \in BOOLEAN /\ working' \in BOOLEAN
        /\ awaited' \in BOOLEAN
        /\ farewell' \in {"none", "refused", "late", "clean"}
    BY DEF ProcessTypeOK
  <2>4. QED
    BY <2>1, <2>2, <2>3 DEF ProcessTypeOK
<1>2. ThreadsCounted' /\ CheckedIsVerified' /\ Quiet'
  BY DEF ThreadsCounted, CheckedIsVerified, Quiet, Checked, Early
<1>3. LoggedOut'
  BY DEF LoggedOut
<1>4. QED
  BY <1>1, <1>2, <1>3

LEMMA PreflightKeepsInv ==
  ASSUME PInv, Preflight
  PROVE  PInv'
<1> USE PreflightAssumption DEF PInv, Preflight, PreflightStep, inputVars,
          httpVars, serverVars, attemptVars, Retry, GiveUp, Verify,
          CallFails, FetchVersion, FetchWebApi,
          Backoff, Answers, Retryable
<1>1. ProcessTypeOK' /\ ThreadsCounted'
  <2>1. late \in Nat /\ attempt \in 0..MaxPreflight /\ MaxPreflight \in Nat
    BY DEF ProcessTypeOK, PreflightTypeOK
  <2>2. late' <= attempt' /\ late' \in Nat /\ attempt' \in 0..MaxPreflight
    BY <2>1 DEF ThreadsCounted
  <2>3. PreflightTypeOK'
    BY <2>1, <2>2 DEF ProcessTypeOK, PreflightTypeOK
  <2>4. late' <= MaxPreflight
    BY <2>1, <2>2
  <2>5. ProcessTypeOK'
    BY <2>3, <2>4 DEF ProcessTypeOK
  <2>6. ThreadsCounted'
    BY <2>1 DEF ThreadsCounted, Checked, Early
  <2>7. QED
    BY <2>5, <2>6
<1>2. CheckedIsVerified'
  BY DEF CheckedIsVerified, Checked, ThreadsCounted, ProcessTypeOK,
         PreflightTypeOK
<1>3. Quiet' /\ LoggedOut'
  BY DEF Quiet, LoggedOut, Early
<1>4. QED
  BY <1>1, <1>2, <1>3

-----------------------------------------------------------------------------
LEMMA PreflightInitType ==
  ASSUME PreflightInit
  PROVE  PreflightTypeOK
<1>1. /\ server \in Server /\ session = FALSE /\ late = 0
      /\ probe = "none" /\ detected = "none" /\ attempt = 0
      /\ verified = Unverified
  BY DEF PreflightInit
<1>2. 0 \in 0..MaxPreflight
  BY PreflightAssumption
<1>3. QED
  BY <1>1, <1>2 DEF PreflightTypeOK, Unverified

LEMMA InitInv == ProcessInit => PInv
<1> SUFFICES ASSUME ProcessInit PROVE PInv
  OBVIOUS
<1> USE PreflightAssumption, MishapAssumption, InputsAssumption
    DEF ProcessInit, PreflightInit
<1>1. file \in Documents /\ env \in {i.env : i \in Inputs}
       /\ writable \in BOOLEAN
  BY DocumentsType
<1>2. -1 \in -1..Len(TemplateOrder)
  BY DEF TemplateOrder
<1>3. PreflightTypeOK
  BY PreflightInitType
<1>4. late <= MaxPreflight /\ mishaps \in 0..MaxMishaps
  OBVIOUS
<1>5. ProcessTypeOK
  BY <1>1, <1>2, <1>3, <1>4 DEF ProcessTypeOK
<1>6. ThreadsCounted /\ CheckedIsVerified /\ Quiet /\ LoggedOut
  BY DEF ThreadsCounted, CheckedIsVerified, Quiet, LoggedOut, Checked, Early
<1>7. QED
  BY <1>5, <1>6 DEF PInv

LEMMA SetUpKeepsInv ==
  ASSUME PInv,
         Configure \/ Launch \/ CheckDirectory \/ WriteTemplate \/ Load
  PROVE  PInv'
<1>1. CASE Configure
  <2>1. /\ file' \in Documents /\ env' \in {i.env : i \in Inputs}
        /\ writable' \in BOOLEAN
    BY <1>1, DocumentsType, InputsAssumption DEF Configure
  <2>2. kept' \in -1..Len(TemplateOrder)
    BY <1>1 DEF Configure, TemplateOrder
  <2>3. PreflightTypeOK'
    BY <1>1 DEF Configure, PInv, ProcessTypeOK, PreflightTypeOK,
                preflightVars, serverVars, attemptVars
  <2>4. ProcessTypeOK'
    BY <1>1, <2>1, <2>2, <2>3
    DEF Configure, PInv, ProcessTypeOK, httpVars, preflightVars
  <2>5. (ThreadsCounted /\ CheckedIsVerified /\ Quiet /\ LoggedOut)'
    BY <1>1 DEF Configure, PInv, ThreadsCounted, CheckedIsVerified, Quiet,
                LoggedOut, Checked, Early, httpVars, preflightVars,
                serverVars, attemptVars
  <2>6. QED
    BY <2>4, <2>5 DEF PInv
<1>2. CASE Launch
  <2>1. ProcessTypeOK'
    BY <1>2 DEF Launch, PInv, ProcessTypeOK, PreflightTypeOK, Running,
                inputVars, httpVars, preflightVars, serverVars, attemptVars
  <2>2. (ThreadsCounted /\ CheckedIsVerified /\ Quiet /\ LoggedOut)'
    BY <1>2 DEF Launch, PInv, ThreadsCounted, CheckedIsVerified, Quiet,
                LoggedOut, Checked, Early, httpVars, preflightVars,
                serverVars, attemptVars
  <2>3. QED
    BY <2>1, <2>2 DEF PInv
<1>3. CASE CheckDirectory
  <2>1. CASE writable
    <3>1. ProcessTypeOK'
      BY <1>3, <2>1 DEF CheckDirectory, PInv, ProcessTypeOK, PreflightTypeOK,
         Running, inputVars, httpVars, preflightVars, serverVars, attemptVars
    <3>2. (ThreadsCounted /\ CheckedIsVerified /\ Quiet /\ LoggedOut)'
      BY <1>3, <2>1 DEF CheckDirectory, PInv, ThreadsCounted,
         CheckedIsVerified, Quiet, LoggedOut, Checked, Early, httpVars,
         preflightVars, serverVars, attemptVars
    <3>3. QED
      BY <3>1, <3>2 DEF PInv
  <2>2. CASE ~writable
    BY <1>3, <2>2, GoneKeepsInv
    DEF CheckDirectory, PInv, ProcessTypeOK, serverVars, attemptVars, inputVars
  <2>3. QED
    BY <2>1, <2>2
<1>4. CASE WriteTemplate
  <2>1. CASE file' = Template /\ phase' = "loading"
               /\ UNCHANGED <<exit, kept, httpVars, mishaps, preflightVars>>
    <3>1. ProcessTypeOK'
      BY <1>4, <2>1, DocumentsType DEF WriteTemplate, PInv, ProcessTypeOK,
         PreflightTypeOK, Running, httpVars, preflightVars, serverVars,
         attemptVars
    <3>2. (ThreadsCounted /\ CheckedIsVerified /\ Quiet /\ LoggedOut)'
      BY <1>4, <2>1 DEF WriteTemplate, PInv, ThreadsCounted,
         CheckedIsVerified, Quiet, LoggedOut, Checked, Early, httpVars,
         preflightVars, serverVars, attemptVars
    <3>3. QED
      BY <3>1, <3>2 DEF PInv
  <2>2. ASSUME NEW how \in {"2", "killed"}, GoneWith(how), Mishap,
               UNCHANGED serverVars
        PROVE  PInv'
    <3>1. file' \in Documents /\ kept' \in -1..Len(TemplateOrder)
      <4>1. CASE UNCHANGED <<file, kept>>
        BY <4>1 DEF PInv, ProcessTypeOK
      <4>2. ASSUME NEW i \in 0..Len(TemplateOrder), file' \in Remains(i),
                   kept' = i
            PROVE  file' \in Documents /\ kept' \in -1..Len(TemplateOrder)
        BY <4>2, DocumentsType DEF TemplateOrder
      <4>3. QED
        BY <1>4, <2>2, <4>1, <4>2 DEF WriteTemplate, GoneWith
    <3>2. mishaps' \in 0..MaxMishaps
      BY <2>2, MishapAssumption DEF Mishap, PInv, ProcessTypeOK
    <3>3. QED
      BY <1>4, <2>2, <3>1, <3>2, GoneKeepsInv
      DEF WriteTemplate, PInv, ProcessTypeOK, serverVars, attemptVars
  <2>3. QED
    BY <1>4, <2>1, <2>2 DEF WriteTemplate
<1>5. CASE Load
  <2>1. CASE LoadResult(file, env) = "accepted"
    <3>1. ProcessTypeOK'
      BY <1>5, <2>1, PreflightAssumption DEF Load, BeginPreflight, PInv,
         Unverified, ThreadsCounted, Early, ProcessTypeOK, PreflightTypeOK,
         Running,
         inputVars, httpVars, serverVars, attemptVars
    <3>2. (ThreadsCounted /\ CheckedIsVerified /\ Quiet /\ LoggedOut)'
      BY <1>5, <2>1 DEF Load, BeginPreflight, PInv, ThreadsCounted,
         CheckedIsVerified, Quiet, LoggedOut, Checked, Early, httpVars,
         serverVars, attemptVars
    <3>3. QED
      BY <3>1, <3>2 DEF PInv
  <2>2. CASE LoadResult(file, env) # "accepted"
    <3>1. \E how \in {"2", "traceback"} : GoneWith(how)
      BY <1>5, <2>2 DEF Load
    <3>2. QED
      BY <1>5, <2>2, <3>1, GoneKeepsInv
      DEF Load, PInv, ProcessTypeOK, serverVars, attemptVars, inputVars
  <2>3. QED
    BY <2>1, <2>2
<1>6. QED
  BY <1>1, <1>2, <1>3, <1>4, <1>5

LEMMA SurroundingsThreads ==
  ASSUME late \in Nat, ServerChanges \/ LateCallEnds
  PROVE  late' \in Nat /\ late' <= late
<1>1. CASE ServerChanges
  <2>1. late' = late
    BY <1>1 DEF ServerChanges
  <2>2. QED
    BY <2>1
<1>2. CASE LateCallEnds
  <2>1. late > 0 /\ late' = late - 1
    BY <1>2 DEF LateCallEnds
  <2>2. QED
    BY <2>1
<1>3. QED
  BY <1>1, <1>2

LEMMA SurroundingsSession ==
  ASSUME late \in Nat, session \in BOOLEAN, ServerChanges \/ LateCallEnds
  PROVE  /\ session' \in BOOLEAN
         /\ late = 0 /\ session = FALSE => session' = FALSE
<1>1. CASE ServerChanges
  BY <1>1 DEF ServerChanges
<1>2. CASE LateCallEnds
  <2>1. late # 0
    BY <1>2 DEF LateCallEnds
  <2>2. session' \in BOOLEAN
    BY <1>2 DEF LateCallEnds
  <2>3. QED
    BY <2>1, <2>2
<1>3. QED
  BY <1>1, <1>2

(* Start of the service, requests and tasks, stop, and the surroundings *)
LEMMA ServiceKeepsInv ==
  ASSUME PInv,
         \/ FailStart \/ Bind \/ RequestArrives \/ RequestEnds \/ WorkerEnds
         \/ TaskCalls \/ Stop \/ Drain \/ Drained \/ Close \/ DrainAgain
         \/ Leave
         \/ Interrupt \/ Surroundings
  PROVE  PInv'
<1> USE PreflightAssumption, MishapAssumption
    DEF inputVars, httpVars, preflightVars, serverVars, attemptVars
<1>1. /\ late \in Nat /\ attempt \in 0..MaxPreflight /\ MaxPreflight \in Nat
      /\ session \in BOOLEAN /\ request \in BOOLEAN /\ working \in BOOLEAN
      /\ awaited \in BOOLEAN
  BY DEF PInv, ProcessTypeOK, PreflightTypeOK
<1>2. CASE FailStart \/ Leave
  <2>1. ProcessTypeOK'
    BY <1>2 DEF FailStart, Leave, LogOut, PInv, ProcessTypeOK,
                PreflightTypeOK, Running
  <2>2. (ThreadsCounted /\ CheckedIsVerified)'
    BY <1>2 DEF FailStart, Leave, PInv, ThreadsCounted, CheckedIsVerified,
                Checked, Early
  <2>3. (Quiet /\ LoggedOut)'
    BY <1>2, <1>1 DEF FailStart, Leave, LogOut, PInv, Quiet, LoggedOut, Early
  <2>4. QED
    BY <2>1, <2>2, <2>3 DEF PInv
<1>3. CASE Bind
  <2>1. ProcessTypeOK'
    BY <1>3 DEF Bind, Mishap, PInv, ProcessTypeOK, PreflightTypeOK, Running
  <2>2. (ThreadsCounted /\ CheckedIsVerified /\ Quiet /\ LoggedOut)'
    BY <1>3 DEF Bind, PInv, ThreadsCounted, CheckedIsVerified, Quiet,
                LoggedOut, Checked, Early
  <2>3. QED
    BY <2>1, <2>2 DEF PInv
<1>4. CASE RequestArrives \/ RequestEnds \/ WorkerEnds
  <2>1. request' \in BOOLEAN /\ working' \in BOOLEAN /\ awaited' \in BOOLEAN
    BY <1>1, <1>4 DEF RequestArrives, RequestEnds, WorkerEnds
  <2>2. UNCHANGED <<phase, exit, file, env, writable, kept, mishaps,
                    farewell, server, session, late, probe, detected, attempt,
                    verified>>
    BY <1>4 DEF RequestArrives, RequestEnds, WorkerEnds
  <2>3. ProcessTypeOK'
    BY <2>1, <2>2 DEF PInv, ProcessTypeOK, PreflightTypeOK
  <2>4. (ThreadsCounted /\ CheckedIsVerified /\ LoggedOut)'
    BY <2>2 DEF PInv, ThreadsCounted, CheckedIsVerified, LoggedOut, Checked
  <2>5. Quiet'
    <3>1. CASE RequestArrives
      BY <3>1 DEF RequestArrives, PInv, Quiet, Early
    <3>2. CASE RequestEnds
      BY <1>1, <3>2 DEF RequestEnds, PInv, Quiet, Early
    <3>3. CASE WorkerEnds
      BY <3>3 DEF WorkerEnds, PInv, Quiet
    <3>4. QED
      BY <1>4, <3>1, <3>2, <3>3
  <2>6. QED
    BY <2>3, <2>4, <2>5 DEF PInv
<1>5. CASE TaskCalls
  <2>1. ProcessTypeOK'
    BY <1>5 DEF TaskCalls, PInv, ProcessTypeOK, PreflightTypeOK
  <2>2. (ThreadsCounted /\ CheckedIsVerified /\ Quiet)'
    BY <1>5 DEF TaskCalls, PInv, ThreadsCounted, CheckedIsVerified, Quiet,
                Checked, Early
  <2>3. phase \notin {"joining", "off"}
    BY <1>5 DEF TaskCalls, PInv, Quiet, Early
  <2>4. LoggedOut'
    BY <1>5, <2>3 DEF TaskCalls, PInv, LoggedOut
  <2>5. QED
    BY <2>1, <2>2, <2>4 DEF PInv
<1>6. CASE Stop \/ Interrupt
  <2>1. late' \in Nat /\ late' <= MaxPreflight
    <3>1. CASE phase = "up" \/ probe = "passed"
      BY <1>1, <1>6, <3>1
      DEF Stop, Interrupt, PInv, ThreadsCounted, Checked
    <3>2. CASE phase = "preflight" /\ probe # "passed"
      BY <1>1, <1>6, <3>2 DEF Stop, Interrupt, PInv, ThreadsCounted,
         ProcessTypeOK, PreflightTypeOK
    <3>3. QED
      BY <1>6, <3>1, <3>2 DEF Stop, Interrupt
  <2>2. ProcessTypeOK'
    BY <1>6, <2>1 DEF Stop, Interrupt, Mishap, PInv, ProcessTypeOK,
                      PreflightTypeOK, Running
  <2>3. (ThreadsCounted /\ CheckedIsVerified /\ Quiet /\ LoggedOut)'
    BY <1>6 DEF Stop, Interrupt, PInv, ThreadsCounted, CheckedIsVerified,
                Quiet, LoggedOut, Checked, Early
  <2>4. QED
    BY <2>2, <2>3 DEF PInv
<1>7. CASE Drain \/ Drained \/ Close \/ DrainAgain
  <2>1. ProcessTypeOK'
    <3>1. request' \in BOOLEAN /\ awaited' \in BOOLEAN /\ phase' \in Running
      BY <1>1, <1>7 DEF Drain, Drained, Close, DrainAgain, Running
    <3>2. UNCHANGED <<exit, file, env, writable, kept, working, mishaps,
                      farewell, server, session, late, probe, detected, attempt,
                      verified>>
      BY <1>7 DEF Drain, Drained, Close, DrainAgain
    <3>3. QED
      BY <3>1, <3>2 DEF PInv, ProcessTypeOK, PreflightTypeOK
  <2>2. (ThreadsCounted /\ CheckedIsVerified)'
    BY <1>7 DEF Drain, Drained, Close, DrainAgain, PInv, ThreadsCounted,
                CheckedIsVerified, Checked, Early
  <2>3. (Quiet /\ LoggedOut)'
    BY <1>7 DEF Drain, Drained, Close, DrainAgain, PInv, Quiet, LoggedOut, Early
  <2>4. QED
    BY <2>1, <2>2, <2>3 DEF PInv
<1>8. CASE Surroundings
  <2>1. /\ late' \in Nat /\ late' <= late
        /\ session' \in BOOLEAN
        /\ late = 0 /\ session = FALSE => session' = FALSE
    BY <1>1, <1>8, SurroundingsThreads, SurroundingsSession DEF Surroundings
  <2>2. UNCHANGED <<phase, exit, file, env, writable, kept, request, working,
                    awaited, mishaps, farewell, probe, detected, attempt,
                    verified>>
    BY <1>8 DEF Surroundings, ServerChanges, LateCallEnds
  <2>3. ProcessTypeOK'
    <3>1. server' \in Server
      BY <1>8 DEF Surroundings, ServerChanges, LateCallEnds, PInv,
                  ProcessTypeOK, PreflightTypeOK
    <3>2. late' <= MaxPreflight
      BY <1>1, <2>1 DEF PInv, ProcessTypeOK
    <3>3. QED
      BY <2>1, <2>2, <3>1, <3>2 DEF PInv, ProcessTypeOK, PreflightTypeOK
  <2>4. ThreadsCounted'
    BY <1>1, <2>1, <2>2 DEF PInv, ThreadsCounted, Checked, Early
  <2>5. CheckedIsVerified' /\ Quiet'
    BY <2>1, <2>2 DEF PInv, CheckedIsVerified, Quiet, Checked, Early
  <2>6. LoggedOut'
    <3>1. late = 0 => late' = 0
      BY <1>1, <2>1
    <3>2. QED
      BY <2>1, <2>2, <3>1 DEF PInv, LoggedOut
  <2>7. QED
    BY <2>3, <2>4, <2>5, <2>6 DEF PInv
<1>9. QED
  BY <1>2, <1>3, <1>4, <1>5, <1>6, <1>7, <1>8

LEMMA NextKeepsInv ==
  ASSUME PInv, [ProcessNext]_processVars
  PROVE  PInv'
<1>1. CASE EndProcess
  <2>1. exit \in {"stopped", "interrupted", "killed", "1", "2", "traceback"}
    BY <1>1 DEF EndProcess, PInv, LoggedOut, ProcessTypeOK
  <2>2. QED
    BY <1>1, <2>1, GoneKeepsInv
    DEF EndProcess, PInv, ProcessTypeOK, inputVars, serverVars, attemptVars
<1>2. CASE Kill
  <2>1. mishaps' \in 0..MaxMishaps
    BY <1>2, MishapAssumption DEF Kill, Mishap, PInv, ProcessTypeOK
  <2>2. QED
    BY <1>2, <2>1, GoneKeepsInv
    DEF Kill, PInv, ProcessTypeOK, inputVars, serverVars, attemptVars
<1>3. CASE UNCHANGED processVars
  BY <1>3 DEF processVars, inputVars, httpVars, preflightVars, serverVars,
       attemptVars,
     PInv, ProcessTypeOK, PreflightTypeOK, ThreadsCounted, CheckedIsVerified,
     Quiet, LoggedOut, Checked
<1>4. QED
  BY <1>1, <1>2, <1>3, SetUpKeepsInv, PreflightKeepsInv, ServiceKeepsInv
  DEF ProcessNext, ProcessStep

LEMMA AlwaysPInv == ProcessSpec => []PInv
BY InitInv, NextKeepsInv, PTL DEF ProcessSpec

-----------------------------------------------------------------------------
(* Every variable keeps its type, and a process never has more threads     *)
(* left behind than it may make attempts (startup.py, service.py), for any *)
(* files, environments, numbers of attempts and mishaps.                   *)
THEOREM ProcessTypeCorrect == ProcessSpec => []ProcessTypeOK
<1>1. PInv => ProcessTypeOK
  BY DEF PInv
<1>2. QED
  BY <1>1, AlwaysPInv, PTL

(* The service runs only after one attempt in which both calls got a       *)
(* supported answer, however the server changes between them               *)
(* (_fetch_detected_versions, _validate_minimum_supported_versions).       *)
THEOREM ServesOnlyVerified == ProcessSpec => []UpOnlyVerified
<1>1. PInv => UpOnlyVerified
  BY DEF PInv, ProcessTypeOK, PreflightTypeOK, ThreadsCounted,
         CheckedIsVerified, Checked, UpOnlyVerified
<1>2. QED
  BY <1>1, AlwaysPInv, PTL

(* A graceful stop logs out when no request and no worker is left          *)
(* (DiskGuardService.stop).                                                *)
THEOREM StopIsGraceful == ProcessSpec => []StopWaitsForTasks
<1>1. PInv => StopWaitsForTasks
  BY DEF PInv, Quiet, Early, StopWaitsForTasks
<1>2. QED
  BY <1>1, AlwaysPInv, PTL

(* A stop and a failed preflight leave no session, unless the log out      *)
(* failed or a thread outlived it.                                         *)
THEOREM NoSessionLeft == ProcessSpec => []SessionReleased
<1>1. PInv => SessionReleased
  BY DEF PInv, LoggedOut, SessionReleased
<1>2. QED
  BY <1>1, AlwaysPInv, PTL

-----------------------------------------------------------------------------
(* Lemmas about Config *)

(* Where load_config gets to the end, every setting was converted. *)
LEMMA AcceptedIs ==
  ASSUME NEW doc, NEW e, LoadResult(doc, e) = "accepted"
  PROVE  /\ doc.shape # "broken"
         /\ \A s \in Setting : ~Failed(Converted(s, doc, e))
         /\ Valid([s \in Setting |-> Converted(s, doc, e)])
<1> DEFINE bad == {i \in 1..Len(BuildOrder) :
                     Failed(Converted(BuildOrder[i], doc, e))}
           first == CHOOSE i \in bad : \A j \in bad : i <= j
<1>1. doc.shape \notin {"unreadable", "broken", "misshapen"}
  BY DEF LoadResult
<1>2. /\ bad = {}
      /\ Valid([s \in Setting |-> Converted(s, doc, e)])
  <2>1. LoadResult(doc, e) =
          IF bad = {}
          THEN IF Valid([s \in Setting |-> Converted(s, doc, e)])
               THEN "accepted" ELSE "ConfigError"
          ELSE IF Converted(BuildOrder[first], doc, e) = OverflowError
               THEN "exception" ELSE "ConfigError"
    BY Zenon DEF LoadResult
  <2> HIDE DEF bad, first
  <2>2. QED
    BY <2>1
<1>3. ASSUME NEW s \in Setting PROVE ~Failed(Converted(s, doc, e))
  <2>1. PICK i \in 1..Len(BuildOrder) : s = BuildOrder[i]
    BY DEF Setting
  <2>2. QED
    BY <1>2, <2>1
<1>4. QED
  BY <1>1, <1>2, <1>3

LEMMA SettingsAre ==
  /\ Percents \subseteq Setting
  /\ Ints \subseteq Setting
  /\ Tags \subseteq Setting
  /\ Required \subseteq Setting
<1>1. /\ BuildOrder[1] = "url" /\ BuildOrder[2] = "username"
      /\ BuildOrder[3] = "password" /\ BuildOrder[8] = "soft_pause_below_pct"
      /\ BuildOrder[9] = "hard_pause_below_pct"
      /\ BuildOrder[10] = "resume_floor_pct"
      /\ BuildOrder[14] = "interval_seconds"
      /\ BuildOrder[16] = "on_add_quick_poll_max_attempts"
      /\ BuildOrder[17] = "on_add_quick_poll_max_queue_size"
      /\ BuildOrder[18] = "paused_tag" /\ BuildOrder[19] = "soft_allowed_tag"
      /\ BuildOrder[22] = "port" /\ BuildOrder[23] = "on_add_auth_token"
      /\ BuildOrder[24] = "on_add_max_body_bytes" /\ Len(BuildOrder) = 24
  BY DEF BuildOrder
<1>2. \A i \in 1..24 : BuildOrder[i] \in Setting
  BY <1>1 DEF Setting
<1>3. QED
  BY <1>1, <1>2 DEF Percents, Ints, Tags, Required, Secrets

Numbers(values) == \A s \in DOMAIN values : values[s].n \in Int

LEMMA TemplateIs ==
  /\ Len(TemplateOrder) = 22
  /\ \A i \in 1..22 : TemplateOrder[i] \in DOMAIN TemplateValues
  /\ Numbers(TemplateValues)
  /\ Numbers(Defaults)
  /\ Setting \ Required \subseteq DOMAIN Defaults
<1>1. /\ Len(TemplateOrder) = 22
      /\ \A i \in 1..22 : TemplateOrder[i] \in DOMAIN TemplateValues
  BY DEF TemplateOrder, TemplateValues
<1>2. Numbers(TemplateValues)
  BY DEF Numbers, TemplateValues, Text, Float, Int_, Bool, Raw
<1>3. Numbers(Defaults)
  BY DEF Numbers, Defaults, DefaultBuffer, Text, Float, Int_, Bool, Raw
<1>4. Setting \ Required \subseteq DOMAIN Defaults
  <2>1. \A i \in 1..Len(BuildOrder) :
          BuildOrder[i] \in DOMAIN Defaults \cup Required
    BY DEF BuildOrder, Defaults, Required, Secrets
  <2>2. QED
    BY <2>1 DEF Setting
<1>5. QED
  BY <1>1, <1>2, <1>3, <1>4

(* What an interrupted write leaves: the first settings of the template,   *)
(* and possibly a cut number for the next.                                 *)
LEMMA RemainsAre ==
  ASSUME NEW i \in 0..Len(TemplateOrder), NEW doc \in Remains(i)
  PROVE  \/ doc = Document("broken", << >>)
         \/ \E h \in Int : \E values :
              /\ doc = Document("table", values)
              /\ DOMAIN values \subseteq DOMAIN TemplateValues
              /\ \A s \in DOMAIN values :
                   \/ values[s] = TemplateValues[s]
                   \/ /\ i < Len(TemplateOrder) /\ s = TemplateOrder[i + 1]
                      /\ values[s] = Int_(h)
<1>1. Len(TemplateOrder) = 22
      /\ \A j \in 1..22 : TemplateOrder[j] \in DOMAIN TemplateValues
  BY TemplateIs
<1>2. CASE doc = TemplateUpTo(i)
  <2> DEFINE whole == {TemplateOrder[j] : j \in 1..i}
             part == [s \in whole |-> TemplateValues[s]]
  <2>1. /\ DOMAIN part \subseteq DOMAIN TemplateValues
        /\ \A s \in DOMAIN part : part[s] = TemplateValues[s]
    BY <1>1
  <2>2. doc = Document("table", part)
    BY <1>2 DEF TemplateUpTo
  <2>3. 0 \in Int
    OBVIOUS
  <2> HIDE DEF part
  <2>4. QED
    BY <2>1, <2>2, <2>3
<1>3. CASE i < Len(TemplateOrder) /\ doc \in TemplateCutAfter(i)
  <2> DEFINE next == TemplateOrder[i + 1]
             v == TemplateValues[next]
             x == IF v.is = "float" THEN Truncate(v.n) ELSE v.n
             upTo == {TemplateOrder[j] : j \in 1..(i + 1)}
             with(h) == [s \in upTo |->
                           IF s = next THEN Int_(h) ELSE TemplateValues[s]]
  <2>1. next \in DOMAIN TemplateValues /\ v.n \in Int
    BY <1>1, <1>3, TemplateIs DEF Numbers
  <2>2. x \in Int
    BY <2>1 DEF Truncate
  <2>3. upTo \subseteq DOMAIN TemplateValues
    BY <1>1, <1>3
  <2>4. \/ doc = Document("broken", << >>)
        \/ \E h \in Heads(x) : doc = Document("table", with(h))
    BY <1>3, Zenon DEF TemplateCutAfter
  <2> HIDE DEF x
  <2>5. Heads(x) \subseteq Int
    BY <2>2 DEF Heads
  <2>6. ASSUME NEW h \in Int, doc = Document("table", with(h))
        PROVE  \E k \in Int : \E values :
                 /\ doc = Document("table", values)
                 /\ DOMAIN values \subseteq DOMAIN TemplateValues
                 /\ \A s \in DOMAIN values :
                      \/ values[s] = TemplateValues[s]
                      \/ /\ i < Len(TemplateOrder) /\ s = TemplateOrder[i + 1]
                         /\ values[s] = Int_(k)
    <3>1. /\ DOMAIN with(h) \subseteq DOMAIN TemplateValues
          /\ \A s \in DOMAIN with(h) :
               \/ with(h)[s] = TemplateValues[s]
               \/ s = TemplateOrder[i + 1] /\ with(h)[s] = Int_(h)
      BY <2>3
    <3> HIDE DEF with
    <3>2. QED
      BY <1>3, <2>6, <3>1
  <2>7. QED
    BY <2>4, <2>5, <2>6
<1>4. QED
  BY <1>2, <1>3 DEF Remains

LEMMA DocumentsHaveNumbers ==
  ASSUME NEW doc \in Documents
  PROVE  Numbers(doc.values)
<1>1. CASE doc = Template
  BY <1>1, TemplateIs DEF Template, Document
<1>2. ASSUME NEW i \in Inputs, doc = i.file PROVE Numbers(doc.values)
  BY <1>2, InputsAssumption DEF Numbers
<1>3. ASSUME NEW i \in 0..Len(TemplateOrder), doc \in Remains(i)
      PROVE  Numbers(doc.values)
  <2>1. CASE doc = Document("broken", << >>)
    BY <2>1 DEF Document, Numbers
  <2>2. ASSUME NEW h \in Int, NEW values, doc = Document("table", values),
               DOMAIN values \subseteq DOMAIN TemplateValues,
               \A s \in DOMAIN values :
                 values[s] = TemplateValues[s] \/ values[s] = Int_(h)
        PROVE  Numbers(doc.values)
    BY <2>2, TemplateIs DEF Document, Numbers, Int_, Raw
  <2>3. QED
    BY <1>3, <2>1, <2>2, RemainsAre
<1>4. QED
  BY <1>1, <1>2, <1>3 DEF Documents

(* A threshold is a number of halves, a count a whole number. *)
LEMMA ConvertedIs ==
  ASSUME NEW doc, NEW e, Numbers(doc.values), Numbers(e),
         NEW s \in Percents \cup Ints, ~Failed(Converted(s, doc, e))
  PROVE  /\ s \in Percents => Converted(s, doc, e).is # "int"
         /\ s \in Ints => Converted(s, doc, e).is = "int"
         /\ Converted(s, doc, e).n \in Int
<1> DEFINE v == Effective(s, doc, e)
<1>1. /\ ~Failed(v) /\ Converted(s, doc, e) = Coerce(s, v)
      /\ ~Failed(Coerce(s, v))
  BY DEF Converted
<1>2. s \in Floats => s \notin Ints
  BY DEF Floats, Percents, Ints
<1>3. s \notin {"strict_fifo", "downloading_states"} /\ s \notin Required
      /\ s \in Setting /\ Percents \subseteq Floats
  BY SettingsAre DEF Percents, Ints, Required, Secrets, Floats
<1>4. v.n \in Int
  <2>1. CASE s \in DOMAIN e
    <3>1. e[s].n \in Int
      BY <2>1 DEF Numbers
    <3>2. v \in {ParseFloat(e[s]), ParseInt(e[s])}
      BY <2>1, <1>3 DEF Effective, ParseEnv
    <3>3. QED
      BY <1>1, <3>1, <3>2
      DEF ParseFloat, ParseInt, Float, Int_, Raw, ConfigError
  <2>2. CASE s \notin DOMAIN e /\ s \in DOMAIN doc.values
    BY <2>2 DEF Effective, Numbers
  <2>3. CASE s \notin DOMAIN e /\ s \notin DOMAIN doc.values
    <3>1. v = Defaults[s] /\ s \in DOMAIN Defaults
      BY <1>3, <2>3, TemplateIs DEF Effective
    <3>2. QED
      BY <3>1, TemplateIs DEF Numbers
  <2>4. QED
    BY <2>1, <2>2, <2>3
<1> HIDE DEF v
<1>5. CASE s \in Percents
  <2>1. Coerce(s, v) = ParseFloat(v)
    <3>1. s \in Floats /\ s \notin Ints
      BY <1>2, <1>3, <1>5
    <3>2. s # "strict_fifo" /\ s # "downloading_states"
      BY <1>3
    <3>3. QED
      BY <3>1, <3>2 DEF Coerce, AsFloat
  <2>2. QED
    BY <1>1, <1>2, <1>3, <1>4, <1>5, <2>1
    DEF ParseFloat, Float, Raw, ConfigError, Failed
<1>6. CASE s \in Ints
  <2>1. Coerce(s, v) = AsInt(v)
    <3>1. s \in Ints /\ s \notin Floats
      BY <1>2, <1>6
    <3>2. s # "strict_fifo" /\ s # "downloading_states"
      BY <1>3
    <3>3. QED
      BY <3>1, <3>2 DEF Coerce
  <2>2. AsInt(v) \in {ParseInt(v), Int_(Truncate(v.n)), OverflowError}
    BY DEF AsInt
  <2>3. Truncate(v.n) \in Int
    BY <1>4 DEF Truncate
  <2>4. s \notin Percents
    BY <1>2, <1>3, <1>6
  <2> HIDE DEF v
  <2>5. QED
    BY <1>1, <1>4, <2>1, <2>2, <2>3, <2>4
    DEF ParseInt, Int_, Raw, ConfigError, OverflowError, Failed
<1>7. QED
  BY <1>5, <1>6

LEMMA AcceptedFits ==
  ASSUME NEW doc, NEW e, Numbers(doc.values), Numbers(e),
         LoadResult(doc, e) = "accepted"
  PROVE  LET c == [s \in Setting |-> Converted(s, doc, e)]
         IN  /\ 0 <= c["hard_pause_below_pct"].n
             /\ c["hard_pause_below_pct"].n < c["soft_pause_below_pct"].n
             /\ c["soft_pause_below_pct"].n <= c["resume_floor_pct"].n
             /\ c["resume_floor_pct"].n <= 200
             /\ c["on_add_quick_poll_max_queue_size"].n >= 1
             /\ c["on_add_quick_poll_max_attempts"].n >= 1
             /\ ~SameText(c["paused_tag"], c["soft_allowed_tag"])
<1> DEFINE c == [s \in Setting |-> Converted(s, doc, e)]
<1>1. Valid(c) /\ \A s \in Setting : ~Failed(Converted(s, doc, e))
  BY AcceptedIs
<1>2. /\ \A s \in Percents : c[s] = Converted(s, doc, e)
      /\ \A s \in Ints : c[s] = Converted(s, doc, e)
  BY SettingsAre
<1>3. /\ \A s \in Percents : c[s].is # "int" /\ c[s].n \in Int
      /\ \A s \in Ints : c[s].is = "int" /\ c[s].n \in Int
  BY <1>1, <1>2, SettingsAre, ConvertedIs
<1> HIDE DEF c
<1>4. /\ "hard_pause_below_pct" \in Percents
      /\ "resume_floor_pct" \in Percents
      /\ "on_add_quick_poll_max_queue_size" \in Ints
      /\ "on_add_quick_poll_max_attempts" \in Ints
  BY DEF Percents, Ints
<1>5. /\ c["hard_pause_below_pct"].n < c["soft_pause_below_pct"].n
      /\ c["soft_pause_below_pct"].n <= c["resume_floor_pct"].n
      /\ \A s \in Percents : AtLeast(c[s], 0) /\ AtMost(c[s], 200)
      /\ ~SameText(c["paused_tag"], c["soft_allowed_tag"])
  BY <1>1 DEF Valid, ValidThresholds
<1>6. /\ 0 <= c["hard_pause_below_pct"].n
      /\ c["resume_floor_pct"].n <= 200
  BY <1>3, <1>4, <1>5 DEF AtLeast, AtMost, Halves
<1>7. \A s \in Ints : ~AtMost(c[s], 0)
  <2>1. Ints \subseteq (Floats \cup Ints) \ (Percents \cup {"safety_buffer_gb"})
    BY DEF Ints, Floats, Percents
  <2>2. QED
    BY <1>1, <2>1 DEF Valid
<1>8. \A s \in Ints : c[s].n >= 1
  BY <1>3, <1>7 DEF AtMost, Halves
<1>9. /\ 0 <= c["hard_pause_below_pct"].n
      /\ c["hard_pause_below_pct"].n < c["soft_pause_below_pct"].n
      /\ c["soft_pause_below_pct"].n <= c["resume_floor_pct"].n
      /\ c["resume_floor_pct"].n <= 200
      /\ c["on_add_quick_poll_max_queue_size"].n >= 1
      /\ c["on_add_quick_poll_max_attempts"].n >= 1
      /\ ~SameText(c["paused_tag"], c["soft_allowed_tag"])
  BY <1>4, <1>5, <1>6, <1>8
<1>10. QED
  BY <1>9 DEF c

(* The defaults are the values of the template. *)
LEMMA DefaultsAreTemplate ==
  \A s \in DOMAIN TemplateValues \ Required : Defaults[s] = TemplateValues[s]
<1>1. DOMAIN TemplateValues \ Required =
        Tags \cup Ints \cup Percents
          \cup {"watch_path", "safety_buffer_gb", "downloading_states",
                "on_add_quick_poll_interval_seconds", "policy",
                "strict_fifo", "level", "host"}
  BY DEF TemplateValues, Required, Secrets, Tags, Ints, Percents
<1>2. \A s \in Tags \cup Ints : Defaults[s] = TemplateValues[s]
  BY DEF TemplateValues, Defaults, Tags, Ints
<1>3. \A s \in Percents : Defaults[s] = TemplateValues[s]
  BY DEF TemplateValues, Defaults, Percents
<1>4. \A s \in {"watch_path", "safety_buffer_gb", "downloading_states",
                "on_add_quick_poll_interval_seconds"} :
        Defaults[s] = TemplateValues[s]
  <2>1. Defaults["downloading_states"] = TemplateValues["downloading_states"]
    BY DEF TemplateValues, Defaults, Raw
  <2>2. Defaults["safety_buffer_gb"] = TemplateValues["safety_buffer_gb"]
    BY DEF TemplateValues, Defaults, DefaultBuffer
  <2>3. \A s \in {"watch_path", "on_add_quick_poll_interval_seconds"} :
          Defaults[s] = TemplateValues[s]
    BY DEF TemplateValues, Defaults
  <2>4. QED
    BY <2>1, <2>2, <2>3
<1>5. \A s \in {"policy", "strict_fifo", "level", "host"} :
        Defaults[s] = TemplateValues[s]
  BY DEF TemplateValues, Defaults
<1>6. QED
  BY <1>1, <1>2, <1>3, <1>4, <1>5

LEMMA CutIsHarmless ==
  ASSUME NEW i \in 0..Len(TemplateOrder), NEW doc \in Remains(i), NEW e,
         LoadResult(doc, e) = "accepted", NEW s \in Setting,
         ~(i < Len(TemplateOrder) /\ s = TemplateOrder[i + 1])
  PROVE  Converted(s, doc, e) = Converted(s, Template, e)
<1>1. doc.shape # "broken" /\ ~Failed(Converted(s, doc, e))
  BY AcceptedIs
<1>2. PICK values :
        /\ doc = Document("table", values)
        /\ DOMAIN values \subseteq DOMAIN TemplateValues
        /\ \A t \in DOMAIN values :
             \/ values[t] = TemplateValues[t]
             \/ i < Len(TemplateOrder) /\ t = TemplateOrder[i + 1]
  <2>1. doc # Document("broken", << >>)
    BY <1>1 DEF Document
  <2>2. QED
    BY <2>1, RemainsAre
<1>3. doc.values = values /\ Template.values = TemplateValues
  BY <1>2 DEF Document, Template
<1>4. s \in DOMAIN values => values[s] = TemplateValues[s]
  BY <1>2
<1>5. Effective(s, doc, e) = Effective(s, Template, e)
  <2>1. CASE s \in DOMAIN e
    BY <2>1 DEF Effective
  <2>2. CASE s \notin DOMAIN e /\ s \in DOMAIN values
    BY <1>2, <1>3, <1>4, <2>2 DEF Effective
  <2>3. CASE s \notin DOMAIN e /\ s \notin DOMAIN values
    <3>1. s \notin Required
      BY <1>1, <1>3, <2>3 DEF Effective, Converted, Failed
    <3>2. Effective(s, doc, e) = Defaults[s]
      BY <1>3, <2>3, <3>1 DEF Effective
    <3>3. Effective(s, Template, e) = Defaults[s]
      BY <1>3, <2>3, <3>1, DefaultsAreTemplate DEF Effective
    <3>4. QED
      BY <3>2, <3>3
  <2>4. QED
    BY <2>1, <2>2, <2>3
<1>6. QED
  BY <1>5, Zenon DEF Converted

-----------------------------------------------------------------------------
(* What is known of the file *)

(* What an interrupted write left is there until the operator changes it,  *)
(* and the service runs with what was accepted.                            *)
FileInv ==
  /\ kept >= 0 => file \in Remains(kept)
  /\ phase = "creating" => file = Missing
  /\ phase \in {"preflight", "up"} => Accepted

LEMMA RemainsAreNotMissing ==
  ASSUME NEW i \in 0..Len(TemplateOrder), NEW doc \in Remains(i)
  PROVE  doc # Missing
BY RemainsAre DEF Missing, Document

LEMMA FileInvStep ==
  ASSUME PInv, FileInv, [ProcessNext]_processVars
  PROVE  FileInv'
<1> USE DEF FileInv
<1>1. CASE Configure
  BY <1>1 DEF Configure
<1>2. CASE Launch \/ Kill \/ EndProcess
  BY <1>2 DEF Launch, Kill, EndProcess, GoneWith, inputVars
<1>3. CASE CheckDirectory
  BY <1>3 DEF CheckDirectory, GoneWith, inputVars
<1>4. CASE WriteTemplate
  <2>1. ~(kept >= 0)
    <3>1. kept \in -1..Len(TemplateOrder) /\ Len(TemplateOrder) = 22
      BY TemplateIs DEF PInv, ProcessTypeOK
    <3>2. SUFFICES ASSUME kept >= 0 PROVE FALSE
      BY <3>1
    <3>3. kept \in 0..Len(TemplateOrder) /\ file \in Remains(kept)
      BY <3>1, <3>2
    <3>4. file = Missing
      BY <1>4 DEF WriteTemplate
    <3>5. QED
      BY <3>3, <3>4, RemainsAreNotMissing
  <2>2. CASE kept' = kept /\ phase' \in {"loading", "off"}
    BY <2>1, <2>2
  <2>3. ASSUME NEW i \in 0..Len(TemplateOrder), file' \in Remains(i),
               kept' = i, phase' = "off"
        PROVE  FileInv'
    BY <2>3
  <2>4. QED
    BY <1>4, <2>2, <2>3 DEF WriteTemplate, GoneWith
<1>5. CASE Load
  BY <1>5 DEF Load, GoneWith, inputVars, Accepted
<1>6. ASSUME UNCHANGED <<file, env, kept>>,
             phase' # "creating",
             phase' \in {"preflight", "up"} => phase \in {"preflight", "up"}
      PROVE  FileInv'
  BY <1>6 DEF Accepted
<1>7. CASE Preflight \/ FailStart \/ Bind \/ Drain \/ Drained \/ Close
           \/ DrainAgain
  BY <1>6, <1>7 DEF Preflight, FailStart, Bind, Drain, Drained, Close,
       DrainAgain,
                    inputVars
<1>8. CASE Leave \/ Stop \/ Interrupt
  BY <1>6, <1>8 DEF Leave, Stop, Interrupt, inputVars
<1>9. CASE \/ RequestArrives \/ RequestEnds \/ WorkerEnds \/ TaskCalls
           \/ Surroundings \/ UNCHANGED processVars
  BY <1>9 DEF RequestArrives, RequestEnds, WorkerEnds, TaskCalls, Surroundings,
              processVars, inputVars, Accepted
<1>10. QED
  BY <1>1, <1>2, <1>3, <1>4, <1>5, <1>7, <1>8, <1>9
  DEF ProcessNext, ProcessStep

LEMMA AlwaysFileInv == ProcessSpec => [](PInv /\ FileInv)
<1>1. ProcessInit => FileInv
  BY DEF ProcessInit, FileInv
<1>2. QED
  BY <1>1, InitInv, NextKeepsInv, FileInvStep, PTL DEF ProcessSpec

(* A first start that was interrupted at any byte leaves a file that later *)
(* starts either refuse or read as the whole template would be read, but   *)
(* for the number in which the write was cut (_bootstrap_config_file),     *)
(* under any environment.                                                  *)
THEOREM InterruptionIsHarmless == ProcessSpec => []InterruptedBootstrapIsHarmless
<1>1. PInv /\ FileInv => InterruptedBootstrapIsHarmless
  <2> SUFFICES ASSUME PInv, FileInv, kept >= 0, Accepted, NEW s \in Setting,
                      ~(kept < Len(TemplateOrder)
                          /\ s = TemplateOrder[kept + 1])
               PROVE  Converted(s, file, env) = Converted(s, Template, env)
    BY Zenon DEF InterruptedBootstrapIsHarmless
  <2>1. kept \in -1..Len(TemplateOrder) /\ Len(TemplateOrder) = 22
    BY TemplateIs DEF PInv, ProcessTypeOK
  <2>2. kept \in 0..Len(TemplateOrder) /\ file \in Remains(kept)
    BY <2>1 DEF FileInv
  <2>3. QED
    BY <2>2, CutIsHarmless DEF Accepted
<1>2. QED
  BY <1>1, AlwaysFileInv, PTL

(* What the other modules assume of the configuration holds whenever the   *)
(* service is past load_config, for every file and environment whose       *)
(* numbers are numbers (_validate in config.py).                           *)
THEOREM ConfigFitsTheModels == ProcessSpec => []AcceptedFitsTheModels
<1>1. PInv /\ FileInv => AcceptedFitsTheModels
  <2> SUFFICES ASSUME PInv, FileInv, phase \in {"preflight", "up"}
               PROVE  AcceptedFitsTheModels
    BY DEF AcceptedFitsTheModels
  <2>1. Numbers(file.values) /\ Numbers(env)
    <3>1. file \in Documents /\ \E i \in Inputs : env = i.env
      BY DEF PInv, ProcessTypeOK
    <3>2. QED
      BY <3>1, DocumentsHaveNumbers, InputsAssumption DEF Numbers
  <2>2. LoadResult(file, env) = "accepted"
    BY DEF FileInv, Accepted
  <2>3. QED
    BY <2>1, <2>2, AcceptedFits DEF AcceptedFitsTheModels
<1>2. QED
  BY <1>1, AlwaysFileInv, PTL
=============================================================================
