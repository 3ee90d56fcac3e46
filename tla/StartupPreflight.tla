-------------------------- MODULE StartupPreflight --------------------------
(***************************************************************************)
(* run_qbittorrent_startup_preflight of startup.py, and the server it asks *)
(* (external).  An attempt is two calls in threads under one timeout.  A   *)
(* call that outlives its attempt goes on in its thread and may still log  *)
(* in; its answer goes nowhere.                                            *)
(*                                                                         *)
(* The seconds of timeout and backoff are left out; what a call comes to   *)
(* depends on the state of the server when it ends.                        *)
(***************************************************************************)
EXTENDS Integers

CONSTANT MaxPreflight   \* DEFAULT_PREFLIGHT_ATTEMPTS

ASSUME PreflightAssumption == MaxPreflight \in Nat \ {0}

VARIABLES
  server,     \* how the server answers (external)
  session,    \* the server holds a session of this client (external)
  late,       \* threads whose caller is gone
  probe,      \* the await of the preflight, or its result
  detected,   \* what the first call of the running attempt returned
  attempt,    \* attempt, 0 before the first
  (* History, read by no guard: *)
  verified    \* per call, the attempt of its latest supported answer

serverVars == <<server, session>>
attemptVars == <<probe, detected, attempt, verified>>
preflightVars == <<serverVars, late, attemptVars>>

(* healthy: supported and answering.  oldVersion: answers app_version with *)
(* a version that is too old, unknown to the library, or none at all.      *)
(* oldWebApi: the same of app_web_api_version.  (A server that is both     *)
(* changes between the calls.)  slow: no answer in time.  away: no         *)
(* connection, or the login is refused.  odd: an HTTP or API error that    *)
(* says that the endpoints are not there.                                  *)
Server == {"healthy", "oldVersion", "oldWebApi", "slow", "away", "odd"}

Answers == {"healthy", "oldVersion", "oldWebApi"}
Retryable == {"slow", "away"}

PreflightTypeOK ==
  /\ server \in Server
  /\ session \in BOOLEAN
  /\ late \in Nat
  /\ probe \in {"none", "version", "webapi", "backoff", "passed", "failed"}
  /\ detected \in {"none", "supported", "unsupported"}
  /\ attempt \in 0..MaxPreflight
  /\ verified \in [version : 0..MaxPreflight, webapi : 0..MaxPreflight]

Unverified == [version |-> 0, webapi |-> 0]

PreflightInit ==
  /\ server \in Server
  /\ session = FALSE
  /\ late = 0
  /\ probe = "none"
  /\ detected = "none"
  /\ attempt = 0
  /\ verified = Unverified

-----------------------------------------------------------------------------
(* A server that goes away may come back without its sessions. *)
ServerChanges ==
  /\ server' \in Server \ {server}
  /\ session' \in IF server' = "away" THEN {session, FALSE} ELSE {session}
  /\ UNCHANGED <<late, attemptVars>>

(* A thread nobody waits for comes to its end.  The library logs in by     *)
(* itself when the server asks for it.                                     *)
LateCallEnds ==
  /\ late > 0
  /\ late' = late - 1
  /\ session' = (session \/ server \in Answers)
  /\ UNCHANGED <<server, attemptVars>>

(* The first attempt; an address that is no URL fails without one. *)
BeginPreflight(urlOk) ==
  /\ probe' = IF urlOk THEN "version" ELSE "failed"
  /\ detected' = "none"
  /\ attempt' = IF urlOk THEN 1 ELSE 0
  /\ verified' = Unverified
  /\ UNCHANGED <<serverVars, late>>

(* Mutant: the last attempt is one too many.                               *)
RetryPastLast ==
  /\ probe' = IF attempt > MaxPreflight THEN "failed" ELSE "backoff"
  /\ detected' = "none"
  /\ UNCHANGED <<attempt, verified>>

(* The attempt failed with an error that is worth another one. *)
Retry ==
  /\ probe' = IF attempt = MaxPreflight THEN "failed" ELSE "backoff"
  /\ detected' = "none"
  /\ UNCHANGED <<attempt, verified>>

GiveUp ==
  /\ probe' = "failed"
  /\ detected' = "none"
  /\ UNCHANGED <<attempt, verified>>

Verify(call) == verified' = [verified EXCEPT ![call] = attempt]

(* A call of the preflight that brings no version.  A server the library   *)
(* does not know may fail the login that comes with the call.              *)
CallFails ==
  \/ /\ server \in Retryable
     /\ late' = IF server = "slow" THEN late + 1 ELSE late
     /\ Retry
     /\ UNCHANGED session
  \/ /\ server = "odd"
     /\ GiveUp
     /\ UNCHANGED <<session, late>>
  \/ /\ server = "oldVersion"
     /\ session' = TRUE
     /\ GiveUp
     /\ UNCHANGED late

(* app_version, the first call.  What it returns is kept, and looked at    *)
(* after the second.                                                       *)
FetchVersion ==
  /\ probe = "version"
  /\ \/ /\ server \in Answers
        /\ session' = TRUE
        /\ probe' = "webapi"
        /\ \/ /\ server # "oldVersion"
              /\ detected' = "supported"
              /\ Verify("version")
           \/ /\ server = "oldVersion"
              /\ detected' = "unsupported"
              /\ UNCHANGED verified
        /\ UNCHANGED <<late, attempt>>
     \/ CallFails
  /\ UNCHANGED server

(* Mutant: the version of the first call is not looked at.                 *)
FetchWebApiAlone ==
  /\ probe = "webapi"
  /\ \/ /\ server \in Answers
        /\ session' = TRUE
        /\ \/ /\ server # "oldWebApi"
              /\ probe' = "passed"
              /\ Verify("webapi")
           \/ /\ server = "oldWebApi"
              /\ probe' = "failed"
              /\ UNCHANGED verified
        /\ detected' = "none"
        /\ UNCHANGED <<late, attempt>>
     \/ CallFails
  /\ UNCHANGED server

(* Mutant: the smallest supported version is refused.                      *)
FetchWebApiTooStrict ==
  /\ probe = "webapi"
  /\ server \in Answers
  /\ session' = TRUE
  /\ GiveUp
  /\ UNCHANGED <<server, late>>

(* app_web_api_version, the second call, and the check of both versions *)
FetchWebApi ==
  /\ probe = "webapi"
  /\ \/ /\ server \in Answers
        /\ session' = TRUE
        /\ \/ /\ server # "oldWebApi"
              /\ probe' = IF detected = "supported" THEN "passed" ELSE "failed"
              /\ Verify("webapi")
           \/ /\ server = "oldWebApi"
              /\ probe' = "failed"
              /\ UNCHANGED verified
        /\ detected' = "none"
        /\ UNCHANGED <<late, attempt>>
     \/ CallFails
  /\ UNCHANGED server

(* Mutant: the attempts are not counted.                                   *)
BackoffUncounted ==
  /\ probe = "backoff"
  /\ probe' = "version"
  /\ UNCHANGED <<serverVars, late, detected, attempt, verified>>

(* The sleep between two attempts *)
Backoff ==
  /\ probe = "backoff"
  /\ probe' = "version"
  /\ attempt' = attempt + 1
  /\ UNCHANGED <<serverVars, late, detected, verified>>

PreflightStep == FetchVersion \/ FetchWebApi \/ Backoff
=============================================================================
