------------------------------- MODULE Config -------------------------------
(***************************************************************************)
(* config.py: what load_config makes of a TOML document and of the         *)
(* environment.  Pure functions; the file itself is in module Process.     *)
(*                                                                         *)
(* A raw value is [is, n, quoted]: what it spells, its number if it spells *)
(* one, and whether it is a string (every environment value is).  The      *)
(* number of an "int" is n, of a "float" n halves, of a "bool" 0 or 1, of  *)
(* a "list" how many of its items are not blank.  A value that fails is    *)
(* the exception instead.                                                  *)
(***************************************************************************)
EXTENDS Integers, Sequences

Policies == {"priority_fifo", "smallest_first", "largest_first"}
Levels == {"DEBUG", "INFO", "WARNING", "ERROR"}

Raw(is, n, quoted) == [is |-> is, n |-> n, quoted |-> quoted]

Int_(n) == Raw("int", n, FALSE)
Float(halves) == Raw("float", halves, FALSE)
Bool(n) == Raw("bool", n, FALSE)
Text(is) == Raw(is, 0, TRUE)

ConfigError == Raw("ConfigError", 0, FALSE)
OverflowError == Raw("OverflowError", 0, FALSE)
Failed(v) == v \in {ConfigError, OverflowError}

-----------------------------------------------------------------------------
(* The settings, in the order in which _build_config reads them *)

BuildOrder ==
  << "url", "username", "password", "connect_timeout_seconds",
     "read_timeout_seconds", "downloading_states", "watch_path",
     "soft_pause_below_pct", "hard_pause_below_pct", "resume_floor_pct",
     "safety_buffer_gb", "policy", "strict_fifo", "interval_seconds",
     "on_add_quick_poll_interval_seconds", "on_add_quick_poll_max_attempts",
     "on_add_quick_poll_max_queue_size", "paused_tag", "soft_allowed_tag",
     "level", "host", "port", "on_add_auth_token", "on_add_max_body_bytes" >>

Setting == {BuildOrder[i] : i \in 1..Len(BuildOrder)}

(* Settings of older versions, refused in the file and in the environment *)
RemovedKeys == {"on_add_quick_poll_max_concurrency", "on_add_max_pending_tasks"}

Secrets == {"password", "on_add_auth_token"}
Required == Secrets \cup {"url", "username"}
Percents ==
  {"soft_pause_below_pct", "hard_pause_below_pct", "resume_floor_pct"}
Floats ==
  Percents \cup {"safety_buffer_gb", "connect_timeout_seconds",
                 "read_timeout_seconds", "on_add_quick_poll_interval_seconds"}
Ints ==
  {"interval_seconds", "on_add_quick_poll_max_attempts",
   "on_add_quick_poll_max_queue_size", "port", "on_add_max_body_bytes"}
NonBlank == Required \cup {"watch_path"}
Tags == {"paused_tag", "soft_allowed_tag"}

(* Mutant: the default of the buffer is not the one in the template.       *)
NoDefaultBuffer == Float(0)

DefaultBuffer == Float(20)

(* What a missing key counts as; the required ones have no default. *)
Defaults ==
  [connect_timeout_seconds |-> Float(4), read_timeout_seconds |-> Float(16),
   downloading_states |-> Raw("list", 6, FALSE), watch_path |-> Text("text"),
   soft_pause_below_pct |-> Float(20), hard_pause_below_pct |-> Float(10),
   resume_floor_pct |-> Float(20), safety_buffer_gb |-> DefaultBuffer,
   policy |-> Text("priority_fifo"), strict_fifo |-> Bool(1),
   interval_seconds |-> Int_(30),
   on_add_quick_poll_interval_seconds |-> Float(2),
   on_add_quick_poll_max_attempts |-> Int_(10),
   on_add_quick_poll_max_queue_size |-> Int_(64),
   paused_tag |-> Text("paused"), soft_allowed_tag |-> Text("allowed"),
   level |-> Text("INFO"), host |-> Text("text"), port |-> Int_(7070),
   on_add_max_body_bytes |-> Int_(8192)]

(* DEFAULT_CONFIG_TEMPLATE, in the order of its lines *)
TemplateOrder ==
  << "url", "username", "password", "watch_path", "soft_pause_below_pct",
     "hard_pause_below_pct", "resume_floor_pct", "safety_buffer_gb",
     "downloading_states", "interval_seconds",
     "on_add_quick_poll_interval_seconds", "on_add_quick_poll_max_attempts",
     "on_add_quick_poll_max_queue_size", "policy", "strict_fifo",
     "paused_tag", "soft_allowed_tag", "level", "host", "port",
     "on_add_auth_token", "on_add_max_body_bytes" >>

TemplateValues ==
  [url |-> Text("text"), username |-> Text("text"),
   password |-> Text("blank"), watch_path |-> Text("text"),
   soft_pause_below_pct |-> Float(20), hard_pause_below_pct |-> Float(10),
   resume_floor_pct |-> Float(20), safety_buffer_gb |-> Float(20),
   downloading_states |-> Raw("list", 6, FALSE), interval_seconds |-> Int_(30),
   on_add_quick_poll_interval_seconds |-> Float(2),
   on_add_quick_poll_max_attempts |-> Int_(10),
   on_add_quick_poll_max_queue_size |-> Int_(64),
   policy |-> Text("priority_fifo"), strict_fifo |-> Bool(1),
   paused_tag |-> Text("paused"), soft_allowed_tag |-> Text("allowed"),
   level |-> Text("INFO"), host |-> Text("text"), port |-> Int_(7070),
   on_add_auth_token |-> Text("blank"), on_add_max_body_bytes |-> Int_(8192)]

-----------------------------------------------------------------------------
(* Conversions *)

(* int(text) and float(text) *)
ParseInt(v) == IF v.is = "int" THEN Int_(v.n) ELSE ConfigError

ParseFloat(v) ==
  CASE v.is = "int" -> Float(2 * v.n)
    [] v.is \in {"float", "nan", "inf"} -> Raw(v.is, v.n, FALSE)
    [] OTHER -> ConfigError

(* "1" and "0" are truth values like "yes" and "off" *)
ParseBool(v) ==
  IF v.is = "bool" \/ (v.is = "int" /\ v.n \in {0, 1}) THEN Bool(v.n)
  ELSE ConfigError

ParseCsv(v) ==
  IF v.is \in {"blank", ","} THEN ConfigError ELSE Raw("list", 1, FALSE)

(* int of a float drops the fraction *)
Truncate(halves) ==
  IF halves >= 0 THEN halves \div 2 ELSE -((-halves) \div 2)

(* The parser of ENV_OVERRIDES for a setting *)
ParseEnv(s, v) ==
  CASE s \in Floats -> ParseFloat(v)
    [] s \in Ints -> ParseInt(v)
    [] s = "strict_fifo" -> ParseBool(v)
    [] s = "downloading_states" -> ParseCsv(v)
    [] OTHER -> v

(* A native truth value is refused, which ParseFloat and ParseInt do here. *)
AsFloat(v) == ParseFloat(v)

(* int(inf) is an OverflowError, which _as_int does not catch. *)
AsInt(v) ==
  CASE ~v.quoted /\ v.is = "float" -> Int_(Truncate(v.n))
    [] ~v.quoted /\ v.is = "inf" -> OverflowError
    [] OTHER -> ParseInt(v)

AsBool(v) == IF v.quoted \/ v.is = "bool" THEN ParseBool(v) ELSE ConfigError

CoerceStates(v) ==
  CASE v.quoted -> ParseCsv(v)
    [] ~v.quoted /\ v.is = "list" /\ v.n > 0 -> v
    [] OTHER -> ConfigError

(* str() of a number or a list is a text like any other. *)
AsText(s, v) ==
  IF \/ s \in NonBlank /\ v.is = "blank"
     \/ s = "policy" /\ v.is \notin Policies
  THEN ConfigError ELSE v

Coerce(s, v) ==
  CASE s \in Floats -> AsFloat(v)
    [] s \in Ints -> AsInt(v)
    [] s = "strict_fifo" -> AsBool(v)
    [] s = "downloading_states" -> CoerceStates(v)
    [] OTHER -> AsText(s, v)
-----------------------------------------------------------------------------
(* Documents and environments *)

(* A document is what tomllib makes of the file: a function from the       *)
(* settings it has.  "broken" is no TOML, "misshapen" has a section that   *)
(* is no table, "unreadable" stands for the exceptions _read_toml lets     *)
(* through (no permission, no UTF-8).  An environment is a function from   *)
(* the settings it overrides.                                              *)
Document(shape, values) == [shape |-> shape, values |-> values]

Template == Document("table", TemplateValues)

(* The template when the process that wrote it got no further than the     *)
(* first i settings.                                                       *)
TemplateUpTo(i) ==
  LET kept == {TemplateOrder[j] : j \in 1..i}
  IN  Document("table", [s \in kept |-> TemplateValues[s]])

(* A number loses its last digits: 30 becomes 3, 10.0 becomes 10 or 1. *)
Heads(x) == {x \div d : d \in {1, 10, 100, 1000}} \ {0}

(* The template when the write ended within setting i + 1.  A cut string,  *)
(* list or truth value leaves no TOML.                                     *)
TemplateCutAfter(i) ==
  LET next == TemplateOrder[i + 1]
      v    == TemplateValues[next]
      x    == IF v.is = "float" THEN Truncate(v.n) ELSE v.n
      with(h) == [s \in {TemplateOrder[j] : j \in 1..(i + 1)} |->
                    IF s = next THEN Int_(h) ELSE TemplateValues[s]]
  IN  {Document("broken", << >>)}
      \cup IF v.is \in {"int", "float"}
           THEN {Document("table", with(h)) : h \in Heads(x)} ELSE {}

(* What _apply_env_overrides and _build_config do to one setting *)

(* Any override that is set wins, one that is empty too. *)
Effective(s, doc, env) ==
  IF s \in DOMAIN env THEN ParseEnv(s, env[s])
  ELSE IF s \in DOMAIN doc.values THEN doc.values[s]
  ELSE IF s \in Required THEN ConfigError ELSE Defaults[s]

Converted(s, doc, env) ==
  LET v == Effective(s, doc, env)
  IN  IF Failed(v) THEN v ELSE Coerce(s, v)

-----------------------------------------------------------------------------
(* _validate *)

Halves(v) == IF v.is = "int" THEN 2 * v.n ELSE v.n

(* Comparisons of floats: none holds of nan. *)
AtLeast(v, halves) ==
  v.is = "inf" \/ (v.is \in {"int", "float"} /\ Halves(v) >= halves)
AtMost(v, halves) == v.is \in {"int", "float"} /\ Halves(v) <= halves
Below_(v, halves) == v.is \in {"int", "float"} /\ Halves(v) < halves

SameText(v, w) == v.is = w.is /\ v.n = w.n

(* Mutant: the resume floor is not compared with the SOFT threshold.       *)
ValidThresholdsWithoutFloor(c) ==
  /\ \A s \in Percents : AtLeast(c[s], 0) /\ AtMost(c[s], 200)
  /\ c["hard_pause_below_pct"].n < c["soft_pause_below_pct"].n

ValidThresholds(c) ==
  /\ \A s \in Percents : AtLeast(c[s], 0) /\ AtMost(c[s], 200)
  /\ c["hard_pause_below_pct"].n < c["soft_pause_below_pct"].n
  /\ c["soft_pause_below_pct"].n <= c["resume_floor_pct"].n

(* The other checks.  They ask whether a value is too small, so nan passes *)
(* all of them.                                                            *)
Valid(c) ==
  /\ ValidThresholds(c)
  /\ ~Below_(c["safety_buffer_gb"], 0)
  /\ \A s \in (Floats \cup Ints) \ (Percents \cup {"safety_buffer_gb"}) :
       ~AtMost(c[s], 0)
  /\ c["port"].n <= 65535
  /\ \A s \in Tags : c[s].is # "blank"
  /\ ~SameText(c["paused_tag"], c["soft_allowed_tag"])
  /\ c["level"].is \in Levels

(* load_config on a document and an environment: the first exception in    *)
(* the order of the code, or "accepted".                                   *)
LoadResult(doc, env) ==
  IF doc.shape = "unreadable" THEN "exception"
  ELSE IF \/ doc.shape \in {"broken", "misshapen"}
          \/ RemovedKeys \cap (DOMAIN env \cup DOMAIN doc.values) # {}
          \/ \E s \in DOMAIN env : Failed(ParseEnv(s, env[s]))
  THEN "ConfigError"
  ELSE LET bad == {i \in 1..Len(BuildOrder) :
                     Failed(Converted(BuildOrder[i], doc, env))}
       IN  IF bad = {}
           THEN IF Valid([s \in Setting |-> Converted(s, doc, env)])
                THEN "accepted" ELSE "ConfigError"
           ELSE LET first == CHOOSE i \in bad : \A j \in bad : i <= j
                IN  IF Converted(BuildOrder[first], doc, env) = OverflowError
                    THEN "exception" ELSE "ConfigError"
=============================================================================
