----------------------------- MODULE MCProcess -----------------------------
(***************************************************************************)
(* Instances of Process for TLC: what operators set up.                    *)
(***************************************************************************)
EXTENDS Process

Complete == [s \in DOMAIN TemplateValues |->
               IF s \in Secrets THEN Text("text") ELSE TemplateValues[s]]

File(s, v) == Document("table", [Complete EXCEPT ![s] = v])

NoEnv == << >>
RequiredEnv == [s \in Required |-> Text("text")]

Input(f, e) == [file |-> f, env |-> e, writable |-> TRUE]

(* First starts: with the first environment no template is accepted, with  *)
(* the other every one that is TOML.                                       *)
Fresh == {Input(Missing, NoEnv), Input(Missing, RequiredEnv)}

(* Files that come close to what is accepted *)
Edited ==
  {Input(File("on_add_quick_poll_max_queue_size", Float(1)), NoEnv),
   Input(File("on_add_quick_poll_max_attempts", Raw("inf", 0, FALSE)), NoEnv),
   Input(File("resume_floor_pct", Int_(9)), NoEnv),
   Input(File("hard_pause_below_pct", Float(20)), NoEnv),
   Input(File("soft_allowed_tag", Text("paused")), NoEnv),
   Input(File("url", Text("badurl")), NoEnv),
   Input(Document("broken", << >>), NoEnv)}

Kept == {Input(Document("table", Complete), NoEnv),
         [Input(Document("table", Complete), NoEnv) EXCEPT !.writable = FALSE]}

LifeInputs == Fresh \cup Edited \cup Kept

(* The environment of the README's compose file, its variables unset *)
ComposeEnv ==
  [port |-> Raw("int", 7070, TRUE), on_add_auth_token |-> Text("blank")]

ComposeInputs == {Input(Missing, ComposeEnv),
                  Input(Document("table", Complete), ComposeEnv)}
=============================================================================
