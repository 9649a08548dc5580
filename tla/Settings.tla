------------------------------ MODULE Settings ------------------------------
(***************************************************************************)
(* The daemon's settings: read from user-config.json at start              *)
(* (entrypoints/daemon.ts), edited in the dashboard's form                 *)
(* (dashboard/web/components/ConfigForm.tsx) and by the other callers of    *)
(* update_config, who reach it through the bridge's POST /tool.             *)
(***************************************************************************)
EXTENDS Naturals, FiniteSets

CONSTANTS
  Keys,         \* settings
  Values,       \* what a key may hold, "blank" for an empty input among them
  Default,      \* what the file holds at first
  Rejected,     \* values FlatUserConfigSchema refuses
  Latched,      \* keys read once, when the daemon starts
  Envs,         \* environments of the daemon
  Others,       \* callers of update_config besides the form
  MaxEdits,     \* bound on the values typed into the form
  MaxAsks,      \* bound on the changes of the others
  MaxRestarts

VARIABLES
  file,         \* contents of user-config.json, {} while it is cut short
  onDisk,       \* the file exists
  up,           \* the daemon runs
  live,         \* its running configuration
  adapters,     \* what it was built from, nullable
  latched,      \* the values its timers and clients were made with
  jobs,         \* what it has started
  lock,         \* the caller that holds the bridge's lock on update_config
  call,         \* per caller, its request
  form,         \* the form: [open, values, initial]
  edited,       \* keys the operator typed a value into and has not saved
  wanted,       \* per key, the value last asked for and written
  edits, asks, restarts

daemon == <<up, live, adapters, latched, jobs>>
page   == <<form, edited, edits>>
vars   == <<file, onDisk, daemon, lock, call, page, wanted, asks, restarts>>

Callers  == Others \cup {"form"}
NoCall   == [step |-> "idle", changes |-> <<>>, copy |-> <<>>]
NoForm   == [open |-> FALSE, values |-> <<>>, initial |-> <<>>]
Read(f)  == IF onDisk THEN f ELSE {}

---------------------------------------------------------------------------
(* Start of the daemon                                                     *)

(* What boot() builds for an environment, nullable: it throws on an unknown *)
(* mode and on a real chain without its node or key.  An unset mode follows *)
(* the chain's; a missing LLM key means the scripted demo; Sage decides when *)
(* its keys are there, and advises on exits even when it does not decide.   *)
Mode(set, real, fake, chain) ==
  IF set # {} THEN set ELSE IF chain = "meteora" THEN {real} ELSE {fake}
Llm(env) == IF env.demo \/ ~env.llmKey THEN "demo" ELSE "openrouter"
Deciders(env) ==
  [entry |-> IF env.sage /\ ~env.loop THEN "sage" ELSE "loop",
   exit  |-> IF env.sage THEN {"sage"} ELSE {}]
Adapters(env) ==
  LET chain  == IF env.chain = {"meteora"} THEN "meteora" ELSE "dryrun"
      price  == Mode(env.price, "jupiter", "static", chain)
      market == Mode(env.market, "real", "fake", chain)
  IN  IF \/ chain = "meteora" /\ ~env.keys
         \/ price \notin {{"jupiter"}, {"static"}} \/ market \notin {{"real"}, {"fake"}}
      THEN {}
      ELSE {[chain |-> chain, price |-> price, market |-> market,
             llm |-> Llm(env), deciders |-> Deciders(env)]}

(* What main() starts: the bridge first, then the jobs of the autonomous    *)
(* mode, or one screening cycle.  Only the sweeper's switch is read here;   *)
(* the others are read at every tick.                                       *)
Hears(env) == IF env.telegram /\ env.inbound THEN {"inbound"} ELSE {}
Jobs(env, config) ==
  LET every == {"screening", "management", "poller", "follow", "health", "close-review",
                "briefing", "hivemind"}
  IN  (IF env.bridge THEN {"bridge"} ELSE {})
      \cup (IF ~env.autonomous THEN {"one-shot"}
            ELSE every \cup (IF config["sweep"] = "on" THEN {"sweeper"} ELSE {})
                       \cup Hears(env))

Start(env, config) ==
  /\ up' = TRUE /\ live' = config /\ latched' = [k \in Latched |-> config[k]]
  /\ adapters' = Adapters(env) /\ jobs' = Jobs(env, config)

Init ==
  /\ file = {Default} /\ onDisk \in BOOLEAN
  /\ up = FALSE /\ live = Default /\ latched = [k \in Latched |-> Default[k]]
  /\ adapters = {} /\ jobs = {}
  /\ lock = {} /\ call = [c \in Callers |-> NoCall]
  /\ form = NoForm /\ edited = {} /\ edits = 0
  /\ wanted = Default /\ asks = 0 /\ restarts = 0

(* user-config.json, or the example when there is no such file; main() ends *)
(* on one it cannot parse.                                                  *)
Boot ==
  /\ ~up
  /\ \E env \in Envs, config \in IF onDisk THEN file ELSE {Default} :
       /\ Adapters(env) # {}
       /\ Start(env, config)
  /\ UNCHANGED <<file, onDisk, lock, call, page, wanted, asks, restarts>>

(* Crash or shutdown: locks and requests are gone, the form gets an error.  *)
Stop ==
  /\ up /\ restarts < MaxRestarts /\ restarts' = restarts + 1
  /\ up' = FALSE /\ adapters' = {} /\ jobs' = {} /\ lock' = {} /\ call' = [c \in Callers |-> NoCall]
  /\ UNCHANGED <<file, onDisk, live, latched, page, wanted, asks>>

---------------------------------------------------------------------------
(* The form                                                                *)

(* It is filled once, from the file itself, and from nothing when the file  *)
(* is missing or cut short.                                                 *)
OpenForm ==
  /\ ~form.open
  /\ LET shown == IF Read(file) = {} THEN [k \in Keys |-> "blank"] ELSE CHOOSE f \in file : TRUE
     IN  form' = [open |-> TRUE, values |-> shown, initial |-> shown]
  /\ edited' = {}
  /\ UNCHANGED <<file, onDisk, daemon, lock, call, edits, wanted, asks, restarts>>

Leave ==
  /\ form.open /\ call["form"] = NoCall /\ form' = NoForm /\ edited' = {}
  /\ UNCHANGED <<file, onDisk, daemon, lock, call, edits, wanted, asks, restarts>>

Type ==
  /\ form.open /\ call["form"] = NoCall /\ edits < MaxEdits /\ edits' = edits + 1
  /\ \E k \in Keys, v \in Values :
       form' = [form EXCEPT !.values[k] = v] /\ edited' = edited \cup {k}
  /\ UNCHANGED <<file, onDisk, daemon, lock, call, wanted, asks, restarts>>

(* An emptied number is not sent.                                          *)
EveryKey  == {k \in Keys : form.values[k] # "blank"}                 \* mutant
DirtyKeys == {k \in Keys : form.values[k] # form.initial[k] /\ form.values[k] # "blank"}

---------------------------------------------------------------------------
(* update_config through the bridge                                        *)

Ask(c, changes) ==
  /\ call[c] = NoCall /\ jobs \cap {"bridge"} # {}
  /\ call' = [call EXCEPT ![c] = [NoCall EXCEPT !.step = "asked", !.changes = changes]]
  /\ UNCHANGED <<file, onDisk, daemon, lock, page, wanted, restarts>>

Save ==
  /\ form.open /\ DirtyKeys # {} /\ Ask("form", [k \in DirtyKeys |-> form.values[k]])
  /\ UNCHANGED asks

AskOther ==
  /\ asks < MaxAsks /\ asks' = asks + 1
  /\ \E c \in Others, k \in Keys, v \in Values \ {"blank"} : Ask(c, [x \in {k} |-> v])

Step(c, from, to) == call[c].step = from /\ call' = [call EXCEPT ![c].step = to]
Refuse(c) == call' = [call EXCEPT ![c] = NoCall]

(* 409 while another update_config is under way.                           *)
Free(c)       == lock = {}
Acquire(c) ==
  /\ call[c].step = "asked"
  /\ IF Free(c) THEN Step(c, "asked", "load") /\ lock' = {c}
     ELSE Refuse(c) /\ UNCHANGED lock
  /\ UNCHANGED <<file, onDisk, daemon, page, wanted, asks, restarts>>

(* The whole file is read and changed; one bad value refuses the batch.     *)
Applied(config, changes) == [k \in Keys |-> IF k \in DOMAIN changes THEN changes[k] ELSE config[k]]
Load(c) ==
  /\ call[c].step = "load"
  /\ \/ /\ \/ Read(file) = {}
           \/ \E k \in DOMAIN call[c].changes : call[c].changes[k] \in Rejected
        /\ Refuse(c) /\ lock' = {}
     \/ /\ \A k \in DOMAIN call[c].changes : call[c].changes[k] \notin Rejected
        /\ \E config \in Read(file) :
             call' = [call EXCEPT ![c].step = "write", ![c].copy = Applied(config, call[c].changes)]
        /\ UNCHANGED lock
  /\ UNCHANGED <<file, onDisk, daemon, page, wanted, asks, restarts>>

(* In place: the file is cut short before it is filled again.              *)
Truncate(c) ==
  /\ Step(c, "write", "fill") /\ file' = {}
  /\ UNCHANGED <<onDisk, daemon, lock, page, wanted, asks, restarts>>

MeantBy(c) == IF c = "form" THEN edited \cap DOMAIN call[c].changes ELSE DOMAIN call[c].changes
Fill(c) ==
  /\ Step(c, "fill", "reload") /\ file' = {call[c].copy}
  /\ wanted' = [k \in Keys |-> IF k \in MeantBy(c) THEN call[c].changes[k] ELSE wanted[k]]
  /\ UNCHANGED <<onDisk, daemon, lock, page, asks, restarts>>

Reload(c) ==
  /\ Step(c, "reload", "answer") /\ live' = call[c].copy /\ lock' = {}
  /\ UNCHANGED <<file, onDisk, up, adapters, latched, jobs, page, wanted, asks, restarts>>

(* The form takes what it shows for saved; a lost answer leaves it dirty.   *)
Answer(c) ==
  /\ call[c].step = "answer" /\ Refuse(c)
  /\ \/ /\ c = "form"
        /\ form' = [form EXCEPT !.initial = form.values] /\ edited' = {}
     \/ UNCHANGED <<form, edited>>
  /\ UNCHANGED <<file, onDisk, daemon, lock, edits, wanted, asks, restarts>>

Next ==
  \/ Boot \/ Stop \/ OpenForm \/ Leave \/ Type \/ Save \/ AskOther
  \/ \E c \in Callers : Acquire(c) \/ Load(c) \/ Truncate(c) \/ Fill(c) \/ Reload(c) \/ Answer(c)
Spec == Init /\ [][Next]_vars

---------------------------------------------------------------------------
(* Properties                                                              *)

(* A saved form changes what its operator typed and nothing else: however   *)
(* old the values it shows, and whoever changes the settings meanwhile,     *)
(* every key holds what was last asked for it (ConfigForm.tsx:95-98,        *)
(* inflight.ts).                                                            *)
NoChangeUndone == \A config \in file, k \in Keys : config[k] = wanted[k]

=============================================================================
