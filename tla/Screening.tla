------------------------------ MODULE Screening ------------------------------
(***************************************************************************)
(* Who opens positions, and how the attempts meet: the screening cycle     *)
(* (src/src/app/screening/cycle.ts) with its local agent loop              *)
(* (app/agent/loop.ts) or its outside decider "Sage", the dashboard bridge *)
(* that Sage and the user write through (adapters/dashboard/routes.ts),    *)
(* the follow cycle, and the agent loops outside the cycle: of a Telegram  *)
(* message, of the health check, of each chat.  Those end in executeTool   *)
(* (app/tools/execute.ts): gates, the write, the post hooks.  Telegram's   *)
(* /deploy does not: it calls the chain client, past gates, lock and hooks. *)
(*                                                                         *)
(* A step ends where the code awaits something another route can change.   *)
(* A forced chain read shows every deploy that landed.  Screening numbers  *)
(* are left open: any subset of the pools may pass a filter (the filters   *)
(* themselves are in ScreenRules).                                         *)
(***************************************************************************)
EXTENDS Integers, Sequences, FiniteSets

CONSTANTS
  Pools,
  Handlers,      \* requests the bridge can be serving at once
  Chats,         \* further agent loops: the health check's, one per chat
  Companies,     \* sets of routes that deploy in a behaviour, beside cycle and bridge
  MaxPositions,  \* risk.maxPositions
  Funds,         \* deploys the whole wallet could pay for
  Reserve,       \* management.gasReserve, in deploys
  Faults,        \* see FaultKinds
  MaxCycles,     \* bound: screening cycles
  MaxDeploys,    \* bound: positions ever opened
  MaxSteps       \* bound: answers of the model in one loop (8 in the code)

FaultKinds ==
  {"lost_confirmation", \* a deploy lands and its call still fails
   "discovery",         \* get_top_candidates fails
   "model_down"}        \* the chat completion throws

ASSUME RoutesAssumption ==
  /\ IsFiniteSet(Chats) /\ Handlers \cap Chats = {}
  /\ (Handlers \cup Chats) \cap {"loop", "follow", "telegram", "bridge"} = {}
  /\ Companies \subseteq SUBSET ({"follow", "telegram", "hand"} \cup Chats)
ASSUME BoundsAssumption ==
  /\ {MaxPositions, Funds, Reserve, MaxCycles, MaxDeploys, MaxSteps} \subseteq Nat
  /\ Faults \subseteq FaultKinds /\ IsFiniteSet(Handlers)

VARIABLES
  decider,   \* screening.decider: "loop" or "sage"
  company,   \* the routes that deploy beside the cycle and the bridge
  made,      \* every position opened, in order, and whether the tool reported success
  live,      \* those still open
  cooling,   \* pools inside their cooldown window
  log,       \* decision-log.json
  calls,     \* per route, the deploy call it is in
  busy,      \* the bridge's lock on deploy_position
  seen,      \* cycle ids the bridge has committed
  thinking,  \* cycles whose Sage session is still running
  \* ---- locals of the cycle ----
  pc, cycle, before, steps, locked, fired

stores  == <<made, live, cooling, log>>
bridge  == <<busy, seen, thinking>>
session == <<steps, locked, fired>>
locals  == <<pc, cycle, before, session>>
settings == <<decider, company>>
vars    == <<settings, stores, calls, bridge, locals>>

Others  == {"follow", "telegram"} \cup Chats
Routes  == Handlers \cup {"loop"} \cup Others
Cycles  == 1..MaxCycles
NoCycle == 0                      \* a write that no screening cycle asked for
NoCall  == [step |-> "idle", pool |-> {}, cycle |-> NoCycle, at |-> 0, ok |-> FALSE]
Balance == Funds - Cardinality(live)

Entry(kind, c, at) == [kind |-> kind, cycle |-> c, at |-> at]

Init ==
  /\ decider \in {"loop", "sage"} /\ company \in Companies
  /\ made = <<>> /\ live = {} /\ cooling = {} /\ log = {}
  /\ calls = [r \in Routes |-> NoCall]
  /\ busy = FALSE /\ seen = {} /\ thinking = {}
  /\ pc = "idle" /\ cycle = 0 /\ before = {}
  /\ steps = 0 /\ locked = FALSE /\ fired = FALSE

---------------------------------------------------------------------------
(* executeTool for deploy_position and follow_deploy_position              *)

StartCall(r, p, c) ==
  /\ Len(made) < MaxDeploys
  /\ calls' = [calls EXCEPT ![r] = [NoCall EXCEPT !.step = "gates", !.pool = {p}, !.cycle = c]]

Step(r, s)   == calls' = [calls EXCEPT ![r].step = s]
Fail(r)      == calls' = [calls EXCEPT ![r].step = "done", ![r].ok = FALSE]

(* The cooldown gate is the screener's alone, the balance gate is shared.   *)
(* A gate whose own read fails throws to the caller, to whom the write has  *)
(* failed; the local loop is then over too, as when the model is down.      *)
GatesRefuse(r) ==
  \/ r # "follow" /\ calls[r].pool \cap cooling # {}
  \/ Balance < 1 + Reserve
PassGates(r) ==
  /\ calls[r].step = "gates"
  /\ IF GatesRefuse(r) THEN Fail(r) ELSE Step(r, "cap")
  /\ UNCHANGED <<settings, stores, bridge, locals>>

(* The count is read here; the deploy it allows comes later. *)
CheckCap(r) ==
  /\ calls[r].step = "cap"
  /\ IF Cardinality(live) >= MaxPositions THEN Fail(r) ELSE Step(r, "send")
  /\ UNCHANGED <<settings, stores, bridge, locals>>

Land(r) ==
  /\ calls[r].step = "send" /\ Len(made) < MaxDeploys /\ Balance >= 1
  /\ \E ok \in {TRUE} \cup (IF "lost_confirmation" \in Faults THEN {FALSE} ELSE {}) :
       /\ made' = Append(made, [pool |-> calls[r].pool, cycle |-> calls[r].cycle, ok |-> ok, byHand |-> FALSE])
       /\ IF ok THEN calls' = [calls EXCEPT ![r].step = "track", ![r].at = Len(made) + 1]
                ELSE Fail(r)
  /\ live' = live \cup {Len(made) + 1}
  /\ UNCHANGED <<settings, cooling, log, bridge, locals>>

NotSent(r) ==
  /\ calls[r].step = "send"
  /\ Fail(r)
  /\ UNCHANGED <<settings, stores, bridge, locals>>

(* A hook that throws is caught; the next one runs all the same. *)
TrackAbortsHooks(r) ==                                 \* mutant: it ends the chain
  /\ calls[r].step = "track"
  /\ \/ Step(r, "log")
     \/ calls' = [calls EXCEPT ![r].step = "done", ![r].ok = TRUE]
  /\ UNCHANGED <<settings, stores, bridge, locals>>
TrackAndNotify(r) ==
  /\ calls[r].step = "track"
  /\ Step(r, "log")
  /\ UNCHANGED <<settings, stores, bridge, locals>>

LogDeploy(r) ==
  /\ calls[r].step = "log"
  /\ log' = log \cup {Entry("deploy", calls[r].cycle, calls[r].at)}
  /\ calls' = [calls EXCEPT ![r].step = "done", ![r].ok = TRUE]
  /\ UNCHANGED <<settings, made, live, cooling, bridge, locals>>

RunTool(r) ==
  PassGates(r) \/ CheckCap(r) \/ Land(r) \/ NotSent(r) \/ TrackAndNotify(r) \/ LogDeploy(r)

---------------------------------------------------------------------------
(* POST /tool: Sage within a cycle, or the user                            *)

(* Requests are interchangeable: the first free handler takes the next. *)
Free(h) == h = CHOOSE x \in Handlers : calls[x].step = "idle"

AskUnlocked(h, p, c) ==                               \* mutant: no lock per tool
  /\ calls[h].step = "idle" /\ Free(h) /\ c \notin seen
  /\ busy' = TRUE /\ StartCall(h, p, c)
  /\ UNCHANGED <<settings, stores, seen, thinking, locals>>
(* Anything else is answered 409 and changes nothing. *)
Ask(h, p, c) ==
  /\ calls[h].step = "idle" /\ Free(h)
  /\ c \notin seen
  /\ ~busy
  /\ busy' = TRUE /\ StartCall(h, p, c)
  /\ UNCHANGED <<settings, stores, seen, thinking, locals>>

SageAsks(h) == \E p \in Pools, c \in thinking : Ask(h, p, c)
UserAsks(h) == \E p \in Pools : Ask(h, p, NoCycle)

(* The key is committed only by a call that succeeded; the answer may never *)
(* reach Sage, who may then ask again.                                      *)
Answer(h) ==
  /\ calls[h].step = "done"
  /\ seen' = IF calls[h].ok /\ calls[h].cycle # NoCycle THEN seen \cup {calls[h].cycle} ELSE seen
  /\ busy' = FALSE
  /\ calls' = [calls EXCEPT ![h] = NoCall]
  /\ UNCHANGED <<settings, stores, thinking, locals>>

---------------------------------------------------------------------------
(* The screening cycle                                                     *)

Goto(s) == pc' = s
EndCycle(kind) ==
  /\ log' = log \cup (IF kind = "silent" THEN {} ELSE {Entry(kind, cycle, 0)})
  /\ pc' = "idle" /\ before' = {} /\ steps' = 0 /\ locked' = FALSE /\ fired' = FALSE

(* The balance and the forced position list, read together; at the cap or  *)
(* short of SOL the cycle records a skip and is over.                       *)
Preflight ==
  /\ pc = "idle" /\ cycle < MaxCycles
  /\ cycle' = cycle + 1
  /\ IF Cardinality(live) >= MaxPositions \/ Balance < 1 + Reserve
     THEN /\ log' = log \cup {Entry("skip", cycle + 1, 0)}
          /\ UNCHANGED <<pc, before>>
     ELSE /\ Goto("candidates") /\ before' = live
          /\ UNCHANGED log
  /\ UNCHANGED <<settings, made, live, cooling, calls, bridge, session>>

(* get_top_candidates: its failure ends the cycle with nothing recorded. *)
NoCandidates ==
  /\ pc = "candidates"
  /\ \/ "discovery" \in Faults /\ EndCycle("silent")
     \/ EndCycle("no_deploy")
  /\ UNCHANGED <<settings, made, live, cooling, calls, bridge, cycle>>
Candidates ==
  /\ pc = "candidates"
  /\ \E p \in Pools : p \notin cooling /\ \A i \in live : p \notin made[i].pool
  /\ Goto("gates")
  /\ UNCHANGED <<settings, stores, calls, bridge, cycle, before, session>>

(* The diligence caps, then the technical gate, over what was picked. *)
NoneLeft ==
  /\ pc = "gates"
  /\ EndCycle("no_deploy")
  /\ UNCHANGED <<settings, made, live, cooling, calls, bridge, cycle>>
Shortlist ==
  /\ pc = "gates"
  /\ IF decider = "sage"
     THEN Goto("sage") /\ thinking' = thinking \cup {cycle}
     ELSE Goto("loop") /\ UNCHANGED thinking
  /\ UNCHANGED <<settings, stores, calls, busy, seen, cycle, before, session>>

---------------------------------------------------------------------------
(* The local loop: the model answers with tool calls until it stops.       *)

ModelCalls(p) ==
  /\ pc = "loop" /\ calls["loop"].step = "idle" /\ steps < MaxSteps
  /\ steps' = steps + 1
  /\ IF locked THEN UNCHANGED calls ELSE StartCall("loop", p, cycle)
  /\ UNCHANGED <<settings, stores, bridge, pc, cycle, before, locked, fired>>

(* noRetry: the first attempt locks the tool, whatever became of it. *)
LockOnSuccess ==                                      \* mutant: only a success locks
  /\ calls["loop"].step = "done"
  /\ fired' = (fired \/ calls["loop"].ok)
  /\ locked' = (locked \/ calls["loop"].ok)
  /\ calls' = [calls EXCEPT !["loop"] = NoCall]
  /\ UNCHANGED <<settings, stores, bridge, pc, cycle, before, steps>>
RecordAttempt ==
  /\ calls["loop"].step = "done"
  /\ fired' = (fired \/ calls["loop"].ok)
  /\ locked' = TRUE
  /\ calls' = [calls EXCEPT !["loop"] = NoCall]
  /\ UNCHANGED <<settings, stores, bridge, pc, cycle, before, steps>>

LoopEnds ==
  /\ pc = "loop" /\ calls["loop"].step = "idle"
  /\ \/ EndCycle(IF fired THEN "silent" ELSE "declined")
     \/ "model_down" \in Faults /\ EndCycle("silent")
  /\ UNCHANGED <<settings, made, live, cooling, calls, bridge, cycle>>

---------------------------------------------------------------------------
(* Delegation to Sage                                                      *)

Asking(c) == \E h \in Handlers : calls[h].step # "idle" /\ calls[h].cycle = c

(* Sage's turn ends once its own tool calls are answered. *)
SageStops(c) ==
  /\ c \in thinking /\ ~Asking(c)
  /\ thinking' = thinking \ {c}
  /\ UNCHANGED <<settings, stores, calls, busy, seen, locals>>

(* decide(): the answer is in, or it is not.                                *)
Decided(answer) == pc = "sage" /\ (cycle \notin thinking) = answer

DetectDeploy == live \ before # {}

(* With the answer in hand, a position that was not there before is taken  *)
(* as Sage's deploy.                                                        *)
TrustAnswer ==                                        \* mutant: the text alone is believed
  /\ Decided(TRUE)
  /\ \E said \in {"silent", "declined"} : EndCycle(said)
  /\ UNCHANGED <<settings, made, live, cooling, calls, bridge, cycle>>
SageAnswered ==
  /\ Decided(TRUE)
  /\ EndCycle(IF DetectDeploy THEN "silent" ELSE "declined")
  /\ UNCHANGED <<settings, made, live, cooling, calls, bridge, cycle>>

(* Ninety seconds are up, or the transport failed: the request is dropped, *)
(* the session behind it is not.                                           *)
TimeoutWaitsForWrites ==                              \* mutant: never while a write runs
  /\ Decided(FALSE) /\ ~busy
  /\ EndCycle(IF DetectDeploy THEN "silent" ELSE "unreachable")
  /\ UNCHANGED <<settings, made, live, cooling, calls, bridge, cycle>>
SageTimesOut ==
  /\ Decided(FALSE)
  /\ EndCycle(IF DetectDeploy THEN "silent" ELSE "unreachable")
  /\ UNCHANGED <<settings, made, live, cooling, calls, bridge, cycle>>

---------------------------------------------------------------------------
(* The other routes, and what else moves                                   *)

(* The follow cycle, and a model that names deploy_position: the list a     *)
(* loop offers does not bind the calls it carries out.  No bridge lock.     *)
OtherDeploys(r) ==
  /\ r \in company
  /\ calls[r].step = "idle"
  /\ \E p \in Pools : StartCall(r, p, NoCycle)
  /\ UNCHANGED <<settings, stores, bridge, locals>>
OtherDone(r) ==
  /\ calls[r].step = "done"
  /\ calls' = [calls EXCEPT ![r] = NoCall]
  /\ UNCHANGED <<settings, stores, bridge, locals>>

(* /deploy, between the messages its handler takes one by one.  Whatever it *)
(* tells the user, no call of the tool has reported success.                *)
DeployByHand(p) ==
  /\ "hand" \in company
  /\ calls["telegram"].step = "idle" /\ Len(made) < MaxDeploys /\ Balance >= 1
  /\ made' = Append(made, [pool |-> {p}, cycle |-> NoCycle, ok |-> FALSE, byHand |-> TRUE])
  /\ live' = live \cup {Len(made) + 1}
  /\ UNCHANGED <<settings, cooling, log, calls, bridge, locals>>

(* A close, at a loss or not; only a loss stamps the pool. *)
Close(i) ==
  /\ i \in live
  /\ live' = live \ {i}
  /\ \E loss \in BOOLEAN : cooling' = IF loss THEN cooling \cup made[i].pool ELSE cooling
  /\ UNCHANGED <<settings, made, log, calls, bridge, locals>>
CooldownEnds(p) ==
  /\ p \in cooling
  /\ cooling' = cooling \ {p}
  /\ UNCHANGED <<settings, made, live, log, calls, bridge, locals>>

---------------------------------------------------------------------------
CycleStep ==
  \/ Preflight \/ NoCandidates \/ Candidates \/ NoneLeft \/ Shortlist
  \/ (\E p \in Pools : ModelCalls(p)) \/ RecordAttempt \/ LoopEnds
  \/ SageAnswered \/ SageTimesOut

Next ==
  \/ CycleStep
  \/ \E r \in Routes : RunTool(r)
  \/ \E h \in Handlers : SageAsks(h) \/ UserAsks(h) \/ Answer(h)
  \/ \E c \in Cycles : SageStops(c)
  \/ \E r \in Others : OtherDeploys(r) \/ OtherDone(r)
  \/ \E p \in Pools : DeployByHand(p)
  \/ \E i \in live : Close(i)
  \/ \E p \in Pools : CooldownEnds(p)

Spec == Init /\ [][Next]_vars

(* The cycle's own steps and the tool calls under way go on; the ninety     *)
(* second timer fires.  Nobody is obliged to ask, and Sage need not answer. *)
Fairness ==
  /\ WF_vars(Preflight \/ NoCandidates \/ Candidates \/ NoneLeft \/ Shortlist)
  /\ WF_vars(RecordAttempt) /\ WF_vars(LoopEnds)
  /\ WF_vars(SageAnswered \/ SageTimesOut)
  /\ \A r \in Routes : WF_vars(RunTool(r))
FairSpec == Spec /\ Fairness

---------------------------------------------------------------------------
(* Properties                                                              *)

CallType ==
  [step : {"idle", "gates", "cap", "send", "track", "log", "done"},
   pool : {{}} \cup {{p} : p \in Pools}, cycle : Cycles \cup {NoCycle},
   at : 0..MaxDeploys, ok : BOOLEAN]
MadeType ==
  [pool : {{}} \cup {{p} : p \in Pools}, cycle : Cycles \cup {NoCycle}, ok : BOOLEAN, byHand : BOOLEAN]
EntryType ==
  [kind : {"skip", "no_deploy", "declined", "unreachable", "deploy"},
   cycle : Cycles \cup {NoCycle}, at : 0..MaxDeploys]

(* The variables have their types. *)
TypeOK ==
  /\ decider \in {"loop", "sage"} /\ company \in Companies
  /\ made \in Seq(MadeType) /\ live \subseteq DOMAIN made /\ Len(made) <= MaxDeploys
  /\ cooling \subseteq Pools /\ log \subseteq EntryType
  /\ calls \in [Routes -> CallType]
  /\ busy \in BOOLEAN /\ seen \subseteq Cycles /\ thinking \subseteq Cycles
  /\ pc \in {"idle", "candidates", "gates", "loop", "sage"}
  /\ cycle \in 0..MaxCycles /\ before \subseteq DOMAIN made
  /\ steps \in 0..MaxSteps /\ locked \in BOOLEAN /\ fired \in BOOLEAN

(* A cycle opens at most one position.  The local loop keeps this even when *)
(* a deploy lands and reports failure (the tool is not retried); through    *)
(* the bridge a second one needs a first that reported failure, however     *)
(* often Sage asks again, late answers and lost answers included.           *)
OnePerCycle ==
  \A i, j \in DOMAIN made :
    i < j /\ made[i].cycle = made[j].cycle /\ made[i].cycle # NoCycle
      => decider = "sage" /\ ~made[i].ok

(* The count is checked before the write, so routes that deploy side by     *)
(* side can pass the cap, by one position per further route and no more:    *)
(* the bridge, Sage and the user behind it, counts as one route.  Positions *)
(* opened by hand come on top: /deploy is held to no count, though what it  *)
(* opened is counted against every other route.                             *)
Rivals    == {"bridge"} \cup (company \cap Others) \cup (IF decider = "loop" THEN {"loop"} ELSE {})
ByTool(S) == {i \in S : ~made[i].byHand}
CapOvershoot == Cardinality(ByTool(live)) <= MaxPositions + Cardinality(Rivals) - 1

(* A cycle that says it declined has opened nothing it knew of, then or     *)
(* later: not the loop, whose deploy would be in its trace, and not Sage,   *)
(* whose turn was over when the positions were compared.                    *)
(* (A position closed again before the comparison is the exception.)        *)
DeclineIsTrue ==
  \A e \in log, i \in DOMAIN made :
    e.kind = "declined" /\ made[i].cycle = e.cycle /\ made[i].ok => i \notin live

(* A deploy of executeTool that reported success is in the decision log by  *)
(* the time its caller hears of it, whatever the hooks before the log did.  *)
(* (One of /deploy never is.)                                               *)
LandedIsLogged ==
  \A i \in ByTool(DOMAIN made) :
    \/ ~made[i].ok
    \/ \E r \in Routes : calls[r].at = i /\ calls[r].step \in {"track", "log"}
    \/ Entry("deploy", made[i].cycle, i) \in log

(* A cycle that started comes to its end: a decider that hangs, or a write  *)
(* it left under way, holds no later cycle up.                              *)
CycleEnds == pc # "idle" ~> pc = "idle"
=============================================================================
