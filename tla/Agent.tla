-------------------------------- MODULE Agent --------------------------------
(***************************************************************************)
(* One run of the agent loop: the conversation it keeps, the adapter that    *)
(* retries an answer without choices and joins the fragments of tool calls,   *)
(* the tool pipeline each call goes through, and the locks that stop a model   *)
(* from firing a write twice.  Any model is any answer.                        *)
(***************************************************************************)
EXTENDS Naturals, SequencesExt

CONSTANTS
  Tools,       \* names of the registry
  NoRetry,     \* those locked after the first attempt
  Once,        \* those locked after a success
  Callers,     \* runs: records [forced, filter, max]
  Answers,     \* raw answers: sequences of [fresh, name]; no call is a text
  MaxAttempts  \* requests for one answer

VARIABLES
  at,        \* what the run is at
  caller,
  messages,  \* the conversation, records [role, calls, id]
  step, attempt,
  pending,   \* calls of this answer still to run
  locked,    \* session locks
  reminded,  \* the reminder is the last message
  fired      \* history: how often each tool's execute was called
vars == <<at, caller, messages, step, attempt, pending, locked, reminded, fired>>

NoCaller == [forced |-> FALSE, filter |-> {}, max |-> 0]
Said(role) == [role |-> role, calls |-> <<>>, id |-> <<>>]
Asked(calls) == [role |-> "assistant", calls |-> [i \in DOMAIN calls |-> calls[i].id], id |-> <<>>]
Reply(call) == [role |-> "tool", calls |-> <<>>, id |-> call.id]

Init ==
  /\ at = "idle" /\ caller = NoCaller /\ messages = <<>> /\ step = 0 /\ attempt = 1
  /\ pending = <<>> /\ locked = {} /\ reminded = FALSE /\ fired = [t \in Tools |-> 0]

(* A command, a chat of the dashboard with what was said before, a health   *)
(* check, a screening.                                                       *)
Start(c) ==
  /\ at = "idle" /\ at' = "asking" /\ caller' = c
  /\ \E history \in {<<>>, <<Said("user"), Said("assistant")>>} :
       messages' = <<Said("system")>> \o history \o <<Said("user")>>
  /\ UNCHANGED <<step, attempt, pending, locked, reminded, fired>>

---------------------------------------------------------------------------
(* The adapter: an answer without choices is asked for again, unless it     *)
(* says that the request is at fault; then, or when the call throws, so does *)
(* the run.                                                                  *)
NoChoices ==
  /\ at = "asking"
  /\ \/ attempt < MaxAttempts /\ attempt' = attempt + 1 /\ at' = at
     \/ attempt' = attempt /\ at' = "threw"
  /\ UNCHANGED <<caller, messages, step, pending, locked, reminded, fired>>

(* An entry without id and name continues the call before it; what is left  *)
(* without a name is dropped.                                                *)
MergeToolCallFragments(raw) ==
  LET named  == {i \in DOMAIN raw : (raw[i].fresh \/ i = 1) /\ raw[i].name # ""}
      Nth(n) == CHOOSE i \in named : Cardinality({j \in named : j <= i}) = n
  IN  [n \in 1 .. Cardinality(named) |-> [id |-> <<step, Nth(n)>>, name |-> raw[Nth(n)].name]]

Heard(raw) == at = "asking" /\ attempt' = 1 /\ raw \in Answers

Text(raw) ==
  /\ Heard(raw) /\ MergeToolCallFragments(raw) = <<>>
  /\ \E empty \in BOOLEAN :
       IF caller.forced /\ step = 0 /\ ~empty /\ ~reminded
       THEN /\ messages' = messages \o <<Said("assistant"), Said("user")>>
            /\ reminded' = TRUE
            /\ step' = step + 1
            /\ at' = IF step' = caller.max THEN "done" ELSE "asking"
       ELSE /\ messages' = Append(messages, Said("assistant"))
            /\ at' = "done" /\ UNCHANGED <<reminded, step>>
  /\ UNCHANGED <<caller, pending, locked, fired>>

Calls(raw) ==
  /\ Heard(raw) /\ MergeToolCallFragments(raw) # <<>>
  /\ pending' = MergeToolCallFragments(raw)
  /\ messages' = Append(messages, Asked(pending'))
  /\ reminded' = FALSE /\ at' = "running"
  /\ UNCHANGED <<caller, step, locked, fired>>

---------------------------------------------------------------------------
(* executeTool.  The registry is the whole one whatever the filter says.    *)
Call == Head(pending)
Replied ==
  /\ pending' = Tail(pending) /\ messages' = Append(messages, Reply(Call))
  /\ UNCHANGED <<caller, attempt, reminded, step, at>>

(* Mutant: only a success locks.                                            *)
LocksOnSuccess(name, success) ==
  IF success /\ name \in NoRetry \cup Once THEN locked \cup {name} ELSE locked
RecordAfter(name, success) ==
  IF name \in NoRetry \/ (success /\ name \in Once) THEN locked \cup {name} ELSE locked

Running == at = "running" /\ pending # <<>>
CheckBefore(name) == name \notin locked

(* Mutant: a blocked call is skipped.                                       *)
LockedSilently ==
  /\ Running /\ ~CheckBefore(Call.name) /\ pending' = Tail(pending)
  /\ UNCHANGED <<caller, attempt, reminded, step, at, messages, locked, fired>>
Locked == Running /\ ~CheckBefore(Call.name) /\ Replied /\ UNCHANGED <<locked, fired>>

Unknown ==
  /\ Running /\ Call.name \notin Tools /\ Replied /\ UNCHANGED <<locked, fired>>

(* Arguments that do not parse or validate, or a gate that blocks.          *)
Rejected ==
  /\ Running /\ CheckBefore(Call.name) /\ Call.name \in Tools /\ Replied
  /\ locked' = RecordAfter(Call.name, FALSE) /\ UNCHANGED fired

(* The gates are outside the try: one that throws ends the run.             *)
GateThrows ==
  /\ Running /\ CheckBefore(Call.name) /\ Call.name \in Tools
  /\ at' = "threw"
  /\ UNCHANGED <<caller, messages, step, attempt, pending, locked, reminded, fired>>

(* Execute answers, answers what does not validate, or throws part way.     *)
Executed ==
  /\ Running /\ CheckBefore(Call.name) /\ Call.name \in Tools /\ Replied
  /\ fired' = [fired EXCEPT ![Call.name] = @ + 1]
  /\ \E success \in BOOLEAN : locked' = RecordAfter(Call.name, success)

StepEnds ==
  /\ at = "running" /\ pending = <<>> /\ step' = step + 1
  /\ at' = IF step' = caller.max THEN "done" ELSE "asking"
  /\ UNCHANGED <<caller, messages, attempt, pending, locked, reminded, fired>>

Next ==
  \/ \E c \in Callers : Start(c)
  \/ NoChoices \/ \E raw \in Answers : Text(raw) \/ Calls(raw)
  \/ Locked \/ Unknown \/ Rejected \/ GateThrows \/ Executed \/ StepEnds
Spec == Init /\ [][Next]_vars

---------------------------------------------------------------------------
Answered(i) ==
  LET ids == messages[i].calls
  IN  /\ i + Len(ids) <= Len(messages)
      /\ \A n \in DOMAIN ids : messages[i + n].role = "tool" /\ messages[i + n].id = ids[n]
AsksFor(i, j) == j < i /\ i <= j + Len(messages[j].calls)

(* What the loop sends is a conversation a provider accepts: every message   *)
(* with tool calls is followed by one reply to each of them, in order, no     *)
(* reply stands without its call, and the last word is not the model's, after *)
(* blocked, unknown, rejected and failed calls and joined fragments alike     *)
(* (src/src/app/agent/loop.ts:140, "so history stays API-valid").            *)
RequestIsValid ==
  at = "asking" =>
    /\ \A i \in DOMAIN messages :
         /\ messages[i].role = "assistant" => Answered(i)
         /\ messages[i].role = "tool" => \E j \in DOMAIN messages : AsksFor(i, j)
    /\ messages[Len(messages)].role # "assistant"

(* A write that must not be retried is started at most once in a run, also   *)
(* when it failed, when its result did not validate, and when one answer      *)
(* asks for it twice (src/src/app/agent/session-locks.ts:12).                *)
FiresOnce == \A t \in NoRetry : fired[t] <= 1
=============================================================================
