------------------------------ MODULE Telegram ------------------------------
(***************************************************************************)
(* The operator's commands: Telegram's queue of updates, the long-poll loop *)
(* that reads it with an offset kept in memory, the router that runs one     *)
(* command at a time, the scheduler the commands pause, and the daemon that   *)
(* is stopped, crashes, and is started again by its supervisor with an        *)
(* offset of 0.                                                               *)
(***************************************************************************)
EXTENDS Naturals, SequencesExt

CONSTANTS
  Messages,     \* what may be sent: records [cmd, n, known]
  Positions,
  Slots,        \* jobs of the scheduler
  MaxMessages,  \* bound
  MaxTools,     \* bound: tool calls of one free-form message
  MaxRestarts   \* bound

VARIABLES
  sent,      \* Telegram: every update so far, its index is its id
  acked,     \* Telegram: updates below it are never delivered again
  up,
  offset, batch, doing,   \* the daemon's memory: loop and command in progress
  paused, running,        \* its scheduler
  open,      \* positions on chain, in the order the snapshot lists them
  handled,   \* history: ids whose handler has ended
  restarts

memory == <<offset, batch, doing, paused, running>>
vars == <<sent, acked, up, memory, open, handled, restarts>>

Nothing == [id |-> 0, at |-> "none", todo |-> <<>>, left |-> 0]
(* Mutant: the offset is kept on disk.                                     *)
BootedWithOffset ==
  /\ offset' = offset /\ batch' = <<>> /\ doing' = Nothing
  /\ paused' = FALSE /\ running' = {}
Booted ==
  /\ offset' = 0 /\ batch' = <<>> /\ doing' = Nothing
  /\ paused' = FALSE /\ running' = {}

Init ==
  /\ sent = <<>> /\ acked = 0 /\ up = TRUE
  /\ offset = 0 /\ batch = <<>> /\ doing = Nothing
  /\ paused = FALSE /\ running = {}
  /\ open = SetToSeq(Positions) /\ handled = {} /\ restarts = 0

Larger(a, b) == IF a > b THEN a ELSE b
Msg == sent[doing.id]

---------------------------------------------------------------------------
(* The long poll.                                                          *)
Send(m) ==
  /\ Len(sent) < MaxMessages /\ sent' = Append(sent, m)
  /\ UNCHANGED <<acked, up, memory, open, handled, restarts>>

Polling == up /\ batch = <<>> /\ doing = Nothing

(* The request tells Telegram that everything below the offset has arrived. *)
Poll ==
  /\ Polling /\ acked' = Larger(acked, offset)
  /\ LET before == Larger(acked', 1) - 1
     IN  \E n \in 0 .. (Len(sent) - before) : batch' = [i \in 1 .. n |-> before + i]
  /\ UNCHANGED <<sent, up, offset, doing, paused, running, open, handled, restarts>>

(* No answer, a bad status or a body that does not parse: the request may have arrived. *)
PollFails ==
  /\ Polling /\ acked' = Larger(acked, offset)
  /\ UNCHANGED <<sent, up, memory, open, handled, restarts>>

(* Only the operator's chat, and in a group only the users it lists.       *)
IsAuthorized(m) == m.known

Take ==
  /\ up /\ batch # <<>> /\ doing = Nothing
  /\ LET id == Head(batch)
     IN  /\ offset' = Larger(offset, id + 1)
         /\ doing' = IF IsAuthorized(sent[id])
                     THEN [id |-> id, at |-> "routed", todo |-> <<>>, left |-> MaxTools]
                     ELSE Nothing
  /\ batch' = Tail(batch)
  /\ UNCHANGED <<sent, acked, up, paused, running, open, handled, restarts>>

At(cmds, at) == up /\ doing.at = at /\ Msg.cmd \in cmds

(* The handler has returned, or has thrown into the catch around it.       *)
Done == doing' = Nothing /\ handled' = handled \cup {doing.id}

---------------------------------------------------------------------------
(* The router.                                                             *)
Answers ==
  /\ At({"/help", "/status"}, "routed") /\ Done
  /\ UNCHANGED <<sent, acked, up, offset, batch, paused, running, open, restarts>>

CronControl ==
  /\ At({"/pause", "/resume"}, "routed") /\ Done
  /\ paused' = (Msg.cmd = "/pause")
  /\ UNCHANGED <<sent, acked, up, offset, batch, running, open, restarts>>

(* shutdown: stop the timers and exit, whatever the jobs are in the middle of. *)
Shutdown ==
  /\ At({"/stop"}, "routed") /\ up' = FALSE /\ Booted
  /\ UNCHANGED <<sent, acked, open, handled, restarts>>

(* The read that a command starts with; when it throws, the handler does.  *)
ReadFails ==
  /\ At({"/close", "/closeall", "/deploy", "agent"}, "routed") /\ Done
  /\ UNCHANGED <<sent, acked, up, offset, batch, paused, running, open, restarts>>

Close(n) == IF n \in DOMAIN open THEN <<open[n]>> ELSE <<>>
Reads ==
  /\ At({"/close", "/closeall", "agent"}, "routed")
  /\ doing' = [doing EXCEPT !.at = "acting",
                 !.todo = CASE Msg.cmd = "/close" -> Close(Msg.n)
                            [] Msg.cmd = "/closeall" -> open
                            [] OTHER -> <<>>]
  /\ UNCHANGED <<sent, acked, up, offset, batch, paused, running, open, handled, restarts>>

(* closeViaTool for the next one: it never throws, and may not have closed. *)
CloseNext ==
  /\ At({"/close", "/closeall"}, "acting") /\ doing.todo # <<>>
  /\ doing' = [doing EXCEPT !.todo = Tail(@)]
  /\ open' \in {open, Remove(open, Head(doing.todo))}
  /\ UNCHANGED <<sent, acked, up, offset, batch, paused, running, handled, restarts>>
NoneLeft ==
  /\ At({"/close", "/closeall"}, "acting") /\ doing.todo = <<>> /\ Done
  /\ UNCHANGED <<sent, acked, up, offset, batch, paused, running, open, restarts>>

Opened == {Append(open, p) : p \in Positions \ ToSet(open)}
Closed == {Remove(open, p) : p \in ToSet(open)}

(* Straight to the chain client: no gate and no hook of deploy_position.   *)
Deploy ==
  /\ At({"/deploy"}, "routed") /\ Done
  /\ open' \in {open} \cup Opened
  /\ UNCHANGED <<sent, acked, up, offset, batch, paused, running, restarts>>

(* A free-form message: tools as long as the model asks for them.          *)
AgentTool ==
  /\ At({"agent"}, "acting") /\ doing.left > 0
  /\ doing' = [doing EXCEPT !.left = @ - 1]
  /\ open' \in {open} \cup Opened \cup Closed
  /\ UNCHANGED <<sent, acked, up, offset, batch, paused, running, handled, restarts>>
AgentReplies ==
  /\ At({"agent"}, "acting") /\ Done
  /\ UNCHANGED <<sent, acked, up, offset, batch, paused, running, open, restarts>>

---------------------------------------------------------------------------
(* The scheduler: a slot never overlaps itself; a paused one does nothing. *)
Fire(s) ==
  /\ up /\ ~paused /\ s \notin running
  /\ running' = running \cup {s}
  /\ UNCHANGED <<sent, acked, up, offset, batch, doing, paused, open, handled, restarts>>
JobEnds(s) ==
  /\ up /\ s \in running /\ running' = running \ {s}
  /\ open' \in {open} \cup Opened \cup Closed
  /\ UNCHANGED <<sent, acked, up, offset, batch, doing, paused, handled, restarts>>

Crash ==
  /\ up /\ restarts < MaxRestarts /\ up' = FALSE /\ Booted
  /\ UNCHANGED <<sent, acked, open, handled, restarts>>
Boot ==
  /\ ~up /\ restarts < MaxRestarts /\ up' = TRUE /\ restarts' = restarts + 1
  /\ UNCHANGED <<sent, acked, memory, open, handled>>

Next ==
  \/ \E m \in Messages : Send(m)
  \/ Poll \/ PollFails \/ Take
  \/ Answers \/ CronControl \/ Shutdown \/ ReadFails \/ Reads
  \/ CloseNext \/ NoneLeft \/ Deploy \/ AgentTool \/ AgentReplies
  \/ \E s \in Slots : Fire(s) \/ JobEnds(s)
  \/ Crash \/ Boot

Spec == Init /\ [][Next]_vars

(* Every command that Telegram will not deliver again, because an offset    *)
(* went past it, has had its handler run to its end: whatever poll fails,    *)
(* handler throws or daemon dies in between, no command of the operator is    *)
(* lost (src/src/adapters/notify/telegram-inbound.ts:118).                   *)
AckedIsHandled ==
  \A id \in 1 .. Len(sent) : (id < acked /\ IsAuthorized(sent[id])) => id \in handled
=============================================================================
