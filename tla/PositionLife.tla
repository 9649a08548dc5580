---------------------------- MODULE PositionLife ----------------------------
(***************************************************************************)
(* One open position under the two tickers that may end it, with prices,   *)
(* ages and charts: the values Management leaves open.  A tick is one      *)
(* step; the interleavings inside a tick are Management's subject.         *)
(***************************************************************************)
EXTENDS ExitRules

CONSTANTS
  Readings,   \* what a chain read may say of the position
  Charts,     \* what the two timeframes may show
  Peaks,      \* nullable peaks a record of the former daemon may carry
  Config,     \* the management section, with any of the two exit switches
  MaxAge      \* bound: minutes are counted up to here

VARIABLES
  open,       \* on chain
  old,        \* minutes since it was opened
  age,        \* nullable minutes since the record's deployed_at; {} without a record
  out,        \* nullable minutes since the record's out_of_range_since
  seenIn,     \* minutes since a management tick last saw it in range, or was first
  watch,      \* nullable bounce watch of the record
  cooling,    \* nullable minutes since Sage was last asked
  peak,       \* nullable peak_pnl_pct of the record
  pending,    \* nullable trailing drop queued in the poller
  smart,      \* management.smartExitEnabled, for good
  bounce,     \* management.bounceExitEnabled, changed on the fly
  end         \* [by, why, pnl] of the sale

vars == <<open, old, age, out, seenIn, watch, cooling, peak, pending, smart, bounce, end>>

cfg       == [Config EXCEPT !.smart = smart, !.bounce = bounce]
(* A reading, with what the record knows.                                  *)
Known(reading, a, m) ==
  [age |-> a, outFor |-> m, pnl |-> reading.pnl, suspicious |-> reading.suspicious,
   where |-> reading.where, inRange |-> reading.inRange, fee |-> reading.fee]
Later(m)  == IF m < MaxAge THEN m + 1 ELSE m
LaterN(n) == {Later(m) : m \in n}
Aged(w)   == {[x EXCEPT !.minutes = Later(@)] : x \in w}
Unsold    == [by |-> "nobody", why |-> {}, pnl |-> {}]

Init ==
  /\ open = TRUE /\ old = 0 /\ seenIn = 0
  /\ \/ age = {} /\ peak = {}
     \/ age = {0} /\ peak \in Peaks
  /\ out = {} /\ watch = {} /\ cooling = {} /\ pending = {}
  /\ smart \in BOOLEAN /\ bounce \in BOOLEAN /\ end = Unsold

Clock ==
  /\ open /\ old' = Later(old) /\ seenIn' = Later(seenIn)
  /\ age' = LaterN(age) /\ out' = LaterN(out) /\ cooling' = LaterN(cooling)
  /\ watch' = Aged(watch) /\ pending' = Aged(pending)
  /\ UNCHANGED <<open, peak, smart, bounce, end>>

(* The tracking hook of deploy_position. *)
Track ==
  /\ open /\ age = {} /\ age' = {0} /\ peak' = {0}
  /\ UNCHANGED <<open, old, out, seenIn, watch, cooling, pending, smart, bounce, end>>

FlipBounce ==
  /\ open /\ bounce' = ~bounce
  /\ UNCHANGED <<smart, open, old, age, out, seenIn, watch, cooling, peak, pending, end>>

Restart ==
  /\ pending # {} /\ pending' = {}
  /\ UNCHANGED <<open, old, age, out, seenIn, watch, cooling, peak, smart, bounce, end>>

Sell(by, why, pnl) == open' = FALSE /\ end' = [by |-> by, why |-> why, pnl |-> pnl]
Hold               == UNCHANGED <<open, end>>

---------------------------------------------------------------------------
(* A poller tick.  "exempt": the followed wallet owns the exit; "refused": *)
(* the watch cannot be written, the chain does not take the close.         *)

Luck == {"fine", "exempt", "refused"}

PollerTick(reading, luck) ==
  LET r      == Known(reading, IF age = {} THEN {0} ELSE age, 0)
      answer == TickPnlPoller(r, watch, peak, pending, cfg)
      arms   == answer.action = "ARM" /\ luck = "fine"
      sells  == \/ answer.action = "ARM" /\ luck = "refused"
                \/ answer.action = "CLOSE" /\ luck = "fine"
  IN  /\ open
      /\ \/ /\ luck = "exempt" /\ Hold /\ UNCHANGED watch
            /\ pending' = {q \in pending : q.minutes < cfg.confirmDelay}
         \/ /\ luck # "exempt" /\ pending' = answer.pending
            /\ watch' = IF arms THEN {ArmBounceWatch(p) : p \in r.pnl} ELSE watch
            /\ IF sells THEN Sell("poller", answer.why, r.pnl) ELSE Hold
      /\ UNCHANGED <<old, age, out, seenIn, cooling, peak, smart, bounce>>

---------------------------------------------------------------------------
(* A management tick, over a reading, a chart and the age of the record.   *)

KeepOutSince(inRange) ==                                      \* mutant: never over
  IF out = {} /\ ~inRange THEN {0} ELSE out
OutOfRange(inRange) ==
  IF inRange THEN {} ELSE IF out = {} THEN {0} ELSE out

(* resolveEscalation: the cooldown, Sage's verdict, or the fallback.       *)
Asleep == \E m \in cooling : m < cfg.sageCooldown
Resolved(r) ==
  IF Asleep THEN {"STAY"} ELSE {Fallback(r)} \cup (IF cfg.sage THEN {"CLOSE", "STAY"} ELSE {})

ManagementTick(reading, chart, luck) ==
  /\ open
  /\ \E a \in IF age = {} THEN {{0}, {old}} ELSE {age} :
       LET outNow == OutOfRange(reading.inRange)
           r      == Known(reading, a, IF outNow = {} THEN 0 ELSE CHOOSE m \in outNow : TRUE)
           plan   == PlanForPosition(r, chart, watch, cfg)
           kept   == luck = "exempt" /\ plan.action \in {"CLOSE", "ESCALATE"}
           arms   == /\ ~kept /\ smart /\ bounce /\ plan.action = "CLOSE"
                     /\ IsBounceTrigger(plan.regime, r)
           asks   == ~kept /\ plan.action = "ESCALATE"
       IN  /\ age' = a /\ out' = outNow
           /\ peak' = IF age = {} THEN {0} ELSE peak
           /\ watch' = IF ~(smart /\ bounce) THEN {}
                       ELSE IF arms /\ watch = {} THEN {ArmBounceWatch(p) : p \in r.pnl}
                       ELSE watch
           /\ cooling' = IF asks /\ cfg.sage /\ ~Asleep THEN {0} ELSE cooling
           /\ \E action \in IF asks THEN Resolved(r) ELSE IF kept \/ arms THEN {"STAY"} ELSE {plan.action} :
                IF action = "CLOSE" /\ luck = "fine"
                THEN Sell("management", plan.why, r.pnl) ELSE Hold
  /\ seenIn' = IF reading.inRange THEN 0 ELSE seenIn
  /\ UNCHANGED <<old, pending, smart, bounce>>

Next ==
  \/ Clock \/ Track \/ FlipBounce \/ Restart
  \/ \E r \in Readings, luck \in Luck :
       \/ PollerTick(r, luck)
       \/ \E chart \in Charts : ManagementTick(r, chart, luck)

Spec == Init /\ [][Next]_vars
(* The ticks recur, the wallet of another is not always there to own the   *)
(* exit, and the chain takes a close in the end.                           *)
FairTick == \E r \in Readings, chart \in Charts : ManagementTick(r, chart, "fine")
FairSpec == Spec /\ WF_vars(Clock) /\ WF_vars(FairTick)

---------------------------------------------------------------------------
(* Properties                                                              *)

Engine == {"catastrophic", "dying", "CATASTROPHIC", "DYING", "AMBIGUOUS"}

(* "a data-quality window": while the datapi may not have indexed the      *)
(* deposit, the smart exit neither sells on a pnl nor arms a watch,        *)
(* whoever looks and whether or not the record is there                    *)
(* (close-rules.ts:21-31, pnl-poller.ts:301-306).                          *)
WarmupHolds ==
  [][smart /\ old < PnlWarmupMinutes =>
       /\ watch' \subseteq watch
       /\ open' \/ end'.why \cap Engine = {}]_vars

(* Each sale is true to what was seen.  One under a watch: the value rose  *)
(* or fell by the configured share since the trigger, or time was up       *)
(* (bounce-exit.ts:6-21).  One for being above the range: no management    *)
(* tick saw the position inside for the whole wait.  A trailing one: the   *)
(* drop was seen twice, a delay apart (pnl-poller.ts:42-55).  A static     *)
(* stop: with the smart exit off, after the grace (close-rules.ts:72-79).   *)
SoldOnTerms ==
  [][open /\ ~open' =>
       /\ smart /\ bounce /\ watch # {} =>
            \E w \in watch : \/ w.minutes >= cfg.bounceTimeout
                             \/ \E p \in end'.pnl : RoseBy(w, p, cfg.bounceTake) \/ FellBy(w, p, cfg.bounceStop)
       /\ end'.why = {"stop loss"} => ~smart /\ AtLeast(age', cfg.stopLossGrace, 0)
       /\ end'.why = {"OOR"} => seenIn >= cfg.outOfRangeWait
       /\ end'.why = {"trailing"} =>
            \E q \in pending, p \in end'.pnl :
               /\ q.minutes >= cfg.confirmDelay
               /\ q.peak - p >= cfg.trailingDrop - cfg.confirmTolerance]_vars

(* A watch never hangs: the position is sold, or the watch is dropped when *)
(* the feature is switched off, even with a pnl nobody can read.           *)
WatchEnds == watch # {} ~> (watch = {} \/ ~open)
=============================================================================
