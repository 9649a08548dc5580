------------------------------ MODULE ExitRules ------------------------------
(***************************************************************************)
(* The pure rules that end a position: domain/rules/close-rules.ts,        *)
(* bounce-exit.ts and pnl.ts, and the two deciders built from them,        *)
(* planForPosition (app/management/cycle.ts) and tickPnlPoller             *)
(* (app/management/pnl-poller.ts).                                         *)
(*                                                                         *)
(* A nullable value is a set of at most one element, {} for null.  A       *)
(* percentage is a whole number, a duration a number of minutes.  Where a  *)
(* reading puts the active bin is "below", "in" or "above" the range, and  *)
(* what the datapi says of the range (inRange) may differ from it.  cfg is *)
(* the management section of the configuration.                            *)
(***************************************************************************)
EXTENDS Integers

CONSTANTS
  PnlWarmupMinutes,       \* PNL_WARMUP_MINUTES
  MinLowYieldAgeMinutes   \* MIN_LOW_YIELD_AGE_MINUTES

AtLeast(nullable, bound, default) ==
  \/ nullable = {} /\ default >= bound
  \/ \E v \in nullable : v >= bound

(* No caller of the running program passes the tracked amount, so only the *)
(* flag counts.                                                            *)
IsPnlSuspect(r) == r.suspicious
Readable(r)     == ~IsPnlSuspect(r) /\ r.pnl # {}

NeverWarm(age)      == FALSE                         \* mutant
IsInPnlWarmup(age)  == \E a \in age : a < PnlWarmupMinutes

---------------------------------------------------------------------------
(* The deterministic rules: nullable reason                                *)

GetDeterministicCloseRule(r, cfg, skipStopLoss) ==
  LET withinGrace == cfg.stopLossGrace > 0 /\ ~AtLeast(r.age, cfg.stopLossGrace, 0)
  IN  IF ~skipStopLoss /\ Readable(r) /\ ~withinGrace /\ (\E p \in r.pnl : p <= cfg.stopLoss)
      THEN {"stop loss"}
      ELSE IF Readable(r) /\ (\E p \in r.pnl : p >= cfg.takeProfit) THEN {"take profit"}
      ELSE IF r.where = "above" /\ r.outFor >= cfg.outOfRangeWait    THEN {"OOR"}
      ELSE IF (\E f \in r.fee : f < cfg.minFee) /\ AtLeast(r.age, MinLowYieldAgeMinutes, 0)
      THEN {"low yield"}
      ELSE {}

---------------------------------------------------------------------------
(* The regime engine.  A chart is a record of the two timeframes; each row *)
(* has trend, floor and atr (nullable), candles and reds.                  *)

PresentTrends(chart) == chart.slow.trend \cup chart.hourly.trend
BothDown(chart)      == PresentTrends(chart) = {"DOWN"}
RedStreak(chart)     == IF chart.slow.reds > chart.hourly.reds THEN chart.slow.reds ELSE chart.hourly.reds

Dying(r, chart, cfg) ==
  \/ /\ r.where = "below"
     /\ \/ chart.hourly.floor = {} /\ chart.hourly.candles > 0
        \/ BothDown(chart)
        \/ \E a \in chart.hourly.atr : a < cfg.dyingAtr
  \/ /\ RedStreak(chart) >= cfg.dyingReds
     /\ \E f \in r.fee : f < cfg.minFee

Healthy(r, chart, cfg) ==
  r.inRange /\ (\E f \in r.fee : f >= cfg.healthyFee) /\ ~BothDown(chart)

Exit(action, regime) == [action |-> action, regime |-> regime]
PnlAtMost(r, bound)  == \E p \in r.pnl : p <= bound

GetExitDecision(r, chart, cfg) ==
  IF ~Readable(r)                          THEN Exit("HOLD", "AMBIGUOUS")
  ELSE IF IsInPnlWarmup(r.age)             THEN Exit("HOLD", "OK")
  ELSE IF PnlAtMost(r, cfg.hardFloor)      THEN Exit("CLOSE", "CATASTROPHIC")
  ELSE IF Dying(r, chart, cfg)             THEN Exit("CLOSE", "DYING")
  ELSE IF ~PnlAtMost(r, cfg.stopLoss)      THEN Exit("HOLD", "OK")
  ELSE IF Healthy(r, chart, cfg)           THEN Exit("HOLD", "HEALTHY")
  ELSE Exit("ESCALATE", "AMBIGUOUS")

(* The poller's cheap subset, without a chart: a nullable reason.          *)
GetPollerFastCut(r, cfg) ==
  IF ~Readable(r) \/ IsInPnlWarmup(r.age)                         THEN {}
  ELSE IF \E p \in r.pnl : p <= cfg.hardFloor                     THEN {"catastrophic"}
  ELSE IF r.where = "below" /\ (\E p \in r.pnl : p <= cfg.oorProxy) THEN {"dying"}
  ELSE {}

---------------------------------------------------------------------------
(* The bounce watch: [pnl, minutes], the trigger and the time since        *)

IsBounceTrigger(regime, r) ==
  \/ regime = "CATASTROPHIC"
  \/ regime = "DYING" /\ r.where = "below"

ArmBounceWatch(pnl) == [pnl |-> pnl, minutes |-> 0]

(* The value is 1 + pnl/100, at the trigger at least a millionth; here in   *)
(* millionths, and the change is compared without a division.              *)
Value(pnl)              == (100 + pnl) * 10000
AtTrigger(watch)        == IF watch.pnl <= -100 THEN 1 ELSE Value(watch.pnl)
RoseBy(watch, pnl, pct) == Value(pnl) * 100 >= AtTrigger(watch) * (100 + pct)
FellBy(watch, pnl, pct) == Value(pnl) * 100 <= AtTrigger(watch) * (100 - pct)

(* The nullable outcome of a watch at this reading: {} holds.              *)
BlindWatch(watch, r, cfg) ==               \* mutant: an unreadable pnl cannot time out
  IF ~Readable(r)                                               THEN {}
  ELSE IF \E p \in r.pnl : RoseBy(watch, p, cfg.bounceTake)     THEN {"take"}
  ELSE {"timeout"}
EvaluateBounceWatch(watch, r, cfg) ==
  IF Readable(r) /\ (\E p \in r.pnl : RoseBy(watch, p, cfg.bounceTake))      THEN {"take"}
  ELSE IF Readable(r) /\ (\E p \in r.pnl : FellBy(watch, p, cfg.bounceStop)) THEN {"stop"}
  ELSE IF watch.minutes >= cfg.bounceTimeout                                THEN {"timeout"}
  ELSE {}

---------------------------------------------------------------------------
(* The management plan: [action, why, regime].  An armed watch decides     *)
(* alone, in smart mode; claims never end a position and count as STAY.    *)

Plan(action, why, regime) == [action |-> action, why |-> why, regime |-> regime]
PlanForPosition(r, chart, watch, cfg) ==
  LET watched == IF cfg.smart /\ cfg.bounce THEN watch ELSE {}
      rule    == GetDeterministicCloseRule(r, cfg, cfg.smart)
      engine  == GetExitDecision(r, chart, cfg)
      outcome == UNION {EvaluateBounceWatch(w, r, cfg) : w \in watched}
  IN  IF outcome # {}       THEN Plan("CLOSE", outcome, "none")
      ELSE IF watched # {}  THEN Plan("STAY", {}, "none")
      ELSE IF rule # {}     THEN Plan("CLOSE", rule, "OK")
      ELSE IF ~cfg.smart \/ engine.action = "HOLD" THEN Plan("STAY", {}, engine.regime)
      ELSE Plan(engine.action, {engine.regime}, engine.regime)

(* An ambiguous position without Sage: held in range, closed out of it.    *)
Fallback(r) == IF r.inRange THEN "STAY" ELSE "CLOSE"

---------------------------------------------------------------------------
(* The poller's tick over one position.  The queue of trailing drops is a  *)
(* nullable [peak, at, minutes]; the result is [action, why, pending].     *)

TickPnlPoller(r, watch, peak, pending, cfg) ==
  LET watched  == IF cfg.bounce THEN watch ELSE {}
      outcome  == UNION {EvaluateBounceWatch(w, r, cfg) : w \in watched}
      cut      == GetPollerFastCut(r, cfg)
      due      == \E q \in pending : q.minutes >= cfg.confirmDelay
      holds    == \E q \in pending, p \in r.pnl :
                    ~r.suspicious /\ q.peak - p >= q.peak - q.at - cfg.confirmTolerance
      dropped  == \E k \in peak, p \in r.pnl :
                    ~r.suspicious /\ k >= cfg.trailingTrigger /\ k - p >= cfg.trailingDrop
      Answer(action, why, queue) == [action |-> action, why |-> why, pending |-> queue]
  IN  IF cfg.smart /\ outcome # {}       THEN Answer("CLOSE", outcome, {})
      ELSE IF cfg.smart /\ watched # {}  THEN Answer("STAY", {}, {})
      ELSE IF cfg.smart /\ cut # {}      THEN Answer(IF cfg.bounce THEN "ARM" ELSE "CLOSE", cut, {})
      ELSE IF pending # {} /\ ~due       THEN Answer("STAY", {}, pending)
      ELSE IF due                        THEN IF holds THEN Answer("CLOSE", {"trailing"}, {})
                                                       ELSE Answer("STAY", {}, {})
      ELSE IF cfg.trailing /\ dropped
           THEN Answer("STAY", {}, {[peak |-> CHOOSE k \in peak : TRUE,
                                     at |-> CHOOSE p \in r.pnl : TRUE, minutes |-> 0]})
      ELSE Answer("STAY", {}, {})
=============================================================================
