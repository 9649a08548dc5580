---------------------------- MODULE RulesProofs ----------------------------
(***************************************************************************)
(* Proofs about the rules: what a candidate offered to the decider has met, *)
(* and when, and on which terms, a position is sold.                        *)
(***************************************************************************)
EXTENDS Rules, FiniteSetTheorems, SequenceTheorems, WellFoundedInduction, TLAPS

---------------------------------------------------------------------------
(* One position.  The age the record knows is not more than the position   *)
(* has, the time it was out not more than since it was last seen inside; a  *)
(* watch is of a position past its warm-up, and a drop that waits for its   *)
(* confirmation was as large as configured.                                *)

Ages ==
  /\ old \in Nat /\ seenIn \in Nat
  /\ \A a \in age : a \in Nat /\ a <= old
  /\ \A m \in out : m \in Nat /\ m <= seenIn
WatchIsWarm == watch # {} => smart /\ ~(old < PnlWarmupMinutes)
Drops ==
  /\ Nullable(peak)
  /\ \A q, r \in pending : q = r
  /\ \A q \in pending : /\ q.peak \in Int /\ q.at \in Int
                        /\ DOMAIN q = {"peak", "at", "minutes"}
                        /\ q.peak - q.at >= Config.trailingDrop
LifeInv == Ages /\ WatchIsWarm /\ Drops

(* The settings in force. *)
LEMMA InForce ==
  /\ Life!cfg.smart = smart /\ Life!cfg.bounce = bounce
  /\ Life!cfg.stopLossGrace = Config.stopLossGrace
  /\ Life!cfg.outOfRangeWait = Config.outOfRangeWait
  /\ Life!cfg.trailingDrop = Config.trailingDrop
  /\ Life!cfg.confirmTolerance = Config.confirmTolerance
  BY RulesAssumption DEF Life!cfg

(* A minute passes. *)
LEMMA LaterAges ==
  /\ \A m \in Nat : Life!Later(m) \in Nat
  /\ \A m, n \in Nat : m <= n => Life!Later(m) <= Life!Later(n)
  /\ \A m \in Nat : m <= MaxAge \/ Life!Later(m) = m
  BY RulesAssumption DEF Life!Later

(* What is decided, as its callers use it. *)
Reasons == {"stop loss", "take profit", "OOR", "low yield"}
Ends    == {"take", "stop", "timeout"}

LEMMA Watched ==
  ASSUME NEW w, NEW r, NEW c
  PROVE  LET outcome == UNION {Life!EvaluateBounceWatch(x, r, c) : x \in w}
         IN  /\ outcome \subseteq Ends
             /\ outcome # {} => \E x \in w :
                  \/ x.minutes >= c.bounceTimeout
                  \/ \E p \in r.pnl : Life!RoseBy(x, p, c.bounceTake) \/ Life!FellBy(x, p, c.bounceStop)
<1> DEFINE evaluated(x) == Life!EvaluateBounceWatch(x, r, c)
<1>1. ASSUME NEW x \in w
      PROVE  /\ evaluated(x) \subseteq Ends
             /\ evaluated(x) # {} =>
                  \/ x.minutes >= c.bounceTimeout
                  \/ \E p \in r.pnl : Life!RoseBy(x, p, c.bounceTake) \/ Life!FellBy(x, p, c.bounceStop)
  BY DEF Life!EvaluateBounceWatch, Ends
<1> HIDE DEF evaluated
<1>2. UNION {evaluated(x) : x \in w} \subseteq Ends
  BY <1>1
<1>3. UNION {evaluated(x) : x \in w} # {} => \E x \in w : evaluated(x) # {}
  OBVIOUS
<1> QED BY <1>1, <1>2, <1>3 DEF evaluated

(* The poller arms only on a cut outside the warm-up. *)
LEMMA PollerAnswers ==
  ASSUME NEW r, NEW w, NEW k, NEW q, NEW c
  PROVE  LET a == Life!TickPnlPoller(r, w, k, q, c)
             watched == IF c.bounce THEN w ELSE {}
             outcome == UNION {Life!EvaluateBounceWatch(x, r, c) : x \in watched}
         IN  /\ a.action = "ARM" => c.smart /\ Life!GetPollerFastCut(r, c) # {} /\ watched = {}
                                    /\ a.why = Life!GetPollerFastCut(r, c)
             /\ a.action = "CLOSE" =>
                  \/ c.smart /\ outcome # {} /\ a.why = outcome
                  \/ c.smart /\ watched = {} /\ a.why = Life!GetPollerFastCut(r, c) /\ a.why # {}
                  \/ /\ a.why = {"trailing"} /\ (c.smart => watched = {})
                     /\ \E x \in q : x.minutes >= c.confirmDelay
                     /\ \E x \in q, p \in r.pnl : x.peak - p >= x.peak - x.at - c.confirmTolerance
             /\ a.pending # {} =>
                  \/ a.pending = q
                  \/ \E m \in k, p \in r.pnl :
                       /\ m - p >= c.trailingDrop
                       /\ a.pending = {[peak |-> CHOOSE x \in k : TRUE, at |-> CHOOSE x \in r.pnl : TRUE,
                                        minutes |-> 0]}
<1> DEFINE watched == IF c.bounce THEN w ELSE {}
           outcome == UNION {Life!EvaluateBounceWatch(x, r, c) : x \in watched}
           cut     == Life!GetPollerFastCut(r, c)
           due     == \E x \in q : x.minutes >= c.confirmDelay
           holds   == \E x \in q, p \in r.pnl :
                        ~r.suspicious /\ x.peak - p >= x.peak - x.at - c.confirmTolerance
           dropped == \E m \in k, p \in r.pnl :
                        ~r.suspicious /\ m >= c.trailingTrigger /\ m - p >= c.trailingDrop
           first   == [peak |-> CHOOSE x \in k : TRUE, at |-> CHOOSE x \in r.pnl : TRUE, minutes |-> 0]
           Answer(action, why, queue) == [action |-> action, why |-> why, pending |-> queue]
<1>1. Life!TickPnlPoller(r, w, k, q, c) =
        IF c.smart /\ outcome # {}       THEN Answer("CLOSE", outcome, {})
        ELSE IF c.smart /\ watched # {}  THEN Answer("STAY", {}, {})
        ELSE IF c.smart /\ cut # {}      THEN Answer(IF c.bounce THEN "ARM" ELSE "CLOSE", cut, {})
        ELSE IF q # {} /\ ~due           THEN Answer("STAY", {}, q)
        ELSE IF due                      THEN IF holds THEN Answer("CLOSE", {"trailing"}, {})
                                                       ELSE Answer("STAY", {}, {})
        ELSE IF c.trailing /\ dropped    THEN Answer("STAY", {}, {first})
        ELSE Answer("STAY", {}, {})
  BY DEF Life!TickPnlPoller
<1>2. holds => \E x \in q, p \in r.pnl : x.peak - p >= x.peak - x.at - c.confirmTolerance
  OBVIOUS
<1>3. dropped => \E m \in k, p \in r.pnl : m - p >= c.trailingDrop
  OBVIOUS
<1> HIDE DEF outcome, cut, holds, dropped, first
<1> QED BY <1>1, <1>2, <1>3 DEF outcome, cut, first

LEMMA Cuts ==
  ASSUME NEW r, NEW c
  PROVE  /\ Life!GetPollerFastCut(r, c) \subseteq {"catastrophic", "dying"}
         /\ Life!IsInPnlWarmup(r.age) => Life!GetPollerFastCut(r, c) = {}
  BY DEF Life!GetPollerFastCut

LEMMA StaticRules ==
  ASSUME NEW r, NEW c, NEW skip
  PROVE  LET rule == Life!GetDeterministicCloseRule(r, c, skip)
         IN  /\ rule \subseteq {"stop loss", "take profit", "OOR", "low yield"}
             /\ "stop loss" \in rule =>
                  ~skip /\ ~(c.stopLossGrace > 0 /\ ~Life!AtLeast(r.age, c.stopLossGrace, 0))
             /\ "OOR" \in rule => r.outFor >= c.outOfRangeWait
<1> DEFINE grace  == c.stopLossGrace > 0 /\ ~Life!AtLeast(r.age, c.stopLossGrace, 0)
           long   == r.outFor >= c.outOfRangeWait
           stop   == ~skip /\ Life!Readable(r) /\ ~grace /\ (\E p \in r.pnl : p <= c.stopLoss)
           profit == Life!Readable(r) /\ (\E p \in r.pnl : p >= c.takeProfit)
           above  == r.where = "above" /\ long
           low    == (\E f \in r.fee : f < c.minFee) /\ Life!AtLeast(r.age, MinLowYieldAgeMinutes, 0)
           rule   == Life!GetDeterministicCloseRule(r, c, skip)
<1>1. rule = IF stop THEN {"stop loss"} ELSE IF profit THEN {"take profit"}
               ELSE IF above THEN {"OOR"} ELSE IF low THEN {"low yield"} ELSE {}
  BY DEF Life!GetDeterministicCloseRule
<1>2. (stop => ~skip /\ ~grace) /\ (above => long)
  OBVIOUS
<1> HIDE DEF grace, long, stop, profit, above, low, rule
<1> SUFFICES /\ rule \subseteq {"stop loss", "take profit", "OOR", "low yield"}
             /\ "stop loss" \in rule => stop
             /\ "OOR" \in rule => above
  BY <1>2 DEF rule, grace, long
<1>3. CASE stop \/ profit
  BY <1>1, <1>3
<1>4. CASE ~stop /\ ~profit
  BY <1>1, <1>4
<1> QED BY <1>3, <1>4

LEMMA Engines ==
  ASSUME NEW r, NEW chart, NEW c
  PROVE  LET e == Life!GetExitDecision(r, chart, c)
         IN  /\ e.action # "HOLD" => e.regime \in {"CATASTROPHIC", "DYING", "AMBIGUOUS"}
             /\ Life!IsInPnlWarmup(r.age) => e.action = "HOLD"
<1> DEFINE read  == Life!Readable(r)
           young == Life!IsInPnlWarmup(r.age)
           floor == Life!PnlAtMost(r, c.hardFloor)
           dying == Life!Dying(r, chart, c)
           deep  == Life!PnlAtMost(r, c.stopLoss)
           well  == Life!Healthy(r, chart, c)
           X(action, regime) == [action |-> action, regime |-> regime]
           e     == Life!GetExitDecision(r, chart, c)
<1>1. e = IF ~read         THEN X("HOLD", "AMBIGUOUS")
          ELSE IF young    THEN X("HOLD", "OK")
          ELSE IF floor    THEN X("CLOSE", "CATASTROPHIC")
          ELSE IF dying    THEN X("CLOSE", "DYING")
          ELSE IF ~deep    THEN X("HOLD", "OK")
          ELSE IF well     THEN X("HOLD", "HEALTHY")
          ELSE X("ESCALATE", "AMBIGUOUS")
  BY DEF Life!GetExitDecision, Life!Exit
<1> HIDE DEF read, young, floor, dying, deep, well, e
<1>2. /\ e.action # "HOLD" => e.regime \in {"CATASTROPHIC", "DYING", "AMBIGUOUS"}
      /\ young => e.action = "HOLD"
  BY <1>1
<1> QED BY <1>2 DEF e, young

LEMMA Plans ==
  ASSUME NEW r, NEW chart, NEW w, NEW c
  PROVE  LET plan    == Life!PlanForPosition(r, chart, w, c)
             watched == IF c.smart /\ c.bounce THEN w ELSE {}
             outcome == UNION {Life!EvaluateBounceWatch(x, r, c) : x \in watched}
             rule    == Life!GetDeterministicCloseRule(r, c, c.smart)
             engine  == Life!GetExitDecision(r, chart, c)
         IN  /\ plan.action = "CLOSE" =>
                  \/ outcome # {} /\ plan.why = outcome /\ plan.regime = "none"
                  \/ watched = {} /\ rule # {} /\ plan.why = rule /\ plan.regime = "OK"
                  \/ /\ watched = {} /\ c.smart /\ engine.action = "CLOSE"
                     /\ plan.why = {engine.regime} /\ plan.regime = engine.regime
             /\ plan.action = "ESCALATE" =>
                  watched = {} /\ c.smart /\ engine.action = "ESCALATE" /\ plan.why = {engine.regime}
<1> DEFINE watched == IF c.smart /\ c.bounce THEN w ELSE {}
           outcome == UNION {Life!EvaluateBounceWatch(x, r, c) : x \in watched}
           rule    == Life!GetDeterministicCloseRule(r, c, c.smart)
           engine  == Life!GetExitDecision(r, chart, c)
<1>1. Life!PlanForPosition(r, chart, w, c) =
        IF outcome # {}       THEN Life!Plan("CLOSE", outcome, "none")
        ELSE IF watched # {}  THEN Life!Plan("STAY", {}, "none")
        ELSE IF rule # {}     THEN Life!Plan("CLOSE", rule, "OK")
        ELSE IF ~c.smart \/ engine.action = "HOLD" THEN Life!Plan("STAY", {}, engine.regime)
        ELSE Life!Plan(engine.action, {engine.regime}, engine.regime)
  BY DEF Life!PlanForPosition
<1> HIDE DEF outcome, rule, engine
<1> QED BY <1>1 DEF Life!Plan, outcome, rule, engine

(* In the warm-up of a position, a record of it is as young. *)
LEMMA YoungRecord ==
  ASSUME LifeInv, old < PnlWarmupMinutes, NEW a \in {age, {0}, {old}}, a # {}
  PROVE  Life!IsInPnlWarmup(a)
<1>1. \A x \in a : x \in Nat /\ x <= old
  BY DEF LifeInv, Ages
<1> QED BY <1>1, RulesAssumption DEF Life!IsInPnlWarmup, LifeInv, Ages

(* Each step keeps the invariant. *)
LEMMA LifeStart ==
  ASSUME Life!Init
  PROVE  LifeInv
<1>1. Nullable(peak)
  BY RulesAssumption DEF Life!Init, Nullable
<1>2. 0 \in Nat /\ 0 <= 0 /\ pending = {} /\ watch = {}
  BY DEF Life!Init
<1> QED BY <1>1, <1>2 DEF Life!Init, LifeInv, Ages, WatchIsWarm, Drops

LEMMA ClockStep ==
  ASSUME LifeInv, Life!Clock
  PROVE  LifeInv'
<1>1. Ages'
  BY LaterAges DEF LifeInv, Ages, Life!Clock, Life!LaterN
<1>2. WatchIsWarm'
  <2>1. watch' # {} => watch # {}
    BY DEF Life!Clock, Life!Aged
  <2>2. old <= old'
    BY RulesAssumption DEF LifeInv, Ages, Life!Clock, Life!Later
  <2> QED BY <2>1, <2>2, <1>1, RulesAssumption DEF LifeInv, WatchIsWarm, Ages, Life!Clock
<1>3. Drops'
  <2> DEFINE later(q) == [q EXCEPT !.minutes = Life!Later(@)]
  <2>1. pending' = {later(q) : q \in pending} /\ peak' = peak
    BY DEF Life!Clock, Life!Aged
  <2>2. \A q \in pending : /\ later(q).peak = q.peak /\ later(q).at = q.at
                           /\ DOMAIN later(q) = {"peak", "at", "minutes"}
    BY DEF LifeInv, Drops
  <2> HIDE DEF later
  <2> QED BY <2>1, <2>2 DEF LifeInv, Drops, Nullable
<1> QED BY <1>1, <1>2, <1>3 DEF LifeInv

LEMMA QuietSteps ==
  ASSUME LifeInv, Life!Track \/ Life!FlipBounce \/ Life!Restart \/ UNCHANGED lifeVars
  PROVE  LifeInv'
<1>1. CASE Life!Track
  BY <1>1 DEF Life!Track, LifeInv, Ages, WatchIsWarm, Drops, Nullable
<1>2. CASE Life!FlipBounce
  BY <1>2 DEF Life!FlipBounce, LifeInv, Ages, WatchIsWarm, Drops, Nullable
<1>3. CASE Life!Restart
  BY <1>3 DEF Life!Restart, LifeInv, Ages, WatchIsWarm, Drops, Nullable
<1>4. CASE UNCHANGED lifeVars
  BY <1>4 DEF lifeVars, LifeInv, Ages, WatchIsWarm, Drops, Nullable
<1> QED BY <1>1, <1>2, <1>3, <1>4

(* A tick of the poller: what it saw of the record, and what it did of what *)
(* was decided.                                                             *)
PollerSees(reading) == Life!Known(reading, IF age = {} THEN {0} ELSE age, 0)
PollerSays(reading) == Life!TickPnlPoller(PollerSees(reading), watch, peak, pending, Life!cfg)

LEMMA PollerActs ==
  ASSUME NEW reading \in Readings, NEW luck \in Life!Luck, Life!PollerTick(reading, luck)
  PROVE  /\ UNCHANGED <<old, age, out, seenIn, cooling, peak, smart, bounce>>
         /\ pending' \subseteq pending \/ pending' = PollerSays(reading).pending
         /\ watch' \subseteq watch \/ PollerSays(reading).action = "ARM"
         /\ open /\ ~open' =>
              /\ PollerSays(reading).action \in {"ARM", "CLOSE"}
              /\ end'.why = PollerSays(reading).why /\ end'.pnl = PollerSees(reading).pnl
<1> DEFINE answer == PollerSays(reading)
           r      == PollerSees(reading)
           arms   == answer.action = "ARM" /\ luck = "fine"
           sells  == \/ answer.action = "ARM" /\ luck = "refused"
                     \/ answer.action = "CLOSE" /\ luck = "fine"
<1>1. /\ \/ Life!Hold /\ UNCHANGED watch
            /\ pending' = {q \in pending : q.minutes < Life!cfg.confirmDelay}
         \/ /\ pending' = answer.pending
            /\ watch' = IF arms THEN {Life!ArmBounceWatch(p) : p \in r.pnl} ELSE watch
            /\ IF sells THEN Life!Sell("poller", answer.why, r.pnl) ELSE Life!Hold
      /\ UNCHANGED <<old, age, out, seenIn, cooling, peak, smart, bounce>>
  BY DEF Life!PollerTick, PollerSays, PollerSees
<1> HIDE DEF answer, r
<1> QED BY <1>1 DEF Life!Hold, Life!Sell, answer, r

LEMMA PollerStep ==
  ASSUME LifeInv, NEW reading \in Readings, NEW luck \in Life!Luck,
         Life!PollerTick(reading, luck)
  PROVE  LifeInv'
<1> DEFINE answer == PollerSays(reading)
           r      == PollerSees(reading)
<1>1. /\ UNCHANGED <<old, age, out, seenIn, peak, smart>>
      /\ pending' \subseteq pending \/ pending' = answer.pending
      /\ watch' \subseteq watch \/ answer.action = "ARM"
  BY PollerActs
<1>2. r.age = (IF age = {} THEN {0} ELSE age) /\ r.pnl = reading.pnl
  BY DEF PollerSees, Life!Known
<1>3. answer.action = "ARM" => smart /\ ~Life!IsInPnlWarmup(r.age)
  BY PollerAnswers, Cuts, InForce DEF PollerSays
<1>4. answer.pending # {} =>
         \/ answer.pending = pending
         \/ \E m \in peak, p \in r.pnl :
              /\ m - p >= Life!cfg.trailingDrop
              /\ answer.pending = {[peak |-> CHOOSE x \in peak : TRUE, at |-> CHOOSE x \in r.pnl : TRUE,
                                    minutes |-> 0]}
  BY PollerAnswers DEF PollerSays
<1>5. WatchIsWarm'
  <2>1. old < PnlWarmupMinutes => Life!IsInPnlWarmup(r.age)
    BY <1>2, YoungRecord
  <2> QED BY <1>1, <1>3, <2>1 DEF LifeInv, WatchIsWarm
<1>6. Drops'
  <2>1. Nullable(reading.pnl) /\ Nullable(peak)
    BY RulesAssumption DEF LifeInv, Drops
  <2>2. ASSUME NEW m \in peak, NEW p \in r.pnl, m - p >= Life!cfg.trailingDrop,
               answer.pending = {[peak |-> CHOOSE x \in peak : TRUE, at |-> CHOOSE x \in r.pnl : TRUE,
                                  minutes |-> 0]}
        PROVE  \E q : /\ answer.pending = {q} /\ q.peak \in Int /\ q.at \in Int
                      /\ DOMAIN q = {"peak", "at", "minutes"}
                      /\ q.peak - q.at >= Config.trailingDrop
    <3>1. (CHOOSE x \in peak : TRUE) = m /\ m \in Int
      BY <2>1 DEF Nullable
    <3>2. (CHOOSE x \in r.pnl : TRUE) = p /\ p \in Int
      BY <2>1, <1>2 DEF Nullable
    <3> DEFINE q == [peak |-> m, at |-> p, minutes |-> 0]
    <3>3. answer.pending = {q}
      <4> HIDE DEF answer, r
      <4> QED BY <2>2, <3>1, <3>2
    <3>4. q.peak = m /\ q.at = p /\ DOMAIN q = {"peak", "at", "minutes"}
      OBVIOUS
    <3>5. m - p >= Config.trailingDrop
      BY <2>2, InForce
    <3> HIDE DEF q, answer
    <3> QED BY <3>1, <3>2, <3>3, <3>4, <3>5
  <2>3. \/ answer.pending \subseteq pending
        \/ \E q : /\ answer.pending = {q} /\ q.peak \in Int /\ q.at \in Int
                  /\ DOMAIN q = {"peak", "at", "minutes"}
                  /\ q.peak - q.at >= Config.trailingDrop
    BY <1>4, <2>2
  <2> HIDE DEF answer, r
  <2> QED BY <1>1, <2>1, <2>3 DEF LifeInv, Drops, Nullable
<1>7. Ages'
  BY <1>1 DEF LifeInv, Ages
<1> QED BY <1>5, <1>6, <1>7 DEF LifeInv

LEMMA PollerSells ==
  ASSUME LifeInv, NEW reading \in Readings, NEW luck \in Life!Luck,
         Life!PollerTick(reading, luck), open, ~open'
  PROVE  /\ smart /\ bounce /\ watch # {} =>
              \E w \in watch :
                 \/ w.minutes >= Life!cfg.bounceTimeout
                 \/ \E p \in end'.pnl : Life!RoseBy(w, p, Life!cfg.bounceTake)
                                         \/ Life!FellBy(w, p, Life!cfg.bounceStop)
         /\ end'.why \subseteq Ends \cup {"trailing", "catastrophic", "dying"}
         /\ smart /\ old < PnlWarmupMinutes => end'.why \subseteq Ends \cup {"trailing"}
         /\ "trailing" \in end'.why =>
              \E q \in pending, p \in end'.pnl :
                 /\ q.minutes >= Life!cfg.confirmDelay
                 /\ q.peak - p >= Life!cfg.trailingDrop - Life!cfg.confirmTolerance
<1> DEFINE answer  == PollerSays(reading)
           r       == PollerSees(reading)
           watched == IF Life!cfg.bounce THEN watch ELSE {}
           outcome == UNION {Life!EvaluateBounceWatch(x, r, Life!cfg) : x \in watched}
           cut     == Life!GetPollerFastCut(r, Life!cfg)
<1>1. /\ answer.action \in {"ARM", "CLOSE"}
      /\ end'.why = answer.why /\ end'.pnl = r.pnl
  BY PollerActs
<1>2. r.age = (IF age = {} THEN {0} ELSE age) /\ r.pnl = reading.pnl
  BY DEF PollerSees, Life!Known
<1>3. \/ smart /\ outcome # {} /\ answer.why = outcome
      \/ smart /\ watched = {} /\ answer.why = cut /\ cut # {}
      \/ /\ answer.why = {"trailing"} /\ (smart => watched = {})
         /\ \E x \in pending : x.minutes >= Life!cfg.confirmDelay
         /\ \E x \in pending, p \in r.pnl : x.peak - p >= x.peak - x.at - Life!cfg.confirmTolerance
  <2>1. answer.action = "ARM" => smart /\ cut # {} /\ watched = {} /\ answer.why = cut
    BY PollerAnswers, InForce DEF PollerSays
  <2>2. answer.action = "CLOSE" =>
      \/ smart /\ outcome # {} /\ answer.why = outcome
      \/ smart /\ watched = {} /\ answer.why = cut /\ answer.why # {}
      \/ /\ answer.why = {"trailing"} /\ (smart => watched = {})
         /\ \E x \in pending : x.minutes >= Life!cfg.confirmDelay
         /\ \E x \in pending, p \in r.pnl : x.peak - p >= x.peak - x.at - Life!cfg.confirmTolerance
    BY PollerAnswers, InForce DEF PollerSays
  <2> HIDE DEF answer, cut, outcome, r
  <2> QED BY <2>1, <2>2, <1>1
<1>4. /\ outcome \subseteq Ends
      /\ outcome # {} => \E x \in watched :
           \/ x.minutes >= Life!cfg.bounceTimeout
           \/ \E p \in r.pnl : Life!RoseBy(x, p, Life!cfg.bounceTake)
                               \/ Life!FellBy(x, p, Life!cfg.bounceStop)
  BY Watched
<1>5. /\ cut \subseteq {"catastrophic", "dying"}
      /\ old < PnlWarmupMinutes => cut = {}
  BY Cuts, YoungRecord, <1>2
<1>6. watched \subseteq watch /\ (bounce => watched = watch)
  BY InForce
<1>7. ASSUME answer.why = {"trailing"}, \E x \in pending : x.minutes >= Life!cfg.confirmDelay,
             NEW x \in pending, NEW p \in r.pnl,
             x.peak - p >= x.peak - x.at - Life!cfg.confirmTolerance
      PROVE  /\ x.minutes >= Life!cfg.confirmDelay
             /\ x.peak - p >= Life!cfg.trailingDrop - Life!cfg.confirmTolerance
  <2>1. x.minutes >= Life!cfg.confirmDelay
    BY <1>7 DEF LifeInv, Drops
  <2>2. p \in Int /\ x.peak \in Int /\ x.at \in Int /\ x.peak - x.at >= Life!cfg.trailingDrop
    BY <1>2, RulesAssumption, InForce DEF LifeInv, Drops, Nullable
  <2>3. Life!cfg.trailingDrop \in Int /\ Life!cfg.confirmTolerance \in Int
    BY InForce, RulesAssumption
  <2> HIDE DEF answer, r
  <2> QED BY <1>7, <2>1, <2>2, <2>3
<1> HIDE DEF answer, r, watched, outcome, cut
<1>8. CASE smart /\ outcome # {} /\ answer.why = outcome
  BY <1>8, <1>1, <1>4, <1>6 DEF Ends
<1>9. CASE smart /\ watched = {} /\ answer.why = cut /\ cut # {}
  BY <1>9, <1>1, <1>5, <1>6
<1>10. CASE /\ answer.why = {"trailing"} /\ (smart => watched = {})
            /\ \E x \in pending : x.minutes >= Life!cfg.confirmDelay
            /\ \E x \in pending, p \in r.pnl : x.peak - p >= x.peak - x.at - Life!cfg.confirmTolerance
  BY <1>10, <1>1, <1>6, <1>7
<1> QED BY <1>3, <1>8, <1>9, <1>10

(* A tick of management, with the age it went by and what it planned. *)
OutFor(inRange) ==
  IF Life!OutOfRange(inRange) = {} THEN 0 ELSE CHOOSE m \in Life!OutOfRange(inRange) : TRUE
ManagementSees(reading, a)        == Life!Known(reading, a, OutFor(reading.inRange))
ManagementSays(reading, chart, a) == Life!PlanForPosition(ManagementSees(reading, a), chart, watch, Life!cfg)

LEMMA ManagementActs ==
  ASSUME NEW reading \in Readings, NEW chart \in Charts, NEW luck \in Life!Luck,
         Life!ManagementTick(reading, chart, luck)
  PROVE  \E a \in {age, {0}, {old}} :
           LET plan == ManagementSays(reading, chart, a)
           IN  /\ a # {} /\ age' = a /\ out' = Life!OutOfRange(reading.inRange)
               /\ peak' = {0} \/ peak' = peak
               /\ \/ watch' \subseteq watch
                  \/ /\ smart /\ plan.action = "CLOSE" /\ plan.regime \in {"CATASTROPHIC", "DYING"}
               /\ open /\ ~open' =>
                    /\ plan.action \in {"CLOSE", "ESCALATE"}
                    /\ end'.why = plan.why /\ end'.pnl = reading.pnl
               /\ seenIn' = (IF reading.inRange THEN 0 ELSE seenIn)
               /\ UNCHANGED <<old, pending, smart, bounce>>
<1>1. PICK a \in IF age = {} THEN {{0}, {old}} ELSE {age} :
       LET outNow == Life!OutOfRange(reading.inRange)
           r      == Life!Known(reading, a, IF outNow = {} THEN 0 ELSE CHOOSE m \in outNow : TRUE)
           plan   == Life!PlanForPosition(r, chart, watch, Life!cfg)
           kept   == luck = "exempt" /\ plan.action \in {"CLOSE", "ESCALATE"}
           arms   == /\ ~kept /\ smart /\ bounce /\ plan.action = "CLOSE"
                     /\ Life!IsBounceTrigger(plan.regime, r)
           asks   == ~kept /\ plan.action = "ESCALATE"
       IN  /\ age' = a /\ out' = outNow
           /\ peak' = IF age = {} THEN {0} ELSE peak
           /\ watch' = IF ~(smart /\ bounce) THEN {}
                       ELSE IF arms /\ watch = {} THEN {Life!ArmBounceWatch(p) : p \in r.pnl}
                       ELSE watch
           /\ \E action \in IF asks THEN Life!Resolved(r) ELSE IF kept \/ arms THEN {"STAY"} ELSE {plan.action} :
                IF action = "CLOSE" /\ luck = "fine"
                THEN Life!Sell("management", plan.why, r.pnl) ELSE Life!Hold
  BY DEF Life!ManagementTick
<1> DEFINE r    == ManagementSees(reading, a)
           plan == ManagementSays(reading, chart, a)
           kept == luck = "exempt" /\ plan.action \in {"CLOSE", "ESCALATE"}
           arms == /\ ~kept /\ smart /\ bounce /\ plan.action = "CLOSE"
                   /\ Life!IsBounceTrigger(plan.regime, r)
           asks == ~kept /\ plan.action = "ESCALATE"
<1>2. PICK action \in IF asks THEN Life!Resolved(r) ELSE IF kept \/ arms THEN {"STAY"} ELSE {plan.action} :
        IF action = "CLOSE" /\ luck = "fine"
        THEN Life!Sell("management", plan.why, r.pnl) ELSE Life!Hold
  BY <1>1 DEF ManagementSees, ManagementSays, OutFor
<1>3. /\ age' = a /\ out' = Life!OutOfRange(reading.inRange)
      /\ peak' = (IF age = {} THEN {0} ELSE peak)
      /\ watch' = IF ~(smart /\ bounce) THEN {}
                  ELSE IF arms /\ watch = {} THEN {Life!ArmBounceWatch(p) : p \in r.pnl}
                  ELSE watch
  BY <1>1 DEF ManagementSees, ManagementSays, OutFor
<1>4. /\ seenIn' = (IF reading.inRange THEN 0 ELSE seenIn)
      /\ UNCHANGED <<old, pending, smart, bounce>>
  BY DEF Life!ManagementTick
<1>5. a \in {age, {0}, {old}} /\ a # {}
  OBVIOUS
<1>6. r.pnl = reading.pnl
  BY DEF ManagementSees, Life!Known
<1>7. arms => smart /\ plan.action = "CLOSE" /\ plan.regime \in {"CATASTROPHIC", "DYING"}
  BY DEF Life!IsBounceTrigger
<1>8. action = "CLOSE" => plan.action \in {"CLOSE", "ESCALATE"}
  <2> HIDE DEF plan, r
  <2> QED BY <1>2
<1> HIDE DEF plan, r, arms, kept, asks
<1>9. open /\ ~open' => /\ plan.action \in {"CLOSE", "ESCALATE"}
                       /\ end'.why = plan.why /\ end'.pnl = reading.pnl
  <2>1. CASE action = "CLOSE" /\ luck = "fine"
    <3>1. end' = [by |-> "management", why |-> plan.why, pnl |-> r.pnl]
      BY <1>2, <2>1 DEF Life!Sell
    <3> QED BY <3>1, <1>6, <1>8, <2>1
  <2>2. CASE ~(action = "CLOSE" /\ luck = "fine")
    <3>1. open' = open
      BY <1>2, <2>2 DEF Life!Hold
    <3> QED BY <3>1
  <2> QED BY <2>1, <2>2
<1>10. \/ watch' \subseteq watch
       \/ smart /\ plan.action = "CLOSE" /\ plan.regime \in {"CATASTROPHIC", "DYING"}
  BY <1>3, <1>7
<1>11. peak' = {0} \/ peak' = peak
  BY <1>3
<1> QED BY <1>3, <1>4, <1>5, <1>9, <1>10, <1>11 DEF plan

LEMMA ManagementStep ==
  ASSUME LifeInv, NEW reading \in Readings, NEW chart \in Charts, NEW luck \in Life!Luck,
         Life!ManagementTick(reading, chart, luck)
  PROVE  LifeInv'
<1>1. PICK a \in {age, {0}, {old}} :
        LET plan == ManagementSays(reading, chart, a)
        IN  /\ a # {} /\ age' = a /\ out' = Life!OutOfRange(reading.inRange)
            /\ peak' = {0} \/ peak' = peak
            /\ \/ watch' \subseteq watch
               \/ /\ smart /\ plan.action = "CLOSE" /\ plan.regime \in {"CATASTROPHIC", "DYING"}
            /\ seenIn' = (IF reading.inRange THEN 0 ELSE seenIn)
            /\ UNCHANGED <<old, pending, smart, bounce>>
  BY ManagementActs
<1> DEFINE r    == ManagementSees(reading, a)
           plan == ManagementSays(reading, chart, a)
<1>2. r.age = a
  BY DEF ManagementSees, Life!Known
<1>3. Ages'
  BY <1>1 DEF LifeInv, Ages, Life!OutOfRange
<1>4. Drops'
  <2>1. pending' = pending /\ (peak' = {0} \/ peak' = peak)
    BY <1>1
  <2>2. Nullable(peak')
    <3>1. CASE peak' = {0}
      BY <3>1 DEF Nullable
    <3>2. CASE peak' = peak
      BY <3>2 DEF LifeInv, Drops
    <3> QED BY <2>1, <3>1, <3>2
  <2> QED BY <2>1, <2>2 DEF LifeInv, Drops
<1>5. WatchIsWarm'
  <2>1. plan.action = "CLOSE" /\ plan.regime \in {"CATASTROPHIC", "DYING"}
          => ~Life!IsInPnlWarmup(r.age)
    BY Plans, Engines DEF ManagementSays
  <2>2. old < PnlWarmupMinutes => Life!IsInPnlWarmup(r.age)
    BY <1>1, <1>2, YoungRecord
  <2>3. /\ \/ watch' \subseteq watch
           \/ smart /\ plan.action = "CLOSE" /\ plan.regime \in {"CATASTROPHIC", "DYING"}
        /\ old' = old /\ smart' = smart
    BY <1>1
  <2> HIDE DEF plan, r
  <2> QED BY <2>1, <2>2, <2>3 DEF LifeInv, WatchIsWarm
<1> QED BY <1>3, <1>4, <1>5 DEF LifeInv

LEMMA ManagementSells ==
  ASSUME LifeInv, NEW reading \in Readings, NEW chart \in Charts, NEW luck \in Life!Luck,
         Life!ManagementTick(reading, chart, luck), open, ~open'
  PROVE  /\ smart /\ bounce /\ watch # {} =>
              \E w \in watch :
                 \/ w.minutes >= Life!cfg.bounceTimeout
                 \/ \E p \in end'.pnl : Life!RoseBy(w, p, Life!cfg.bounceTake)
                                         \/ Life!FellBy(w, p, Life!cfg.bounceStop)
         /\ "stop loss" \in end'.why => ~smart /\ Life!AtLeast(age', Life!cfg.stopLossGrace, 0)
         /\ "OOR" \in end'.why => seenIn >= Life!cfg.outOfRangeWait
         /\ "trailing" \notin end'.why
         /\ smart /\ old < PnlWarmupMinutes => end'.why \subseteq Ends \cup Reasons
<1>1. PICK a \in {age, {0}, {old}} :
        LET plan == ManagementSays(reading, chart, a)
        IN  /\ a # {} /\ age' = a
            /\ plan.action \in {"CLOSE", "ESCALATE"}
            /\ end'.why = plan.why /\ end'.pnl = reading.pnl
  BY ManagementActs
<1> DEFINE r       == ManagementSees(reading, a)
           plan    == ManagementSays(reading, chart, a)
           watched == IF Life!cfg.smart /\ Life!cfg.bounce THEN watch ELSE {}
           outcome == UNION {Life!EvaluateBounceWatch(x, r, Life!cfg) : x \in watched}
           rule    == Life!GetDeterministicCloseRule(r, Life!cfg, Life!cfg.smart)
           engine  == Life!GetExitDecision(r, chart, Life!cfg)
           escapes == \E x \in watched :
                         \/ x.minutes >= Life!cfg.bounceTimeout
                         \/ \E p \in r.pnl : Life!RoseBy(x, p, Life!cfg.bounceTake)
                                             \/ Life!FellBy(x, p, Life!cfg.bounceStop)
<1>2. r.age = a /\ r.pnl = reading.pnl /\ r.outFor = OutFor(reading.inRange)
  BY DEF ManagementSees, Life!Known
<1>3. \/ outcome # {} /\ plan.why = outcome
      \/ watched = {} /\ plan.why = rule
      \/ watched = {} /\ plan.why = {engine.regime} /\ smart /\ engine.action # "HOLD"
  <2>1. plan.action = "CLOSE" =>
          \/ outcome # {} /\ plan.why = outcome
          \/ watched = {} /\ plan.why = rule
          \/ watched = {} /\ Life!cfg.smart /\ engine.action = "CLOSE" /\ plan.why = {engine.regime}
    BY Plans DEF ManagementSays
  <2>2. plan.action = "ESCALATE" =>
          watched = {} /\ Life!cfg.smart /\ engine.action = "ESCALATE" /\ plan.why = {engine.regime}
    BY Plans DEF ManagementSays
  <2>3. plan.action \in {"CLOSE", "ESCALATE"}
    BY <1>1
  <2> HIDE DEF plan, outcome, rule, engine, watched
  <2> QED BY <2>1, <2>2, <2>3, InForce
<1>4. outcome \subseteq Ends /\ (outcome # {} => escapes)
  BY Watched
<1>5. /\ rule \subseteq Reasons
      /\ "stop loss" \in rule =>
           ~smart /\ ~(Life!cfg.stopLossGrace > 0 /\ ~Life!AtLeast(a, Life!cfg.stopLossGrace, 0))
      /\ "OOR" \in rule => OutFor(reading.inRange) >= Life!cfg.outOfRangeWait
  BY StaticRules, InForce, <1>2 DEF Reasons
<1>6. /\ engine.action # "HOLD" => engine.regime \in {"CATASTROPHIC", "DYING", "AMBIGUOUS"}
      /\ old < PnlWarmupMinutes => engine.action = "HOLD"
  <2>1. /\ engine.action # "HOLD" => engine.regime \in {"CATASTROPHIC", "DYING", "AMBIGUOUS"}
        /\ Life!IsInPnlWarmup(r.age) => engine.action = "HOLD"
    BY Engines
  <2>2. a # {}
    BY <1>1
  <2>3. old < PnlWarmupMinutes => Life!IsInPnlWarmup(a)
    BY <2>2, YoungRecord
  <2> HIDE DEF engine, r
  <2> QED BY <2>1, <2>3, <1>2
<1>7. "stop loss" \in rule => Life!AtLeast(a, Life!cfg.stopLossGrace, 0)
  <2>1. a # {} /\ \A v \in a : v \in Nat
    BY <1>1 DEF LifeInv, Ages
  <2>2. Life!cfg.stopLossGrace \in Int
    BY InForce, RulesAssumption
  <2>3. Life!cfg.stopLossGrace <= 0 => Life!AtLeast(a, Life!cfg.stopLossGrace, 0)
    BY <2>1, <2>2 DEF Life!AtLeast
  <2> DEFINE grace == Life!cfg.stopLossGrace
  <2> HIDE DEF rule, grace
  <2>4. "stop loss" \in rule => ~(grace > 0 /\ ~Life!AtLeast(a, grace, 0))
    BY <1>5 DEF grace
  <2>5. grace \in Int => grace > 0 \/ grace <= 0
    OBVIOUS
  <2>6. grace \in Int /\ (grace <= 0 => Life!AtLeast(a, grace, 0))
    BY <2>2, <2>3 DEF grace
  <2>7. "stop loss" \in rule => Life!AtLeast(a, grace, 0)
    BY <2>4, <2>5, <2>6, Zenon
  <2> QED BY <2>7 DEF grace
<1>8. OutFor(reading.inRange) \in Int /\ OutFor(reading.inRange) <= seenIn
  BY DEF LifeInv, Ages, OutFor, Life!OutOfRange
<1>9. "OOR" \in rule => seenIn >= Life!cfg.outOfRangeWait
  <2>1. Life!cfg.outOfRangeWait \in Int /\ seenIn \in Int
    BY InForce, RulesAssumption DEF LifeInv, Ages
  <2> DEFINE wait  == Life!cfg.outOfRangeWait
             spent == OutFor(reading.inRange)
             over  == "OOR" \in rule
  <2> HIDE DEF rule, wait, spent
  <2>2. over => spent >= wait
    BY <1>5 DEF wait, spent
  <2>3. wait \in Int /\ spent \in Int /\ seenIn \in Int /\ spent <= seenIn
    BY <1>8, <2>1 DEF wait, spent
  <2> HIDE DEF over
  <2>4. over => seenIn >= wait
    BY <2>2, <2>3
  <2> QED BY <2>4 DEF over, wait
<1>10. smart /\ bounce => watched = watch
  BY InForce
<1>11. end'.why = plan.why /\ end'.pnl = r.pnl /\ age' = a
  BY <1>1, <1>2
<1> SUFFICES
      /\ smart /\ bounce /\ watch # {} => escapes
      /\ "stop loss" \in plan.why => ~smart /\ Life!AtLeast(a, Life!cfg.stopLossGrace, 0)
      /\ "OOR" \in plan.why => seenIn >= Life!cfg.outOfRangeWait
      /\ "trailing" \notin plan.why
      /\ smart /\ old < PnlWarmupMinutes => plan.why \subseteq Ends \cup Reasons
  BY <1>10, <1>11
<1> HIDE DEF r, plan, watched, outcome, rule, engine, escapes
<1>12. CASE outcome # {} /\ plan.why = outcome
  BY <1>12, <1>4 DEF Ends
<1>13. CASE watched = {} /\ plan.why = rule
  BY <1>13, <1>5, <1>7, <1>9, <1>10 DEF Reasons
<1>14. CASE watched = {} /\ plan.why = {engine.regime} /\ smart /\ engine.action # "HOLD"
  BY <1>14, <1>6, <1>10
<1> QED BY <1>3, <1>12, <1>13, <1>14

---------------------------------------------------------------------------
(* The invariant and the two properties of the composition.                *)

LEMMA LifeAlways == Spec => []LifeInv
<1>1. Init => LifeInv
  <2>1. NoLife => LifeInv
    BY DEF NoLife, LifeInv, Ages, WatchIsWarm, Drops, Nullable
  <2> QED BY <2>1, LifeStart DEF Init
<1>2. LifeInv /\ [Next]_vars => LifeInv'
  <2> SUFFICES ASSUME LifeInv, [Next]_vars PROVE LifeInv'
    OBVIOUS
  <2>1. UNCHANGED lifeVars => LifeInv'
    BY QuietSteps
  <2>2. CASE Lives(Life!Next)
    <3>1. CASE Life!Clock
      BY <3>1, ClockStep
    <3>2. CASE Life!Track \/ Life!FlipBounce \/ Life!Restart
      BY <3>2, QuietSteps
    <3>3. ASSUME NEW reading \in Readings, NEW luck \in Life!Luck, Life!PollerTick(reading, luck)
          PROVE  LifeInv'
      BY <3>3, PollerStep
    <3>4. ASSUME NEW reading \in Readings, NEW luck \in Life!Luck, NEW chart \in Charts,
                 Life!ManagementTick(reading, chart, luck)
          PROVE  LifeInv'
      BY <3>4, ManagementStep
    <3> QED BY <2>2, <3>1, <3>2, <3>3, <3>4 DEF Lives, Life!Next
  <2> QED BY <2>1, <2>2 DEF Next, Screens, vars
<1> QED BY <1>1, <1>2, PTL DEF Spec

(* No step of the position in its warm-up arms a watch or sells on a pnl.  *)
HeldStep ==
  smart /\ old < PnlWarmupMinutes =>
    /\ watch' \subseteq watch
    /\ open' \/ end'.why \cap Life!Engine = {}
(* Every sale is true to what was seen. *)
TermsStep ==
  open /\ ~open' =>
    /\ smart /\ bounce /\ watch # {} =>
         \E w \in watch : \/ w.minutes >= Life!cfg.bounceTimeout
                          \/ \E p \in end'.pnl : Life!RoseBy(w, p, Life!cfg.bounceTake)
                                                  \/ Life!FellBy(w, p, Life!cfg.bounceStop)
    /\ end'.why = {"stop loss"} => ~smart /\ Life!AtLeast(age', Life!cfg.stopLossGrace, 0)
    /\ end'.why = {"OOR"} => seenIn >= Life!cfg.outOfRangeWait
    /\ end'.why = {"trailing"} =>
         \E q \in pending, p \in end'.pnl :
            /\ q.minutes >= Life!cfg.confirmDelay
            /\ q.peak - p >= Life!cfg.trailingDrop - Life!cfg.confirmTolerance

(* What is sold under one reason is not sold under another. *)
LEMMA Disjoint ==
  /\ (Ends \cup {"trailing"}) \cap Life!Engine = {} /\ (Ends \cup Reasons) \cap Life!Engine = {}
  /\ "stop loss" \notin Ends \cup {"trailing", "catastrophic", "dying"}
  /\ "OOR" \notin Ends \cup {"trailing", "catastrophic", "dying"}
  BY DEF Ends, Reasons, Life!Engine

(* A position sold in its warm-up was not sold by the engine; nothing that  *)
(* follows a sale changes that.                                             *)
Settled == ~open /\ smart /\ old < PnlWarmupMinutes => end.why \cap Life!Engine = {}

LEMMA StepsHold ==
  ASSUME LifeInv, Settled, Life!Next
  PROVE  HeldStep /\ TermsStep /\ Settled'
<1>1. CASE Life!Clock
  <2>1. open' = open /\ open
    BY <1>1 DEF Life!Clock
  <2>2. watch = {} => watch' = {}
    BY <1>1 DEF Life!Clock, Life!Aged
  <2> QED BY <2>1, <2>2 DEF HeldStep, TermsStep, LifeInv, WatchIsWarm, Settled
<1>2. CASE Life!Track \/ Life!FlipBounce \/ Life!Restart
  <2>1. watch' = watch /\ open' = open /\ end' = end /\ old' = old /\ smart' = smart
    BY <1>2 DEF Life!Track, Life!FlipBounce, Life!Restart
  <2> QED BY <2>1 DEF HeldStep, TermsStep, Settled
<1>3. ASSUME NEW reading \in Readings, NEW luck \in Life!Luck, Life!PollerTick(reading, luck)
      PROVE  HeldStep /\ TermsStep /\ Settled'
  <2>1. open /\ old' = old /\ smart' = smart
    BY <1>3, PollerActs DEF Life!PollerTick
  <2>2. smart /\ old < PnlWarmupMinutes => watch' \subseteq watch
    <3>1. PollerSays(reading).action = "ARM" => ~Life!IsInPnlWarmup(PollerSees(reading).age)
      BY PollerAnswers, Cuts DEF PollerSays
    <3>2. PollerSees(reading).age = IF age = {} THEN {0} ELSE age
      BY DEF PollerSees, Life!Known
    <3>3. old < PnlWarmupMinutes => Life!IsInPnlWarmup(PollerSees(reading).age)
      BY <3>2, YoungRecord
    <3> QED BY <1>3, PollerActs, <3>1, <3>3
  <2>3. CASE open'
    BY <2>1, <2>2, <2>3 DEF HeldStep, TermsStep, Settled
  <2>4. CASE ~open'
    <3>1. TermsStep
      BY <1>3, <2>1, <2>4, PollerSells, Disjoint DEF TermsStep
    <3>2. smart /\ old < PnlWarmupMinutes => end'.why \cap Life!Engine = {}
      BY <1>3, <2>1, <2>4, PollerSells, Disjoint
    <3> QED BY <2>1, <2>2, <3>1, <3>2 DEF HeldStep, Settled
  <2> QED BY <2>3, <2>4
<1>4. ASSUME NEW reading \in Readings, NEW luck \in Life!Luck, NEW chart \in Charts,
             Life!ManagementTick(reading, chart, luck)
      PROVE  HeldStep /\ TermsStep /\ Settled'
  <2>1. PICK a \in {age, {0}, {old}} :
          LET plan == ManagementSays(reading, chart, a)
          IN  /\ a # {}
              /\ \/ watch' \subseteq watch
                 \/ /\ smart /\ plan.action = "CLOSE" /\ plan.regime \in {"CATASTROPHIC", "DYING"}
              /\ UNCHANGED <<old, pending, smart, bounce>>
    BY <1>4, ManagementActs
  <2>2. open /\ old' = old /\ smart' = smart
    BY <1>4, <2>1 DEF Life!ManagementTick
  <2>3. smart /\ old < PnlWarmupMinutes => watch' \subseteq watch
    <3> DEFINE plan == ManagementSays(reading, chart, a)
    <3>1. plan.action = "CLOSE" /\ plan.regime \in {"CATASTROPHIC", "DYING"}
            => ~Life!IsInPnlWarmup(ManagementSees(reading, a).age)
      BY Plans, Engines DEF ManagementSays
    <3>2. ManagementSees(reading, a).age = a
      BY DEF ManagementSees, Life!Known
    <3>3. old < PnlWarmupMinutes => Life!IsInPnlWarmup(a)
      BY <2>1, YoungRecord
    <3>4. watch' \subseteq watch \/ (plan.action = "CLOSE" /\ plan.regime \in {"CATASTROPHIC", "DYING"})
      BY <2>1
    <3> HIDE DEF plan
    <3> QED BY <3>1, <3>2, <3>3, <3>4
  <2>4. CASE open'
    BY <2>2, <2>3, <2>4 DEF HeldStep, TermsStep, Settled
  <2>5. CASE ~open'
    <3>1. TermsStep
      BY <1>4, <2>2, <2>5, ManagementSells DEF TermsStep
    <3>2. smart /\ old < PnlWarmupMinutes => end'.why \cap Life!Engine = {}
      BY <1>4, <2>2, <2>5, ManagementSells, Disjoint
    <3> QED BY <2>2, <2>3, <3>1, <3>2 DEF HeldStep, Settled
  <2> QED BY <2>4, <2>5
<1> QED BY <1>1, <1>2, <1>3, <1>4 DEF Life!Next

LEMMA SettledAlways == Spec => []Settled
<1>1. Init => Settled
  BY DEF Init, NoLife, Life!Init, Settled, Life!Unsold
<1>2. LifeInv /\ Settled /\ [Next]_vars => Settled'
  <2> SUFFICES ASSUME LifeInv, Settled, [Next]_vars PROVE Settled'
    OBVIOUS
  <2>1. UNCHANGED lifeVars => Settled'
    BY DEF Settled, lifeVars
  <2> QED BY <2>1, StepsHold DEF Next, Screens, Lives, vars
<1> QED BY <1>1, <1>2, LifeAlways, PTL DEF Spec

(* While the pnl of a young position cannot be trusted, the smart exit     *)
(* neither sells on it nor arms a watch, whichever of the two tickers looks *)
(* and whether or not the record is there (close-rules.ts:21-31).           *)
THEOREM SmartExitWaits == Spec => WarmupHolds
<1>1. LifeInv /\ Settled /\ [Next]_vars => [HeldStep]_Life!vars
  <2>1. UNCHANGED lifeVars => UNCHANGED Life!vars
    BY DEF lifeVars, Life!vars
  <2> QED BY <2>1, StepsHold DEF Next, Screens, Lives, vars
<1>2. Spec => [][HeldStep]_Life!vars
  BY <1>1, LifeAlways, SettledAlways, PTL DEF Spec
<1> QED BY <1>2 DEF WarmupHolds, Life!WarmupHolds, HeldStep

(* A position is sold on the terms it was held under: a watch that was won, *)
(* lost or timed out, a stop after its grace, a wait that no management     *)
(* tick saw interrupted, a drop seen twice (close-rules.ts, bounce-exit.ts, *)
(* pnl-poller.ts:42-55).                                                    *)
THEOREM SalesAreTrue == Spec => SoldOnTerms
<1>1. LifeInv /\ Settled /\ [Next]_vars => [TermsStep]_Life!vars
  <2>1. UNCHANGED lifeVars => UNCHANGED Life!vars
    BY DEF lifeVars, Life!vars
  <2> QED BY <2>1, StepsHold DEF Next, Screens, Lives, vars
<1>2. Spec => [][TermsStep]_Life!vars
  BY <1>1, LifeAlways, SettledAlways, PTL DEF Spec
<1> QED BY <1>2 DEF SoldOnTerms, Life!SoldOnTerms, TermsStep

---------------------------------------------------------------------------
(* Lists and their filters.                                                *)

LEMMA Counted == \A S : Funnel!Cardinality(S) = Cardinality(S)
  BY DEF Funnel!Cardinality, Cardinality

(* A set of numbers that is not empty has a least. *)
LEMMA Least ==
  ASSUME NEW S, S \subseteq Nat, S # {}
  PROVE  \E m \in S : \A k \in S : m <= k
<1>1. PICK m \in S : \A k \in S : ~(<<k, m>> \in OpToRel(<, Nat))
  <2> DEFINE R == OpToRel(<, Nat)
  <2>1. IsWellFoundedOn(R, Nat)
    BY NatLessThanWellFounded
  <2> HIDE DEF R
  <2>2. \E m \in S : \A k \in S : ~(<<k, m>> \in R)
    BY <2>1, WFMin
  <2> QED BY <2>2 DEF R
<1>2. \A k \in S : ~(k < m)
  BY <1>1 DEF OpToRel
<1> QED BY <1>2

(* The places a filter keeps are found, one after the other. *)
LEMMA NthKept ==
  ASSUME NEW K \in Nat, NEW S, S \subseteq 1 .. K, NEW n \in 1 .. Cardinality(S)
  PROVE  Funnel!Nth(S, n) \in S
<1> DEFINE upto(m) == {j \in S : j <= m}
           C(m)    == Cardinality(upto(m))
           T       == {k \in Nat : C(k) >= n}
<1>1. ASSUME NEW m
      PROVE  IsFiniteSet(upto(m)) /\ C(m) \in Nat
  <2>1. IsFiniteSet(1 .. K)
    BY FS_Interval
  <2>2. upto(m) \in SUBSET (1 .. K)
    OBVIOUS
  <2> HIDE DEF upto
  <2>3. IsFiniteSet(upto(m))
    BY <2>1, <2>2, FS_Subset
  <2> QED BY <2>3, FS_CardinalityType
<1>2. C(K) = Cardinality(S) /\ C(0) = 0
  <2>1. \A j \in S : j <= K /\ ~(j <= 0)
    OBVIOUS
  <2>2. upto(K) = S /\ upto(0) = {}
    BY <2>1
  <2> HIDE DEF upto
  <2> QED BY <2>2, FS_EmptySet
<1>3. \E m \in T : \A k \in T : m <= k
  <2>1. C(K) >= n
    BY <1>1, <1>2
  <2>2. K \in T
    BY <2>1
  <2>3. T \subseteq Nat
    OBVIOUS
  <2> HIDE DEF T
  <2> QED BY <2>2, <2>3, Least
<1>4. PICK m \in T : \A k \in T : m <= k
  BY <1>3
<1>5. m \in Nat /\ C(m) >= n
  OBVIOUS
<1>6. m # 0
  <2> HIDE DEF C
  <2> QED BY <1>2, <1>5
<1>7. m - 1 \in Nat /\ ~(C(m - 1) >= n)
  <2>1. m - 1 \in Nat /\ ~(m <= m - 1)
    BY <1>5, <1>6
  <2>2. m - 1 \notin T
    <3> HIDE DEF T
    <3> QED BY <1>4, <2>1
  <2> QED BY <2>1, <2>2
<1> HIDE DEF T
<1>8. \A j \in S : (j <= m <=> j <= m - 1 \/ j = m) /\ (j = m => ~(j <= m - 1))
  BY <1>5, <1>7
<1>9. m \in S /\ C(m) = C(m - 1) + 1
  <2>1. CASE m \in S
    <3>1. upto(m) = upto(m - 1) \cup {m} /\ m \notin upto(m - 1)
      BY <1>8, <2>1
    <3> HIDE DEF upto
    <3>2. IsFiniteSet(upto(m - 1))
      BY <1>1
    <3> QED BY <3>1, <3>2, <2>1, FS_AddElement
  <2>2. CASE m \notin S
    <3>1. upto(m) = upto(m - 1)
      BY <1>8, <2>2
    <3> HIDE DEF upto
    <3> QED BY <3>1, <1>5, <1>7
  <2> QED BY <2>1, <2>2
<1>10. C(m) = n
  <2>1. IsFiniteSet(upto(m)) /\ C(m) \in Nat
    BY <1>1
  <2>2. IsFiniteSet(upto(m - 1)) /\ C(m - 1) \in Nat
    BY <1>1
  <2> HIDE DEF C
  <2> QED BY <2>1, <2>2, <1>5, <1>7, <1>9
<1>11. \E i \in S : Funnel!Cardinality({j \in S : j <= i}) = n
  BY <1>9, <1>10, Counted
<1> QED BY <1>11 DEF Funnel!Nth

LEMMA Kept ==
  ASSUME NEW K \in Nat, NEW list, NEW S, S \subseteq 1 .. K
  PROVE  LET kept == Funnel!Keep(list, S)
         IN  /\ \E n \in Nat : DOMAIN kept = 1 .. n
             /\ \A n \in DOMAIN kept : Funnel!Nth(S, n) \in S /\ kept[n] = list[Funnel!Nth(S, n)]
<1>1. Cardinality(S) \in Nat
  <2>1. IsFiniteSet(1 .. K) /\ S \in SUBSET (1 .. K)
    BY FS_Interval
  <2> QED BY <2>1, FS_Subset, FS_CardinalityType
<1>2. \A n \in 1 .. Cardinality(S) : Funnel!Nth(S, n) \in S
  BY NthKept
<1> QED BY <1>1, <1>2, Counted DEF Funnel!Keep

(* Numbers in a list that is not empty have a greatest. *)
LEMMA Greatest ==
  ASSUME NEW s, NEW n \in Nat \ {0}, \A i \in 1 .. n : s[i] \in Int
  PROVE  \E i \in 1 .. n : \A j \in 1 .. n : s[i] >= s[j]
<1> DEFINE Has(k) == \E i \in 1 .. k : \A j \in 1 .. k : s[i] >= s[j]
           Bad    == {k \in 1 .. n : ~Has(k)}
<1>1. CASE Bad = {}
  <2>1. n \in 1 .. n
    OBVIOUS
  <2> HIDE DEF Has
  <2> QED BY <1>1, <2>1 DEF Has
<1>2. CASE Bad # {}
  <2>1. Bad \subseteq Nat
    OBVIOUS
  <2>2. \E m \in Bad : \A k \in Bad : m <= k
    <3> HIDE DEF Bad
    <3> QED BY <1>2, <2>1, Least
  <2>3. PICK m \in Bad : \A k \in Bad : m <= k
    BY <2>2
  <2>4. m \in 1 .. n /\ ~Has(m)
    OBVIOUS
  <2>5. m # 1
    <3>1. Has(1)
      OBVIOUS
    <3> HIDE DEF Has
    <3> QED BY <2>4, <3>1
  <2>6. m - 1 \in 1 .. n /\ ~(m <= m - 1)
    BY <2>4, <2>5
  <2>7. Has(m - 1)
    <3>1. m - 1 \notin Bad
      <4> HIDE DEF Bad
      <4> QED BY <2>3, <2>6
    <3> HIDE DEF Has
    <3> QED BY <2>6, <3>1
  <2>8. PICK i \in 1 .. (m - 1) : \A j \in 1 .. (m - 1) : s[i] >= s[j]
    BY <2>7
  <2> HIDE DEF Bad
  <2>9. \A j \in 1 .. m : j \in 1 .. (m - 1) \/ j = m
    BY <2>4
  <2>10. CASE s[i] >= s[m]
    BY <2>4, <2>6, <2>8, <2>9, <2>10
  <2>11. CASE ~(s[i] >= s[m])
    <3>1. \A j \in 1 .. m : s[m] >= s[j]
      BY <2>4, <2>6, <2>8, <2>9, <2>11
    <3> QED BY <2>4, <3>1
  <2> QED BY <2>10, <2>11
<1> QED BY <1>1, <1>2

---------------------------------------------------------------------------
(* The technical gate, read from the candles.                              *)

(* A gate that turns nobody away has no check that fails. *)
LEMMA NoneFails ==
  ASSUME NEW checks, Funnel!FirstFailing(checks) = {}
  PROVE  \A i \in DOMAIN checks : ~checks[i][2]
  BY DEF Funnel!FirstFailing

(* Any history the clients answer. *)
Candles   == Seq([low : Int, close : Int, high : Int])
Fetched   == [candles : Candles, lean : {"UP", "DOWN", "FLAT"}, volatility : Int]

LEMMA Fetch ==
  ASSUME NEW h \in Histories, NEW answer \in Funnel!FetchKline(h, KlineLimit)
  PROVE  answer \in Fetched
<1>1. h \in Fetched
  BY RulesAssumption DEF Fetched, Candles
<1> DEFINE cs  == h.candles
           cut == SubSeq(cs, 1 + (IF Len(cs) > KlineLimit THEN Len(cs) - KlineLimit ELSE 0), Len(cs))
           h1  == [h EXCEPT !.candles = cut]
           h2  == [h1 EXCEPT !.candles = <<>>]
<1>2. answer = h1 \/ answer = h2
  BY DEF Funnel!FetchKline
<1>3. cut \in Candles
  <2> DEFINE C    == [low : Int, close : Int, high : Int]
             from == 1 + (IF Len(cs) > KlineLimit THEN Len(cs) - KlineLimit ELSE 0)
  <2>1. cs \in Seq(C) /\ Len(cs) \in Int
    BY <1>1 DEF Fetched, Candles
  <2>2. from \in Int /\ from >= 1
    BY <2>1, RulesAssumption
  <2> HIDE DEF C
  <2>3. \A i \in from .. Len(cs) : cs[i] \in C
    BY <2>1, <2>2
  <2> HIDE DEF from, cs
  <2>4. SubSeq(cs, from, Len(cs)) \in Seq(C)
    BY <2>1, <2>2, <2>3, SubSeqProperties
  <2> QED BY <2>4 DEF Candles, C, from, cs
<1>4. <<>> \in Candles
  BY DEF Candles
<1> HIDE DEF cut
<1>5. h1 \in Fetched
  BY <1>1, <1>3 DEF Fetched
<1> HIDE DEF h1
<1>6. h2 \in Fetched
  BY <1>4, <1>5 DEF Fetched
<1> QED BY <1>2, <1>5, <1>6

(* The spans of the technicals, and the lesser of two numbers. *)
LEMMA LesserOfTwo ==
  ASSUME NEW a \in Int, NEW b \in Int
  PROVE  Funnel!Min({a, b}) = IF a <= b THEN a ELSE b
<1>1. CASE a <= b
  <2>1. \A x \in {a, b} : (\A y \in {a, b} : x <= y) <=> x = a
    BY <1>1
  <2> QED BY <1>1, <2>1 DEF Funnel!Min
<1>2. CASE ~(a <= b)
  <2>1. \A x \in {a, b} : (\A y \in {a, b} : x <= y) <=> x = b
    BY <1>2
  <2> QED BY <1>2, <2>1 DEF Funnel!Min
<1> QED BY <1>1, <1>2

LEMMA LeastWindow == Funnel!WindowMin \in Int /\ Funnel!WindowMin >= 3
<1>1. PICK m \in {3} \cup Thresholds.minAge : \A a \in {3} \cup Thresholds.minAge : a <= m
  <2>1. CASE \E a \in Thresholds.minAge : a >= 3
    BY <2>1, RulesAssumption DEF Nullable
  <2>2. CASE \A a \in Thresholds.minAge : ~(a >= 3)
    <3>1. \A a \in {3} \cup Thresholds.minAge : a <= 3
      BY <2>2, RulesAssumption DEF Nullable
    <3> QED BY <3>1
  <2> QED BY <2>1, <2>2
<1>2. Funnel!WindowMin \in {3} \cup Thresholds.minAge /\ \A a \in {3} \cup Thresholds.minAge : Funnel!WindowMin >= a
  BY <1>1, RulesAssumption DEF Funnel!WindowMin, Funnel!Max, Nullable
<1> QED BY <1>2, RulesAssumption DEF Nullable

(* What a row of the technicals says of its candles. *)
Window(h)  == Funnel!Newest(h.candles, Funnel!Min({Options.windowShort, Len(h.candles)}))
Highest(h) == Funnel!Max({c.high : c \in Funnel!ToSet(Window(h))})
Close(h)   == h.candles[Len(h.candles)].close
Wide(h)    == Funnel!Min({Options.windowShort, Len(h.candles)}) >= Funnel!WindowMin
Lows(h)    == {l \in Funnel!SwingLows(h.candles, Options.swingWindow) : 0 < l /\ l < Close(h)}

LEMMA Row ==
  ASSUME NEW tf, NEW h, Len(h.candles) # 0
  PROVE  LET row == Funnel!Technicals(tf, h, Options, Funnel!WindowMin)
         IN  /\ row.candles = Len(h.candles)
             /\ row.trend = IF Len(h.candles) >= Options.emaLong THEN {h.lean} ELSE {}
             /\ row.fromHigh = IF Wide(h) /\ Highest(h) > 0
                               THEN {Funnel!BasisPoints(Close(h), Highest(h))} ELSE {}
             /\ row.support = IF Lows(h) = {} THEN {} ELSE {Funnel!Max(Lows(h))}
<1> DEFINE candles   == h.candles
           n         == Len(candles)
           window    == Funnel!Min({Options.windowShort, n})
           prior     == SubSeq(candles, n - window, n - 1)
           priorSum  == Funnel!SumOf([i \in DOMAIN prior |-> prior[i].close])
           trend     == IF n >= Options.emaLong THEN {h.lean} ELSE {}
           atr       == IF n >= Options.atrPeriod + 1 /\ Close(h) > 0 THEN {h.volatility} ELSE {}
           fromHigh  == IF Wide(h) /\ Highest(h) > 0
                        THEN {Funnel!BasisPoints(Close(h), Highest(h))} ELSE {}
           atTop     == Wide(h) /\ Highest(h) > 0 /\ Close(h) * 100 >= Highest(h) * 98
           spike     == IF Wide(h) /\ n >= window + 1 /\ priorSum > 0
                        THEN {Funnel!BasisPoints(window * Close(h), priorSum)} ELSE {}
           support   == IF Lows(h) = {} THEN {} ELSE {Funnel!Max(Lows(h))}
           distance  == IF Lows(h) = {} THEN {} ELSE {Funnel!BasisPoints(Funnel!Max(Lows(h)), Close(h))}
           unknown   == [tf |-> tf, candles |-> n, trend |-> {}, fromHigh |-> {}, atTop |-> FALSE,
                         spike |-> {}, atr |-> {}, support |-> {}, supportDistance |-> {}]
<1>1. Funnel!Technicals(tf, h, Options, Funnel!WindowMin) =
        [unknown EXCEPT !.trend = trend, !.atr = atr, !.fromHigh = fromHigh, !.atTop = atTop,
                        !.spike = spike, !.support = support, !.supportDistance = distance]
  BY DEF Funnel!Technicals, Window, Highest, Close, Wide, Lows
<1> HIDE DEF trend, atr, fromHigh, atTop, spike, support, distance
<1> QED BY <1>1 DEF trend, fromHigh, support

LEMMA NoRow ==
  ASSUME NEW tf, NEW h, Len(h.candles) = 0
  PROVE  LET row == Funnel!Technicals(tf, h, Options, Funnel!WindowMin)
         IN  row.candles = 0 /\ row.trend = {} /\ row.fromHigh = {} /\ row.support = {}
  BY DEF Funnel!Technicals

(* A percentage that is rounded down. *)
LEMMA Rounded ==
  ASSUME NEW x \in Int, NEW h \in Int, h > 0, NEW m \in Int, ~((x \div h) < -m)
  PROVE  x >= -(m * h)
  OBVIOUS

(* The highest price of a window is one of its prices. *)
LEMMA HighestIsAPrice ==
  ASSUME NEW h \in Fetched, h.candles # <<>>, Wide(h)
  PROVE  Highest(h) \in Int
<1> DEFINE C == [low : Int, close : Int, high : Int]
           n == Len(h.candles)
           w == Funnel!Min({Options.windowShort, n})
<1>1. h.candles \in Seq(C) /\ n \in Nat \ {0}
  BY DEF Fetched, Candles
<1>2. w \in Int /\ w >= 1 /\ w <= n
  <2>1. Options.windowShort \in Int /\ n \in Int /\ Funnel!WindowMin \in Int /\ Funnel!WindowMin >= 1
    BY <1>1, LeastWindow, RulesAssumption
  <2>2. w = IF Options.windowShort <= n THEN Options.windowShort ELSE n
    BY <2>1, LesserOfTwo
  <2>3. w >= Funnel!WindowMin
    BY DEF Wide
  <2> HIDE DEF w, n
  <2> QED BY <2>1, <2>2, <2>3
<1> HIDE DEF C, w
<1>3. \A i \in n - w + 1 .. n : h.candles[i] \in C
  BY <1>1, <1>2
<1>4. /\ Window(h) \in Seq(C) /\ Len(Window(h)) = w
  <2>1. Window(h) = SubSeq(h.candles, n - w + 1, n)
    BY DEF Window, Funnel!Newest, w
  <2>2. n - w + 1 \in Int /\ n \in Int /\ n - w + 1 <= n
    BY <1>1, <1>2
  <2> DEFINE from == n - w + 1
  <2>3. n - from + 1 = w
    BY <1>1, <1>2
  <2> HIDE DEF from, n
  <2>4. /\ SubSeq(h.candles, from, n) \in Seq(C)
        /\ Len(SubSeq(h.candles, from, n)) = n - from + 1
    BY <1>3, <2>2, SubSeqProperties DEF from
  <2> QED BY <2>1, <2>3, <2>4 DEF from
<1> DEFINE s == [i \in 1 .. w |-> Window(h)[i].high]
           S == {c.high : c \in Funnel!ToSet(Window(h))}
<1>5. S = {s[i] : i \in 1 .. w}
  BY <1>2, <1>4 DEF Funnel!ToSet
<1>6. \A i \in 1 .. w : s[i] \in Int
  <2>1. \A i \in 1 .. w : Window(h)[i] \in C
    BY <1>2, <1>4
  <2> QED BY <2>1 DEF C
<1> HIDE DEF s, S
<1>7. PICK i \in 1 .. w : \A j \in 1 .. w : s[i] >= s[j]
  <2>1. w \in Nat \ {0}
    BY <1>2
  <2> QED BY <2>1, <1>6, Greatest
<1>8. \E x \in S : \A y \in S : x >= y
  BY <1>5, <1>7
<1>9. Funnel!Max(S) \in S
  BY <1>8 DEF Funnel!Max
<1> QED BY <1>5, <1>6, <1>9 DEF Highest, S

LEMMA NotTooFar ==
  ASSUME NEW tf, NEW h \in Fetched, h.candles # <<>>, Funnel!WindowMin <= Options.windowShort,
         \A f \in Funnel!Technicals(tf, h, Options, Funnel!WindowMin).fromHigh : ~(f < -Thresholds.maxFromHigh)
  PROVE  ~Funnel!FellTooFar(h)
<1> DEFINE n == Len(h.candles)
<1>1. n \in Nat \ {0} /\ Close(h) \in Int
  <2> DEFINE C == [low : Int, close : Int, high : Int]
  <2>1. h.candles \in Seq(C)
    BY DEF Fetched, Candles
  <2>2. n \in Nat \ {0} /\ n \in 1 .. n
    BY <2>1
  <2>3. h.candles[n] \in C
    <3> HIDE DEF C
    <3> QED BY <2>1, <2>2
  <2>4. h.candles[n].close \in Int
    BY <2>3
  <2> QED BY <2>2, <2>4 DEF Close
<1>2. SUFFICES ASSUME Funnel!FellTooFar(h) PROVE FALSE
  OBVIOUS
<1>3. /\ n >= Funnel!WindowMin /\ Highest(h) > 0
      /\ (Highest(h) - Close(h)) * 10000 > Thresholds.maxFromHigh * Highest(h)
  BY <1>2 DEF Funnel!FellTooFar, Highest, Close, Window
<1>4. Wide(h)
  <2>1. Funnel!Min({Options.windowShort, n}) = IF Options.windowShort <= n THEN Options.windowShort ELSE n
    <3>1. n \in Int /\ Options.windowShort \in Int
      BY <1>1, RulesAssumption
    <3> HIDE DEF n
    <3> QED BY <3>1, LesserOfTwo
  <2> QED BY <2>1, <1>1, <1>3, LeastWindow, RulesAssumption DEF Wide
<1>5. Highest(h) \in Int
  BY <1>4, HighestIsAPrice
<1>6. ~(Funnel!BasisPoints(Close(h), Highest(h)) < -Thresholds.maxFromHigh)
  <2> DEFINE row == Funnel!Technicals(tf, h, Options, Funnel!WindowMin)
  <2>1. row.fromHigh = IF Wide(h) /\ Highest(h) > 0
                       THEN {Funnel!BasisPoints(Close(h), Highest(h))} ELSE {}
    BY <1>1, Row
  <2>2. \A f \in row.fromHigh : ~(f < -Thresholds.maxFromHigh)
    OBVIOUS
  <2> HIDE DEF row
  <2> QED BY <2>1, <2>2, <1>3, <1>4
<1>7. (Close(h) - Highest(h)) * 10000 >= -(Thresholds.maxFromHigh * Highest(h))
  <2> DEFINE x == (Close(h) - Highest(h)) * 10000
  <2>1. x \in Int /\ ~((x \div Highest(h)) < -Thresholds.maxFromHigh)
    BY <1>1, <1>5, <1>6 DEF Funnel!BasisPoints
  <2> DEFINE m   == Thresholds.maxFromHigh
             top == Highest(h)
  <2>2. m \in Int /\ top \in Int /\ top > 0 /\ x \in Int /\ ~((x \div top) < -m)
    BY <2>1, <1>3, <1>5, RulesAssumption
  <2> HIDE DEF x, m, top
  <2>3. x >= -(m * top)
    BY <2>2, Rounded
  <2> QED BY <2>3 DEF x, m, top
<1>8. Thresholds.maxFromHigh * Highest(h) \in Int
  BY <1>5, RulesAssumption
<1> QED BY <1>1, <1>3, <1>5, <1>7, <1>8

(* What the technical gate asks of the rows. *)
LEMMA Gate ==
  ASSUME NEW rows, Funnel!TaVeto(rows, Thresholds) = {}
  PROVE  /\ Thresholds.rejectMissingTrend => Funnel!Trends(rows) # {}
         /\ \A i \in DOMAIN rows : \A f \in rows[i].fromHigh : ~(f < -Thresholds.maxFromHigh)
         /\ Thresholds.rejectNoFloor => Funnel!Trends(rows) # {"DOWN"} \/ ~Funnel!NoFloor(rows)
<1> DEFINE missing == Funnel!Trends(rows) = {} /\ Thresholds.rejectMissingTrend
           deep    == \E i \in DOMAIN rows : \E f \in rows[i].fromHigh : f < -Thresholds.maxFromHigh
           dead    == Funnel!AllDown(rows) /\ Funnel!Capitulation(rows, Thresholds)
           sinking == Funnel!AllDown(rows) /\ Thresholds.rejectNoFloor /\ Funnel!NoFloor(rows)
           wild    == \E i \in DOMAIN rows : \E a \in rows[i].atr : a > Thresholds.maxAtr
           spiked  == \E i \in DOMAIN rows : rows[i].atTop /\ \E s \in rows[i].spike : s > Thresholds.maxSpike
           checks  == << <<"missing_trend", missing>>, <<"drawdown", deep>>, <<"capitulation", dead>>,
                         <<"no_floor_downtrend", sinking>>, <<"atr_extreme", wild>>, <<"spike_top", spiked>> >>
<1>1. Funnel!FirstFailing(checks) = {}
  BY DEF Funnel!TaVeto
<1>2. ~missing /\ ~deep /\ ~sinking
  <2> HIDE DEF missing, deep, dead, sinking, wild, spiked
  <2>1. 1 \in DOMAIN checks /\ 2 \in DOMAIN checks /\ 4 \in DOMAIN checks
    OBVIOUS
  <2>2. ~checks[1][2] /\ ~checks[2][2] /\ ~checks[4][2]
    <3> HIDE DEF checks
    <3> QED BY <1>1, <2>1, NoneFails
  <2> QED BY <2>2
<1> QED BY <1>2 DEF Funnel!AllDown

(* What the gate lets pass, of the candles that were fetched. *)
Vetted(hs) ==
  LET seen == {h \in Funnel!ToSet(hs) : h.candles # <<>>}
  IN  /\ Funnel!WindowMin <= Options.windowShort => \A h \in seen : ~Funnel!FellTooFar(h)
      /\ Thresholds.rejectMissingTrend => \E h \in seen : Funnel!Trending(h)
      /\ Thresholds.rejectNoFloor /\ (\E h \in seen : Funnel!Trending(h)) =>
           (\E h \in seen : Funnel!HasFloor(h)) \/ (\E h \in seen : Funnel!Trending(h) /\ h.lean # "DOWN")
Summary(hs) == [t \in 1..2 |-> Funnel!Technicals(Funnel!Timeframes[t], hs[t], Options, Funnel!WindowMin)]

LEMMA GateVets ==
  ASSUME NEW hs, DOMAIN hs = 1..2, hs[1] \in Fetched, hs[2] \in Fetched,
         Funnel!TaVeto(Summary(hs), Thresholds) = {}
  PROVE  Vetted(hs)
<1> DEFINE rows == Summary(hs)
           seen == {h \in Funnel!ToSet(hs) : h.candles # <<>>}
<1>1. DOMAIN rows = 1..2 /\ \A t \in 1..2 : rows[t] = Funnel!Technicals(Funnel!Timeframes[t], hs[t], Options, Funnel!WindowMin)
  BY DEF Summary
<1>2. \A t \in 1..2 : hs[t] \in Fetched
  OBVIOUS
<1>3. seen = {hs[t] : t \in {i \in 1..2 : hs[i].candles # <<>>}}
  BY DEF Funnel!ToSet
<1>4. ASSUME NEW t \in 1..2
      PROVE  /\ hs[t].candles # <<>> <=> Len(hs[t].candles) # 0
             /\ Len(hs[t].candles) \in Nat
  BY <1>2 DEF Fetched, Candles
<1> HIDE DEF rows, seen
<1>5. ASSUME NEW t \in 1..2, Len(hs[t].candles) = 0
       PROVE  rows[t].candles = 0 /\ rows[t].trend = {} /\ rows[t].support = {}
  <2> DEFINE row == Funnel!Technicals(Funnel!Timeframes[t], hs[t], Options, Funnel!WindowMin)
  <2>1. row.candles = 0 /\ row.trend = {} /\ row.support = {}
    BY <1>5, NoRow
  <2> QED BY <1>1, <2>1
<1>6. ASSUME NEW t \in 1..2, Len(hs[t].candles) # 0
       PROVE  /\ rows[t].candles = Len(hs[t].candles)
              /\ rows[t].trend = IF Len(hs[t].candles) >= Options.emaLong THEN {hs[t].lean} ELSE {}
              /\ rows[t].support = IF Lows(hs[t]) = {} THEN {} ELSE {Funnel!Max(Lows(hs[t]))}
  <2> DEFINE row == Funnel!Technicals(Funnel!Timeframes[t], hs[t], Options, Funnel!WindowMin)
  <2>1. /\ row.candles = Len(hs[t].candles)
        /\ row.trend = IF Len(hs[t].candles) >= Options.emaLong THEN {hs[t].lean} ELSE {}
        /\ row.support = IF Lows(hs[t]) = {} THEN {} ELSE {Funnel!Max(Lows(hs[t]))}
    BY <1>6, Row
  <2> QED BY <1>1, <2>1
<1>7. /\ Thresholds.rejectMissingTrend => Funnel!Trends(rows) # {}
      /\ \A i \in DOMAIN rows : \A f \in rows[i].fromHigh : ~(f < -Thresholds.maxFromHigh)
      /\ Thresholds.rejectNoFloor => Funnel!Trends(rows) # {"DOWN"} \/ ~Funnel!NoFloor(rows)
  BY Gate DEF rows
<1>8. ASSUME NEW t \in 1..2, hs[t].candles # <<>>, Funnel!WindowMin <= Options.windowShort
      PROVE  ~Funnel!FellTooFar(hs[t])
  <2>1. \A f \in Funnel!Technicals(Funnel!Timeframes[t], hs[t], Options, Funnel!WindowMin).fromHigh :
          ~(f < -Thresholds.maxFromHigh)
    BY <1>1, <1>7
  <2> QED BY <1>2, <1>8, <2>1, NotTooFar
(* A trend is of a timeframe that has the candles for it. *)
<1>9. ASSUME NEW t \in 1..2, NEW v \in rows[t].trend
      PROVE  hs[t].candles # <<>> /\ Funnel!Trending(hs[t]) /\ hs[t].lean = v
  <2>1. Len(hs[t].candles) # 0
    BY <1>9, <1>5
  <2>2. rows[t].trend = IF Len(hs[t].candles) >= Options.emaLong THEN {hs[t].lean} ELSE {}
    BY <2>1, <1>6
  <2> QED BY <1>4, <1>9, <2>1, <2>2 DEF Funnel!Trending
<1>10. ASSUME NEW t \in 1..2, hs[t].candles # <<>>, Funnel!Trending(hs[t])
      PROVE  rows[t].trend = {hs[t].lean}
  <2>1. rows[t].trend = IF Len(hs[t].candles) >= Options.emaLong THEN {hs[t].lean} ELSE {}
    BY <1>4, <1>10, <1>6
  <2> QED BY <1>10, <2>1 DEF Funnel!Trending
<1>11. ASSUME NEW t \in 1..2, rows[t].support # {}
      PROVE  hs[t].candles # <<>> /\ Funnel!HasFloor(hs[t])
  <2>1. Len(hs[t].candles) # 0
    BY <1>11, <1>5
  <2>2. rows[t].support = IF Lows(hs[t]) = {} THEN {} ELSE {Funnel!Max(Lows(hs[t]))}
    BY <2>1, <1>6
  <2>3. \E l \in Lows(hs[t]) : TRUE
    BY <1>11, <2>2
  <2> QED BY <1>4, <2>1, <2>3 DEF Lows, Close, Funnel!HasFloor
<1>12. ASSUME NEW t \in 1..2, rows[t].candles > 0 PROVE hs[t].candles # <<>>
  <2>1. Len(hs[t].candles) # 0
    BY <1>12, <1>5
  <2> QED BY <1>4, <2>1
<1>13. ASSUME NEW t \in 1..2, hs[t].candles # <<>> PROVE rows[t].candles > 0
  <2>1. rows[t].candles = Len(hs[t].candles)
    BY <1>4, <1>13, <1>6
  <2> QED BY <1>4, <1>13, <2>1
<1>14. Funnel!WindowMin <= Options.windowShort => \A h \in seen : ~Funnel!FellTooFar(h)
  BY <1>3, <1>8
<1>15. Funnel!Trends(rows) # {} => \E h \in seen : Funnel!Trending(h)
  BY <1>1, <1>3, <1>9 DEF Funnel!Trends
<1>16. ASSUME NEW g \in seen, Funnel!Trending(g), Thresholds.rejectNoFloor
       PROVE  (\E h \in seen : Funnel!HasFloor(h)) \/ (\E h \in seen : Funnel!Trending(h) /\ h.lean # "DOWN")
  <2>1. PICK t \in 1..2 : g = hs[t] /\ hs[t].candles # <<>>
    BY <1>3
  <2>2. rows[t].trend = {g.lean} /\ rows[t].candles > 0
    BY <1>10, <1>13, <1>16, <2>1
  <2>3. Funnel!Trends(rows) # {}
    BY <1>1, <2>2 DEF Funnel!Trends
  <2>4. CASE Funnel!Trends(rows) # {"DOWN"}
    <3>1. PICK u \in 1..2 : \E v \in rows[u].trend : v # "DOWN"
      BY <1>1, <2>3, <2>4 DEF Funnel!Trends
    <3> QED BY <1>3, <1>9, <3>1
  <2>5. CASE ~Funnel!NoFloor(rows)
    <3>1. PICK u \in 1..2 : rows[u].support # {}
      BY <1>1, <2>2, <2>5 DEF Funnel!NoFloor
    <3> QED BY <1>3, <1>11, <3>1
  <2> QED BY <1>7, <1>16, <2>4, <2>5
<1> QED BY <1>7, <1>14, <1>15, <1>16 DEF Vetted, seen

---------------------------------------------------------------------------
(* The lists that run beside one another stay beside one another, and the  *)
(* summaries are of the candles that were fetched.                         *)

IsList(s) == \E n \in Nat : DOMAIN s = 1 .. n
Beside ==
  /\ IsList(picked)
  /\ stage = "diligence" => DOMAIN diligence = DOMAIN picked
  /\ stage = "technical" =>
       /\ DOMAIN charts = DOMAIN picked
       /\ technicals = [i \in DOMAIN picked |-> Summary(charts[i])]
       /\ \A i \in DOMAIN picked : DOMAIN charts[i] = 1..2 /\ charts[i][1] \in Fetched /\ charts[i][2] \in Fetched
Offered   == stage = "brief" => \A i \in DOMAIN picked : Vetted(charts[i])
FunnelInv == Beside /\ Offered

LEMMA KeptList ==
  ASSUME NEW list, NEW s, IsList(s), NEW S, S \subseteq DOMAIN s
  PROVE  /\ IsList(Funnel!Keep(list, S))
         /\ \A j \in DOMAIN Funnel!Keep(list, S) : \E k \in S : Funnel!Keep(list, S)[j] = list[k]
<1>1. PICK n \in Nat : DOMAIN s = 1 .. n
  BY DEF IsList
<1> DEFINE kept == Funnel!Keep(list, S)
<1>2. /\ \E m \in Nat : DOMAIN kept = 1 .. m
      /\ \A j \in DOMAIN kept : Funnel!Nth(S, j) \in S /\ kept[j] = list[Funnel!Nth(S, j)]
  BY <1>1, Kept
<1> QED BY <1>2 DEF IsList

LEMMA FunnelStep ==
  ASSUME FunnelInv, Funnel!Next
  PROVE  FunnelInv'
<1>1. CASE Funnel!Discover
  <2>1. PICK page \in Pages :
          LET f      == Funnel!DiscoveryPage(page, Funnel!Now)
              ranked == Funnel!RankCandidates(Funnel!HardFilter(f, Thresholds, ctx))
          IN  picked' = Funnel!Keep(ranked, {r \in DOMAIN ranked : r <= PickLimit})
    BY <1>1 DEF Funnel!Discover
  <2> DEFINE candidates == [i \in DOMAIN page |-> Funnel!Normalize(page[i], Funnel!Now)]
             named  == Funnel!Keep(candidates, {i \in DOMAIN page : candidates[i] # {}})
             f      == Funnel!DiscoveryPage(page, Funnel!Now)
             passed == Funnel!HardFilter(f, Thresholds, ctx)
             ranked == Funnel!RankCandidates(passed)
  <2>2. IsList(page)
    <3>1. page \in Seq(UNION {ToSet(p) : p \in Pages})
      BY RulesAssumption
    <3> QED BY <3>1 DEF IsList
  <2>3. IsList(named)
    <3> DEFINE S == {i \in DOMAIN page : candidates[i] # {}}
    <3>1. S \subseteq DOMAIN page
      OBVIOUS
    <3> HIDE DEF candidates, S
    <3> QED BY <2>2, <3>1, KeptList DEF S
  <2>4. DOMAIN f = DOMAIN named
    BY DEF Funnel!DiscoveryPage
  <2>5. IsList(passed)
    <3> DEFINE S == {i \in DOMAIN f : Funnel!FirstFailure(f[i], Thresholds, ctx) = {}}
    <3>1. S \subseteq DOMAIN f /\ passed = Funnel!Keep(f, S)
      BY DEF Funnel!HardFilter
    <3>2. IsList(f)
      BY <2>3, <2>4 DEF IsList
    <3> HIDE DEF f, S, passed
    <3> QED BY <3>1, <3>2, KeptList
  <2>6. DOMAIN ranked = DOMAIN passed
    BY DEF Funnel!RankCandidates
  <2>7. IsList(picked')
    <3> DEFINE S == {r \in DOMAIN ranked : r <= PickLimit}
    <3>1. IsList(ranked)
      BY <2>5, <2>6 DEF IsList
    <3>2. picked' = Funnel!Keep(ranked, S)
      BY <2>1
    <3>3. S \subseteq DOMAIN ranked
      OBVIOUS
    <3> HIDE DEF ranked, S
    <3> QED BY <3>1, <3>2, <3>3, KeptList
  <2>8. stage' = "over" \/ stage' = "enrich"
    BY <1>1 DEF Funnel!Discover
  <2> QED BY <2>7, <2>8 DEF FunnelInv, Beside, Offered, IsList
<1>2. CASE Funnel!DiscoveryThrows
  BY <1>2 DEF Funnel!DiscoveryThrows, FunnelInv, Beside, Offered, IsList
<1>3. CASE Funnel!EnrichCandidates
  <2>1. DOMAIN diligence' = DOMAIN picked /\ picked' = picked /\ stage' = "diligence"
    BY <1>3 DEF Funnel!EnrichCandidates
  <2> QED BY <2>1 DEF FunnelInv, Beside, Offered, IsList
<1>4. CASE Funnel!DiligenceGate
  <2> DEFINE kept == {i \in DOMAIN diligence : Funnel!DiligenceVeto(diligence[i], Thresholds) = {}}
  <2>1. picked' = Funnel!Keep(picked, kept) /\ (stage' = "over" \/ stage' = "klines")
    BY <1>4 DEF Funnel!DiligenceGate
  <2>2. kept \subseteq DOMAIN picked /\ IsList(picked)
    BY <1>4 DEF Funnel!DiligenceGate, FunnelInv, Beside
  <2>3. IsList(picked')
    <3>1. IsList(Funnel!Keep(picked, kept))
      <4> HIDE DEF kept
      <4> QED BY <2>2, KeptList
    <3> QED BY <2>1, <3>1 DEF IsList
  <2> QED BY <2>1, <2>3 DEF FunnelInv, Beside, Offered
<1>5. CASE Funnel!EnrichTechnicals
  <2> DEFINE answers == UNION {Funnel!FetchKline(h, KlineLimit) : h \in Histories}
  <2>1. PICK slow \in [DOMAIN picked -> answers], hourly \in [DOMAIN picked -> answers] :
          charts' = [i \in DOMAIN picked |-> <<slow[i], hourly[i]>>]
    BY <1>5 DEF Funnel!EnrichTechnicals
  <2>2. answers \subseteq Fetched
    BY Fetch
  <2> HIDE DEF answers
  <2>3. \A i \in DOMAIN picked : /\ DOMAIN charts'[i] = 1..2
                                 /\ charts'[i][1] \in Fetched /\ charts'[i][2] \in Fetched
    BY <2>1, <2>2
  <2>4. technicals' = [i \in DOMAIN picked |-> Summary(charts'[i])]
    BY <1>5 DEF Funnel!EnrichTechnicals, Summary
  <2>5. picked' = picked /\ stage' = "technical" /\ DOMAIN charts' = DOMAIN picked
    BY <1>5, <2>1 DEF Funnel!EnrichTechnicals
  <2> QED BY <2>3, <2>4, <2>5 DEF FunnelInv, Beside, Offered, IsList, Summary
<1>6. CASE Funnel!TechnicalGate
  <2> DEFINE kept == {i \in DOMAIN technicals : Funnel!TaVeto(technicals[i], Thresholds) = {}}
  <2>1. /\ picked' = Funnel!Keep(picked, kept) /\ charts' = Funnel!Keep(charts, kept)
        /\ stage = "technical" /\ (stage' = "over" \/ stage' = "brief")
    BY <1>6 DEF Funnel!TechnicalGate
  <2>2. PICK n \in Nat : DOMAIN picked = 1 .. n
    BY DEF FunnelInv, Beside, IsList
  <2>3. /\ technicals = [i \in DOMAIN picked |-> Summary(charts[i])]
        /\ \A i \in DOMAIN picked : /\ DOMAIN charts[i] = 1..2
                                    /\ charts[i][1] \in Fetched /\ charts[i][2] \in Fetched
    BY <2>1 DEF FunnelInv, Beside
  <2>4. kept \subseteq 1 .. n
    BY <2>2, <2>3
  <2>5. ASSUME NEW k \in kept PROVE Vetted(charts[k])
    <3>1. k \in DOMAIN picked /\ Funnel!TaVeto(Summary(charts[k]), Thresholds) = {}
      BY <2>3
    <3> QED BY <3>1, <2>3, GateVets
  <2> HIDE DEF kept
  <2>6. IsList(Funnel!Keep(picked, kept))
    BY <2>2, <2>4, KeptList DEF IsList
  <2>7. ASSUME NEW i \in DOMAIN Funnel!Keep(picked, kept)
        PROVE  Vetted(Funnel!Keep(charts, kept)[i])
    <3>1. i \in DOMAIN Funnel!Keep(charts, kept)
      BY DEF Funnel!Keep
    <3>2. IsList(picked) /\ kept \subseteq DOMAIN picked
      BY <2>2, <2>4 DEF IsList
    <3>3. PICK k \in kept : Funnel!Keep(charts, kept)[i] = charts[k]
      BY <3>1, <3>2, KeptList
    <3> QED BY <2>5, <3>3
  <2>8. IsList(picked')
    BY <2>1, <2>6 DEF IsList
  <2>9. \A i \in DOMAIN picked' : Vetted(charts'[i])
    BY <2>1, <2>7
  <2> QED BY <2>1, <2>8, <2>9 DEF FunnelInv, Beside, Offered, Vetted
<1> QED BY <1>1, <1>2, <1>3, <1>4, <1>5, <1>6 DEF Funnel!Next

(* What is offered to the decider met the gates, however many lookups      *)
(* failed on the way: no candidate that fell too far from its top, and none *)
(* without a trend or a floor where those are asked for                     *)
(* (screening/cycle.ts, domain/rules/screening.ts).                         *)
THEOREM OffersAreVetted == Spec => []OfferedIsVetted
<1>1. Init => FunnelInv
  <2>1. NoFunnel => FunnelInv
    BY DEF NoFunnel, FunnelInv, Beside, Offered, IsList
  <2>2. Funnel!Init => FunnelInv
    BY DEF Funnel!Init, FunnelInv, Beside, Offered, IsList
  <2> QED BY <2>1, <2>2 DEF Init
<1>2. FunnelInv /\ [Next]_vars => FunnelInv'
  <2> SUFFICES ASSUME FunnelInv, [Next]_vars PROVE FunnelInv'
    OBVIOUS
  <2>1. UNCHANGED funnelVars => FunnelInv'
    BY DEF funnelVars, FunnelInv, Beside, Offered, IsList, Summary, Vetted
  <2> QED BY <2>1, FunnelStep DEF Next, Screens, Lives, vars
<1>3. FunnelInv => OfferedIsVetted
  BY DEF FunnelInv, Offered, Vetted, OfferedIsVetted, Funnel!OfferedIsVetted
<1> QED BY <1>1, <1>2, <1>3, PTL DEF Spec
=============================================================================
