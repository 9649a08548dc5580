------------------------------ MODULE MCRules ------------------------------
(***************************************************************************)
(* The rules on small values: thresholds, candidates, candles, and readings *)
(* of a position.  Each behaviour moves one part.                           *)
(***************************************************************************)
EXTENDS Rules, PositionReading, Discovery

MCMoving == {{"funnel"}, {"life"}}
MCFunnel == {{"funnel"}}
MCPeaks  == {{14}}

(* Candidates, with 3-candle windows and EMAs over 4                       *)
(* The current shape of a row, the legacy one, one of each without what a  *)
(* threshold needs, and one that is not a pool.                            *)
Nested ==
  [RawPool EXCEPT
     !.address = <<{"p1"}, {}>>, !.base = <<{"m1"}, {}, {}>>, !.tvl = <<{5}>>, !.volume = <<{5}, {}>>,
     !.feeActive = <<{1}>>, !.organic = <<{60}, {}, {}>>, !.holders = <<{}, {500}, {}>>,
     !.mcap = <<{5}, {}, {}>>, !.binStep = <<{100}, {}, {}>>, !.launchpad = <<{"pump"}, {}>>,
     !.created = <<{970}, {}>>]
Flat ==
  [RawPool EXCEPT
     !.address = <<{}, {"p2"}>>, !.base = <<{}, {}, {"m2"}>>, !.tvl = <<{5}>>, !.volume = <<{}, {5}>>,
     !.feePlain = <<{2}>>, !.organic = <<{}, {}, {60}>>, !.holders = <<{}, {}, {500}>>,
     !.binStep = <<{}, {}, {100}>>, !.launchpad = <<{}, {"pump"}>>, !.created = <<{}, {1001}>>, !.age = <<{30}>>]
Unscored == [Nested EXCEPT !.address = <<{"p3"}, {}>>, !.base = <<{"m3"}, {}, {}>>, !.organic = <<{}, {}, {}>>]
Strange  == [Flat EXCEPT !.tvl = <<{-1}>>]
MCPages  == {<<>>} \cup UNION {[1..n -> {Nested, Flat, Unscored, Strange}] : n \in 1..2}
              \cup [1..3 -> {Nested, Flat, Unscored}]
MCOnePage == {<<Nested>>}
MCContexts ==
  {[coolingPools |-> {}, coolingMints |-> {}, blacklist |-> {}, inUse |-> {}],
   [coolingPools |-> {"p2"}, coolingMints |-> {}, blacklist |-> {}, inUse |-> {"m1"}]}
MCReports == {{[rugged |-> FALSE, score |-> 1, top10 |-> 70]}}
HolderRow(share, bot) == [share |-> share, address |-> TRUE, bot |-> bot]
MCHolderLists == {<<>>, <<HolderRow({20}, FALSE), HolderRow({}, TRUE)>>, <<HolderRow({45}, TRUE)>>}

Candle(low, close, high) == [low |-> low, close |-> close, high |-> high]
Chart(candles, lean, volatility) == [candles |-> candles, lean |-> lean, volatility |-> volatility]
Falling == <<Candle(90, 95, 100), Candle(60, 70, 92), Candle(55, 65, 75), Candle(58, 62, 66), Candle(57, 59, 63)>>
Floored == <<Candle(40, 45, 50), Candle(30, 42, 50), Candle(43, 60, 66), Candle(50, 58, 62), Candle(48, 49, 60)>>
Rising  == <<Candle(50, 52, 55), Candle(45, 50, 53), Candle(50, 56, 58), Candle(55, 60, 62), Candle(60, 79, 80)>>
MCHistories ==
  {Chart(Falling, "DOWN", 10), Chart(Floored, "DOWN", 10), Chart(Rising, "UP", 10)}
MCOptions == [windowShort |-> 3, emaLong |-> 4, atrPeriod |-> 2, swingWindow |-> 1]
MCThresholds ==
  [minTvl |-> 1, maxTvl |-> 9, minVolume |-> 1, minOrganic |-> 50, minHolders |-> 100,
   minMcap |-> 1, maxMcap |-> 9, minBinStep |-> 80, maxBinStep |-> 125, minFee |-> 1,
   blockedLaunchpads |-> {}, allowedLaunchpads |-> {"pump"}, minAge |-> {3}, maxAge |-> {},
   maxBots |-> 30, maxTop10 |-> 60, maxFromHigh |-> 2000, rejectMissingTrend |-> TRUE,
   rejectNoFloor |-> TRUE, maxAtr |-> 20, maxSpike |-> 2500,
   capFromHigh |-> 1500, capSupportDistance |-> 1000, capAtr |-> 15]
(* The same with the drawdown gate set wider than the capitulation gate.    *)
MCWideThresholds == [MCThresholds EXCEPT !.maxFromHigh = 6000]

---------------------------------------------------------------------------
(* One position, with a warm-up of one minute and a few telling readings   *)

Reading(pnl, where, inRange) ==
  [pnl |-> pnl, suspicious |-> pnl = {}, where |-> where, inRange |-> inRange, fee |-> {}]
MCReadings ==
  {Reading({-100}, "below", FALSE), Reading({-30}, "below", FALSE), Reading({-18}, "in", TRUE),
   Reading({-20}, "above", TRUE), Reading({6}, "above", FALSE), Reading({12}, "in", TRUE),
   Reading({}, "above", FALSE)}

(* Where they come from: the range is 10..20, 100 were deposited, and a    *)
(* row has what is reported, what the balance is worth, its own active bin *)
(* and its own word on the range.                                          *)
Account(active) == [position |-> "pos", lower |-> 10, upper |-> 20, active |-> active]
Both(nullable) == [usd |-> nullable, sol |-> nullable]
DatapiRow(reported, left, active, outside) ==
  [positionAddress |-> {}, address |-> {"pos"}, position |-> {"other"},
   lower |-> {}, upper |-> {}, active |-> active, out |-> outside,
   reported |-> Both(reported), balances |-> Both(left), deposits |-> Both({100}),
   feeX |-> Both({}), feeY |-> Both({}), withdrawals |-> Both({}), fees |-> Both({})]
Nameless == [DatapiRow({50}, {150}, {}, {}) EXCEPT !.address = {}, !.position = {}]
ASSUME ReadingsAreRead ==
  MCReadings =
    {ReadPosition(Account(5), {<<DatapiRow({}, {}, {}, {})>>}, TRUE),       \* a balance not indexed yet
     ReadPosition(Account(5), {<<DatapiRow({-30}, {80}, {}, {})>>}, TRUE),
     ReadPosition(Account(15), {<<DatapiRow({}, {82}, {}, {})>>}, TRUE),
     ReadPosition(Account(15), {<<DatapiRow({}, {80}, {21}, {})>>}, TRUE),  \* the two disagree
     ReadPosition(Account(25), {<<DatapiRow({6}, {}, {}, {TRUE}), Nameless>>}, FALSE),
     ReadPosition(Account(5), {<<DatapiRow({}, {112}, {15}, {FALSE})>>}, FALSE),
     ReadPosition(Account(25), {}, TRUE)}                                   \* no answer

Row(trend, floor, reds) == [trend |-> trend, floor |-> floor, atr |-> {15}, candles |-> 9, reds |-> reds]
MCCharts ==
  {[slow |-> Row({"DOWN"}, {}, 1), hourly |-> Row({"DOWN"}, {}, 4)],
   [slow |-> NoCandles, hourly |-> Row({}, {1}, 0)]}
ASSUME ChartsAreShown ==
  MCCharts \subseteq
    EnrichPositionTechnicals([slow |-> Row({"DOWN"}, {}, 1), hourly |-> Row({"DOWN"}, {}, 4)])
      \cup EnrichPositionTechnicals([slow |-> Row({"UP"}, {1}, 0), hourly |-> Row({}, {1}, 0)])

(* A close is settled with its own row, and with none whose deposit is not *)
(* there yet.                                                              *)
Closed(name, deposit) ==
  [DatapiRow({}, {}, {}, {}) EXCEPT !.address = {name}, !.deposits = Both(deposit), !.withdrawals = Both({90})]
ASSUME SettledByItsRow ==
  \A theirs, own \in {{}, {100}} :
    GetClosedPositionPnl("pos", {<<Closed("pos", {}), Closed("mate", theirs), Closed("pos", own)>>})
      = {[deposits |-> d, withdrawals |-> 90, fees |-> 0] : d \in own}

MCConfig ==
  [smart |-> TRUE, bounce |-> TRUE, stopLossGrace |-> 2, stopLoss |-> -15, takeProfit |-> 50, outOfRangeWait |-> 2,
   minFee |-> 1, dyingAtr |-> 10, dyingReds |-> 4, healthyFee |-> 12, hardFloor |-> -25,
   oorProxy |-> -12, bounceTake |-> 15, bounceStop |-> 25, bounceTimeout |-> 2,
   confirmDelay |-> 1, confirmTolerance |-> 2, trailing |-> TRUE, trailingTrigger |-> 10,
   trailingDrop |-> 5, sage |-> TRUE, sageCooldown |-> 1]
=============================================================================
