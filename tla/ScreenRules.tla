----------------------------- MODULE ScreenRules -----------------------------
(***************************************************************************)
(* The pure rules a candidate pool meets on its way to a deploy:           *)
(* domain/rules/screening.ts and scoring.ts, domain/format/technicals.ts,  *)
(* the two gates of app/screening/cycle.ts, the answers of the market      *)
(* clients they read, and domain/rules/deploy-planning.ts.                 *)
(*                                                                         *)
(* A nullable value is a set of at most one element, {} for null.  Prices  *)
(* are whole numbers; a percentage is in hundredths of a percent, rounded  *)
(* down.  EMA and ATR are not computed: a history carries the lean and the *)
(* volatility they would show, and the number of candles they need is kept.*)
(***************************************************************************)
EXTENDS Discovery

Or(nullable, default) == IF nullable = {} THEN default ELSE CHOOSE v \in nullable : TRUE
BasisPoints(a, b) == ((a - b) * 10000) \div b

(* The first of a list of <<kind, failed>> checks that fails, if any. *)
FirstFailing(checks) ==
  LET failing == {i \in DOMAIN checks : checks[i][2]}
  IN  IF failing = {} THEN {} ELSE {checks[Min(failing)][1]}

---------------------------------------------------------------------------
(* Hard filter and ranking                                                 *)

(* ctx holds the two cooldowns, the blacklist and the base mints in use.   *)
FirstFailure(pool, th, ctx) ==
  FirstFailing(<<
    <<"tvl_out_of_range", pool.tvl < th.minTvl \/ pool.tvl > th.maxTvl>>,
    <<"volume_below_min", pool.volume < th.minVolume>>,
    <<"organic_below_min", Or(pool.organic, 0) < th.minOrganic>>,
    <<"holders_below_min", Or(pool.holders, 0) < th.minHolders>>,
    <<"mcap_out_of_range", \E m \in pool.mcap : m < th.minMcap \/ m > th.maxMcap>>,
    <<"bin_step_out_of_range", \E b \in pool.binStep : b < th.minBinStep \/ b > th.maxBinStep>>,
    <<"fee_tvl_below_min", Or(pool.feeActive, Or(pool.feePlain, 0)) < th.minFee>>,
    <<"launchpad_blocked", pool.launchpad \cap th.blockedLaunchpads # {}>>,
    <<"launchpad_not_allowed",
      th.allowedLaunchpads # {} /\ pool.launchpad \cap th.allowedLaunchpads = {}>>,
    <<"token_age_out_of_range",
      \E a \in pool.age : (\E m \in th.minAge : a < m) \/ (\E m \in th.maxAge : a > m)>>,
    <<"on_pool_cooldown", pool.id \in ctx.coolingPools>>,
    <<"on_base_mint_cooldown", pool.base \in ctx.coolingMints>>,
    <<"base_mint_blacklisted", pool.base \in ctx.blacklist>>,
    <<"base_mint_already_in_use", pool.base \in ctx.inUse>> >>)

HardFilter(pools, th, ctx) ==
  Keep(pools, {i \in DOMAIN pools : FirstFailure(pools[i], th, ctx) = {}})

(* In hundredths, so that volume and holders count without a fraction. *)
ScoreCandidate(pool) ==
  100000 * Or(pool.feeActive, Or(pool.feePlain, 0)) + 1000 * Or(pool.organic, 0)
    + pool.volume + Or(pool.holders, 0)

(* Highest first, as they came where they tie. *)
RankCandidates(pools) ==
  LET score        == [i \in DOMAIN pools |-> ScoreCandidate(pools[i])]
      Before(i, j) == score[i] > score[j] \/ (score[i] = score[j] /\ i < j)
      Rank(i)      == 1 + Cardinality({j \in DOMAIN pools : Before(j, i)})
  IN  [r \in DOMAIN pools |-> pools[CHOOSE i \in DOMAIN pools : Rank(i) = r]]

---------------------------------------------------------------------------
(* What the market clients answer                                          *)

(* rugcheck.xyz.  Unreachable, rugged and over the score ceiling all answer *)
(* a concentration of zero; only `passes' tells them apart.                 *)
RugCheck(report, scoreCeiling, top10Ceiling) ==
  IF report = {} THEN [top10 |-> 0, passes |-> TRUE]
  ELSE LET r == Or(report, [rugged |-> FALSE])
       IN  IF r.rugged \/ r.score > scoreCeiling THEN [top10 |-> 0, passes |-> FALSE]
           ELSE [top10 |-> r.top10, passes |-> r.top10 <= top10Ceiling]

(* Jupiter's holder list: the rows that carry an address and a share.  A    *)
(* failure is an empty list.  The first ten rows count for the top ten.     *)
GetHolders(rows) ==
  LET parsed   == {i \in DOMAIN rows : rows[i].share # {} /\ rows[i].address}
      Sum(idx) == MapThenSumSet(LAMBDA i : Or(rows[i].share, 0), idx)
  IN  [some |-> parsed # {},
       top10 |-> Sum({i \in parsed : i <= 10}),
       bots  |-> Sum({i \in parsed : rows[i].bot})]

(* One lookup of the diligence of a candidate; a lookup past its three      *)
(* seconds is {}.  A holder list without a row leaves both shares unknown.  *)
Enrich(pool, rug, holders) ==
  LET found == {h \in holders : h.some}
  IN  [base  |-> pool.base,
       rug   |-> {r.top10 : r \in rug},
       total |-> pool.holders,
       top10 |-> {h.top10 : h \in found},
       bots  |-> {h.bots : h \in found}]

(* A kline request that fails, or whose body does not parse, answers no     *)
(* candles; otherwise the newest `limit' of them, oldest first.             *)
FetchKline(history, limit) ==
  UNION {{h, [h EXCEPT !.candles = <<>>]} : h \in {
    [history EXCEPT !.candles =
      SubSeq(@, 1 + (IF Len(@) > limit THEN Len(@) - limit ELSE 0), Len(@))]}}

---------------------------------------------------------------------------
(* Technicals of one timeframe                                             *)

Newest(candles, n) == SubSeq(candles, Len(candles) - n + 1, Len(candles))
SumOf(s) == FoldSeq(LAMBDA x, y : x + y, 0, s)

(* Lows strictly under the `window' candles on either side. *)
SwingLows(candles, window) ==
  {candles[i].low : i \in {j \in (1 + window)..(Len(candles) - window) :
    \A k \in 1..window : candles[j - k].low > candles[j].low /\ candles[j + k].low > candles[j].low}}

(* o holds windowShort, emaLong, atrPeriod and swingWindow; windowMin is how *)
(* many candles the window needs before anything is read off it.            *)
Technicals(tf, history, o, windowMin) ==
  LET candles   == history.candles
      n         == Len(candles)
      close     == candles[n].close
      window    == Min({o.windowShort, n})
      canWindow == window >= windowMin
      highest   == Max({c.high : c \in ToSet(Newest(candles, window))})
      prior     == SubSeq(candles, n - window, n - 1)
      priorSum  == SumOf([i \in DOMAIN prior |-> prior[i].close])
      lows      == {l \in SwingLows(candles, o.swingWindow) : 0 < l /\ l < close}
      support   == Max(lows)
      unknown   == [tf |-> tf, candles |-> n, trend |-> {}, fromHigh |-> {}, atTop |-> FALSE,
                    spike |-> {}, atr |-> {}, support |-> {}, supportDistance |-> {}]
  IN  IF n = 0 THEN unknown
      ELSE [unknown EXCEPT
              !.trend    = IF n >= o.emaLong THEN {history.lean} ELSE {},
              !.atr      = IF n >= o.atrPeriod + 1 /\ close > 0 THEN {history.volatility} ELSE {},
              !.fromHigh = IF canWindow /\ highest > 0 THEN {BasisPoints(close, highest)} ELSE {},
              !.atTop    = canWindow /\ highest > 0 /\ close * 100 >= highest * 98,
              !.spike    = IF canWindow /\ n >= window + 1 /\ priorSum > 0
                           THEN {BasisPoints(window * close, priorSum)} ELSE {},
              !.support  = IF lows = {} THEN {} ELSE {support},
              !.supportDistance = IF lows = {} THEN {} ELSE {BasisPoints(support, close)}]

---------------------------------------------------------------------------
(* The two gates of the screening cycle                                    *)

(* Unknown shares pass. *)
DiligenceVeto(d, th) ==
  FirstFailing(<<
    <<"bot_pct_too_high", \E b \in d.bots : b > th.maxBots>>,
    <<"top10_pct_too_high", Or(d.top10, Or(d.rug, 0)) > th.maxTop10>> >>)

Trends(rows) == UNION {rows[i].trend : i \in DOMAIN rows}
AllDown(rows) == Trends(rows) = {"DOWN"}

(* Deep, far from support and dead, on the hourly row. *)
Capitulation(rows, th) ==
  \E i \in DOMAIN rows :
    /\ rows[i].tf = "1h"
    /\ \E f \in rows[i].fromHigh : f < -th.capFromHigh
    /\ \E s \in rows[i].supportDistance : s > th.capSupportDistance
    /\ \E a \in rows[i].atr : a < th.capAtr

NoFloor(rows) ==
  LET seen == {i \in DOMAIN rows : rows[i].candles > 0}
  IN  seen # {} /\ \A i \in seen : rows[i].support = {}

TaVetoOnTrend(rows, th) ==                  \* mutant: the drawdown waits for a downtrend
  FirstFailing(<<
    <<"missing_trend", Trends(rows) = {} /\ th.rejectMissingTrend>>,
    <<"drawdown", AllDown(rows) /\ \E i \in DOMAIN rows : \E f \in rows[i].fromHigh : f < -th.maxFromHigh>>,
    <<"no_floor_downtrend", AllDown(rows) /\ th.rejectNoFloor /\ NoFloor(rows)>>,
    <<"atr_extreme", \E i \in DOMAIN rows : \E a \in rows[i].atr : a > th.maxAtr>> >>)
TaVeto(rows, th) ==
  FirstFailing(<<
    <<"missing_trend", Trends(rows) = {} /\ th.rejectMissingTrend>>,
    <<"drawdown", \E i \in DOMAIN rows : \E f \in rows[i].fromHigh : f < -th.maxFromHigh>>,
    <<"capitulation", AllDown(rows) /\ Capitulation(rows, th)>>,
    <<"no_floor_downtrend", AllDown(rows) /\ th.rejectNoFloor /\ NoFloor(rows)>>,
    <<"atr_extreme", \E i \in DOMAIN rows : \E a \in rows[i].atr : a > th.maxAtr>>,
    <<"spike_top", \E i \in DOMAIN rows : rows[i].atTop /\ \E s \in rows[i].spike : s > th.maxSpike>> >>)
=============================================================================
