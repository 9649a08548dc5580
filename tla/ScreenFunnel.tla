---------------------------- MODULE ScreenFunnel ----------------------------
(***************************************************************************)
(* One pass of the candidates through the screening cycle                  *)
(* (app/screening/cycle.ts), stage by stage: discovery and hard filter,    *)
(* diligence, technicals, brief.  The lookups of a stage run in parallel   *)
(* and each may time out; the stage ends when the last is in.  Lists of    *)
(* the same length run beside one another and are cut by index.            *)
(***************************************************************************)
EXTENDS ScreenRules

CONSTANTS
  Pages,       \* pages the discovery may answer, as sequences of raw rows
  Contexts,    \* cooldowns, blacklist and mints in use, as records
  Reports,     \* nullable reports of rugcheck.xyz
  HolderLists, \* row lists of Jupiter
  Histories,   \* candle histories
  Thresholds,  \* the screening section of the configuration
  Options,     \* the spans of the technicals
  PickLimit,   \* the tool's limit: 5 in the code
  KlineLimit   \* SCREENING_KLINE_LIMIT

VARIABLES
  stage,      \* "discover", "enrich", "diligence", "klines", "technical", "brief", "over"
  ctx,        \* what the hard filter reads beside the pools
  found,      \* pools discovered
  picked,     \* those still in the running
  diligence,  \* beside picked: what was looked up on each
  charts,     \* beside picked: the two histories fetched for each
  technicals, \* beside picked: their summaries
  rejected    \* <<pool, kind>> for each candidate turned away

vars == <<stage, ctx, found, picked, diligence, charts, technicals, rejected>>

ScoreCeiling == 50000
Top10Ceiling == 60
Now          == 1000
Timeframes   == <<"15m", "1h">>

Init ==
  /\ stage = "discover" /\ ctx \in Contexts
  /\ found = <<>> /\ picked = <<>> /\ rejected = {}
  /\ diligence = <<>> /\ charts = <<>> /\ technicals = <<>>

---------------------------------------------------------------------------
(* get_top_candidates.  Pools the discovery repeats are not merged.  When   *)
(* the page throws, the cycle is skipped.                                  *)
Discover ==
  /\ stage = "discover"
  /\ \E page \in Pages :
       LET f      == DiscoveryPage(page, Now)
           ranked == RankCandidates(HardFilter(f, Thresholds, ctx))
       IN  /\ found' = f
           /\ picked' = Keep(ranked, {r \in DOMAIN ranked : r <= PickLimit})
           /\ rejected' = {<<p, "hard">> : p \in {q \in ToSet(f) : FirstFailure(q, Thresholds, ctx) # {}}}
  /\ stage' = IF picked' = <<>> THEN "over" ELSE "enrich"
  /\ UNCHANGED <<ctx, diligence, charts, technicals>>

DiscoveryThrows ==
  /\ stage = "discover" /\ stage' = "over"
  /\ UNCHANGED <<ctx, found, picked, diligence, charts, technicals, rejected>>

(* Rug check and holder list of every pick, three seconds each. *)
EnrichCandidates ==
  /\ stage = "enrich"
  /\ \E rugs \in [DOMAIN picked -> {{}} \cup {{RugCheck(r, ScoreCeiling, Top10Ceiling)} : r \in Reports}],
        lists \in [DOMAIN picked -> {{}} \cup {{GetHolders(l)} : l \in HolderLists}] :
       diligence' = [i \in DOMAIN picked |-> Enrich(picked[i], rugs[i], lists[i])]
  /\ stage' = "diligence"
  /\ UNCHANGED <<ctx, found, picked, charts, technicals, rejected>>

DiligenceGate ==
  /\ stage = "diligence"
  /\ LET kept == {i \in DOMAIN diligence : DiligenceVeto(diligence[i], Thresholds) = {}}
     IN  /\ picked' = Keep(picked, kept)
         /\ diligence' = Keep(diligence, kept)
         /\ rejected' = rejected \cup {<<picked[i], "diligence">> : i \in DOMAIN picked \ kept}
  /\ stage' = IF picked' = <<>> THEN "over" ELSE "klines"
  /\ UNCHANGED <<ctx, found, charts, technicals>>

(* The age gate, in hours, is also the least window, in candles.  It is set  *)
(* apart from the span of the window, which may be the shorter of the two.  *)
WindowMin == Max({3} \cup Thresholds.minAge)

(* Two timeframes a candidate; late, failed and malformed read as no candles. *)
EnrichTechnicals ==
  /\ stage = "klines"
  /\ \E slow, hourly \in [DOMAIN picked -> UNION {FetchKline(h, KlineLimit) : h \in Histories}] :
       charts' = [i \in DOMAIN picked |-> <<slow[i], hourly[i]>>]
  /\ technicals' = [i \in DOMAIN picked |->
       [t \in 1..2 |-> Technicals(Timeframes[t], charts'[i][t], Options, WindowMin)]]
  /\ stage' = "technical"
  /\ UNCHANGED <<ctx, found, picked, diligence, rejected>>

TechnicalGate ==
  /\ stage = "technical"
  /\ LET kept == {i \in DOMAIN technicals : TaVeto(technicals[i], Thresholds) = {}}
     IN  /\ picked' = Keep(picked, kept)
         /\ diligence' = Keep(diligence, kept)
         /\ technicals' = Keep(technicals, kept)
         /\ charts' = Keep(charts, kept)
         /\ rejected' = rejected \cup {<<picked[i], "technical">> : i \in DOMAIN picked \ kept}
  /\ stage' = IF picked' = <<>> THEN "over" ELSE "brief"
  /\ UNCHANGED <<ctx, found>>

Next == Discover \/ DiscoveryThrows \/ EnrichCandidates \/ DiligenceGate \/ EnrichTechnicals \/ TechnicalGate
Spec == Init /\ [][Next]_vars

---------------------------------------------------------------------------
(* Properties                                                              *)

(* The decider is never offered a token that fell further from the top of   *)
(* its window than maxFromHighPct on a timeframe with enough candles, where *)
(* the settings leave the window any: under an age gate that asks for more  *)
(* hours than the window has candles nothing is read off it, and a token    *)
(* that fell is offered.  Nor, whatever the settings, is one offered whose  *)
(* trend no timeframe shows or that falls on every timeframe with no floor  *)
(* under it, where the configuration turns them away.  Said of the candles  *)
(* that were fetched, whatever lookup failed.                               *)
FellTooFar(history) ==
  LET n      == Len(history.candles)
      window == Newest(history.candles, Min({Options.windowShort, n}))
  IN  /\ n >= WindowMin
      /\ LET top == Max({c.high : c \in ToSet(window)})
         IN  top > 0 /\ (top - history.candles[n].close) * 10000 > Thresholds.maxFromHigh * top
HasFloor(history) ==
  \E l \in SwingLows(history.candles, Options.swingWindow) :
    l < history.candles[Len(history.candles)].close
Trending(history) == Len(history.candles) >= Options.emaLong

OfferedIsVetted ==
  stage = "brief" => \A i \in DOMAIN picked :
    LET seen == {h \in ToSet(charts[i]) : h.candles # <<>>}
    IN  /\ WindowMin <= Options.windowShort => \A h \in seen : ~FellTooFar(h)
        /\ Thresholds.rejectMissingTrend => \E h \in seen : Trending(h)
        /\ Thresholds.rejectNoFloor /\ (\E h \in seen : Trending(h)) =>
             (\E h \in seen : HasFloor(h)) \/ (\E h \in seen : Trending(h) /\ h.lean # "DOWN")

(* cycle.ts:551: a downtrend on every timeframe that is deep, with no       *)
(* support near and dead volatility, is capitulation and is turned away.    *)
CapitulationIsRejected ==
  stage = "brief" => \A i \in DOMAIN picked :
    LET hourly  == charts[i][2]
        n       == Len(hourly.candles)
        close   == hourly.candles[n].close
        top     == Max({c.high : c \in ToSet(Newest(hourly.candles, Min({n, Options.windowShort})))})
        nearest == {l \in SwingLows(hourly.candles, Options.swingWindow) : l < close}
    IN  n > 0 => ~( /\ \A h \in ToSet(charts[i]) : Trending(h) /\ h.lean = "DOWN"
                    /\ n >= WindowMin /\ n > Options.atrPeriod
                    /\ (top - close) * 10000 > Thresholds.capFromHigh * top
                    /\ nearest # {}
                    /\ (close - Max(nearest)) * 10000 > Thresholds.capSupportDistance * close
                    /\ hourly.volatility < Thresholds.capAtr )
=============================================================================
