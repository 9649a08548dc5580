------------------------------- MODULE Rules -------------------------------
(***************************************************************************)
(* The two models of values: the candidates of ScreenFunnel and the         *)
(* position of PositionLife, which share no state.  `moving' says which of   *)
(* them run; the others hold still, so that a run may take them one by one. *)
(***************************************************************************)
EXTENDS Integers, Sequences, SequencesExt

CONSTANTS
  Moving,                                                 \* sets of parts that may run together
  Pages, Contexts, Reports, HolderLists, Histories,       \* ScreenFunnel
  Thresholds, Options, PickLimit, KlineLimit,
  PnlWarmupMinutes, MinLowYieldAgeMinutes,                \* ExitRules
  Readings, Charts, Peaks, Config, MaxAge                 \* PositionLife

(* A page is a list, and so are the candles of a history; the window of the *)
(* technicals takes what it needs.  A value that may be missing is a set of *)
(* at most one, and the settings that times and values are compared with    *)
(* are numbers.                                                            *)
Nullable(S) == S \subseteq Int /\ \A a, b \in S : a = b
ASSUME RulesAssumption ==
  /\ Pages \subseteq Seq(UNION {ToSet(page) : page \in Pages})
  /\ Histories \subseteq [candles : Seq([low : Int, close : Int, high : Int]),
                          lean : {"UP", "DOWN", "FLAT"}, volatility : Int]
  /\ Options.windowShort \in Nat /\ Options.emaLong \in Nat \ {0}
  /\ KlineLimit \in Nat /\ Thresholds.maxFromHigh \in Int /\ Nullable(Thresholds.minAge)
  /\ PnlWarmupMinutes \in Int /\ MaxAge \in Nat
  /\ \A r \in Readings : Nullable(r.pnl)
  /\ \A peak \in Peaks : Nullable(peak)
  /\ {"smart", "bounce"} \subseteq DOMAIN Config
  /\ Config.stopLossGrace \in Int /\ Config.outOfRangeWait \in Int
  /\ Config.trailingDrop \in Int /\ Config.confirmTolerance \in Int

VARIABLES
  moving,  \* the parts that run
  stage, ctx, found, picked, diligence, charts, technicals, rejected,
  open, old, age, out, seenIn, watch, cooling, peak, pending, smart, bounce, end

funnelVars == <<stage, ctx, found, picked, diligence, charts, technicals, rejected>>
lifeVars   == <<open, old, age, out, seenIn, watch, cooling, peak, pending, smart, bounce, end>>
vars       == <<moving, funnelVars, lifeVars>>

Funnel == INSTANCE ScreenFunnel
Life   == INSTANCE PositionLife

(* A part that does not run: no candidates, no position.                   *)
NoFunnel ==
  /\ stage = "over" /\ ctx = {} /\ found = <<>> /\ picked = <<>>
  /\ diligence = <<>> /\ charts = <<>> /\ technicals = <<>> /\ rejected = {}
NoLife ==
  /\ open = FALSE /\ old = 0 /\ age = {} /\ out = {} /\ seenIn = 0 /\ watch = {}
  /\ cooling = {} /\ peak = {} /\ pending = {} /\ smart = FALSE /\ bounce = FALSE
  /\ end = Life!Unsold

Init ==
  /\ moving \in Moving
  /\ IF "funnel" \in moving THEN Funnel!Init ELSE NoFunnel
  /\ IF "life" \in moving THEN Life!Init ELSE NoLife

Screens(A) == "funnel" \in moving /\ A /\ UNCHANGED <<moving, lifeVars>>
Lives(A)   == "life" \in moving /\ A /\ UNCHANGED <<moving, funnelVars>>

Next == Screens(Funnel!Next) \/ Lives(Life!Next)
Spec == Init /\ [][Next]_vars

Fairness == WF_vars(Lives(Life!Clock)) /\ WF_vars(Lives(Life!FairTick))
FairSpec == Spec /\ Fairness

---------------------------------------------------------------------------
(* The properties of the parts, each stated and explained in its module.    *)

(* What is offered to the decider met every gate (ScreenFunnel).            *)
OfferedIsVetted == "funnel" \in moving => Funnel!OfferedIsVetted
(* A token in capitulation is turned away (ScreenFunnel).                   *)
CapitulationIsRejected == "funnel" \in moving => Funnel!CapitulationIsRejected
(* The smart exit neither sells nor arms in the warm-up (PositionLife).     *)
WarmupHolds == Life!WarmupHolds
(* A sale is true to what was seen over time (PositionLife).                *)
SoldOnTerms == Life!SoldOnTerms
(* A bounce watch ends (PositionLife).                                     *)
WatchEnds == Life!WatchEnds
=============================================================================
