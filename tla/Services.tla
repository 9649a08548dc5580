------------------------------ MODULE Services ------------------------------
(***************************************************************************)
(* The services around the cycles, side by side: what is learned, the       *)
(* reviewer's conversation, the operator's commands, the wallet after a       *)
(* close and the agent loop.  They share no state.  `moving' says which of     *)
(* them run; the others hold still, so that a run may take them one by one.    *)
(***************************************************************************)
EXTENDS Integers, FiniteSets, Sequences

CONSTANTS
  Moving,       \* sets of parts that may run together
  MaxRestarts,  \* bound, of each part
  Records, Catalog, Starts, MaxRows, PerTick, MaxAttempts,                  \* Learning
  Trades, Histories, Proposals, Community, MinTrades, MinApplied, MaxRefines, \* Reviewer
  Messages, Positions, Slots, MaxMessages, MaxTools,                         \* Telegram
  Mints, Program, Worths, Retries, MaxCloses,                                \* Wallet
  Tools, NoRetry, Once, Callers, Replies, MaxRequests                        \* Agent

Fields == {"id", "pnl", "win", "volatility", "holders", "trend", "strategy"}
ASSUME ServicesAssumption ==
  /\ IsFiniteSet(Trades) /\ Histories \subseteq SUBSET Trades
  /\ \A t \in Trades : DOMAIN t = Fields /\ t.win \in BOOLEAN
  /\ \A conds \in Proposals \cup UNION {l.match : l \in Community} : DOMAIN conds = 1 .. Len(conds)
  /\ PerTick \in Nat /\ MinTrades \in Nat /\ NoRetry \subseteq Tools
  /\ Replies \subseteq Seq([fresh : BOOLEAN, name : STRING])

(* A file found at a start has no review yet and cites lessons it has.       *)
FoundIds == {"hand", "community"} \X Catalog \X {0}
FoundRows(ids) ==
  [pos : Records, win : BOOLEAN, settled : BOOLEAN, mirror : BOOLEAN, cites : SUBSET ids,
   review : {{}}, bounced : BOOLEAN]
ASSUME StartsAssumption == \A s \in Starts : s.ids \subseteq FoundIds /\ s.rows \in Seq(FoundRows(s.ids))

VARIABLES
  moving,  \* the parts that run
  rows, lessons, job, attempts, age, left, made, forgot,
  self, history, phase, refines, lesson,
  sent, acked, up, offset, batch, doing, paused, running, open, handled, booted,
  worth, deployed, wallet, shown, selling, sweep, closes, restarts,
  at, caller, messages, step, attempt, todo, locked, reminded, fired

learnVars  == <<rows, lessons, job, attempts, age, left, made, forgot>>
reviewVars == <<self, history, phase, refines, lesson>>
tgVars     == <<sent, acked, up, offset, batch, doing, paused, running, open, handled, booted>>
walletVars == <<worth, deployed, wallet, shown, selling, sweep, closes, restarts>>
agentVars  == <<at, caller, messages, step, attempt, todo, locked, reminded, fired>>
vars       == <<moving, learnVars, reviewVars, tgVars, walletVars, agentVars>>

---------------------------------------------------------------------------
Learn  == INSTANCE Learning WITH Positions <- Records, restarts <- forgot
Review == INSTANCE Reviewer
Bot    == INSTANCE Telegram WITH restarts <- booted
Bags   == INSTANCE Wallet
Loop   == INSTANCE Agent WITH MaxAttempts <- MaxRequests, Answers <- Replies, pending <- todo

(* A part that does not run.                                               *)
NoLearning ==
  /\ rows = <<>> /\ lessons = <<>> /\ job = <<>> /\ attempts = <<>> /\ age = <<>>
  /\ left = <<>> /\ made = 0 /\ forgot = 0
NoReview == self = <<>> /\ history = {} /\ phase = "none" /\ refines = 0 /\ lesson = {}
NoBot ==
  /\ sent = <<>> /\ acked = 0 /\ up = FALSE /\ offset = 0 /\ batch = <<>> /\ doing = Bot!Nothing
  /\ paused = FALSE /\ running = {} /\ open = <<>> /\ handled = {} /\ booted = 0
NoWallet ==
  /\ worth = [m \in Mints |-> "none"] /\ deployed = {}
  /\ wallet = [m \in Mints |-> 0] /\ shown = wallet
  /\ selling = [m \in Mints |-> Bags!Idle] /\ sweep = Bags!Resting /\ closes = 0 /\ restarts = 0
NoLoop ==
  /\ at = "idle" /\ caller = Loop!NoCaller /\ messages = <<>> /\ step = 0 /\ attempt = 1
  /\ todo = <<>> /\ locked = {} /\ reminded = FALSE /\ fired = [t \in Tools |-> 0]

Init ==
  /\ moving \in Moving
  /\ IF "learning" \in moving THEN Learn!Init ELSE NoLearning
  /\ IF "review" \in moving THEN Review!Init ELSE NoReview
  /\ IF "bot" \in moving THEN Bot!Init ELSE NoBot
  /\ IF "wallet" \in moving THEN Bags!Init ELSE NoWallet
  /\ IF "loop" \in moving THEN Loop!Init ELSE NoLoop

OnlyLearning == UNCHANGED <<moving, reviewVars, tgVars, walletVars, agentVars>>
OnlyReview   == UNCHANGED <<moving, learnVars, tgVars, walletVars, agentVars>>
OnlyBot      == UNCHANGED <<moving, learnVars, reviewVars, walletVars, agentVars>>
OnlyWallet   == UNCHANGED <<moving, learnVars, reviewVars, tgVars, agentVars>>
OnlyLoop     == UNCHANGED <<moving, learnVars, reviewVars, tgVars, walletVars>>

Next ==
  \/ "learning" \in moving /\ Learn!Next /\ OnlyLearning
  \/ "review" \in moving /\ Review!Next /\ OnlyReview
  \/ "bot" \in moving /\ Bot!Next /\ OnlyBot
  \/ "wallet" \in moving /\ Bags!Next /\ OnlyWallet
  \/ "loop" \in moving /\ Loop!Next /\ OnlyLoop

Spec == Init /\ [][Next]_vars

(* The fairness of the parts (Learning's reviewing goes on, the wallet's as  *)
(* in Wallet), within the steps of the whole.                                *)
Seen(m) == "wallet" \in moving /\ Bags!Sees(m) /\ OnlyWallet
Sold(m) == "wallet" \in moving /\ Bags!Sells(m) /\ OnlyWallet
Fairness ==
  /\ WF_vars("learning" \in moving /\ Learn!Reviewing /\ OnlyLearning)
  /\ \A m \in Mints :
       /\ WF_vars("wallet" \in moving /\ Bags!Refresh(m) /\ OnlyWallet)
       /\ SF_vars(Seen(m)) /\ SF_vars(Sold(m))
       /\ WF_vars("wallet" \in moving /\ Bags!ReadBalance(m) /\ OnlyWallet)
       /\ WF_vars("wallet" \in moving /\ Bags!Consolidate(m) /\ OnlyWallet)
  /\ WF_vars("wallet" \in moving /\ Bags!Sweep /\ OnlyWallet)
FairSpec == Spec /\ Fairness

---------------------------------------------------------------------------
(* The properties of the parts, each stated and explained in its module.    *)

(* Wins and losses of a lesson are the reviews of the same file (Learning). *)
TrackRecord == Learn!TrackRecord
(* A lesson is shown where it was tested (Reviewer).                        *)
AdviceIsNarrow == Review!AdviceIsNarrow
(* No command of the operator is acknowledged before it was handled         *)
(* (Telegram).                                                              *)
AckedIsHandled == Bot!AckedIsHandled
(* The conversation sent to the model answers every call (Agent).           *)
RequestIsValid == Loop!RequestIsValid
(* A write that must not be retried is started once in a run (Agent).       *)
FiresOnce == Loop!FiresOnce
(* A close that is due is reviewed, unless rows that are not hold the slots   *)
(* (Learning).                                                              *)
ReviewEnds == Learn!ReviewEnds
(* A withdrawn token is sold (Wallet).                                      *)
WithdrawnIsSold == Bags!WithdrawnIsSold
=============================================================================
