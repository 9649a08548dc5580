------------------------------- MODULE Wallet -------------------------------
(***************************************************************************)
(* What a close leaves in the wallet and who sells it: the base token it     *)
(* withdraws, the node that shows a balance late, the consolidation after     *)
(* each close, the periodic sweep, and swaps that fail, are dropped after     *)
(* being sent, or sell less than the wallet by then holds.                    *)
(***************************************************************************)
EXTENDS Naturals, SequencesExt

CONSTANTS
  Mints,
  Program,     \* the token program that holds each mint
  Worths,      \* price classes of the mints: none, crumb, worth or unpriced
  Retries,     \* consolidateRetries
  MaxCloses,   \* bound
  MaxRestarts  \* bound

VARIABLES
  worth,    \* USD class of a balance: below the sweep's floor, below the
            \* consolidation's, above both, or no price known
  deployed, \* mints that are the base of an open position
  wallet,   \* balance of each mint, in withdrawals
  shown,    \* the balance the node answers with
  selling,  \* consolidation per mint: at, tries, amount
  sweep,    \* the sweep: what it still has to sell
  closes, restarts

vars == <<worth, deployed, wallet, shown, selling, sweep, closes, restarts>>

Idle == [at |-> "idle", tries |-> 0, amount |-> 0]
Resting == [busy |-> FALSE, todo |-> <<>>]

Init ==
  /\ worth \in Worths
  /\ deployed = {}
  /\ wallet = [m \in Mints |-> 0] /\ shown = wallet
  /\ selling = [m \in Mints |-> Idle] /\ sweep = Resting
  /\ closes = 0 /\ restarts = 0

Open(m) ==
  /\ m \notin deployed /\ closes < MaxCloses /\ deployed' = deployed \cup {m}
  /\ UNCHANGED <<worth, wallet, shown, selling, sweep, closes, restarts>>

Refresh(m) ==
  /\ shown[m] # wallet[m] /\ shown' = [shown EXCEPT ![m] = wallet[m]]
  /\ UNCHANGED <<worth, deployed, wallet, selling, sweep, closes, restarts>>

(* Withdraws the base token; consolidation follows when it is reported.    *)
Close(m) ==
  /\ m \in deployed /\ deployed' = deployed \ {m}
  /\ closes < MaxCloses /\ closes' = closes + 1
  /\ wallet' = [wallet EXCEPT ![m] = @ + 1]
  /\ selling' \in {selling} \cup
       (IF selling[m] = Idle THEN {[selling EXCEPT ![m].at = "read", ![m].tries = Retries]} ELSE {})
  /\ UNCHANGED <<worth, shown, sweep, restarts>>

(* Quote, transaction and send of the amount that was read.  Every part may *)
(* throw, the node's dry run rejects more than the wallet holds, and the     *)
(* signature is answered before anyone knows whether the transaction lands.  *)
Swap(m, amount) ==
  wallet' \in {wallet} \cup
    (IF amount <= wallet[m] THEN {[wallet EXCEPT ![m] = @ - amount]} ELSE {})

---------------------------------------------------------------------------
(* The holdings as the client answers them: the accounts of each token     *)
(* program are asked for on their own and a failure only hides its mints;  *)
(* one batch of prices is asked for all, and without it nothing has one.   *)
FetchJupiterPrices(answered) ==
  [m \in Mints |-> IF answered THEN worth[m] ELSE "unpriced"]
GetWalletTokens(heard, answered) ==
  {[mint |-> m, amount |-> shown[m], usd |-> FetchJupiterPrices(answered)[m]] :
     m \in {x \in Mints : shown[x] > 0 /\ Program[x] \in heard}}
Wallets == {GetWalletTokens(heard, answered) :
              heard \in SUBSET {Program[m] : m \in Mints}, answered \in BOOLEAN}

(* consolidateBaseToSol.  A read that throws is an attempt that saw nothing. *)
ReadBalance(m) ==
  /\ selling[m].at = "read"
  /\ \E tokens \in Wallets :
       LET held == {t \in tokens : t.mint = m}
       IN  selling' = [selling EXCEPT ![m] =
             IF held = {}
             THEN IF @.tries > 1 THEN [@ EXCEPT !.tries = @ - 1] ELSE Idle
             ELSE LET t == CHOOSE t \in held : TRUE
                  IN  IF t.usd \in {"none", "crumb"} THEN Idle
                      ELSE [@ EXCEPT !.at = "swap", !.amount = t.amount]]
  /\ UNCHANGED <<worth, deployed, wallet, shown, sweep, closes, restarts>>

Consolidate(m) ==
  /\ selling[m].at = "swap" /\ Swap(m, selling[m].amount)
  /\ selling' = [selling EXCEPT ![m] = Idle]
  /\ UNCHANGED <<worth, deployed, shown, sweep, closes, restarts>>

---------------------------------------------------------------------------
(* The dust sweeper.  Without the positions it sweeps without exclusions.  *)
(* Mutant: a token without a price is left for a tick that knows it.        *)
PricedTargets(tokens, excluded) ==
  {t \in tokens : t.mint \notin excluded /\ t.usd \notin {"none", "unpriced"}}
Targets(tokens, excluded) ==
  {t \in tokens : t.mint \notin excluded /\ t.usd # "none"}

Tick ==
  /\ ~sweep.busy
  /\ \E tokens \in Wallets, excluded \in {deployed, {}} :
       LET due == SetToSeq({[mint |-> t.mint, amount |-> t.amount] : t \in Targets(tokens, excluded)})
       IN  due # <<>> /\ sweep' = [busy |-> TRUE, todo |-> due]
  /\ UNCHANGED <<worth, deployed, wallet, shown, selling, closes, restarts>>

Sweep ==
  /\ sweep.busy
  /\ IF sweep.todo = <<>>
     THEN sweep' = Resting /\ UNCHANGED wallet
     ELSE /\ Swap(Head(sweep.todo).mint, Head(sweep.todo).amount)
          /\ sweep' = [sweep EXCEPT !.todo = Tail(@)]
  /\ UNCHANGED <<worth, deployed, shown, selling, closes, restarts>>

(* Consolidations and a sweep under way are gone.                          *)
Restart ==
  /\ restarts < MaxRestarts /\ restarts' = restarts + 1
  /\ selling' = [m \in Mints |-> Idle] /\ sweep' = Resting
  /\ UNCHANGED <<worth, deployed, wallet, shown, closes>>

Selling ==
  \/ \E m \in Mints : ReadBalance(m) \/ Consolidate(m)
  \/ Tick \/ Sweep
Next == (\E m \in Mints : Open(m) \/ Close(m) \/ Refresh(m)) \/ Selling \/ Restart

(* The node catches up, the sweep is scheduled, its reads do not always    *)
(* miss the same mint, and a swap tried again and again lands once.        *)
Sees(m)  == Tick /\ \E i \in DOMAIN sweep'.todo : sweep'.todo[i].mint = m
Sells(m) == Sweep /\ wallet'[m] # wallet[m]
Fairness ==
  /\ \A m \in Mints : WF_vars(Refresh(m)) /\ SF_vars(Sees(m)) /\ SF_vars(Sells(m))
  /\ WF_vars(Sweep)
  /\ \A m \in Mints : WF_vars(ReadBalance(m)) /\ WF_vars(Consolidate(m))
Spec == Init /\ [][Next]_vars /\ Fairness

---------------------------------------------------------------------------
Orphan(m) == wallet[m] > 0 /\ worth[m] # "none" /\ m \notin deployed

(* A withdrawn base token that is worth more than the sweep's floor does not *)
(* stay in the wallet: it is sold, or belongs to an open position again,     *)
(* however late the node shows it, whichever read, swap or restart got in    *)
(* the way of the consolidation (consolidate.ts:12-17, dust-sweeper.ts:41).  *)
WithdrawnIsSold == \A m \in Mints : Orphan(m) ~> ~Orphan(m)
=============================================================================
