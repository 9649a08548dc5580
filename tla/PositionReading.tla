--------------------------- MODULE PositionReading ---------------------------
(***************************************************************************)
(* How one open position is read: the accounts of the chain, the row       *)
(* Meteora's datapi keeps for it (adapters/chain/meteora/datapi-pnl.ts),   *)
(* their merge in fetchPositionsSnapshot (client.ts), and the candles of   *)
(* its pool (enrichPositionTechnicals, app/management/cycle.ts).           *)
(*                                                                         *)
(* A nullable value is a set of at most one element.  Every field of a     *)
(* row of the datapi may be missing; an amount is [usd, sol] of nullables. *)
(***************************************************************************)
EXTENDS Integers, Sequences

Or0(nullable) == IF nullable = {} THEN 0 ELSE CHOOSE v \in nullable : TRUE
First(a, b)   == IF a # {} THEN a ELSE b

(* A row without any of its three names is dropped.  The amounts that only *)
(* add up read as zero when they are missing, deposit and balance do not.  *)
NormalizeDatapiPosition(raw) ==
  LET Amounts(unit) ==
        [reported  |-> raw.reported[unit],
         balances  |-> raw.balances[unit],
         deposit   |-> raw.deposits[unit],
         unclaimed |-> Or0(raw.feeX[unit]) + Or0(raw.feeY[unit]),
         withdrawn |-> Or0(raw.withdrawals[unit]),
         fees      |-> Or0(raw.fees[unit])]
  IN  {[position |-> p, lower |-> raw.lower, upper |-> raw.upper, active |-> raw.active,
        out |-> raw.out, usd |-> Amounts("usd"), sol |-> Amounts("sol")] :
         p \in First(raw.positionAddress, First(raw.address, raw.position))}

(* In whole percents, rounded down. *)
DeriveOpenPnlPct(amounts) ==
  LET worth == Or0(amounts.balances) + amounts.unclaimed + amounts.withdrawn + amounts.fees
  IN  {((worth - d) * 100) \div d : d \in {x \in amounts.deposit : x > 0}}

(* One page for the pool: the rows of an answer, keyed by position, the    *)
(* last of a name standing.  A refused, failed, late or malformed answer   *)
(* is {} and reads as no rows at all.                                      *)
FetchByStatus(answer) ==
  LET Last(rows, p) ==
        LET named == {i \in DOMAIN rows : \E rec \in NormalizeDatapiPosition(rows[i]) : rec.position = p}
            last  == CHOOSE i \in named : \A j \in named : j <= i
        IN  CHOOSE rec \in NormalizeDatapiPosition(rows[last]) : TRUE
      Named(rows) == {rec.position : rec \in UNION {NormalizeDatapiPosition(rows[i]) : i \in DOMAIN rows}}
  IN  UNION {{Last(rows, p) : p \in Named(rows)} : rows \in answer}

(* Reported first, derived from deposits and withdrawals otherwise.        *)
AssessPnl(reported, derived) ==
  [pnl |-> First(reported, derived), suspicious |-> reported = {} /\ derived = {}]

(* The two sources of one position.  The datapi wins on the bins and on    *)
(* the range wherever it has them, field by field, so that `where' (the    *)
(* bins) and `inRange' (its own word) need not agree.  The fee rate is     *)
(* never filled in, nor by the simulated chain.                            *)
ReadPosition(account, answer, solMode) ==
  LET rows    == {rec \in FetchByStatus(answer) : rec.position = account.position}
      unit    == IF solMode THEN "sol" ELSE "usd"
      pnl     == AssessPnl(UNION {rec[unit].reported : rec \in rows},
                           UNION {DeriveOpenPnlPct(rec[unit]) : rec \in rows})
      Merged(own, theirs) == Or0(First(theirs, {own}))
      lower   == Merged(account.lower, UNION {rec.lower : rec \in rows})
      upper   == Merged(account.upper, UNION {rec.upper : rec \in rows})
      active  == Merged(account.active, UNION {rec.active : rec \in rows})
      out     == UNION {rec.out : rec \in rows}
  IN  [pnl        |-> pnl.pnl,
       suspicious |-> pnl.suspicious,
       where      |-> IF active < lower THEN "below" ELSE IF active > upper THEN "above" ELSE "in",
       inRange    |-> IF out # {} THEN out = {FALSE}
                      ELSE account.lower <= account.active /\ account.active <= account.upper,
       fee        |-> {}]

(* What the close is settled with: [deposits, withdrawals, fees] once the  *)
(* closed rows name the position with a deposit, {} until then.            *)
GetClosedPositionPnl(position, answer) ==
  {[deposits |-> Or0(rec.usd.deposit), withdrawals |-> rec.usd.withdrawn, fees |-> rec.usd.fees] :
     rec \in {r \in FetchByStatus(answer) : r.position = position /\ r.usd.deposit # {}}}

---------------------------------------------------------------------------
(* The charts a management tick may hold: each timeframe on its own is     *)
(* late or failed, and then a row without a candle.                        *)

NoCandles == [trend |-> {}, floor |-> {}, atr |-> {}, candles |-> 0, reds |-> 0]
EnrichPositionTechnicals(shown) ==
  [slow : {shown.slow, NoCandles}, hourly : {shown.hourly, NoCandles}]
=============================================================================
