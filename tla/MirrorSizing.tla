---------------------------- MODULE MirrorSizing ----------------------------
(***************************************************************************)
(* How large and how wide a mirror is: planMirrorSize and planMirrorRange  *)
(* of src/src/domain/rules/follow-diff.ts, and the position of theirs that *)
(* is copied (pickSourcePosition, src/src/app/follow/cycle.ts).            *)
(*                                                                         *)
(* Amounts are in lamports, shares in whole percents; a nullable value is  *)
(* a set of at most one element.                                           *)
(***************************************************************************)
EXTENDS FollowRules

Unit == 100000  \* the fourth decimal of a SOL

(* A share of what is free above the reserve, capped, refused ({}) below    *)
(* the minimum, then cut to four decimals.                                 *)
PlanMirrorSize(walletSol, sizePct, gasReserve, minDeploy, maxDeploy) ==
  LET share == Smaller(maxDeploy * 100, (walletSol - gasReserve) * sizePct)
  IN  IF walletSol <= gasReserve \/ share < minDeploy * 100 THEN {}
      ELSE {((share \div 100) \div Unit) * Unit}

(* Bins below the active one: as deep as theirs, clamped; the fallback when *)
(* theirs is unknown or not below.                                         *)
PlanMirrorRange(activeBin, sourceLower, fallback, minBins, maxBins) ==
  LET lo    == Larger(1, Smaller(minBins, maxBins))
      hi    == Larger(lo, maxBins)
      depth == {activeBin - l : l \in {b \in sourceLower : b < activeBin}}
      Clamp(n) == Smaller(hi, Larger(lo, n))
  IN  IF depth = {} THEN Clamp(fallback) ELSE Clamp(CHOOSE n \in depth : TRUE)

(* The widest of those they hold in the pool, the first of as wide ones.   *)
PickSourcePosition(positions) ==
  LET Width(p) == IF p.lower = {} \/ p.upper = {} THEN 0
                  ELSE (CHOOSE u \in p.upper : TRUE) - (CHOOSE l \in p.lower : TRUE)
      width    == [i \in DOMAIN positions |-> Width(positions[i])]
      Before(i, j) == width[i] > width[j] \/ (width[i] = width[j] /\ i <= j)
  IN  {positions[i] : i \in {k \in DOMAIN positions :
                               width[k] >= 0 /\ \A j \in DOMAIN positions : Before(k, j)}}
=============================================================================
