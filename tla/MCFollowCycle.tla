--------------------------- MODULE MCFollowCycle ---------------------------
(* Small instances of FollowCycle for TLC. *)
EXTENDS FollowCycle, MirrorSizing, Sequences, TLC

(* Wallets and pools are interchangeable; only safety runs use this. *)
Symmetry == Permutations(Wallets) \cup Permutations(Pools)

(* The size against what it is meant to be, the largest amount of four       *)
(* decimals within the share and the cap, over half units of the wallet.     *)
Halves(n) == {h * (Unit \div 2) : h \in 0..n}
ASSUME SizesAreTheLargestAllowed ==
  \A wallet \in Halves(9), reserve \in Halves(2), min, max \in Halves(5), pct \in {1, 35, 100} :
    \A a \in PlanMirrorSize(wallet, pct, reserve, min, max) :
      a = CHOOSE b \in {h * Unit : h \in 0..5} :
            /\ b * 100 <= (wallet - reserve) * pct /\ b <= max
            /\ \A c \in {h * Unit : h \in 0..5} :
                 (c * 100 <= (wallet - reserve) * pct /\ c <= max) => c <= b
ASSUME SizesExist ==
  \A min, max \in Halves(5) :
    PlanMirrorSize(9 * Unit, 100, Unit, min, max) = {} <=> max < min

(* One bin below at least, theirs when it is in bounds.                      *)
ASSUME RangesAreTheirs ==
  \A lower \in -6..3, min \in 0..2, max \in 0..4 :
    LET range == PlanMirrorRange(0, {lower}, 3, min, max)
    IN  /\ (lower < 0 /\ -lower \in min..max) => range = -lower
        /\ PlanMirrorRange(0, {}, 3, min, max) = PlanMirrorRange(0, {-3}, 3, min, max)

(* The widest, the first of two, and none whose bounds are swapped.          *)
ASSUME WidestIsCopied ==
  LET Rows(a, b) == <<[lower |-> {0}, upper |-> {a}], [lower |-> {}, upper |-> {b}],
                      [lower |-> {1}, upper |-> {a + 1}]>>
  IN  /\ PickSourcePosition(Rows(2, 9)) = {[lower |-> {0}, upper |-> {2}]}
      /\ PickSourcePosition(Rows(-1, 0)) = {[lower |-> {}, upper |-> {0}]}
      /\ PickSourcePosition(SubSeq(Rows(-1, 0), 1, 1)) = {}
=============================================================================
