---------------------------- MODULE FollowRules ----------------------------
(***************************************************************************)
(* The pure rules of follow-the-wallet, src/src/domain/rules/follow-diff.ts. *)
(* No state: each operator is one function of the file.                    *)
(*                                                                         *)
(* A nullable value of the source is a set of at most one element here:    *)
(* {} is null.  A mirror is a record with at least the fields pool and     *)
(* wallet; a pool list is a set (the source keeps it distinct).            *)
(***************************************************************************)
EXTENDS Integers, FiniteSets

Smaller(a, b) == IF a < b THEN a ELSE b
Larger(a, b) == IF a < b THEN b ELSE a
Distance(a, b) == IF a < b THEN b - a ELSE a - b

(* Two mutants of the diff below: one believes a truncated list, the other  *)
(* forgets the guards against a second position in a pool.                 *)
DiffBelievingAnyList(seen, snapshot, ourOpenPools, openMirrors) ==
  [seedOnly |-> seen = {},
   opens    |-> IF seen = {} THEN {}
                ELSE snapshot.pools \ ((UNION seen) \cup {m.pool : m \in openMirrors} \cup ourOpenPools),
   closes   |-> IF seen = {} THEN {} ELSE {m \in openMirrors : m.pool \notin snapshot.pools},
   nextSeen |-> {snapshot.pools}]
DiffWithoutGuards(seen, snapshot, ourOpenPools, openMirrors) ==
  [seedOnly |-> seen = {},
   opens    |-> IF seen = {} THEN {} ELSE snapshot.pools \ UNION seen,
   closes   |-> IF seen = {} THEN {}
                ELSE {m \in openMirrors : snapshot.reliable /\ m.pool \notin snapshot.pools},
   nextSeen |-> IF seen = {} \/ snapshot.reliable THEN {snapshot.pools} ELSE {}]

(***************************************************************************)
(* What one poll of a followed wallet calls for.  First sight (seen = {})  *)
(* only records the baseline; an unreliable snapshot may open, never close,*)
(* and never becomes the baseline.                                         *)
(***************************************************************************)
DiffFollowedWallet(seen, snapshot, ourOpenPools, openMirrors) ==
  LET current == snapshot.pools
      already == (UNION seen) \cup {m.pool : m \in openMirrors} \cup ourOpenPools
  IN  IF seen = {}
      THEN [seedOnly |-> TRUE, opens |-> {}, closes |-> {}, nextSeen |-> {current}]
      ELSE [seedOnly |-> FALSE,
            opens    |-> current \ already,
            closes   |-> {m \in openMirrors : snapshot.reliable /\ m.pool \notin current},
            nextSeen |-> IF snapshot.reliable THEN {current} ELSE {}]

(* New mirrors that still fit under both caps. *)
MirrorSlotsPortfolioOnly(ourOpenCount, maxPositions, openMirrorCount, maxMirrored) ==
  Larger(0, maxPositions - ourOpenCount)                     \* mutant: one cap only
MirrorSlots(ourOpenCount, maxPositions, openMirrorCount, maxMirrored) ==
  Smaller(Larger(0, maxPositions - ourOpenCount),
          Larger(0, maxMirrored - openMirrorCount))

(***************************************************************************)
(* The mirrors nobody is following any more.  `wallets' maps every wallet  *)
(* to "enabled", "disabled" or "absent".                                   *)
(***************************************************************************)
OrphanedIfDisabled(followEnabled, wallets, openMirrors) ==   \* mutant: forgets removal
  {m \in openMirrors : ~followEnabled \/ wallets[m.wallet] = "disabled"}
Orphaned(followEnabled, wallets, openMirrors) ==
  {m \in openMirrors : ~followEnabled \/ wallets[m.wallet] # "enabled"}

(***************************************************************************)
(* Did the wallet close and reopen inside a pool it is still in?  `copied' *)
(* is what the mirror recorded and `current' what the wallet holds there   *)
(* now, both as records [position, lower] of nullable values.              *)
(***************************************************************************)
DetectRecenter(copied, current, thresholdBins) ==
  LET lowers == UNION {p.lower : p \in current}
  IN  /\ current # {}
      /\ IF copied.position # {}
         THEN \A p \in current : p.position # copied.position
         ELSE /\ copied.lower # {}
              /\ lowers # {}
              /\ \A b \in lowers, r \in copied.lower : Distance(b, r) > thresholdBins
=============================================================================
