------------------------------- MODULE DryRun -------------------------------
(***************************************************************************)
(* The simulated chain (adapters/chain/dry-run.ts) of a daemon without one: *)
(* positions held in memory, changed at once by deploys and closes, behind *)
(* the same cache as the real client's (shared/cache.ts).  A load looks at *)
(* the positions when it is asked for and is stored a turn of the event    *)
(* loop later; a write may come between.                                   *)
(***************************************************************************)
EXTENDS Naturals

CONSTANTS Positions, Readers, Writers

VARIABLES
  chain,     \* stage of every position: none, full or gone
  asked,     \* per reader, the moment its question was put; {} when none is open
  answer,    \* per reader, the nullable snapshot its last question was answered with
  waiting,   \* per reader, whose load it awaits
  got,       \* per reader, the nullable snapshot its own load has taken
  value,     \* the cached snapshot, nullable
  fresh,     \* it is younger than the TTL
  inflight,  \* the load unforced readers share, nullable
  op         \* writers between their call and the bin the deploy starts from

memory == <<asked, answer, waiting, got, value, fresh, inflight>>
vars   == <<chain, memory, op>>
Nothing == [p \in Positions |-> "none"]

Init ==
  /\ chain = Nothing /\ op = {}
  /\ asked = [r \in Readers |-> {}] /\ answer = [r \in Readers |-> {}]
  /\ waiting = [r \in Readers |-> {}] /\ got = [r \in Readers |-> {}]
  /\ value = {} /\ fresh = FALSE /\ inflight = {}

---------------------------------------------------------------------------
Cached(force) == ~force /\ fresh /\ value # {}

GetMyPositions(r, force) ==
  /\ asked[r] = {}
  /\ IF Cached(force)
     THEN answer' = [answer EXCEPT ![r] = value] /\ UNCHANGED <<asked, waiting, got, inflight>>
     ELSE /\ answer' = [answer EXCEPT ![r] = {}]
          /\ asked' = [asked EXCEPT ![r] = {IF force THEN chain ELSE Nothing}]
          /\ IF inflight # {} /\ ~force
             THEN waiting' = [waiting EXCEPT ![r] = inflight] /\ UNCHANGED <<got, inflight>>
             ELSE /\ waiting' = [waiting EXCEPT ![r] = {r}] /\ inflight' = {r}
                  /\ got' = [got EXCEPT ![r] = {chain}]
  /\ UNCHANGED <<chain, value, fresh, op>>

Stored(r) ==
  /\ got[r] # {}
  /\ value' = got[r] /\ fresh' = TRUE /\ inflight' = {} /\ got' = [got EXCEPT ![r] = {}]
  /\ LET waiters == {q \in Readers : waiting[q] = {r}}
     IN  /\ answer' = [q \in Readers |-> IF q \in waiters THEN got[r] ELSE answer[q]]
         /\ asked' = [q \in Readers |-> IF q \in waiters THEN {} ELSE asked[q]]
         /\ waiting' = [q \in Readers |-> IF q \in waiters THEN {} ELSE waiting[q]]
  /\ UNCHANGED <<chain, op>>

Expire == fresh /\ fresh' = FALSE
          /\ UNCHANGED <<chain, asked, answer, waiting, got, value, inflight, op>>

---------------------------------------------------------------------------
Written(p, stage) ==
  /\ chain' = [chain EXCEPT ![p] = stage] /\ value' = {} /\ fresh' = FALSE
  /\ UNCHANGED <<asked, answer, waiting, got, inflight>>

DeployPosition(w) == w \notin op /\ op' = op \cup {w} /\ UNCHANGED <<chain, memory>>
Deployed(w) ==
  /\ w \in op /\ op' = op \ {w}
  /\ \E p \in Positions : chain[p] = "none" /\ Written(p, "full")

(* An unknown address is refused without touching the cache.               *)
ClosePosition(p) == chain[p] = "full" /\ Written(p, "gone") /\ UNCHANGED op
ClaimFees(p)     == chain[p] = "full" /\ Written(p, "full") /\ UNCHANGED op

Next ==
  \/ \E r \in Readers : Stored(r) \/ \E force \in BOOLEAN : GetMyPositions(r, force)
  \/ Expire
  \/ \E w \in Writers : DeployPosition(w) \/ Deployed(w)
  \/ \E p \in Positions : ClosePosition(p) \/ ClaimFees(p)
Spec == Init /\ [][Next]_vars

---------------------------------------------------------------------------
(* The same promise as the real client's, by the same cache: dry-run.ts:45-50. *)
Reads == INSTANCE ChainReads
ReadsAreTrue == Reads!Spec
=============================================================================
