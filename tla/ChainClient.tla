---------------------------- MODULE ChainClient ----------------------------
(***************************************************************************)
(* The Meteora chain client (adapters/chain/meteora): its positions cache  *)
(* (shared/cache.ts), the loads that fill it, and the writes, which are    *)
(* one or more transactions each and end by dropping the cache.  A         *)
(* snapshot is the stage of every position at the moment the chain was     *)
(* read; the PnL lookups that follow it can take long.                     *)
(***************************************************************************)
EXTENDS Integers, Sequences

CONSTANTS
  Positions,    \* addresses, each made by one deploy
  Readers,      \* callers of getMyPositions
  Writers,      \* callers of deployPosition, closePosition and claimFees
  Ranges        \* numbers of bins a deploy may ask for

VARIABLES
  chain,        \* stage of every position, see ChainReads
  asked,        \* per caller, the moment its question was put; {} when none is open
  answer,       \* per caller, the nullable snapshot its last question was answered with
  waiting,      \* per caller, whose load it awaits, its own or a shared one
  got,          \* per caller, the nullable snapshot its own load has read
  value,        \* the cached snapshot, nullable
  fresh,        \* it is younger than the TTL
  inflight,     \* the load unforced readers share, nullable
  pools,        \* positions whose pool is known
  op,           \* per writer, its write in progress
  made          \* positions that were once complete

memory == <<asked, answer, waiting, got, value, fresh, inflight, pools>>
vars   == <<chain, memory, op, made>>

Callers == Readers \cup Writers
NoOp    == [kind |-> "none", step |-> "idle", position |-> {}, txs |-> <<>>]
Nothing == [p \in Positions |-> "none"]
Open(s) == {p \in Positions : s[p] \notin {"none", "gone"}}

Init ==
  /\ chain = Nothing /\ made = {}
  /\ asked = [c \in Callers |-> {}] /\ answer = [c \in Callers |-> {}]
  /\ waiting = [c \in Callers |-> {}] /\ got = [c \in Callers |-> {}]
  /\ value = {} /\ fresh = FALSE /\ inflight = {} /\ pools = {}
  /\ op = [w \in Writers |-> NoOp]

---------------------------------------------------------------------------
(* The positions cache                                                     *)

(* getMyPositions: the cached value when fresh, else the load under way,   *)
(* else a load of one's own.  force skips the first two.                   *)
ShareAlways(c, force) == inflight # {}                         \* mutant
Shares(c, force)      == inflight # {} /\ ~force

Question(c, force) ==
  /\ asked[c] = {}
  /\ \/ /\ ~force /\ fresh /\ value # {}
        /\ answer' = [answer EXCEPT ![c] = value] /\ pools' = pools \cup UNION {Open(s) : s \in value}
        /\ UNCHANGED <<asked, waiting, inflight>>
     \/ /\ force \/ ~fresh \/ value = {}
        /\ asked' = [asked EXCEPT ![c] = {IF force THEN chain ELSE Nothing}]
        /\ IF Shares(c, force)
           THEN waiting' = [waiting EXCEPT ![c] = inflight] /\ UNCHANGED inflight
           ELSE waiting' = [waiting EXCEPT ![c] = {c}] /\ inflight' = {c}
        /\ answer' = [answer EXCEPT ![c] = {}] /\ UNCHANGED pools
  /\ UNCHANGED <<chain, got, value, fresh, made>>

GetMyPositions(r) == r \in Readers /\ (\E force \in BOOLEAN : Question(r, force)) /\ UNCHANGED op

ReadChain(c) ==
  /\ waiting[c] = {c} /\ got[c] = {}
  /\ got' = [got EXCEPT ![c] = {chain}]
  /\ UNCHANGED <<chain, asked, answer, waiting, value, fresh, inflight, pools, op, made>>

Waiters(c) == {d \in Callers : waiting[d] = {c}}
Released(f, c) == [d \in Callers |-> IF d \in Waiters(c) THEN {} ELSE f[d]]

LoadEnds(c) ==
  /\ got[c] # {}
  /\ value' = got[c] /\ fresh' = TRUE /\ inflight' = {}
  /\ pools' = pools \cup UNION {Open(s) : s \in got[c]}
  /\ answer' = [d \in Callers |-> IF d \in Waiters(c) THEN got[c] ELSE answer[d]]
  /\ asked' = Released(asked, c) /\ waiting' = Released(waiting, c)
  /\ got' = [got EXCEPT ![c] = {}]
  /\ UNCHANGED <<chain, op, made>>

(* The RPC fails or the SDK throws: whoever waits gets the error.          *)
LoadFails(c) ==
  /\ waiting[c] = {c} /\ inflight' = {}
  /\ asked' = Released(asked, c) /\ waiting' = Released(waiting, c)
  /\ got' = [got EXCEPT ![c] = {}]
  /\ op' = [w \in Writers |-> IF waiting[w] = {c} THEN NoOp ELSE op[w]]
  /\ UNCHANGED <<chain, answer, value, fresh, pools, made>>

Expire == fresh /\ fresh' = FALSE
          /\ UNCHANGED <<chain, asked, answer, waiting, got, value, inflight, pools, op, made>>

---------------------------------------------------------------------------
(* Writes                                                                  *)

Begin(w, kind, p, step, txs) ==
  op' = [op EXCEPT ![w] = [kind |-> kind, step |-> step, position |-> {p}, txs |-> txs]]

(* planDeploy throws on a range below the floor, which only the wallet      *)
(* follower waives.  The SOL goes below the active bin.                     *)
MinSafeBinsBelow   == 35
WideRangeThreshold == 69
PlanDeploy(bins, allowTinyRange) ==
  IF bins < (IF allowTinyRange THEN 1 ELSE MinSafeBinsBelow) THEN {}
  ELSE {[isWideRange |-> bins > WideRangeThreshold]}

(* A wide range is an empty account first, then liquidity in chunks.       *)
Deploy(w) ==
  /\ op[w].step = "idle"
  /\ \E p \in Positions, bins \in Ranges, tiny \in BOOLEAN :
       /\ chain[p] = "none" /\ \A v \in Writers : p \notin op[v].position
       /\ \E plan \in PlanDeploy(bins, tiny) :
            Begin(w, "deploy", p, "send",
                  IF plan.isWideRange THEN <<"empty", "part", "full">> ELSE <<"full">>)
  /\ UNCHANGED <<chain, memory, made>>

(* The pool of a position not seen yet is looked up in a forced read.      *)
Target(w, kind, p) ==
  /\ op[w].step = "idle" /\ chain[p] # "none"
  /\ IF p \in pools
     THEN Begin(w, kind, p, "inspect", <<>>) /\ UNCHANGED <<chain, memory, made>>
     ELSE Begin(w, kind, p, "lookup", <<>>) /\ Question(w, TRUE)
Close(w, p) == Target(w, "close", p)
Claim(w, p) == Target(w, "claim", p)

LookedUp(w) ==
  /\ op[w].step = "lookup" /\ waiting[w] = {}
  /\ op' = [op EXCEPT ![w] = IF op[w].position \subseteq pools THEN [@ EXCEPT !.step = "inspect"] ELSE NoOp]
  /\ UNCHANGED <<chain, memory, made>>

(* getPosition throws on a closed account; no liquidity closes it only.    *)
RemoveAgain(stage) == IF stage = "empty" THEN <<"gone">> ELSE <<"draining", "gone">>  \* mutant
CloseTxs(stage)    == IF stage = "full" THEN <<"draining", "gone">> ELSE <<"gone">>
Inspect(w) ==
  /\ op[w].step = "inspect"
  /\ \E p \in op[w].position :
       \/ /\ chain[p] = "gone" \/ op[w].kind = "claim"      \* nothing to claim
          /\ op' = [op EXCEPT ![w] = NoOp]
       \/ /\ chain[p] # "gone"
          /\ op' = [op EXCEPT ![w].step = "send",
                              ![w].txs = IF op[w].kind = "close" THEN CloseTxs(chain[p]) ELSE <<"claim">>]
  /\ UNCHANGED <<chain, memory, made>>

(* One transaction.  `landed' moves the chain, when the account it touches  *)
(* is still as the transaction was built for.                               *)
Rank == [none |-> 0, empty |-> 1, part |-> 2, full |-> 3, draining |-> 4, gone |-> 5]
Valid(p, tx) == chain[p] # "gone" /\ (IF tx = "claim" THEN TRUE ELSE Rank[chain[p]] < Rank[tx])

(* sendRecoveringExpiry: a confirmation, or an expiry whose status shows    *)
(* the landing, is a success; anything else is not.                         *)
TrustExpiry(landed)  == {"ok", "error"}                        \* mutant: expired, so be it
Reported(landed)     == IF landed THEN {"ok", "error"} ELSE {"error"}

Send(w) ==
  /\ op[w].step = "send" /\ op[w].txs # <<>>
  /\ \E p \in op[w].position, landed \in BOOLEAN :
       LET tx == Head(op[w].txs)
       IN  /\ landed => Valid(p, tx)
           /\ chain' = IF landed /\ tx # "claim" THEN [chain EXCEPT ![p] = tx] ELSE chain
           /\ made' = IF landed /\ tx = "full" THEN made \cup {p} ELSE made
           /\ \E report \in Reported(landed) :
                op' = [op EXCEPT ![w] = IF report = "ok" THEN [op[w] EXCEPT !.txs = Tail(op[w].txs)]
                                                       ELSE NoOp]
  /\ UNCHANGED memory

(* onWriteCommitted, once the last transaction is confirmed.               *)
Commit(w) ==
  /\ op[w].step = "send" /\ op[w].txs = <<>>
  /\ op' = [op EXCEPT ![w].step = "done"]
  /\ value' = {} /\ fresh' = FALSE
  /\ UNCHANGED <<chain, asked, answer, waiting, got, inflight, pools, made>>

Return(w) ==
  /\ op[w].step = "done" /\ op' = [op EXCEPT ![w] = NoOp]
  /\ UNCHANGED <<chain, memory, made>>

Next ==
  \/ \E r \in Readers : GetMyPositions(r)
  \/ \E c \in Callers : ReadChain(c) \/ LoadEnds(c) \/ LoadFails(c)
  \/ Expire
  \/ \E w \in Writers :
       \/ Deploy(w) \/ LookedUp(w) \/ Inspect(w) \/ Send(w) \/ Commit(w) \/ Return(w)
       \/ \E p \in Positions : Close(w, p) \/ Claim(w, p)
Spec == Init /\ [][Next]_vars

(* What the fairness of a run is about: a write goes on, and in the end one  *)
(* of a close's transactions lands and is confirmed.                        *)
Proceeds(w) == LookedUp(w) \/ Inspect(w) \/ Send(w) \/ Commit(w) \/ Return(w)
Lands(w)    == op[w].kind = "close" /\ Send(w) /\ op'[w].step = "send"

---------------------------------------------------------------------------
(* Properties                                                              *)

(* cache.ts:8-15 with its loads implements ChainReads: nobody is answered   *)
(* with a state that never was, and a forced read sees every transaction    *)
(* that landed before it was asked, though loads overlap, fail, and store   *)
(* their snapshots in any order.                                            *)
Reads == INSTANCE ChainReads WITH Readers <- Callers
ReadsAreTrue == Reads!Spec

(* A write that reports success has happened in full, though a transaction  *)
(* expired, another writer raced it, and a chunk failed (send-tx.ts:1-12).  *)
SuccessLanded ==
  \A w \in Writers : op[w].step = "done" =>
    \A p \in op[w].position :
      /\ op[w].kind = "deploy" => p \in made
      /\ op[w].kind = "close" => chain[p] = "gone"

(* What was once fully deployed is in the end gone, though transactions      *)
(* fail between the parts of a close and hands write beside the tick.       *)
CloseFinishes == \A p \in Positions : p \in made ~> chain[p] = "gone"
=============================================================================
